----------------------------- MODULE Statistics -----------------------------
(* What the bot says of its own use: the events the gateway records           *)
(* (middlewares.py, groupguardian.py), the nightly rollup of them (cb_worker/ *)
(* main.py and the SQL of the first migration), and the numbers the API draws *)
(* from the rollups, per group (cb_core/analytics.py) and over all groups     *)
(* (platform_analytics.py).                                                   *)
(*                                                                           *)
(* cb_rollup_day is two INSERTs in one transaction: each has a snapshot of    *)
(* its own, both become visible at once.                                     *)
EXTENDS Integers, FiniteSetsExt

CONSTANTS
  Groups, Users,
  Interactions,  \* what is recorded: records [type, command, outcome]
  DefaultDays, MaxDays,  \* of a window that is asked for
  MaxLimit,      \* the most rows a screen can be asked for, at least one
  LastDay, MaxEvents, Nothing

Days == 0..LastDay
Limits == 1..MaxLimit
Commands == {i.command : i \in Interactions} \ {Nothing}

StatisticsAssumption ==
  /\ {DefaultDays, MaxDays, MaxLimit, LastDay, MaxEvents} \subseteq Nat \ {0}
  /\ DefaultDays <= MaxDays
  /\ IsFiniteSet(Groups) /\ Nothing \notin Nat \X Nat
  /\ \A i \in Interactions :
       /\ i.type \in {"message", "command", "captcha"}
       /\ i.outcome \in {"ok", "error", "issued", "solved"}
       /\ (i.type = "command") = (i.command # Nothing)

VARIABLES
  day,
  known,   \* rows of groups
  buffer,  \* events a gateway has recorded and not written
  events,  \* rows of message_events
  stats,   \* rows of group_daily_stats, by group and day
  usage,   \* rows of command_daily_stats, by group, day and command
  due,     \* the nightly job is still to run
  job,     \* what it is doing
  made,
  owed     \* ghost: events a finished night had in the table when it began

vars == <<day, known, buffer, events, stats, usage, due, job, made, owed>>

-----------------------------------------------------------------------------
Event == [n : 1..MaxEvents, group : Groups, user : Users, what : Interactions, day : Days]

Columns == {"messages", "commands", "errors", "captcha_issued", "captcha_solved"}
Row == [Columns \cup {"active_users"} -> Nat]

Counted(column, e) ==
  CASE column = "messages" -> e.what.type = "message"
    [] column = "commands" -> e.what.type = "command"
    [] column = "errors" -> e.what.outcome = "error"
    [] column = "captcha_issued" -> e.what.type = "captcha" /\ e.what.outcome = "issued"
    [] column = "captcha_solved" -> e.what.type = "captcha" /\ e.what.outcome = "solved"

\* The aggregates of one group's events of one day.
Tally(E) ==
  [c \in Columns \cup {"active_users"} |->
     IF c = "active_users" THEN Cardinality({e.user : e \in E})
     ELSE Cardinality({e \in E : Counted(c, e)})]
Invocations(E) ==
  [invocations |-> Cardinality(E),
   errors |-> Cardinality({e \in E : e.what.outcome = "error"})]

Of(E, g, d) == {e \in E : e.group = g /\ e.day = d}
Using(E, c) == {e \in E : e.what.command = c}
NoRows == [none \in {} |-> none]

Idle == [pc |-> "idle"]

TypeOK ==
  /\ day \in Days /\ made \in 0..MaxEvents
  /\ known \subseteq Groups
  /\ \A e \in buffer \cup events \cup owed : e \in Event
  /\ DOMAIN stats \subseteq Groups \X Days /\ \A k \in DOMAIN stats : stats[k] \in Row
  /\ DOMAIN usage \subseteq Groups \X Days \X Commands
  /\ due \in BOOLEAN
  /\ job # Idle =>
       /\ job.pc \in {"groups", "commands"}
       /\ job.today = day /\ job.at \in {day - 1, day}
       /\ job.had \subseteq events
       /\ DOMAIN job.rows \subseteq Groups \X {job.at}

Init ==
  /\ day = 0 /\ known = {} /\ buffer = {} /\ events = {}
  /\ stats = NoRows /\ usage = NoRows
  /\ due = FALSE /\ job = Idle /\ made = 0 /\ owed = {}

-----------------------------------------------------------------------------
\* An update of a group is handled, or a challenge issued or solved in it: the
\* group's row is there from the first update on.
Record(g, u, what) ==
  /\ made < MaxEvents /\ made' = made + 1
  /\ known' = known \cup {g}
  /\ buffer' = buffer \cup {[n |-> made', group |-> g, user |-> u, what |-> what, day |-> day]}
  /\ UNCHANGED <<day, events, stats, usage, due, job, owed>>

\* A gateway's buffer is written whole, or dropped whole when the INSERT fails.
Flush(batch) ==
  /\ batch # {} /\ batch \subseteq buffer
  /\ buffer' = buffer \ batch
  /\ events' \in {events \cup batch, events}
  /\ UNCHANGED <<day, known, stats, usage, due, job, made, owed>>

\* /leave: the tables of this module have no foreign key to groups.
ForgetGroup(g) ==
  /\ g \in known
  /\ known' = known \ {g}
  /\ UNCHANGED <<day, buffer, events, stats, usage, due, job, made, owed>>

-----------------------------------------------------------------------------
Midnight ==
  /\ day < LastDay /\ job = Idle
  /\ day' = day + 1 /\ due' = TRUE
  /\ UNCHANGED <<known, buffer, events, stats, usage, job, made, owed>>

\* The day the night begins with.
FirstDay_TodayOnly(today) == today
FirstDay(today) == today - 1

Begin ==
  /\ due /\ job = Idle
  /\ due' = FALSE
  /\ job' = [pc |-> "groups", today |-> day, at |-> FirstDay(day), had |-> events,
             rows |-> NoRows]
  /\ UNCHANGED <<day, known, buffer, events, stats, usage, made, owed>>

\* No worker is up at 00:20: a cron tick is not made up for.
MissNight ==
  /\ due /\ job = Idle
  /\ due' = FALSE
  /\ UNCHANGED <<day, known, buffer, events, stats, usage, job, made, owed>>

\* The first INSERT ... SELECT.
AggregateGroups ==
  /\ job.pc = "groups"
  /\ LET active == {g \in Groups : Of(events, g, job.at) # {}} IN
       job' = [job EXCEPT !.pc = "commands",
                 !.rows = [k \in active \X {job.at} |-> Tally(Of(events, k[1], job.at))]]
  /\ UNCHANGED <<day, known, buffer, events, stats, usage, due, made, owed>>

Over(new, old) ==
  [k \in DOMAIN new \cup DOMAIN old |-> IF k \in DOMAIN new THEN new[k] ELSE old[k]]

\* ON CONFLICT DO UPDATE, with the excluded counts added instead of taken over.
Upserted_Adds(new, old) ==
  [k \in DOMAIN new \cup DOMAIN old |->
     IF k \notin DOMAIN new THEN old[k] ELSE
     IF k \notin DOMAIN old THEN new[k] ELSE [c \in DOMAIN new[k] |-> new[k][c] + old[k][c]]]
Upserted(new, old) == Over(new, old)

\* The second INSERT ... SELECT, and the commit; then the next day, or the end.
AggregateCommands ==
  /\ job.pc = "commands"
  /\ stats' = Upserted(job.rows, stats)
  /\ LET called == {k \in Groups \X {job.at} \X Commands :
                      Using(Of(events, k[1], job.at), k[3]) # {}} IN
       usage' = Over([k \in called |-> Invocations(Using(Of(events, k[1], job.at), k[3]))], usage)
  /\ IF job.at = job.today
     THEN /\ job' = Idle
          /\ owed' = owed \cup {e \in job.had : e.day >= job.today - 1}
     ELSE /\ job' = [job EXCEPT !.pc = "groups", !.at = job.today, !.rows = NoRows]
          /\ UNCHANGED owed
  /\ UNCHANGED <<day, known, buffer, events, due, made>>

\* The transaction fails, and with it the job; or the worker is stopped, and arq
\* runs the job again. What was committed stays.
JobDies ==
  /\ job # Idle /\ job' = Idle
  /\ due' \in {due, TRUE}
  /\ UNCHANGED <<day, known, buffer, events, stats, usage, made, owed>>

RollUp == job # Idle /\ (AggregateGroups \/ AggregateCommands)

Next ==
  \/ \E g \in Groups, u \in Users, what \in Interactions : Record(g, u, what)
  \/ \E batch \in SUBSET buffer : Flush(batch)
  \/ \E g \in Groups : ForgetGroup(g)
  \/ Midnight \/ Begin \/ MissNight \/ RollUp \/ JobDies

Spec == Init /\ [][Next]_vars

-----------------------------------------------------------------------------
\* resolve_window: the dates asked for, or Nothing for a 400.
ResolveWindow(start, end, today) ==
  LET s == IF start # Nothing THEN start
           ELSE (IF end # Nothing THEN end ELSE today) - (DefaultDays - 1)
      e == IF end # Nothing THEN end
           ELSE IF start # Nothing THEN start + (DefaultDays - 1) ELSE today
  IN IF s <= e /\ e - s + 1 <= MaxDays THEN <<s, e>> ELSE Nothing

Active(g, w) == {d \in w[1]..w[2] : <<g, d>> \in DOMAIN stats}
Sum(g, w, column) == MapThenSumSet(LAMBDA d : stats[<<g, d>>][column], Active(g, w))
Most(S) == Max(S \cup {0})
Rate(solved, issued) == IF issued = 0 THEN Nothing ELSE <<solved, issued>>

\* summarise, of one group's rows.
GroupSummary(g, w) ==
  [days |-> Cardinality(Active(g, w)),
   totals |-> [c \in Columns |-> Sum(g, w, c)],
   solve_rate |-> Rate(Sum(g, w, "captcha_solved"), Sum(g, w, "captcha_issued")),
   peak_active_users |-> Most({stats[<<g, d>>].active_users : d \in Active(g, w)})]

\* One row per day over all groups, and summarise of those.
ActiveGroups(d) == {g \in Groups : <<g, d>> \in DOMAIN stats}
PlatformDay(d) ==
  [groups |-> Cardinality(ActiveGroups(d)),
   totals |-> [c \in Columns \cup {"active_users"} |->
                 MapThenSumSet(LAMBDA g : stats[<<g, d>>][c], ActiveGroups(d))]]
PlatformSummary(w) ==
  LET days == {d \in w[1]..w[2] : ActiveGroups(d) # {}}
      total(c) == MapThenSumSet(LAMBDA d : PlatformDay(d).totals[c], days)
  IN [days |-> Cardinality(days),
      peak_groups |-> Most({PlatformDay(d).groups : d \in days}),
      totals |-> [c \in Columns |-> total(c)],
      solve_rate |-> Rate(total("captcha_solved"), total("captcha_issued")),
      peak_active_users |-> Most({PlatformDay(d).totals["active_users"] : d \in days})]

\* The active groups: an inner join with groups.
TopGroups(w) ==
  [g \in {g \in known : Active(g, w) # {}} |->
     [messages |-> Sum(g, w, "messages"),
      peak_active_users |-> Most({stats[<<g, d>>].active_users : d \in Active(g, w)})]]

Called(G, c, w) == {k \in DOMAIN usage : k[1] \in G /\ k[3] = c /\ k[2] \in w[1]..w[2]}
Invoked(G, c, w) == MapThenSumSet(LAMBDA k : usage[k].invocations, Called(G, c, w))
GroupCommands(g, w) ==
  [c \in {c \in Commands : Called({g}, c, w) # {}} |-> [invocations |-> Invoked({g}, c, w)]]
PlatformCommands(w) ==
  [c \in {c \in Commands : Called(Groups, c, w) # {}} |->
     [invocations |-> Invoked(Groups, c, w),
      groups |-> Cardinality({k[1] : k \in Called(Groups, c, w)})]]

\* ORDER BY a column, the most first, and LIMIT. Of rows that tie there the
\* queries take the lesser id or name; here any choice among them is an answer.
Busiest(rows, column, limit) ==
  LET Tops == {T \in SUBSET DOMAIN rows :
                 /\ Cardinality(T) <= limit /\ (T # DOMAIN rows => Cardinality(T) = limit)
                 /\ \A x \in T, y \in DOMAIN rows \ T : rows[x][column] >= rows[y][column]}
  IN {[x \in T |-> rows[x]] : T \in Tops}

-----------------------------------------------------------------------------
\* The screens: what a route answers for the dates asked for, or Refused; one
\* with a limit, the answers there are.
Refused == Nothing
Window(start, end) == ResolveWindow(start, end, day)
Screen(start, end, Body(_)) ==
  IF Window(start, end) = Nothing THEN Refused ELSE Body(Window(start, end))

DailyScreen(g, start, end) ==
  Screen(start, end, LAMBDA w : [d \in Active(g, w) |-> stats[<<g, d>>]])
CommandsScreen(g, start, end, limit) ==
  Screen(start, end, LAMBDA w : Busiest(GroupCommands(g, w), "invocations", limit))
SummaryScreen(g, start, end) == Screen(start, end, LAMBDA w : GroupSummary(g, w))

\* Nothing records a token or a cost with an event, so that of a budget of any
\* size nothing is ever spent.
OverviewScreen(start, end) ==
  Screen(start, end, LAMBDA w :
    [reach |-> Cardinality(known), totals |-> PlatformSummary(w), spent |-> 0])
FleetDaily(start, end) ==
  Screen(start, end, LAMBDA w :
    [d \in {d \in w[1]..w[2] : ActiveGroups(d) # {}} |-> PlatformDay(d)])
FleetGroups(start, end, limit) ==
  Screen(start, end, LAMBDA w : Busiest(TopGroups(w), "messages", limit))
FleetCommands(start, end, limit) ==
  Screen(start, end, LAMBDA w : Busiest(PlatformCommands(w), "invocations", limit))

\* Dates to ask for: one pair for each window there is, and one that is refused.
Asked ==
  LET pairs == (Days \cup {Nothing}) \X (Days \cup {Nothing})
      windows == {Window(q[1], q[2]) : q \in pairs}
  IN {CHOOSE q \in pairs : Window(q[1], q[2]) = w : w \in windows}

-----------------------------------------------------------------------------
\* A rollup never says more happened than was recorded, however often its night
\* is run: "the rollup is an idempotent upsert" (worker main.py:100-101).
NotAhead ==
  \A k \in DOMAIN stats, c \in Columns \cup {"active_users"} :
    stats[k][c] <= Tally(Of(events, k[1], k[2]))[c]

\* What was in the table when a night began that ran to its end is counted, for
\* the day before too: "Two days, not one, so late-arriving events near midnight
\* are picked up" (worker main.py:99-100).
NightCounts ==
  \A e \in owed :
    LET k == <<e.group, e.day>> IN
      /\ k \in DOMAIN stats
      /\ \A c \in Columns \cup {"active_users"} : stats[k][c] >= Tally(Of(owed, k[1], k[2]))[c]

\* The two tables of a rollup differ only by what came between its statements:
\* no command is counted for its group and missing under its name.
CommandsFollow ==
  \A k \in DOMAIN stats :
    LET named == {m \in DOMAIN usage : m[1] = k[1] /\ m[2] = k[2]} IN
      stats[k].commands <= MapThenSumSet(LAMBDA m : usage[m].invocations, named)

\* What the screens without a limit have in common: top and daily are the
\* operator's, of and days the groups' own.
TotalsAgree(top, daily, of, days) ==
  /\ \A c \in Columns : top.totals[c] = MapThenSumSet(LAMBDA g : of[g].totals[c], Groups)
  /\ (top.solve_rate = Nothing) = (\A g \in Groups : of[g].solve_rate = Nothing)
  /\ daily = UNION {days[g] : g \in Groups}
  /\ \A g \in Groups : of[g].peak_active_users <= top.peak_active_users

\* A leaderboard of n rows: a group that was active and is not on it was
\* forgotten, or was no busier than any of the n.
BoardAgrees(board, n, of) ==
  /\ \A g \in DOMAIN board : board[g].messages = of[g].totals["messages"]
  /\ \A g \in Groups \ DOMAIN board : g \in known /\ of[g].days > 0 =>
       /\ Cardinality(DOMAIN board) = n
       /\ \A h \in DOMAIN board : board[h].messages >= of[g].totals["messages"]

\* The fleet's commands, n rows, and every group's, m rows: what a group lists the
\* fleet has no fewer of, and if it is missing there then so has each of the n; where
\* no group's list is full, the counts are those of the lists.
NamesAgree(named, n, lists, m) ==
  LET Listing(c) == {g \in Groups : c \in DOMAIN lists[g]} IN
  /\ \A g \in Groups : \A c \in DOMAIN lists[g] :
       /\ c \in DOMAIN named => named[c].invocations >= lists[g][c].invocations
       /\ c \notin DOMAIN named =>
            /\ Cardinality(DOMAIN named) = n
            /\ \A d \in DOMAIN named : named[d].invocations >= lists[g][c].invocations
  /\ \A c \in DOMAIN named : named[c].groups >= Cardinality(Listing(c))
  /\ (\A g \in Groups : Cardinality(DOMAIN lists[g]) < m) =>
       \A c \in DOMAIN named :
         named[c] = [groups |-> Cardinality(Listing(c)),
                     invocations |-> MapThenSumSet(LAMBDA g : lists[g][c].invocations, Listing(c))]

\* One list of each group, of those it may be shown.
ListsAmong(shown) ==
  {f \in [Groups -> UNION {shown[g] : g \in Groups}] : \A g \in Groups : f[g] \in shown[g]}

\* The operator's screens and the groups' own agree over every window and at every
\* length that can be asked for, and are refused together: the fleet's totals and
\* days are the groups', no group has a busier day than the fleet, and what a limit
\* cuts off is nowhere busier than what it shows (routers/admin.py, analytics.py).
\* Looked at between the nights: the screens read the rollups alone, which no
\* buffer and no half of a night changes.
ScreensAgree ==
  job = Idle /\ ~due /\ buffer = {} => \A asked \in Asked :
    LET s == asked[1]
        e == asked[2]
        top == OverviewScreen(s, e)
        of == [g \in Groups |-> SummaryScreen(g, s, e)]
        boards == [n \in Limits |-> FleetGroups(s, e, n)]
        names == [n \in Limits |-> FleetCommands(s, e, n)]
        shown == [m \in Limits |-> [g \in Groups |-> CommandsScreen(g, s, e, m)]]
    IN IF Window(s, e) = Nothing
       THEN {top} \cup {of[g] : g \in Groups} \cup {boards[n] : n \in Limits}
              \cup {names[n] : n \in Limits}
              \cup UNION {{shown[m][g] : g \in Groups} : m \in Limits} = {Refused}
       ELSE /\ TotalsAgree(top.totals, DOMAIN FleetDaily(s, e), of,
                           [g \in Groups |-> DOMAIN DailyScreen(g, s, e)])
            /\ \A n \in Limits : \A board \in boards[n] : BoardAgrees(board, n, of)
            /\ \A n \in Limits, m \in Limits :
                 \A named \in names[n], lists \in ListsAmong(shown[m]) :
                   NamesAgree(named, n, lists, m)

StatisticsHold == NotAhead /\ NightCounts /\ CommandsFollow /\ ScreensAgree
=============================================================================
