----------------------------- MODULE Publisher -----------------------------
(***************************************************************************)
(* The publisher network: a channel post is submitted, approved, fanned    *)
(* out to the consenting groups and forwarded into each once a day.        *)
(* cb_gateway/handlers/{publisher,postgetter,deletereposts}.py,            *)
(* cb_worker/jobs/publisher.py, cb_core/{pending_posts,scheduled_posts}.py *)
(*                                                                         *)
(* Every statement and every Telegram call another actor can see between   *)
(* is a step: presses, the approve jobs and the ticks of the delivery cron *)
(* (max_jobs of them at once).  arq keys a tick by the minute it is for:   *)
(* one that starts late, or is run again after a worker's shutdown, works  *)
(* beside the next, and nothing locks the rows they read.  Row ids are     *)
(* drawn in creation order, so the smaller id is the older created_at.     *)
(***************************************************************************)
EXTENDS Integers, FiniteSets

CONSTANTS
  Groups,        \* target groups, which are requester chats too
  Submissions,   \* posts: records [ways (of submitting), key, origin, chat]
  Jobs,          \* publisher_approve jobs queued or running at once
  Ticks,         \* deliver_scheduled_posts jobs running at once
  DayOptions,    \* days the approval keyboard offers (1, 3 and 7)
  RepostDays,    \* days asked of /repost
  MaxPosts,      \* max_posts of every group
  TickLimit,     \* rows a tick reads at most (500)
  MaxRows,       \* bound: scheduled_posts rows ever inserted
  MaxReposts,    \* bound: /repost commands
  MaxSubmitted,  \* bound: submissions made
  Faults,        \* may statements and calls fail, workers restart
  DaysPass,      \* do rows come due, or is it all one evening's approvals
  Gone           \* no row

ASSUME SubmissionsAreRecords ==
  \A s \in Submissions :
     /\ DOMAIN s = {"ways", "key", "origin", "chat"}
     /\ s.ways \subseteq {"publish", "linked"} /\ s.chat \in Groups
ASSUME CountsAreNats ==
  /\ DayOptions \subseteq Nat \ {0} /\ RepostDays \subseteq Nat
  /\ MaxPosts \in Nat /\ MaxRows \in Nat /\ MaxReposts \in Nat /\ MaxSubmitted \in Nat
ASSUME TicksAreFinite == IsFiniteSet(Ticks) /\ TickLimit \in Nat \ {0}
ASSUME SwitchesAreFlags == Faults \in BOOLEAN /\ DaysPass \in BOOLEAN

Ids     == 1 .. MaxRows
Keys    == {s.key : s \in Submissions}
Origins == {s.origin : s \in Submissions}

\* origin_title of a /repost is the group's own title, no channel's.
Row == [group : Groups, origin : Origins \cup Groups, chat : Groups, days : Int, due : BOOLEAN]

ASSUME GoneIsNoRow == Gone \notin Row
ASSUME ChannelsAreNoGroups == Origins \cap Groups = {}

VARIABLES
  pending,    \* publisher:pending:<key> entries in Valkey
  offered,    \* submissions whose "share post?" prompt is in their group
  asked,      \* submissions whose prompt is in the approval chat
  consent,    \* groups whose publisher_post is on
  rows,       \* scheduled_posts, by id
  made,       \* ids drawn so far
  reposts,    \* /repost commands so far
  job,        \* what each approve job is doing
  tick,       \* what each tick of the delivery cron is doing
  submitted,  \* ghost: submissions made
  lost,       \* ghost: keys denied, expired or used up by a finished job
  granted,    \* ghost: days_remaining each row began with
  sent,       \* ghost: forwards of each row
  ended,      \* ghost: rows an admin cancelled or the delivery found refused
  spent,      \* ghost: rows of whose last due day a tick has spent one
  again,      \* ghost: days of each row that a tick spent after another had
  crowded     \* ghost: groups two approve jobs were filling at once

gateway == <<pending, offered, asked, consent, submitted, lost>>
table   == <<rows, made, reposts, granted, ended>>
twice   == <<spent, again>>
vars    == <<gateway, table, job, tick, sent, twice, crowded>>

-----------------------------------------------------------------------------
IdleJob  == [pc |-> "idle"]
IdleTick == [pc |-> "idle"]

\* excess is what trim_to_max counted.
Job == {IdleJob} \cup
  [pc : {"queued", "render", "next", "count", "trim", "create", "discard"},
   sub : Submissions, days : DayOptions, todo : SUBSET Groups,
   group : Groups, excess : Int]

\* A due row as due_before returned it.
Due == [id : Ids, days : Int, group : Groups]

Tick == {IdleTick} \cup
  [pc : {"spend"}, snap : SUBSET Due] \cup
  [pc : {"consent", "forward"}, snap : SUBSET Due, cur : Due]

TypeOK ==
  /\ pending \subseteq Keys /\ lost \subseteq Keys
  /\ offered \subseteq submitted /\ asked \subseteq submitted /\ submitted \subseteq Submissions
  /\ consent \subseteq Groups
  /\ made \in 0 .. MaxRows /\ reposts \in 0 .. MaxReposts
  /\ rows \in [Ids -> Row \cup {Gone}]
  /\ \A i \in Ids : i > made => rows[i] = Gone /\ sent[i] = 0 /\ ended[i] = "no" /\ i \notin spent
  /\ job \in [Jobs -> Job]
  /\ tick \in [Ticks -> Tick]
  /\ granted \in [Ids -> Nat] /\ sent \in [Ids -> Nat]
  /\ ended \in [Ids -> {"no", "cancelled", "refused"}]
  /\ crowded \subseteq Groups
  /\ spent \subseteq Ids /\ again \in [Ids -> Nat]

Init ==
  /\ pending = {} /\ lost = {} /\ offered = {} /\ asked = {} /\ submitted = {}
  /\ consent = Groups
  /\ rows = [i \in Ids |-> Gone] /\ made = 0 /\ reposts = 0
  /\ job = [j \in Jobs |-> IdleJob]
  /\ tick = [t \in Ticks |-> IdleTick]
  /\ granted = [i \in Ids |-> 0] /\ sent = [i \in Ids |-> 0]
  /\ ended = [i \in Ids |-> "no"]
  /\ crowded = {}
  /\ spent = {} /\ again = [i \in Ids |-> 0]

Live      == {i \in Ids : rows[i] # Gone}
LiveIn(g) == {i \in Live : rows[i].group = g}

Without(S) == [i \in Ids |-> IF i \in S THEN Gone ELSE rows[i]]

\* A call whose failure is swallowed either has its effect or has none.
Maybe(new, old) == {new} \cup (IF Faults THEN {old} ELSE {})

-----------------------------------------------------------------------------
(* /publish in a group: the post is cached, the approval chat asked.       *)
Submit(s) ==
  /\ "publish" \in s.ways /\ s \notin submitted
  /\ Cardinality(submitted) < MaxSubmitted
  /\ submitted' = submitted \cup {s}
  /\ pending' \in Maybe(pending \cup {s.key}, pending)
  /\ asked' = asked \cup {s}
  /\ UNCHANGED <<offered, consent, lost, table, job, tick, sent, twice, crowded>>

(* A linked channel's post is forwarded in: cached, and "share post?".     *)
Offer(s) ==
  /\ "linked" \in s.ways /\ s \notin submitted
  /\ Cardinality(submitted) < MaxSubmitted
  /\ submitted' = submitted \cup {s}
  /\ pending' \in Maybe(pending \cup {s.key}, pending)
  /\ offered' = offered \cup {s}
  /\ UNCHANGED <<asked, consent, lost, table, job, tick, sent, twice, crowded>>

(* The check mark under it: the prompt goes, the approval chat is asked.   *)
(* The cross (Decline) deletes the prompt and nothing else.                *)
PressShare(s) ==
  /\ s \in offered
  /\ offered' \in {offered \ {s}, offered}
  /\ asked' = asked \cup {s}
  /\ UNCHANGED <<pending, consent, submitted, lost, table, job, tick, sent, twice, crowded>>

Decline(s) ==
  /\ s \in offered
  /\ offered' = offered \ {s}
  /\ UNCHANGED <<pending, asked, consent, submitted, lost, table, job, tick, sent, twice, crowded>>

(* An approve press: the prompt goes if Telegram deletes it, and the job   *)
(* is queued unless the broker is down, which nobody is told.              *)
PressApprove(j, s, d) ==
  /\ s \in asked
  /\ job[j] = IdleJob
  /\ asked' \in {asked \ {s}, asked}
  /\ job' \in Maybe([job EXCEPT ![j] =
       [pc |-> "queued", sub |-> s, days |-> d, todo |-> {}, group |-> s.chat, excess |-> 0]], job)
  /\ UNCHANGED <<pending, offered, consent, submitted, lost, table, tick, sent, twice, crowded>>

(* A deny press: the prompt goes, the entry of that key is discarded.      *)
PressDeny(s) ==
  /\ s \in asked
  /\ asked' \in {asked \ {s}, asked}
  /\ pending' \in Maybe(pending \ {s.key}, pending)
  /\ lost' = lost \cup {s.key}
  /\ UNCHANGED <<offered, consent, submitted, table, job, tick, sent, twice, crowded>>

(* publisher_pending_ttl_seconds pass.                                     *)
ForgetPending(k) ==
  /\ k \in pending
  /\ pending' = pending \ {k}
  /\ lost' = lost \cup {k}
  /\ UNCHANGED <<offered, asked, consent, submitted, table, job, tick, sent, twice, crowded>>

Insert(g, o, c, d) ==
  /\ made < MaxRows
  /\ made' = made + 1
  /\ rows' = [rows EXCEPT ![made + 1] =
                [group |-> g, origin |-> o, chat |-> c, days |-> d, due |-> FALSE]]
  /\ granted' = [granted EXCEPT ![made + 1] = d]

(* /repost: a row of the group for itself; no trim, no older row deleted.  *)
Repost(g, d) ==
  /\ reposts < MaxReposts
  /\ reposts' = reposts + 1
  /\ Insert(g, g, g, d)
  /\ UNCHANGED <<gateway, ended, job, tick, sent, twice, crowded>>

(* /deleteposts: one DELETE of every row the chat requested.               *)
CancelPosts(c) ==
  LET S == {i \in Live : rows[i].chat = c} IN
  /\ S # {}
  /\ rows' = Without(S)
  /\ ended' = [i \in Ids |-> IF i \in S THEN "cancelled" ELSE ended[i]]
  /\ UNCHANGED <<gateway, made, reposts, granted, job, tick, sent, twice, crowded>>

(* An admin turns publisher_post on or off.                                *)
ToggleConsent(g) ==
  /\ consent' = IF g \in consent THEN consent \ {g} ELSE consent \cup {g}
  /\ UNCHANGED <<pending, offered, asked, submitted, lost, table, job, tick, sent, twice, crowded>>

-----------------------------------------------------------------------------
(* publisher_approve.                                                      *)
At(j, l)      == job[j].pc = l
Goto(j, l)    == job' = [job EXCEPT ![j].pc = l]
FinishJob(j)  == job' = [job EXCEPT ![j] = IdleJob]
NextGroup(j)  == job' = [job EXCEPT ![j].pc = "next", ![j].todo = @ \ {job[j].group}]

(* A fetch that consumes the entry, as v1's prepare_post did.              *)
Fetch_Takes(j) ==
  /\ At(j, "queued")
  /\ job' = [job EXCEPT ![j] = IF @.sub.key \in pending THEN [@ EXCEPT !.pc = "render"] ELSE IdleJob]
  /\ pending' = pending \ {job[j].sub.key}
  /\ UNCHANGED <<offered, asked, consent, submitted, lost, table, tick, sent, twice, crowded>>

(* The entry is read, not consumed; without one publish_expired is the     *)
(* answer and the job is over.                                             *)
Fetch(j) ==
  /\ At(j, "queued")
  /\ job' = [job EXCEPT ![j] = IF @.sub.key \in pending THEN [@ EXCEPT !.pc = "render"] ELSE IdleJob]
  /\ UNCHANGED <<gateway, table, tick, sent, twice, crowded>>

(* The post is rendered into the Mural and the targets are read: the       *)
(* consenting groups whose sfw and members-only settings let it in.        *)
Render(j) ==
  /\ At(j, "render")
  /\ \E T \in SUBSET consent : job' = [job EXCEPT ![j].pc = "next", ![j].todo = T]
  /\ UNCHANGED <<gateway, table, tick, sent, twice, crowded>>

\* Jobs between deleting the old campaign of a group and inserting the new.
Filling(g) == {j \in Jobs : job[j].pc \in {"count", "trim", "create"} /\ job[j].group = g}

\* delete_by_origin_title of a group and a channel.
SameCampaign(g, o) == {i \in LiveIn(g) : rows[i].origin = o}

DropOld(j, g) ==
  /\ At(j, "next") /\ g \in job[j].todo
  /\ rows' = Without(SameCampaign(g, job[j].sub.origin))
  /\ job' = [job EXCEPT ![j].pc = "count", ![j].group = g]
  /\ crowded' = IF Filling(g) = {} THEN crowded ELSE crowded \cup {g}
  /\ UNCHANGED <<gateway, made, reposts, granted, ended, tick, sent, twice>>

\* trim_to_max returns at once when max_posts is not positive.
Excess(g) == IF MaxPosts = 0 THEN 0 ELSE Cardinality(LiveIn(g)) + 1 - MaxPosts

CountRows(j) ==
  /\ At(j, "count")
  /\ LET n == Excess(job[j].group) IN
       job' = [job EXCEPT ![j].pc = IF n <= 0 THEN "create" ELSE "trim", ![j].excess = n]
  /\ UNCHANGED <<gateway, table, tick, sent, twice, crowded>>

Oldest(g, n) == {i \in LiveIn(g) : Cardinality({k \in LiveIn(g) : k < i}) < n}

TrimOldest(j) ==
  /\ At(j, "trim")
  /\ rows' = Without(Oldest(job[j].group, job[j].excess))
  /\ Goto(j, "create")
  /\ UNCHANGED <<gateway, made, reposts, granted, ended, tick, sent, twice, crowded>>

(* A creation that may be sent again for want of its answer.               *)
CreateRow_Again(j) ==
  LET mine == job[j] IN
  /\ At(j, "create")
  /\ Insert(mine.group, mine.sub.origin, mine.sub.chat, mine.days)
  /\ NextGroup(j) \/ UNCHANGED job
  /\ UNCHANGED <<gateway, reposts, ended, tick, sent, twice, crowded>>

CreateRow(j) ==
  LET mine == job[j] IN
  /\ At(j, "create")
  /\ Insert(mine.group, mine.sub.origin, mine.sub.chat, mine.days)
  /\ NextGroup(j)
  /\ UNCHANGED <<gateway, reposts, ended, tick, sent, twice, crowded>>

(* One group's statement raises; the loop goes on with the next.           *)
GroupFails(j) ==
  /\ Faults
  /\ job[j].pc \in {"count", "trim", "create"}
  /\ NextGroup(j)
  /\ UNCHANGED <<gateway, table, tick, sent, twice, crowded>>

LoopEnds(j) ==
  /\ At(j, "next") /\ job[j].todo = {}
  /\ Goto(j, "discard")
  /\ UNCHANGED <<gateway, table, tick, sent, twice, crowded>>

Discard(j) ==
  /\ At(j, "discard")
  /\ pending' \in Maybe(pending \ {job[j].sub.key}, pending)
  /\ lost' = lost \cup {job[j].sub.key}
  /\ FinishJob(j)
  /\ UNCHANGED <<offered, asked, consent, submitted, table, tick, sent, twice, crowded>>

(* An exception or job_timeout ends the job; arq runs one again that a     *)
(* worker's shutdown cut short.                                            *)
JobDies(j) ==
  /\ Faults
  /\ job[j].pc \notin {"idle", "queued"}
  /\ FinishJob(j)
  /\ UNCHANGED <<gateway, table, tick, sent, twice, crowded>>

JobReruns(j) ==
  /\ Faults
  /\ job[j].pc \notin {"idle", "queued"}
  /\ job' = [job EXCEPT ![j].pc = "queued", ![j].todo = {}]
  /\ UNCHANGED <<gateway, table, tick, sent, twice, crowded>>

-----------------------------------------------------------------------------
(* deliver_scheduled_posts: the due rows are read once (those due longest, *)
(* if they are more than the LIMIT), then taken one by one.                *)
TickStarts(t, due) ==
  LET all == {i \in Live : rows[i].due} IN
  /\ tick[t] = IdleTick
  /\ due # {} /\ due \subseteq all
  /\ due = all \/ Cardinality(due) = TickLimit
  /\ tick' = [tick EXCEPT ![t] =
       [pc |-> "spend",
        snap |-> {[id |-> i, days |-> rows[i].days, group |-> rows[i].group] : i \in due}]]
  /\ UNCHANGED <<gateway, table, job, sent, twice, crowded>>

(* The tick moves to its next row, or is over.                             *)
NextPost(t) ==
  tick' = [tick EXCEPT ![t] =
    IF @.snap = {} THEN IdleTick ELSE [pc |-> "spend", snap |-> @.snap]]

\* A row's day is spent, and its next_run_at is tomorrow's.
Later(r) == [r EXCEPT !.days = @ - 1, !.due = FALSE]

(* A tick that spends a day only when one is left over.                    *)
SpendRow_KeepsLast(p) ==
  IF p.days <= 0 THEN Without({p.id})
  ELSE [rows EXCEPT ![p.id] = IF @ = Gone THEN Gone ELSE Later(@)]

(* A tick that only moves next_run_at.                                     *)
SpendRow_MovesOnly(p) ==
  IF p.days <= 1 THEN Without({p.id})
  ELSE [rows EXCEPT ![p.id] = IF @ = Gone THEN Gone ELSE [@ EXCEPT !.due = FALSE]]

(* advance_or_expire: the days the tick read decide, the last one deletes; *)
(* what is taken off is a day of the row as it is by now.                  *)
SpendRow(p) ==
  IF p.days <= 1 THEN Without({p.id})
  ELSE [rows EXCEPT ![p.id] = IF @ = Gone THEN Gone ELSE Later(@)]

\* The due rows this tick has not come to yet, and the one it is about to send.
Waiting(t) == IF tick[t].pc = "idle" THEN {} ELSE tick[t].snap
Unspent(t) == IF tick[t].pc = "spend" THEN tick[t].snap ELSE {}
Owes(t, i) == tick[t].pc \in {"consent", "forward"} /\ tick[t].cur.id = i
Holds(t, i) == Owes(t, i) \/ \E p \in Waiting(t) : p.id = i

SpendDay(t, p) ==
  /\ p \in Unspent(t)
  /\ rows' = SpendRow(p)
  /\ tick' = [tick EXCEPT ![t] = [pc |-> "consent", snap |-> @.snap \ {p}, cur |-> p]]
  /\ spent' = spent \cup {p.id}
  /\ again' = IF p.id \in spent THEN [again EXCEPT ![p.id] = @ + 1] ELSE again
  /\ UNCHANGED <<gateway, made, reposts, granted, ended, job, sent, crowded>>

Refuse(i) ==
  /\ rows' = Without({i})
  /\ ended' = [ended EXCEPT ![i] = "refused"]

(* What get_config says of publisher_post: DEFAULTS, which is off, when    *)
(* the group's row cannot be read.                                         *)
ConfigSays(g) == {g \in consent} \cup (IF Faults THEN {FALSE} ELSE {})

(* An opt-out that pauses the row instead of deleting it.                  *)
CheckConsent_Pauses(t) ==
  /\ tick[t].pc = "consent"
  /\ \/ /\ TRUE \in ConfigSays(tick[t].cur.group)
        /\ tick' = [tick EXCEPT ![t].pc = "forward"]
        /\ UNCHANGED <<rows, ended>>
     \/ /\ FALSE \in ConfigSays(tick[t].cur.group)
        /\ ended' = [ended EXCEPT ![tick[t].cur.id] = "refused"]
        /\ NextPost(t)
        /\ UNCHANGED rows
  /\ UNCHANGED <<gateway, made, reposts, granted, job, sent, twice, crowded>>

(* The group's config: publisher_post off deletes the row for good.        *)
CheckConsent(t) ==
  /\ tick[t].pc = "consent"
  /\ \/ /\ TRUE \in ConfigSays(tick[t].cur.group)
        /\ tick' = [tick EXCEPT ![t].pc = "forward"]
        /\ UNCHANGED <<rows, ended>>
     \/ /\ FALSE \in ConfigSays(tick[t].cur.group)
        /\ Refuse(tick[t].cur.id) /\ NextPost(t)
  /\ UNCHANGED <<gateway, made, reposts, granted, job, sent, twice, crowded>>

\* The forward's own row, once more in its group.
Delivered(t) == sent' = [sent EXCEPT ![tick[t].cur.id] = @ + 1]

Forwarded(t) ==
  /\ tick[t].pc = "forward"
  /\ Delivered(t)
  /\ NextPost(t)
  /\ UNCHANGED <<gateway, table, job, twice, crowded>>

(* Telegram answers Forbidden or BadRequest.                               *)
ForwardRejected(t) ==
  /\ tick[t].pc = "forward"
  /\ Refuse(tick[t].cur.id)
  /\ NextPost(t)
  /\ UNCHANGED <<gateway, made, reposts, granted, job, sent, twice, crowded>>

(* Any other exception, a lost answer to a post that went out among them:  *)
(* the row is left as it is.                                               *)
ForwardFails(t) ==
  /\ tick[t].pc = "forward"
  /\ Delivered(t) \/ UNCHANGED sent
  /\ NextPost(t)
  /\ UNCHANGED <<gateway, table, job, twice, crowded>>

(* job_timeout, a restart or a statement that raises ends the tick, its    *)
(* forward under way.                                                      *)
TickDies(t) ==
  /\ Faults
  /\ tick[t] # IdleTick
  /\ tick' = [tick EXCEPT ![t] = IdleTick]
  /\ UNCHANGED sent \/ (tick[t].pc = "forward" /\ Delivered(t))
  /\ UNCHANGED <<gateway, table, job, twice, crowded>>

(* next_run_at of row i passes: a day is far longer than a tick, so that   *)
(* none that read the row for the day before is still at work.             *)
ComeDue(i) ==
  /\ DaysPass
  /\ \A t \in Ticks : ~Holds(t, i)
  /\ i \in Live /\ ~ rows[i].due
  /\ rows' = [rows EXCEPT ![i].due = TRUE]
  /\ spent' = spent \ {i}
  /\ UNCHANGED <<gateway, made, reposts, granted, ended, job, tick, sent, again, crowded>>

-----------------------------------------------------------------------------
Press ==
  \/ \E s \in Submissions :
       Submit(s) \/ Offer(s) \/ PressShare(s) \/ Decline(s) \/ PressDeny(s)
  \/ \E j \in Jobs, s \in Submissions, d \in DayOptions : PressApprove(j, s, d)
  \/ \E k \in Keys : ForgetPending(k)
  \/ \E g \in Groups : CancelPosts(g) \/ ToggleConsent(g) \/ \E d \in RepostDays : Repost(g, d)

Approval(j) ==
  \/ Fetch(j) \/ Render(j) \/ CountRows(j) \/ TrimOldest(j) \/ CreateRow(j) \/ LoopEnds(j)
  \/ Discard(j) \/ GroupFails(j) \/ JobDies(j) \/ JobReruns(j)
  \/ \E g \in Groups : DropOld(j, g)

Delivery(t) ==
  \/ CheckConsent(t) \/ Forwarded(t) \/ ForwardRejected(t) \/ ForwardFails(t)
  \/ \E due \in SUBSET Live : TickStarts(t, due)
  \/ \E p \in Unspent(t) : SpendDay(t, p)

Next ==
  \/ Press
  \/ \E j \in Jobs : Approval(j)
  \/ \E t \in Ticks : Delivery(t) \/ TickDies(t)
  \/ \E i \in Ids : ComeDue(i)

Spec == Init /\ [][Next]_vars

\* A tick gets to row i.
Reach(i) == \E t \in Ticks : \E p \in Unspent(t) : p.id = i /\ SpendDay(t, p)

(* The cron fires every five minutes and each day comes; a tick may die    *)
(* anywhere, but not every tick before it gets to the same row.  Nobody    *)
(* has to press anything, and no forward has to succeed.                   *)
FairSpec ==
  /\ Spec
  /\ \A t \in Ticks : WF_vars(Delivery(t))
  /\ \A i \in Ids : WF_vars(ComeDue(i)) /\ SF_vars(Reach(i))

-----------------------------------------------------------------------------
\* What a grant is worth: /repost 0 still goes out once.
Worth(d) == IF d <= 0 THEN 1 ELSE d

(* A campaign approved for N days is forwarded into a group at most N      *)
(* times, whatever crashes, reruns and races come between (a day is spent  *)
(* before the send, cb_core/scheduled_posts.py:181-187), but for the days  *)
(* that overlapping ticks spent again, a forward for each.                 *)
DaysBudget ==
  \A i \in Ids :
    sent[i] + (IF i \in Live /\ rows[i].days > 0 THEN rows[i].days ELSE 0)
      <= Worth(granted[i]) + again[i]

(* "withdrawal of consent is final, not a hold" (jobs/publisher.py:549):   *)
(* no tick reads a row anew whose group was found to have opted out or to  *)
(* have removed the bot, even when the group opts back in, and none sends  *)
(* it but one that overlapped the tick that found it.                      *)
RefusalIsFinal ==
  [][\A i \in Ids : ended[i] = "refused" =>
       /\ \A t \in Ticks : Holds(t, i)' => Holds(t, i)
       /\ again[i] = 0 => sent'[i] = sent[i]]_vars

(* "One live campaign per source channel, per target group"                *)
(* (cb_core/scheduled_posts.py:221), unless two approve jobs fill that     *)
(* group at once: deletion and insertion are statements of their own.      *)
OneCampaign ==
  \A g \in Groups \ crowded, o \in Origins : Cardinality(SameCampaign(g, o)) <= 1

(* The rows are rows, and no group has two campaigns of one channel.      *)
CampaignsSound == TypeOK /\ OneCampaign

(* max_posts is "how many campaigns may target this group at once"         *)
(* (.specs/features/util_postgetter/spec.md:17-18): with the same proviso, *)
(* only a /repost, which never trims, takes a group past it, by one.       *)
CapRespected ==
  MaxPosts > 0 =>
    \A g \in Groups \ crowded : Cardinality(LiveIn(g)) <= MaxPosts + reposts

(* "Read, don't consume" (jobs/publisher.py:423-431): for as long as an    *)
(* approve job could be cut short and run again its post is there to be    *)
(* rendered, unless it was denied, expired or served by another job.       *)
RerunFindsPost ==
  \A j \in Jobs :
    job[j].pc \notin {"idle", "queued"} =>
      job[j].sub.key \in pending \/ job[j].sub.key \in lost

(* "a permanently broken target still drains on its original schedule      *)
(* rather than living forever" (jobs/publisher.py:576-578).                *)
Drains == \A i \in Ids : i \in Live ~> i \notin Live

=============================================================================
