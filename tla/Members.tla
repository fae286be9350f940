------------------------------ MODULE Members -------------------------------
(***************************************************************************)
(* The register of one group (cb_core/members.py): every replica of the    *)
(* gateway upserts the sender of each update and marks whoever left, the   *)
(* join handler dates the arrival (handlers/mediarestrict.py), the worker  *)
(* marks whom it finds gone while it sends /everyone (jobs/everyone.py).   *)
(* A replica remembers which memberships it has written and skips them.    *)
(***************************************************************************)
EXTENDS Naturals, FiniteSets

CONSTANTS People, Admin, \* Admin may add and remove the others
          Handlers,      \* updates a gateway handles at once
          Gateways, GatewayOf,
          Window,        \* media_restrict_seconds, in ticks
          MaxHours, MaxUpdates,
          Absent

ASSUME MembersAssumption ==
  /\ Admin \notin People /\ Absent \notin Nat
  /\ GatewayOf \in [Handlers -> Gateways]
  /\ {Window, MaxHours, MaxUpdates} \subseteq Nat

Senders == People \cup {Admin}
Updates == [kind : {"join", "left"}, who : People, from : Senders]
             \cup [kind : {"text", "media"}, from : People]

VARIABLES hour,
          present,   \* who is in the group
          inbox,     \* updates Telegram has sent and no replica has taken
          sent,
          member,    \* group_members: joined_at and whether left_at is set
          memo,      \* _seen_memberships of each replica
          task,      \* the update each handler is at, and where in the chain
          fan,       \* the /everyone job: the roster it read, and whom it marks
          witnessed, \* history: when each user's arrival was handled
          deleted,   \* history: whose media was deleted, and when
          failed     \* history: a write failed, or a process was restarted

membersVars ==
  <<hour, present, inbox, sent, member, memo, task, fan, witnessed, deleted, failed>>

Idle == [at |-> "idle"]
Row == [joined : (0..MaxHours) \cup {Absent}, left : BOOLEAN]
Stages == {"mark", "marking", "record", "upsert", "remember", "join", "media"}

MembersTyped ==
  /\ hour \in 0..MaxHours /\ sent \in 0..MaxUpdates /\ failed \in BOOLEAN
  /\ present \subseteq People /\ inbox \subseteq Updates
  /\ member \in [Senders -> Row \cup {Absent}]
  /\ memo \in [Gateways -> SUBSET Senders]
  /\ task \in [Handlers -> {Idle} \cup [at : Stages, update : Updates]]
  /\ fan \in [todo : SUBSET Senders, gone : People \cup {Absent}]
  /\ witnessed \in [People -> SUBSET (0..MaxHours)]
  /\ deleted \subseteq People \X (0..MaxHours)

\* Some were in the group before the bot was.
MembersInit ==
  /\ hour = 0 /\ present \in SUBSET People /\ inbox = {} /\ sent = 0
  /\ member = [s \in Senders |-> Absent]
  /\ memo = [r \in Gateways |-> {}]
  /\ task = [h \in Handlers |-> Idle]
  /\ fan = [todo |-> {}, gone |-> Absent]
  /\ witnessed = [u \in People |-> {}] /\ deleted = {} /\ failed = FALSE

-----------------------------------------------------------------------------
\* A user joins or leaves alone, or the admin adds or removes; anyone talks.
Happens(update, members) ==
  /\ sent < MaxUpdates /\ update \notin inbox
  /\ inbox' = inbox \cup {update} /\ sent' = sent + 1
  /\ present' = members
  /\ UNCHANGED <<hour, member, memo, task, fan, witnessed, deleted, failed>>

Join(u, by) == u \notin present /\ Happens([kind |-> "join", who |-> u, from |-> by], present \cup {u})
Leave(u, by) == u \in present /\ Happens([kind |-> "left", who |-> u, from |-> by], present \ {u})
Talk(u, kind) == u \in present /\ Happens([kind |-> kind, from |-> u], present)

HourPasses ==
  /\ hour < MaxHours
  /\ hour' = hour + 1
  /\ UNCHANGED <<present, inbox, sent, member, memo, task, fan, witnessed, deleted, failed>>

At(h, stage) == task[h].at = stage
Update(h) == task[h].update
From(h) == Update(h).from
Goto(h, stage) == task' = [task EXCEPT ![h].at = stage]
Done(h) == task' = [task EXCEPT ![h] = Idle]

\* register_sender comes first, record_join and the media rule further down.
Take(h, update) ==
  /\ At(h, "idle") /\ update \in inbox
  /\ inbox' = inbox \ {update}
  /\ task' = [task EXCEPT ![h] =
       [at |-> IF update.kind = "left" THEN "mark" ELSE "record", update |-> update]]
  /\ UNCHANGED <<hour, present, sent, member, memo, fan, witnessed, deleted, failed>>

\* mark_left forgets the membership, then updates the row.
Forget(h) ==
  /\ At(h, "mark")
  /\ memo' = [memo EXCEPT ![GatewayOf[h]] = @ \ {Update(h).who}]
  /\ Goto(h, "marking")
  /\ UNCHANGED <<hour, present, inbox, sent, member, fan, witnessed, deleted, failed>>

StampLeft(u) == member' = IF member[u] = Absent THEN member ELSE [member EXCEPT ![u].left = TRUE]

MarkLeft(h) ==
  /\ At(h, "marking")
  /\ \/ StampLeft(Update(h).who) /\ UNCHANGED failed
     \/ failed' = TRUE /\ UNCHANGED member
  /\ Goto(h, "record")
  /\ UNCHANGED <<hour, present, inbox, sent, memo, fan, witnessed, deleted>>

AfterRecord(h) ==
  CASE Update(h).kind = "join" -> Goto(h, "join")
    [] Update(h).kind = "media" -> Goto(h, "media")
    [] OTHER -> Done(h)

\* record: the sender of every update, whoever it is about.
RecordSender(h) ==
  /\ At(h, "record")
  /\ IF From(h) \in memo[GatewayOf[h]] THEN AfterRecord(h) ELSE Goto(h, "upsert")
  /\ UNCHANGED <<hour, present, inbox, sent, member, memo, fan, witnessed, deleted, failed>>

\* A registry write claims to know when the member came.
Membership_Dated(old) ==
  [joined |-> IF old = Absent THEN hour ELSE old.joined, left |-> FALSE]

\* A registry write that overwrites what the row knew.
Membership_Forgets(old) == [joined |-> Absent, left |-> FALSE]

\* _UPSERT_MEMBERSHIP does not say when the member came.
Membership(old) ==
  [joined |-> IF old = Absent THEN Absent ELSE old.joined, left |-> FALSE]

Upsert(h) ==
  /\ At(h, "upsert")
  /\ \/ /\ member' = [member EXCEPT ![From(h)] = Membership(@)]
        /\ Goto(h, "remember") /\ UNCHANGED failed
     \/ AfterRecord(h) /\ failed' = TRUE /\ UNCHANGED member
  /\ UNCHANGED <<hour, present, inbox, sent, memo, fan, witnessed, deleted>>

Remember(h) ==
  /\ At(h, "remember")
  /\ memo' = [memo EXCEPT ![GatewayOf[h]] = @ \cup {From(h)}]
  /\ AfterRecord(h)
  /\ UNCHANGED <<hour, present, inbox, sent, member, fan, witnessed, deleted, failed>>

\* _record_join fills joined_at if it is not known; left_at is not touched.
Arrival(old) ==
  IF old = Absent THEN [joined |-> hour, left |-> FALSE]
  ELSE IF old.joined = Absent THEN [old EXCEPT !.joined = hour] ELSE old

RecordJoin(h) ==
  /\ At(h, "join")
  /\ LET u == Update(h).who
     IN  /\ \/ member' = [member EXCEPT ![u] = Arrival(@)] /\ UNCHANGED failed
            \/ failed' = TRUE /\ UNCHANGED member
         /\ witnessed' = [witnessed EXCEPT ![u] = @ \cup {hour}]
  /\ Done(h)
  /\ UNCHANGED <<hour, present, inbox, sent, memo, fan, deleted>>

\* enforce_media_restriction: no row, or one without a date, restricts nobody.
Restricted(u) ==
  /\ member[u] # Absent /\ ~member[u].left /\ member[u].joined # Absent
  /\ hour - member[u].joined < Window

Enforce(h) ==
  /\ At(h, "media")
  /\ deleted' = IF Restricted(From(h)) THEN deleted \cup {<<From(h), hour>>} ELSE deleted
  /\ Done(h)
  /\ UNCHANGED <<hour, present, inbox, sent, member, memo, fan, witnessed, failed>>

\* The job asks Telegram about each member of the roster it read, and marks
\* whoever is not there any more; the memo it clears is the worker's own, empty.
FanOut ==
  /\ fan.todo = {} /\ fan.gone = Absent
  /\ fan' = [fan EXCEPT !.todo = {u \in People : member[u] # Absent /\ ~member[u].left}]
  /\ fan'.todo # {}
  /\ UNCHANGED <<hour, present, inbox, sent, member, memo, task, witnessed, deleted, failed>>

FanAsk(u) ==
  /\ u \in fan.todo /\ fan.gone = Absent
  /\ fan' = [todo |-> fan.todo \ {u}, gone |-> IF u \in present THEN Absent ELSE u]
  /\ UNCHANGED <<hour, present, inbox, sent, member, memo, task, witnessed, deleted, failed>>

FanMark ==
  /\ fan.gone # Absent
  /\ StampLeft(fan.gone)
  /\ fan' = [fan EXCEPT !.gone = Absent]
  /\ UNCHANGED <<hour, present, inbox, sent, memo, task, witnessed, deleted, failed>>

RestartGateway(r) ==
  /\ memo' = [memo EXCEPT ![r] = {}]
  /\ task' = [h \in Handlers |-> IF GatewayOf[h] = r THEN Idle ELSE task[h]]
  /\ failed' = TRUE
  /\ UNCHANGED <<hour, present, inbox, sent, member, fan, witnessed, deleted>>

MembersNext ==
  \/ \E u \in People, by \in Senders : by \in {u, Admin} /\ (Join(u, by) \/ Leave(u, by))
  \/ \E u \in People, kind \in {"text", "media"} : Talk(u, kind)
  \/ HourPasses
  \/ \E h \in Handlers, update \in inbox : Take(h, update)
  \/ \E h \in Handlers : \/ Forget(h) \/ MarkLeft(h) \/ RecordSender(h) \/ Upsert(h)
                         \/ Remember(h) \/ RecordJoin(h) \/ Enforce(h)
  \/ FanOut \/ (\E u \in People : FanAsk(u)) \/ FanMark
  \/ \E r \in Gateways : RestartGateway(r)

MembersSpec == MembersInit /\ [][MembersNext]_membersVars

-----------------------------------------------------------------------------
\* Only media of a member whose arrival was handled less than the window ago is
\* ever deleted: somebody who was there before the bot, or whose row was made by
\* the register, is not restricted, in whatever order the updates of an arrival
\* and of what the newcomer says are handled (mediarestrict.py, migration 0004).
OnlyNewcomersRestricted ==
  \A d \in deleted : \E t \in witnessed[d[1]] : t <= d[2] /\ d[2] - t < Window

\* A known date of arrival is never changed, by a rejoin least of all
\* (members.py, "a rejoin must not reset the clock").
ClockStands ==
  \A u \in People : member[u] # Absent /\ member[u].joined # Absent
                      => member'[u].joined = member[u].joined
ClockKept == [][ClockStands]_membersVars

\* A member who left is marked when all updates have been handled and nothing
\* failed (handlers/members.py, "left_chat_member -> stamp left_at").
LeaverIsMarked ==
  inbox = {} /\ (\A h \in Handlers : task[h] = Idle) /\ ~failed =>
    \A u \in People \ present : member[u] = Absent \/ member[u].left
=============================================================================
