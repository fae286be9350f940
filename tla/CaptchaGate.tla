---------------------------- MODULE CaptchaGate ----------------------------
(***************************************************************************)
(* The join captcha of one group: cb_gateway/handlers/groupguardian.py and *)
(* the expire_captchas cron of cb_worker/main.py, over the table           *)
(* captcha_challenges, whose key is (group, user).                         *)
(*                                                                         *)
(* A handler is an asyncio task on some gateway replica.  It reads the     *)
(* pending row once and keeps working on that copy; every await (a         *)
(* statement, a Telegram call) is a step other tasks interleave with.  The *)
(* gate is open throughout: captcha_timeout_seconds > 0, the bot an admin. *)
(* A challenge, its nonce and the message that shows it are one value, as  *)
(* each is created once by the same _issue_challenge.                      *)
(***************************************************************************)
EXTENDS Integers, FiniteSets

CONSTANTS
  Users,        \* newcomers who join by themselves
  Nonces,       \* challenges that can be issued
  Handlers,     \* updates being handled at once, over all replicas
  MaxAttempts,  \* MAX_ATTEMPTS (5 in the code)
  MaxAnswers,   \* bound: answers the newcomers send
  NoNonce       \* the nonce of no challenge

ASSUME NoNonceIsNone == NoNonce \notin Nonces
ASSUME BoundsAreCounts == MaxAttempts \in Nat \ {0} /\ MaxAnswers \in Nat

VARIABLES
  member,    \* Telegram: is the user "out", "in" or "banned"
  row,       \* captcha_challenges: the user's pending row
  minted,    \* challenges made so far
  shown,     \* challenges whose message, with its buttons, is in the chat
  expired,   \* challenges past their expires_at
  task,      \* what each handler is doing, and the row it read
  unbans,    \* sleeping _delayed_unban tasks of each user
  sent,      \* answers sent so far
  armed,     \* ghost: challenges whose row was ever written
  judged,    \* ghost: wrong answers to each challenge that did not end it
  kicked,    \* ghost: kicks each challenge led to
  welcomed,  \* ghost: welcomes each challenge led to
  raced,     \* ghost: challenges some handler of which met another of the same user
  stuck      \* ghost: users a ban of whom nobody was left to lift

chat   == <<member, shown>>
ghosts == <<armed, judged, kicked, welcomed, raced, stuck>>
vars   == <<chat, row, minted, expired, task, unbans, sent, ghosts>>

-----------------------------------------------------------------------------
NoRow == [nonce |-> NoNonce, attempts |-> 0]

\* A pending row: solved_at is never set, a solved row is deleted.
Row == [nonce : Nonces, attempts : 0 .. MaxAttempts - 1]

Idle == [pc |-> "idle"]

Labels == {"ask", "arm", "judge", "succeed", "welcome", "record", "kick", "ban", "unban"}

\* read: the row as this handler knows it (read, or about to be written);
\* right: is the answer right.
Task ==
  {Idle} \cup [pc : Labels, user : Users, read : Row, right : BOOLEAN]

TypeOK ==
  /\ member \in [Users -> {"out", "in", "banned"}]
  /\ row \in [Users -> Row \cup {NoRow}]
  /\ minted \subseteq Nonces /\ shown \subseteq minted /\ armed \subseteq minted
  /\ expired \subseteq armed /\ raced \subseteq minted /\ stuck \subseteq Users
  /\ task \in [Handlers -> Task]
  /\ unbans \in [Users -> Nat]
  /\ sent \in 0 .. MaxAnswers
  /\ judged \in [Nonces -> Nat]
  /\ kicked \in [Nonces -> Nat]
  /\ welcomed \in [Nonces -> Nat]

Init ==
  /\ member = [u \in Users |-> "out"]
  /\ row = [u \in Users |-> NoRow]
  /\ minted = {} /\ shown = {} /\ armed = {} /\ expired = {} /\ raced = {} /\ stuck = {}
  /\ task = [h \in Handlers |-> Idle]
  /\ unbans = [u \in Users |-> 0]
  /\ sent = 0
  /\ judged = [n \in Nonces |-> 0]
  /\ kicked = [n \in Nonces |-> 0]
  /\ welcomed = [n \in Nonces |-> 0]

Pending(u) == row[u] # NoRow

(* An update reaches handler h.  When other handlers of that user are at   *)
(* work, the challenges of all of them are marked as raced.                *)
Start(h, l, u, r, ok) ==
  LET others == {k \in Handlers : task[k] # Idle /\ task[k].user = u} IN
  /\ task[h] = Idle
  /\ task' = [task EXCEPT ![h] = [pc |-> l, user |-> u, read |-> r, right |-> ok]]
  /\ raced' = IF others = {} THEN raced
              ELSE raced \cup {r.nonce} \cup {task[k].read.nonce : k \in others}
  /\ UNCHANGED <<armed, judged, kicked, welcomed, stuck>>

Goto(h, l) == task' = [task EXCEPT ![h].pc = l]
Done(h)    == task' = [task EXCEPT ![h] = Idle]

-----------------------------------------------------------------------------
(* A newcomer joins by themself; on_join finds the gate open and makes a   *)
(* challenge.                                                              *)
Join(h, u, n) ==
  /\ member[u] = "out"
  /\ n \notin minted
  /\ minted' = minted \cup {n}
  /\ Start(h, "ask", u, [nonce |-> n, attempts |-> 0], FALSE)
  /\ member' = [member EXCEPT ![u] = "in"]
  /\ UNCHANGED <<shown, row, expired, unbans, sent>>

(* _issue_challenge sends the message first ...                            *)
Ask(h) ==
  /\ task[h].pc = "ask"
  /\ shown' = shown \cup {task[h].read.nonce}
  /\ Goto(h, "arm")
  /\ UNCHANGED <<member, row, minted, expired, unbans, sent, ghosts>>

(* An upsert that leaves `attempts` out of its DO UPDATE.                  *)
Arm_KeepsAttempts(h) ==
  /\ task[h].pc = "arm"
  /\ row' = [row EXCEPT ![task[h].user].nonce = task[h].read.nonce]
  /\ armed' = armed \cup {task[h].read.nonce}
  /\ Done(h)
  /\ UNCHANGED <<chat, minted, expired, unbans, sent, judged, kicked, welcomed, raced, stuck>>

(* ... and then upserts the row, whatever row the user has by now.         *)
Arm(h) ==
  /\ task[h].pc = "arm"
  /\ row' = [row EXCEPT ![task[h].user] = task[h].read]
  /\ armed' = armed \cup {task[h].read.nonce}
  /\ Done(h)
  /\ UNCHANGED <<chat, minted, expired, unbans, sent, judged, kicked, welcomed, raced, stuck>>

(* Any plain message of a user with a pending row is an answer to it:      *)
(* _is_captcha_reply reads the row, the handler works on that copy.        *)
Answer(h, u, ok) ==
  /\ member[u] = "in" /\ Pending(u)
  /\ sent < MaxAnswers
  /\ sent' = sent + 1
  /\ Start(h, "judge", u, row[u], ok)
  /\ UNCHANGED <<chat, row, minted, expired, unbans>>

(* A press of the message's own buttons finds the row by message id.       *)
Press(h, u, ok) == row[u].nonce \in shown /\ Answer(h, u, ok)

(* An admin's press of Approve goes to _succeed without an answer.         *)
Approve(h, u) ==
  /\ Pending(u) /\ row[u].nonce \in shown
  /\ Start(h, "succeed", u, row[u], TRUE)
  /\ UNCHANGED <<chat, row, minted, expired, unbans, sent>>

(* `attempts > MAX_ATTEMPTS`.                                              *)
MustKick_OffByOne(r) == r.attempts + 1 > MaxAttempts \/ r.nonce \in expired

(* _fail_attempt's two conditions, on the row that was read.               *)
MustKick(r) == r.attempts + 1 >= MaxAttempts \/ r.nonce \in expired

(* _resolve_attempt: a right answer succeeds, expired or not.              *)
Judge(h) ==
  LET t == task[h] IN
  /\ t.pc = "judge"
  /\ Goto(h, IF t.right THEN "succeed" ELSE IF MustKick(t.read) THEN "kick" ELSE "record")
  /\ UNCHANGED <<chat, row, minted, expired, unbans, sent, ghosts>>

(* _delete_challenge names the user, not the challenge.                    *)
DeleteRow(u) == row' = [row EXCEPT ![u] = NoRow]

(* A _succeed that marks the row some other way and leaves it pending.     *)
Succeed_KeepsRow(h) ==
  /\ task[h].pc = "succeed"
  /\ Goto(h, "welcome")
  /\ UNCHANGED <<chat, row, minted, expired, unbans, sent, ghosts>>

Succeed(h) ==
  /\ task[h].pc = "succeed"
  /\ DeleteRow(task[h].user)
  /\ Goto(h, "welcome")
  /\ UNCHANGED <<chat, minted, expired, unbans, sent, ghosts>>

(* The challenge's message goes (a refusal is suppressed), the welcome     *)
(* comes.                                                                  *)
Welcome(h) ==
  /\ task[h].pc = "welcome"
  /\ shown' \in {shown \ {task[h].read.nonce}, shown}
  /\ welcomed' = [welcomed EXCEPT ![task[h].read.nonce] = @ + 1]
  /\ Done(h)
  /\ UNCHANGED <<member, row, minted, expired, unbans, sent, armed, judged, kicked, raced, stuck>>

(* A wrong answer recorded with the upsert instead of the UPDATE.          *)
RecordWrong_Upserts(h) ==
  LET t == task[h] IN
  /\ t.pc = "record"
  /\ row' = [row EXCEPT ![t.user] = [t.read EXCEPT !.attempts = @ + 1]]
  /\ judged' = [judged EXCEPT ![t.read.nonce] = @ + 1]
  /\ Done(h)
  /\ UNCHANGED <<chat, minted, expired, unbans, sent, armed, kicked, welcomed, raced, stuck>>

(* _record_wrong_attempt writes the count computed from the row it read;   *)
(* the UPDATE touches the user's row of now, if there is one.              *)
RecordWrong(h) ==
  LET t == task[h] IN
  /\ t.pc = "record"
  /\ row' = IF Pending(t.user)
            THEN [row EXCEPT ![t.user].attempts = t.read.attempts + 1] ELSE row
  /\ judged' = [judged EXCEPT ![t.read.nonce] = @ + 1]
  /\ Done(h)
  /\ UNCHANGED <<chat, minted, expired, unbans, sent, armed, kicked, welcomed, raced, stuck>>

(* _kick: the row, then the ban, then the text and the unban's task.       *)
KickRow(h) ==
  /\ task[h].pc = "kick"
  /\ DeleteRow(task[h].user)
  /\ kicked' = [kicked EXCEPT ![task[h].read.nonce] = @ + 1]
  /\ Goto(h, "ban")
  /\ UNCHANGED <<chat, minted, expired, unbans, sent, armed, judged, welcomed, raced, stuck>>

Ban(h) ==
  /\ task[h].pc = "ban"
  /\ member' = [member EXCEPT ![task[h].user] = "banned"]
  /\ Goto(h, "unban")
  /\ UNCHANGED <<shown, row, minted, expired, unbans, sent, ghosts>>

(* The call raises: Telegram refused, or its answer was lost on the way    *)
(* and the ban may stand.  error_kick is sent and no unban is scheduled.   *)
BanRefused(h) ==
  LET u == task[h].user IN
  /\ task[h].pc = "ban"
  /\ Done(h)
  /\ \/ UNCHANGED <<member, stuck>>
     \/ member' = [member EXCEPT ![u] = "banned"] /\ stuck' = stuck \cup {u}
  /\ UNCHANGED <<shown, row, minted, expired, unbans, sent, armed, judged, kicked, welcomed, raced>>

(* A kick that never schedules its unban.                                  *)
ScheduleUnban_Forgets(h) ==
  /\ task[h].pc = "unban"
  /\ Done(h)
  /\ UNCHANGED <<chat, row, minted, expired, unbans, sent, ghosts>>

ScheduleUnban(h) ==
  /\ task[h].pc = "unban"
  /\ unbans' = [unbans EXCEPT ![task[h].user] = @ + 1]
  /\ Done(h)
  /\ UNCHANGED <<chat, row, minted, expired, sent, ghosts>>

(* _delayed_unban, 30 seconds later, in the process that scheduled it.     *)
(* Telegram's unbanChatMember, without only_if_banned, leaves the user     *)
(* outside: one who is back in already is removed once more.               *)
Unban(u) ==
  /\ unbans[u] > 0
  /\ unbans' = [unbans EXCEPT ![u] = @ - 1]
  /\ member' = [member EXCEPT ![u] = "out"]
  /\ UNCHANGED <<shown, row, minted, expired, task, sent, ghosts>>

-----------------------------------------------------------------------------
(* The sweep with its condition on solved_at inverted.                     *)
Sweep_OnlySolved ==
  /\ \E u \in Users : row[u].nonce \in expired
  /\ UNCHANGED vars

(* expire_captchas: one DELETE of every row past its expiry, every five    *)
(* minutes.                                                                *)
Sweep ==
  /\ \E u \in Users : row[u].nonce \in expired
  /\ row' = [u \in Users |-> IF row[u].nonce \in expired THEN NoRow ELSE row[u]]
  /\ UNCHANGED <<chat, minted, expired, task, unbans, sent, ghosts>>

Expire(n) ==
  /\ n \in armed \ expired
  /\ expired' = expired \cup {n}
  /\ UNCHANGED <<chat, row, minted, task, unbans, sent, ghosts>>

Leave(u) ==
  /\ member[u] = "in"
  /\ member' = [member EXCEPT ![u] = "out"]
  /\ UNCHANGED <<shown, row, minted, expired, task, unbans, sent, ghosts>>

(* A statement or a call raises, or the replica goes down under it.        *)
Abort(h) ==
  /\ task[h] # Idle
  /\ Done(h)
  /\ stuck' = IF task[h].pc = "unban" THEN stuck \cup {task[h].user} ELSE stuck
  /\ UNCHANGED <<chat, row, minted, expired, unbans, sent, armed, judged, kicked, welcomed, raced>>

(* The replica that held an unban's task goes down inside the 30 seconds,  *)
(* or the unban call fails, which is suppressed.                           *)
LoseUnban(u) ==
  /\ unbans[u] > 0
  /\ unbans' = [unbans EXCEPT ![u] = @ - 1]
  /\ stuck' = stuck \cup {u}
  /\ UNCHANGED <<chat, row, minted, expired, task, sent, armed, judged, kicked, welcomed, raced>>

-----------------------------------------------------------------------------
(* What a handler does by itself once it has an update.                    *)
Work(h) ==
  \/ Ask(h) \/ Arm(h) \/ Judge(h) \/ Succeed(h) \/ Welcome(h) \/ RecordWrong(h)
  \/ KickRow(h) \/ Ban(h) \/ BanRefused(h) \/ ScheduleUnban(h)

Update(h, u) ==
  \/ Approve(h, u)
  \/ \E n \in Nonces : Join(h, u, n)
  \/ \E ok \in BOOLEAN : Answer(h, u, ok) \/ Press(h, u, ok)

Next ==
  \/ \E h \in Handlers : Work(h) \/ Abort(h)
  \/ \E h \in Handlers, u \in Users : Update(h, u)
  \/ \E u \in Users : Unban(u) \/ Leave(u) \/ LoseUnban(u)
  \/ \E n \in Nonces : Expire(n)
  \/ Sweep

Spec == Init /\ [][Next]_vars

(* The event loop runs every task it holds and wakes every sleeper; the    *)
(* clock and the cron go on.  Nobody has to answer or to leave.            *)
Fairness ==
  /\ \A h \in Handlers : WF_vars(Work(h))
  /\ \A u \in Users : WF_vars(Unban(u))
  /\ \A n \in Nonces : WF_vars(Expire(n))
  /\ WF_vars(Sweep)

FairSpec == Spec /\ Fairness

-----------------------------------------------------------------------------
(* A pending newcomer can always still press: while a challenge waits for  *)
(* an answer its message is in the chat, whatever older handlers delete.   *)
PendingHasButtons ==
  \A u \in Users : Pending(u) => row[u].nonce \in shown

(* Once its row is gone a challenge stays gone: a handler still holding a  *)
(* copy (a late wrong answer, a slow join) cannot bring it back.           *)
NoResurrection ==
  [][\A n \in armed : (\A u \in Users : row[u].nonce # n)
                        => \A u \in Users : row'[u].nonce # n]_vars

(* "up to five attempts" (docs/site/content/docs/using/moderation.mdx:15): *)
(* before the one that ends it, a challenge is answered wrongly at most    *)
(* MaxAttempts - 1 times, unless two handlers of its user were at work at  *)
(* once: each would count from the row it had read.                        *)
AttemptsCapped == \A n \in Nonces \ raced : judged[n] < MaxAttempts

(* A challenge ends once: it never both welcomes and removes a newcomer,   *)
(* nor does either twice, as long as its handlers do not overlap.          *)
OneVerdict == \A n \in Nonces \ raced : welcomed[n] + kicked[n] <= 1

(* "a user who left mid-challenge and rejoined gets a fresh nonce/answer/  *)
(* attempts, never a stale row" (_issue_row): the attempts counted against *)
(* a challenge are wrong answers to that challenge.  Only an answer to the *)
(* old one that is still being judged can spoil the new row.               *)
FreshAttempts ==
  \A u \in Users :
    Pending(u) /\ row[u].nonce \notin raced => row[u].attempts <= judged[row[u].nonce]

(* What holds of the rows whatever handlers do with them: types, buttons,  *)
(* and counts that are this challenge's own and below the cap              *)
(* (captcha_challenges in groupguardian.py).                               *)
RowsSound == TypeOK /\ PendingHasButtons /\ AttemptsCapped /\ FreshAttempts

(* No challenge stays pending for ever: the cron sweeps what nobody ends.  *)
PendingEnds ==
  \A n \in Nonces : (\E u \in Users : row[u].nonce = n) ~> (\A u \in Users : row[u].nonce # n)

(* "the block is lifted shortly afterwards" (moderation.mdx:20-21), for    *)
(* everybody but two: one whose unban failed or went down with its process *)
(* (groupguardian.py:504-507 owns up to the latter), and one whose ban     *)
(* Telegram applied and did not answer (:468-479), which it does not.      *)
BanLifted ==
  \A u \in Users : (member[u] = "banned") ~> (member[u] # "banned" \/ u \in stuck)

(* "let the timer run out, and the member is removed" (moderation.mdx:19). *)
TimedOutRemoved ==
  \A u \in Users, n \in Nonces :
    (member[u] = "in" /\ row[u].nonce = n /\ n \in expired)
      ~> (member[u] # "in" \/ welcomed[n] > 0)

=============================================================================
