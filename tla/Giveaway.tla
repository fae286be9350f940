------------------------------ MODULE Giveaway ------------------------------
(***************************************************************************)
(* The /giveaway command and its buttons in one group:                     *)
(* cb_gateway/handlers/giveaway.py, the rows of cb_core/giveaways.py and   *)
(* the prize waiting in Valkey, cb_core/pending_giveaways.py.              *)
(*                                                                         *)
(* Every button press is a task of its own on some replica; each statement *)
(* and each Telegram call whose effect another press can see is a step.    *)
(* A press goes by the message its button is on: the raffle is whatever    *)
(* row points at that message when the handler asks.                       *)
(***************************************************************************)
EXTENDS FiniteSets

CONSTANTS
  Prompts,     \* /giveaway commands: the token in Valkey and its keyboard
  Raffles,     \* giveaway_id values
  Messages,    \* announcements and "draw more?" messages that can be sent
  Members,     \* people who press "enter"
  Handlers,    \* presses being handled at once, over all replicas
  Nothing      \* no raffle, no message, no prompt

ASSUME NothingIsNothing == Nothing \notin Prompts \cup Raffles \cup Messages \cup Members

VARIABLES
  pending,   \* prompts whose prize is in Valkey
  prompts,   \* prompts whose keyboard is in the chat
  shown,     \* announcements and follow-ups in the chat
  sentMsgs,  \* messages ever sent
  more,      \* those that ask "draw more?": a tick (end) and a cross (delete)
  at,        \* at[g]: message_id of raffle g's row, Nothing when it has no row
  entrants,  \* giveaway_participants of each raffle
  task,      \* what each handler is doing
  asked,     \* ghost: prompts ever opened
  madeFrom,  \* ghost: the prompt each raffle was created from
  closed,    \* ghost: raffles whose row has been deleted
  raced      \* ghost: raffles that two administering presses met over, prompts
             \*        that two counts did or whose prize was not deleted

chat   == <<prompts, shown, sentMsgs, more>>
table  == <<at, entrants>>
ghosts == <<asked, madeFrom, closed, raced>>
vars   == <<pending, chat, table, task, ghosts>>

-----------------------------------------------------------------------------
Idle == [pc |-> "idle"]

Labels == {"drop", "announce", "insert", "enter", "draw", "follow", "repoint", "close", "clean"}

\* on: the message or prompt pressed; raffle: the row it resolved to;
\* new: the message this handler has sent; who: the member entering.
Task == {Idle} \cup
  [pc : Labels, on : Messages \cup Prompts, raffle : Raffles \cup {Nothing},
   new : Messages \cup {Nothing}, who : Members \cup {Nothing}]

TypeOK ==
  /\ pending \subseteq Prompts /\ prompts \subseteq Prompts /\ asked \subseteq Prompts
  /\ sentMsgs \subseteq Messages /\ shown \subseteq sentMsgs /\ more \subseteq sentMsgs
  /\ at \in [Raffles -> sentMsgs \cup {Nothing}]
  /\ entrants \in [Raffles -> SUBSET Members]
  /\ task \in [Handlers -> Task]
  /\ madeFrom \in [Raffles -> Prompts \cup {Nothing}]
  /\ closed \subseteq Raffles
  /\ raced \subseteq Raffles \cup Prompts

Init ==
  /\ pending = {} /\ prompts = {} /\ shown = {} /\ sentMsgs = {} /\ more = {} /\ asked = {} /\ closed = {} /\ raced = {}
  /\ at = [g \in Raffles |-> Nothing]
  /\ entrants = [g \in Raffles |-> {}]
  /\ task = [h \in Handlers |-> Idle]
  /\ madeFrom = [g \in Raffles |-> Nothing]

Live == {g \in Raffles : at[g] # Nothing}

\* by_message: at most one row, the message index is unique.
ByMessage(m) == IF \E g \in Live : at[g] = m THEN CHOOSE g \in Live : at[g] = m ELSE Nothing

Start(h, l, m, g, u) ==
  /\ task[h] = Idle
  /\ task' = [task EXCEPT ![h] = [pc |-> l, on |-> m, raffle |-> g, new |-> Nothing, who |-> u]]

\* What handler k, if it is not just entering a member, has to do with.
About(k) ==
  IF task[k].pc \in {"idle", "enter"} THEN {}
  ELSE {task[k].on, task[k].raffle, task[k].new} \ {Nothing}

(* A press about things S begins: what it has in common with one at work,  *)
(* and the raffles of both, have been raced for.                           *)
Meet(S) ==
  LET met == {k \in Handlers : About(k) \cap S # {}} IN
  /\ raced' = IF met = {} THEN raced
              ELSE raced \cup ((S \cup UNION {About(k) : k \in met}) \cap (Raffles \cup Prompts))
  /\ UNCHANGED <<asked, madeFrom, closed>>

At(h, l)   == task[h].pc = l
Goto(h, l) == task' = [task EXCEPT ![h].pc = l]
Done(h)    == task' = [task EXCEPT ![h] = Idle]

Send(m) ==
  /\ m \notin sentMsgs
  /\ sentMsgs' = sentMsgs \cup {m}
  /\ shown' = shown \cup {m}

-----------------------------------------------------------------------------
(* /giveaway <prize> from an admin: the prize is put (or lost with the     *)
(* cache), the keyboard is sent either way.                                *)
Ask(p) ==
  /\ p \notin asked
  /\ asked' = asked \cup {p}
  /\ pending' \in {pending \cup {p}, pending}
  /\ prompts' = prompts \cup {p}
  /\ UNCHANGED <<shown, sentMsgs, more, table, task, madeFrom, closed, raced>>

(* TTL_SECONDS pass.                                                       *)
ForgetPrize(p) ==
  /\ p \in pending
  /\ pending' = pending \ {p}
  /\ UNCHANGED <<chat, table, task, ghosts>>

(* The count press: take() reads the key.  With no prize the answer is     *)
(* not_found and nothing else happens.                                     *)
PressCount(h, p) ==
  /\ p \in prompts
  /\ p \in pending
  /\ Start(h, "drop", p, Nothing, Nothing)
  /\ Meet({p})
  /\ UNCHANGED <<pending, chat, table>>

(* A take() that only reads.                                               *)
DropPrize_Keeps(h) ==
  /\ At(h, "drop")
  /\ Goto(h, "announce")
  /\ UNCHANGED <<pending, chat, table, ghosts>>

(* take() deletes the key in a second call, whose failure it swallows.     *)
DropPrize(h) ==
  /\ At(h, "drop")
  /\ \/ pending' = pending \ {task[h].on} /\ UNCHANGED raced
     \/ raced' = raced \cup {task[h].on} /\ UNCHANGED pending
  /\ Goto(h, "announce")
  /\ UNCHANGED <<chat, table, asked, madeFrom, closed>>

(* The prompt goes, if Telegram deletes it, and the announcement comes ... *)
Announce(h, m) ==
  /\ At(h, "announce")
  /\ prompts' \in {prompts \ {task[h].on}, prompts}
  /\ Send(m)
  /\ task' = [task EXCEPT ![h].pc = "insert", ![h].new = m]
  /\ UNCHANGED <<more, pending, table, ghosts>>

(* A row that points at the prompt that was pressed.                       *)
Create_AtPrompt(h, g) ==
  /\ At(h, "insert")
  /\ madeFrom[g] = Nothing
  /\ at' = [at EXCEPT ![g] = task[h].on]
  /\ madeFrom' = [madeFrom EXCEPT ![g] = task[h].on]
  /\ Done(h)
  /\ UNCHANGED <<pending, chat, entrants, asked, closed, raced>>

(* ... and only then its row.                                              *)
Create(h, g) ==
  /\ At(h, "insert")
  /\ madeFrom[g] = Nothing
  /\ at' = [at EXCEPT ![g] = task[h].new]
  /\ madeFrom' = [madeFrom EXCEPT ![g] = task[h].on]
  /\ Done(h)
  /\ UNCHANGED <<pending, chat, entrants, asked, closed, raced>>

(* "Put me in!": the row first, the participant's own INSERT second.  A    *)
(* message that resolves to no row answers not_found.                      *)
PressEnter(h, m, u) ==
  /\ m \in shown \ more /\ ByMessage(m) # Nothing
  /\ Start(h, "enter", m, ByMessage(m), u)
  /\ UNCHANGED <<pending, chat, table, ghosts>>

(* A participants table without its foreign key.                           *)
MayEnter_NoForeignKey(g) == TRUE

(* _ENTER under its foreign key.                                           *)
MayEnter(g) == g \in Live

Enter(h) ==
  LET g == task[h].raffle IN
  /\ At(h, "enter")
  /\ entrants' = IF MayEnter(g) THEN [entrants EXCEPT ![g] = @ \cup {task[h].who}] ELSE entrants
  /\ Done(h)
  /\ UNCHANGED <<pending, chat, at, ghosts>>

(* The draw, by an admin or the creator.                                   *)
PressEnd(h, m) ==
  /\ m \in shown /\ ByMessage(m) # Nothing
  /\ Start(h, "draw", m, ByMessage(m), Nothing)
  /\ Meet({m, ByMessage(m)})
  /\ UNCHANGED <<pending, chat, table>>

(* The participants are read; winners are announced to the group.          *)
Draw(h) ==
  /\ At(h, "draw")
  /\ Goto(h, IF entrants[task[h].raffle] = {} THEN "close" ELSE "follow")
  /\ UNCHANGED <<pending, chat, table, ghosts>>

(* A draw that cleans up before it repoints, so that a failure in between  *)
(* strands the raffle.                                                     *)
FollowUp_CleansFirst(h, m) ==
  /\ At(h, "follow")
  /\ m \notin sentMsgs
  /\ sentMsgs' = sentMsgs \cup {m}
  /\ shown' = (shown \ {task[h].on}) \cup {m}
  /\ more' = more \cup {m}
  /\ task' = [task EXCEPT ![h].pc = "repoint", ![h].new = m]
  /\ UNCHANGED <<pending, prompts, table, ghosts>>

(* "draw more?" is posted with its own buttons ...                         *)
FollowUp(h, m) ==
  /\ At(h, "follow")
  /\ Send(m)
  /\ more' = more \cup {m}
  /\ task' = [task EXCEPT ![h].pc = "repoint", ![h].new = m]
  /\ UNCHANGED <<pending, prompts, table, ghosts>>

(* A repoint that creates the row anew, with no entrants.                  *)
Repoint_NewRow(h) ==
  LET g == task[h].raffle IN
  /\ At(h, "repoint")
  /\ at' = IF g \in Live THEN [at EXCEPT ![g] = task[h].new] ELSE at
  /\ entrants' = [entrants EXCEPT ![g] = {}]
  /\ Goto(h, "clean")
  /\ UNCHANGED <<pending, chat, ghosts>>

(* A repoint whose UPDATE forgets `AND giveaway_id = $2`.                  *)
Repoint_WholeGroup(h) ==
  /\ At(h, "repoint")
  /\ at' = [g \in Raffles |-> IF g \in Live THEN task[h].new ELSE at[g]]
  /\ Goto(h, "clean")
  /\ UNCHANGED <<pending, chat, entrants, ghosts>>

(* ... and the raffle is pointed at it: an UPDATE of its row, if any.      *)
Repoint(h) ==
  LET g == task[h].raffle IN
  /\ At(h, "repoint")
  /\ at' = IF g \in Live THEN [at EXCEPT ![g] = task[h].new] ELSE at
  /\ Goto(h, "clean")
  /\ UNCHANGED <<pending, chat, entrants, ghosts>>

(* The DELETE and its cascade: of a raffle nobody entered, or of the one   *)
(* an admin's press of the cross resolved to.                              *)
DeleteRow(h) ==
  LET g == task[h].raffle IN
  /\ At(h, "close")
  /\ at' = [at EXCEPT ![g] = Nothing]
  /\ entrants' = [entrants EXCEPT ![g] = {}]
  /\ closed' = closed \cup {g}
  /\ Goto(h, "clean")
  /\ UNCHANGED <<pending, chat, asked, madeFrom, raced>>

(* The pressed message goes last; a refusal is suppressed.                 *)
Clean(h) ==
  /\ At(h, "clean")
  /\ shown' \in {shown \ {task[h].on}, shown}
  /\ Done(h)
  /\ UNCHANGED <<pending, prompts, sentMsgs, more, table, ghosts>>

(* The cross: the message goes even when no row points at it.              *)
PressDelete(h, m) ==
  /\ m \in shown \cap more
  /\ Start(h, IF ByMessage(m) # Nothing THEN "close" ELSE "clean", m, ByMessage(m), Nothing)
  /\ Meet({m, ByMessage(m)} \ {Nothing})
  /\ UNCHANGED <<pending, chat, table>>

(* A statement or a send raises, or the replica goes down.                 *)
Abort(h) ==
  /\ task[h] # Idle
  /\ Done(h)
  /\ UNCHANGED <<pending, chat, table, ghosts>>

-----------------------------------------------------------------------------
Next ==
  \/ \E p \in Prompts : Ask(p) \/ ForgetPrize(p)
  \/ \E h \in Handlers, p \in Prompts : PressCount(h, p)
  \/ \E h \in Handlers, m \in Messages :
       \/ Announce(h, m) \/ FollowUp(h, m) \/ PressEnd(h, m) \/ PressDelete(h, m)
       \/ \E u \in Members : PressEnter(h, m, u)
  \/ \E h \in Handlers, g \in Raffles : Create(h, g)
  \/ \E h \in Handlers :
       \/ DropPrize(h) \/ Enter(h) \/ Draw(h) \/ Repoint(h)
       \/ DeleteRow(h) \/ Clean(h) \/ Abort(h)

Spec == Init /\ [][Next]_vars

-----------------------------------------------------------------------------
(* "The prompt only ever produces one giveaway."                           *)
(* (cb_core/pending_giveaways.py:69): unless two presses read the prize    *)
(* before either deletes it, or the deletion fails.                        *)
OneGiveawayPerPrompt ==
  \A g, k \in Raffles :
    madeFrom[g] \in Prompts \ raced /\ madeFrom[g] = madeFrom[k] => g = k

(* "once a draw is announced the raffle keeps living, attached to the      *)
(* 'draw more winners?' message instead" (cb_core/giveaways.py:62-63): a   *)
(* raffle that lives has a message in the chat from which to end it,       *)
(* wherever a handler breaks off, unless two draws of it met.              *)
LiveHasMessage == \A g \in Live \ raced : at[g] \in shown

(* A raffle that was deleted never returns, and takes its entries with it: *)
(* a draw or an entry that had resolved it before changes nothing.         *)
ClosedForGood == \A g \in closed : at[g] = Nothing /\ entrants[g] = {}

(* "The entrants deliberately survive, so 'draw more' draws from the same  *)
(* pool" (handlers/giveaway.py:424-426): as long as a raffle lives nobody  *)
(* who is in ever drops out of it, whatever is drawn or repointed.         *)
EntriesSurvive ==
  [][\A g \in Live : g \in Live' => entrants[g] \subseteq entrants'[g]]_vars

(* However presses interleave, no message answers for two raffles: the     *)
(* unique index would turn the second row into an error.                   *)
OneRafflePerMessage == \A g, k \in Live : at[g] = at[k] => g = k

(* The three together, on well-typed rows: a raffle, its message and its   *)
(* prompt stay one to one (giveaways, pending_giveaways.py).               *)
RafflesSound == TypeOK /\ OneRafflePerMessage /\ LiveHasMessage /\ OneGiveawayPerPrompt

=============================================================================
