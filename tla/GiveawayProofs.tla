--------------------------- MODULE GiveawayProofs ---------------------------
(***************************************************************************)
(* Proofs about Giveaway for any numbers of prompts, raffles, messages,    *)
(* members and presses at once.                                            *)
(***************************************************************************)
EXTENDS Giveaway, TLAPS

(* The inductive invariant: what every press still holds, against the rows *)
(* and the chat of now.                                                    *)
Counts(h)  == task[h].pc \in {"drop", "announce", "insert"}
Presses(h) == task[h].pc \in {"draw", "follow", "repoint", "close", "clean"}
Writes(h)  == task[h].pc \in {"insert", "repoint"}

TasksSound ==
  \A h \in Handlers :
    /\ Counts(h) => task[h].on \in asked
    /\ Presses(h) => task[h].on \in sentMsgs
    /\ task[h].pc \in {"enter", "draw", "follow", "repoint", "close"} =>
         task[h].raffle \in Raffles /\ madeFrom[task[h].raffle] # Nothing
    /\ task[h].pc = "enter" => task[h].who \in Members
    /\ Writes(h) => task[h].new \in sentMsgs

\* A raffle is created once: one without a row is new, or closed and empty.
RafflesOnce ==
  /\ \A g \in Live : madeFrom[g] # Nothing
  /\ \A g \in closed : madeFrom[g] # Nothing /\ at[g] = Nothing
  /\ \A g \in Raffles : g \notin Live => entrants[g] = {}

\* A message that was sent and has no row yet is its sender's alone; others
\* can only have pressed it if they met the sender.
NewMessages ==
  /\ \A h \in Handlers : Writes(h) => \A g \in Raffles : at[g] # task[h].new
  /\ \A h, k \in Handlers : Writes(h) /\ Writes(k) /\ task[h].new = task[k].new => h = k
  /\ \A h \in Handlers : task[h].pc = "insert" => task[h].new \in shown \ more
  /\ \A h \in Handlers : task[h].pc = "repoint" =>
       task[h].raffle \in raced \/ task[h].new \in shown
  /\ \A h, k \in Handlers : Writes(h) /\ Presses(k) /\ task[k].on = task[h].new =>
       task[h].pc = "repoint" /\ task[h].raffle \in raced

\* The message a press is on is its own raffle's or nobody's; and once the
\* press has only the message left to remove, nobody's.
PressedMessages ==
  \A h \in Handlers, g \in Live :
    Presses(h) /\ at[g] = task[h].on =>
      \/ g \in raced
      \/ g = task[h].raffle /\ task[h].pc # "clean"

\* The prize of a prompt that was not raced for is counted once.
PromptsOnce ==
  /\ prompts \subseteq asked /\ pending \subseteq asked
  /\ \A g \in Raffles : madeFrom[g] \in asked \cup {Nothing}
  /\ \A h, k \in Handlers :
       Counts(h) /\ Counts(k) /\ task[h].on = task[k].on => h = k \/ task[h].on \in raced
  /\ \A h \in Handlers :
       task[h].pc \in {"announce", "insert"} => task[h].on \notin pending \/ task[h].on \in raced
  /\ \A g \in Raffles : madeFrom[g] \in pending => madeFrom[g] \in raced
  /\ \A g \in Raffles, h \in Handlers :
       Counts(h) /\ task[h].on = madeFrom[g] => madeFrom[g] \in raced

Inv ==
  /\ TypeOK /\ TasksSound /\ RafflesOnce /\ NewMessages /\ PressedMessages /\ PromptsOnce
  /\ OneRafflePerMessage /\ LiveHasMessage /\ OneGiveawayPerPrompt

-----------------------------------------------------------------------------
(* What the types say of a task, and what becomes of the tasks when handler *)
(* h starts, goes on or ends.                                               *)
LEMMA TaskShape ==
  ASSUME TypeOK, NEW h \in Handlers
  PROVE  /\ task[h].pc \in Labels \cup {"idle"}
         /\ task[h] # Idle =>
              /\ task[h].pc \in Labels
              /\ task[h].on \in Messages \cup Prompts
              /\ task[h].raffle \in Raffles \cup {Nothing}
              /\ task[h].new \in Messages \cup {Nothing}
              /\ task[h].who \in Members \cup {Nothing}
         /\ task[h].pc \in Labels => task[h] # Idle
<1>1. task[h] \in Task /\ "idle" \notin Labels
  BY DEF TypeOK, Labels
<1>2. QED
  BY <1>1 DEF Task, Idle

LEMMA StartShape ==
  ASSUME TypeOK, NEW h \in Handlers, NEW l \in Labels, NEW m \in Messages \cup Prompts,
         NEW g \in Raffles \cup {Nothing}, NEW u \in Members \cup {Nothing}, Start(h, l, m, g, u)
  PROVE  /\ task' \in [Handlers -> Task]
         /\ \A k \in Handlers \ {h} : task'[k] = task[k]
         /\ task[h].pc = "idle"
         /\ task'[h].pc = l /\ task'[h].on = m /\ task'[h].raffle = g
<1>1. task'[h] = [pc |-> l, on |-> m, raffle |-> g, new |-> Nothing, who |-> u]
  BY DEF Start, TypeOK
<1>2. task'[h] \in Task
  BY <1>1 DEF Task
<1>3. QED
  BY <1>1, <1>2 DEF Start, TypeOK, Idle

LEMMA GotoShape ==
  ASSUME TypeOK, NEW h \in Handlers, task[h].pc \in Labels, NEW l \in Labels, Goto(h, l)
  PROVE  /\ task' \in [Handlers -> Task]
         /\ \A k \in Handlers \ {h} : task'[k] = task[k]
         /\ task'[h].pc = l /\ task'[h].on = task[h].on /\ task'[h].raffle = task[h].raffle
         /\ task'[h].new = task[h].new /\ task'[h].who = task[h].who
<1>1. task[h] \in Task \ {Idle}
  BY TaskShape DEF TypeOK
<1>2. task'[h] = [task[h] EXCEPT !.pc = l] /\ \A k \in Handlers \ {h} : task'[k] = task[k]
  BY DEF Goto, TypeOK
<1>3. task'[h] \in Task
  BY <1>1, <1>2 DEF Task
<1>4. QED
  BY <1>1, <1>2, <1>3 DEF Task, TypeOK, Goto

LEMMA SendShape ==
  ASSUME TypeOK, NEW h \in Handlers, task[h].pc \in Labels, NEW l \in Labels, NEW m \in Messages,
         task' = [task EXCEPT ![h].pc = l, ![h].new = m]
  PROVE  /\ task' \in [Handlers -> Task]
         /\ \A k \in Handlers \ {h} : task'[k] = task[k]
         /\ task'[h].pc = l /\ task'[h].on = task[h].on /\ task'[h].raffle = task[h].raffle
         /\ task'[h].new = m
<1> DEFINE T == [pc : Labels, on : Messages \cup Prompts, raffle : Raffles \cup {Nothing},
                 new : Messages \cup {Nothing}, who : Members \cup {Nothing}]
<1>1. task[h] \in T
  BY TaskShape DEF TypeOK, Task
<1>2. task'[h] = [[task[h] EXCEPT !.pc = l] EXCEPT !.new = m]
  BY DEF TypeOK
<1>3. [task[h] EXCEPT !.pc = l] \in T
  BY <1>1
<1>4. task'[h] \in T
  BY <1>2, <1>3
<1>5. /\ task'[h].pc = l /\ task'[h].on = task[h].on /\ task'[h].raffle = task[h].raffle
      /\ task'[h].new = m
  BY <1>1, <1>2
<1>6. QED
  BY <1>4, <1>5 DEF Task, TypeOK

LEMMA DoneShape ==
  ASSUME TypeOK, NEW h \in Handlers, Done(h)
  PROVE  /\ task' \in [Handlers -> Task]
         /\ \A k \in Handlers \ {h} : task'[k] = task[k]
         /\ task'[h].pc = "idle"
BY DEF TypeOK, Done, Task, Idle

(* The row a message resolves to is the row that points at it.             *)
LEMMA Resolved ==
  ASSUME NEW m \in Messages
  PROVE  /\ ByMessage(m) # Nothing => ByMessage(m) \in Live /\ at[ByMessage(m)] = m
         /\ \A g \in Live : at[g] = m => ByMessage(m) # Nothing
<1>1. Nothing \notin Live
  BY NothingIsNothing DEF Live
<1>2. QED
  BY <1>1 DEF ByMessage

(* A press about S marks what it meets, itself included.                   *)
LEMMA MeetShape ==
  ASSUME TypeOK, NEW S, Meet(S)
  PROVE  /\ raced \subseteq raced' /\ raced' \subseteq Raffles \cup Prompts
         /\ UNCHANGED <<asked, madeFrom, closed>>
         /\ \A k \in Handlers :
              About(k) \cap S # {} =>
                (S \cup About(k)) \cap (Raffles \cup Prompts) \subseteq raced'
BY DEF Meet, TypeOK

-----------------------------------------------------------------------------
(* A step that leaves rows, messages and prompts alone: handlers keep what *)
(* they hold, and stay where they are or get out of the way.               *)
LEMMA QuietStep ==
  ASSUME Inv, TypeOK',
         UNCHANGED <<prompts, shown, sentMsgs, more, at, madeFrom, closed, asked>>,
         raced \subseteq raced', pending' \subseteq pending,
         \A g \in Raffles : g \notin Live => entrants'[g] = entrants[g],
         \A k \in Handlers :
           task'[k].pc # "idle" =>
             /\ \/ task'[k].pc = task[k].pc
                \/ task'[k].pc \in {"follow", "close"} /\ task[k].pc = "draw"
             /\ task'[k].on = task[k].on /\ task'[k].raffle = task[k].raffle
             /\ task'[k].new = task[k].new /\ task'[k].who = task[k].who
  PROVE  Inv'
<1> USE DEF Counts, Presses, Writes
<1>1. Live' = Live
  BY DEF Live
<1>2. TasksSound' /\ RafflesOnce'
  BY <1>1 DEF Inv, TasksSound, RafflesOnce
<1>3. NewMessages'
  BY DEF Inv, NewMessages
<1>4. PressedMessages'
  BY <1>1 DEF Inv, PressedMessages
<1>5. PromptsOnce'
  BY DEF Inv, PromptsOnce
<1>6. OneRafflePerMessage' /\ LiveHasMessage' /\ OneGiveawayPerPrompt'
  BY <1>1 DEF Inv, OneRafflePerMessage, LiveHasMessage, OneGiveawayPerPrompt
<1>7. QED
  BY <1>2, <1>3, <1>4, <1>5, <1>6 DEF Inv

LEMMA QuietInv ==
  ASSUME Inv, \/ \E p \in Prompts : ForgetPrize(p)
              \/ \E h \in Handlers : Draw(h) \/ Abort(h)
              \/ UNCHANGED vars
  PROVE  Inv'
<1> USE DEF chat, table, ghosts
<1>1. CASE (\E p \in Prompts : ForgetPrize(p)) \/ UNCHANGED vars
  <2>1. TypeOK'
    BY <1>1 DEF ForgetPrize, vars, Inv, TypeOK
  <2>2. QED
    BY <1>1, <2>1, QuietStep DEF ForgetPrize, vars
<1>2. ASSUME NEW h \in Handlers, Draw(h)
      PROVE  Inv'
  <2>1. PICK l \in {"close", "follow"} : Goto(h, l)
    BY <1>2 DEF Draw
  <2>2. /\ task' \in [Handlers -> Task]
        /\ \A k \in Handlers \ {h} : task'[k] = task[k]
        /\ task'[h].pc = l /\ task'[h].on = task[h].on /\ task'[h].raffle = task[h].raffle
        /\ task'[h].new = task[h].new /\ task'[h].who = task[h].who
    BY <1>2, <2>1, GotoShape DEF Inv, Draw, At, Labels
  <2>3. TypeOK'
    BY <1>2, <2>2 DEF Draw, Inv, TypeOK
  <2>4. QED
    BY <1>2, <2>2, <2>3, QuietStep DEF Draw, At
<1>3. ASSUME NEW h \in Handlers, Abort(h)
      PROVE  Inv'
  <2>1. /\ task' \in [Handlers -> Task]
        /\ \A k \in Handlers \ {h} : task'[k] = task[k]
        /\ task'[h].pc = "idle"
    BY <1>3, DoneShape DEF Inv, Abort
  <2>2. TypeOK'
    BY <1>3, <2>1 DEF Abort, Inv, TypeOK
  <2>3. QED
    BY <1>3, <2>1, <2>2, QuietStep DEF Abort
<1>4. QED
  BY <1>1, <1>2, <1>3

\* Entries go to raffles that live.
LEMMA EnterInv ==
  ASSUME Inv, NEW h \in Handlers, Enter(h)
  PROVE  Inv'
<1> USE DEF Enter, At, chat, ghosts
<1>1. task[h].raffle \in Raffles /\ task[h].who \in Members
  BY TaskShape DEF Inv, TasksSound, Labels
<1>2. /\ task' \in [Handlers -> Task]
      /\ \A k \in Handlers \ {h} : task'[k] = task[k]
      /\ task'[h].pc = "idle"
  BY DoneShape DEF Inv
<1>3. TypeOK'
  <2>1. entrants' \in [Raffles -> SUBSET Members]
    BY <1>1 DEF Inv, TypeOK
  <2>2. QED
    BY <1>2, <2>1 DEF Inv, TypeOK
<1>4. \A g \in Raffles : g \notin Live => entrants'[g] = entrants[g]
  BY <1>1 DEF MayEnter, Inv, TypeOK
<1>5. QED
  BY <1>2, <1>3, <1>4, QuietStep

-----------------------------------------------------------------------------
(* The prompt.                                                             *)
LEMMA AskInv ==
  ASSUME Inv, NEW p \in Prompts, Ask(p)
  PROVE  Inv'
<1> USE DEF Ask, table
<1>1. TypeOK' /\ Live' = Live
  BY DEF Inv, TypeOK, Live
<1>2. TasksSound' /\ RafflesOnce' /\ NewMessages' /\ PressedMessages'
  BY <1>1 DEF Inv, TasksSound, RafflesOnce, NewMessages, PressedMessages, Counts, Presses, Writes
<1>3. p # Nothing /\ \A g \in Raffles : madeFrom[g] # p
  BY NothingIsNothing DEF Inv, PromptsOnce
<1>4. \A h \in Handlers : Counts(h) => task[h].on # p
  BY DEF Inv, TasksSound
<1>5. PromptsOnce'
  BY <1>3, <1>4 DEF Inv, PromptsOnce, Counts
<1>6. OneRafflePerMessage' /\ LiveHasMessage' /\ OneGiveawayPerPrompt'
  BY <1>1 DEF Inv, OneRafflePerMessage, LiveHasMessage, OneGiveawayPerPrompt
<1>7. QED
  BY <1>1, <1>2, <1>5, <1>6 DEF Inv

LEMMA PressCountInv ==
  ASSUME Inv, NEW h \in Handlers, NEW p \in Prompts, PressCount(h, p)
  PROVE  Inv'
<1> USE DEF PressCount, chat, table
<1>1. /\ task' \in [Handlers -> Task]
      /\ \A k \in Handlers \ {h} : task'[k] = task[k]
      /\ task[h].pc = "idle" /\ task'[h].pc = "drop" /\ task'[h].on = p
  BY StartShape DEF Inv, Labels
<1>2. /\ raced \subseteq raced' /\ raced' \subseteq Raffles \cup Prompts
      /\ UNCHANGED <<asked, madeFrom, closed>>
      /\ \A k \in Handlers : p \in About(k) => p \in raced'
  BY MeetShape DEF Inv
<1>3. \A k \in Handlers : Counts(k) /\ task[k].on = p => p \in raced'
  BY <1>2, NothingIsNothing DEF About, Counts
<1>4. TypeOK' /\ Live' = Live
  BY <1>1, <1>2 DEF Inv, TypeOK, Live
<1>5. TasksSound' /\ RafflesOnce'
  BY <1>1, <1>2, <1>4 DEF Inv, TasksSound, RafflesOnce, PromptsOnce, Counts, Presses, Writes
<1>6. NewMessages' /\ PressedMessages'
  BY <1>1, <1>2, <1>4 DEF Inv, NewMessages, PressedMessages, Presses, Writes
<1>7. PromptsOnce'
  BY <1>1, <1>2, <1>3 DEF Inv, PromptsOnce, Counts
<1>8. OneRafflePerMessage' /\ LiveHasMessage' /\ OneGiveawayPerPrompt'
  BY <1>2, <1>4 DEF Inv, OneRafflePerMessage, LiveHasMessage, OneGiveawayPerPrompt
<1>9. QED
  BY <1>4, <1>5, <1>6, <1>7, <1>8 DEF Inv

LEMMA DropPrizeInv ==
  ASSUME Inv, NEW h \in Handlers, DropPrize(h)
  PROVE  Inv'
<1> USE DEF DropPrize, At, chat, table
<1>1. /\ task' \in [Handlers -> Task]
      /\ \A k \in Handlers \ {h} : task'[k] = task[k]
      /\ task'[h].pc = "announce" /\ task'[h].on = task[h].on
  BY GotoShape DEF Inv, Labels
<1>2. raced \subseteq raced' /\ pending' \subseteq pending /\ task[h].on \in asked
  BY DEF Inv, TasksSound, Counts
<1>3. TypeOK' /\ Live' = Live
  BY <1>1, <1>2 DEF Inv, TypeOK, Live
<1>4. TasksSound' /\ RafflesOnce'
  BY <1>1, <1>2, <1>3 DEF Inv, TasksSound, RafflesOnce, Counts, Presses, Writes
<1>5. NewMessages' /\ PressedMessages'
  BY <1>1, <1>2, <1>3 DEF Inv, NewMessages, PressedMessages, Presses, Writes
<1>6. PromptsOnce'
  <2>1. task[h].on \notin pending' \/ task[h].on \in raced'
    OBVIOUS
  <2>2. QED
    BY <1>1, <1>2, <2>1 DEF Inv, PromptsOnce, Counts
<1>7. OneRafflePerMessage' /\ LiveHasMessage' /\ OneGiveawayPerPrompt'
  BY <1>2, <1>3 DEF Inv, OneRafflePerMessage, LiveHasMessage, OneGiveawayPerPrompt
<1>8. QED
  BY <1>3, <1>4, <1>5, <1>6, <1>7 DEF Inv

-----------------------------------------------------------------------------
(* A handler sends a message, which no row and no press knows yet.         *)
LEMMA SendInv ==
  ASSUME Inv, NEW h \in Handlers, NEW m \in Messages, Announce(h, m) \/ FollowUp(h, m)
  PROVE  Inv'
<1> USE DEF At, table, ghosts
<1> DEFINE Sends(l) ==
        /\ m \notin sentMsgs /\ sentMsgs' = sentMsgs \cup {m} /\ shown' = shown \cup {m}
        /\ prompts' \subseteq prompts /\ more \subseteq more' /\ more' \subseteq more \cup {m}
        /\ UNCHANGED <<pending, at, entrants, asked, madeFrom, closed, raced>>
        /\ l = "insert" => more' = more
        /\ \/ task[h].pc = "announce" /\ l = "insert"
           \/ task[h].pc = "follow" /\ l = "repoint"
        /\ task' = [task EXCEPT ![h].pc = l, ![h].new = m]
<1>1. PICK l \in {"insert", "repoint"} : Sends(l)
  <2>1. CASE Announce(h, m)
    <3>1. Sends("insert")
      BY <2>1 DEF Announce, Send
    <3>2. QED
      BY <3>1
  <2>2. CASE FollowUp(h, m)
    <3>1. Sends("repoint")
      BY <2>2 DEF FollowUp, Send
    <3>2. QED
      BY <3>1
  <2>3. QED
    BY <2>1, <2>2
<1>3. /\ task' \in [Handlers -> Task]
      /\ \A k \in Handlers \ {h} : task'[k] = task[k]
      /\ task'[h].pc = l /\ task'[h].on = task[h].on /\ task'[h].raffle = task[h].raffle
      /\ task'[h].new = m
  BY <1>1, SendShape DEF Inv, Labels
<1>4. TypeOK' /\ Live' = Live
  BY <1>1, <1>3 DEF Inv, TypeOK, Live
<1>5. TasksSound' /\ RafflesOnce'
  BY <1>1, <1>3, <1>4 DEF Inv, TasksSound, RafflesOnce, Counts, Presses, Writes
<1>6. /\ \A g \in Raffles : at[g] # m
      /\ \A k \in Handlers : Writes(k) => task[k].new # m
      /\ \A k \in Handlers : Presses(k) => task[k].on # m
      /\ m \notin more
  BY <1>1, NothingIsNothing DEF Inv, TypeOK, TasksSound
<1>7. NewMessages'
  <2>1. \A k \in Handlers : Writes(k)' => \A g \in Raffles : at'[g] # task'[k].new
    BY <1>1, <1>3, <1>6 DEF Inv, NewMessages, Writes
  <2>2. \A k, j \in Handlers : Writes(k)' /\ Writes(j)' /\ task'[k].new = task'[j].new => k = j
    BY <1>3, <1>6 DEF Inv, NewMessages, Writes
  <2>3. \A k \in Handlers : task'[k].pc = "insert" => task'[k].new \in shown' \ more'
    BY <1>1, <1>3, <1>6 DEF Inv, NewMessages, Writes
  <2>4. \A k \in Handlers : task'[k].pc = "repoint" =>
          task'[k].raffle \in raced' \/ task'[k].new \in shown'
    BY <1>1, <1>3 DEF Inv, NewMessages
  <2>5. ASSUME NEW k \in Handlers, NEW j \in Handlers, Writes(k)', Presses(j)', task'[j].on = task'[k].new
        PROVE  task'[k].pc = "repoint" /\ task'[k].raffle \in raced'
    <3>1. task'[j].on = task[j].on /\ Presses(j)
      BY <1>1, <1>3, <2>5 DEF Presses
    <3>2. k # h
      BY <1>3, <1>6, <2>5, <3>1
    <3>3. QED
      BY <1>1, <1>3, <2>5, <3>1, <3>2 DEF Inv, NewMessages, Writes
  <2>6. QED
    BY <2>1, <2>2, <2>3, <2>4, <2>5 DEF NewMessages
<1>8. PressedMessages'
  BY <1>1, <1>3, <1>4 DEF Inv, PressedMessages, Presses
<1>9. PromptsOnce'
  BY <1>1, <1>3 DEF Inv, PromptsOnce, Counts
<1>10. OneRafflePerMessage' /\ LiveHasMessage' /\ OneGiveawayPerPrompt'
  BY <1>1, <1>4 DEF Inv, OneRafflePerMessage, LiveHasMessage, OneGiveawayPerPrompt
<1>11. QED
  BY <1>4, <1>5, <1>7, <1>8, <1>9, <1>10 DEF Inv

(* Its row: the raffle is new, and so is the message.                      *)
LEMMA CreateInv ==
  ASSUME Inv, NEW h \in Handlers, NEW g \in Raffles, Create(h, g)
  PROVE  Inv'
<1> DEFINE m == task[h].new
           p == task[h].on
<1> USE DEF Create, At, chat
<1>1. /\ m \in sentMsgs /\ m # Nothing /\ m \in shown \ more
      /\ p \in asked /\ p \in Prompts /\ p # Nothing
      /\ g \notin Live /\ g \notin closed
  BY NothingIsNothing DEF Inv, TypeOK, TasksSound, NewMessages, RafflesOnce, Writes, Counts
<1>2. /\ at' = [at EXCEPT ![g] = m] /\ madeFrom' = [madeFrom EXCEPT ![g] = p]
      /\ UNCHANGED <<pending, prompts, shown, sentMsgs, more, entrants, asked, closed, raced>>
  OBVIOUS
<1>3. /\ task' \in [Handlers -> Task]
      /\ \A k \in Handlers \ {h} : task'[k] = task[k]
      /\ task'[h].pc = "idle"
  BY DoneShape DEF Inv
<1>4. /\ at'[g] = m /\ \A i \in Raffles \ {g} : at'[i] = at[i]
      /\ madeFrom'[g] = p /\ \A i \in Raffles \ {g} : madeFrom'[i] = madeFrom[i]
  BY <1>2 DEF Inv, TypeOK
<1>5. /\ \A i \in Raffles : i \in Live' <=> i \in Live \/ i = g
      /\ Live \subseteq Raffles /\ Live' \subseteq Raffles
  BY <1>1, <1>4 DEF Live
<1>6. /\ Writes(h) /\ Counts(h) /\ task[h].pc = "insert"
      /\ \A k \in Handlers : Writes(k)' => k # h /\ Writes(k)
      /\ \A k \in Handlers : Presses(k)' => k # h /\ Presses(k)
      /\ \A k \in Handlers : Counts(k)' => k # h /\ Counts(k)
  BY <1>3 DEF Writes, Presses, Counts
<1> HIDE DEF m, p
<1>7. TypeOK'
  BY <1>1, <1>2, <1>3 DEF Inv, TypeOK
<1>8. TasksSound'
  <2>1. \A i \in Raffles : madeFrom[i] # Nothing => madeFrom'[i] # Nothing
    BY <1>1, <1>4
  <2>2. QED
    BY <1>2, <1>3, <1>6, <2>1 DEF Inv, TasksSound
<1>9. RafflesOnce'
  BY <1>1, <1>2, <1>4, <1>5, NothingIsNothing DEF Inv, RafflesOnce, Live
<1>10. /\ \A k \in Handlers : Writes(k)' => task[k].new # m
       /\ \A k \in Handlers : Presses(k)' => task[k].on # m
       /\ \A i \in Raffles : at[i] # m
  BY <1>6 DEF Inv, NewMessages, m
<1>11. NewMessages'
  BY <1>2, <1>3, <1>4, <1>6, <1>10 DEF Inv, NewMessages
<1>12. PressedMessages'
  BY <1>2, <1>3, <1>4, <1>5, <1>6, <1>10 DEF Inv, PressedMessages
<1>13. p \in raced \/ /\ p \notin pending
                      /\ \A i \in Raffles : madeFrom[i] # p
                      /\ \A k \in Handlers : Counts(k) /\ task[k].on = p => k = h
  BY <1>6 DEF Inv, PromptsOnce, p
<1>14. PromptsOnce'
  BY <1>1, <1>2, <1>3, <1>4, <1>6, <1>13 DEF Inv, PromptsOnce
<1>15. OneRafflePerMessage' /\ LiveHasMessage'
  BY <1>1, <1>2, <1>4, <1>5, <1>10 DEF Inv, OneRafflePerMessage, LiveHasMessage
<1>16. OneGiveawayPerPrompt'
  BY <1>2, <1>4, <1>13 DEF Inv, OneGiveawayPerPrompt
<1>17. QED
  BY <1>7, <1>8, <1>9, <1>11, <1>12, <1>14, <1>15, <1>16 DEF Inv

-----------------------------------------------------------------------------
(* A press of a message's button: it holds the raffle the message resolves *)
(* to, and a message that has no row yet it takes only in meeting its      *)
(* sender.                                                                 *)
LEMMA StartPressInv ==
  ASSUME Inv, NEW h \in Handlers, NEW l \in {"enter", "draw", "close", "clean"},
         NEW m \in sentMsgs, NEW u \in Members \cup {Nothing}, Start(h, l, m, ByMessage(m), u),
         UNCHANGED <<pending, prompts, shown, sentMsgs, more, at, entrants, asked, madeFrom, closed>>,
         l = "enter" => u \in Members,
         l = "clean" <=> ByMessage(m) = Nothing,
         raced \subseteq raced', raced' \subseteq Raffles \cup Prompts,
         \A k \in Handlers : l # "enter" /\ Writes(k) /\ task[k].new = m =>
           task[k].pc = "repoint" /\ task[k].raffle \in raced'
  PROVE  Inv'
<1> DEFINE g == ByMessage(m)
<1>1. /\ m \in Messages /\ g \in Raffles \cup {Nothing} /\ l \in Labels
      /\ g # Nothing => g \in Live /\ g \in Raffles /\ madeFrom[g] # Nothing
      /\ \A i \in Live : at[i] = m => i = g
      /\ l = "clean" => \A i \in Live : at[i] = m => g # Nothing
  BY Resolved, NothingIsNothing
     DEF Inv, TypeOK, RafflesOnce, OneRafflePerMessage, Labels, Live
<1>2. /\ task' \in [Handlers -> Task]
      /\ \A k \in Handlers \ {h} : task'[k] = task[k]
      /\ task'[h].pc = l /\ task'[h].on = m /\ task'[h].raffle = g
  BY <1>1, StartShape DEF Inv
<1>3. task'[h].who = u
  BY DEF Start, Inv, TypeOK
<1> HIDE DEF g
<1>4. TypeOK' /\ Live' = Live
  BY <1>2 DEF Inv, TypeOK, Live
<1>5. TasksSound' /\ RafflesOnce'
  BY <1>1, <1>2, <1>3, <1>4 DEF Inv, TasksSound, RafflesOnce, Counts, Presses, Writes, g
<1>6. NewMessages'
  BY <1>2 DEF Inv, NewMessages, Presses, Writes
<1>7. PressedMessages'
  BY <1>1, <1>2, <1>4 DEF Inv, PressedMessages, Presses, g
<1>8. PromptsOnce'
  BY <1>2 DEF Inv, PromptsOnce, Counts
<1>9. OneRafflePerMessage' /\ LiveHasMessage' /\ OneGiveawayPerPrompt'
  BY <1>4 DEF Inv, OneRafflePerMessage, LiveHasMessage, OneGiveawayPerPrompt
<1>10. QED
  BY <1>4, <1>5, <1>6, <1>7, <1>8, <1>9 DEF Inv

LEMMA PressInv ==
  ASSUME Inv, NEW h \in Handlers, NEW m \in Messages,
         PressEnd(h, m) \/ PressDelete(h, m) \/ \E u \in Members : PressEnter(h, m, u)
  PROVE  Inv'
<1> USE DEF chat, table, ghosts
<1>1. /\ m \in sentMsgs
      /\ ByMessage(m) # Nothing => \A k \in Handlers : Writes(k) => task[k].new # m
  BY Resolved DEF PressEnd, PressDelete, PressEnter, Inv, TypeOK, NewMessages, Live
<1>2. CASE \E u \in Members : PressEnter(h, m, u)
  <2>1. PICK u \in Members : PressEnter(h, m, u)
    BY <1>2
  <2>2. raced' = raced /\ raced \subseteq Raffles \cup Prompts
    BY <2>1 DEF PressEnter, Inv, TypeOK
  <2>3. QED
    BY <1>1, <2>1, <2>2, StartPressInv DEF PressEnter
<1>3. CASE PressEnd(h, m)
  <2>1. /\ raced \subseteq raced' /\ raced' \subseteq Raffles \cup Prompts
        /\ UNCHANGED <<asked, madeFrom, closed>>
    BY <1>3, MeetShape DEF PressEnd, Inv
  <2>2. QED
    BY <1>1, <1>3, <2>1, StartPressInv DEF PressEnd
<1>4. CASE PressDelete(h, m)
  <2>1. PICK S : Meet(S) /\ S = {m, ByMessage(m)} \ {Nothing}
    BY <1>4 DEF PressDelete
  <2>2. /\ raced \subseteq raced' /\ raced' \subseteq Raffles \cup Prompts
        /\ UNCHANGED <<asked, madeFrom, closed>>
        /\ \A k \in Handlers :
             About(k) \cap S # {} => (S \cup About(k)) \cap (Raffles \cup Prompts) \subseteq raced'
    BY <2>1, MeetShape DEF Inv
  <2>3. ASSUME NEW k \in Handlers, Writes(k), task[k].new = m
        PROVE  task[k].pc = "repoint" /\ task[k].raffle \in raced'
    <3>1. task[k].pc = "repoint" /\ task[k].raffle \in Raffles
      BY <1>4, <2>3 DEF PressDelete, Inv, NewMessages, TasksSound, Writes
    <3>2. m \in About(k) \cap S /\ task[k].raffle \in About(k)
      BY <2>1, <2>3, <3>1, NothingIsNothing DEF About
    <3>3. QED
      BY <2>2, <3>1, <3>2
  <2>4. PICK l \in {"close", "clean"} :
          (l = "clean" <=> ByMessage(m) = Nothing) /\ Start(h, l, m, ByMessage(m), Nothing)
    BY <1>4 DEF PressDelete
  <2>5. QED
    BY <1>1, <1>4, <2>2, <2>3, <2>4, StartPressInv DEF PressDelete
<1>5. QED
  BY <1>2, <1>3, <1>4

-----------------------------------------------------------------------------
(* The raffle goes over to the handler's own message.                      *)
LEMMA RepointInv ==
  ASSUME Inv, NEW h \in Handlers, Repoint(h)
  PROVE  Inv'
<1> DEFINE g == task[h].raffle
           m == task[h].new
<1> USE DEF Repoint, At, chat, ghosts
<1>1. /\ Writes(h) /\ Presses(h) /\ m \in sentMsgs /\ m # Nothing
      /\ g \in Raffles /\ madeFrom[g] # Nothing
  BY NothingIsNothing DEF Inv, TypeOK, TasksSound, Writes, Presses
<1>2. /\ task' \in [Handlers -> Task]
      /\ \A k \in Handlers \ {h} : task'[k] = task[k]
      /\ task'[h].pc = "clean" /\ task'[h].on = task[h].on /\ task'[h].raffle = task[h].raffle
  BY GotoShape DEF Inv, Labels
<1>3. /\ Live' = Live /\ Live \subseteq Raffles
      /\ \A i \in Raffles \ {g} : at'[i] = at[i]
      /\ at'[g] = IF g \in Live THEN m ELSE at[g]
      /\ at' \in [Raffles -> sentMsgs \cup {Nothing}]
  BY <1>1 DEF Live, Inv, TypeOK
<1>4. /\ \A k \in Handlers : Writes(k)' => k # h /\ Writes(k)
      /\ \A k \in Handlers : Presses(k)' <=> Presses(k)
      /\ \A k \in Handlers : Counts(k)' <=> Counts(k)
      /\ \A k \in Handlers : task'[k].on = task[k].on /\ task'[k].raffle = task[k].raffle
      /\ \A k \in Handlers \ {h} : task'[k].pc = task[k].pc
      /\ task[h].pc = "repoint"
  BY <1>1, <1>2 DEF Writes, Presses, Counts
<1> HIDE DEF g, m
<1>5. TypeOK'
  BY <1>2, <1>3 DEF Inv, TypeOK
<1>6. TasksSound' /\ RafflesOnce'
  BY <1>2, <1>3, <1>4 DEF Inv, TasksSound, RafflesOnce, Live
<1>7. /\ \A k \in Handlers : Writes(k)' => task[k].new # m
      /\ \A k \in Handlers : Presses(k) /\ task[k].on = m => g \in raced
      /\ g \in raced \/ m \in shown
      /\ \A i \in Raffles : at[i] # m
  BY <1>1, <1>4 DEF Inv, NewMessages, g, m
<1>8. NewMessages'
  BY <1>2, <1>3, <1>4, <1>7 DEF Inv, NewMessages, Writes
<1>9. PressedMessages'
  <2> SUFFICES ASSUME NEW k \in Handlers, NEW i \in Live, Presses(k), at'[i] = task[k].on, i \notin raced
               PROVE  i = task[k].raffle /\ task'[k].pc # "clean"
    BY <1>3, <1>4 DEF PressedMessages
  <2>1. i # g /\ at[i] = task[k].on
    BY <1>3, <1>7
  <2>2. i = task[k].raffle /\ task[k].pc # "clean"
    BY <2>1 DEF Inv, PressedMessages
  <2>3. QED
    BY <1>4, <2>1, <2>2 DEF g
<1>10. PromptsOnce'
  BY <1>2, <1>4 DEF Inv, PromptsOnce
<1>11. OneRafflePerMessage' /\ LiveHasMessage' /\ OneGiveawayPerPrompt'
  BY <1>3, <1>7 DEF Inv, OneRafflePerMessage, LiveHasMessage, OneGiveawayPerPrompt
<1>12. QED
  BY <1>5, <1>6, <1>8, <1>9, <1>10, <1>11 DEF Inv

(* The row goes, with the entries.                                         *)
LEMMA DeleteRowInv ==
  ASSUME Inv, NEW h \in Handlers, DeleteRow(h)
  PROVE  Inv'
<1> DEFINE g == task[h].raffle
<1> USE DEF DeleteRow, At, chat
<1>1. g \in Raffles /\ madeFrom[g] # Nothing /\ Presses(h)
  BY DEF Inv, TasksSound, Presses
<1>2. /\ task' \in [Handlers -> Task]
      /\ \A k \in Handlers \ {h} : task'[k] = task[k]
      /\ task'[h].pc = "clean" /\ task'[h].on = task[h].on /\ task'[h].raffle = task[h].raffle
  BY GotoShape DEF Inv, Labels
<1>3. /\ Live' = Live \ {g} /\ Live \subseteq Raffles
      /\ \A i \in Raffles \ {g} : at'[i] = at[i] /\ entrants'[i] = entrants[i]
      /\ at'[g] = Nothing /\ entrants'[g] = {} /\ closed' = closed \cup {g}
      /\ at' \in [Raffles -> sentMsgs \cup {Nothing}]
      /\ entrants' \in [Raffles -> SUBSET Members]
  BY <1>1 DEF Live, Inv, TypeOK
<1>4. /\ \A k \in Handlers : Writes(k)' => k # h /\ Writes(k)
      /\ \A k \in Handlers : Presses(k)' <=> Presses(k)
      /\ \A k \in Handlers : Counts(k)' <=> Counts(k)
      /\ \A k \in Handlers : task'[k].on = task[k].on /\ task'[k].raffle = task[k].raffle
      /\ \A k \in Handlers \ {h} : task'[k].pc = task[k].pc
  BY <1>1, <1>2 DEF Writes, Presses, Counts
<1>5. \A k \in Handlers : Writes(k) => task[k].new # Nothing
  BY NothingIsNothing DEF Inv, TypeOK, TasksSound
<1> HIDE DEF g
<1>6. TypeOK'
  BY <1>1, <1>2, <1>3 DEF Inv, TypeOK
<1>7. TasksSound' /\ RafflesOnce'
  BY <1>1, <1>2, <1>3, <1>4 DEF Inv, TasksSound, RafflesOnce
<1>8. NewMessages'
  BY <1>2, <1>3, <1>4, <1>5 DEF Inv, NewMessages, Writes
<1>9. PressedMessages'
  BY <1>2, <1>3, <1>4 DEF Inv, PressedMessages, g
<1>10. PromptsOnce'
  BY <1>2, <1>4 DEF Inv, PromptsOnce
<1>11. OneRafflePerMessage' /\ LiveHasMessage' /\ OneGiveawayPerPrompt'
  BY <1>3 DEF Inv, OneRafflePerMessage, LiveHasMessage, OneGiveawayPerPrompt
<1>12. QED
  BY <1>6, <1>7, <1>8, <1>9, <1>10, <1>11 DEF Inv

(* The pressed message goes: it is no live raffle's any more.              *)
LEMMA CleanInv ==
  ASSUME Inv, NEW h \in Handlers, Clean(h)
  PROVE  Inv'
<1> USE DEF Clean, At, table, ghosts
<1>1. /\ task' \in [Handlers -> Task]
      /\ \A k \in Handlers \ {h} : task'[k] = task[k]
      /\ task'[h].pc = "idle" /\ Presses(h)
  BY DoneShape DEF Inv, Presses
<1>2. shown \ {task[h].on} \subseteq shown' /\ shown' \subseteq shown
  OBVIOUS
<1>3. TypeOK' /\ Live' = Live
  BY <1>1, <1>2 DEF Inv, TypeOK, Live
<1>4. TasksSound' /\ RafflesOnce'
  BY <1>1, <1>3 DEF Inv, TasksSound, RafflesOnce, Counts, Presses, Writes
<1>5. NewMessages'
  BY <1>1, <1>2 DEF Inv, NewMessages, Presses, Writes
<1>6. PressedMessages'
  BY <1>1, <1>3 DEF Inv, PressedMessages, Presses
<1>7. PromptsOnce'
  BY <1>1 DEF Inv, PromptsOnce, Counts
<1>8. LiveHasMessage'
  BY <1>1, <1>2, <1>3 DEF Inv, LiveHasMessage, PressedMessages
<1>9. OneRafflePerMessage' /\ OneGiveawayPerPrompt'
  BY <1>3 DEF Inv, OneRafflePerMessage, OneGiveawayPerPrompt
<1>10. QED
  BY <1>3, <1>4, <1>5, <1>6, <1>7, <1>8, <1>9 DEF Inv

-----------------------------------------------------------------------------
LEMMA InitInv ==
  ASSUME Init
  PROVE  Inv
<1>1. TypeOK /\ Live = {}
  BY DEF Init, TypeOK, Task, Live
<1>2. \A h \in Handlers : ~Counts(h) /\ ~Presses(h) /\ ~Writes(h) /\ task[h].pc = "idle"
  BY DEF Init, Idle, Counts, Presses, Writes
<1>3. TasksSound /\ RafflesOnce
  BY <1>1, <1>2 DEF Init, TasksSound, RafflesOnce
<1>4. NewMessages /\ PressedMessages
  BY <1>2 DEF NewMessages, PressedMessages
<1>5. PromptsOnce
  BY <1>2 DEF Init, PromptsOnce
<1>6. OneRafflePerMessage /\ LiveHasMessage /\ OneGiveawayPerPrompt
  BY <1>1, NothingIsNothing DEF Init, OneRafflePerMessage, LiveHasMessage, OneGiveawayPerPrompt
<1>7. QED
  BY <1>1, <1>3, <1>4, <1>5, <1>6 DEF Inv

LEMMA NextInv ==
  ASSUME Inv, [Next]_vars
  PROVE  Inv'
BY QuietInv, EnterInv, AskInv, PressCountInv, DropPrizeInv, SendInv, CreateInv, PressInv,
   RepointInv, DeleteRowInv, CleanInv DEF Next

THEOREM Invariance == Spec => []Inv
<1>1. Init => Inv
  BY InitInv
<1>2. Inv /\ [Next]_vars => Inv'
  BY NextInv
<1>3. QED
  BY <1>1, <1>2, PTL DEF Spec

(* A raffle that was deleted never returns and has no entries, whatever    *)
(* draws and entries had resolved it before (the UPDATEs and the foreign   *)
(* key of cb_core/giveaways.py).                                           *)
THEOREM ClosedStaysClosed == Spec => []ClosedForGood
<1>1. Inv => ClosedForGood
  BY DEF Inv, TypeOK, RafflesOnce, ClosedForGood, Live
<1>2. QED
  BY <1>1, Invariance, PTL

(* Raffle, message and prompt stay one to one, and whoever breaks off      *)
(* where, a raffle that lives can be ended from the chat                   *)
(* (handlers/giveaway.py, cb_core/giveaways.py, pending_giveaways.py).     *)
THEOREM Raffles1to1 == Spec => []RafflesSound
<1>1. Inv => RafflesSound
  BY DEF Inv, RafflesSound
<1>2. QED
  BY <1>1, Invariance, PTL

(* Nobody drops out of a raffle while it lives (_ENTER, repoint).          *)
THEOREM PoolKept == Spec => EntriesSurvive
<1> DEFINE Kept == \A g \in Live : g \in Live' => entrants[g] \subseteq entrants'[g]
<1>1. ASSUME Inv, [Next]_vars
      PROVE  Kept
  <2>1. CASE UNCHANGED entrants
    BY <2>1
  <2>2. ASSUME NEW h \in Handlers, Enter(h)
        PROVE  Kept
    BY <1>1, <2>2 DEF Enter, Inv, TypeOK, Live
  <2>3. ASSUME NEW h \in Handlers, DeleteRow(h)
        PROVE  Kept
    BY <1>1, <2>3 DEF DeleteRow, Inv, TypeOK, Live
  <2>4. QED
    BY <1>1, <2>1, <2>2, <2>3
       DEF Next, vars, table, Ask, ForgetPrize, PressCount, Announce, FollowUp, PressEnd,
           PressDelete, PressEnter, Create, DropPrize, Draw, Repoint, Clean, Abort
<1>2. Inv /\ [Next]_vars => [Kept]_vars
  BY <1>1
<1>3. QED
  BY <1>2, Invariance, PTL DEF Spec, EntriesSurvive

=============================================================================
