------------------------- MODULE CaptchaGateProofs -------------------------
(***************************************************************************)
(* Proofs about CaptchaGate for any numbers of newcomers, challenges and   *)
(* handlers at once, and any cap on the attempts.                          *)
(***************************************************************************)
EXTENDS CaptchaGate, TLAPS

(* The inductive invariant.  A handler works on a copy of a row, so what   *)
(* holds of rows depends on what every copy still says.                    *)
Works(h)   == task[h] # Idle
Nonce(h)   == task[h].read.nonce
Joining(h) == Works(h) /\ task[h].pc \in {"ask", "arm"}
Ending(h)  == Works(h) /\ task[h].pc \in {"welcome", "ban", "unban"}

\* A challenge is armed exactly when it has left the join that made it, and a
\* copy from which a handler drew the verdict is of a row that is gone.
TasksSound ==
  \A h \in Handlers : Works(h) =>
    /\ Nonce(h) \in minted
    /\ Joining(h) <=> Nonce(h) \notin armed
    /\ Joining(h) => task[h].read.attempts = 0
    /\ task[h].pc = "arm" => Nonce(h) \in shown
    /\ task[h].pc = "record" => task[h].read.attempts + 1 < MaxAttempts
    /\ Ending(h) => \A u \in Users : row[u].nonce # Nonce(h)

RowsArmed == \A u \in Users : Pending(u) => row[u].nonce \in armed \cap shown

JoinsApart ==
  \A h, k \in Handlers : Joining(h) /\ Joining(k) /\ Nonce(h) = Nonce(k) => h = k

\* A challenge is one user's, in whatever rows and copies it occurs.
OneOwner ==
  /\ \A u, v \in Users : Pending(u) /\ row[u].nonce = row[v].nonce => u = v
  /\ \A h \in Handlers, u \in Users :
       Works(h) /\ row[u].nonce = Nonce(h) => task[h].user = u
  /\ \A h, k \in Handlers :
       Works(h) /\ Works(k) /\ Nonce(h) = Nonce(k) => task[h].user = task[k].user

\* Two handlers of one user have raced for the challenges they hold ...
MeetingsRaced ==
  \A h, k \in Handlers :
    h # k /\ Works(h) /\ Works(k) /\ task[h].user = task[k].user => Nonce(h) \in raced

\* ... so that a row that took the place of the one a handler knows is raced for.
RowReplaced ==
  \A h \in Handlers :
    Works(h) /\ ~Joining(h) /\ Pending(task[h].user)
      => row[task[h].user].nonce \in {Nonce(h)} \cup raced

\* Without a race the wrong answers are what the row, and every copy of it, says.
CountsAgree ==
  /\ \A u \in Users :
       Pending(u) /\ row[u].nonce \notin raced => row[u].attempts = judged[row[u].nonce]
  /\ \A h \in Handlers :
       Works(h) /\ task[h].pc \in {"judge", "record"} /\ Nonce(h) \notin raced
         => task[h].read.attempts = judged[Nonce(h)]

\* Without a race nobody was welcomed or kicked while the row is there or the
\* verdict on the way.
Undecided(n) == welcomed[n] = 0 /\ kicked[n] = 0
NoVerdictYet ==
  /\ \A u \in Users : Pending(u) /\ row[u].nonce \notin raced => Undecided(row[u].nonce)
  /\ \A h \in Handlers :
       Works(h) /\ task[h].pc \in {"judge", "succeed", "record", "kick", "welcome"}
         /\ Nonce(h) \notin raced => Undecided(Nonce(h))

Untouched == \A n \in Nonces \ armed : judged[n] = 0 /\ Undecided(n)

Inv ==
  /\ TypeOK
  /\ TasksSound /\ RowsArmed /\ JoinsApart /\ OneOwner
  /\ MeetingsRaced /\ RowReplaced
  /\ CountsAgree /\ NoVerdictYet /\ Untouched
  /\ AttemptsCapped /\ OneVerdict

-----------------------------------------------------------------------------
(* What the types say of a task and of a row.                              *)
LEMMA TaskShape ==
  ASSUME TypeOK, NEW h \in Handlers
  PROVE  /\ Works(h) => /\ task[h].pc \in Labels /\ task[h].user \in Users
                        /\ task[h].read \in Row /\ Nonce(h) \in Nonces
                        /\ task[h].read.attempts \in Nat
         /\ task[h].pc \in Labels => Works(h)
<1>1. task[h] \in Task
  BY DEF TypeOK
<1>2. "idle" \notin Labels
  BY DEF Labels
<1>3. QED
  BY <1>1, <1>2, BoundsAreCounts DEF Task, Idle, Works, Nonce, Row

LEMMA RowShape ==
  ASSUME TypeOK, NEW u \in Users
  PROVE  /\ Pending(u) => row[u] \in Row /\ row[u].nonce \in Nonces /\ row[u].attempts \in Nat
         /\ ~Pending(u) => row[u].nonce = NoNonce
         /\ Pending(u) <=> row[u].nonce \in Nonces
<1>1. row[u] \in Row \cup {NoRow}
  BY DEF TypeOK
<1>2. QED
  BY <1>1, NoNonceIsNone, BoundsAreCounts DEF Pending, Row, NoRow

(* A step that deletes rows, ends handlers, or moves them on with the copy *)
(* they have and no nearer to a count or a verdict.                        *)
LEMMA QuietStep ==
  ASSUME Inv, TypeOK',
         UNCHANGED <<minted, armed, raced, judged, kicked, welcomed>>,
         shown \subseteq shown',
         \A u \in Users : row'[u] \in {row[u], NoRow},
         \A k \in Handlers :
           Works(k)' =>
             /\ Works(k)
             /\ task'[k].user = task[k].user /\ task'[k].read = task[k].read
             /\ Joining(k)' <=> Joining(k)
             /\ task'[k].pc = "arm" => Nonce(k) \in shown'
             /\ task'[k].pc = "record" => task[k].read.attempts + 1 < MaxAttempts
             /\ Ending(k)' => \A u \in Users : row'[u].nonce # Nonce(k)
             /\ task'[k].pc \in {"judge", "record"} => task[k].pc \in {"judge", "record"}
             /\ task'[k].pc \in {"judge", "succeed", "record", "kick", "welcome"}
                  => task[k].pc \in {"judge", "succeed", "record", "kick", "welcome"}
  PROVE  Inv'
<1>1. \A u \in Users : /\ Pending(u)' => Pending(u) /\ row'[u] = row[u]
                       /\ row'[u].nonce \in Nonces => Pending(u)'
  BY NoNonceIsNone DEF Pending, NoRow
<1>2. \A k \in Handlers : Works(k)' => Nonce(k)' = Nonce(k) /\ Nonce(k) \in Nonces
  BY TaskShape DEF Nonce, Inv
<1>3. TasksSound'
  BY <1>2 DEF Inv, TasksSound
<1>4. RowsArmed'
  BY <1>1 DEF Inv, RowsArmed
<1>5. JoinsApart'
  BY <1>2 DEF Inv, JoinsApart, Joining
<1>6. OneOwner'
  BY <1>1, <1>2, RowShape DEF Inv, OneOwner
<1>7. MeetingsRaced'
  BY <1>2 DEF Inv, MeetingsRaced
<1>8. RowReplaced'
  <2> SUFFICES ASSUME NEW h \in Handlers, Works(h)', ~Joining(h)', Pending(task[h].user)'
               PROVE  row'[task[h].user].nonce \in {Nonce(h)} \cup raced
    BY <1>2 DEF RowReplaced
  <2>1. task[h].user \in Users /\ Works(h) /\ ~Joining(h)
    BY TaskShape DEF Inv
  <2>2. QED
    BY <1>1, <2>1 DEF Inv, RowReplaced
<1>9. CountsAgree'
  BY <1>1, <1>2 DEF Inv, CountsAgree
<1>10. NoVerdictYet' /\ Untouched' /\ AttemptsCapped' /\ OneVerdict'
  BY <1>1, <1>2 DEF Inv, NoVerdictYet, Undecided, Untouched, AttemptsCapped, OneVerdict
<1>11. QED
  BY <1>3, <1>4, <1>5, <1>6, <1>7, <1>8, <1>9, <1>10 DEF Inv

(* What becomes of the tasks when handler h goes on or ends.               *)
LEMMA GotoShape ==
  ASSUME TypeOK, NEW h \in Handlers, Works(h), NEW l \in Labels, Goto(h, l)
  PROVE  /\ task' \in [Handlers -> Task]
         /\ \A k \in Handlers \ {h} : task'[k] = task[k]
         /\ Works(h)' /\ task'[h].pc = l
         /\ task'[h].user = task[h].user /\ task'[h].read = task[h].read
<1>1. task[h] \in [pc : Labels, user : Users, read : Row, right : BOOLEAN]
  BY DEF TypeOK, Task, Works
<1>2. task'[h] = [task[h] EXCEPT !.pc = l] /\ \A k \in Handlers \ {h} : task'[k] = task[k]
  BY DEF TypeOK, Goto
<1>3. task'[h] \in [pc : Labels, user : Users, read : Row, right : BOOLEAN] /\ task'[h] # Idle
  BY <1>1, <1>2 DEF Labels, Idle
<1>4. task' \in [Handlers -> Task]
  BY <1>3 DEF TypeOK, Goto, Task
<1>5. QED
  BY <1>1, <1>2, <1>3, <1>4 DEF Works

LEMMA DoneShape ==
  ASSUME TypeOK, NEW h \in Handlers, Done(h)
  PROVE  /\ task' \in [Handlers -> Task]
         /\ \A k \in Handlers \ {h} : task'[k] = task[k]
         /\ ~Works(h)'
BY DEF TypeOK, Done, Task, Works

LEMMA AskInv ==
  ASSUME Inv, NEW h \in Handlers, Ask(h)
  PROVE  Inv'
<1> USE DEF Ask, ghosts
<1>1. Works(h) /\ Nonce(h) \in minted
  BY TaskShape DEF Labels, Inv, TasksSound
<1>2. TypeOK'
  BY <1>1, GotoShape DEF Inv, TypeOK, Labels, Nonce
<1>3. QED
  BY <1>1, <1>2, GotoShape, QuietStep DEF Inv, TasksSound, Joining, Ending, Nonce, Works, Labels

LEMMA JudgeInv ==
  ASSUME Inv, NEW h \in Handlers, Judge(h)
  PROVE  Inv'
<1> USE DEF Judge, ghosts, chat
<1> DEFINE l == IF task[h].right THEN "succeed" ELSE IF MustKick(task[h].read) THEN "kick" ELSE "record"
<1>1. Works(h) /\ l \in {"succeed", "kick", "record"} /\ Goto(h, l)
  BY TaskShape DEF Labels, Inv
<1>2. l = "record" => task[h].read.attempts + 1 < MaxAttempts
  BY <1>1, TaskShape, BoundsAreCounts DEF MustKick, Inv
<1> HIDE DEF l
<1>3. TypeOK'
  BY <1>1, GotoShape DEF Inv, TypeOK, Labels
<1>4. QED
  BY <1>1, <1>2, <1>3, GotoShape, QuietStep DEF Inv, TasksSound, Joining, Ending, Nonce, Works, Labels

LEMMA SucceedInv ==
  ASSUME Inv, NEW h \in Handlers, Succeed(h)
  PROVE  Inv'
<1> USE DEF Succeed, ghosts, chat, DeleteRow
<1>1. Works(h) /\ task[h].user \in Users /\ Nonce(h) \in Nonces
  BY TaskShape DEF Labels, Inv
<1>2. TypeOK'
  BY <1>1, GotoShape DEF Inv, TypeOK, Labels
<1>3. \A u \in Users : row'[u] = IF u = task[h].user THEN NoRow ELSE row[u]
  BY DEF Inv, TypeOK
<1>4. \A u \in Users : row'[u].nonce # Nonce(h)
  BY <1>1, <1>3, NoNonceIsNone DEF Inv, OneOwner, NoRow
<1>5. \A k \in Handlers : Ending(k) => \A u \in Users : row'[u].nonce # Nonce(k)
  BY <1>3, TaskShape, NoNonceIsNone DEF Inv, TasksSound, NoRow, Ending
<1>6. QED
  BY <1>1, <1>2, <1>3, <1>4, <1>5, GotoShape, QuietStep DEF Inv, TasksSound, Joining, Ending, Nonce, Works, Labels

LEMMA BanInv ==
  ASSUME Inv, NEW h \in Handlers, Ban(h)
  PROVE  Inv'
<1> USE DEF Ban, ghosts
<1>1. Works(h) /\ task[h].user \in Users
  BY TaskShape DEF Labels, Inv
<1>2. TypeOK'
  BY <1>1, GotoShape DEF Inv, TypeOK, Labels
<1>3. QED
  BY <1>1, <1>2, GotoShape, QuietStep DEF Inv, TasksSound, Joining, Ending, Nonce, Works, Labels

\* The ways a handler ends without a word to the rows.
LEMMA EndInv ==
  ASSUME Inv, NEW h \in Handlers, BanRefused(h) \/ ScheduleUnban(h) \/ Abort(h)
  PROVE  Inv'
<1> USE DEF BanRefused, ScheduleUnban, Abort, ghosts, chat
<1>1. Done(h) /\ Works(h) /\ task[h].user \in Users
  BY TaskShape DEF Labels, Inv, Works
<1>2. TypeOK'
  BY <1>1, DoneShape DEF Inv, TypeOK
<1>3. QED
  BY <1>1, <1>2, DoneShape, QuietStep DEF Inv, TasksSound, Joining, Ending, Nonce, Works

\* What the newcomer, the clock and the sleepers do.
LEMMA OutsideInv ==
  ASSUME Inv, \/ \E u \in Users : Unban(u) \/ Leave(u) \/ LoseUnban(u)
              \/ \E n \in Nonces : Expire(n)
  PROVE  Inv'
<1> USE DEF Unban, Leave, LoseUnban, Expire, ghosts, chat
<1>1. TypeOK'
  BY DEF Inv, TypeOK
<1>2. QED
  BY <1>1, QuietStep DEF Inv, TasksSound, Joining, Ending, Nonce, Works

LEMMA SweepInv ==
  ASSUME Inv, Sweep
  PROVE  Inv'
<1> USE DEF Sweep, ghosts, chat
<1>1. TypeOK'
  BY DEF Inv, TypeOK
<1>2. \A k \in Handlers : Ending(k) => \A u \in Users : row'[u].nonce # Nonce(k)
  BY TaskShape, NoNonceIsNone DEF Inv, TasksSound, NoRow, Ending
<1>3. QED
  BY <1>1, <1>2, QuietStep DEF Inv, TasksSound, Joining, Ending, Nonce, Works

-----------------------------------------------------------------------------
(* What a handler that starts on row r of user u leaves of the others: they *)
(* go on, and those of the same user have raced with it.                    *)
LEMMA StartShape ==
  ASSUME TypeOK, NEW h \in Handlers, NEW l \in Labels, NEW u \in Users, NEW r \in Row,
         NEW ok \in BOOLEAN, Start(h, l, u, r, ok)
  PROVE  /\ task' \in [Handlers -> Task]
         /\ \A k \in Handlers \ {h} : task'[k] = task[k]
         /\ ~Works(h) /\ Works(h)'
         /\ task'[h].pc = l /\ task'[h].user = u /\ task'[h].read = r
         /\ raced \subseteq raced'
         /\ raced' \subseteq raced \cup {r.nonce} \cup {Nonce(k) : k \in {j \in Handlers : Works(j)}}
         /\ \A k \in Handlers \ {h} :
              Works(k) /\ task[k].user = u => Nonce(k) \in raced' /\ r.nonce \in raced'
<1>1. /\ task[h] = Idle
      /\ task' = [task EXCEPT ![h] = [pc |-> l, user |-> u, read |-> r, right |-> ok]]
  BY DEF Start
<1>2. task'[h] = [pc |-> l, user |-> u, read |-> r, right |-> ok]
  BY <1>1 DEF TypeOK
<1>3. task'[h] \in Task /\ task'[h] # Idle
  BY <1>2 DEF Task, Idle, Labels
<1>4. task' \in [Handlers -> Task] /\ \A k \in Handlers \ {h} : task'[k] = task[k]
  BY <1>1, <1>3 DEF TypeOK
<1>5. /\ raced \subseteq raced'
      /\ raced' \subseteq raced \cup {r.nonce} \cup {Nonce(k) : k \in {j \in Handlers : Works(j)}}
      /\ \A k \in Handlers : Works(k) /\ task[k].user = u => Nonce(k) \in raced' /\ r.nonce \in raced'
  BY DEF Start, Nonce, Works
<1>6. QED
  BY <1>1, <1>2, <1>3, <1>4, <1>5 DEF Works

(* A handler that has read a user's row: an answer, or an approval.        *)
LEMMA ReadInv ==
  ASSUME Inv, NEW h \in Handlers, NEW u \in Users, NEW ok \in BOOLEAN, Pending(u),
         NEW l \in {"judge", "succeed"}, Start(h, l, u, row[u], ok),
         sent' \in 0 .. MaxAnswers, UNCHANGED <<chat, row, minted, expired, unbans>>
  PROVE  Inv'
<1> DEFINE n == row[u].nonce
<1> USE DEF chat
<1>1. UNCHANGED <<armed, judged, kicked, welcomed, stuck>>
  BY DEF Start
<1>2. row[u] \in Row /\ n \in Nonces /\ n \in armed /\ n \in shown /\ l \in Labels
  BY RowShape DEF Inv, RowsArmed, Labels
<1>3. /\ task' \in [Handlers -> Task]
      /\ \A k \in Handlers \ {h} : task'[k] = task[k]
      /\ ~Works(h) /\ Works(h)'
      /\ task'[h].pc = l /\ task'[h].user = u /\ task'[h].read = row[u]
      /\ raced \subseteq raced'
      /\ raced' \subseteq raced \cup {n} \cup {Nonce(k) : k \in {j \in Handlers : Works(j)}}
      /\ \A k \in Handlers \ {h} :
           Works(k) /\ task[k].user = u => Nonce(k) \in raced' /\ n \in raced'
  BY <1>2, StartShape DEF Inv
<1>4. /\ Nonce(h)' = n /\ ~Joining(h)' /\ ~Ending(h)'
      /\ \A k \in Handlers \ {h} : /\ Works(k)' <=> Works(k)
                                   /\ Joining(k)' <=> Joining(k)
                                   /\ Ending(k)' <=> Ending(k)
                                   /\ Nonce(k)' = Nonce(k)
  BY <1>3 DEF Nonce, Joining, Ending, Works
<1> HIDE DEF n
<1>5. TypeOK'
  BY <1>1, <1>2, <1>3, TaskShape DEF Inv, TypeOK, TasksSound
<1>6. \A v \in Users : Pending(v)' <=> Pending(v)
  BY DEF Pending
<1>7. TasksSound'
  BY <1>1, <1>2, <1>3, <1>4 DEF Inv, TasksSound, TypeOK
<1>8. RowsArmed'
  BY <1>1, <1>6 DEF Inv, RowsArmed
<1>9. JoinsApart'
  BY <1>4 DEF Inv, JoinsApart
<1>10. OneOwner'
  BY <1>2, <1>3, <1>4, <1>6 DEF Inv, OneOwner, n
<1>11. MeetingsRaced'
  BY <1>3, <1>4 DEF Inv, MeetingsRaced
<1>12. RowReplaced'
  BY <1>3, <1>4, <1>6, TaskShape DEF Inv, RowReplaced, n
<1>13. CountsAgree'
  BY <1>1, <1>3, <1>4, <1>6 DEF Inv, CountsAgree, n
<1>14. NoVerdictYet'
  BY <1>1, <1>3, <1>4, <1>6 DEF Inv, NoVerdictYet, Undecided, n
<1>15. Untouched' /\ AttemptsCapped' /\ OneVerdict'
  BY <1>1, <1>3 DEF Inv, Untouched, Undecided, AttemptsCapped, OneVerdict
<1>16. QED
  BY <1>5, <1>7, <1>8, <1>9, <1>10, <1>11, <1>12, <1>13, <1>14, <1>15 DEF Inv

LEMMA AnswerInv ==
  ASSUME Inv, NEW h \in Handlers, NEW u \in Users, NEW ok \in BOOLEAN,
         Answer(h, u, ok) \/ Press(h, u, ok) \/ Approve(h, u)
  PROVE  Inv'
<1>1. CASE Answer(h, u, ok) \/ Press(h, u, ok)
  <2>1. sent' \in 0 .. MaxAnswers
    BY <1>1, BoundsAreCounts DEF Answer, Press, Inv, TypeOK
  <2>2. QED
    BY <1>1, <2>1, ReadInv DEF Answer, Press
<1>2. CASE Approve(h, u)
  BY <1>2, ReadInv DEF Approve, Inv, TypeOK
<1>3. QED
  BY <1>1, <1>2

(* A join: its challenge is new, so that no row and no copy is of it.      *)
LEMMA JoinInv ==
  ASSUME Inv, NEW h \in Handlers, NEW u \in Users, NEW n \in Nonces, Join(h, u, n)
  PROVE  Inv'
<1> DEFINE r == [nonce |-> n, attempts |-> 0]
<1> USE DEF Join
<1>1. UNCHANGED <<shown, row, armed, judged, kicked, welcomed, stuck>> /\ minted' = minted \cup {n}
  BY DEF Start
<1>2. r \in Row /\ r.nonce = n /\ "ask" \in Labels /\ n \notin minted /\ n \notin armed
  BY BoundsAreCounts DEF Inv, TypeOK, Row, Labels
<1>a. Start(h, "ask", u, r, FALSE)
  OBVIOUS
<1> HIDE DEF r
<1>3. /\ task' \in [Handlers -> Task]
      /\ \A k \in Handlers \ {h} : task'[k] = task[k]
      /\ ~Works(h) /\ Works(h)'
      /\ task'[h].pc = "ask" /\ task'[h].user = u /\ task'[h].read = r
      /\ raced \subseteq raced'
      /\ raced' \subseteq raced \cup {n} \cup {Nonce(k) : k \in {j \in Handlers : Works(j)}}
      /\ \A k \in Handlers \ {h} :
           Works(k) /\ task[k].user = u => Nonce(k) \in raced' /\ n \in raced'
  BY <1>a, <1>2, StartShape DEF Inv
<1>4. /\ Nonce(h)' = n /\ Joining(h)' /\ ~Ending(h)'
      /\ \A k \in Handlers \ {h} : /\ Works(k)' <=> Works(k)
                                   /\ Joining(k)' <=> Joining(k)
                                   /\ Ending(k)' <=> Ending(k)
                                   /\ Nonce(k)' = Nonce(k)
  BY <1>2, <1>3 DEF Nonce, Joining, Ending, Works
<1>5. TypeOK'
  BY <1>1, <1>2, <1>3, TaskShape DEF Inv, TypeOK, TasksSound
<1>6. /\ \A v \in Users : Pending(v)' <=> Pending(v)
      /\ \A v \in Users : row[v].nonce # n
      /\ \A k \in Handlers : Works(k) => Nonce(k) # n
  BY <1>2, RowShape, NoNonceIsNone DEF Inv, TypeOK, RowsArmed, TasksSound, Pending
<1>7. TasksSound'
  BY <1>1, <1>2, <1>3, <1>4 DEF Inv, TasksSound, TypeOK, r
<1>8. RowsArmed'
  BY <1>1, <1>6 DEF Inv, RowsArmed
<1>9. JoinsApart'
  BY <1>4, <1>6 DEF Inv, JoinsApart, Joining
<1>10. OneOwner'
  BY <1>1, <1>3, <1>4, <1>6 DEF Inv, OneOwner
<1>11. MeetingsRaced'
  BY <1>3, <1>4 DEF Inv, MeetingsRaced
<1>12. RowReplaced'
  BY <1>1, <1>3, <1>4, <1>6, TaskShape DEF Inv, RowReplaced
<1>13. CountsAgree'
  BY <1>1, <1>3, <1>4, <1>6 DEF Inv, CountsAgree
<1>14. NoVerdictYet'
  BY <1>1, <1>3, <1>4, <1>6 DEF Inv, NoVerdictYet, Undecided
<1>15. Untouched' /\ AttemptsCapped' /\ OneVerdict'
  BY <1>1, <1>3 DEF Inv, Untouched, Undecided, AttemptsCapped, OneVerdict
<1>16. QED
  BY <1>5, <1>7, <1>8, <1>9, <1>10, <1>11, <1>12, <1>13, <1>14, <1>15 DEF Inv

(* What ending a handler leaves of the others' labels and copies.          *)
LEMMA OthersStay ==
  ASSUME TypeOK, NEW h \in Handlers, Done(h)
  PROVE  /\ task' \in [Handlers -> Task] /\ ~Works(h)'
         /\ \A k \in Handlers :
              Works(k)' => /\ k # h /\ Works(k) /\ task'[k] = task[k] /\ Nonce(k)' = Nonce(k)
                           /\ Joining(k)' <=> Joining(k)
                           /\ Ending(k)' <=> Ending(k)
BY DoneShape DEF Nonce, Joining, Ending, Works

(* The upsert: the one step by which a challenge gets a row.               *)
LEMMA ArmInv ==
  ASSUME Inv, NEW h \in Handlers, Arm(h)
  PROVE  Inv'
<1> DEFINE n == Nonce(h)
           u == task[h].user
<1> USE DEF Arm, chat
<1>1. /\ Works(h) /\ Joining(h) /\ u \in Users /\ task[h].read \in Row
      /\ n \in Nonces \ armed /\ n \in minted \cap shown
  BY TaskShape DEF Inv, TasksSound, Labels, Joining
<1>2. armed' = armed \cup {n} /\ row' = [row EXCEPT ![u] = task[h].read] /\ Done(h)
  BY DEF Nonce
<1>3. /\ row'[u] = task[h].read /\ row'[u].nonce = n
      /\ \A v \in Users \ {u} : row'[v] = row[v]
  BY <1>1, <1>2 DEF Inv, TypeOK, Nonce
<1>4. /\ task' \in [Handlers -> Task]
      /\ \A k \in Handlers :
           Works(k)' => /\ k # h /\ Works(k) /\ task'[k] = task[k] /\ Nonce(k)' = Nonce(k)
                        /\ Joining(k)' <=> Joining(k)
                        /\ Ending(k)' <=> Ending(k)
  BY <1>2, OthersStay DEF Inv
<1> HIDE DEF n, u
<1>5. TypeOK'
  BY <1>1, <1>2, <1>4 DEF Inv, TypeOK
<1>6. /\ \A v \in Users \ {u} : Pending(v)' <=> Pending(v)
      /\ \A v \in Users : row[v].nonce # n
      /\ \A k \in Handlers : k # h /\ Works(k) => Nonce(k) # n
  BY <1>1, <1>3, RowShape, NoNonceIsNone DEF Inv, RowsArmed, TasksSound, JoinsApart, Pending, n
<1>7. \A k \in Handlers : Works(k)' /\ task[k].user = u => Nonce(k) \in raced /\ n \in raced
  BY <1>1, <1>4 DEF Inv, MeetingsRaced, n, u
<1>8. TasksSound'
  BY <1>1, <1>2, <1>3, <1>4, <1>6 DEF Inv, TasksSound
<1>9. RowsArmed'
  BY <1>1, <1>2, <1>3, <1>6 DEF Inv, RowsArmed
<1>10. JoinsApart'
  BY <1>4 DEF Inv, JoinsApart, Joining
<1>11. OneOwner'
  BY <1>1, <1>3, <1>4, <1>6 DEF Inv, OneOwner
<1>12. MeetingsRaced'
  BY <1>4 DEF Inv, MeetingsRaced
<1>13. RowReplaced'
  BY <1>3, <1>4, <1>6, <1>7, TaskShape DEF Inv, RowReplaced
<1>14. judged[n] = 0 /\ Undecided(n) /\ task[h].read.attempts = 0
  BY <1>1 DEF Inv, Untouched, TasksSound
<1>15. CountsAgree'
  BY <1>3, <1>4, <1>6, <1>14 DEF Inv, CountsAgree
<1>16. NoVerdictYet'
  BY <1>3, <1>4, <1>6, <1>14 DEF Inv, NoVerdictYet, Undecided
<1>17. Untouched' /\ AttemptsCapped' /\ OneVerdict'
  BY <1>2 DEF Inv, Untouched, Undecided, AttemptsCapped, OneVerdict
<1>18. QED
  BY <1>5, <1>8, <1>9, <1>10, <1>11, <1>12, <1>13, <1>15, <1>16, <1>17 DEF Inv

(* The welcome: what it removes from the chat is of no row and no join.    *)
LEMMA WelcomeInv ==
  ASSUME Inv, NEW h \in Handlers, Welcome(h)
  PROVE  Inv'
<1> DEFINE n == Nonce(h)
<1> USE DEF Welcome
<1>1. /\ Works(h) /\ Ending(h) /\ ~Joining(h) /\ n \in Nonces /\ n \in armed
      /\ \A u \in Users : row[u].nonce # n
      /\ n \notin raced => Undecided(n)
  BY TaskShape DEF Inv, TasksSound, NoVerdictYet, Labels, Joining, Ending
<1>2. /\ shown' \in {shown \ {n}, shown} /\ Done(h)
      /\ welcomed' = [welcomed EXCEPT ![n] = @ + 1]
      /\ UNCHANGED <<member, row, minted, expired, unbans, sent, armed, judged, kicked, raced, stuck>>
  BY DEF Nonce
<1>3. /\ task' \in [Handlers -> Task]
      /\ \A k \in Handlers :
           Works(k)' => /\ k # h /\ Works(k) /\ task'[k] = task[k] /\ Nonce(k)' = Nonce(k)
                        /\ Joining(k)' <=> Joining(k)
                        /\ Ending(k)' <=> Ending(k)
  BY <1>2, OthersStay DEF Inv
<1> HIDE DEF n
<1>4. welcomed'[n] = welcomed[n] + 1 /\ \A m \in Nonces \ {n} : welcomed'[m] = welcomed[m]
  BY <1>1, <1>2 DEF Inv, TypeOK
<1>5. TypeOK'
  BY <1>1, <1>2, <1>3 DEF Inv, TypeOK
<1>6. \A k \in Handlers : Works(k)' /\ Nonce(k) = n => n \in raced
  BY <1>1, <1>3 DEF Inv, OneOwner, MeetingsRaced, n
<1>7. \A u \in Users : Pending(u)' <=> Pending(u)
  BY <1>2 DEF Pending
<1>8. TasksSound'
  <2> SUFFICES ASSUME NEW k \in Handlers, Works(k)'
               PROVE  /\ Nonce(k) \in minted
                      /\ Joining(k) <=> Nonce(k) \notin armed
                      /\ Joining(k) => task[k].read.attempts = 0
                      /\ task[k].pc = "arm" => Nonce(k) \in shown'
                      /\ task[k].pc = "record" => task[k].read.attempts + 1 < MaxAttempts
                      /\ Ending(k) => \A u \in Users : row[u].nonce # Nonce(k)
    BY <1>2, <1>3 DEF TasksSound
  <2>1. Works(k)
    BY <1>3
  <2>2. task[k].pc = "arm" => Nonce(k) # n
    BY <1>1, <2>1 DEF Inv, TasksSound, Joining
  <2>3. QED
    BY <1>2, <2>1, <2>2 DEF Inv, TasksSound
<1>9. RowsArmed'
  BY <1>1, <1>2, <1>7 DEF Inv, RowsArmed
<1>10. JoinsApart'
  BY <1>3 DEF Inv, JoinsApart, Joining
<1>11. OneOwner'
  BY <1>2, <1>3, <1>7 DEF Inv, OneOwner
<1>12. MeetingsRaced' /\ RowReplaced'
  BY <1>2, <1>3, <1>7, TaskShape DEF Inv, MeetingsRaced, RowReplaced
<1>13. CountsAgree'
  BY <1>2, <1>3, <1>7 DEF Inv, CountsAgree
<1>14. NoVerdictYet'
  <2>1. ASSUME NEW u \in Users, Pending(u), row[u].nonce \notin raced
        PROVE  Undecided(row[u].nonce)'
    BY <1>1, <1>2, <1>4, <2>1, RowShape DEF Inv, NoVerdictYet, Undecided
  <2>2. ASSUME NEW k \in Handlers, Works(k)', Nonce(k) \notin raced,
               task[k].pc \in {"judge", "succeed", "record", "kick", "welcome"}
        PROVE  welcomed'[Nonce(k)] = 0 /\ kicked[Nonce(k)] = 0
    BY <1>3, <1>4, <1>6, <2>2, TaskShape DEF Inv, NoVerdictYet, Undecided
  <2>3. QED
    BY <1>2, <1>3, <1>7, <2>1, <2>2 DEF NoVerdictYet, Undecided
<1>15. Untouched' /\ AttemptsCapped'
  BY <1>1, <1>2, <1>4 DEF Inv, Untouched, Undecided, AttemptsCapped
<1>16. OneVerdict'
  BY <1>1, <1>2, <1>4 DEF Inv, TypeOK, OneVerdict, Undecided
<1>17. QED
  BY <1>5, <1>8, <1>9, <1>10, <1>11, <1>12, <1>13, <1>14, <1>15, <1>16 DEF Inv

(* The kick: the row goes with the verdict.                                *)
LEMMA KickRowInv ==
  ASSUME Inv, NEW h \in Handlers, KickRow(h)
  PROVE  Inv'
<1> DEFINE n == Nonce(h)
           u == task[h].user
<1> USE DEF KickRow, chat
<1>1. /\ Works(h) /\ ~Joining(h) /\ u \in Users /\ n \in Nonces /\ n \in armed /\ n \in minted
      /\ n \notin raced => Undecided(n)
  BY TaskShape DEF Inv, TasksSound, NoVerdictYet, Labels, Joining
<1>2. /\ Goto(h, "ban") /\ row' = [row EXCEPT ![u] = NoRow]
      /\ kicked' = [kicked EXCEPT ![n] = @ + 1]
      /\ UNCHANGED <<minted, expired, unbans, sent, armed, judged, welcomed, raced, stuck, shown, member>>
  BY DEF Nonce, DeleteRow
<1>3. /\ task' \in [Handlers -> Task]
      /\ \A k \in Handlers \ {h} : task'[k] = task[k]
      /\ Works(h)' /\ task'[h].pc = "ban"
      /\ task'[h].user = task[h].user /\ task'[h].read = task[h].read
  BY <1>1, <1>2, GotoShape DEF Inv, Labels
<1>4. /\ \A k \in Handlers : /\ Works(k)' <=> Works(k)
                             /\ Joining(k)' <=> Joining(k)
                             /\ Nonce(k)' = Nonce(k)
                             /\ task'[k].user = task[k].user /\ task'[k].read = task[k].read
                             /\ k # h => (Ending(k)' <=> Ending(k))
  BY <1>1, <1>3 DEF Joining, Ending, Works, Nonce
<1> HIDE DEF n, u
<1>5. /\ row'[u] = NoRow /\ \A v \in Users \ {u} : row'[v] = row[v]
      /\ \A v \in Users : Pending(v)' => v # u /\ Pending(v) /\ row'[v] = row[v]
  BY <1>1, <1>2 DEF Inv, TypeOK, Pending
<1>6. kicked'[n] = kicked[n] + 1 /\ \A m \in Nonces \ {n} : kicked'[m] = kicked[m]
  BY <1>1, <1>2 DEF Inv, TypeOK
<1>7. TypeOK'
  BY <1>1, <1>2, <1>3 DEF Inv, TypeOK
<1>8. \A k \in Handlers : k # h /\ Works(k) /\ Nonce(k) = n => n \in raced
  BY <1>1 DEF Inv, OneOwner, MeetingsRaced, n
<1>9. \A v \in Users : row'[v].nonce # n
  BY <1>1, <1>5, NoNonceIsNone DEF Inv, OneOwner, NoRow, n, u
<1>10. TasksSound'
  <2>1. \A k \in Handlers : Ending(k)' => \A v \in Users : row'[v].nonce # Nonce(k)
    BY <1>4, <1>5, <1>9, TaskShape, NoNonceIsNone DEF Inv, TasksSound, NoRow, Ending, n
  <2>2. QED
    BY <1>2, <1>3, <1>4, <2>1 DEF Inv, TasksSound
<1>11. RowsArmed'
  BY <1>2, <1>5 DEF Inv, RowsArmed
<1>12. JoinsApart'
  BY <1>4 DEF Inv, JoinsApart
<1>13. OneOwner'
  <2>1. \A v \in Users, k \in Handlers : Works(k) /\ row'[v].nonce = Nonce(k) => row[v].nonce = Nonce(k)
    BY <1>5, TaskShape, NoNonceIsNone DEF Inv, NoRow
  <2>2. \A v, w \in Users : Pending(v)' /\ row'[v].nonce = row'[w].nonce => row[v].nonce = row[w].nonce
    BY <1>5, RowShape, NoNonceIsNone DEF Inv, NoRow
  <2>3. QED
    BY <1>4, <1>5, <2>1, <2>2 DEF Inv, OneOwner
<1>14. MeetingsRaced'
  BY <1>2, <1>4 DEF Inv, MeetingsRaced
<1>15. RowReplaced'
  BY <1>2, <1>4, <1>5, TaskShape DEF Inv, RowReplaced
<1>16. CountsAgree'
  BY <1>2, <1>3, <1>4, <1>5 DEF Inv, CountsAgree
<1>17. NoVerdictYet'
  <2>1. ASSUME NEW v \in Users, Pending(v)', row'[v].nonce \notin raced
        PROVE  Undecided(row[v].nonce)'
    BY <1>2, <1>5, <1>6, <1>9, <2>1, RowShape DEF Inv, NoVerdictYet, Undecided
  <2>2. ASSUME NEW k \in Handlers, Works(k), Nonce(k) \notin raced,
               task'[k].pc \in {"judge", "succeed", "record", "kick", "welcome"}
        PROVE  welcomed[Nonce(k)] = 0 /\ kicked'[Nonce(k)] = 0
    BY <1>3, <1>6, <1>8, <2>2, TaskShape DEF Inv, NoVerdictYet, Undecided
  <2>3. QED
    BY <1>2, <1>4, <1>5, <2>1, <2>2 DEF NoVerdictYet, Undecided
<1>18. Untouched' /\ AttemptsCapped'
  BY <1>1, <1>2, <1>6 DEF Inv, Untouched, Undecided, AttemptsCapped
<1>19. OneVerdict'
  BY <1>1, <1>2, <1>6 DEF Inv, TypeOK, OneVerdict, Undecided
<1>20. QED
  BY <1>7, <1>10, <1>11, <1>12, <1>13, <1>14, <1>15, <1>16, <1>17, <1>18, <1>19 DEF Inv

(* A wrong answer: the count of the copy plus one, onto the row of now.    *)
LEMMA RecordWrongInv ==
  ASSUME Inv, NEW h \in Handlers, RecordWrong(h)
  PROVE  Inv'
<1> DEFINE n == Nonce(h)
           u == task[h].user
           a == task[h].read.attempts + 1
<1> USE DEF RecordWrong, chat
<1>1. /\ Works(h) /\ ~Joining(h) /\ u \in Users /\ n \in Nonces /\ n \in armed
      /\ a \in 0 .. MaxAttempts - 1
      /\ n \notin raced => a = judged[n] + 1
      /\ Pending(u) => row[u].nonce \in {n} \cup raced
  BY TaskShape, BoundsAreCounts DEF Inv, TasksSound, CountsAgree, RowReplaced, Labels, Joining
<1>2. /\ row' = IF Pending(u) THEN [row EXCEPT ![u].attempts = a] ELSE row
      /\ Done(h) /\ judged' = [judged EXCEPT ![n] = @ + 1]
      /\ UNCHANGED <<member, shown, minted, expired, unbans, sent, armed, kicked, welcomed, raced, stuck>>
  BY DEF Nonce
<1>3. /\ task' \in [Handlers -> Task]
      /\ \A k \in Handlers :
           Works(k)' => /\ k # h /\ Works(k) /\ task'[k] = task[k] /\ Nonce(k)' = Nonce(k)
                        /\ Joining(k)' <=> Joining(k)
                        /\ Ending(k)' <=> Ending(k)
  BY <1>2, OthersStay DEF Inv
<1> HIDE DEF n, u, a
<1>4. /\ row' \in [Users -> Row \cup {NoRow}]
      /\ \A v \in Users : /\ row'[v].nonce = row[v].nonce /\ Pending(v)' <=> Pending(v)
                          /\ v # u => row'[v] = row[v]
                          /\ v = u /\ Pending(v) => row'[v].attempts = a
  <2>1. CASE Pending(u)
    <3>1. row[u] \in Row /\ row' = [row EXCEPT ![u] = [row[u] EXCEPT !.attempts = a]]
      BY <1>1, <1>2, <2>1, RowShape DEF Inv
    <3>2. [row[u] EXCEPT !.attempts = a] \in Row
      BY <1>1, <3>1 DEF Row
    <3>3. row'[u].nonce = row[u].nonce /\ row'[u].attempts = a /\ row'[u] \in Row
      BY <1>1, <3>1, <3>2 DEF Inv, TypeOK, Row
    <3>4. row'[u] # NoRow
      BY <3>3, NoNonceIsNone DEF Row, NoRow
    <3>5. QED
      BY <1>1, <2>1, <3>1, <3>2, <3>3, <3>4 DEF Inv, TypeOK, Pending
  <2>2. CASE ~Pending(u)
    BY <1>2, <2>2 DEF Inv, TypeOK, Pending
  <2>3. QED
    BY <2>1, <2>2
<1>5. judged'[n] = judged[n] + 1 /\ \A m \in Nonces \ {n} : judged'[m] = judged[m]
  BY <1>1, <1>2 DEF Inv, TypeOK
<1>6. TypeOK'
  BY <1>1, <1>2, <1>3, <1>4 DEF Inv, TypeOK
<1>7. \A k \in Handlers : Works(k)' /\ Nonce(k) = n => n \in raced
  BY <1>1, <1>3 DEF Inv, OneOwner, MeetingsRaced, n
<1>8. \A v \in Users : row[v].nonce = n => v = u
  BY <1>1 DEF Inv, OneOwner, n, u
<1>9. TasksSound' /\ RowsArmed' /\ JoinsApart'
  BY <1>2, <1>3, <1>4 DEF Inv, TasksSound, RowsArmed, JoinsApart, Joining
<1>10. OneOwner' /\ MeetingsRaced'
  BY <1>2, <1>3, <1>4 DEF Inv, OneOwner, MeetingsRaced
<1>11. RowReplaced'
  BY <1>2, <1>3, <1>4, TaskShape DEF Inv, RowReplaced
<1>12. CountsAgree'
  <2>1. ASSUME NEW v \in Users, Pending(v), row[v].nonce \notin raced
        PROVE  row'[v].attempts = judged'[row[v].nonce]
    <3>1. CASE v = u
      BY <1>1, <1>4, <1>5, <2>1, <3>1
    <3>2. CASE v # u
      BY <1>4, <1>5, <1>8, <2>1, <3>2, RowShape DEF Inv, CountsAgree
    <3>3. QED
      BY <3>1, <3>2
  <2>2. ASSUME NEW k \in Handlers, Works(k)', task[k].pc \in {"judge", "record"}, Nonce(k) \notin raced
        PROVE  task[k].read.attempts = judged'[Nonce(k)]
    BY <1>3, <1>5, <1>7, <2>2, TaskShape DEF Inv, CountsAgree
  <2>3. QED
    BY <1>2, <1>3, <1>4, <2>1, <2>2 DEF CountsAgree
<1>13. NoVerdictYet' /\ OneVerdict'
  BY <1>2, <1>3, <1>4 DEF Inv, NoVerdictYet, Undecided, OneVerdict
<1>14. Untouched'
  BY <1>1, <1>2, <1>5 DEF Inv, TypeOK, Untouched, Undecided
<1>15. AttemptsCapped'
  BY <1>1, <1>2, <1>5, BoundsAreCounts DEF Inv, TypeOK, AttemptsCapped
<1>16. QED
  BY <1>6, <1>9, <1>10, <1>11, <1>12, <1>13, <1>14, <1>15 DEF Inv

-----------------------------------------------------------------------------
LEMMA InitInv ==
  ASSUME Init
  PROVE  Inv
<1>1. TypeOK
  BY NoNonceIsNone, BoundsAreCounts DEF Init, TypeOK, Task, Idle, NoRow
<1>2. /\ \A h \in Handlers : ~Works(h)
      /\ \A u \in Users : ~Pending(u) /\ row[u].nonce \notin Nonces
  BY NoNonceIsNone DEF Init, Works, Pending, NoRow
<1>3. TasksSound /\ RowsArmed /\ JoinsApart /\ OneOwner /\ MeetingsRaced /\ RowReplaced
  BY <1>2 DEF TasksSound, RowsArmed, JoinsApart, Joining, OneOwner, MeetingsRaced, RowReplaced
<1>4. CountsAgree /\ NoVerdictYet
  BY <1>2 DEF CountsAgree, NoVerdictYet
<1>5. Untouched /\ AttemptsCapped /\ OneVerdict
  BY BoundsAreCounts DEF Init, Untouched, Undecided, AttemptsCapped, OneVerdict
<1>6. QED
  BY <1>1, <1>3, <1>4, <1>5 DEF Inv

LEMMA NextInv ==
  ASSUME Inv, [Next]_vars
  PROVE  Inv'
<1>1. ASSUME NEW h \in Handlers, Work(h) \/ Abort(h)
      PROVE  Inv'
  BY <1>1, AskInv, ArmInv, JudgeInv, SucceedInv, WelcomeInv, RecordWrongInv, KickRowInv, BanInv,
     EndInv DEF Work
<1>2. ASSUME NEW h \in Handlers, NEW u \in Users, Update(h, u)
      PROVE  Inv'
  <2>1. CASE Approve(h, u)
    BY <2>1, AnswerInv
  <2>2. CASE \E n \in Nonces : Join(h, u, n)
    BY <2>2, JoinInv
  <2>3. CASE \E ok \in BOOLEAN : Answer(h, u, ok) \/ Press(h, u, ok)
    BY <2>3, AnswerInv
  <2>4. QED
    BY <1>2, <2>1, <2>2, <2>3 DEF Update
<1>3. CASE UNCHANGED vars
  <2>1. TypeOK'
    BY <1>3 DEF vars, chat, ghosts, Inv, TypeOK
  <2>2. \A h \in Handlers : Works(h)' <=> Works(h)
    BY <1>3 DEF vars, Works
  <2>3. QED
    BY <1>3, <2>1, <2>2, QuietStep DEF vars, chat, ghosts, Inv, TasksSound, Joining, Ending, Nonce
<1>4. QED
  BY <1>1, <1>2, <1>3, OutsideInv, SweepInv DEF Next

THEOREM Invariance == Spec => []Inv
<1>1. Init => Inv
  BY InitInv
<1>2. Inv /\ [Next]_vars => Inv'
  BY NextInv
<1>3. QED
  BY <1>1, <1>2, PTL DEF Spec

(* Whatever handlers do with the rows they have read, the rows stay sound: *)
(* a challenge that waits for an answer shows its buttons, and the         *)
(* attempts counted against it are its own and below MAX_ATTEMPTS          *)
(* (_fail_attempt, _record_wrong_attempt, _issue_challenge).               *)
THEOREM Rows == Spec => []RowsSound
<1>1. Inv => PendingHasButtons
  BY DEF Inv, RowsArmed, PendingHasButtons
<1>2. Inv => FreshAttempts
  <2> SUFFICES ASSUME Inv, NEW u \in Users, Pending(u), row[u].nonce \notin raced
               PROVE  row[u].attempts <= judged[row[u].nonce]
    BY DEF FreshAttempts
  <2>1. row[u].attempts = judged[row[u].nonce] /\ row[u].attempts \in Nat
    BY RowShape DEF Inv, CountsAgree
  <2>2. QED
    BY <2>1
<1>3. Inv => RowsSound
  BY <1>1, <1>2 DEF Inv, RowsSound
<1>4. QED
  BY <1>3, Invariance, PTL

(* A challenge ends once: of handlers that do not overlap, never two       *)
(* welcome a newcomer, or remove them, or one each (_succeed and _kick).   *)
THEOREM Verdicts == Spec => []OneVerdict
<1>1. Inv => OneVerdict
  BY DEF Inv
<1>2. QED
  BY <1>1, Invariance, PTL

(* A row that is gone stays gone: only the upsert of a join puts a         *)
(* challenge into the table, and a join's challenge was never in it        *)
(* before.  Any other handler that comes late finds no row, or another     *)
(* challenge's, whose nonce it does not touch (_record_wrong_attempt).     *)
THEOREM GoneForGood == Spec => NoResurrection
<1> DEFINE Stays == \A n \in armed : (\A u \in Users : row[u].nonce # n)
                                       => \A u \in Users : row'[u].nonce # n
<1>1. ASSUME Inv, [Next]_vars
      PROVE  Stays
  <2>1. armed \subseteq Nonces /\ NoRow.nonce \notin armed
    BY <1>1, NoNonceIsNone DEF Inv, TypeOK, NoRow
  <2>2. CASE UNCHANGED row
    BY <2>2
  <2>3. ASSUME NEW h \in Handlers, Arm(h)
        PROVE  Stays
    <3>1. Works(h) /\ Nonce(h) \notin armed /\ task[h].user \in Users
      BY <1>1, <2>3, TaskShape DEF Inv, TasksSound, Arm, Labels, Joining
    <3>2. \A u \in Users : row'[u].nonce \in {row[u].nonce, Nonce(h)}
      BY <1>1, <2>3, <3>1 DEF Arm, Inv, TypeOK, Nonce
    <3>3. QED
      BY <3>1, <3>2
  <2>4. ASSUME NEW h \in Handlers, RecordWrong(h)
        PROVE  Stays
    <3>1. Works(h) /\ task[h].user \in Users
      BY <1>1, <2>4, TaskShape DEF Inv, RecordWrong, Labels
    <3>2. CASE Pending(task[h].user)
      <4>1. row[task[h].user] \in Row
        BY <1>1, <3>1, <3>2, RowShape DEF Inv
      <4>2. \A u \in Users : row'[u].nonce = row[u].nonce
        BY <1>1, <2>4, <3>1, <3>2, <4>1 DEF RecordWrong, Inv, TypeOK, Row
      <4>3. QED
        BY <4>2
    <3>3. CASE ~Pending(task[h].user)
      BY <2>4, <3>3 DEF RecordWrong
    <3>4. QED
      BY <3>2, <3>3
  <2>5. ASSUME NEW h \in Handlers, Succeed(h) \/ KickRow(h)
        PROVE  Stays
    <3>1. \A u \in Users : row'[u] \in {row[u], NoRow}
      BY <1>1, <2>5 DEF Succeed, KickRow, DeleteRow, Inv, TypeOK
    <3>2. QED
      BY <2>1, <3>1
  <2>6. CASE Sweep
    BY <2>1, <2>6 DEF Sweep
  <2>7. QED
    <3>1. CASE \E h \in Handlers : Work(h) \/ Abort(h)
      BY <3>1, <2>2, <2>3, <2>4, <2>5
         DEF Work, Abort, Ask, Judge, Welcome, Ban, BanRefused, ScheduleUnban
    <3>2. CASE \E h \in Handlers, u \in Users : Update(h, u)
      BY <3>2, <2>2 DEF Update, Approve, Join, Answer, Press
    <3>3. CASE \/ \E u \in Users : Unban(u) \/ Leave(u) \/ LoseUnban(u)
               \/ \E n \in Nonces : Expire(n)
      BY <3>3, <2>2 DEF Unban, Leave, LoseUnban, Expire
    <3>4. CASE UNCHANGED vars
      BY <3>4, <2>2 DEF vars
    <3>5. QED
      BY <1>1, <2>6, <3>1, <3>2, <3>3, <3>4 DEF Next
<1>2. Inv /\ [Next]_vars => [Stays]_vars
  BY <1>1
<1>3. QED
  BY <1>2, Invariance, PTL DEF Spec, NoResurrection

=============================================================================
