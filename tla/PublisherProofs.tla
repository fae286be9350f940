--------------------------- MODULE PublisherProofs --------------------------
(***************************************************************************)
(* Proofs about Publisher for any groups, posts, jobs and ticks at once, and any  *)
(* number of days, crashes and reruns.                                     *)
(***************************************************************************)
EXTENDS Publisher, FiniteSetTheorems, WellFoundedInduction, TLAPS

(* The inductive invariant.  A tick acts on rows it read before others     *)
(* changed them, so what is paid for is said of its copies as well.        *)
Owing(i)     == {t \in Ticks : Owes(t, i)}
Debt(i)      == Cardinality(Owing(i))
Allowance(i) == Worth(granted[i]) + again[i]

\* A live row's days, and the forwards ticks may be about to make of it, are left
\* of what was granted and what was spent twice.
RowsPaid ==
  \A i \in Live :
    /\ sent[i] + Debt(i) + Worth(rows[i].days) <= Allowance(i)
    /\ rows[i].due => i \notin spent

\* So are the forwards of a row that may be gone by now, and every forward made; a
\* second tick that owes one has spent the day again.
TickPaid ==
  \A i \in Ids :
    /\ sent[i] + Debt(i) <= Allowance(i)
    /\ \A t \in Ticks : Owes(t, i) => i <= made /\ i \in spent
    /\ \A t, k \in Ticks : Owes(t, i) /\ Owes(k, i) => t = k \/ again[i] > 0

\* What the ticks have still to come to: the first to spend a day finds it paid for,
\* in the copy as in the row.
SnapSound ==
  \A t \in Ticks : \A p \in Waiting(t) :
    /\ p.id <= made
    /\ p.id \notin spent => sent[p.id] + Debt(p.id) + 1 <= Allowance(p.id)
    /\ p.id \notin spent /\ p.id \in Live => rows[p.id].days = p.days

RefusedGone ==
  \A i \in Ids : ended[i] = "refused" =>
    i \notin Live /\ i \in spent /\ \A t \in Ticks : Owes(t, i) => again[i] > 0

\* A job that has deleted a group's old campaign finds none when it inserts its
\* own, unless another fills that group.
Fills(j, g) == job[j].pc \in {"count", "trim", "create"} /\ job[j].group = g
CampaignsApart ==
  \A g \in Groups \ crowded :
    /\ \A j, k \in Jobs : Fills(j, g) /\ Fills(k, g) => j = k
    /\ \A j \in Jobs : Fills(j, g) => SameCampaign(g, job[j].sub.origin) = {}
    /\ \A o \in Origins : \A i, k \in SameCampaign(g, o) : i = k

Inv ==
  /\ TypeOK /\ RowsPaid /\ TickPaid /\ SnapSound /\ RefusedGone
  /\ CampaignsApart /\ RerunFindsPost

-----------------------------------------------------------------------------
(* The jobs.                                                               *)
Labels == {"queued", "render", "next", "count", "trim", "create", "discard"}
Approving ==
  [pc : Labels, sub : Submissions, days : DayOptions, todo : SUBSET Groups,
   group : Groups, excess : Int]

LEMMA JobShape ==
  ASSUME TypeOK, NEW j \in Jobs
  PROVE  /\ job[j].pc = "idle" \/ job[j] \in Approving
         /\ job[j].pc = "idle" <=> job[j] = IdleJob
<1>1. job[j] \in {IdleJob} \cup Approving
  BY DEF TypeOK, Job, Approving, Labels
<1>2. QED
  BY <1>1 DEF IdleJob, Approving, Labels

\* A job that goes on as r, whatever the others do, and one that ends.
LEMMA JobMoves ==
  ASSUME TypeOK, NEW j \in Jobs, NEW r \in Approving \cup {IdleJob}, job' = [job EXCEPT ![j] = r]
  PROVE  /\ job' \in [Jobs -> Job]
         /\ job'[j] = r
         /\ \A k \in Jobs \ {j} : job'[k] = job[k]
BY DEF TypeOK, Job, Approving, Labels

LEMMA GotoShape ==
  ASSUME TypeOK, NEW j \in Jobs, job[j] \in Approving, NEW l \in Labels,
         job' = [job EXCEPT ![j].pc = l]
  PROVE  /\ job' \in [Jobs -> Job]
         /\ job'[j] \in Approving /\ job'[j].pc = l
         /\ job'[j].sub = job[j].sub /\ job'[j].group = job[j].group
         /\ \A k \in Jobs \ {j} : job'[k] = job[k]
<1>1. job' = [job EXCEPT ![j] = [job[j] EXCEPT !.pc = l]]
  BY DEF TypeOK
<1>2. [job[j] EXCEPT !.pc = l] \in Approving
  BY DEF Approving
<1>3. QED
  BY <1>1, <1>2, JobMoves DEF Approving

LEMMA TodoShape ==
  ASSUME TypeOK, NEW j \in Jobs, job[j] \in Approving, NEW l \in Labels, NEW T \in SUBSET Groups,
         job' = [job EXCEPT ![j].pc = l, ![j].todo = T]
  PROVE  /\ job' \in [Jobs -> Job]
         /\ job'[j] \in Approving /\ job'[j].pc = l
         /\ job'[j].sub = job[j].sub /\ job'[j].group = job[j].group
         /\ \A k \in Jobs \ {j} : job'[k] = job[k]
<1> DEFINE r == [[job[j] EXCEPT !.pc = l] EXCEPT !.todo = T]
<1>1. job' = [job EXCEPT ![j] = r]
  BY DEF TypeOK
<1>2. [job[j] EXCEPT !.pc = l] \in Approving
  BY DEF Approving
<1>3. r \in Approving /\ r.pc = l /\ r.sub = job[j].sub /\ r.group = job[j].group
  BY <1>2 DEF Approving
<1> HIDE DEF r
<1>4. QED
  BY <1>1, <1>3, JobMoves

LEMMA GroupShape ==
  ASSUME TypeOK, NEW j \in Jobs, job[j] \in Approving, NEW l \in Labels, NEW g \in Groups,
         job' = [job EXCEPT ![j].pc = l, ![j].group = g]
  PROVE  /\ job' \in [Jobs -> Job]
         /\ job'[j] \in Approving /\ job'[j].pc = l
         /\ job'[j].sub = job[j].sub /\ job'[j].group = g
         /\ \A k \in Jobs \ {j} : job'[k] = job[k]
<1> DEFINE r == [[job[j] EXCEPT !.pc = l] EXCEPT !.group = g]
<1>1. job' = [job EXCEPT ![j] = r]
  BY DEF TypeOK
<1>2. [job[j] EXCEPT !.pc = l] \in Approving
  BY DEF Approving
<1>3. r \in Approving /\ r.pc = l /\ r.sub = job[j].sub /\ r.group = g
  BY <1>2 DEF Approving
<1> HIDE DEF r
<1>4. QED
  BY <1>1, <1>3, JobMoves

LEMMA ExcessShape ==
  ASSUME TypeOK, NEW j \in Jobs, job[j] \in Approving, NEW l \in Labels, NEW n \in Int,
         job' = [job EXCEPT ![j].pc = l, ![j].excess = n]
  PROVE  /\ job' \in [Jobs -> Job]
         /\ job'[j] \in Approving /\ job'[j].pc = l
         /\ job'[j].sub = job[j].sub /\ job'[j].group = job[j].group
         /\ job'[j].excess = n
         /\ \A k \in Jobs \ {j} : job'[k] = job[k]
<1> DEFINE r == [[job[j] EXCEPT !.pc = l] EXCEPT !.excess = n]
<1>1. job' = [job EXCEPT ![j] = r]
  BY DEF TypeOK
<1>2. [job[j] EXCEPT !.pc = l] \in Approving
  BY DEF Approving
<1>3. r \in Approving /\ r.pc = l /\ r.excess = n /\ r.sub = job[j].sub /\ r.group = job[j].group
  BY <1>2 DEF Approving
<1> HIDE DEF r
<1>4. QED
  BY <1>1, <1>3, JobMoves

LEMMA ExcessIsCount ==
  ASSUME TypeOK, NEW g \in Groups
  PROVE  Excess(g) \in Int
<1>1. IsFiniteSet(LiveIn(g))
  <2>1. IsFiniteSet(Ids)
    BY FS_Interval, CountsAreNats DEF Ids
  <2>2. LiveIn(g) \subseteq Ids
    BY DEF LiveIn, Live
  <2>3. QED
    BY <2>1, <2>2, FS_Subset
<1>2. Cardinality(LiveIn(g)) \in Nat
  BY <1>1, FS_CardinalityType
<1>3. QED
  BY <1>2, CountsAreNats DEF Excess

(* What a job's step leaves of the jobs: apart from DropOld, none begins   *)
(* to fill a group, and none works on a post it did not find.              *)
JobsGoOn ==
  /\ job' \in [Jobs -> Job]
  /\ \A k \in Jobs :
       job'[k].pc \notin {"idle", "queued"} =>
         /\ job'[k].sub = job[k].sub
         /\ job[k].pc \notin {"idle", "queued"} \/ job[k].sub.key \in pending
NoneFills ==
  \A k \in Jobs : job'[k].pc \in {"count", "trim", "create"} =>
    /\ job[k].pc \in {"count", "trim", "create"}
    /\ job'[k].group = job[k].group /\ job'[k].sub = job[k].sub

LEMMA JobSteps ==
  ASSUME TypeOK, NEW j \in Jobs,
         \/ Fetch(j) \/ Render(j) \/ CountRows(j) \/ TrimOldest(j) \/ CreateRow(j) \/ LoopEnds(j)
         \/ Discard(j) \/ GroupFails(j) \/ JobDies(j) \/ JobReruns(j)
  PROVE  JobsGoOn /\ NoneFills
<1> USE DEF At
<1>1. job[j] \in Approving
  BY JobShape DEF Fetch, Render, CountRows, TrimOldest, CreateRow, LoopEnds, Discard, GroupFails,
                  JobDies, JobReruns
<1>2. CASE Fetch(j)
  <2>1. CASE job[j].sub.key \in pending
    <3>1. job' = [job EXCEPT ![j].pc = "render"]
      BY <1>2, <2>1 DEF Fetch
    <3>2. QED
      BY <1>1, <1>2, <2>1, <3>1, GotoShape DEF Fetch, JobsGoOn, NoneFills, Labels
  <2>2. CASE job[j].sub.key \notin pending
    <3>1. job' = [job EXCEPT ![j] = IdleJob]
      BY <1>2, <2>2 DEF Fetch
    <3>2. QED
      BY <3>1, JobMoves DEF JobsGoOn, NoneFills, IdleJob
  <2>3. QED
    BY <2>1, <2>2
<1>3. CASE Render(j)
  <2>1. PICK T \in SUBSET consent : job' = [job EXCEPT ![j].pc = "next", ![j].todo = T]
    BY <1>3 DEF Render
  <2>2. T \in SUBSET Groups
    BY DEF TypeOK
  <2>3. QED
    BY <1>1, <1>3, <2>1, <2>2, TodoShape DEF Render, JobsGoOn, NoneFills, Labels
<1>4. CASE CountRows(j)
  <2>1. Excess(job[j].group) \in Int
    BY <1>1, ExcessIsCount DEF Approving
  <2>2. PICK l \in {"create", "trim"} :
          job' = [job EXCEPT ![j].pc = l, ![j].excess = Excess(job[j].group)]
    BY <1>4 DEF CountRows
  <2>3. /\ job' \in [Jobs -> Job]
        /\ job'[j].pc = l /\ job'[j].sub = job[j].sub /\ job'[j].group = job[j].group
        /\ \A k \in Jobs \ {j} : job'[k] = job[k]
    BY <1>1, <2>1, <2>2, ExcessShape DEF Labels
  <2>4. QED
    BY <1>4, <2>3 DEF CountRows, JobsGoOn, NoneFills
<1>5. CASE TrimOldest(j) \/ LoopEnds(j)
  <2>1. PICK l \in {"create", "discard"} :
          /\ job' = [job EXCEPT ![j].pc = l]
          /\ l = "create" => job[j].pc = "trim"
          /\ job[j].pc \in {"trim", "next"}
    BY <1>5 DEF TrimOldest, LoopEnds, Goto
  <2>2. QED
    BY <1>1, <2>1, GotoShape DEF JobsGoOn, NoneFills, Labels
<1>6. CASE CreateRow(j) \/ GroupFails(j)
  <2> DEFINE T == job[j].todo \ {job[j].group}
  <2>1. /\ job' = [job EXCEPT ![j].pc = "next", ![j].todo = T]
        /\ job[j].pc \in {"count", "trim", "create"}
    BY <1>6 DEF CreateRow, GroupFails, NextGroup, TypeOK
  <2>2. T \in SUBSET Groups
    BY <1>1 DEF Approving
  <2> HIDE DEF T
  <2>3. /\ job' \in [Jobs -> Job]
        /\ job'[j].pc = "next" /\ job'[j].sub = job[j].sub /\ job'[j].group = job[j].group
        /\ \A k \in Jobs \ {j} : job'[k] = job[k]
    BY <1>1, <2>1, <2>2, TodoShape DEF Labels
  <2>4. QED
    BY <2>1, <2>3 DEF JobsGoOn, NoneFills
<1>7. CASE Discard(j) \/ JobDies(j)
  <2>1. job' = [job EXCEPT ![j] = IdleJob]
    BY <1>7 DEF Discard, JobDies, FinishJob
  <2>2. QED
    BY <2>1, JobMoves DEF JobsGoOn, NoneFills, IdleJob
<1>8. CASE JobReruns(j)
  <2>1. PICK T \in SUBSET Groups : job' = [job EXCEPT ![j].pc = "queued", ![j].todo = T]
    BY <1>8 DEF JobReruns
  <2>2. /\ job' \in [Jobs -> Job]
        /\ job'[j].pc = "queued" /\ job'[j].sub = job[j].sub /\ job'[j].group = job[j].group
        /\ \A k \in Jobs \ {j} : job'[k] = job[k]
    BY <1>1, <2>1, TodoShape DEF Labels
  <2>3. QED
    BY <2>2 DEF JobsGoOn, NoneFills
<1>9. QED
  BY <1>2, <1>3, <1>4, <1>5, <1>6, <1>7, <1>8

LEMMA ApproveJob ==
  ASSUME TypeOK, NEW j \in Jobs, NEW s \in Submissions, NEW d \in DayOptions, PressApprove(j, s, d)
  PROVE  JobsGoOn /\ NoneFills
<1> DEFINE r == [pc |-> "queued", sub |-> s, days |-> d, todo |-> {}, group |-> s.chat, excess |-> 0]
<1>1. r \in Approving /\ r.pc = "queued"
  BY SubmissionsAreRecords DEF Approving, Labels
<1>2. job' = [job EXCEPT ![j] = r] \/ job' = job
  BY DEF PressApprove, Maybe
<1> HIDE DEF r
<1>3. CASE job' = [job EXCEPT ![j] = r]
  BY <1>1, <1>3, JobMoves DEF JobsGoOn, NoneFills
<1>4. CASE job' = job
  BY <1>4 DEF JobsGoOn, NoneFills, TypeOK
<1>5. QED
  BY <1>2, <1>3, <1>4

\* The job that begins with group g.
LEMMA DropOldJob ==
  ASSUME TypeOK, NEW j \in Jobs, NEW g \in Groups, DropOld(j, g)
  PROVE  /\ JobsGoOn
         /\ job[j].pc = "next" /\ job[j] \in Approving
         /\ job'[j].pc = "count" /\ job'[j].group = g /\ job'[j].sub = job[j].sub
         /\ \A k \in Jobs \ {j} : job'[k] = job[k]
<1>1. job[j] \in Approving /\ job[j].pc = "next"
  BY JobShape DEF DropOld, At
<1>2. job' = [job EXCEPT ![j].pc = "count", ![j].group = g]
  BY DEF DropOld
<1>3. QED
  BY <1>1, <1>2, GroupShape DEF JobsGoOn, Labels

-----------------------------------------------------------------------------
(* The gateway: an entry that leaves Valkey is written down as lost, so    *)
(* that a job that found its post finds it again or knows why not.         *)
GatewayTyped ==
  /\ pending \subseteq Keys /\ lost \subseteq Keys
  /\ offered \subseteq submitted /\ asked \subseteq submitted /\ submitted \subseteq Submissions
  /\ consent \subseteq Groups

LEMMA GatewayStep ==
  ASSUME TypeOK, [Next]_vars
  PROVE  GatewayTyped' /\ \A k \in pending \cup lost : k \in pending' \cup lost'
<1> USE DEF GatewayTyped, gateway, TypeOK
<1>1. ASSUME NEW s \in Submissions,
             Submit(s) \/ Offer(s) \/ PressShare(s) \/ Decline(s) \/ PressDeny(s)
      PROVE  GatewayTyped' /\ \A k \in pending \cup lost : k \in pending' \cup lost'
  BY <1>1 DEF Submit, Offer, PressShare, Decline, PressDeny, Maybe, Keys
<1>2. ASSUME NEW j \in Jobs, NEW s \in Submissions, NEW d \in DayOptions, PressApprove(j, s, d)
      PROVE  GatewayTyped' /\ \A k \in pending \cup lost : k \in pending' \cup lost'
  BY <1>2 DEF PressApprove
<1>3. ASSUME NEW k \in Keys, ForgetPending(k)
      PROVE  GatewayTyped' /\ \A i \in pending \cup lost : i \in pending' \cup lost'
  BY <1>3 DEF ForgetPending
<1>4. ASSUME NEW g \in Groups, ToggleConsent(g)
      PROVE  GatewayTyped' /\ \A k \in pending \cup lost : k \in pending' \cup lost'
  BY <1>4 DEF ToggleConsent
<1>5. ASSUME NEW j \in Jobs, Discard(j)
      PROVE  GatewayTyped' /\ \A k \in pending \cup lost : k \in pending' \cup lost'
  <2>1. job[j].sub.key \in Keys
    BY <1>5, JobShape DEF Discard, At, Approving, Keys
  <2>2. QED
    BY <1>5, <2>1 DEF Discard, Maybe
<1>6. CASE UNCHANGED gateway
  BY <1>6
<1>7. ASSUME NEW j \in Jobs, Approval(j)
      PROVE  GatewayTyped' /\ \A k \in pending \cup lost : k \in pending' \cup lost'
  BY <1>5, <1>6, <1>7
     DEF Approval, Fetch, Render, CountRows, TrimOldest, CreateRow, LoopEnds, GroupFails, JobDies,
         JobReruns, DropOld
<1>8. CASE (\E t \in Ticks : Delivery(t) \/ TickDies(t)) \/ \E i \in Ids : ComeDue(i)
  BY <1>6, <1>8 DEF Delivery, TickStarts, CheckConsent, Forwarded, ForwardRejected, ForwardFails,
                    SpendDay, TickDies, ComeDue
<1>9. ASSUME NEW g \in Groups, CancelPosts(g) \/ \E d \in RepostDays : Repost(g, d)
      PROVE  UNCHANGED gateway
  BY <1>9 DEF CancelPosts, Repost
<1>10. CASE UNCHANGED vars
  BY <1>6, <1>10 DEF vars
<1>11. QED
  <2>1. CASE Press
    BY <1>1, <1>2, <1>3, <1>4, <1>6, <1>9, <2>1 DEF Press
  <2>2. QED
    BY <1>7, <1>8, <1>10, <2>1 DEF Next

-----------------------------------------------------------------------------
(* The rows.                                                               *)
TableTyped ==
  /\ made \in 0 .. MaxRows /\ reposts \in 0 .. MaxReposts
  /\ rows \in [Ids -> Row \cup {Gone}]
  /\ \A i \in Ids : i > made => rows[i] = Gone /\ sent[i] = 0 /\ ended[i] = "no" /\ i \notin spent
  /\ granted \in [Ids -> Nat] /\ sent \in [Ids -> Nat]
  /\ ended \in [Ids -> {"no", "cancelled", "refused"}]
  /\ spent \subseteq Ids /\ again \in [Ids -> Nat]

Paid == RowsPaid /\ TickPaid /\ SnapSound /\ RefusedGone

\* No row appears, and none changes hands.
RowsStay ==
  \A i \in Ids : rows'[i] # Gone =>
    rows[i] # Gone /\ rows'[i].group = rows[i].group /\ rows'[i].origin = rows[i].origin

\* What the ticks hold, and what they owe of each row.
LEMMA TickShape ==
  ASSUME TypeOK, NEW t \in Ticks
  PROVE  /\ tick[t] \in Tick
         /\ tick[t].pc \in {"idle", "spend", "consent", "forward"}
         /\ tick[t].pc = "idle" <=> tick[t] = IdleTick
         /\ tick[t].pc = "spend" => tick[t] \in [pc : {"spend"}, snap : SUBSET Due]
         /\ tick[t].pc \in {"consent", "forward"} =>
              /\ tick[t] \in [pc : {"consent", "forward"}, snap : SUBSET Due, cur : Due]
              /\ tick[t].cur.id \in Ids
         /\ Waiting(t) \subseteq Due
         /\ \A p \in Waiting(t) : p.id \in Ids /\ p.days \in Int
<1>1. tick[t] \in {IdleTick} \cup [pc : {"spend"}, snap : SUBSET Due]
               \cup [pc : {"consent", "forward"}, snap : SUBSET Due, cur : Due]
  BY DEF TypeOK, Tick
<1>2. QED
  BY <1>1 DEF IdleTick, Waiting, Due, Tick

LEMMA Numbers ==
  ASSUME TypeOK, NEW i \in Ids
  PROVE  /\ IsFiniteSet(Owing(i)) /\ Debt(i) \in Nat
         /\ sent[i] \in Nat /\ granted[i] \in Nat /\ again[i] \in Nat
         /\ Worth(granted[i]) \in Nat /\ Worth(granted[i]) >= 1 /\ Allowance(i) \in Nat
         /\ i \in Live => rows[i] \in Row /\ rows[i].days \in Int /\ i <= made
         /\ i \in Nat /\ made \in Nat
<1>1. IsFiniteSet(Owing(i)) /\ Debt(i) \in Nat
  <2>1. Owing(i) \subseteq Ticks
    BY DEF Owing
  <2>2. IsFiniteSet(Owing(i))
    BY <2>1, TicksAreFinite, FS_Subset
  <2>3. QED
    BY <2>2, FS_CardinalityType DEF Debt
<1>2. sent[i] \in Nat /\ granted[i] \in Nat /\ again[i] \in Nat
  BY DEF TypeOK
<1>3. Worth(granted[i]) \in Nat /\ Worth(granted[i]) >= 1 /\ Allowance(i) \in Nat
  BY <1>2 DEF Worth, Allowance
<1>4. i \in Live => rows[i] \in Row /\ rows[i].days \in Int
  BY DEF Live, TypeOK, Row
<1>5. i \in Nat /\ made \in Nat
  BY DEF TypeOK, Ids
<1>6. i \in Live => i <= made
  BY <1>5 DEF Live, TypeOK
<1>7. QED
  BY <1>1, <1>2, <1>3, <1>4, <1>5, <1>6

LEMMA WorthCounts ==
  ASSUME NEW d \in Int
  PROVE  Worth(d) \in Nat /\ Worth(d) >= 1 /\ Worth(d) >= d /\ Worth(d - 1) <= Worth(d)
         /\ (d > 1 => Worth(d - 1) + 1 <= Worth(d))
BY DEF Worth

LEMMA SameDebt ==
  ASSUME NEW i, \A k \in Ticks : Owes(k, i)' <=> Owes(k, i)
  PROVE  Debt(i)' = Debt(i)
<1>1. Owing(i)' = Owing(i)
  BY DEF Owing
<1>2. QED
  BY <1>1 DEF Debt

\* Rows are deleted, by whoever it is, and no tick moves.
RowsFall ==
  /\ \E S \in SUBSET Live : rows' = Without(S)
  /\ \A i \in Ids : ended'[i] # ended[i] => ended'[i] = "cancelled" /\ i \in Live
  /\ ended' \in [Ids -> {"no", "cancelled", "refused"}]
  /\ UNCHANGED <<made, reposts, granted, tick, sent, spent, again>>

\* What the ticks owe and hold of what they know, when they stand still.
TicksStand ==
  \A t \in Ticks : Waiting(t)' = Waiting(t) /\ \A i \in Ids : Owes(t, i)' <=> Owes(t, i)

LEMMA StandStill ==
  ASSUME tick' = tick
  PROVE  TicksStand
BY DEF TicksStand, Waiting, Owes

LEMMA Falls ==
  ASSUME Inv, RowsFall
  PROVE  TableTyped' /\ Paid' /\ RowsStay
<1>1. PICK S \in SUBSET Live : rows' = Without(S)
  BY DEF RowsFall
<1>2. /\ \A i \in Ids : rows'[i] \in {rows[i], Gone}
      /\ Live' \subseteq Live /\ Live \subseteq Ids /\ \A i \in Live' : rows'[i] = rows[i]
      /\ rows' \in [Ids -> Row \cup {Gone}]
  BY <1>1 DEF Without, Live, Inv, TypeOK
<1>3. TableTyped'
  BY <1>2 DEF RowsFall, TableTyped, Inv, TypeOK, Live
<1>4. /\ TicksStand
      /\ \A i \in Ids : Debt(i)' = Debt(i) /\ Allowance(i)' = Allowance(i)
      /\ UNCHANGED <<sent, spent, again, made>>
  BY StandStill, SameDebt DEF RowsFall, TicksStand, Allowance
<1>5. RowsPaid'
  BY <1>2, <1>4 DEF RowsPaid, Inv
<1>6. TickPaid'
  BY <1>4 DEF TickPaid, Inv, TicksStand
<1>7. SnapSound'
  <2>1. \A t \in Ticks : \A p \in Waiting(t) : p.id \in Ids
    BY TickShape DEF Inv
  <2>2. QED
    BY <1>2, <1>4, <2>1 DEF SnapSound, Inv, TicksStand
<1>8. RefusedGone'
  BY <1>2, <1>4 DEF RowsFall, RefusedGone, Inv, TicksStand
<1>9. QED
  BY <1>2, <1>3, <1>5, <1>6, <1>7, <1>8 DEF Paid, RowsStay

\* A row is inserted under an id that no tick can know.
LEMMA Gains ==
  ASSUME Inv, NEW g \in Groups, NEW o \in Origins \cup Groups, NEW c \in Groups, NEW d \in Nat,
         Insert(g, o, c, d), UNCHANGED <<ended, tick, sent, spent, again>>,
         reposts' \in 0 .. MaxReposts
  PROVE  /\ TableTyped' /\ Paid'
         /\ rows'[made + 1].group = g /\ rows'[made + 1].origin = o
         /\ made + 1 \in Ids /\ rows[made + 1] = Gone
         /\ \A i \in Ids \ {made + 1} : rows'[i] = rows[i]
<1> PICK n : n = made + 1
  OBVIOUS
<1> DEFINE r == [group |-> g, origin |-> o, chat |-> c, days |-> d, due |-> FALSE]
<1>1. /\ made \in Nat /\ n \in Ids /\ n > made /\ made' = n /\ n <= MaxRows /\ n \in 0 .. MaxRows
      /\ rows' = [rows EXCEPT ![n] = r] /\ granted' = [granted EXCEPT ![n] = d]
      /\ r \in Row /\ r # Gone
  <2>1. r \in Row
    BY DEF Row
  <2>2. made \in 0 .. MaxRows /\ made < MaxRows /\ made' = n
    BY DEF Insert, Inv, TypeOK
  <2>3. made \in Nat /\ n \in Ids /\ n > made /\ n <= MaxRows /\ n \in 0 .. MaxRows
    BY <2>2, CountsAreNats DEF Ids
  <2>4. rows' = [rows EXCEPT ![n] = r] /\ granted' = [granted EXCEPT ![n] = d]
    BY DEF Insert
  <2>5. QED
    BY <2>1, <2>2, <2>3, <2>4, GoneIsNoRow
<1>2. r.group = g /\ r.origin = o /\ r.days = d /\ r.due = FALSE
  OBVIOUS
<1> HIDE DEF r
<1>3. /\ rows'[n] = r /\ \A i \in Ids \ {n} : rows'[i] = rows[i]
      /\ granted'[n] = d /\ \A i \in Ids \ {n} : granted'[i] = granted[i]
      /\ rows[n] = Gone /\ sent[n] = 0 /\ ended[n] = "no" /\ n \notin spent
      /\ rows' \in [Ids -> Row \cup {Gone}] /\ granted' \in [Ids -> Nat]
  BY <1>1 DEF Inv, TypeOK
<1>4. Live' = Live \cup {n} /\ n \notin Live /\ Live \subseteq Ids
  BY <1>1, <1>3 DEF Live
<1>5. /\ TicksStand /\ \A i \in Ids : Debt(i)' = Debt(i)
      /\ \A t \in Ticks : ~Owes(t, n) /\ \A p \in Waiting(t) : p.id # n /\ p.id \in Ids
  <2>1. \A t \in Ticks : \A p \in Waiting(t) : p.id \in Ids
    BY TickShape DEF Inv
  <2>2. \A t \in Ticks : \A p \in Waiting(t) : p.id # n
    BY <1>1, <2>1 DEF Inv, SnapSound, Ids
  <2>3. \A t \in Ticks : ~Owes(t, n)
    BY <1>1 DEF Inv, TickPaid, Ids
  <2>4. QED
    BY <2>1, <2>2, <2>3, StandStill, SameDebt DEF TicksStand
<1>6. Debt(n) = 0
  <2>1. Owing(n) = {}
    BY <1>5 DEF Owing
  <2>2. QED
    BY <2>1, FS_EmptySet DEF Debt
<1>7. /\ \A i \in Ids \ {n} : Allowance(i)' = Allowance(i)
      /\ Allowance(n)' = Worth(d) + again[n] /\ again[n] \in Nat /\ Worth(d) \in Nat
      /\ Allowance(n)' >= Worth(d) /\ Allowance(n)' \in Nat
  <2>1. again' = again /\ again[n] \in Nat
    BY <1>1 DEF Inv, TypeOK
  <2>2. \A i \in Ids \ {n} : Allowance(i)' = Allowance(i)
    BY <1>3, <2>1 DEF Allowance
  <2>3. Allowance(n)' = Worth(d) + again[n]
    <3>1. Allowance(n)' = Worth(granted'[n]) + again'[n]
      BY DEF Allowance
    <3>2. QED
      BY <1>3, <2>1, <3>1
  <2>4. Worth(d) \in Nat
    BY DEF Worth
  <2>5. QED
    BY <2>1, <2>2, <2>3, <2>4
<1>8. TableTyped'
  <2>1. \A i \in Ids : i > n => i > made /\ i # n
    BY <1>1 DEF Ids
  <2>2. made' \in 0 .. MaxRows
    BY <1>1
  <2>3. QED
    BY <1>1, <1>3, <2>1, <2>2 DEF TableTyped, Inv, TypeOK
<1>9. RowsPaid'
  <2>1. ASSUME NEW i \in Live'
        PROVE  /\ sent[i] + Debt(i)' + Worth(rows'[i].days) <= Allowance(i)'
               /\ rows'[i].due => i \notin spent
    <3>1. CASE i = n
      <4>1. Debt(i)' = 0 /\ sent'[i] = 0 /\ sent[i] = 0 /\ Worth(rows'[i].days) = Worth(d)
            /\ rows'[i].due = FALSE
        BY <1>1, <1>2, <1>3, <1>5, <1>6, <3>1
      <4>2. Allowance(i)' = Allowance(n)'
        BY <3>1 DEF Allowance
      <4>3. QED
        BY <1>7, <4>1, <4>2
    <3>2. CASE i # n
      BY <1>3, <1>4, <1>5, <1>7, <3>2 DEF Inv, RowsPaid
    <3>3. QED
      BY <3>1, <3>2
  <2>2. QED
    BY <2>1 DEF RowsPaid
<1>10. TickPaid'
  <2>1. ASSUME NEW i \in Ids PROVE sent[i] + Debt(i)' <= Allowance(i)'
    <3>1. CASE i = n
      <4>1. Debt(i)' = 0 /\ sent[i] = 0
        BY <1>1, <1>3, <1>5, <1>6, <3>1
      <4>2. Allowance(i)' = Allowance(n)'
        BY <3>1 DEF Allowance
      <4>3. QED
        BY <1>7, <4>1, <4>2
    <3>2. CASE i # n
      BY <1>5, <1>7, <3>2 DEF Inv, TickPaid
    <3>3. QED
      BY <3>1, <3>2
  <2>2. \A t \in Ticks : \A i \in Ids : Owes(t, i)' => i <= made' /\ i \in spent
    BY <1>1, <1>5 DEF Inv, TickPaid, TicksStand, Ids
  <2>3. QED
    BY <1>5, <2>1, <2>2 DEF Inv, TickPaid, TicksStand
<1>11. SnapSound'
  <2>1. \A t \in Ticks : \A p \in Waiting(t) : p.id <= made'
    BY <1>1, <1>5 DEF Inv, SnapSound, Ids
  <2>2. QED
    BY <1>3, <1>4, <1>5, <1>7, <2>1 DEF Inv, SnapSound, TicksStand
<1>12. RefusedGone'
  BY <1>3, <1>4, <1>5 DEF Inv, RefusedGone, TicksStand
<1>13. QED
  BY <1>1, <1>2, <1>3, <1>8, <1>9, <1>10, <1>11, <1>12 DEF Paid

-----------------------------------------------------------------------------
(* The ticks.                                                              *)
\* A tick that goes on as r, whatever the others do.
LEMMA TickMoves ==
  ASSUME TypeOK, NEW t \in Ticks, NEW r \in Tick, tick' = [tick EXCEPT ![t] = r]
  PROVE  /\ tick' \in [Ticks -> Tick]
         /\ tick'[t] = r
         /\ \A k \in Ticks \ {t} : tick'[k] = tick[k]
                                   /\ Waiting(k)' = Waiting(k) /\ \A i : Owes(k, i)' <=> Owes(k, i)
<1>1. tick' \in [Ticks -> Tick] /\ tick'[t] = r /\ \A k \in Ticks \ {t} : tick'[k] = tick[k]
  BY DEF TypeOK
<1>2. QED
  BY <1>1 DEF Waiting, Owes

\* A tick that is done with the row it was at, and owes no row any more.
LetsGo(t) ==
  /\ tick' \in [Ticks -> Tick]
  /\ Waiting(t)' \subseteq Waiting(t) /\ \A i \in Ids : ~Owes(t, i)'
  /\ \A k \in Ticks \ {t} : Waiting(k)' = Waiting(k) /\ \A i \in Ids : Owes(k, i)' <=> Owes(k, i)

LEMMA NextPostShape ==
  ASSUME TypeOK, NEW t \in Ticks, tick[t].pc \in {"consent", "forward"}, NextPost(t)
  PROVE  LetsGo(t)
<1> DEFINE r == IF tick[t].snap = {} THEN IdleTick ELSE [pc |-> "spend", snap |-> tick[t].snap]
<1>1. tick[t].snap \in SUBSET Due
  BY TickShape
<1>2. tick' = [tick EXCEPT ![t] = r]
  BY DEF NextPost, TypeOK
<1>3. r \in Tick /\ r.pc \in {"idle", "spend"} /\ (r.pc = "spend" => r.snap = tick[t].snap)
  BY <1>1 DEF Tick, IdleTick
<1> HIDE DEF r
<1>4. /\ tick' \in [Ticks -> Tick] /\ tick'[t] = r
      /\ \A k \in Ticks \ {t} : Waiting(k)' = Waiting(k) /\ \A i : Owes(k, i)' <=> Owes(k, i)
  BY <1>2, <1>3, TickMoves
<1>5. Waiting(t)' \subseteq Waiting(t) /\ \A i \in Ids : ~Owes(t, i)'
  BY <1>3, <1>4 DEF Waiting, Owes
<1>6. QED
  BY <1>4, <1>5 DEF LetsGo

LEMMA DiesShape ==
  ASSUME TypeOK, NEW t \in Ticks, tick' = [tick EXCEPT ![t] = IdleTick]
  PROVE  LetsGo(t)
<1>1. IdleTick \in Tick
  BY DEF Tick
<1>2. /\ tick' \in [Ticks -> Tick] /\ tick'[t] = IdleTick
      /\ \A k \in Ticks \ {t} : Waiting(k)' = Waiting(k) /\ \A i : Owes(k, i)' <=> Owes(k, i)
  BY <1>1, TickMoves
<1>3. Waiting(t)' = {} /\ \A i \in Ids : ~Owes(t, i)'
  BY <1>2 DEF Waiting, Owes, IdleTick
<1>4. QED
  BY <1>2, <1>3 DEF LetsGo

\* What it owed is owed no more; the other debts are as they were.
LEMMA LetsGoDebt ==
  ASSUME TypeOK, NEW t \in Ticks, LetsGo(t), NEW i \in Ids
  PROVE  /\ Debt(i)' \in Nat /\ Debt(i) \in Nat /\ Debt(i)' <= Debt(i)
         /\ Owes(t, i) => Debt(i)' = Debt(i) - 1
         /\ \A k \in Ticks : Owes(k, i)' => Owes(k, i) /\ k # t
<1>1. Owing(i)' = Owing(i) \ {t}
  BY DEF LetsGo, Owing
<1>2. IsFiniteSet(Owing(i))
  BY Numbers
<1>3. /\ IsFiniteSet(Owing(i) \ {t})
      /\ Cardinality(Owing(i) \ {t}) = IF t \in Owing(i) THEN Cardinality(Owing(i)) - 1
                                       ELSE Cardinality(Owing(i))
  BY <1>2, FS_RemoveElement
<1>4. Cardinality(Owing(i)) \in Nat /\ Cardinality(Owing(i) \ {t}) \in Nat
  BY <1>2, <1>3, FS_CardinalityType
<1>5. \A k \in Ticks : Owes(k, i)' => Owes(k, i) /\ k # t
  BY DEF LetsGo
<1>6. Owes(t, i) => t \in Owing(i)
  BY DEF Owing
<1>7. QED
  BY <1>1, <1>3, <1>4, <1>5, <1>6 DEF Debt

\* The rows are read: the copies say what the rows say.
LEMMA TickStartsInv ==
  ASSUME Inv, NEW t \in Ticks, NEW due \in SUBSET Live, TickStarts(t, due)
  PROVE  tick' \in [Ticks -> Tick] /\ Paid'
<1> DEFINE D(i) == [id |-> i, days |-> rows[i].days, group |-> rows[i].group]
           r == [pc |-> "spend", snap |-> {D(i) : i \in due}]
<1>1. /\ tick[t] = IdleTick /\ tick' = [tick EXCEPT ![t] = r]
      /\ due \subseteq {i \in Live : rows[i].due}
      /\ UNCHANGED <<rows, made, granted, ended, sent, spent, again>>
  BY DEF TickStarts, table, twice
<1>2. /\ due \subseteq Ids /\ Live' = Live /\ Live \subseteq Ids
      /\ \A i \in due : i \in Live /\ rows[i].due /\ rows[i] \in Row /\ i <= made
  BY <1>1, Numbers DEF Live, Inv
<1>3. \A i \in due : D(i) \in Due
  BY <1>2 DEF Due, Row
<1>4. r \in Tick /\ r.pc = "spend" /\ r.snap = {D(i) : i \in due}
  BY <1>3 DEF Tick
<1> HIDE DEF r
<1>5. /\ tick' \in [Ticks -> Tick] /\ tick'[t] = r
      /\ \A k \in Ticks \ {t} : Waiting(k)' = Waiting(k) /\ \A i : Owes(k, i)' <=> Owes(k, i)
  BY <1>1, <1>4, TickMoves DEF Inv
<1>6. /\ Waiting(t)' = {D(i) : i \in due}
      /\ \A i \in Ids : \A k \in Ticks : Owes(k, i)' <=> Owes(k, i)
  BY <1>1, <1>4, <1>5 DEF Waiting, Owes, IdleTick
<1>7. \A i \in Ids : Debt(i)' = Debt(i) /\ Allowance(i)' = Allowance(i)
  BY <1>1, <1>6, SameDebt DEF Allowance
<1>8. RowsPaid'
  BY <1>1, <1>2, <1>7 DEF Inv, RowsPaid
<1>9. TickPaid'
  BY <1>1, <1>6, <1>7 DEF Inv, TickPaid
<1>10. SnapSound'
  <2>1. ASSUME NEW k \in Ticks \ {t} PROVE \A p \in Waiting(k)' : p.id \in Ids /\ p \in Waiting(k)
    BY <1>5, TickShape DEF Inv
  <2>2. ASSUME NEW i \in due
        PROVE  i <= made /\ sent[i] + Debt(i) + 1 <= Allowance(i) /\ D(i).id = i /\ D(i).days = rows[i].days
    <3>1. sent[i] + Debt(i) + Worth(rows[i].days) <= Allowance(i) /\ i \in Ids /\ rows[i].days \in Int
      BY <1>2, Numbers DEF Inv, RowsPaid
    <3>2. Worth(rows[i].days) \in Nat /\ Worth(rows[i].days) >= 1
      BY <3>1, WorthCounts
    <3>3. QED
      BY <1>2, <3>1, <3>2, Numbers DEF Inv
  <2>3. \A p \in Waiting(t)' :
          /\ p.id <= made /\ p.id \in Ids
          /\ sent[p.id] + Debt(p.id) + 1 <= Allowance(p.id)
          /\ rows[p.id].days = p.days
    BY <1>2, <1>6, <2>2
  <2>4. ASSUME NEW k \in Ticks, NEW p \in Waiting(k)'
        PROVE  /\ p.id <= made' /\ p.id \in Ids
               /\ p.id \notin spent' => sent[p.id] + Debt(p.id) + 1 <= Allowance(p.id)
               /\ p.id \notin spent' /\ p.id \in Live' => rows'[p.id].days = p.days
    <3>1. CASE k = t
      BY <1>1, <2>3, <2>4, <3>1
    <3>2. CASE k # t
      BY <1>1, <1>2, <2>1, <2>4, <3>2 DEF Inv, SnapSound
    <3>3. QED
      BY <3>1, <3>2
  <2>5. QED
    BY <1>1, <1>7, <2>4 DEF SnapSound
<1>11. RefusedGone'
  BY <1>1, <1>2, <1>6 DEF Inv, RefusedGone
<1>12. QED
  BY <1>5, <1>8, <1>9, <1>10, <1>11 DEF Paid

\* A day is spent before the send.
LEMMA SpendDayInv ==
  ASSUME Inv, NEW t \in Ticks, NEW p \in Unspent(t), SpendDay(t, p)
  PROVE  tick' \in [Ticks -> Tick] /\ TableTyped' /\ Paid' /\ RowsStay
<1> DEFINE n == p.id
           r == [pc |-> "consent", snap |-> tick[t].snap \ {p}, cur |-> p]
<1>1. /\ tick[t].pc = "spend" /\ Waiting(t) = tick[t].snap /\ p \in Waiting(t) /\ p \in Due
      /\ n \in Ids /\ p.days \in Int /\ tick[t].snap \subseteq Due
  BY TickShape DEF Inv, Unspent, Waiting
<1>2. /\ tick' = [tick EXCEPT ![t] = r]
      /\ rows' = SpendRow(p)
      /\ spent' = spent \cup {n}
      /\ again' = IF n \in spent THEN [again EXCEPT ![n] = @ + 1] ELSE again
      /\ UNCHANGED <<made, reposts, granted, ended, sent>>
  BY DEF SpendDay, Inv, TypeOK
<1>3. r \in Tick /\ r.pc = "consent" /\ r.snap \subseteq Waiting(t) /\ r.cur.id = n
  BY <1>1 DEF Tick
<1> HIDE DEF n, r
<1>4. /\ tick' \in [Ticks -> Tick] /\ tick'[t] = r
      /\ \A k \in Ticks \ {t} : Waiting(k)' = Waiting(k) /\ \A i : Owes(k, i)' <=> Owes(k, i)
  BY <1>2, <1>3, TickMoves DEF Inv
<1>5. /\ Waiting(t)' \subseteq Waiting(t)
      /\ \A k \in Ticks : Waiting(k)' \subseteq Waiting(k)
      /\ \A i : Owes(t, i)' <=> i = n
      /\ \A i : ~Owes(t, i)
      /\ \A k \in Ticks : \A i \in Ids : Owes(k, i)' <=> Owes(k, i) \/ (k = t /\ i = n)
  BY <1>1, <1>3, <1>4 DEF Waiting, Owes
<1>6. /\ Debt(n)' = Debt(n) + 1 /\ Debt(n) \in Nat
      /\ \A i \in Ids \ {n} : Debt(i)' = Debt(i)
  <2>1. Owing(n)' = Owing(n) \cup {t} /\ t \notin Owing(n)
    BY <1>1, <1>5 DEF Owing
  <2>2. IsFiniteSet(Owing(n)) /\ Debt(n) \in Nat
    BY <1>1, Numbers DEF Inv
  <2>3. Cardinality(Owing(n) \cup {t}) = Cardinality(Owing(n)) + 1
    BY <2>1, <2>2, FS_AddElement
  <2>4. \A i \in Ids \ {n} : Debt(i)' = Debt(i)
    BY <1>5, SameDebt
  <2>5. QED
    BY <2>1, <2>2, <2>3, <2>4 DEF Debt
<1>7. /\ again' \in [Ids -> Nat] /\ again \in [Ids -> Nat]
      /\ \A i \in Ids \ {n} : again'[i] = again[i]
      /\ again'[n] = IF n \in spent THEN again[n] + 1 ELSE again[n]
  BY <1>1, <1>2 DEF Inv, TypeOK
<1>8. /\ \A i \in Ids \ {n} : Allowance(i)' = Allowance(i)
      /\ Allowance(n)' = IF n \in spent THEN Allowance(n) + 1 ELSE Allowance(n)
      /\ Allowance(n) \in Nat
  BY <1>1, <1>2, <1>7, Numbers DEF Allowance, Inv
<1>9. /\ n <= made /\ sent[n] \in Nat
      /\ sent[n] + Debt(n) <= Allowance(n)
      /\ n \notin spent => sent[n] + Debt(n) + 1 <= Allowance(n)
      /\ n \notin spent /\ n \in Live => rows[n].days = p.days
  BY <1>1, Numbers DEF Inv, SnapSound, TickPaid, n
<1>10. /\ \A i \in Ids \ {n} : rows'[i] = rows[i]
       /\ rows' \in [Ids -> Row \cup {Gone}]
       /\ rows'[n] # Gone => /\ rows[n] # Gone /\ rows[n] \in Row
                             /\ rows'[n].group = rows[n].group /\ rows'[n].origin = rows[n].origin
                             /\ rows'[n].days = rows[n].days - 1 /\ rows'[n].due = FALSE
                             /\ p.days > 1
  <2>1. CASE p.days <= 1
    BY <1>1, <1>2, <2>1 DEF SpendRow, Without, Inv, TypeOK, n
  <2>2. CASE p.days > 1 /\ rows[n] = Gone
    BY <1>1, <1>2, <2>2 DEF SpendRow, Inv, TypeOK, n
  <2>3. CASE p.days > 1 /\ rows[n] # Gone
    <3>1. rows[n] \in Row /\ rows[n].days \in Int
      BY <1>1, <2>3 DEF Inv, TypeOK, Row
    <3>2. PICK q : q = [[rows[n] EXCEPT !.days = rows[n].days - 1] EXCEPT !.due = FALSE]
      OBVIOUS
    <3>3. [rows[n] EXCEPT !.days = rows[n].days - 1] \in Row
      BY <3>1 DEF Row
    <3>4. /\ q \in Row /\ q.days = rows[n].days - 1 /\ q.due = FALSE
          /\ q.group = rows[n].group /\ q.origin = rows[n].origin
      BY <3>1, <3>2, <3>3 DEF Row
    <3>5. Later(rows[n]) = q
      BY <3>1, <3>2 DEF Later, Row
    <3>6. SpendRow(p) = [rows EXCEPT ![n] = Later(rows[n])]
      BY <1>1, <2>3 DEF SpendRow, n
    <3>7. rows' = [rows EXCEPT ![n] = q]
      BY <1>2, <3>5, <3>6
    <3>8. QED
      BY <1>1, <2>3, <3>1, <3>4, <3>7 DEF Inv, TypeOK
  <2>4. p.days <= 1 \/ p.days > 1
    BY <1>1
  <2>5. QED
    BY <2>1, <2>2, <2>3, <2>4
<1>11. RowsStay
  BY <1>10 DEF RowsStay
<1>12. Live' \subseteq Live /\ Live \subseteq Ids /\ \A i \in Live' : i # n => rows'[i] = rows[i]
  BY <1>10 DEF Live
<1>13. TableTyped'
  <2>1. \A i \in Ids : i > made => rows'[i] = Gone /\ i # n
    BY <1>1, <1>9, <1>10, Numbers DEF Inv, TypeOK
  <2>2. spent' \subseteq Ids
    BY <1>1, <1>2 DEF Inv, TypeOK
  <2>3. QED
    BY <1>2, <1>7, <1>10, <2>1, <2>2 DEF TableTyped, Inv, TypeOK
<1>14. RowsPaid'
  <2>1. ASSUME NEW i \in Live'
        PROVE  /\ sent[i] + Debt(i)' + Worth(rows'[i].days) <= Allowance(i)'
               /\ rows'[i].due => i \notin spent'
    <3>1. CASE i = n
      <4>1. /\ rows'[n].days = rows[n].days - 1 /\ rows'[n].due = FALSE /\ p.days > 1
            /\ n \in Live /\ rows[n].days \in Int
        BY <1>1, <1>10, <1>12, <2>1, <3>1, Numbers DEF Live, Inv
      <4>2. sent[n] + Debt(n) + Worth(rows[n].days) <= Allowance(n)
        BY <4>1 DEF Inv, RowsPaid
      <4>3. /\ Worth(rows[n].days) \in Nat /\ Worth(rows'[n].days) \in Nat
            /\ Worth(rows'[n].days) <= Worth(rows[n].days)
            /\ rows[n].days > 1 => Worth(rows'[n].days) + 1 <= Worth(rows[n].days)
        BY <4>1, WorthCounts DEF Worth
      <4>4. CASE n \in spent
        BY <1>6, <1>8, <1>9, <3>1, <4>1, <4>2, <4>3, <4>4
      <4>5. CASE n \notin spent
        <5>1. rows[n].days > 1
          BY <1>9, <4>1, <4>5
        <5>2. QED
          BY <1>6, <1>8, <1>9, <3>1, <4>1, <4>2, <4>3, <4>5, <5>1
      <4>6. QED
        BY <4>4, <4>5
    <3>2. CASE i # n
      BY <1>2, <1>6, <1>8, <1>12, <2>1, <3>2 DEF Inv, RowsPaid
    <3>3. QED
      BY <3>1, <3>2
  <2>2. QED
    BY <1>2, <2>1 DEF RowsPaid
<1>15. TickPaid'
  <2>1. ASSUME NEW i \in Ids PROVE sent[i] + Debt(i)' <= Allowance(i)'
    <3>1. CASE i = n
      BY <1>6, <1>8, <1>9, <3>1
    <3>2. CASE i # n
      BY <1>6, <1>8, <3>2 DEF Inv, TickPaid
    <3>3. QED
      BY <3>1, <3>2
  <2>2. \A i \in Ids : \A k \in Ticks : Owes(k, i)' => i <= made /\ i \in spent'
    BY <1>2, <1>5, <1>9 DEF Inv, TickPaid
  <2>3. ASSUME NEW i \in Ids, NEW k \in Ticks, NEW m \in Ticks, Owes(k, i)', Owes(m, i)'
        PROVE  k = m \/ again'[i] > 0
    <3>1. CASE i # n
      BY <1>5, <1>7, <2>3, <3>1 DEF Inv, TickPaid
    <3>2. CASE i = n /\ (Owes(k, n) \/ Owes(m, n))
      <4>1. n \in spent
        BY <1>1, <3>2 DEF Inv, TickPaid
      <4>2. again'[n] = again[n] + 1 /\ again[n] \in Nat
        BY <1>1, <1>7, <4>1
      <4>3. QED
        BY <3>2, <4>2
    <3>3. CASE i = n /\ ~Owes(k, n) /\ ~Owes(m, n)
      BY <1>1, <1>5, <2>3, <3>3
    <3>4. QED
      BY <3>1, <3>2, <3>3
  <2>4. QED
    BY <1>2, <2>1, <2>2, <2>3 DEF TickPaid
<1>16. SnapSound'
  <2>1. ASSUME NEW k \in Ticks, NEW q \in Waiting(k)'
        PROVE  /\ q.id <= made
               /\ q.id \notin spent' => sent[q.id] + Debt(q.id)' + 1 <= Allowance(q.id)'
               /\ q.id \notin spent' /\ q.id \in Live' => rows'[q.id].days = q.days
    <3>1. q \in Waiting(k) /\ q.id \in Ids
      BY <1>5, <2>1, TickShape DEF Inv
    <3>2. q.id \notin spent' => q.id # n /\ q.id \notin spent
      BY <1>2
    <3>3. QED
      BY <1>6, <1>8, <1>12, <3>1, <3>2 DEF Inv, SnapSound
  <2>2. QED
    BY <1>2, <2>1 DEF SnapSound
<1>17. RefusedGone'
  <2>1. ASSUME NEW i \in Ids, ended[i] = "refused"
        PROVE  i \notin Live' /\ i \in spent' /\ \A k \in Ticks : Owes(k, i)' => again'[i] > 0
    <3>1. i \notin Live /\ i \in spent /\ \A k \in Ticks : Owes(k, i) => again[i] > 0
      BY <2>1 DEF Inv, RefusedGone
    <3>2. CASE i = n
      BY <1>1, <1>2, <1>7, <1>12, <3>1, <3>2
    <3>3. CASE i # n
      BY <1>2, <1>5, <1>7, <1>12, <3>1, <3>3
    <3>4. QED
      BY <3>2, <3>3
  <2>2. QED
    BY <1>2, <2>1 DEF RefusedGone
<1>18. QED
  BY <1>4, <1>11, <1>13, <1>14, <1>15, <1>16, <1>17 DEF Paid

\* The ticks move on or die, and owe no more than they did.
LEMMA TickGoesOn ==
  ASSUME Inv, UNCHANGED <<rows, made, reposts, granted, ended, sent, spent, again>>,
         \A t \in Ticks : Waiting(t)' \subseteq Waiting(t),
         \A t \in Ticks : \A i \in Ids : Owes(t, i)' => Owes(t, i)
  PROVE  TableTyped' /\ Paid' /\ RowsStay
<1>1. Live' = Live /\ Live \subseteq Ids
  BY DEF Live
<1>2. TableTyped'
  BY DEF TableTyped, Inv, TypeOK
<1>3. \A i \in Ids : Debt(i)' \in Nat /\ Debt(i)' <= Debt(i) /\ Allowance(i)' = Allowance(i)
  <2>1. ASSUME NEW i \in Ids PROVE Debt(i)' \in Nat /\ Debt(i)' <= Debt(i)
    <3>1. Owing(i)' \subseteq Owing(i) /\ IsFiniteSet(Owing(i))
      BY Numbers DEF Owing, Inv
    <3>2. IsFiniteSet(Owing(i)') /\ Cardinality(Owing(i)') <= Cardinality(Owing(i))
      BY <3>1, FS_Subset
    <3>3. QED
      BY <3>2, FS_CardinalityType DEF Debt
  <2>2. QED
    BY <2>1 DEF Allowance
<1>4. RowsPaid'
  <2>1. ASSUME NEW i \in Live
        PROVE  sent[i] + Debt(i)' + Worth(rows[i].days) <= Allowance(i)
    <3>1. /\ sent[i] + Debt(i) + Worth(rows[i].days) <= Allowance(i)
          /\ sent[i] \in Nat /\ Debt(i) \in Nat /\ Allowance(i) \in Nat /\ rows[i].days \in Int
      BY <1>1, <2>1, Numbers DEF Inv, RowsPaid
    <3>2. Worth(rows[i].days) \in Nat
      BY <3>1, WorthCounts
    <3>3. QED
      BY <1>1, <1>3, <2>1, <3>1, <3>2
  <2>2. QED
    BY <1>1, <1>3, <2>1 DEF Inv, RowsPaid
<1>5. TickPaid'
  <2>1. ASSUME NEW i \in Ids PROVE sent[i] + Debt(i)' <= Allowance(i)
    BY <1>3, Numbers DEF Inv, TickPaid
  <2>2. QED
    BY <1>3, <2>1 DEF Inv, TickPaid
<1>6. SnapSound'
  <2>1. ASSUME NEW t \in Ticks, NEW p \in Waiting(t)', p.id \notin spent
        PROVE  sent[p.id] + Debt(p.id)' + 1 <= Allowance(p.id) /\ p.id \in Ids
    <3>1. p \in Waiting(t) /\ p.id \in Ids
      BY <2>1, TickShape DEF Inv
    <3>2. sent[p.id] + Debt(p.id) + 1 <= Allowance(p.id)
      BY <2>1, <3>1 DEF Inv, SnapSound
    <3>3. QED
      BY <1>3, <3>1, <3>2, Numbers DEF Inv
  <2>2. QED
    BY <1>1, <1>3, <2>1 DEF Inv, SnapSound
<1>7. RefusedGone'
  BY <1>1 DEF Inv, RefusedGone
<1>8. QED
  BY <1>2, <1>4, <1>5, <1>6, <1>7 DEF Paid, RowsStay

LEMMA RefuseInv ==
  ASSUME Inv, NEW t \in Ticks, tick[t].pc \in {"consent", "forward"}, Refuse(tick[t].cur.id),
         NextPost(t), UNCHANGED <<made, reposts, granted, sent, spent, again>>
  PROVE  tick' \in [Ticks -> Tick] /\ TableTyped' /\ Paid' /\ RowsStay
<1> DEFINE n == tick[t].cur.id
<1>1. n \in Ids /\ Owes(t, n) /\ n <= made /\ n \in spent
  BY TickShape DEF Inv, Owes, TickPaid
<1>2. LetsGo(t) /\ tick' \in [Ticks -> Tick]
  BY NextPostShape DEF Inv, LetsGo
<1>3. rows' = Without({n}) /\ ended' = [ended EXCEPT ![n] = "refused"]
  BY DEF Refuse
<1> HIDE DEF n
<1>4. /\ rows'[n] = Gone /\ \A i \in Ids \ {n} : rows'[i] = rows[i]
      /\ rows' \in [Ids -> Row \cup {Gone}]
      /\ ended'[n] = "refused" /\ \A i \in Ids \ {n} : ended'[i] = ended[i]
      /\ ended' \in [Ids -> {"no", "cancelled", "refused"}]
  BY <1>1, <1>3 DEF Without, Inv, TypeOK
<1>5. Live' = Live \ {n} /\ Live \subseteq Ids
  BY <1>4 DEF Live
<1>6. TableTyped'
  <2>1. \A i \in Ids : i > made => i # n
    BY <1>1, Numbers DEF Inv
  <2>2. QED
    BY <1>4, <2>1 DEF TableTyped, Inv, TypeOK
<1>7. \A i \in Ids : /\ Debt(i)' \in Nat /\ Debt(i)' <= Debt(i) /\ Allowance(i)' = Allowance(i)
                     /\ \A k \in Ticks : Owes(k, i)' => Owes(k, i) /\ k # t
  BY <1>2, LetsGoDebt DEF Inv, Allowance
<1>8. RowsPaid'
  <2>1. ASSUME NEW i \in Live'
        PROVE  sent[i] + Debt(i)' + Worth(rows'[i].days) <= Allowance(i)
    <3>1. /\ sent[i] + Debt(i) + Worth(rows[i].days) <= Allowance(i)
          /\ sent[i] \in Nat /\ Debt(i) \in Nat /\ Allowance(i) \in Nat /\ rows[i].days \in Int
          /\ rows'[i] = rows[i] /\ i \in Ids
      BY <1>4, <1>5, <2>1, Numbers DEF Inv, RowsPaid
    <3>2. Worth(rows[i].days) \in Nat
      BY <3>1, WorthCounts
    <3>3. QED
      BY <1>7, <3>1, <3>2
  <2>2. QED
    BY <1>4, <1>5, <1>7, <2>1 DEF Inv, RowsPaid
<1>9. TickPaid'
  <2>1. ASSUME NEW i \in Ids PROVE sent[i] + Debt(i)' <= Allowance(i)
    BY <1>7, Numbers DEF Inv, TickPaid
  <2>2. QED
    BY <1>7, <2>1 DEF Inv, TickPaid
<1>10. SnapSound'
  <2>1. ASSUME NEW k \in Ticks, NEW p \in Waiting(k)'
        PROVE  /\ p.id \in Ids /\ p.id <= made
               /\ p.id \notin spent => sent[p.id] + Debt(p.id)' + 1 <= Allowance(p.id)
               /\ p.id \notin spent /\ p.id \in Live' => rows'[p.id].days = p.days
    <3>1. p \in Waiting(k) /\ p.id \in Ids
      BY <1>2, <2>1, TickShape DEF Inv, LetsGo
    <3>2. /\ p.id <= made
          /\ p.id \notin spent => sent[p.id] + Debt(p.id) + 1 <= Allowance(p.id)
          /\ p.id \notin spent /\ p.id \in Live => rows[p.id].days = p.days
      BY <3>1 DEF Inv, SnapSound
    <3>3. p.id \notin spent => sent[p.id] + Debt(p.id)' + 1 <= Allowance(p.id)
      BY <1>7, <3>1, <3>2, Numbers DEF Inv
    <3>4. QED
      BY <1>4, <1>5, <3>1, <3>2, <3>3
  <2>2. QED
    BY <1>7, <2>1 DEF SnapSound
<1>11. RefusedGone'
  <2>1. ASSUME NEW i \in Ids, ended'[i] = "refused"
        PROVE  i \notin Live' /\ i \in spent /\ \A k \in Ticks : Owes(k, i)' => again[i] > 0
    <3>1. CASE i = n
      BY <1>1, <1>5, <1>7, <3>1 DEF Inv, TickPaid
    <3>2. CASE i # n
      BY <1>4, <1>5, <1>7, <2>1, <3>2 DEF Inv, RefusedGone
    <3>3. QED
      BY <3>1, <3>2
  <2>2. QED
    BY <2>1 DEF RefusedGone
<1>12. RowsStay
  BY <1>4 DEF RowsStay
<1>13. QED
  BY <1>2, <1>6, <1>8, <1>9, <1>10, <1>11, <1>12 DEF Paid

LEMMA CheckConsentInv ==
  ASSUME Inv, NEW t \in Ticks, CheckConsent(t)
  PROVE  tick' \in [Ticks -> Tick] /\ TableTyped' /\ Paid' /\ RowsStay
<1>0. tick[t].pc = "consent" /\ UNCHANGED <<made, reposts, granted, sent, spent, again>>
  BY DEF CheckConsent, twice
<1>1. CASE tick' = [tick EXCEPT ![t].pc = "forward"] /\ UNCHANGED <<rows, ended>>
  <2> DEFINE r == [tick[t] EXCEPT !.pc = "forward"]
  <2>1. tick[t] \in [pc : {"consent", "forward"}, snap : SUBSET Due, cur : Due]
    BY <1>0, TickShape DEF Inv
  <2>2. /\ r \in [pc : {"consent", "forward"}, snap : SUBSET Due, cur : Due]
        /\ r.pc = "forward" /\ r.snap = tick[t].snap /\ r.cur = tick[t].cur
    BY <2>1
  <2>3. r \in Tick /\ tick' = [tick EXCEPT ![t] = r]
    BY <1>1, <2>2 DEF Tick, Inv, TypeOK
  <2> HIDE DEF r
  <2>4. /\ tick' \in [Ticks -> Tick] /\ tick'[t] = r
        /\ \A k \in Ticks \ {t} : Waiting(k)' = Waiting(k) /\ \A i : Owes(k, i)' <=> Owes(k, i)
    BY <2>3, TickMoves DEF Inv
  <2>5. Waiting(t)' = Waiting(t) /\ \A i : Owes(t, i)' <=> Owes(t, i)
    BY <1>0, <2>2, <2>4 DEF Waiting, Owes
  <2>6. /\ \A k \in Ticks : Waiting(k)' \subseteq Waiting(k)
        /\ \A k \in Ticks : \A i \in Ids : Owes(k, i)' => Owes(k, i)
    BY <2>4, <2>5
  <2>7. QED
    BY <1>0, <1>1, <2>4, <2>6, TickGoesOn
<1>2. CASE Refuse(tick[t].cur.id) /\ NextPost(t)
  BY <1>0, <1>2, RefuseInv
<1>3. QED
  BY <1>1, <1>2 DEF CheckConsent

\* The forward that was paid for.
LEMMA DeliveredInv ==
  ASSUME Inv, NEW t \in Ticks, tick[t].pc = "forward", Delivered(t), LetsGo(t),
         UNCHANGED <<rows, made, reposts, granted, ended, spent, again>>
  PROVE  TableTyped' /\ Paid' /\ RowsStay
<1> DEFINE n == tick[t].cur.id
<1>1. n \in Ids /\ Owes(t, n) /\ n <= made
  BY TickShape DEF Inv, Owes, TickPaid
<1>2. sent' = [sent EXCEPT ![n] = @ + 1]
  BY DEF Delivered
<1> HIDE DEF n
<1>3. /\ sent'[n] = sent[n] + 1 /\ \A i \in Ids \ {n} : sent'[i] = sent[i]
      /\ sent' \in [Ids -> Nat]
  BY <1>1, <1>2 DEF Inv, TypeOK
<1>4. Live' = Live /\ Live \subseteq Ids
  BY DEF Live
<1>5. TableTyped'
  <2>1. \A i \in Ids : i > made => i # n
    BY <1>1, Numbers DEF Inv
  <2>2. QED
    BY <1>3, <2>1 DEF TableTyped, Inv, TypeOK
<1>6. \A i \in Ids : /\ sent'[i] + Debt(i)' <= sent[i] + Debt(i)
                     /\ sent'[i] \in Nat /\ sent[i] \in Nat /\ Debt(i)' \in Nat /\ Debt(i) \in Nat
                     /\ Allowance(i)' = Allowance(i) /\ Allowance(i) \in Nat
                     /\ \A k \in Ticks : Owes(k, i)' => Owes(k, i) /\ k # t
  <2>1. ASSUME NEW i \in Ids
        PROVE  /\ sent'[i] + Debt(i)' <= sent[i] + Debt(i)
               /\ sent'[i] \in Nat /\ sent[i] \in Nat /\ Debt(i)' \in Nat /\ Debt(i) \in Nat
               /\ \A k \in Ticks : Owes(k, i)' => Owes(k, i) /\ k # t
    <3>1. /\ Debt(i)' \in Nat /\ Debt(i) \in Nat /\ Debt(i)' <= Debt(i) /\ sent[i] \in Nat
          /\ Owes(t, i) => Debt(i)' = Debt(i) - 1
          /\ \A k \in Ticks : Owes(k, i)' => Owes(k, i) /\ k # t
      BY LetsGoDebt, Numbers DEF Inv
    <3>2. CASE i = n
      BY <1>1, <1>3, <3>1, <3>2
    <3>3. CASE i # n
      BY <1>3, <3>1, <3>3
    <3>4. QED
      BY <3>2, <3>3
  <2>2. QED
    BY <2>1, Numbers DEF Allowance, Inv
<1>7. RowsPaid'
  <2>1. ASSUME NEW i \in Live
        PROVE  sent'[i] + Debt(i)' + Worth(rows[i].days) <= Allowance(i)
    <3>1. sent[i] + Debt(i) + Worth(rows[i].days) <= Allowance(i) /\ i \in Ids /\ rows[i].days \in Int
      BY <1>4, <2>1, Numbers DEF Inv, RowsPaid
    <3>2. Worth(rows[i].days) \in Nat
      BY <3>1, WorthCounts
    <3>3. QED
      BY <1>6, <3>1, <3>2
  <2>2. QED
    BY <1>4, <1>6, <2>1 DEF Inv, RowsPaid
<1>8. TickPaid'
  <2>1. ASSUME NEW i \in Ids PROVE sent'[i] + Debt(i)' <= Allowance(i)
    <3>1. sent[i] + Debt(i) <= Allowance(i)
      BY DEF Inv, TickPaid
    <3>2. QED
      BY <1>6, <3>1
  <2>2. QED
    BY <1>6, <2>1 DEF Inv, TickPaid
<1>9. SnapSound'
  <2>1. ASSUME NEW k \in Ticks, NEW p \in Waiting(k)'
        PROVE  /\ p.id \in Ids /\ p.id <= made
               /\ p.id \notin spent => sent'[p.id] + Debt(p.id)' + 1 <= Allowance(p.id)
               /\ p.id \notin spent /\ p.id \in Live => rows[p.id].days = p.days
    <3>1. p \in Waiting(k) /\ p.id \in Ids
      BY <2>1, TickShape DEF Inv, LetsGo
    <3>2. /\ p.id <= made
          /\ p.id \notin spent => sent[p.id] + Debt(p.id) + 1 <= Allowance(p.id)
          /\ p.id \notin spent /\ p.id \in Live => rows[p.id].days = p.days
      BY <3>1 DEF Inv, SnapSound
    <3>3. QED
      BY <1>6, <3>1, <3>2
  <2>2. QED
    BY <1>4, <1>6, <2>1 DEF SnapSound
<1>10. RefusedGone'
  BY <1>4, <1>6 DEF Inv, RefusedGone
<1>11. QED
  BY <1>5, <1>7, <1>8, <1>9, <1>10 DEF Paid, RowsStay

\* A tick that lets its row go, whether or not the post went out.
LEMMA EndsInv ==
  ASSUME Inv, NEW t \in Ticks, LetsGo(t),
         (tick[t].pc = "forward" /\ Delivered(t)) \/ UNCHANGED sent,
         UNCHANGED <<rows, made, reposts, granted, ended, spent, again>>
  PROVE  tick' \in [Ticks -> Tick] /\ TableTyped' /\ Paid' /\ RowsStay
<1>1. CASE tick[t].pc = "forward" /\ Delivered(t)
  BY <1>1, DeliveredInv DEF LetsGo
<1>2. CASE UNCHANGED sent
  <2>1. /\ \A k \in Ticks : Waiting(k)' \subseteq Waiting(k)
        /\ \A k \in Ticks : \A i \in Ids : Owes(k, i)' => Owes(k, i)
    BY DEF LetsGo
  <2>2. QED
    BY <1>2, <2>1, TickGoesOn DEF LetsGo
<1>3. QED
  BY <1>1, <1>2

LEMMA ComeDueInv ==
  ASSUME Inv, NEW n \in Ids, ComeDue(n)
  PROVE  TableTyped' /\ Paid' /\ RowsStay
<1>1. /\ \A t \in Ticks : ~Holds(t, n)
      /\ rows[n] \in Row /\ n \in Live
      /\ rows' = [rows EXCEPT ![n] = [rows[n] EXCEPT !.due = TRUE]]
      /\ spent' = spent \ {n}
      /\ UNCHANGED <<made, reposts, granted, ended, sent, tick, again>>
  BY DEF ComeDue, Live, Inv, TypeOK
<1>2. PICK r : r = [rows[n] EXCEPT !.due = TRUE]
  OBVIOUS
<1>3. /\ r \in Row /\ r # Gone /\ r.days = rows[n].days
      /\ r.group = rows[n].group /\ r.origin = rows[n].origin
  BY <1>1, <1>2, GoneIsNoRow DEF Row
<1>4. /\ rows'[n] = r /\ \A i \in Ids \ {n} : rows'[i] = rows[i]
      /\ rows' \in [Ids -> Row \cup {Gone}] /\ rows[n] # Gone
  BY <1>1, <1>2, <1>3, GoneIsNoRow DEF Inv, TypeOK
<1>5. /\ Live' = Live /\ Live \subseteq Ids
      /\ \A i \in Live : rows'[i].days = rows[i].days /\ (i # n => rows'[i] = rows[i])
  BY <1>3, <1>4 DEF Live
<1>6. /\ TicksStand /\ \A i \in Ids : Debt(i)' = Debt(i) /\ Allowance(i)' = Allowance(i)
      /\ \A t \in Ticks : ~Owes(t, n) /\ \A p \in Waiting(t) : p.id # n /\ p.id \in Ids
  <2>1. \A t \in Ticks : \A p \in Waiting(t) : p.id \in Ids
    BY TickShape DEF Inv
  <2>2. QED
    BY <1>1, <2>1, StandStill, SameDebt DEF TicksStand, Allowance, Holds
<1>7. TableTyped'
  BY <1>1, <1>4 DEF TableTyped, Inv, TypeOK
<1>8. RowsPaid'
  BY <1>1, <1>5, <1>6 DEF Inv, RowsPaid
<1>9. TickPaid'
  BY <1>1, <1>6 DEF Inv, TickPaid, TicksStand
<1>10. SnapSound'
  BY <1>1, <1>5, <1>6 DEF Inv, SnapSound, TicksStand
<1>11. RefusedGone'
  BY <1>1, <1>5, <1>6 DEF Inv, RefusedGone, TicksStand
<1>12. RowsStay
  BY <1>3, <1>4 DEF RowsStay
<1>13. QED
  BY <1>7, <1>8, <1>9, <1>10, <1>11, <1>12 DEF Paid

-----------------------------------------------------------------------------
(* The campaigns.                                                          *)
LEMMA ApartStays ==
  ASSUME Inv, RowsStay, NoneFills, crowded' = crowded
  PROVE  CampaignsApart'
<1>1. \A g \in Groups, o \in Origins : SameCampaign(g, o)' \subseteq SameCampaign(g, o)
  BY DEF RowsStay, SameCampaign, LiveIn, Live
<1>2. \A j \in Jobs, g \in Groups : Fills(j, g)' => Fills(j, g) /\ job'[j].sub = job[j].sub
  BY DEF NoneFills, Fills
<1>3. \A j \in Jobs, g \in Groups : Fills(j, g) => job[j].sub.origin \in Origins
  BY JobShape DEF Inv, Fills, Approving, Origins
<1>4. ASSUME NEW g \in Groups \ crowded
      PROVE  /\ \A j, k \in Jobs : Fills(j, g)' /\ Fills(k, g)' => j = k
             /\ \A j \in Jobs : Fills(j, g)' => SameCampaign(g, job[j].sub.origin)' = {}
             /\ \A o \in Origins : \A i, k \in SameCampaign(g, o)' : i = k
  <2>1. \A j, k \in Jobs : Fills(j, g)' /\ Fills(k, g)' => j = k
    BY <1>2, <1>4 DEF Inv, CampaignsApart
  <2>2. ASSUME NEW j \in Jobs, Fills(j, g)'
        PROVE  SameCampaign(g, job[j].sub.origin)' = {}
    <3>1. SameCampaign(g, job[j].sub.origin) = {} /\ job[j].sub.origin \in Origins
      BY <1>2, <1>3, <1>4, <2>2 DEF Inv, CampaignsApart
    <3>2. QED
      BY <1>1, <1>2, <2>2, <3>1
  <2>3. \A o \in Origins : \A i, k \in SameCampaign(g, o)' : i = k
    BY <1>1, <1>4 DEF Inv, CampaignsApart
  <2>4. QED
    BY <2>1, <2>2, <2>3
<1>5. QED
  BY <1>4 DEF CampaignsApart

\* The job that begins with a group has just deleted its old campaign.
LEMMA ApartDropOld ==
  ASSUME Inv, NEW j \in Jobs, NEW h \in Groups, DropOld(j, h), RowsStay
  PROVE  CampaignsApart' /\ crowded' \subseteq Groups
<1>1. /\ job[j].pc = "next" /\ job[j] \in Approving
      /\ job'[j].pc = "count" /\ job'[j].group = h /\ job'[j].sub = job[j].sub
      /\ \A k \in Jobs \ {j} : job'[k] = job[k]
  BY DropOldJob DEF Inv
<1>2. /\ rows' = Without(SameCampaign(h, job[j].sub.origin))
      /\ crowded' = IF Filling(h) = {} THEN crowded ELSE crowded \cup {h}
      /\ crowded \subseteq Groups
  BY DEF DropOld, Inv, TypeOK
<1>3. \A g \in Groups, o \in Origins : SameCampaign(g, o)' \subseteq SameCampaign(g, o)
  BY DEF RowsStay, SameCampaign, LiveIn, Live
<1>4. SameCampaign(h, job[j].sub.origin)' = {}
  BY <1>1, <1>2 DEF Without, SameCampaign, LiveIn, Live
<1>5. /\ \A k \in Jobs, g \in Groups : k # j => (Fills(k, g)' <=> Fills(k, g))
      /\ \A g \in Groups : Fills(j, g)' <=> g = h
      /\ \A k \in Jobs, g \in Groups : Fills(k, g) => job[k].sub.origin \in Origins
  BY <1>1, JobShape DEF Inv, Fills, Approving, Origins
<1>6. ASSUME NEW g \in Groups \ crowded'
      PROVE  /\ \A i, k \in Jobs : Fills(i, g)' /\ Fills(k, g)' => i = k
             /\ \A k \in Jobs : Fills(k, g)' => SameCampaign(g, job[k].sub.origin)' = {}
             /\ \A o \in Origins : \A i, k \in SameCampaign(g, o)' : i = k
  <2>1. g \in Groups \ crowded
    BY <1>2
  <2>2. CASE g = h
    <3>1. Filling(h) = {}
      BY <1>2, <2>2
    <3>2. \A k \in Jobs : ~Fills(k, h)
      BY <3>1 DEF Filling, Fills
    <3>3. \A k \in Jobs : Fills(k, g)' => k = j
      BY <1>5, <2>2, <3>2
    <3>4. \A k \in Jobs : Fills(k, g)' => SameCampaign(g, job[k].sub.origin)' = {}
      BY <1>1, <1>4, <2>2, <3>3
    <3>5. QED
      BY <1>3, <2>1, <3>3, <3>4 DEF Inv, CampaignsApart
  <2>3. CASE g # h
    <3>1. \A k \in Jobs : Fills(k, g)' => Fills(k, g) /\ k # j /\ job'[k] = job[k]
      BY <1>1, <1>5, <2>3
    <3>2. \A k \in Jobs : Fills(k, g)' =>
            SameCampaign(g, job[k].sub.origin) = {} /\ job[k].sub.origin \in Origins
      BY <1>5, <2>1, <3>1 DEF Inv, CampaignsApart
    <3>3. \A k \in Jobs : Fills(k, g)' => SameCampaign(g, job[k].sub.origin)' = {}
      BY <1>3, <3>1, <3>2
    <3>4. QED
      BY <1>3, <2>1, <3>1, <3>3 DEF Inv, CampaignsApart
  <2>4. QED
    BY <2>2, <2>3
<1>7. QED
  BY <1>2, <1>6 DEF CampaignsApart

\* The one job that fills a group inserts its campaign where there is none.
LEMMA ApartCreateRow ==
  ASSUME Inv, NEW j \in Jobs, CreateRow(j), NoneFills, job[j] \in Approving, NEW n \in Ids,
         rows[n] = Gone, \A i \in Ids \ {n} : rows'[i] = rows[i],
         rows'[n].group = job[j].group, rows'[n].origin = job[j].sub.origin
  PROVE  CampaignsApart'
<1>h. PICK h \in Groups : h = job[j].group
  BY DEF Approving
<1>q. PICK q \in Origins : q = job[j].sub.origin
  BY DEF Approving, Origins
<1>1. Fills(j, h) /\ crowded' = crowded
  BY <1>h DEF CreateRow, At, Fills
<1>2. job'[j].pc = "next"
  <2> DEFINE T == job[j].todo \ {job[j].group}
  <2>1. job' = [job EXCEPT ![j].pc = "next", ![j].todo = T]
    BY DEF CreateRow, NextGroup, Inv, TypeOK
  <2>2. T \in SUBSET Groups
    BY DEF Approving
  <2> HIDE DEF T
  <2>3. QED
    BY <2>1, <2>2, TodoShape DEF Inv, Labels
<1>3. /\ \A g \in Groups, o \in Origins :
           g # h \/ o # q => SameCampaign(g, o)' \subseteq SameCampaign(g, o)
      /\ SameCampaign(h, q)' \subseteq SameCampaign(h, q) \cup {n}
  BY <1>h, <1>q DEF SameCampaign, LiveIn, Live
<1>4. \A k \in Jobs, g \in Groups :
        /\ Fills(k, g)' => Fills(k, g) /\ job'[k].sub = job[k].sub /\ k # j
        /\ Fills(k, g) => job[k].sub.origin \in Origins
  BY <1>2, JobShape DEF NoneFills, Inv, Fills, Approving, Origins
<1>5. ASSUME NEW g \in Groups \ crowded
      PROVE  /\ \A i, k \in Jobs : Fills(i, g)' /\ Fills(k, g)' => i = k
             /\ \A k \in Jobs : Fills(k, g)' => SameCampaign(g, job[k].sub.origin)' = {}
             /\ \A o \in Origins : \A i, k \in SameCampaign(g, o)' : i = k
  <2>1. CASE g = h
    <3>1. \A k \in Jobs : Fills(k, h) => k = j
      BY <1>1, <1>5, <2>1 DEF Inv, CampaignsApart
    <3>2. \A k \in Jobs : ~Fills(k, h)'
      BY <1>1, <1>4, <3>1
    <3>3. SameCampaign(h, q) = {}
      BY <1>1, <1>5, <1>q, <2>1 DEF Inv, CampaignsApart
    <3>4. \A o \in Origins : \A i, k \in SameCampaign(h, o)' : i = k
      <4>1. ASSUME NEW o \in Origins, o # q
            PROVE  \A i, k \in SameCampaign(h, o)' : i = k
        BY <1>1, <1>3, <1>5, <2>1, <4>1 DEF Inv, CampaignsApart
      <4>2. \A i, k \in SameCampaign(h, q)' : i = k
        BY <1>3, <3>3
      <4>3. QED
        BY <4>1, <4>2
    <3>5. QED
      BY <2>1, <3>2, <3>4
  <2>2. CASE g # h
    <3>1. \A k \in Jobs : Fills(k, g)' =>
            SameCampaign(g, job[k].sub.origin) = {} /\ job[k].sub.origin \in Origins
      BY <1>4, <1>5 DEF Inv, CampaignsApart
    <3>2. \A k \in Jobs : Fills(k, g)' => SameCampaign(g, job[k].sub.origin)' = {}
      BY <1>3, <1>4, <2>2, <3>1
    <3>3. QED
      BY <1>3, <1>4, <1>5, <2>2, <3>2 DEF Inv, CampaignsApart
  <2>3. QED
    BY <2>1, <2>2
<1>6. QED
  BY <1>1, <1>5 DEF CampaignsApart

\* A /repost is no channel's campaign.
LEMMA ApartRepost ==
  ASSUME Inv, NEW h \in Groups, NoneFills, crowded' = crowded, NEW n \in Ids,
         rows[n] = Gone, \A i \in Ids \ {n} : rows'[i] = rows[i], rows'[n].origin = h
  PROVE  CampaignsApart'
<1>1. \A g \in Groups, o \in Origins : SameCampaign(g, o)' \subseteq SameCampaign(g, o)
  BY ChannelsAreNoGroups DEF SameCampaign, LiveIn, Live
<1>2. \A j \in Jobs, g \in Groups :
        /\ Fills(j, g)' => Fills(j, g) /\ job'[j].sub = job[j].sub
        /\ Fills(j, g) => job[j].sub.origin \in Origins
  BY JobShape DEF NoneFills, Inv, Fills, Approving, Origins
<1>3. ASSUME NEW g \in Groups \ crowded
      PROVE  /\ \A i, k \in Jobs : Fills(i, g)' /\ Fills(k, g)' => i = k
             /\ \A k \in Jobs : Fills(k, g)' => SameCampaign(g, job[k].sub.origin)' = {}
             /\ \A o \in Origins : \A i, k \in SameCampaign(g, o)' : i = k
  <2>1. \A k \in Jobs : Fills(k, g)' =>
          SameCampaign(g, job[k].sub.origin) = {} /\ job[k].sub.origin \in Origins
    BY <1>2, <1>3 DEF Inv, CampaignsApart
  <2>2. \A k \in Jobs : Fills(k, g)' => SameCampaign(g, job[k].sub.origin)' = {}
    BY <1>1, <1>2, <2>1
  <2>3. QED
    BY <1>1, <1>2, <1>3, <2>2 DEF Inv, CampaignsApart
<1>4. QED
  BY <1>3 DEF CampaignsApart

-----------------------------------------------------------------------------
LEMMA InitInv == Init => Inv
<1> SUFFICES ASSUME Init PROVE Inv
  OBVIOUS
<1>1. TypeOK
  BY CountsAreNats DEF Init, TypeOK, Job, Tick, Ids
<1>2. /\ Live = {} /\ \A t \in Ticks : Waiting(t) = {} /\ \A i \in Ids : ~Owes(t, i)
      /\ \A j \in Jobs : job[j].pc = "idle" /\ \A g \in Groups : ~Fills(j, g)
  BY DEF Init, Live, Waiting, Owes, Fills, IdleJob, IdleTick
<1>3. \A i \in Ids : sent[i] + Debt(i) <= Allowance(i)
  <2>1. \A i \in Ids : Owing(i) = {}
    BY <1>2 DEF Owing
  <2>2. \A i \in Ids : Debt(i) = 0
    BY <2>1, FS_EmptySet DEF Debt
  <2>3. QED
    BY <2>2 DEF Init, Allowance, Worth
<1>4. RowsPaid /\ TickPaid /\ SnapSound /\ RefusedGone
  BY <1>2, <1>3 DEF Init, RowsPaid, TickPaid, SnapSound, RefusedGone
<1>5. CampaignsApart /\ RerunFindsPost
  BY <1>2 DEF CampaignsApart, RerunFindsPost, SameCampaign, LiveIn
<1>6. QED
  BY <1>1, <1>4, <1>5 DEF Inv

LEMMA StepInv ==
  ASSUME Inv, [Next]_vars, TableTyped', Paid', tick' \in [Ticks -> Tick], crowded' \subseteq Groups,
         JobsGoOn, CampaignsApart'
  PROVE  Inv'
<1>1. GatewayTyped' /\ \A k \in pending \cup lost : k \in pending' \cup lost'
  BY GatewayStep DEF Inv
<1>2. TypeOK'
  BY <1>1 DEF GatewayTyped, TableTyped, JobsGoOn, TypeOK
<1>3. RerunFindsPost'
  <2>1. ASSUME NEW j \in Jobs, job'[j].pc \notin {"idle", "queued"}
        PROVE  job'[j].sub.key \in pending' \cup lost'
    <3>1. /\ job'[j].sub = job[j].sub
          /\ job[j].pc \notin {"idle", "queued"} \/ job[j].sub.key \in pending
      BY <2>1 DEF JobsGoOn
    <3>2. job[j].sub.key \in pending \cup lost
      BY <3>1 DEF Inv, RerunFindsPost
    <3>3. QED
      BY <1>1, <3>1, <3>2
  <2>2. QED
    BY <2>1 DEF RerunFindsPost
<1>4. QED
  BY <1>2, <1>3 DEF Inv, Paid

\* A step of the gateway or of a job that leaves the rows and the tick alone.
LEMMA AsideInv ==
  ASSUME Inv, [Next]_vars, JobsGoOn, NoneFills, UNCHANGED <<table, tick, sent, twice, crowded>>
  PROVE  Inv'
<1>1. UNCHANGED <<rows, made, reposts, granted, ended, sent, tick, spent, again, crowded>>
  BY DEF table, twice
<1>2. /\ \A t \in Ticks : Waiting(t)' \subseteq Waiting(t)
      /\ \A t \in Ticks : \A i \in Ids : Owes(t, i)' => Owes(t, i)
  BY <1>1 DEF Waiting, Owes
<1>3. TableTyped' /\ Paid' /\ RowsStay
  BY <1>1, <1>2, TickGoesOn
<1>4. tick' \in [Ticks -> Tick] /\ crowded' \subseteq Groups
  BY <1>1 DEF Inv, TypeOK
<1>5. QED
  BY <1>1, <1>3, <1>4, ApartStays, StepInv

LEMMA JobsAlone ==
  ASSUME TypeOK, job' = job
  PROVE  JobsGoOn /\ NoneFills
BY DEF TypeOK, JobsGoOn, NoneFills

LEMMA PressInv ==
  ASSUME Inv, Press
  PROVE  Inv'
<1>0. [Next]_vars
  BY DEF Next
<1>1. ASSUME NEW s \in Submissions,
             Submit(s) \/ Offer(s) \/ PressShare(s) \/ Decline(s) \/ PressDeny(s)
      PROVE  Inv'
  <2>1. UNCHANGED <<table, job, tick, sent, twice, crowded>>
    BY <1>1 DEF Submit, Offer, PressShare, Decline, PressDeny
  <2>2. QED
    BY <1>0, <2>1, JobsAlone, AsideInv DEF Inv
<1>2. ASSUME NEW j \in Jobs, NEW s \in Submissions, NEW d \in DayOptions, PressApprove(j, s, d)
      PROVE  Inv'
  <2>1. UNCHANGED <<table, tick, sent, twice, crowded>>
    BY <1>2 DEF PressApprove
  <2>2. JobsGoOn /\ NoneFills
    BY <1>2, ApproveJob DEF Inv
  <2>3. QED
    BY <1>0, <2>1, <2>2, AsideInv
<1>3. ASSUME NEW k \in Keys, ForgetPending(k) PROVE Inv'
  <2>1. UNCHANGED <<table, job, tick, sent, twice, crowded>>
    BY <1>3 DEF ForgetPending
  <2>2. QED
    BY <1>0, <2>1, JobsAlone, AsideInv DEF Inv
<1>4. ASSUME NEW g \in Groups, ToggleConsent(g) PROVE Inv'
  <2>1. UNCHANGED <<table, job, tick, sent, twice, crowded>>
    BY <1>4 DEF ToggleConsent
  <2>2. QED
    BY <1>0, <2>1, JobsAlone, AsideInv DEF Inv
<1>5. ASSUME NEW g \in Groups, CancelPosts(g) PROVE Inv'
  <2> DEFINE S == {i \in Live : rows[i].chat = g}
  <2>1. /\ rows' = Without(S) /\ S \in SUBSET Live
        /\ ended' = [i \in Ids |-> IF i \in S THEN "cancelled" ELSE ended[i]]
        /\ UNCHANGED <<made, reposts, granted, job, tick, sent, spent, again, crowded>>
    BY <1>5 DEF CancelPosts, twice
  <2>2. RowsFall
    BY <2>1 DEF RowsFall, Inv, TypeOK
  <2>3. TableTyped' /\ Paid' /\ RowsStay
    BY <2>2, Falls
  <2>4. JobsGoOn /\ NoneFills /\ tick' \in [Ticks -> Tick] /\ crowded' \subseteq Groups
    BY <2>1, JobsAlone DEF Inv, TypeOK
  <2>5. QED
    BY <1>0, <2>1, <2>3, <2>4, ApartStays, StepInv
<1>6. ASSUME NEW g \in Groups, NEW d \in RepostDays, Repost(g, d) PROVE Inv'
  <2>1. /\ Insert(g, g, g, d) /\ d \in Nat
        /\ UNCHANGED <<ended, job, tick, sent, spent, again, crowded>>
    BY <1>6, CountsAreNats DEF Repost, twice
  <2>2. reposts' \in 0 .. MaxReposts
    BY <1>6, CountsAreNats DEF Repost, Inv, TypeOK
  <2>3. /\ TableTyped' /\ Paid'
        /\ rows'[made + 1].group = g /\ rows'[made + 1].origin = g
        /\ made + 1 \in Ids /\ rows[made + 1] = Gone
        /\ \A i \in Ids \ {made + 1} : rows'[i] = rows[i]
    BY <2>1, <2>2, Gains
  <2>4. JobsGoOn /\ NoneFills /\ tick' \in [Ticks -> Tick] /\ crowded' \subseteq Groups
    BY <2>1, JobsAlone DEF Inv, TypeOK
  <2>5. CampaignsApart'
    BY <2>1, <2>3, <2>4, ApartRepost
  <2>6. QED
    BY <1>0, <2>3, <2>4, <2>5, StepInv
<1>7. QED
  BY <1>1, <1>2, <1>3, <1>4, <1>5, <1>6 DEF Press

LEMMA ApprovalInv ==
  ASSUME Inv, NEW j \in Jobs, Approval(j)
  PROVE  Inv'
<1>0. [Next]_vars
  BY DEF Next
<1>1. CASE \/ Fetch(j) \/ Render(j) \/ CountRows(j) \/ LoopEnds(j)
           \/ Discard(j) \/ GroupFails(j) \/ JobDies(j) \/ JobReruns(j)
  <2>1. UNCHANGED <<table, tick, sent, twice, crowded>>
    BY <1>1 DEF Fetch, Render, CountRows, LoopEnds, Discard, GroupFails, JobDies, JobReruns
  <2>2. JobsGoOn /\ NoneFills
    BY <1>1, JobSteps DEF Inv
  <2>3. QED
    BY <1>0, <2>1, <2>2, AsideInv
<1>2. CASE TrimOldest(j)
  <2> DEFINE S == Oldest(job[j].group, job[j].excess)
  <2>1. /\ rows' = Without(S) /\ S \in SUBSET Live
        /\ UNCHANGED <<made, reposts, granted, ended, tick, sent, spent, again, crowded>>
    BY <1>2 DEF TrimOldest, Oldest, LiveIn, twice
  <2>2. RowsFall
    BY <2>1 DEF RowsFall, Inv, TypeOK
  <2>3. TableTyped' /\ Paid' /\ RowsStay
    BY <2>2, Falls
  <2>4. JobsGoOn /\ NoneFills /\ tick' \in [Ticks -> Tick] /\ crowded' \subseteq Groups
    BY <1>2, <2>1, JobSteps DEF Inv, TypeOK
  <2>5. QED
    BY <1>0, <2>1, <2>3, <2>4, ApartStays, StepInv
<1>3. CASE CreateRow(j)
  <2>1. job[j] \in Approving
    BY <1>3, JobShape DEF Inv, CreateRow, At
  <2>2. PICK g \in Groups, o \in Origins, c \in Groups, d \in Nat :
          /\ g = job[j].group /\ o = job[j].sub.origin /\ c = job[j].sub.chat /\ d = job[j].days
    BY <2>1, SubmissionsAreRecords, CountsAreNats DEF Approving, Origins
  <2>3. /\ Insert(g, o, c, d) /\ o \in Origins \cup Groups
        /\ UNCHANGED <<reposts, ended, tick, sent, spent, again, crowded>>
    BY <1>3, <2>2 DEF CreateRow, twice
  <2>4. reposts' \in 0 .. MaxReposts
    BY <2>3 DEF Inv, TypeOK
  <2>5. /\ TableTyped' /\ Paid'
        /\ rows'[made + 1].group = g /\ rows'[made + 1].origin = o
        /\ made + 1 \in Ids /\ rows[made + 1] = Gone
        /\ \A i \in Ids \ {made + 1} : rows'[i] = rows[i]
    BY <2>3, <2>4, Gains
  <2>6. JobsGoOn /\ NoneFills /\ tick' \in [Ticks -> Tick] /\ crowded' \subseteq Groups
    BY <1>3, <2>3, JobSteps DEF Inv, TypeOK
  <2>7. CampaignsApart'
    BY <1>3, <2>1, <2>2, <2>5, <2>6, ApartCreateRow
  <2>8. QED
    BY <1>0, <2>5, <2>6, <2>7, StepInv
<1>4. ASSUME NEW g \in Groups, DropOld(j, g) PROVE Inv'
  <2> DEFINE S == SameCampaign(g, job[j].sub.origin)
  <2>1. /\ rows' = Without(S) /\ S \in SUBSET Live
        /\ UNCHANGED <<made, reposts, granted, ended, tick, sent, spent, again>>
    BY <1>4 DEF DropOld, SameCampaign, LiveIn, twice
  <2>2. RowsFall
    BY <2>1 DEF RowsFall, Inv, TypeOK
  <2>3. TableTyped' /\ Paid' /\ RowsStay
    BY <2>2, Falls
  <2>4. JobsGoOn /\ tick' \in [Ticks -> Tick]
    BY <1>4, <2>1, DropOldJob DEF Inv, TypeOK
  <2>5. CampaignsApart' /\ crowded' \subseteq Groups
    BY <1>4, <2>3, ApartDropOld
  <2>6. QED
    BY <1>0, <2>3, <2>4, <2>5, StepInv
<1>5. QED
  BY <1>1, <1>2, <1>3, <1>4 DEF Approval

LEMMA DeliveryRows ==
  ASSUME Inv, (\E t \in Ticks : Delivery(t) \/ TickDies(t)) \/ \E i \in Ids : ComeDue(i)
  PROVE  tick' \in [Ticks -> Tick] /\ TableTyped' /\ Paid' /\ RowsStay
<1>1. ASSUME NEW t \in Ticks, NEW due \in SUBSET Live, TickStarts(t, due)
      PROVE  tick' \in [Ticks -> Tick] /\ TableTyped' /\ Paid' /\ RowsStay
  <2>1. tick' \in [Ticks -> Tick] /\ Paid'
    BY <1>1, TickStartsInv
  <2>2. TableTyped' /\ RowsStay
    BY <1>1 DEF TickStarts, table, twice, TableTyped, RowsStay, Inv, TypeOK
  <2>3. QED
    BY <2>1, <2>2
<1>2. ASSUME NEW t \in Ticks, CheckConsent(t)
      PROVE  tick' \in [Ticks -> Tick] /\ TableTyped' /\ Paid' /\ RowsStay
  BY <1>2, CheckConsentInv
<1>3. ASSUME NEW t \in Ticks, Forwarded(t) \/ ForwardFails(t)
      PROVE  tick' \in [Ticks -> Tick] /\ TableTyped' /\ Paid' /\ RowsStay
  <2>1. /\ tick[t].pc = "forward" /\ NextPost(t) /\ (Delivered(t) \/ UNCHANGED sent)
        /\ UNCHANGED <<rows, made, reposts, granted, ended, spent, again>>
    BY <1>3 DEF Forwarded, ForwardFails, table, twice
  <2>2. LetsGo(t)
    BY <2>1, NextPostShape DEF Inv
  <2>3. QED
    BY <2>1, <2>2, EndsInv
<1>4. ASSUME NEW t \in Ticks, ForwardRejected(t)
      PROVE  tick' \in [Ticks -> Tick] /\ TableTyped' /\ Paid' /\ RowsStay
  <2>1. /\ tick[t].pc \in {"consent", "forward"} /\ Refuse(tick[t].cur.id) /\ NextPost(t)
        /\ UNCHANGED <<made, reposts, granted, sent, spent, again>>
    BY <1>4 DEF ForwardRejected, twice
  <2>2. QED
    BY <2>1, RefuseInv
<1>5. ASSUME NEW t \in Ticks, TickDies(t)
      PROVE  tick' \in [Ticks -> Tick] /\ TableTyped' /\ Paid' /\ RowsStay
  <2>1. /\ tick' = [tick EXCEPT ![t] = IdleTick]
        /\ UNCHANGED sent \/ (tick[t].pc = "forward" /\ Delivered(t))
        /\ UNCHANGED <<rows, made, reposts, granted, ended, spent, again>>
    BY <1>5 DEF TickDies, table, twice
  <2>2. LetsGo(t)
    BY <2>1, DiesShape DEF Inv
  <2>3. QED
    BY <2>1, <2>2, EndsInv
<1>6. ASSUME NEW t \in Ticks, NEW p \in Unspent(t), SpendDay(t, p)
      PROVE  tick' \in [Ticks -> Tick] /\ TableTyped' /\ Paid' /\ RowsStay
  BY <1>6, SpendDayInv
<1>7. ASSUME NEW i \in Ids, ComeDue(i)
      PROVE  tick' \in [Ticks -> Tick] /\ TableTyped' /\ Paid' /\ RowsStay
  <2>1. tick' \in [Ticks -> Tick]
    BY <1>7 DEF ComeDue, Inv, TypeOK
  <2>2. QED
    BY <1>7, <2>1, ComeDueInv
<1>8. QED
  BY <1>1, <1>2, <1>3, <1>4, <1>5, <1>6, <1>7 DEF Delivery

LEMMA DeliveryInv ==
  ASSUME Inv, (\E t \in Ticks : Delivery(t) \/ TickDies(t)) \/ \E i \in Ids : ComeDue(i)
  PROVE  Inv'
<1>0. [Next]_vars
  BY DEF Next
<1>1. job' = job /\ crowded' = crowded
  BY DEF Delivery, TickStarts, CheckConsent, Forwarded, ForwardRejected, ForwardFails, SpendDay,
         TickDies, ComeDue
<1>2. JobsGoOn /\ NoneFills /\ crowded' \subseteq Groups
  BY <1>1, JobsAlone DEF Inv, TypeOK
<1>3. tick' \in [Ticks -> Tick] /\ TableTyped' /\ Paid' /\ RowsStay
  BY DeliveryRows
<1>4. QED
  BY <1>0, <1>1, <1>2, <1>3, ApartStays, StepInv

LEMMA NextInv == Inv /\ [Next]_vars => Inv'
<1> SUFFICES ASSUME Inv, [Next]_vars PROVE Inv'
  OBVIOUS
<1>1. CASE UNCHANGED vars
  <2>1. UNCHANGED <<table, job, tick, sent, twice, crowded>>
    BY <1>1 DEF vars
  <2>2. QED
    BY <2>1, JobsAlone, AsideInv DEF Inv
<1>2. QED
  BY <1>1, PressInv, ApprovalInv, DeliveryInv DEF Next

(* Every reachable state has the invariant.                                *)
THEOREM Invariance == Spec => []Inv
BY InitInv, NextInv, PTL DEF Spec

-----------------------------------------------------------------------------
(* "One live campaign per source channel, per target group"                *)
(* (cb_core/scheduled_posts.py:221): a job that is alone in a group finds  *)
(* none of its channel's rows there when it inserts its own.               *)
THEOREM OneCampaignEach == Spec => []CampaignsSound
<1>1. ASSUME TypeOK, CampaignsApart PROVE CampaignsSound
  <2>1. ASSUME NEW g \in Groups \ crowded, NEW o \in Origins
        PROVE  Cardinality(SameCampaign(g, o)) <= 1
    <3>1. CASE SameCampaign(g, o) = {}
      BY <3>1, FS_EmptySet
    <3>2. CASE SameCampaign(g, o) # {}
      <4>1. PICK i \in SameCampaign(g, o) : TRUE
        BY <3>2
      <4>2. SameCampaign(g, o) = {i}
        BY <1>1, <2>1, <4>1 DEF CampaignsApart
      <4>3. QED
        BY <4>2, FS_Singleton
    <3>3. QED
      BY <3>1, <3>2
  <2>2. QED
    BY <1>1, <2>1 DEF CampaignsSound, OneCampaign
<1>2. QED
  BY <1>1, Invariance, PTL DEF Inv

(* A campaign approved for N days is forwarded into a group at most N      *)
(* times, but for the days overlapping ticks spent again                   *)
(* (cb_core/scheduled_posts.py:181-187): each forward was taken from the   *)
(* row before it was made.                                                 *)
THEOREM BudgetKept == Spec => []DaysBudget
<1>1. ASSUME Inv PROVE DaysBudget
  <2>1. ASSUME NEW i \in Ids
        PROVE  sent[i] + (IF i \in Live /\ rows[i].days > 0 THEN rows[i].days ELSE 0)
                 <= Worth(granted[i]) + again[i]
    <3>1. /\ sent[i] \in Nat /\ Debt(i) \in Nat /\ Allowance(i) \in Nat
          /\ sent[i] + Debt(i) <= Allowance(i)
      BY <1>1, Numbers DEF Inv, TickPaid
    <3>2. CASE i \in Live
      <4>1. rows[i].days \in Int /\ sent[i] + Debt(i) + Worth(rows[i].days) <= Allowance(i)
        BY <1>1, <3>2, Numbers DEF Inv, RowsPaid
      <4>2. Worth(rows[i].days) \in Nat /\ Worth(rows[i].days) >= rows[i].days
        BY <4>1, WorthCounts
      <4>3. QED
        BY <3>1, <4>1, <4>2 DEF Allowance
    <3>3. CASE i \notin Live
      BY <3>1, <3>3 DEF Allowance
    <3>4. QED
      BY <3>2, <3>3
  <2>2. QED
    BY <2>1 DEF DaysBudget
<1>2. QED
  BY <1>1, Invariance, PTL

\* Who sends, and who comes to hold a row.
LEMMA OnlySends ==
  ASSUME Inv, [Next]_vars, NEW i \in Ids, sent'[i] # sent[i]
  PROVE  \E t \in Ticks : Owes(t, i)
<1>1. PICK t \in Ticks : tick[t].pc = "forward" /\ Delivered(t)
  BY DEF Next, Press, Approval, Delivery, Submit, Offer, PressShare, Decline, PressDeny,
         PressApprove, ForgetPending, CancelPosts, ToggleConsent, Repost, Fetch, Render,
         CountRows, TrimOldest, CreateRow, LoopEnds, Discard, GroupFails, JobDies, JobReruns,
         DropOld, TickStarts, CheckConsent, Forwarded, ForwardRejected, ForwardFails, SpendDay,
         TickDies, ComeDue, vars
<1>2. sent' = [sent EXCEPT ![tick[t].cur.id] = @ + 1] /\ tick[t].cur.id \in Ids
  BY <1>1, TickShape DEF Delivered, Inv
<1>3. tick[t].cur.id = i
  BY <1>2 DEF Inv, TypeOK
<1>4. QED
  BY <1>1, <1>3 DEF Owes

LEMMA OnlyReads ==
  ASSUME Inv, [Next]_vars, NEW i \in Ids, i \notin Live, NEW t \in Ticks, Holds(t, i)'
  PROVE  Holds(t, i)
<1>1. CASE tick' = tick
  BY <1>1 DEF Holds, Owes, Waiting
<1>2. ASSUME NEW k \in Ticks, LetsGo(k) PROVE Holds(t, i)
  BY <1>2 DEF LetsGo, Holds
<1>3. ASSUME NEW k \in Ticks, Forwarded(k) \/ ForwardFails(k) \/ ForwardRejected(k) \/ TickDies(k)
      PROVE  Holds(t, i)
  <2>1. LetsGo(k)
    BY <1>3, NextPostShape, DiesShape
       DEF Inv, Forwarded, ForwardFails, ForwardRejected, TickDies
  <2>2. QED
    BY <1>2, <2>1
<1>4. ASSUME NEW k \in Ticks, CheckConsent(k) PROVE Holds(t, i)
  <2>1. CASE NextPost(k)
    <3>1. LetsGo(k)
      BY <1>4, <2>1, NextPostShape DEF Inv, CheckConsent
    <3>2. QED
      BY <1>2, <3>1
  <2>2. CASE tick' = [tick EXCEPT ![k].pc = "forward"]
    <3>1. /\ tick[k].pc = "consent"
          /\ tick[k] \in [pc : {"consent", "forward"}, snap : SUBSET Due, cur : Due]
          /\ tick \in [Ticks -> Tick]
      BY <1>4, TickShape DEF CheckConsent, Inv, TypeOK
    <3>2. /\ tick'[k].pc = "forward" /\ tick'[k].snap = tick[k].snap /\ tick'[k].cur = tick[k].cur
          /\ \A m \in Ticks \ {k} : tick'[m] = tick[m]
      BY <2>2, <3>1
    <3>3. QED
      BY <3>1, <3>2 DEF Holds, Owes, Waiting
  <2>3. QED
    BY <1>4, <2>1, <2>2 DEF CheckConsent
<1>5. ASSUME NEW k \in Ticks, NEW p \in Unspent(k), SpendDay(k, p) PROVE Holds(t, i)
  <2>1. /\ tick[k].pc = "spend" /\ p \in tick[k].snap /\ tick \in [Ticks -> Tick]
        /\ tick' = [tick EXCEPT ![k] = [pc |-> "consent", snap |-> @.snap \ {p}, cur |-> p]]
    BY <1>5 DEF SpendDay, Unspent, Inv, TypeOK
  <2>2. /\ tick'[k].snap \subseteq tick[k].snap /\ tick'[k].cur = p /\ tick'[k].pc = "consent"
        /\ \A m \in Ticks \ {k} : tick'[m] = tick[m]
    BY <2>1
  <2>3. QED
    BY <2>1, <2>2 DEF Holds, Owes, Waiting
<1>6. ASSUME NEW k \in Ticks, NEW due \in SUBSET Live, TickStarts(k, due) PROVE Holds(t, i)
  <2>1. /\ tick \in [Ticks -> Tick] /\ tick[k] = IdleTick
        /\ tick' = [tick EXCEPT ![k] =
             [pc |-> "spend",
              snap |-> {[id |-> m, days |-> rows[m].days, group |-> rows[m].group] : m \in due}]]
    BY <1>6 DEF TickStarts, Inv, TypeOK
  <2>2. /\ tick'[k].pc = "spend" /\ \A p \in tick'[k].snap : p.id \in Live
        /\ \A m \in Ticks \ {k} : tick'[m] = tick[m]
    BY <2>1
  <2>3. QED
    BY <2>2 DEF Holds, Owes, Waiting
<1>7. CASE \E k \in Ticks : Delivery(k) \/ TickDies(k)
  BY <1>3, <1>4, <1>5, <1>6, <1>7 DEF Delivery
<1>8. CASE ~ \E k \in Ticks : Delivery(k) \/ TickDies(k)
  <2>1. tick' = tick
    BY <1>8 DEF Next, Press, Approval, Submit, Offer, PressShare, Decline, PressDeny,
         PressApprove, ForgetPending, CancelPosts, ToggleConsent, Repost, Fetch, Render,
         CountRows, TrimOldest, CreateRow, LoopEnds, Discard, GroupFails, JobDies, JobReruns,
         DropOld, ComeDue, vars
  <2>2. QED
    BY <1>1, <2>1
<1>9. QED
  BY <1>7, <1>8

(* "withdrawal of consent is final, not a hold" (jobs/publisher.py:549):   *)
(* no tick reads the row again, and none sends it but one that had spent   *)
(* the same day of it.                                                     *)
THEOREM RefusedForGood == Spec => RefusalIsFinal
<1> DEFINE Final == \A i \in Ids : ended[i] = "refused" =>
                      /\ \A t \in Ticks : Holds(t, i)' => Holds(t, i)
                      /\ again[i] = 0 => sent'[i] = sent[i]
<1>1. ASSUME Inv, [Next]_vars PROVE Final
  <2>1. ASSUME NEW i \in Ids, ended[i] = "refused"
        PROVE  /\ \A t \in Ticks : Holds(t, i)' => Holds(t, i)
               /\ again[i] = 0 => sent'[i] = sent[i]
    <3>1. i \notin Live /\ \A t \in Ticks : Owes(t, i) => again[i] > 0
      BY <1>1, <2>1 DEF Inv, RefusedGone
    <3>2. \A t \in Ticks : Holds(t, i)' => Holds(t, i)
      BY <1>1, <3>1, OnlyReads
    <3>3. again[i] = 0 => sent'[i] = sent[i]
      BY <1>1, <3>1, OnlySends
    <3>4. QED
      BY <3>2, <3>3
  <2>2. QED
    BY <2>1
<1>2. ASSUME Inv, [Next]_vars PROVE [Final]_vars
  BY <1>1, <1>2
<1>3. QED
  BY <1>2, Invariance, PTL DEF Spec, RefusalIsFinal

(* "Read, don't consume" (jobs/publisher.py:423-431): a job that is run    *)
(* again finds its post, unless that was denied, expired or served.        *)
THEOREM RerunsFindPosts == Spec => []RerunFindsPost
BY Invariance, PTL DEF Inv

-----------------------------------------------------------------------------
(* max_posts.  A job that is alone in a group counted its rows and trims   *)
(* what it counted in excess; until then only a /repost can have added one.*)
Headroom ==
  \A g \in Groups \ crowded :
    /\ Cardinality(LiveIn(g)) <= MaxPosts + reposts
    /\ \A j \in Jobs : job[j].pc = "trim" /\ job[j].group = g =>
         Cardinality(LiveIn(g)) + 1 <= MaxPosts + reposts + job[j].excess
    /\ \A j \in Jobs : job[j].pc = "create" /\ job[j].group = g =>
         Cardinality(LiveIn(g)) + 1 <= MaxPosts + reposts

LEMMA LeastOf ==
  ASSUME NEW T, T \subseteq Nat, T # {}
  PROVE  \E x \in T : \A y \in T : x <= y
<1> DEFINE R == OpToRel(<, Nat)
<1>1. \E x \in T : \A y \in T : <<y, x>> \notin R
  BY NatLessThanWellFounded, WFMin
<1>2. \A x, y \in Nat : y < x => <<y, x>> \in R
  BY DEF OpToRel
<1> HIDE DEF R
<1>3. PICK x \in T : \A y \in T : ~(y < x)
  BY <1>1, <1>2
<1>4. QED
  BY <1>3

\* Without its n least members a set of naturals is empty or has n fewer.
LEMMA LeastDropped ==
  ASSUME NEW S, S \subseteq Nat, IsFiniteSet(S), NEW n \in Int, NEW L,
         L = {i \in S : ~(Cardinality({k \in S : k < i}) < n)}, L # {}
  PROVE  Cardinality(L) + n <= Cardinality(S)
<1>1. PICK x \in L : \A y \in L : x <= y
  BY LeastOf
<1> DEFINE B == {k \in S : k < x}
<1>2. L \subseteq S /\ B \subseteq S /\ B \cap L = {} /\ ~(Cardinality(B) < n)
  <2>1. x \in S /\ L \subseteq S /\ ~(Cardinality(B) < n)
    BY <1>1
  <2>2. \A y \in L : y \in Nat /\ ~(y < x)
    BY <1>1, <2>1
  <2>3. QED
    BY <2>1, <2>2
<1> HIDE DEF B
<1>3. /\ IsFiniteSet(L) /\ IsFiniteSet(B)
      /\ Cardinality(L) \in Nat /\ Cardinality(B) \in Nat /\ Cardinality(S) \in Nat
  BY <1>2, FS_Subset, FS_CardinalityType
<1>4. Cardinality(B \cup L) = Cardinality(B) + Cardinality(L)
  <2>1. Cardinality(B \cap L) = 0
    BY <1>2, FS_EmptySet
  <2>2. Cardinality(B \cup L) = Cardinality(B) + Cardinality(L) - Cardinality(B \cap L)
    BY <1>3, FS_Union
  <2>3. QED
    BY <1>3, <2>1, <2>2
<1>5. B \cup L \subseteq S
  BY <1>2
<1>6. Cardinality(B \cup L) <= Cardinality(S)
  BY <1>5, FS_Subset
<1>7. QED
  BY <1>2, <1>3, <1>4, <1>6

LEMMA LiveInCounts ==
  ASSUME TypeOK, NEW g \in Groups
  PROVE  /\ LiveIn(g) \subseteq Nat /\ IsFiniteSet(LiveIn(g)) /\ Cardinality(LiveIn(g)) \in Nat
         /\ made \in Nat /\ reposts \in Nat /\ MaxPosts \in Nat
<1>1. IsFiniteSet(Ids) /\ Ids \subseteq Nat
  BY FS_Interval, CountsAreNats DEF Ids
<1>2. LiveIn(g) \subseteq Ids
  BY DEF LiveIn, Live
<1>3. IsFiniteSet(LiveIn(g))
  BY <1>1, <1>2, FS_Subset
<1>4. Cardinality(LiveIn(g)) \in Nat
  BY <1>3, FS_CardinalityType
<1>5. made \in Nat /\ reposts \in Nat /\ MaxPosts \in Nat
  BY CountsAreNats DEF TypeOK
<1>6. QED
  BY <1>1, <1>2, <1>3, <1>4, <1>5

\* No more rows in a group than there were.
LEMMA FewerRows ==
  ASSUME TypeOK, NEW g \in Groups, LiveIn(g)' \subseteq LiveIn(g)
  PROVE  Cardinality(LiveIn(g)') \in Nat /\ Cardinality(LiveIn(g)') <= Cardinality(LiveIn(g))
<1>1. IsFiniteSet(LiveIn(g)')
  BY LiveInCounts, FS_Subset
<1>2. QED
  BY <1>1, LiveInCounts, FS_Subset, FS_CardinalityType

LEMMA RowsStayFewer ==
  ASSUME RowsStay, NEW g \in Groups
  PROVE  LiveIn(g)' \subseteq LiveIn(g)
BY DEF RowsStay, LiveIn, Live

\* A step that inserts nothing and after which no job goes on to insert.
NoneNearer ==
  \A k \in Jobs : job'[k].pc \in {"trim", "create"} => job'[k] = job[k]

LEMMA QuietHeadroom ==
  ASSUME TypeOK, Headroom, RowsStay, NoneNearer, reposts' = reposts, crowded \subseteq crowded'
  PROVE  Headroom'
<1>1. ASSUME NEW g \in Groups \ crowded'
      PROVE  /\ Cardinality(LiveIn(g)') <= MaxPosts + reposts
             /\ \A j \in Jobs : job'[j].pc = "trim" /\ job'[j].group = g =>
                  Cardinality(LiveIn(g)') + 1 <= MaxPosts + reposts + job'[j].excess
             /\ \A j \in Jobs : job'[j].pc = "create" /\ job'[j].group = g =>
                  Cardinality(LiveIn(g)') + 1 <= MaxPosts + reposts
  <2> DEFINE new == Cardinality(LiveIn(g)')
             old == Cardinality(LiveIn(g))
  <2>1. g \in Groups \ crowded
    BY <1>1
  <2>2. new \in Nat /\ old \in Nat /\ new <= old /\ reposts \in Nat /\ MaxPosts \in Nat
    BY <2>1, LiveInCounts, RowsStayFewer, FewerRows
  <2>3. /\ old <= MaxPosts + reposts
        /\ \A j \in Jobs : job[j].pc = "trim" /\ job[j].group = g =>
             old + 1 <= MaxPosts + reposts + job[j].excess
        /\ \A j \in Jobs : job[j].pc = "create" /\ job[j].group = g => old + 1 <= MaxPosts + reposts
    BY <2>1 DEF Headroom
  <2> HIDE DEF new, old
  <2>4. ASSUME NEW j \in Jobs, job'[j].pc = "trim", job'[j].group = g
        PROVE  new + 1 <= MaxPosts + reposts + job'[j].excess
    <3>1. job'[j] = job[j]
      BY <2>4 DEF NoneNearer
    <3>2. job[j].excess \in Int
      BY <2>4, <3>1, JobShape DEF Approving
    <3>3. old + 1 <= MaxPosts + reposts + job[j].excess
      BY <2>3, <2>4, <3>1
    <3>4. QED
      BY <2>2, <3>1, <3>2, <3>3
  <2>5. ASSUME NEW j \in Jobs, job'[j].pc = "create", job'[j].group = g
        PROVE  new + 1 <= MaxPosts + reposts
    <3>1. job'[j] = job[j]
      BY <2>5 DEF NoneNearer
    <3>2. old + 1 <= MaxPosts + reposts
      BY <2>3, <2>5, <3>1
    <3>3. QED
      BY <2>2, <3>2
  <2>6. new <= MaxPosts + reposts
    BY <2>2, <2>3
  <2>7. QED
    BY <2>4, <2>5, <2>6 DEF new
<1>2. QED
  BY <1>1 DEF Headroom

\* The job that leaves off being near an insertion, or never was.
LEMMA StepsBack ==
  ASSUME TypeOK, NEW j \in Jobs,
         \/ Fetch(j) \/ Render(j) \/ LoopEnds(j) \/ Discard(j) \/ GroupFails(j) \/ JobDies(j)
         \/ JobReruns(j) \/ CreateRow(j) \/ \E g \in Groups : DropOld(j, g)
  PROVE  /\ job'[j].pc \notin {"trim", "create"}
         /\ \A k \in Jobs \ {j} : job'[k] = job[k]
<1> USE DEF At
<1>0. job[j] \in Approving
  BY JobShape DEF Fetch, Render, LoopEnds, Discard, GroupFails, JobDies, JobReruns, CreateRow, DropOld
<1>1. CASE Fetch(j)
  <2>1. \/ job' = [job EXCEPT ![j].pc = "render"]
        \/ job' = [job EXCEPT ![j] = IdleJob]
    BY <1>1 DEF Fetch
  <2>2. QED
    BY <1>0, <2>1, GotoShape, JobMoves DEF IdleJob, Labels
<1>2. CASE Render(j)
  <2>1. PICK T \in SUBSET consent : job' = [job EXCEPT ![j].pc = "next", ![j].todo = T]
    BY <1>2 DEF Render
  <2>2. T \in SUBSET Groups
    BY DEF TypeOK
  <2>3. QED
    BY <1>0, <2>1, <2>2, TodoShape DEF Labels
<1>3. CASE LoopEnds(j)
  BY <1>0, <1>3, GotoShape DEF LoopEnds, Goto, Labels
<1>4. CASE CreateRow(j) \/ GroupFails(j)
  <2> DEFINE T == job[j].todo \ {job[j].group}
  <2>1. job' = [job EXCEPT ![j].pc = "next", ![j].todo = T]
    BY <1>4 DEF CreateRow, GroupFails, NextGroup, TypeOK
  <2>2. T \in SUBSET Groups
    BY <1>0 DEF Approving
  <2> HIDE DEF T
  <2>3. QED
    BY <1>0, <2>1, <2>2, TodoShape DEF Labels
<1>5. CASE Discard(j) \/ JobDies(j)
  <2>1. job' = [job EXCEPT ![j] = IdleJob]
    BY <1>5 DEF Discard, JobDies, FinishJob
  <2>2. QED
    BY <2>1, JobMoves DEF IdleJob
<1>6. CASE JobReruns(j)
  <2>1. PICK T \in SUBSET Groups : job' = [job EXCEPT ![j].pc = "queued", ![j].todo = T]
    BY <1>6 DEF JobReruns
  <2>2. QED
    BY <1>0, <2>1, TodoShape DEF Labels
<1>7. CASE \E g \in Groups : DropOld(j, g)
  BY <1>7, DropOldJob
<1>8. QED
  BY <1>1, <1>2, <1>3, <1>4, <1>5, <1>6, <1>7

\* The rows of a group are counted, with the one to come.
LEMMA CountHeadroom ==
  ASSUME Inv, Headroom, MaxPosts > 0, NEW j \in Jobs, CountRows(j)
  PROVE  Headroom'
<1>1. job[j] \in Approving /\ job[j].group \in Groups
  BY JobShape DEF Inv, CountRows, At, Approving
<1>2. PICK h \in Groups : h = job[j].group
  BY <1>1
<1>3. PICK n \in Int : n = Excess(h)
  BY ExcessIsCount DEF Inv
<1>4. /\ job' = [job EXCEPT ![j].pc = IF n <= 0 THEN "create" ELSE "trim", ![j].excess = n]
      /\ UNCHANGED <<rows, reposts, crowded>>
  BY <1>2, <1>3 DEF CountRows, table
<1>5. PICK l \in {"create", "trim"} : l = (IF n <= 0 THEN "create" ELSE "trim")
  OBVIOUS
<1>6. /\ job'[j].pc = l /\ job'[j].group = h /\ job'[j].excess = n
      /\ \A k \in Jobs \ {j} : job'[k] = job[k]
  <2>1. job' = [job EXCEPT ![j].pc = l, ![j].excess = Excess(job[j].group)]
    BY <1>2, <1>3, <1>4, <1>5
  <2>2. TypeOK
    BY DEF Inv
  <2>3. Excess(job[j].group) \in Int
    BY <1>2, <1>3
  <2>4. /\ job'[j].pc = l /\ job'[j].group = job[j].group /\ job'[j].excess = Excess(job[j].group)
        /\ \A k \in Jobs \ {j} : job'[k] = job[k]
    BY <1>1, <2>1, <2>2, <2>3, ExcessShape DEF Labels
  <2>5. QED
    BY <1>2, <1>3, <2>4
<1>7. /\ n = Cardinality(LiveIn(h)) + 1 - MaxPosts
      /\ Cardinality(LiveIn(h)) \in Nat /\ MaxPosts \in Nat /\ reposts \in Nat
  BY <1>3, LiveInCounts DEF Excess, Inv
<1>8. \A g \in Groups : LiveIn(g)' = LiveIn(g)
  BY <1>4 DEF LiveIn, Live
<1>9. /\ l = "trim" => Cardinality(LiveIn(h)) + 1 <= MaxPosts + reposts + n
      /\ l = "create" => Cardinality(LiveIn(h)) + 1 <= MaxPosts + reposts
  BY <1>5, <1>7
<1>10. ASSUME NEW g \in Groups \ crowded
       PROVE  /\ Cardinality(LiveIn(g)) <= MaxPosts + reposts
              /\ \A k \in Jobs : job'[k].pc = "trim" /\ job'[k].group = g =>
                   Cardinality(LiveIn(g)) + 1 <= MaxPosts + reposts + job'[k].excess
              /\ \A k \in Jobs : job'[k].pc = "create" /\ job'[k].group = g =>
                   Cardinality(LiveIn(g)) + 1 <= MaxPosts + reposts
  <2>1. ASSUME NEW k \in Jobs, job'[k].pc = "trim", job'[k].group = g
        PROVE  Cardinality(LiveIn(g)) + 1 <= MaxPosts + reposts + job'[k].excess
    <3>1. CASE k = j
      BY <1>6, <1>9, <2>1, <3>1
    <3>2. CASE k # j
      BY <1>6, <2>1, <3>2 DEF Headroom
    <3>3. QED
      BY <3>1, <3>2
  <2>2. ASSUME NEW k \in Jobs, job'[k].pc = "create", job'[k].group = g
        PROVE  Cardinality(LiveIn(g)) + 1 <= MaxPosts + reposts
    <3>1. CASE k = j
      BY <1>6, <1>9, <2>2, <3>1
    <3>2. CASE k # j
      BY <1>6, <2>2, <3>2 DEF Headroom
    <3>3. QED
      BY <3>1, <3>2
  <2>3. QED
    BY <2>1, <2>2 DEF Headroom
<1>11. QED
  BY <1>4, <1>8, <1>10 DEF Headroom

\* The oldest go, as many as were counted in excess.
LEMMA TrimHeadroom ==
  ASSUME Inv, Headroom, MaxPosts > 0, NEW j \in Jobs, TrimOldest(j), RowsStay
  PROVE  Headroom'
<1>1. job[j] \in Approving /\ job[j].pc = "trim"
  BY JobShape DEF Inv, TrimOldest, At
<1>2. PICK h \in Groups, n \in Int : h = job[j].group /\ n = job[j].excess
  BY <1>1 DEF Approving
<1>3. /\ job' = [job EXCEPT ![j].pc = "create"] /\ rows' = Without(Oldest(h, n))
      /\ UNCHANGED <<reposts, crowded>>
  BY <1>2 DEF TrimOldest, Goto
<1>4. /\ job'[j].pc = "create" /\ job'[j].group = h
      /\ \A k \in Jobs \ {j} : job'[k] = job[k]
  BY <1>1, <1>2, <1>3, GotoShape DEF Inv, Labels
<1>5. LiveIn(h)' = {i \in LiveIn(h) : ~(Cardinality({k \in LiveIn(h) : k < i}) < n)}
  <2>1. LiveIn(h)' = LiveIn(h) \ Oldest(h, n)
    BY <1>3 DEF Without, LiveIn, Live
  <2>2. QED
    BY <2>1 DEF Oldest
<1>6. ASSUME NEW g \in Groups \ crowded
      PROVE  /\ Cardinality(LiveIn(g)') \in Nat /\ Cardinality(LiveIn(g)') <= Cardinality(LiveIn(g))
             /\ Cardinality(LiveIn(g)) \in Nat /\ reposts \in Nat /\ MaxPosts \in Nat
             /\ g = h => Cardinality(LiveIn(g)') + 1 <= MaxPosts + reposts
  <2>1. /\ Cardinality(LiveIn(g)') \in Nat /\ Cardinality(LiveIn(g)') <= Cardinality(LiveIn(g))
        /\ Cardinality(LiveIn(g)) \in Nat /\ reposts \in Nat /\ MaxPosts \in Nat
        /\ LiveIn(g) \subseteq Nat /\ IsFiniteSet(LiveIn(g))
    BY LiveInCounts, RowsStayFewer, FewerRows DEF Inv
  <2>2. CASE g = h /\ LiveIn(g)' = {}
    <3>1. Cardinality(LiveIn(g)') = 0
      BY <2>2, FS_EmptySet
    <3>2. QED
      BY <2>1, <3>1
  <2>3. CASE g = h /\ LiveIn(g)' # {}
    <3>1. Cardinality(LiveIn(g)') + n <= Cardinality(LiveIn(g))
      BY <1>5, <2>1, <2>3, LeastDropped
    <3>2. Cardinality(LiveIn(g)) + 1 <= MaxPosts + reposts + n
      BY <1>1, <1>2, <2>3 DEF Headroom
    <3>3. QED
      BY <2>1, <3>1, <3>2
  <2>4. QED
    BY <2>1, <2>2, <2>3
<1>7. ASSUME NEW g \in Groups \ crowded
      PROVE  /\ Cardinality(LiveIn(g)') <= MaxPosts + reposts
             /\ \A k \in Jobs : job'[k].pc = "trim" /\ job'[k].group = g =>
                  Cardinality(LiveIn(g)') + 1 <= MaxPosts + reposts + job'[k].excess
             /\ \A k \in Jobs : job'[k].pc = "create" /\ job'[k].group = g =>
                  Cardinality(LiveIn(g)') + 1 <= MaxPosts + reposts
  <2> DEFINE new == Cardinality(LiveIn(g)')
             old == Cardinality(LiveIn(g))
  <2>1. /\ new \in Nat /\ new <= old /\ old \in Nat /\ reposts \in Nat /\ MaxPosts \in Nat
        /\ g = h => new + 1 <= MaxPosts + reposts
    BY <1>6, <1>7
  <2>2. /\ old <= MaxPosts + reposts
        /\ \A k \in Jobs : job[k].pc = "trim" /\ job[k].group = g =>
             old + 1 <= MaxPosts + reposts + job[k].excess
        /\ \A k \in Jobs : job[k].pc = "create" /\ job[k].group = g => old + 1 <= MaxPosts + reposts
    BY <1>7 DEF Headroom
  <2> HIDE DEF new, old
  <2>3. new <= MaxPosts + reposts
    BY <2>1, <2>2
  <2>4. ASSUME NEW k \in Jobs, job'[k].pc = "trim", job'[k].group = g
        PROVE  new + 1 <= MaxPosts + reposts + job'[k].excess
    <3>1. job'[k] = job[k]
      BY <1>4, <2>4
    <3>2. job[k].excess \in Int
      BY <2>4, <3>1, JobShape DEF Inv, Approving
    <3>3. old + 1 <= MaxPosts + reposts + job[k].excess
      BY <2>2, <2>4, <3>1
    <3>4. QED
      BY <2>1, <3>1, <3>2, <3>3
  <2>5. ASSUME NEW k \in Jobs, job'[k].pc = "create", job'[k].group = g
        PROVE  new + 1 <= MaxPosts + reposts
    <3>1. CASE k = j
      BY <1>4, <2>1, <2>5, <3>1
    <3>2. CASE k # j
      <4>1. old + 1 <= MaxPosts + reposts
        BY <1>4, <2>2, <2>5, <3>2
      <4>2. QED
        BY <2>1, <4>1
    <3>3. QED
      BY <3>1, <3>2
  <2>6. QED
    BY <2>3, <2>4, <2>5 DEF new
<1>8. QED
  BY <1>3, <1>7 DEF Headroom

\* An insertion adds one row to its group and none to any other.
LEMMA OneRowMore ==
  ASSUME TypeOK, NEW h \in Groups, NEW n \in Ids,
         rows[n] = Gone, rows'[n].group = h, \A i \in Ids \ {n} : rows'[i] = rows[i], NEW g \in Groups
  PROVE  /\ Cardinality(LiveIn(g)') \in Nat
         /\ g = h => Cardinality(LiveIn(g)') <= Cardinality(LiveIn(g)) + 1
         /\ g # h => LiveIn(g)' \subseteq LiveIn(g)
<1>1. /\ LiveIn(h)' \subseteq LiveIn(h) \cup {n}
      /\ g # h => LiveIn(g)' \subseteq LiveIn(g)
  BY DEF LiveIn, Live
<1>2. CASE g = h
  <2>1. n \notin LiveIn(h) /\ IsFiniteSet(LiveIn(h)) /\ Cardinality(LiveIn(h)) \in Nat
    BY LiveInCounts DEF LiveIn, Live
  <2>2. IsFiniteSet(LiveIn(h) \cup {n}) /\ Cardinality(LiveIn(h) \cup {n}) = Cardinality(LiveIn(h)) + 1
    BY <2>1, FS_AddElement
  <2>3. IsFiniteSet(LiveIn(h)') /\ Cardinality(LiveIn(h)') <= Cardinality(LiveIn(h) \cup {n})
    BY <1>1, <2>2, FS_Subset
  <2>4. Cardinality(LiveIn(h)') \in Nat
    BY <2>3, FS_CardinalityType
  <2>5. QED
    BY <1>2, <2>2, <2>3, <2>4
<1>3. CASE g # h
  BY <1>1, <1>3, FewerRows
<1>4. QED
  BY <1>1, <1>2, <1>3

\* The one job that fills a group takes the place it kept free.
LEMMA CreateHeadroom ==
  ASSUME Inv, Headroom, NEW j \in Jobs, CreateRow(j), NEW n \in Ids,
         rows[n] = Gone, rows'[n].group = job[j].group, \A i \in Ids \ {n} : rows'[i] = rows[i]
  PROVE  Headroom'
<1>1. job[j] \in Approving /\ job[j].pc = "create"
  BY JobShape DEF Inv, CreateRow, At
<1>2. PICK h \in Groups : h = job[j].group
  BY <1>1 DEF Approving
<1>3. /\ job'[j].pc \notin {"trim", "create"}
      /\ \A k \in Jobs \ {j} : job'[k] = job[k]
  BY StepsBack DEF Inv
<1>4. reposts' = reposts /\ crowded' = crowded
  BY DEF CreateRow
<1>5. ASSUME NEW g \in Groups \ crowded
      PROVE  /\ Cardinality(LiveIn(g)') <= MaxPosts + reposts
             /\ \A k \in Jobs : job'[k].pc = "trim" /\ job'[k].group = g =>
                  Cardinality(LiveIn(g)') + 1 <= MaxPosts + reposts + job'[k].excess
             /\ \A k \in Jobs : job'[k].pc = "create" /\ job'[k].group = g =>
                  Cardinality(LiveIn(g)') + 1 <= MaxPosts + reposts
  <2> DEFINE new == Cardinality(LiveIn(g)')
             old == Cardinality(LiveIn(g))
  <2>1. /\ new \in Nat /\ old \in Nat /\ reposts \in Nat /\ MaxPosts \in Nat
        /\ g = h => new <= old + 1
        /\ g # h => new <= old
    BY <1>2, <1>5, OneRowMore, FewerRows, LiveInCounts DEF Inv
  <2>2. /\ old <= MaxPosts + reposts
        /\ \A k \in Jobs : job[k].pc = "trim" /\ job[k].group = g =>
             old + 1 <= MaxPosts + reposts + job[k].excess
        /\ \A k \in Jobs : job[k].pc = "create" /\ job[k].group = g => old + 1 <= MaxPosts + reposts
    BY <1>5 DEF Headroom
  <2> HIDE DEF new, old
  <2>3. CASE g = h
    <3>1. \A k \in Jobs : Fills(k, h) => k = j
      BY <1>1, <1>2, <1>5, <2>3 DEF Inv, CampaignsApart, Fills
    <3>2. \A k \in Jobs : ~(job'[k].pc \in {"trim", "create"} /\ job'[k].group = g)
      BY <1>3, <2>3, <3>1 DEF Fills
    <3>3. old + 1 <= MaxPosts + reposts
      BY <1>1, <1>2, <2>2, <2>3
    <3>4. new <= MaxPosts + reposts
      BY <2>1, <2>3, <3>3
    <3>5. QED
      BY <3>2, <3>4 DEF new
  <2>4. CASE g # h
    <3>1. \A k \in Jobs : job'[k].pc \in {"trim", "create"} => job'[k] = job[k]
      BY <1>3
    <3>2. new <= MaxPosts + reposts
      BY <2>1, <2>2, <2>4
    <3>3. ASSUME NEW k \in Jobs, job'[k].pc = "trim", job'[k].group = g
          PROVE  new + 1 <= MaxPosts + reposts + job'[k].excess
      <4>1. job'[k] = job[k]
        BY <3>1, <3>3
      <4>2. job[k].excess \in Int /\ old + 1 <= MaxPosts + reposts + job[k].excess
        BY <2>2, <3>3, <4>1, JobShape DEF Inv, Approving
      <4>3. QED
        BY <2>1, <2>4, <4>1, <4>2
    <3>4. ASSUME NEW k \in Jobs, job'[k].pc = "create", job'[k].group = g
          PROVE  new + 1 <= MaxPosts + reposts
      <4>1. old + 1 <= MaxPosts + reposts
        BY <2>2, <3>1, <3>4
      <4>2. QED
        BY <2>1, <2>4, <4>1
    <3>5. QED
      BY <3>2, <3>3, <3>4 DEF new
  <2>5. QED
    BY <2>3, <2>4
<1>6. QED
  BY <1>4, <1>5 DEF Headroom

\* A /repost brings its own allowance.
LEMMA RepostHeadroom ==
  ASSUME Inv, Headroom, NEW h \in Groups, job' = job, crowded' = crowded, reposts' = reposts + 1,
         NEW n \in Ids, rows[n] = Gone, rows'[n].group = h, \A i \in Ids \ {n} : rows'[i] = rows[i]
  PROVE  Headroom'
<1>1. ASSUME NEW g \in Groups \ crowded
      PROVE  /\ Cardinality(LiveIn(g)') <= MaxPosts + reposts'
             /\ \A k \in Jobs : job[k].pc = "trim" /\ job[k].group = g =>
                  Cardinality(LiveIn(g)') + 1 <= MaxPosts + reposts' + job[k].excess
             /\ \A k \in Jobs : job[k].pc = "create" /\ job[k].group = g =>
                  Cardinality(LiveIn(g)') + 1 <= MaxPosts + reposts'
  <2> DEFINE new == Cardinality(LiveIn(g)')
             old == Cardinality(LiveIn(g))
  <2>1. /\ new \in Nat /\ old \in Nat /\ reposts \in Nat /\ MaxPosts \in Nat
        /\ g = h => new <= old + 1
        /\ g # h => new <= old
    BY <1>1, OneRowMore, FewerRows, LiveInCounts DEF Inv
  <2>2. /\ old <= MaxPosts + reposts
        /\ \A k \in Jobs : job[k].pc = "trim" /\ job[k].group = g =>
             old + 1 <= MaxPosts + reposts + job[k].excess
        /\ \A k \in Jobs : job[k].pc = "create" /\ job[k].group = g => old + 1 <= MaxPosts + reposts
    BY <1>1 DEF Headroom
  <2> HIDE DEF new, old
  <2>3. PICK r \in Nat : r = reposts' /\ r = reposts + 1
    BY <2>1
  <2>4. new <= old + 1
    BY <2>1
  <2>5. new <= MaxPosts + r
    BY <2>1, <2>2, <2>3, <2>4
  <2>6. ASSUME NEW k \in Jobs, job[k].pc = "trim", job[k].group = g
        PROVE  new + 1 <= MaxPosts + r + job[k].excess
    <3>1. PICK x \in Int : x = job[k].excess
      BY <2>6, JobShape DEF Inv, Approving
    <3>2. old + 1 <= MaxPosts + reposts + x
      BY <2>2, <2>6, <3>1
    <3>3. new + 1 <= MaxPosts + r + x
      BY <2>1, <2>3, <2>4, <3>2
    <3>4. QED
      BY <3>1, <3>3
  <2>7. ASSUME NEW k \in Jobs, job[k].pc = "create", job[k].group = g
        PROVE  new + 1 <= MaxPosts + r
    <3>1. old + 1 <= MaxPosts + reposts
      BY <2>2, <2>7
    <3>2. QED
      BY <2>1, <2>3, <2>4, <3>1
  <2>8. QED
    BY <2>3, <2>5, <2>6, <2>7 DEF new
<1>2. QED
  BY <1>1 DEF Headroom

LEMMA InitHeadroom == Init => Headroom
<1> SUFFICES ASSUME Init PROVE Headroom
  OBVIOUS
<1>1. \A g \in Groups : LiveIn(g) = {}
  BY DEF Init, LiveIn, Live
<1>2. Cardinality({}) = 0 /\ MaxPosts \in Nat /\ reposts = 0
  BY FS_EmptySet, CountsAreNats DEF Init
<1>3. \A j \in Jobs : job[j].pc = "idle"
  BY DEF Init, IdleJob
<1>4. QED
  BY <1>1, <1>2, <1>3 DEF Headroom

LEMMA NextHeadroom ==
  ASSUME Inv, Headroom, MaxPosts > 0, [Next]_vars
  PROVE  Headroom'
<1>1. CASE UNCHANGED <<table, job, crowded>>
  BY <1>1, QuietHeadroom DEF table, RowsStay, NoneNearer, Inv
<1>2. CASE Press
  <2>1. ASSUME NEW j \in Jobs, NEW s \in Submissions, NEW d \in DayOptions, PressApprove(j, s, d)
        PROVE  Headroom'
    <3> DEFINE r == [pc |-> "queued", sub |-> s, days |-> d, todo |-> {}, group |-> s.chat, excess |-> 0]
    <3>1. r \in Approving /\ r.pc = "queued"
      BY SubmissionsAreRecords DEF Approving, Labels
    <3>2. /\ job' = [job EXCEPT ![j] = r] \/ job' = job
          /\ UNCHANGED <<rows, reposts, crowded>>
      BY <2>1 DEF PressApprove, Maybe, table
    <3> HIDE DEF r
    <3>3. NoneNearer
      BY <3>1, <3>2, JobMoves DEF NoneNearer, Inv
    <3>4. RowsStay
      BY <3>2 DEF RowsStay
    <3>5. QED
      BY <3>2, <3>3, <3>4, QuietHeadroom DEF Inv
  <2>2. ASSUME NEW g \in Groups, CancelPosts(g) PROVE Headroom'
    <3>1. /\ rows' = Without({i \in Live : rows[i].chat = g})
          /\ UNCHANGED <<reposts, job, crowded>>
      BY <2>2 DEF CancelPosts
    <3>2. RowsStay /\ NoneNearer
      BY <3>1 DEF RowsStay, Without, NoneNearer
    <3>3. QED
      BY <3>1, <3>2, QuietHeadroom DEF Inv
  <2>3. ASSUME NEW g \in Groups, NEW d \in RepostDays, Repost(g, d) PROVE Headroom'
    <3>1. /\ Insert(g, g, g, d) /\ d \in Nat /\ reposts' = reposts + 1
          /\ UNCHANGED <<ended, job, tick, sent, spent, again, crowded>>
      BY <2>3, CountsAreNats DEF Repost, twice
    <3>2. reposts' \in 0 .. MaxReposts
      BY <2>3, CountsAreNats DEF Repost, Inv, TypeOK
    <3>3. /\ rows'[made + 1].group = g
          /\ made + 1 \in Ids /\ rows[made + 1] = Gone
          /\ \A i \in Ids \ {made + 1} : rows'[i] = rows[i]
      BY <3>1, <3>2, Gains
    <3>4. QED
      BY <3>1, <3>3, RepostHeadroom
  <2>4. QED
    BY <1>1, <1>2, <2>1, <2>2, <2>3
       DEF Press, Submit, Offer, PressShare, Decline, PressDeny, ForgetPending, ToggleConsent
<1>3. ASSUME NEW j \in Jobs, Approval(j) PROVE Headroom'
  <2>1. CASE CountRows(j)
    BY <2>1, CountHeadroom
  <2>2. CASE TrimOldest(j)
    <3>1. RowsStay
      BY <2>2 DEF TrimOldest, RowsStay, Without
    <3>2. QED
      BY <2>2, <3>1, TrimHeadroom
  <2>3. CASE CreateRow(j)
    <3>1. job[j] \in Approving
      BY <2>3, JobShape DEF Inv, CreateRow, At
    <3>2. PICK g \in Groups, o \in Origins, c \in Groups, d \in Nat :
            /\ g = job[j].group /\ o = job[j].sub.origin /\ c = job[j].sub.chat /\ d = job[j].days
      BY <3>1, SubmissionsAreRecords, CountsAreNats DEF Approving, Origins
    <3>3. /\ Insert(g, o, c, d) /\ o \in Origins \cup Groups
          /\ UNCHANGED <<reposts, ended, tick, sent, spent, again, crowded>>
      BY <2>3, <3>2 DEF CreateRow, twice
    <3>4. reposts' \in 0 .. MaxReposts
      BY <3>3 DEF Inv, TypeOK
    <3>5. /\ rows'[made + 1].group = g
          /\ made + 1 \in Ids /\ rows[made + 1] = Gone
          /\ \A i \in Ids \ {made + 1} : rows'[i] = rows[i]
      BY <3>3, <3>4, Gains
    <3>6. QED
      BY <2>3, <3>2, <3>5, CreateHeadroom
  <2>4. ASSUME NEW g \in Groups, DropOld(j, g) PROVE Headroom'
    <3>1. NoneNearer
      BY <2>4, StepsBack DEF NoneNearer, Inv
    <3>2. /\ rows' = Without(SameCampaign(g, job[j].sub.origin)) /\ reposts' = reposts
          /\ crowded \subseteq crowded'
      BY <2>4 DEF DropOld
    <3>3. RowsStay
      BY <3>2 DEF RowsStay, Without
    <3>4. QED
      BY <3>1, <3>2, <3>3, QuietHeadroom DEF Inv
  <2>5. CASE \/ Fetch(j) \/ Render(j) \/ LoopEnds(j) \/ Discard(j) \/ GroupFails(j) \/ JobDies(j)
             \/ JobReruns(j)
    <3>1. NoneNearer
      BY <2>5, StepsBack DEF NoneNearer, Inv
    <3>2. UNCHANGED <<rows, reposts, crowded>>
      BY <2>5 DEF Fetch, Render, LoopEnds, Discard, GroupFails, JobDies, JobReruns, table
    <3>3. RowsStay
      BY <3>2 DEF RowsStay
    <3>4. QED
      BY <3>1, <3>2, <3>3, QuietHeadroom DEF Inv
  <2>6. QED
    BY <1>3, <2>1, <2>2, <2>3, <2>4, <2>5 DEF Approval
<1>4. CASE (\E t \in Ticks : Delivery(t) \/ TickDies(t)) \/ \E i \in Ids : ComeDue(i)
  <2>1. job' = job /\ crowded' = crowded /\ reposts' = reposts
    BY <1>4 DEF Delivery, TickStarts, CheckConsent, Forwarded, ForwardRejected, ForwardFails, SpendDay,
                TickDies, ComeDue, table
  <2>2. RowsStay
    BY <1>4, DeliveryRows
  <2>3. QED
    BY <2>1, <2>2, QuietHeadroom DEF Inv, NoneNearer
<1>5. QED
  <2>1. CASE UNCHANGED vars
    BY <1>1, <2>1 DEF vars
  <2>2. QED
    BY <1>2, <1>3, <1>4, <2>1 DEF Next

(* max_posts is "how many campaigns may target this group at once"         *)
(* (.specs/features/util_postgetter/spec.md:17-18): a job that is alone in *)
(* a group leaves room for its row before it inserts it, so that only a    *)
(* /repost takes the group past the cap, by one.                           *)
THEOREM CapKept == Spec => []CapRespected
<1>1. CASE MaxPosts > 0
  <2>1. Headroom => CapRespected
    BY DEF Headroom, CapRespected
  <2>2. Inv /\ Headroom /\ [Next]_vars => Headroom'
    BY <1>1, NextHeadroom
  <2>3. QED
    BY <2>1, <2>2, InitHeadroom, Invariance, PTL DEF Spec
<1>2. CASE ~(MaxPosts > 0)
  <2>1. CapRespected
    BY <1>2 DEF CapRespected
  <2>2. QED
    BY <2>1, PTL
<1>3. QED
  BY <1>1, <1>2

=============================================================================
