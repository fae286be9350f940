----------------------------- MODULE LlmRouter ------------------------------
(***************************************************************************)
(* The calls of the LLM router and the money they cost: the check of the   *)
(* tenant's monthly budget, the provider, and the accounting rows that the *)
(* budget is computed from, the live rows of today and the nightly rollup  *)
(* of the days before.  One tenant and one gateway process; the rollup of  *)
(* the worker and the cache live outside it.  A call costs 1.  Whether the *)
(* provider's breaker lets a call through is module Breaker's business:    *)
(* here it may refuse at any time.                                         *)
(***************************************************************************)
EXTENDS Naturals, FiniteSetsExt

CONSTANTS Groups,        \* the tenant's groups
          Calls,         \* completions that may run at once
          Refresher,     \* the background refresh of the cached total
          Cap,           \* monthly_llm_budget_usd
          DaysPerMonth,
          LastDay,       \* bound: the days that are looked at
          MaxSpent,      \* bound: completions the provider answers
          None

LlmAssumption ==
  /\ Refresher \notin Calls
  /\ {Cap, DaysPerMonth} \subseteq Nat \ {0}
  /\ {LastDay, MaxSpent} \subseteq Nat
  /\ IsFiniteSet(Groups)

VARIABLES groups,     \* rows of groups
          call,       \* where each completion and the refresh are
          today,
          usage,      \* cost in llm_usage, by group and day
          daily,      \* cost in llm_daily_cost, by group and day
          rolled,     \* statements of tonight's rollup that ran
          cached,     \* the total in Valkey, None when absent
          spent,      \* history: completions paid for, by the day they ended
          complete    \* history: days whose closing rollup ran

spendVars == <<groups, usage, daily, spent>>
nightVars == <<today, rolled, complete>>
vars == <<spendVars, nightVars, call, cached>>

Days == 0..LastDay
Readers == Calls \cup {Refresher}
Idle == [at |-> "idle"]
MonthStart(d) == d - (d % DaysPerMonth)
Sum(cost, gs, ds) == MapThenSumSet(LAMBDA gd : cost[gd], gs \X ds)
SpentSince(day) == MapThenSumSet(LAMBDA d : spent[d], day..LastDay)

TypeOK ==
  /\ groups \subseteq Groups /\ today \in Days
  /\ call \in [Readers -> {Idle}
       \cup [at : {"query"}, group : Groups \cup {None}]
       \cup [at : {"live", "store"}, group : Groups \cup {None}, asof : Days, sum : Nat]
       \cup [at : {"provider", "persist"}, group : Groups]]
  /\ usage \in [Groups \X Days -> Nat] /\ daily \in [Groups \X Days -> Nat]
  /\ rolled \in 0..2 /\ complete \subseteq Days
  /\ cached \in {None} \cup [total : Nat, asof : Days, stale : BOOLEAN]
  /\ spent \in [Days -> Nat]

Init ==
  /\ groups = Groups /\ today = 0
  /\ call = [r \in Readers |-> Idle]
  /\ usage = [gd \in Groups \X Days |-> 0] /\ daily = usage
  /\ rolled = 0 /\ complete = {}
  /\ cached = None
  /\ spent = [d \in Days |-> 0]

-----------------------------------------------------------------------------
(* The budget.                                                             *)

Refuse(c) == call' = [call EXCEPT ![c] = Idle]

\* within the budget the breaker decides, which may be open
Onwards(g) == {Idle, [at |-> "provider", group |-> g]}
Admit(c, g) == \E next \in Onwards(g) : call' = [call EXCEPT ![c] = next]
Judge(c, g, total) == IF total >= Cap THEN Refuse(c) ELSE Admit(c, g)

(* ensure_within_budget with a cached total: it is served whatever its     *)
(* age, and a stale one starts the background refresh unless one runs.     *)
CheckCached(c, g) ==
  /\ call[c] = Idle /\ cached # None
  /\ LET refresh == IF cached.stale /\ call[Refresher] = Idle
                    THEN [at |-> "query", group |-> None] ELSE call[Refresher]
     IN \E next \in IF cached.total >= Cap THEN {Idle} ELSE Onwards(g) :
          call' = [call EXCEPT ![c] = next, ![Refresher] = refresh]
  /\ UNCHANGED <<spendVars, nightVars, cached>>

(* Nothing cached: the caller waits for the query.                         *)
CheckEmpty(c, g) ==
  /\ call[c] = Idle /\ cached = None
  /\ call' = [call EXCEPT ![c] = [at |-> "query", group |-> g]]
  /\ UNCHANGED <<spendVars, nightVars, cached>>

(* The cache cannot be read: the call is let through.                      *)
CheckFails(c, g) ==
  /\ call[c] = Idle
  /\ Admit(c, g)
  /\ UNCHANGED <<spendVars, nightVars, cached>>

\* the rollup's rows include today's
QueryRolledUp_WithToday(r) ==
  /\ call[r].at = "query"
  /\ call' = [call EXCEPT ![r] =
       [at |-> "live", group |-> @.group, asof |-> today,
        sum |-> Sum(daily, groups, MonthStart(today)..today)]]
  /\ UNCHANGED <<spendVars, nightVars, cached>>

(* _ROLLED_UP_SQL: the days of the month before today.                     *)
QueryRolledUp(r) ==
  /\ call[r].at = "query"
  /\ call' = [call EXCEPT ![r] =
       [at |-> "live", group |-> @.group, asof |-> today,
        sum |-> Sum(daily, groups, MonthStart(today)..(today - 1))]]
  /\ UNCHANGED <<spendVars, nightVars, cached>>

(* _TODAY_LIVE_SQL, from the start of the day the query began in.          *)
QueryLive(r) ==
  /\ call[r].at = "live"
  /\ call' = [call EXCEPT ![r] =
       [at |-> "store", group |-> @.group, asof |-> @.asof,
        sum |-> @.sum + Sum(usage, groups, @.asof..LastDay)]]
  /\ UNCHANGED <<spendVars, nightVars, cached>>

\* the background refresh goes on like a caller
Store_ForAll(r) ==
  /\ call[r].at = "store"
  /\ cached' = [total |-> call[r].sum, asof |-> call[r].asof, stale |-> FALSE]
  /\ Judge(r, call[r].group, call[r].sum)
  /\ UNCHANGED <<spendVars, nightVars>>

(* The total is cached, or the write fails and is swallowed; a caller that *)
(* waited for it is judged by it.                                          *)
Store(r) ==
  /\ call[r].at = "store"
  /\ cached' \in {cached, [total |-> call[r].sum, asof |-> call[r].asof, stale |-> FALSE]}
  /\ IF r = Refresher THEN Refuse(r) ELSE Judge(r, call[r].group, call[r].sum)
  /\ UNCHANGED <<spendVars, nightVars>>

(* A database error fails open for a caller and is logged for the refresh. *)
QueryFails(r) ==
  /\ call[r].at \in {"query", "live"}
  /\ IF r = Refresher THEN Refuse(r) ELSE Admit(r, call[r].group)
  /\ UNCHANGED <<spendVars, nightVars, cached>>

-----------------------------------------------------------------------------
(* The provider's answer and its accounting row.                           *)

Complete(c) ==
  /\ call[c].at = "provider"
  /\ SpentSince(0) + Cardinality({d \in Calls : call[d].at = "persist"}) < MaxSpent
  /\ call' = [call EXCEPT ![c] = [at |-> "persist", group |-> @.group]]
  /\ UNCHANGED <<spendVars, nightVars, cached>>

ProviderFails(c) ==
  /\ call[c].at = "provider"
  /\ call' = [call EXCEPT ![c] = Idle]
  /\ UNCHANGED <<spendVars, nightVars, cached>>

(* _persist: created_at is the day of the insert; a failed insert, or one  *)
(* for a group that is gone, is swallowed.                                 *)
Persist(c) ==
  /\ call[c].at = "persist"
  /\ usage' \in {usage} \cup {[usage EXCEPT ![<<call[c].group, today>>] = @ + 1] :
                                g \in {call[c].group} \cap groups}
  /\ spent' = [spent EXCEPT ![today] = @ + 1]
  /\ call' = [call EXCEPT ![c] = Idle]
  /\ UNCHANGED <<groups, daily, nightVars, cached>>

(* A process that starts has no call and no refresh under way.             *)
Restart ==
  /\ call' = [r \in Readers |-> Idle]
  /\ UNCHANGED <<spendVars, nightVars, cached>>

-----------------------------------------------------------------------------
(* The world around: clocks, cache, groups, and the worker's rollup.       *)

GoStale ==
  /\ cached # None /\ ~cached.stale
  /\ cached' = [cached EXCEPT !.stale = TRUE]
  /\ UNCHANGED <<spendVars, nightVars, call>>

Expire ==
  /\ cached # None /\ cached' = None
  /\ UNCHANGED <<spendVars, nightVars, call>>

Midnight ==
  /\ today < LastDay
  /\ today' = today + 1 /\ rolled' = 0
  /\ UNCHANGED <<spendVars, complete, call, cached>>

\* only the day that has just begun is rolled up
RolledDay_TodayOnly == today

(* rollup_llm_costs: yesterday, then today, each one idempotent upsert.  A *)
(* worker that is down at that hour, or fails between the two, skips them. *)
RolledDay == today - (1 - rolled)

RollUp ==
  /\ rolled < 2
  /\ rolled' = rolled + 1
  /\ IF rolled = 0 /\ today = 0
       THEN UNCHANGED <<daily, complete>>
       ELSE /\ daily' = [gd \in DOMAIN daily |->
                           IF gd[2] = RolledDay /\ usage[gd] > 0 THEN usage[gd] ELSE daily[gd]]
            /\ complete' = IF rolled = 0 THEN complete \cup {today - 1} ELSE complete
  /\ UNCHANGED <<groups, usage, spent, today, call, cached>>

(* The owner's /leave takes the group's usage with it; its daily costs     *)
(* have no foreign key, but the budget's join no longer sees them.         *)
ForgetGroup(g) ==
  /\ g \in groups
  /\ groups' = groups \ {g}
  /\ usage' = [gd \in DOMAIN usage |-> IF gd[1] = g THEN 0 ELSE usage[gd]]
  /\ UNCHANGED <<daily, spent, nightVars, call, cached>>

Ensure(g) ==
  /\ g \notin groups
  /\ groups' = groups \cup {g}
  /\ UNCHANGED <<usage, daily, spent, nightVars, call, cached>>

Next ==
  \/ \E c \in Calls, g \in Groups : CheckCached(c, g) \/ CheckEmpty(c, g) \/ CheckFails(c, g)
  \/ \E r \in Readers : QueryRolledUp(r) \/ QueryLive(r) \/ Store(r) \/ QueryFails(r)
  \/ \E c \in Calls : Complete(c) \/ ProviderFails(c) \/ Persist(c)
  \/ Restart \/ GoStale \/ Expire \/ Midnight \/ RollUp
  \/ \E g \in Groups : ForgetGroup(g) \/ Ensure(g)

Spec == Init /\ [][Next]_vars

-----------------------------------------------------------------------------
(* A total that calls are refused by is money really spent: never more     *)
(* than the provider charged since the first day of the month the total    *)
(* was computed in, whatever rollups, midnights and failures came between  *)
(* the statements it is made of (budget.py:141-188).                       *)
NeverOverstated ==
  /\ cached # None => cached.total <= SpentSince(MonthStart(cached.asof))
  /\ \A r \in Readers :
       call[r].at = "store" => call[r].sum <= SpentSince(MonthStart(call[r].asof))

(* Once the nights of the month have been rolled up, the budget's query    *)
(* misses no recorded completion of the month: what came late on one day   *)
(* is in the next night's second pass (main.py:110-126).                   *)
NothingUncounted ==
  LET month == MonthStart(today)..(today - 1)
  IN month \subseteq complete =>
       Sum(daily, groups, month) + Sum(usage, groups, {today})
         >= Sum(usage, groups, month \cup {today})
=============================================================================
