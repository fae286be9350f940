----------------------------- MODULE Cooldowns ------------------------------
(***************************************************************************)
(* The rate limiters: TokenBucket, SlidingWindow and QuotaLedger of        *)
(* cb_core/cooldowns.py and the fixed window that all gateways share in    *)
(* Valkey (cache.incr_window, as handlers/stickerspam.py counts with it).  *)
(* Each is stepped by calls at times that do not decrease and compared     *)
(* with the calls themselves.                                              *)
(***************************************************************************)
EXTENDS Naturals, Sequences, FiniteSets

CONSTANTS Kinds,    \* the limiters that are looked at
          Limit,    \* capacity, limit of a window, daily quota
          Rate,     \* tokens per tick
          Window,   \* length of a window, and of a day
          Keys,     \* users the ledger knows
          MaxTime, MaxCalls

CooldownAssumption == {Limit, Rate, Window, MaxTime, MaxCalls} \subseteq Nat /\ Limit > 0 /\ Window > 0

VARIABLES kind,    \* the limiter at hand
          now,
          tokens, last,  \* TokenBucket
          stamps,        \* SlidingWindow
          used, day,     \* QuotaLedger
          count, expiry, \* the key in Valkey
          answer,        \* what the last call returned
          calls          \* history: [at, key, ok] of every call

vars == <<kind, now, tokens, last, stamps, used, day, count, expiry, answer, calls>>

TypeOK ==
  /\ kind \in Kinds /\ now \in 0..MaxTime
  /\ tokens \in 0..Limit /\ last \in 0..MaxTime
  /\ stamps \in Seq(0..MaxTime) /\ Len(stamps) <= 4 * Limit
  /\ used \in [Keys -> 0..Limit] /\ count \in 0..MaxCalls
  /\ \A i \in DOMAIN calls : calls[i] \in [at : 0..MaxTime, key : Keys, ok : BOOLEAN]

Init ==
  /\ kind \in Kinds /\ now = 0 /\ calls = <<>> /\ answer = 0
  /\ tokens = Limit /\ last = 0
  /\ stamps = <<>>
  /\ used = [k \in Keys |-> 0] /\ day = 0
  /\ count = 0 /\ expiry = 0

-----------------------------------------------------------------------------
Called(k, ok) == /\ Len(calls) < MaxCalls
                 /\ calls' = Append(calls, [at |-> now, key |-> k, ok |-> ok])
Least(a, b) == IF a < b THEN a ELSE b

\* TokenBucket.allow, at a cost of one.
Allow(k) ==
  /\ kind = "bucket"
  /\ LET filled == Least(tokens + (now - last) * Rate, Limit) IN
       /\ last' = now
       /\ tokens' = IF filled >= 1 THEN filled - 1 ELSE filled
       /\ Called(k, filled >= 1)
  /\ UNCHANGED <<kind, now, stamps, used, day, count, expiry, answer>>

\* Mutant of Old: the stamp exactly a window ago is kept.
Old_AtTheEdge(s) == s + Window < now

\* At or before the cutoff of a call that comes now.
Old(s) == s + Window <= now

\* The stamps that are left: the loop stops at the first that is not old.
Drop ==
  CHOOSE n \in 0..Len(stamps) :
    (\A i \in 1..n : Old(stamps[i])) /\ (n < Len(stamps) => ~Old(stamps[n + 1]))
Recent == SubSeq(stamps, Drop + 1, Len(stamps))

\* SlidingWindow.hit, capped at four times the limit.
Hit(k) ==
  /\ kind = "window"
  /\ LET all == Append(Recent, now)
         kept == IF Len(all) > 4 * Limit THEN SubSeq(all, Len(all) - 4 * Limit + 1, Len(all)) ELSE all
     IN stamps' = kept /\ answer' = Len(kept) /\ Called(k, Len(kept) <= Limit)
  /\ UNCHANGED <<kind, now, tokens, last, used, day, count, expiry>>

\* QuotaLedger.take; a new day empties it for everybody.
Take(k) ==
  /\ kind = "ledger" /\ day' = now \div Window
  /\ LET base == IF day' # day THEN [u \in Keys |-> 0] ELSE used IN
       /\ used' = IF base[k] + 1 > Limit THEN base ELSE [base EXCEPT ![k] = @ + 1]
       /\ Called(k, base[k] + 1 <= Limit)
  /\ UNCHANGED <<kind, now, tokens, last, stamps, count, expiry, answer>>

\* INCR and EXPIRE ... NX in one transaction: only the first call of a window
\* sets its end.  A count equal to the limit warns, one above it deletes.
Bump(k) ==
  /\ kind = "valkey"
  /\ LET fresh == count = 0 \/ expiry <= now IN
       /\ count' = IF fresh THEN 1 ELSE count + 1
       /\ expiry' = IF fresh THEN now + Window ELSE expiry
       /\ answer' = count'
       /\ Called(k, count' <= Limit)
  /\ UNCHANGED <<kind, now, tokens, last, stamps, used, day>>

Tick ==
  /\ now < MaxTime
  /\ now' = now + 1
  /\ UNCHANGED <<kind, tokens, last, stamps, used, day, count, expiry, answer, calls>>

Next == Tick \/ \E k \in Keys : Allow(k) \/ Hit(k) \/ Take(k) \/ Bump(k)

Spec == Init /\ [][Next]_vars

-----------------------------------------------------------------------------
Granted(P(_)) == Cardinality({i \in DOMAIN calls : calls[i].ok /\ P(calls[i])})
Made(P(_)) == Cardinality({i \in DOMAIN calls : P(calls[i])})

\* What each limiter promises, told by the calls alone: a bucket never grants
\* more than a full bucket and what flowed in meanwhile, over any stretch of
\* time; a sliding window counts the calls of the last Window ticks, no more
\* and no fewer; a ledger grants a user no more than the quota on any day; the
\* shared window refuses nobody but those who come within Window of one it let
\* pass, however the flood goes on.
LimitsHold ==
  /\ kind = "bucket" => \A s, e \in 0..MaxTime : s <= e =>
       Granted(LAMBDA c : c.at \in s..e) <= Limit + (e - s) * Rate
  /\ kind = "window" /\ calls # <<>> =>
       answer = Least(4 * Limit, Made(LAMBDA c : c.at + Window > calls[Len(calls)].at))
  /\ kind = "ledger" => \A k \in Keys, d \in 0..(MaxTime \div Window) :
       Granted(LAMBDA c : c.key = k /\ c.at \div Window = d) <= Limit
  /\ kind = "valkey" =>
       /\ \A s \in 0..MaxTime : Granted(LAMBDA c : c.at \in s..(s + Window - 1)) <= 2 * Limit
       /\ \A i \in DOMAIN calls : ~calls[i].ok =>
            \E j \in 1..i : calls[j].ok /\ calls[j].at + Window > calls[i].at
=============================================================================
