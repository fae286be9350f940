---------------------------- MODULE SessionChain ----------------------------
(***************************************************************************)
(* What a client may rely on about one signed-in session of the Mini App   *)
(* API, whatever the database rows and the concurrent requests behind it   *)
(* look like.  A refresh-token family is one session: it is opened once,   *)
(* it holds at most one spendable token or one renewal in progress, and    *)
(* once it has neither it never comes back.  Module Sessions implements    *)
(* this with rows, UPDATE predicates and racing requests.                  *)
(***************************************************************************)
CONSTANT Families          \* refresh_tokens.family_id values

VARIABLE status            \* what each family is, seen from outside

Status == {"unborn", "live", "renewing", "dead"}

TypeOK == status \in [Families -> Status]

Init == status = [f \in Families |-> "unborn"]

Move(f, from, to) ==
  /\ status[f] \in from
  /\ status' = [status EXCEPT ![f] = to]

Open(f)  == Move(f, {"unborn"}, "live")              \* a Telegram grant
Spend(f) == Move(f, {"live"}, "renewing")            \* a token is redeemed
Renew(f) == Move(f, {"renewing"}, "live")            \* its successor is issued
End(f)   == Move(f, {"live", "renewing"}, "dead")    \* revoked, replayed, or a renewal that failed

Next == \E f \in Families : Open(f) \/ Spend(f) \/ Renew(f) \/ End(f)

Spec == Init /\ [][Next]_status

=============================================================================
