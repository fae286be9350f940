--------------------------- MODULE ExportAccount ---------------------------
(***************************************************************************)
(* gcs-auth provision and revoke: the temporary service account that reads *)
(* v1's bucket on cutover day (bucket_export/gcp_auth.py, gcp_auth_cli.py). *)
(* Two policies are read, changed and written back whole while other teams *)
(* write the bucket's; a new account and a new grant take time to be seen; *)
(* any call may fail, and the operator may kill the command at any point.  *)
(***************************************************************************)
EXTENDS Naturals, FiniteSets

CONSTANTS Operators,   \* people at a terminal, one command each
          Accounts,    \* export_account_id of a stamp: one per second
          Teams,       \* principals whose bindings are none of our business
          GrantTries,  \* _PROPAGATION_RETRY_ATTEMPTS (6)
          VerifyTries, \* _IMPERSONATION_RETRY_ATTEMPTS (10)
          MaxEdits,    \* bound on the other teams' writes of the policy
          NoAccount

ExportAssumption ==
  /\ GrantTries \in Nat \ {0} /\ VerifyTries \in Nat \ {0} /\ MaxEdits \in Nat
  /\ NoAccount \notin Accounts

VARIABLES accounts,  \* service accounts that exist
          seen,      \* those Cloud Storage knows of
          granted,   \* tokenCreator bindings: <<account, operator>>
          effective, \* those that already let the operator impersonate
          policy,    \* the bucket's: [etag, readers, teams]
          cmd,       \* what each terminal is running
          stamps,    \* stamps that were used
          foreign,   \* history: the bindings the other teams last asked for
          ready,     \* history: <<account, operator>> of a provision that exited 0 and that
                      \* nobody has begun to revoke
          revoked,   \* history: accounts of a revoke that exited 0
          elsewhere  \* history: accounts that are there, and that a revoke which was
                      \* run under another project has called "already gone"

vars == <<accounts, seen, granted, effective, policy, cmd, stamps, foreign,
          ready, revoked, elsewhere>>

Idle == [at |-> "idle"]
Policies == [etag : Nat, readers : SUBSET Accounts, teams : SUBSET Teams]
Provisioning == {"create", "read", "write", "grant", "verify", "key"}
Revoking == {"look", "unbind", "delete"}

TypeOK ==
  /\ accounts \subseteq Accounts /\ seen \subseteq Accounts
  /\ effective \subseteq granted /\ granted \subseteq accounts \X Operators
  /\ policy \in Policies
  /\ cmd \in [Operators -> {Idle} \cup
       [at : Provisioning \cup Revoking, acct : Accounts, tries : Nat,
        read : Policies, key : BOOLEAN]]
  /\ stamps \subseteq Accounts /\ accounts \subseteq stamps
  /\ foreign \subseteq Teams
  /\ ready \subseteq Accounts \X Operators /\ revoked \subseteq Accounts
  /\ elsewhere \subseteq accounts

Init ==
  /\ accounts = {} /\ seen = {} /\ granted = {} /\ effective = {}
  /\ policy = [etag |-> 0, readers |-> {}, teams |-> {}]
  /\ cmd = [o \in Operators |-> Idle]
  /\ stamps = {} /\ foreign = {} /\ ready = {} /\ revoked = {} /\ elsewhere = {}

Goto(o, step) == cmd' = [cmd EXCEPT ![o].at = step]
Exit(o) == cmd' = [cmd EXCEPT ![o] = Idle]
At(o, step) == cmd[o].at = step
Acct(o) == cmd[o].acct
InUse(a) == \E o \in Operators : cmd[o] # Idle /\ Acct(o) = a

-----------------------------------------------------------------------------
(* Google's side: replication, and the other teams' edits.                 *)

Propagate(a) ==
  /\ seen' = IF a \in accounts THEN seen \cup {a} ELSE seen \ {a}
  /\ seen' # seen
  /\ UNCHANGED <<accounts, granted, effective, policy, cmd, stamps, foreign, ready,
                 revoked, elsewhere>>

TakeEffect(grant) ==
  /\ grant \in granted \ effective
  /\ effective' = effective \cup {grant}
  /\ UNCHANGED <<accounts, seen, granted, policy, cmd, stamps, foreign, ready,
                 revoked, elsewhere>>

\* The etag does not survive the rewriting of the bindings.
SetIamPolicy_NoEtag(old, new) ==
  policy' = [new EXCEPT !.etag = policy.etag + 1]

\* setIamPolicy with the etag of the policy that was read: a policy written
\* in between refuses it.
SetIamPolicy(old, new) ==
  /\ old.etag = policy.etag
  /\ policy' = [new EXCEPT !.etag = policy.etag + 1]

EditPolicy(teams) ==
  /\ policy.etag < MaxEdits /\ teams # policy.teams
  /\ SetIamPolicy(policy, [policy EXCEPT !.teams = teams])
  /\ foreign' = teams
  /\ UNCHANGED <<accounts, seen, granted, effective, cmd, stamps, ready,
                 revoked, elsewhere>>

\* Somebody deletes a left-over account in the console.
DeleteByHand(a) ==
  /\ a \in accounts /\ ~InUse(a)
  /\ accounts' = accounts \ {a}
  /\ granted' = {g \in granted : g[1] # a}
  /\ effective' = {g \in effective : g[1] # a}
  /\ ready' = {r \in ready : r[1] # a}
  /\ elsewhere' = elsewhere \ {a}
  /\ UNCHANGED <<seen, policy, cmd, stamps, foreign, revoked>>

-----------------------------------------------------------------------------
(* gcs-auth provision                                                      *)

\* resolve_operator_context: a credential, the operator's address (from the
\* file, else from the userinfo endpoint) and a project (the flag, else ADC's).
Context(flags, adc) ==
  [authenticated |-> adc.login,
   operator |-> flags.operator \/ adc.fileEmail \/ (adc.login /\ adc.userinfo),
   project |-> flags.project \/ (adc.login /\ adc.project)]

Flags == [operator : BOOLEAN, project : BOOLEAN, dryRun : BOOLEAN,
          confirmed : BOOLEAN, key : BOOLEAN]
Adc == [login : BOOLEAN, fileEmail : BOOLEAN, userinfo : BOOLEAN, project : BOOLEAN]

\* What has to hold before the first call that changes anything.
MayProvision(flags, adc) ==
  LET context == Context(flags, adc)
  IN  /\ ~flags.dryRun /\ flags.confirmed
      /\ context.authenticated /\ context.operator /\ context.project

Provision(o, a) ==
  /\ cmd[o] = Idle
  /\ a \in stamps => \E p \in Operators : At(p, "create") /\ Acct(p) = a
  /\ \E flags \in Flags, adc \in Adc :
       /\ MayProvision(flags, adc)
       /\ cmd' = [cmd EXCEPT ![o] = [at |-> "create", acct |-> a, tries |-> 1,
                                     read |-> policy, key |-> flags.key]]
  /\ stamps' = stamps \cup {a}
  /\ UNCHANGED <<accounts, seen, granted, effective, policy, foreign, ready,
                 revoked, elsewhere>>

\* _create_service_account: one call; a second command of the same second is
\* refused, and an answer may be lost after the account was made.
Create(o) ==
  /\ At(o, "create")
  /\ IF Acct(o) \in accounts
     THEN Exit(o) /\ UNCHANGED accounts
     ELSE /\ accounts' = accounts \cup {Acct(o)}
          /\ Goto(o, "read") \/ Exit(o)
  /\ UNCHANGED <<seen, granted, effective, policy, stamps, foreign, ready,
                 revoked, elsewhere>>

\* _grant_bucket_role, every attempt of which reads the policy afresh.
ReadPolicy(o) ==
  /\ At(o, "read")
  /\ cmd' = [cmd EXCEPT ![o].at = "write", ![o].read = policy]
  /\ UNCHANGED <<accounts, seen, granted, effective, policy, stamps, foreign, ready,
                 revoked, elsewhere>>

AddBucketBinding(read, a) == [read EXCEPT !.readers = @ \cup {a}]

\* The only error that is retried is the one that says the account is unknown;
\* a write whose answer is lost, or that loses to another, ends the command.
WritePolicy(o) ==
  /\ At(o, "write")
  /\ \/ /\ Acct(o) \in seen
        /\ SetIamPolicy(cmd[o].read, AddBucketBinding(cmd[o].read, Acct(o)))
        /\ Goto(o, "grant") \/ Exit(o)
     \/ /\ Acct(o) \notin seen /\ cmd[o].tries < GrantTries
        /\ cmd' = [cmd EXCEPT ![o].at = "read", ![o].tries = @ + 1]
        /\ UNCHANGED policy
  /\ UNCHANGED <<accounts, seen, granted, effective, stamps, foreign, ready,
                 revoked, elsewhere>>

\* _grant_token_creator, on the account's own policy.
GrantTokenCreator(o) ==
  /\ At(o, "grant") /\ Acct(o) \in accounts
  /\ granted' = granted \cup {<<Acct(o), o>>}
  /\ \/ cmd' = [cmd EXCEPT ![o].at = "verify", ![o].tries = 1]
     \/ Exit(o)
  /\ UNCHANGED <<accounts, seen, effective, policy, stamps, foreign, ready,
                 revoked, elsewhere>>

\* A grant that answered 200 is taken to be in effect.
Probe_Trusting(o) ==
  /\ At(o, "verify")
  /\ IF cmd[o].key THEN Goto(o, "key") /\ UNCHANGED ready
     ELSE Exit(o) /\ ready' = ready \cup {<<Acct(o), o>>}
  /\ UNCHANGED <<accounts, seen, granted, effective, policy, stamps, foreign,
                 revoked, elsewhere>>

\* verify_impersonation polls; a budget that runs out is remembered until the
\* key, if one was asked for, is written.
Probe(o) ==
  /\ At(o, "verify")
  /\ \/ /\ <<Acct(o), o>> \in effective
        /\ IF cmd[o].key THEN Goto(o, "key") /\ UNCHANGED ready
           ELSE Exit(o) /\ ready' = ready \cup {<<Acct(o), o>>}
     \/ /\ <<Acct(o), o>> \notin effective /\ cmd[o].tries < VerifyTries
        /\ cmd' = [cmd EXCEPT ![o].tries = @ + 1] /\ UNCHANGED ready
     \/ /\ <<Acct(o), o>> \notin effective /\ cmd[o].tries = VerifyTries
        /\ Exit(o) /\ UNCHANGED ready
  /\ UNCHANGED <<accounts, seen, granted, effective, policy, stamps, foreign,
                 revoked, elsewhere>>

CreateKey(o) ==
  /\ At(o, "key") /\ Acct(o) \in accounts
  /\ Exit(o) /\ ready' = ready \cup {<<Acct(o), o>>}
  /\ UNCHANGED <<accounts, seen, granted, effective, policy, stamps, foreign,
                 revoked, elsewhere>>

-----------------------------------------------------------------------------
(* gcs-auth revoke, of an account whose provision is over.                 *)

Revoke(o, a) ==
  /\ cmd[o] = Idle /\ a \in stamps /\ ~ \E p \in Operators :
       cmd[p] # Idle /\ Acct(p) = a /\ cmd[p].at \in Provisioning
  /\ cmd' = [cmd EXCEPT ![o] = [at |-> "look", acct |-> a, tries |-> 1,
                                read |-> policy, key |-> FALSE]]
  /\ ready' = {r \in ready : r[1] # a}
  /\ UNCHANGED <<accounts, seen, granted, effective, policy, stamps, foreign,
                 revoked, elsewhere>>

\* A missing account is "already revoked", its binding is not looked at.
LookForBinding_OnlyIfAlive(o) ==
  /\ At(o, "look")
  /\ cmd' = [cmd EXCEPT ![o].read = policy,
       ![o].at = IF Acct(o) \in policy.readers \cap accounts THEN "unbind" ELSE "delete"]
  /\ UNCHANGED <<accounts, seen, granted, effective, policy, stamps, foreign, ready,
                 revoked, elsewhere>>

\* _remove_bucket_binding: nothing is written when the member is not there.
LookForBinding(o) ==
  /\ At(o, "look")
  /\ cmd' = [cmd EXCEPT ![o].read = policy,
       ![o].at = IF Acct(o) \in policy.readers THEN "unbind" ELSE "delete"]
  /\ UNCHANGED <<accounts, seen, granted, effective, policy, stamps, foreign, ready,
                 revoked, elsewhere>>

Unbind(o) ==
  /\ At(o, "unbind")
  /\ SetIamPolicy(cmd[o].read, [cmd[o].read EXCEPT !.readers = @ \ {Acct(o)}])
  /\ Goto(o, "delete") \/ Exit(o)
  /\ UNCHANGED <<accounts, seen, granted, effective, stamps, foreign, ready,
                 revoked, elsewhere>>

\* _delete_service_account, in the project of the flag or of the operator's own
\* credential: the grants go with the account; a 404, which is also what any
\* project but the account's own answers, is a success.
DeleteAccount(o) ==
  /\ At(o, "delete") /\ Exit(o)
  /\ \/ /\ accounts' = accounts \ {Acct(o)}
        /\ granted' = {g \in granted : g[1] # Acct(o)}
        /\ effective' = {g \in effective : g[1] # Acct(o)}
        /\ elsewhere' = elsewhere \ {Acct(o)}
        /\ revoked' = revoked \cup {Acct(o)} \/ UNCHANGED revoked
     \/ /\ elsewhere' = elsewhere \cup ({Acct(o)} \cap accounts)
        /\ revoked' = revoked \cup {Acct(o)}
        /\ UNCHANGED <<accounts, granted, effective>>
  /\ UNCHANGED <<seen, policy, stamps, foreign, ready>>

\* Any call of either command raises, or the operator kills it.
Fail(o) ==
  /\ cmd[o] # Idle
  /\ Exit(o)
  /\ UNCHANGED <<accounts, seen, granted, effective, policy, stamps, foreign, ready,
                 revoked, elsewhere>>

Next ==
  \/ \E a \in Accounts : Propagate(a) \/ DeleteByHand(a)
  \/ \E grant \in granted : TakeEffect(grant)
  \/ \E teams \in SUBSET Teams : EditPolicy(teams)
  \/ \E o \in Operators, a \in Accounts : Provision(o, a) \/ Revoke(o, a)
  \/ \E o \in Operators :
       \/ Create(o) \/ ReadPolicy(o) \/ WritePolicy(o) \/ GrantTokenCreator(o)
       \/ Probe(o) \/ CreateKey(o)
       \/ LookForBinding(o) \/ Unbind(o) \/ DeleteAccount(o)
       \/ Fail(o)

Spec == Init /\ [][Next]_vars

-----------------------------------------------------------------------------
\* No write of ours drops or revives a binding of another team, however the
\* reads and writes of the bucket's policy interleave (_add_bucket_binding,
\* _remove_bucket_binding, set_iam_policy).
NothingDropped == policy.teams = foreign

\* After provision has exited 0 the operator can impersonate the account and
\* the account can read the bucket, until somebody sets out to remove it: no
\* other command and no replication delay takes it back (verify_impersonation).
ReadyIsUsable ==
  \A r \in ready :
    r[1] \in accounts /\ r[1] \in policy.readers /\ r \in effective

\* An account that revoke has reported removed is not bound to the bucket the
\* report names, and it is gone, unless the report is of a run under another
\* project than the account's, to which an account in place is "already gone"
\* (gcp_auth.py:786-788): whatever earlier attempts, failures and hands did to
\* either half.
RevokedIsGone ==
  \A a \in revoked : a \notin policy.readers /\ a \notin accounts \ elsewhere
=============================================================================
