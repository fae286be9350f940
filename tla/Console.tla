------------------------------ MODULE Console -------------------------------
(***************************************************************************)
(* How a group's settings and texts are changed and what the audit trail   *)
(* says of it: the Mini App's PATCH and PUT (cb_api/routers/groups.py),    *)
(* the reply to a prompt of the /config menu (handlers/config_menu.py),    *)
(* /newrules and /newwelcome (handlers/rules.py, welcome.py), the language *)
(* the bot takes on when it is added (handlers/setlang.py), and            *)
(* audit.record.  Menus and prompts are messages and no state of the bot:  *)
(* a reply is taken by the text it answers.  ConfigCache tells how old a   *)
(* copy can be; here a read through the caches may give any row there was. *)
(***************************************************************************)
EXTENDS Naturals, Sequences, Functions

CONSTANTS People,      \* whoever a request is from
          Columns,     \* settings of group_configs
          Rules,       \* the text of group_rules (group_welcomes is alike)
          Values,
          Default,     \* what a setting reads as when the row cannot be read, and
                       \* a text that nobody has set or that cannot be read
          Requests,    \* requests being served at once
          MaxWrites

ConsoleAssumption == Rules \notin Columns /\ Default \in Values /\ MaxWrites \in Nat

Fields == Columns \cup {Rules}
Settings == [Fields -> Values]
Patches == UNION {[fields -> Values] : fields \in (SUBSET Columns) \ {{}}}
Texts == [{Rules} -> Values]
Idle == [at |-> "idle"]

VARIABLES versions, \* every content the rows of the group have had, the last is current
          request,  \* what each request is doing
          trail,    \* group_audit_events
          lost,     \* cb_audit_write_failures_total
          silent    \* history: versions whose request ended without a word in
                    \* the trail, the log or an error, with what it had read

vars == <<versions, request, trail, lost, silent>>

Now == versions[Len(versions)]
On(row, fields) == Restrict(row, fields)
Unread == [f \in Fields |-> Default]

TypeOK ==
  /\ versions \in Seq(Settings) /\ Len(versions) \in 1..(MaxWrites + 1)
  /\ \A t \in Requests : request[t].at \in {"idle", "before", "glance", "write", "after", "record"}
  /\ lost \in 0..MaxWrites

Init ==
  /\ versions = <<Unread>>
  /\ request = [t \in Requests |-> Idle]
  /\ trail = {} /\ lost = 0 /\ silent = {}

-----------------------------------------------------------------------------
\* The request arrives, past an admin check where its handler has one. Until it
\* has read, `before' and `after' stand for nothing: the content there always was.
Begin(t, who, how, change, at) ==
  /\ request[t] = Idle
  /\ request' = [request EXCEPT ![t] =
       [at |-> at, who |-> who, how |-> how, change |-> change,
        before |-> versions[1], mine |-> 0, after |-> versions[1], doubt |-> {}]]
  /\ UNCHANGED <<versions, trail, lost, silent>>

UpdateConfig(t, who) == \E change \in Patches : Begin(t, who, "patch", change, "before")
WriteRules(t, who) == \E change \in Texts : Begin(t, who, "text", change, "before")
CaptureNewRules(t, who) == \E change \in Texts : Begin(t, who, "text", change, "glance")

\* A reply to anything that reads like a prompt, today or next month, from
\* whoever sent it: the admin check was the menu's, and is not made again. An
\* unreadable value is refused on the spot.
ApplyReply(t, who, c) == \E change \in [{c} -> Values] : Begin(t, who, "menu", change, "before")

Goes(t, to) == request' = [request EXCEPT ![t] = to]

\* get_config through the caches: some row there was, or the defaults when the
\* database does not answer.
CachedReads == {[row |-> versions[i], misread |-> FALSE] : i \in DOMAIN versions}
                 \cup {[row |-> Unread, misread |-> TRUE]}

\* `before`: the setting through the caches, the text from its table.
ReadBefore(t) ==
  /\ request[t].at = "before"
  /\ IF request[t].how = "text" THEN Goes(t, [request[t] EXCEPT !.at = "write", !.before = Now])
     ELSE \E read \in CachedReads :
            Goes(t, [request[t] EXCEPT !.at = "write", !.before = read.row,
                                       !.doubt = IF read.misread THEN {"before"} ELSE {}])
  /\ UNCHANGED <<versions, trail, lost, silent>>

\* In the chat the old text is best effort: one that cannot be read is quoted as
\* none, and the write goes on.
ReadBestEffort(t) ==
  /\ request[t].at = "glance"
  /\ \/ Goes(t, [request[t] EXCEPT !.at = "write", !.before = Now])
     \/ Goes(t, [request[t] EXCEPT !.at = "write", !.before = Unread, !.doubt = {"before"}])
  /\ UNCHANGED <<versions, trail, lost, silent>>

\* The upsert names the fields of the request and no other.
Write(t) ==
  /\ request[t].at = "write" /\ Len(versions) <= MaxWrites
  /\ versions' = Append(versions, [f \in Fields |->
       IF f \in DOMAIN request[t].change THEN request[t].change[f] ELSE Now[f]])
  /\ Goes(t, [request[t] EXCEPT !.at = IF request[t].how = "text" THEN "record" ELSE "after",
                                !.mine = Len(versions) + 1])
  /\ UNCHANGED <<trail, lost, silent>>

\* Mutant of WriteFails: the failure is logged and the request goes on.
WriteFails_GoesOn(t) ==
  /\ request[t].at \in {"before", "write"}
  /\ Goes(t, [request[t] EXCEPT !.at = "record", !.mine = Len(versions),
                !.after = [f \in Fields |-> IF f \in DOMAIN request[t].change
                                            THEN request[t].change[f] ELSE @[f]]])
  /\ UNCHANGED <<versions, trail, lost, silent>>

\* The write fails: a 500, or "could not save the setting" in the chat.
WriteFails(t) ==
  /\ request[t].at \in {"before", "write"}
  /\ Goes(t, Idle)
  /\ UNCHANGED <<versions, trail, lost, silent>>

\* set_config reads its own write back, or a later one, or whatever there is
\* when Valkey or the database fail it.
ReadBack(t) ==
  /\ request[t].at = "after"
  /\ \/ \E i \in request[t].mine..Len(versions) :
          Goes(t, [request[t] EXCEPT !.at = "record", !.after = versions[i]])
     \/ \E read \in CachedReads :
          Goes(t, [request[t] EXCEPT !.at = "record", !.after = read.row, !.doubt = @ \cup {"after"}])
  /\ UNCHANGED <<versions, trail, lost, silent>>

\* What the row will quote: all settings that differ for the Mini App, the one
\* that was named for the menu, the text whatever it was.
Changed(r) ==
  CASE r.how = "text" -> {Rules}
    [] r.how = "menu" -> {f \in DOMAIN r.change : r.before[f] # r.after[f]}
    [] r.how = "patch" -> {f \in Columns : r.before[f] # r.after[f]}

RowOf(r) ==
  [who |-> r.who, mine |-> r.mine, doubt |-> r.doubt, before |-> On(r.before, Changed(r)),
   after |-> IF r.how = "text" THEN r.change ELSE On(r.after, Changed(r))]

Record(t) ==
  /\ request[t].at = "record"
  /\ IF Changed(request[t]) = {}
     THEN /\ silent' = silent \cup {[mine |-> request[t].mine, change |-> request[t].change,
                                     before |-> request[t].before, after |-> request[t].after,
                                     doubt |-> request[t].doubt]}
          /\ UNCHANGED <<trail, lost>>
     ELSE /\ UNCHANGED silent
          /\ \/ trail' = trail \cup {RowOf(request[t])} /\ UNCHANGED lost
             \/ lost' = lost + 1 /\ UNCHANGED trail
  /\ Goes(t, Idle)
  /\ UNCHANGED versions

\* The process stops with the request in hand.
Die(t) ==
  /\ request[t] # Idle
  /\ Goes(t, Idle)
  /\ UNCHANGED <<versions, trail, lost, silent>>

\* The bot is added to a group that was there before: set_config, and no row.
JoinLanguage ==
  /\ Len(versions) <= MaxWrites
  /\ \E c \in Columns, v \in Values : versions' = Append(versions, [Now EXCEPT ![c] = v])
  /\ UNCHANGED <<request, trail, lost, silent>>

Next ==
  \/ \E t \in Requests, who \in People :
       \/ UpdateConfig(t, who) \/ WriteRules(t, who) \/ CaptureNewRules(t, who)
       \/ \E c \in Columns : ApplyReply(t, who, c)
  \/ \E t \in Requests :
       \/ ReadBefore(t) \/ ReadBestEffort(t) \/ Write(t) \/ WriteFails(t) \/ ReadBack(t)
       \/ Record(t) \/ Die(t)
  \/ JoinLanguage

Spec == Init /\ [][Next]_vars

-----------------------------------------------------------------------------
\* "Rows are evidence" (cb_core/audit.py): a row quotes what the group really had,
\* before, if that could be read, and from its own request's write on, if that
\* could be read back (of a text always); and a change of which the trail says
\* nothing, where no read failed, was made by a request that had read an older
\* row, or whose change was overwritten before it read it back.
TrailIsEvidence ==
  /\ \A r \in trail :
       /\ "after" \notin r.doubt =>
            \E i \in r.mine..Len(versions) : r.after = On(versions[i], DOMAIN r.after)
       /\ "before" \notin r.doubt =>
            \E i \in 1..Len(versions) : r.before = On(versions[i], DOMAIN r.before)
  /\ \A s \in silent : s.mine > 1 /\ s.doubt = {} =>
       \/ versions[s.mine] = versions[s.mine - 1]
       \/ s.before # versions[s.mine - 1] \/ s.after # versions[s.mine]
=============================================================================
