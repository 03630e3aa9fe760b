------------------------------ MODULE TokenLedger ------------------------------
(***************************************************************************)
(* The monthly token budget of one workspace: the check QuotaGovernor makes *)
(* before a request is served, the durable counters UsageRepository keeps   *)
(* of what was spent, and their reconciliation with the usage records.  The *)
(* counters are those of the workspace and of each of its users, one for    *)
(* each month; the check reads them through a Redis key that lives for a    *)
(* minute, that the recording never touches and that does not say of which  *)
(* month its number is.  The counts of queries move with the tokens and are *)
(* left out.                                                                *)
(***************************************************************************)
EXTENDS Naturals, FiniteSets

CONSTANTS
    Requests,      \* requests of the workspace
    Ids,           \* correlation ids they carry
    Users,         \* members who spend
    Workspace,     \* the level of the workspace's own budget
    Nobody,        \* the user of an embedding batch; no cached value
    Limit,         \* monthly_token_limit, the same at each level
    Estimate,      \* what a request is estimated to cost
    Costs,         \* what it may cost in the end
    MaxAudits,     \* reconciliations
    MaxTurns       \* turns of the month

Levels == Users \cup {Workspace}
Months == 0 .. MaxTurns

ASSUME LedgerAssumption ==
    /\ Limit \in Nat /\ Estimate \in Nat \ {0} /\ MaxAudits \in Nat /\ MaxTurns \in Nat
    /\ Costs \in SUBSET (Nat \ {0})
    /\ Workspace \notin Users /\ Nobody \notin Users \cup {Workspace}
    /\ IsFiniteSet(Requests)

VARIABLES
    call,      \* requests: where each stands with the governor
    rows,      \* token_usage
    used,      \* used_tokens of workspace_usage and workspace_user_usage, by month; 0: no row
    cached,    \* the quota:usage keys
    audit,     \* the reconciliation in progress
    audits,    \* how many have begun
    month      \* the month it is

ledgerVars == <<call, rows, used, cached, audit, audits, month>>

Phases == {"new", "check", "fill", "refused", "admitted", "select", "insert", "user",
           "recorded", "unpaid", "abandoned"}

\* level, seen: the counter the check is at and what it read; cost: what is to be charged;
\* month: of the counter that was read or refused by, then of the record that is written.
Call == [phase : Phases, kind : {"chat", "direct"}, id : Ids \cup {Nobody}, user : Users \cup {Nobody},
         level : Levels, seen : Nat, cost : Costs \cup {0}, month : Months]

Row == [by : Requests, id : Ids, user : Users \cup {Nobody}, cost : Costs, month : Months]

\* of: the month the number is of, which the key itself does not say.
Key == [number : Nat, of : Months]

\* month: the one reconciled; sum: the totals of its records; counter: the workspace's counter when compared;
\* todo: users to compare; dirty: user rows changed in the session, not committed.
Audit == [phase : {"none", "summed", "compared"}, month : Months, sum : [Levels -> Nat],
          counter : Nat, todo : SUBSET Users, dirty : SUBSET Users]

NoAudit == [phase |-> "none", month |-> 0, sum |-> [l \in Levels |-> 0], counter |-> 0,
            todo |-> {}, dirty |-> {}]

NewCall == [phase |-> "new", kind |-> "direct", id |-> Nobody, user |-> Nobody,
            level |-> Workspace, seen |-> 0, cost |-> 0, month |-> 0]

LedgerInit ==
    /\ call = [r \in Requests |-> NewCall]
    /\ rows = {}
    /\ used = [m \in Months |-> [l \in Levels |-> 0]] /\ cached = [l \in Levels |-> Nobody]
    /\ audit = NoAudit /\ audits = 0 /\ month = 0

Is(r, p) == call[r].phase = p
Moves(r, new) == call' = [call EXCEPT ![r] = new]
Enters(r, p) == Moves(r, [call[r] EXCEPT !.phase = p])
Ends(r, p) == Moves(r, [call[r] EXCEPT !.phase = p, !.cost = 0, !.month = 0])

At(l, set) == {x \in set : l = Workspace \/ x.user = l}

\* The tokens the records in set were charged for, one by one.
Tokens(set) == UNION {{x} \X (1 .. x.cost) : x \in set}

\* What the records in set come to at level l.
Total(l, set) == Cardinality(Tokens(At(l, set)))

\* The records created in month m.
RowsOf(m) == {x \in rows : x.month = m}

--------------------------------------------------------------------------------
(* check_hierarchical_quota, check_quota: the workspace, then the user     *)

Ask(r, kind, k, u) ==
    /\ Is(r, "new") /\ (kind = "chat" => u # Nobody)
    /\ Moves(r, [call[r] EXCEPT !.phase = "check", !.kind = kind, !.id = k, !.user = u])
    /\ UNCHANGED <<rows, used, cached, audit, audits, month>>

Exhausted(n) == n + Estimate > Limit

\* Bug seeded for TypeOK: a batch, which has no user, goes on to a user's budget.
JudgeUserless(r, n, m) ==
    Moves(r, IF Exhausted(n) THEN [call[r] EXCEPT !.phase = "refused", !.seen = 0, !.month = m]
             ELSE IF call[r].level # Workspace
               THEN [call[r] EXCEPT !.phase = "admitted", !.seen = 0, !.month = 0]
             ELSE [call[r] EXCEPT !.phase = "check", !.level = call[r].user, !.seen = 0, !.month = 0])

\* The check is given the number n, which is of month m. An embedding batch has no user:
\* only the workspace's budget is looked at.
Judge(r, n, m) ==
    Moves(r, IF Exhausted(n) THEN [call[r] EXCEPT !.phase = "refused", !.seen = 0, !.month = m]
             ELSE IF call[r].level # Workspace \/ call[r].user = Nobody
               THEN [call[r] EXCEPT !.phase = "admitted", !.seen = 0, !.month = 0]
             ELSE [call[r] EXCEPT !.phase = "check", !.level = call[r].user, !.seen = 0, !.month = 0])

\* Whatever month the key's number is of.
ReadCached(r) ==
    /\ Is(r, "check") /\ cached[call[r].level] # Nobody
    /\ Judge(r, cached[call[r].level].number, cached[call[r].level].of)
    /\ UNCHANGED <<rows, used, cached, audit, audits, month>>

\* A miss, or Redis does not answer: this month's counter.
ReadCounter(r) ==
    /\ Is(r, "check")
    /\ Moves(r, [call[r] EXCEPT !.phase = "fill", !.seen = used[month][call[r].level], !.month = month])
    /\ UNCHANGED <<rows, used, cached, audit, audits, month>>

\* Bug seeded for NoFalseRefusal: the request's own estimate is cached with the number.
FillReserved(r) ==
    /\ Is(r, "fill")
    /\ cached' = [cached EXCEPT ![call[r].level] =
                    [number |-> call[r].seen + Estimate, of |-> call[r].month]]
    /\ Judge(r, call[r].seen, call[r].month)
    /\ UNCHANGED <<rows, used, audit, audits, month>>

\* The number read is cached for a minute, however old it is by now, if Redis answers.
Fill(r) ==
    /\ Is(r, "fill")
    /\ cached' \in {cached, [cached EXCEPT ![call[r].level] =
                               [number |-> call[r].seen, of |-> call[r].month]]}
    /\ Judge(r, call[r].seen, call[r].month)
    /\ UNCHANGED <<rows, used, audit, audits, month>>

Expire(l) ==
    /\ cached[l] # Nobody
    /\ cached' = [cached EXCEPT ![l] = Nobody]
    /\ UNCHANGED <<call, rows, used, audit, audits, month>>

\* The counters of the new month are at zero. A month outlasts the minute a key lives and the
\* moment between a read and its judgement, not more: keys and reads of this month go over.
MonthTurns ==
    /\ month < MaxTurns /\ month' = month + 1
    /\ \A l \in Levels : cached[l] # Nobody => cached[l].of = month
    /\ \A r \in Requests : Is(r, "fill") => call[r].month = month
    /\ UNCHANGED <<call, rows, used, cached, audit, audits>>

--------------------------------------------------------------------------------
(* record_token_usage                                                      *)

\* A grounded generation, or an embedding batch, has been paid to the provider.
Answered(r, c) ==
    /\ Is(r, "admitted") /\ call[r].kind = "direct"
    /\ Moves(r, [call[r] EXCEPT !.phase = "select", !.cost = c])
    /\ UNCHANGED <<rows, used, cached, audit, audits, month>>

Recorded(k) == {x \in rows : x.id = k}

\* One record of the correlation id: already charged.  Two: scalar_one_or_none raises.  With
\* none the date of the record, and the month of every counter it goes to, are fixed here.
Select(r) ==
    /\ Is(r, "select")
    /\ CASE Cardinality(Recorded(call[r].id)) = 0 ->
                Moves(r, [call[r] EXCEPT !.phase = "insert", !.month = month])
         [] Cardinality(Recorded(call[r].id)) = 1 -> Ends(r, "recorded")
         [] OTHER -> Ends(r, "unpaid")
    /\ UNCHANGED <<rows, used, cached, audit, audits, month>>

RowOf(r) == [by |-> r, id |-> call[r].id, user |-> call[r].user, cost |-> call[r].cost,
             month |-> call[r].month]

\* Bug seeded for Billed: the commit of the counter leaves the record out.
InsertLate(r) ==
    /\ Is(r, "insert")
    /\ used' = [used EXCEPT ![call[r].month][Workspace] = @ + call[r].cost]
    /\ Enters(r, "user")
    /\ UNCHANGED <<rows, cached, audit, audits, month>>

\* The record and the workspace's counter are committed together.
Insert(r) ==
    /\ Is(r, "insert")
    /\ rows' = rows \cup {RowOf(r)}
    /\ used' = [used EXCEPT ![call[r].month][Workspace] = @ + call[r].cost]
    /\ IF call[r].user = Nobody THEN Ends(r, "recorded") ELSE Enters(r, "user")
    /\ UNCHANGED <<cached, audit, audits, month>>

ChargeUser(r) ==
    /\ Is(r, "user")
    /\ used' = [used EXCEPT ![call[r].month][call[r].user] = @ + call[r].cost]
    /\ Ends(r, "recorded")
    /\ UNCHANGED <<rows, cached, audit, audits, month>>

\* The worker dies, the client goes, or five seconds pass: nothing more is recorded.
Abandon(r) ==
    /\ \/ call[r].phase \in {"select", "insert", "user"}
       \/ Is(r, "admitted") /\ call[r].kind = "direct"
    /\ Ends(r, "abandoned")
    /\ UNCHANGED <<rows, used, cached, audit, audits, month>>

--------------------------------------------------------------------------------
(* reconcile_workspace_usage(sync=True)                                    *)

AuditSum ==
    /\ audit.phase = "none" /\ audits < MaxAudits
    /\ audits' = audits + 1
    /\ audit' = [NoAudit EXCEPT !.phase = "summed", !.month = month,
                                !.sum = [l \in Levels |-> Total(l, RowsOf(month))]]
    /\ UNCHANGED <<call, rows, used, cached, month>>

AuditCompare ==
    /\ audit.phase = "summed"
    /\ audit' = [audit EXCEPT !.phase = "compared", !.counter = used[audit.month][Workspace],
                              !.todo = {u \in Users : audit.sum[u] > 0}]
    /\ UNCHANGED <<call, rows, used, cached, audits, month>>

\* What is committed goes to the counters of the month reconciled.
Commits(counters) == used' = [used EXCEPT ![audit.month] = counters]

Overwrite(set) == [l \in Levels |-> IF l \in set THEN audit.sum[l] ELSE used[audit.month][l]]

\* A user's row that differs is changed in the session; one that is missing is
\* added by an increment whose commit takes the other changes with it.
AuditUser(u) ==
    /\ audit.phase = "compared" /\ u \in audit.todo
    /\ LET next == [audit EXCEPT !.todo = @ \ {u}] IN
         IF used[audit.month][u] = 0
           THEN /\ Commits([Overwrite(audit.dirty) EXCEPT ![u] = @ + audit.sum[u]])
                /\ audit' = [next EXCEPT !.dirty = {}]
           ELSE /\ audit' = [next EXCEPT !.dirty = IF used[audit.month][u] = audit.sum[u] THEN @
                                               ELSE @ \cup {u}]
                /\ UNCHANGED used
    /\ UNCHANGED <<call, rows, cached, audits, month>>

\* Bug seeded for AuditRepairs: only a counter that is too high is corrected.
DriftsUp == audit.counter > audit.sum[Workspace]

Drifts == audit.counter # audit.sum[Workspace]

\* Without drift of the workspace nothing is committed, the users' changes included.
AuditFinish ==
    /\ audit.phase = "compared" /\ audit.todo = {}
    /\ IF ~Drifts THEN UNCHANGED used
       ELSE IF audit.counter = 0
         THEN Commits([Overwrite(audit.dirty) EXCEPT ![Workspace] = @ + audit.sum[Workspace]])
       ELSE Commits(Overwrite(audit.dirty \cup {Workspace}))
    /\ audit' = NoAudit
    /\ UNCHANGED <<call, rows, cached, audits, month>>

--------------------------------------------------------------------------------
Check(r) == ReadCached(r) \/ ReadCounter(r) \/ Fill(r)

Charge(r) == Select(r) \/ Insert(r) \/ ChargeUser(r)

Reconcile == AuditSum \/ AuditCompare \/ (\E u \in Users : AuditUser(u)) \/ AuditFinish

LedgerNext ==
    \/ \E r \in Requests, kind \in {"chat", "direct"}, k \in Ids, u \in Users \cup {Nobody} :
         Ask(r, kind, k, u)
    \/ \E r \in Requests : Check(r) \/ Charge(r) \/ Abandon(r)
    \/ \E r \in Requests, c \in Costs : Answered(r, c)
    \/ \E l \in Levels : Expire(l)
    \/ MonthTurns
    \/ Reconcile

\* The ledger by itself: of a question to the chat it has the check only.
LedgerSpec == LedgerInit /\ [][LedgerNext]_ledgerVars

LedgerTypeOK ==
    /\ call \in [Requests -> Call] /\ rows \in SUBSET Row
    /\ used \in [Months -> [Levels -> Nat]] /\ cached \in [Levels -> Key \cup {Nobody}]
    /\ audit \in Audit /\ audits \in 0 .. MaxAudits /\ month \in Months

--------------------------------------------------------------------------------
(* Properties                                                              *)

\* The tokens of u in month m that are not on its counter: those of a recording that was
\* interrupted, or has not come, between its two commits.
Missing(u, m) == {x \in RowsOf(m) : x.user = u /\ call[x.by].phase \in {"user", "abandoned"}}

\* In no month is the workspace billed for more than the records of the month show, whatever
\* reconciliations have overwritten meanwhile; until the first of them it is billed for
\* exactly that, and a user for all but the recordings cut between their two commits.  A
\* recording or a reconciliation that straddles the turn of the month stays with its month.
Billed ==
    \A m \in Months :
        /\ used[m][Workspace] <= Total(Workspace, RowsOf(m))
        /\ audits = 0 =>
             /\ used[m][Workspace] = Total(Workspace, RowsOf(m))
             /\ \A u \in Users : used[m][u] + Total(u, Missing(u, m)) = Total(u, RowsOf(m))

\* The workspace is refused only when its records leave less than the estimate in the month
\* the number is of that the check was given, whatever was recorded, cached or overwritten in
\* between.  That is not always the month it is: for up to a minute after the turn of the
\* month a number of the old one still refuses, and admits.
NoFalseRefusal ==
    \A r \in Requests : Is(r, "refused") /\ call[r].level = Workspace =>
        Total(Workspace, RowsOf(call[r].month)) + Estimate > Limit

\* A reconciliation that no recording overlaps leaves the workspace's counter
\* equal to its records, also when an earlier one has lost an increment.
AuditRepairs ==
    [][audit.phase = "compared" /\ audit'.phase = "none"
         /\ audit.sum[Workspace] = Total(Workspace, RowsOf(audit.month))
       => used'[audit.month][Workspace] = Total(Workspace, RowsOf(audit.month))]_ledgerVars
================================================================================
