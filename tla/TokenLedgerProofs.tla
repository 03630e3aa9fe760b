--------------------------- MODULE TokenLedgerProofs ---------------------------
(***************************************************************************)
(* The TokenLedger for any number of requests, users, costs and            *)
(* reconciliations: its counters against the sum of its records.  A sum is *)
(* the number of tokens the records were charged for, so that what a sum   *)
(* does when a record is added is a fact about finite sets.                *)
(***************************************************************************)
EXTENDS TokenLedger, FiniteSetTheorems, TLAPS

USE LedgerAssumption DEF LedgerAssumption

--------------------------------------------------------------------------------
(* Sums *)

\* The tokens of one more record are new, and as many as it cost.
LEMMA OneMoreRecord ==
    ASSUME NEW S, IsFiniteSet(Tokens(S)), NEW x, x \notin S, x.cost \in Nat
    PROVE  /\ IsFiniteSet(Tokens(S \cup {x}))
           /\ Cardinality(Tokens(S \cup {x})) = Cardinality(Tokens(S)) + x.cost
<1>1. PICK its : its = {x} \X (1 .. x.cost)
    OBVIOUS
<1>2. Tokens(S \cup {x}) = Tokens(S) \cup its
    BY <1>1 DEF Tokens
<1>3. Tokens(S) \cap its = {}
    BY <1>1 DEF Tokens
<1>4. PICK c \in Nat : c = x.cost
    OBVIOUS
<1>5. IsFiniteSet(1 .. c) /\ Cardinality(1 .. c) = c
    BY FS_Interval
<1>6. IsFiniteSet({x}) /\ Cardinality({x}) = 1
    BY FS_Singleton
<1>7. IsFiniteSet(its) /\ Cardinality(its) = c
    <2>1. its = {x} \X (1 .. c)
        BY <1>1, <1>4
    <2>2. IsFiniteSet({x} \X (1 .. c)) /\ Cardinality({x} \X (1 .. c)) = 1 * c
        BY <1>5, <1>6, FS_Product
    <2>3. QED
        BY <2>1, <2>2
<1>8. /\ IsFiniteSet(Tokens(S) \cup its)
      /\ Cardinality(Tokens(S) \cup its) =
            Cardinality(Tokens(S)) + Cardinality(its) - Cardinality(Tokens(S) \cap its)
    BY <1>7, FS_Union
<1>9. Cardinality(Tokens(S) \cap its) = 0
    BY <1>3, FS_EmptySet
<1>10. PICK n \in Nat : n = Cardinality(Tokens(S))
    BY FS_CardinalityType
<1>11. Cardinality(Tokens(S) \cup its) = n + c
    <2>1. n + c - 0 = n + c
        OBVIOUS
    <2>2. QED
        BY <1>7, <1>8, <1>9, <1>10, <2>1
<1>12. QED
    BY <1>2, <1>4, <1>8, <1>10, <1>11

\* Part of the records come to no more than all of them.
LEMMA FewerRecords ==
    ASSUME NEW S, IsFiniteSet(Tokens(S)), NEW T \in SUBSET S
    PROVE  /\ IsFiniteSet(Tokens(T)) /\ Cardinality(Tokens(T)) \in Nat
           /\ Cardinality(Tokens(T)) <= Cardinality(Tokens(S))
<1>1. Tokens(T) \in SUBSET Tokens(S)
    BY DEF Tokens
<1>2. QED
    BY <1>1, FS_Subset, FS_CardinalityType

\* No records come to nothing.
LEMMA NoRecords == IsFiniteSet(Tokens({})) /\ \A l : Total(l, {}) = 0
<1>1. Tokens({}) = {}
    BY DEF Tokens
<1>2. \A l : At(l, {}) = {}
    BY DEF At
<1>3. QED
    BY <1>1, <1>2, FS_EmptySet DEF Total

\* At every level the records come to a number.
LEMMA TotalType ==
    ASSUME NEW S, IsFiniteSet(Tokens(S)), NEW l
    PROVE  Total(l, S) \in Nat
<1>1. At(l, S) \in SUBSET S
    BY DEF At
<1>2. QED
    BY <1>1, FewerRecords DEF Total

\* One more record adds its cost at its levels and nothing at the others.
LEMMA TotalGrows ==
    ASSUME NEW S, IsFiniteSet(Tokens(S)), NEW x, x \notin S, x.cost \in Nat, NEW l
    PROVE  /\ l = Workspace \/ x.user = l => Total(l, S \cup {x}) = Total(l, S) + x.cost
           /\ ~(l = Workspace \/ x.user = l) => Total(l, S \cup {x}) = Total(l, S)
<1>1. At(l, S) \in SUBSET S /\ x \notin At(l, S)
    BY DEF At
<1>2. IsFiniteSet(Tokens(At(l, S)))
    BY <1>1, FewerRecords
<1>3. CASE l = Workspace \/ x.user = l
    <2>1. At(l, S \cup {x}) = At(l, S) \cup {x}
        BY <1>3 DEF At
    <2>2. QED
        BY <1>1, <1>2, <1>3, <2>1, OneMoreRecord DEF Total
<1>4. CASE ~(l = Workspace \/ x.user = l)
    <2>1. At(l, S \cup {x}) = At(l, S)
        BY <1>4 DEF At
    <2>2. QED
        BY <1>4, <2>1 DEF Total
<1>5. QED
    BY <1>3, <1>4

--------------------------------------------------------------------------------
(* The invariant *)

Posted == {"user", "recorded", "abandoned"}

\* What the workspace has spent by its records of month m.
Spent(m) == Total(Workspace, RowsOf(m))

\* A request that is being charged owes a cost, and one between its two commits is a
\* user's and on record; no number it has read is above what has been spent in its month.
Entered(r) ==
    /\ call[r].phase # "new" => call[r].id \in Ids
    /\ call[r].phase \in {"select", "insert", "user"} => call[r].cost \in Costs
    /\ call[r].phase = "user" => call[r].user \in Users /\ RowOf(r) \in rows
    /\ call[r].phase = "fill" /\ call[r].level = Workspace =>
         call[r].seen <= Spent(call[r].month)
    /\ call[r].phase = "refused" /\ call[r].level = Workspace =>
         Spent(call[r].month) + Estimate > Limit

\* A record is that of a request that has come so far, and the only one.
Posts ==
    /\ \A x \in rows : call[x.by].phase \in Posted
    /\ \A x, y \in rows : x.by = y.by => x = y

\* What a reconciliation has read is behind the records, and the workspace's counter has
\* grown since by no more than they have.
Behind ==
    /\ audits = 0 => audit.phase = "none"
    /\ audit.phase \in {"summed", "compared"} => audit.sum[Workspace] <= Spent(audit.month)
    /\ audit.phase = "compared" =>
         /\ audit.counter <= used[audit.month][Workspace]
         /\ used[audit.month][Workspace] + audit.sum[Workspace] <= audit.counter + Spent(audit.month)

\* No cached number is above what has been spent in the month it is of.
Sound(keys) == keys[Workspace] # Nobody => keys[Workspace].number <= Spent(keys[Workspace].of)

Books ==
    /\ LedgerTypeOK
    /\ IsFiniteSet(Tokens(rows))
    /\ \A r \in Requests : Entered(r)
    /\ Posts
    /\ Sound(cached)
    /\ Behind
    /\ Billed

\* The sums do not change while the records stay.
LEMMA SameSums ==
    ASSUME UNCHANGED rows
    PROVE  \A m : Spent(m)' = Spent(m) /\ \A l : Total(l, RowsOf(m))' = Total(l, RowsOf(m))
BY DEF Spent, Total, At, Tokens, RowsOf

LEMMA SumsAreNumbers ==
    ASSUME Books, NEW l, NEW m
    PROVE  Total(l, RowsOf(m)) \in Nat /\ Spent(m) \in Nat
<1>1. IsFiniteSet(Tokens(RowsOf(m)))
    <2>1. RowsOf(m) \in SUBSET rows
        BY DEF RowsOf
    <2>2. QED
        BY <2>1, FewerRecords DEF Books
<1>2. QED
    BY <1>1, TotalType DEF Spent

\* So do the tokens missing on a user's counter.
LEMMA MissingIsNumber ==
    ASSUME Books, NEW u \in Users, NEW m \in Months
    PROVE  used[m][u] \in Nat /\ Total(u, Missing(u, m)) \in Nat
<1>1. Missing(u, m) \in SUBSET rows
    BY DEF Missing, RowsOf
<1>2. IsFiniteSet(Tokens(Missing(u, m)))
    BY <1>1, FewerRecords DEF Books
<1>3. used[m][u] \in Nat
    BY DEF Books, LedgerTypeOK, Levels
<1>4. QED
    BY <1>2, <1>3, TotalType

\* A request moves and nothing is written to the database: it may read, be refused, be
\* about to be charged, or be abandoned.
LEMMA RequestMoves ==
    ASSUME Books, NEW r \in Requests, NEW new \in Call, Moves(r, new),
           new.phase \notin {"new", "user"}, new.id \in Ids,
           new.phase \in {"select", "insert"} => new.cost \in Costs,
           new.phase = "fill" /\ new.level = Workspace => new.seen <= Spent(new.month),
           new.phase = "refused" /\ new.level = Workspace => Spent(new.month) + Estimate > Limit,
           call[r].phase \notin {"recorded", "abandoned"},
           call[r].phase = "user" => new.phase = "abandoned",
           cached' \in [Levels -> Key \cup {Nobody}], Sound(cached'),
           UNCHANGED <<rows, used, audit, audits, month>>
    PROVE  Books'
<1>1. /\ call' \in [Requests -> Call]
      /\ call'[r] = new /\ \A q \in Requests \ {r} : call'[q] = call[q]
    BY DEF Moves, Books, LedgerTypeOK
<1>2. LedgerTypeOK'
    BY <1>1 DEF Books, LedgerTypeOK
<1>3. \A m : Spent(m)' = Spent(m) /\ \A l : Total(l, RowsOf(m))' = Total(l, RowsOf(m))
    BY SameSums
<1>4. IsFiniteSet(Tokens(rows))'
    BY DEF Books, Tokens
<1>5. ASSUME NEW q \in Requests PROVE Entered(q)'
    <2>1. CASE q = r
        BY <1>1, <1>3, <2>1 DEF Entered
    <2>2. CASE q # r
        BY <1>1, <1>3, <2>2 DEF Books, Entered, RowOf
    <2>3. QED
        BY <2>1, <2>2
<1>6. \A x \in rows : /\ call[x.by].phase \in Posted
                      /\ x.by = r => call[x.by].phase = "user" /\ call'[x.by].phase = "abandoned"
                      /\ x.by # r => call'[x.by] = call[x.by]
    BY <1>1 DEF Books, Posts, Posted, LedgerTypeOK, Row
<1>7. Posts'
    BY <1>6 DEF Books, Posts, Posted
<1>8. Behind'
    BY <1>3 DEF Books, Behind
<1>9. \A u, m : Missing(u, m)' = Missing(u, m)
    BY <1>6 DEF Missing, RowsOf
<1>10. Billed'
    <2>1. \A u \in Users : \A m : Total(u, Missing(u, m))' = Total(u, Missing(u, m))
        BY <1>9 DEF Total, At, Tokens
    <2>2. QED
        BY <1>3, <2>1 DEF Books, Billed
<1>11. Sound(cached)'
    BY <1>3 DEF Sound
<1>12. QED
    BY <1>2, <1>4, <1>5, <1>7, <1>8, <1>10, <1>11 DEF Books

--------------------------------------------------------------------------------
(* Steps of one request *)

LEMMA AskBooks ==
    ASSUME Books, NEW r \in Requests, NEW kind \in {"chat", "direct"}, NEW k \in Ids,
           NEW u \in Users \cup {Nobody}, Ask(r, kind, k, u)
    PROVE  Books'
<1>1. PICK old \in Call : old = call[r] /\ old.phase = "new"
    BY DEF Books, LedgerTypeOK, Ask, Is
<1>2. PICK new : new = [old EXCEPT !.phase = "check", !.kind = kind, !.id = k, !.user = u]
    OBVIOUS
<1>3. new \in Call /\ new.phase = "check" /\ new.id = k
    BY <1>1, <1>2 DEF Call, Phases
<1>4. Moves(r, new) /\ UNCHANGED <<rows, used, cached, audit, audits, month>>
    BY <1>1, <1>2 DEF Ask
<1>5. cached \in [Levels -> Key \cup {Nobody}] /\ Sound(cached)
    BY DEF Books, LedgerTypeOK
<1>6. QED
    BY <1>1, <1>3, <1>4, <1>5, RequestMoves

\* What the check does with a number that is not above what has been spent in its month.
LEMMA JudgeBooks ==
    ASSUME Books, NEW r \in Requests, call[r].phase \in {"check", "fill"}, NEW n \in Nat,
           NEW m \in Months, call[r].level = Workspace => n <= Spent(m), Judge(r, n, m),
           cached' \in [Levels -> Key \cup {Nobody}], Sound(cached'),
           UNCHANGED <<rows, used, audit, audits, month>>
    PROVE  Books'
<1>1. PICK old \in Call : old = call[r] /\ old.phase \in {"check", "fill"} /\ old.id \in Ids
    BY DEF Books, LedgerTypeOK, Entered
<1>2. /\ Spent(m) \in Nat /\ Workspace \in Levels /\ 0 \in Nat /\ 0 \in Costs \cup {0} /\ 0 \in Months
      /\ {"refused", "admitted", "check"} \subseteq Phases
    BY SumsAreNumbers DEF Levels, Phases, Months
<1>3. CASE Exhausted(n)
    <2>1. PICK new : new = [old EXCEPT !.phase = "refused", !.seen = 0, !.month = m]
        OBVIOUS
    <2>2. new \in Call
        BY <1>2, <2>1 DEF Call
    <2>3. new.phase = "refused" /\ new.id = old.id /\ new.level = old.level /\ new.month = m
        BY <2>1 DEF Call
    <2>4. Moves(r, new)
        BY <1>1, <1>3, <2>1 DEF Judge
    <2>5. new.level = Workspace => Spent(m) + Estimate > Limit
        BY <1>1, <1>2, <1>3, <2>3 DEF Exhausted
    <2>6. QED
        BY <1>1, <2>2, <2>3, <2>4, <2>5, RequestMoves
<1>4. CASE ~Exhausted(n) /\ (old.level # Workspace \/ old.user = Nobody)
    <2>1. PICK new : new = [old EXCEPT !.phase = "admitted", !.seen = 0, !.month = 0]
        OBVIOUS
    <2>2. new \in Call
        BY <1>2, <2>1 DEF Call
    <2>3. new.phase = "admitted" /\ new.id = old.id
        BY <2>1 DEF Call
    <2>4. Moves(r, new)
        BY <1>1, <1>4, <2>1 DEF Judge
    <2>5. QED
        BY <1>1, <2>2, <2>3, <2>4, RequestMoves
<1>5. CASE ~Exhausted(n) /\ ~(old.level # Workspace \/ old.user = Nobody)
    <2>1. PICK new : new = [old EXCEPT !.phase = "check", !.level = old.user, !.seen = 0, !.month = 0]
        OBVIOUS
    <2>2. PICK u \in Users : u = old.user
        BY <1>5 DEF Call
    <2>3. new \in Call
        BY <1>2, <2>1, <2>2 DEF Call, Levels
    <2>4. new.phase = "check" /\ new.id = old.id
        BY <2>1 DEF Call
    <2>5. Moves(r, new)
        BY <1>1, <1>5, <2>1 DEF Judge
    <2>6. QED
        BY <1>1, <2>3, <2>4, <2>5, RequestMoves
<1>6. QED
    BY <1>3, <1>4, <1>5

LEMMA CheckBooks == ASSUME Books, NEW r \in Requests, Check(r) PROVE Books'
<1>1. PICK old \in Call : old = call[r]
    BY DEF Books, LedgerTypeOK
<1>2. /\ Workspace \in Levels /\ old.level \in Levels /\ old.seen \in Nat /\ old.month \in Months
      /\ cached \in [Levels -> Key \cup {Nobody}] /\ Sound(cached)
      /\ used \in [Months -> [Levels -> Nat]] /\ month \in Months
      /\ used[month][Workspace] <= Spent(month)
    BY <1>1 DEF Books, LedgerTypeOK, Call, Levels, Billed, Spent
<1>3. CASE ReadCached(r)
    <2>1. PICK key \in Key : key = cached[old.level]
        BY <1>1, <1>2, <1>3 DEF ReadCached
    <2>2. key.number \in Nat /\ key.of \in Months
        BY DEF Key
    <2>3. /\ call[r].phase = "check" /\ Judge(r, key.number, key.of)
          /\ UNCHANGED <<rows, used, cached, audit, audits, month>>
          /\ cached[call[r].level] # Nobody
        BY <1>1, <1>3, <2>1 DEF ReadCached, Is
    <2>4. call[r].level = Workspace => key.number <= Spent(key.of)
        BY <1>1, <1>2, <2>1, <2>3 DEF Sound
    <2>5. QED
        BY <1>2, <2>2, <2>3, <2>4, JudgeBooks
<1>4. CASE ReadCounter(r)
    <2>1. /\ old.phase = "check" /\ UNCHANGED <<rows, used, cached, audit, audits, month>> /\ old.id \in Ids
        BY <1>1, <1>4 DEF ReadCounter, Is, Books, Entered
    <2>2. PICK n \in Nat : n = used[month][old.level]
        BY <1>2
    <2>3. PICK new : new = [old EXCEPT !.phase = "fill", !.seen = n, !.month = month]
        OBVIOUS
    <2>4. /\ new \in Call /\ new.phase = "fill" /\ new.id = old.id /\ new.level = old.level
          /\ new.seen = n /\ new.month = month
        BY <1>2, <2>3 DEF Call, Phases
    <2>5. Moves(r, new)
        BY <1>1, <1>4, <2>2, <2>3 DEF ReadCounter
    <2>6. new.level = Workspace => new.seen <= Spent(new.month)
        BY <1>2, <2>2, <2>4
    <2>7. QED
        BY <1>1, <1>2, <2>1, <2>4, <2>5, <2>6, RequestMoves
<1>5. CASE Fill(r)
    <2>1. PICK key : key = [number |-> old.seen, of |-> old.month]
        OBVIOUS
    <2>2. key \in Key /\ key.number = old.seen /\ key.of = old.month
        BY <1>2, <2>1 DEF Key
    <2>3. /\ call[r].phase = "fill" /\ Judge(r, old.seen, old.month)
          /\ UNCHANGED <<rows, used, audit, audits, month>>
          /\ cached' \in {cached, [cached EXCEPT ![old.level] = key]}
          /\ old.level = Workspace => old.seen <= Spent(old.month)
        BY <1>1, <1>5, <2>1 DEF Fill, Is, Books, Entered
    <2>4. cached' \in [Levels -> Key \cup {Nobody}] /\ Sound(cached')
        BY <1>2, <2>2, <2>3 DEF Sound
    <2>5. QED
        BY <1>1, <1>2, <2>3, <2>4, JudgeBooks
<1>6. QED
    BY <1>3, <1>4, <1>5 DEF Check

\* The phase changes and what was owed is kept or dropped.
LEMMA PhaseBooks ==
    ASSUME Books, NEW r \in Requests, NEW p \in Phases, p \notin {"new", "user", "fill", "refused"},
           \/ Enters(r, p) /\ (p \in {"select", "insert"} => call[r].cost \in Costs)
           \/ Ends(r, p) /\ p \notin {"select", "insert"},
           call[r].phase \notin {"new", "recorded", "abandoned"},
           call[r].phase = "user" => p = "abandoned",
           UNCHANGED <<rows, used, cached, audit, audits, month>>
    PROVE  Books'
<1>1. PICK old \in Call : old = call[r] /\ old.id \in Ids
    BY DEF Books, LedgerTypeOK, Entered
<1>2. cached \in [Levels -> Key \cup {Nobody}] /\ Sound(cached)
    BY DEF Books, LedgerTypeOK
<1>3. CASE Enters(r, p) /\ (p \in {"select", "insert"} => call[r].cost \in Costs)
    <2>1. PICK new : new = [old EXCEPT !.phase = p]
        OBVIOUS
    <2>2. new \in Call /\ new.phase = p /\ new.id = old.id /\ new.cost = old.cost
        BY <2>1 DEF Call
    <2>3. Moves(r, new)
        BY <1>1, <1>3, <2>1 DEF Enters
    <2>4. QED
        BY <1>1, <1>2, <1>3, <2>2, <2>3, RequestMoves
<1>4. CASE Ends(r, p) /\ p \notin {"select", "insert"}
    <2>1. PICK new : new = [old EXCEPT !.phase = p, !.cost = 0, !.month = 0]
        OBVIOUS
    <2>2. new \in Call /\ new.phase = p /\ new.id = old.id
        <3>1. 0 \in Months
            BY DEF Months
        <3>2. QED
            BY <2>1, <3>1 DEF Call
    <2>3. Moves(r, new)
        BY <1>1, <1>4, <2>1 DEF Ends
    <2>4. QED
        BY <1>1, <1>2, <1>4, <2>2, <2>3, RequestMoves
<1>5. QED
    BY <1>3, <1>4

\* An admitted request is about to be charged.
LEMMA OwesBooks ==
    ASSUME Books, NEW r \in Requests, NEW c \in Costs, call[r].phase = "admitted",
           Moves(r, [call[r] EXCEPT !.phase = "select", !.cost = c]),
           UNCHANGED <<rows, used, cached, audit, audits, month>>
    PROVE  Books'
<1>1. PICK old \in Call : old = call[r] /\ old.id \in Ids
    BY DEF Books, LedgerTypeOK, Entered
<1>2. cached \in [Levels -> Key \cup {Nobody}] /\ Sound(cached)
    BY DEF Books, LedgerTypeOK
<1>3. PICK new : new = [old EXCEPT !.phase = "select", !.cost = c]
    OBVIOUS
<1>4. new \in Call /\ new.phase = "select" /\ new.id = old.id /\ new.cost = c
    BY <1>3 DEF Call, Phases
<1>5. QED
    BY <1>1, <1>2, <1>3, <1>4, RequestMoves

LEMMA SelectBooks == ASSUME Books, NEW r \in Requests, Select(r) PROVE Books'
<1>1. /\ call[r].phase = "select" /\ call[r].cost \in Costs
      /\ UNCHANGED <<rows, used, cached, audit, audits, month>>
    BY DEF Select, Is, Books, Entered
<1>2. \/ Moves(r, [call[r] EXCEPT !.phase = "insert", !.month = month])
      \/ Ends(r, "recorded") \/ Ends(r, "unpaid")
    <2>1. CASE Cardinality(Recorded(call[r].id)) = 0
        BY <2>1 DEF Select
    <2>2. CASE Cardinality(Recorded(call[r].id)) = 1
        BY <2>2 DEF Select
    <2>3. CASE Cardinality(Recorded(call[r].id)) \notin {0, 1}
        BY <2>3 DEF Select
    <2>4. QED
        BY <2>1, <2>2, <2>3
<1>3. "insert" \in Phases /\ "recorded" \in Phases /\ "unpaid" \in Phases
    BY DEF Phases
<1>4. CASE Moves(r, [call[r] EXCEPT !.phase = "insert", !.month = month])
    <2>1. PICK old \in Call : old = call[r] /\ old.id \in Ids /\ old.cost \in Costs
        BY <1>1 DEF Books, LedgerTypeOK, Entered
    <2>2. PICK new : new = [old EXCEPT !.phase = "insert", !.month = month]
        OBVIOUS
    <2>3. new \in Call /\ new.phase = "insert" /\ new.id = old.id /\ new.cost = old.cost
        BY <1>3, <2>2 DEF Call, Books, LedgerTypeOK
    <2>4. cached \in [Levels -> Key \cup {Nobody}] /\ Sound(cached)
        BY DEF Books, LedgerTypeOK
    <2>5. QED
        BY <1>1, <1>4, <2>1, <2>2, <2>3, <2>4, RequestMoves
<1>5. CASE Ends(r, "recorded")
    BY <1>1, <1>3, <1>5, PhaseBooks
<1>6. CASE Ends(r, "unpaid")
    BY <1>1, <1>3, <1>6, PhaseBooks
<1>7. QED
    BY <1>2, <1>4, <1>5, <1>6

LEMMA AbandonBooks == ASSUME Books, NEW r \in Requests, Abandon(r) PROVE Books'
<1>1. /\ call[r].phase \in {"select", "insert", "user", "admitted"} /\ Ends(r, "abandoned")
      /\ UNCHANGED <<rows, used, cached, audit, audits, month>> /\ "abandoned" \in Phases
    BY DEF Abandon, Is, Phases
<1>2. QED
    BY <1>1, PhaseBooks

--------------------------------------------------------------------------------
(* The two commits of a charge *)

\* The record and the workspace's counter go up together, and the user is owed the cost.
LEMMA InsertBooks == ASSUME Books, NEW r \in Requests, Insert(r) PROVE Books'
<1>1. PICK old \in Call : old = call[r] /\ old.phase = "insert" /\ old.id \in Ids /\ old.cost \in Costs
    BY DEF Books, LedgerTypeOK, Entered, Insert, Is
<1>2. PICK x : x = RowOf(r)
    OBVIOUS
<1>3. /\ x \in Row /\ x.by = r /\ x.user = old.user /\ x.cost = old.cost /\ x.cost \in Nat
      /\ x.month = old.month /\ x.month \in Months
    BY <1>1, <1>2 DEF RowOf, Row, Call
<1>4. \A y \in rows : y.by # r
    BY <1>1 DEF Books, Posts, Posted
<1>5. x \notin rows /\ rows' = rows \cup {x} /\ IsFiniteSet(Tokens(rows))
    BY <1>2, <1>3, <1>4 DEF Insert, Books
<1>6. PICK new \in Call :
         /\ Moves(r, new) /\ new.id = old.id /\ new.user = old.user
         /\ \/ old.user = Nobody /\ new.phase = "recorded"
            \/ /\ old.user # Nobody /\ new.phase = "user" /\ new.cost = old.cost
               /\ new.month = old.month
    <2>1. CASE old.user = Nobody
        <3>1. PICK new : new = [old EXCEPT !.phase = "recorded", !.cost = 0, !.month = 0]
            OBVIOUS
        <3>2. new \in Call /\ new.phase = "recorded" /\ new.id = old.id /\ new.user = old.user
            <4>1. 0 \in Months
                BY DEF Months
            <4>2. QED
                BY <3>1, <4>1 DEF Call, Phases
        <3>3. Moves(r, new)
            BY <1>1, <2>1, <3>1 DEF Insert, Ends
        <3>4. QED
            BY <2>1, <3>2, <3>3
    <2>2. CASE old.user # Nobody
        <3>1. PICK new : new = [old EXCEPT !.phase = "user"]
            OBVIOUS
        <3>2. /\ new \in Call /\ new.phase = "user" /\ new.id = old.id /\ new.user = old.user
              /\ new.cost = old.cost /\ new.month = old.month
            BY <3>1 DEF Call, Phases
        <3>3. Moves(r, new)
            BY <1>1, <2>2, <3>1 DEF Insert, Enters
        <3>4. QED
            BY <2>2, <3>2, <3>3
    <2>3. QED
        BY <2>1, <2>2
<1>7. /\ call' \in [Requests -> Call]
      /\ call'[r] = new /\ \A q \in Requests \ {r} : call'[q] = call[q]
    BY <1>6 DEF Moves, Books, LedgerTypeOK
<1>8. /\ used \in [Months -> [Levels -> Nat]] /\ Workspace \in Levels
      /\ used' = [used EXCEPT ![x.month] = [used[x.month] EXCEPT ![Workspace] = used[x.month][Workspace] + x.cost]]
      /\ UNCHANGED <<cached, audit, audits, month>>
    BY <1>1, <1>3 DEF Insert, Books, LedgerTypeOK, Levels
<1>9. /\ used' \in [Months -> [Levels -> Nat]]
      /\ used'[x.month][Workspace] = used[x.month][Workspace] + x.cost
      /\ \A u \in Users : used'[x.month][u] = used[x.month][u]
      /\ \A m \in Months \ {x.month} : used'[m] = used[m]
    <2>1. PICK f \in [Levels -> Nat] : f = [used[x.month] EXCEPT ![Workspace] = used[x.month][Workspace] + x.cost]
        BY <1>3, <1>8
    <2>2. used' = [used EXCEPT ![x.month] = f]
        BY <1>8, <2>1
    <2>3. /\ f[Workspace] = used[x.month][Workspace] + x.cost
          /\ \A u \in Users : f[u] = used[x.month][u]
        BY <1>3, <1>8, <2>1 DEF Levels
    <2>4. QED
        BY <1>3, <1>8, <2>2, <2>3
<1>10. LedgerTypeOK'
    BY <1>3, <1>5, <1>7, <1>8, <1>9 DEF Books, LedgerTypeOK
<1>11. IsFiniteSet(Tokens(rows))'
    BY <1>3, <1>5, OneMoreRecord DEF Tokens
<1>12. /\ RowsOf(x.month)' = RowsOf(x.month) \cup {x} /\ x \notin RowsOf(x.month)
       /\ IsFiniteSet(Tokens(RowsOf(x.month)))
       /\ \A m : m # x.month => RowsOf(m)' = RowsOf(m)
    <2>1. RowsOf(x.month) \in SUBSET rows
        BY DEF RowsOf
    <2>2. QED
        BY <1>5, <2>1, FewerRecords DEF RowsOf
<1>13. ASSUME NEW l \in Levels
       PROVE  /\ l = Workspace \/ x.user = l =>
                    Total(l, RowsOf(x.month))' = Total(l, RowsOf(x.month)) + x.cost
              /\ ~(l = Workspace \/ x.user = l) =>
                    Total(l, RowsOf(x.month))' = Total(l, RowsOf(x.month))
    <2>1. Total(l, RowsOf(x.month))' = Total(l, RowsOf(x.month) \cup {x})
        BY <1>12 DEF Total, At, Tokens
    <2>2. QED
        BY <1>3, <1>12, <2>1, TotalGrows
<1>14. \A m : m # x.month => \A l : Total(l, RowsOf(m))' = Total(l, RowsOf(m))
    BY <1>12 DEF Total, At, Tokens
<1>15. /\ \A m : Spent(m) \in Nat /\ Spent(m) <= Spent(m)'
       /\ Spent(x.month)' = Spent(x.month) + x.cost
       /\ \A m : m # x.month => Spent(m)' = Spent(m)
    BY <1>3, <1>8, <1>13, <1>14, SumsAreNumbers DEF Spent
<1>16. ASSUME NEW q \in Requests PROVE Entered(q)'
    <2>1. CASE q = r
        <3>1. new.phase = "user" => new.user \in Users /\ RowOf(r)' = x
            BY <1>1, <1>2, <1>6, <1>7 DEF RowOf, Call
        <3>2. QED
            BY <1>1, <1>5, <1>6, <1>7, <2>1, <3>1 DEF Entered
    <2>2. CASE q # r
        <3>1. call'[q] = call[q] /\ RowOf(q)' = RowOf(q) /\ Entered(q) /\ call[q] \in Call
            BY <1>7, <2>2 DEF Books, LedgerTypeOK, RowOf
        <3>2. PICK n \in Nat, m \in Months : n = call[q].seen /\ m = call[q].month
            BY <3>1 DEF Call
        <3>3. Spent(m) \in Nat /\ Spent(m)' \in Nat /\ Spent(m) <= Spent(m)'
            BY <1>3, <1>15
        <3>4. call[q].phase = "fill" /\ call[q].level = Workspace => n <= Spent(m)'
            BY <3>1, <3>2, <3>3 DEF Entered
        <3>5. call[q].phase = "refused" /\ call[q].level = Workspace => Spent(m)' + Estimate > Limit
            BY <3>1, <3>2, <3>3 DEF Entered
        <3>6. QED
            BY <1>5, <3>1, <3>2, <3>4, <3>5 DEF Entered
    <2>3. QED
        BY <2>1, <2>2
<1>17. Posts'
    <2>1. call'[r].phase \in Posted
        BY <1>6, <1>7 DEF Posted
    <2>2. \A y \in rows : call'[y.by] = call[y.by]
        BY <1>4, <1>7 DEF Books, LedgerTypeOK, Row
    <2>3. QED
        BY <1>3, <1>4, <1>5, <2>1, <2>2 DEF Books, Posts
<1>18. Behind'
    <2>1. PICK m \in Months, s \in Nat, c \in Nat :
             m = audit.month /\ s = audit.sum[Workspace] /\ c = audit.counter
        BY <1>8 DEF Books, LedgerTypeOK, Audit
    <2>2. /\ used[m][Workspace] \in Nat /\ Spent(m) \in Nat
          /\ \/ used'[m][Workspace] = used[m][Workspace] + x.cost /\ Spent(m)' = Spent(m) + x.cost
             \/ used'[m][Workspace] = used[m][Workspace] /\ Spent(m)' = Spent(m)
        BY <1>8, <1>9, <1>15
    <2>3. QED
        BY <1>3, <1>8, <2>1, <2>2 DEF Books, Behind
<1>19. Sound(cached)'
    <2>1. CASE cached[Workspace] # Nobody
        <3>1. PICK n \in Nat, m \in Months : n = cached[Workspace].number /\ m = cached[Workspace].of
            BY <1>8, <2>1 DEF Books, LedgerTypeOK, Key
        <3>2. n <= Spent(m) /\ Spent(m) \in Nat /\ Spent(m)' \in Nat /\ Spent(m) <= Spent(m)'
            BY <1>3, <1>15, <2>1, <3>1 DEF Books, Sound
        <3>3. n <= Spent(m)'
            BY <3>2
        <3>4. QED
            BY <1>8, <3>1, <3>3 DEF Sound
    <2>2. CASE cached[Workspace] = Nobody
        BY <1>8, <2>2 DEF Sound
    <2>3. QED
        BY <2>1, <2>2
<1>20. Billed'
    <2>1. \A y \in rows : call'[y.by] = call[y.by]
        BY <1>4, <1>7 DEF Books, LedgerTypeOK, Row
    <2>2. ASSUME NEW u \in Users, x.user = u
          PROVE  Total(u, Missing(u, x.month))' = Total(u, Missing(u, x.month)) + x.cost
        <3>1. PICK S : S = Missing(u, x.month)
            OBVIOUS
        <3>2. Missing(u, x.month)' = S \cup {x} /\ x \notin S /\ S \in SUBSET rows
            BY <1>3, <1>5, <1>6, <1>7, <2>1, <2>2, <3>1 DEF Missing, RowsOf
        <3>3. IsFiniteSet(Tokens(S))
            BY <1>5, <3>2, FewerRecords
        <3>4. Total(u, S \cup {x}) = Total(u, S) + x.cost
            <4>1. x.cost \in Nat
                BY <1>3
            <4>2. x \notin S /\ (u = Workspace \/ x.user = u)
                BY <2>2, <3>2
            <4>3. QED
                BY <3>3, <4>1, <4>2, TotalGrows, Zenon
        <3>5. Total(u, Missing(u, x.month))' = Total(u, S \cup {x})
            BY <3>2 DEF Total, At, Tokens
        <3>6. QED
            BY <3>1, <3>4, <3>5
    <2>3. ASSUME NEW u \in Users, NEW m, x.user # u \/ x.month # m
          PROVE  Total(u, Missing(u, m))' = Total(u, Missing(u, m))
        <3>1. Missing(u, m)' = Missing(u, m)
            BY <1>5, <2>1, <2>3 DEF Missing, RowsOf
        <3>2. QED
            BY <3>1 DEF Total, At, Tokens
    <2>4. ASSUME NEW u \in Users, NEW m \in Months
          PROVE  used[m][u] \in Nat /\ Total(u, RowsOf(m)) \in Nat /\ Total(u, Missing(u, m)) \in Nat
        BY SumsAreNumbers, MissingIsNumber
    <2>5. SUFFICES ASSUME NEW m \in Months
                   PROVE  /\ used'[m][Workspace] <= Spent(m)'
                          /\ audits = 0 =>
                               /\ used'[m][Workspace] = Spent(m)'
                               /\ \A u \in Users : used'[m][u] + Total(u, Missing(u, m))' = Total(u, RowsOf(m))'
        BY <1>8 DEF Billed, Spent
    <2>6. /\ used[m][Workspace] \in Nat /\ used[m][Workspace] <= Spent(m) /\ Spent(m) \in Nat
          /\ audits = 0 => used[m][Workspace] = Spent(m)
          /\ audits = 0 => \A u \in Users : used[m][u] + Total(u, Missing(u, m)) = Total(u, RowsOf(m))
        BY <1>8, <1>15 DEF Books, Billed, Spent
    <2>7. CASE m = x.month
        <3>1. used'[m][Workspace] = used[m][Workspace] + x.cost /\ Spent(m)' = Spent(m) + x.cost
            BY <1>9, <1>15, <2>7
        <3>2. ASSUME audits = 0, NEW u \in Users
              PROVE  used'[m][u] + Total(u, Missing(u, m))' = Total(u, RowsOf(m))'
            <4>1. used'[m][u] = used[m][u] /\ u \in Levels /\ u # Workspace
                BY <1>9, <2>7 DEF Levels
            <4>2. used[m][u] + Total(u, Missing(u, m)) = Total(u, RowsOf(m))
                BY <2>6, <3>2
            <4>3. CASE x.user = u
                <5>1. /\ Total(u, Missing(u, m))' = Total(u, Missing(u, m)) + x.cost
                      /\ Total(u, RowsOf(m))' = Total(u, RowsOf(m)) + x.cost
                    BY <1>13, <2>2, <2>7, <4>1, <4>3
                <5>2. QED
                    BY <1>3, <2>4, <4>1, <4>2, <5>1
            <4>4. CASE x.user # u
                <5>1. /\ Total(u, Missing(u, m))' = Total(u, Missing(u, m))
                      /\ Total(u, RowsOf(m))' = Total(u, RowsOf(m))
                    BY <1>13, <2>3, <2>7, <4>1, <4>4
                <5>2. QED
                    BY <4>1, <4>2, <5>1
            <4>5. QED
                BY <4>3, <4>4
        <3>3. QED
            BY <1>3, <2>6, <3>1, <3>2
    <2>8. CASE m # x.month
        <3>1. used'[m] = used[m] /\ Spent(m)' = Spent(m)
            BY <1>9, <1>15, <2>8
        <3>2. \A u \in Users : /\ Total(u, Missing(u, m))' = Total(u, Missing(u, m))
                               /\ Total(u, RowsOf(m))' = Total(u, RowsOf(m))
            BY <1>14, <2>3, <2>8
        <3>3. QED
            BY <2>6, <3>1, <3>2
    <2>9. QED
        BY <2>7, <2>8
<1>21. QED
    BY <1>10, <1>11, <1>16, <1>17, <1>18, <1>19, <1>20 DEF Books

\* The user's counter goes up by the one record that was missing on it.
LEMMA ChargeUserBooks == ASSUME Books, NEW r \in Requests, ChargeUser(r) PROVE Books'
<1>1. PICK old \in Call : /\ old = call[r] /\ old.phase = "user" /\ old.id \in Ids /\ old.cost \in Costs
                          /\ old.user \in Users /\ RowOf(r) \in rows
    BY DEF Books, LedgerTypeOK, Entered, ChargeUser, Is
<1>2. PICK x \in rows : x = RowOf(r)
    BY <1>1
<1>3. /\ x.by = r /\ x.user = old.user /\ x.cost = old.cost /\ x.cost \in Nat
      /\ x.month = old.month /\ x.month \in Months
    BY <1>1, <1>2 DEF RowOf, Call
<1>4. \A y \in rows : y.by = r => y = x
    BY <1>3 DEF Books, Posts
<1>5. PICK new : new = [old EXCEPT !.phase = "recorded", !.cost = 0, !.month = 0]
    OBVIOUS
<1>6. new \in Call /\ new.phase = "recorded" /\ new.id = old.id /\ Moves(r, new)
    <2>1. 0 \in Months
        BY DEF Months
    <2>2. new \in Call /\ new.phase = "recorded" /\ new.id = old.id
        BY <1>5, <2>1 DEF Call, Phases
    <2>3. Moves(r, new)
        BY <1>1, <1>5 DEF ChargeUser, Ends
    <2>4. QED
        BY <2>2, <2>3
<1>7. /\ call' \in [Requests -> Call]
      /\ call'[r] = new /\ \A q \in Requests \ {r} : call'[q] = call[q]
    BY <1>6 DEF Moves, Books, LedgerTypeOK
<1>8. /\ used \in [Months -> [Levels -> Nat]] /\ old.user \in Levels /\ old.user # Workspace
      /\ used' = [used EXCEPT ![x.month] = [used[x.month] EXCEPT ![old.user] = used[x.month][old.user] + x.cost]]
      /\ UNCHANGED <<rows, cached, audit, audits, month>>
    BY <1>1, <1>3 DEF ChargeUser, Books, LedgerTypeOK, Levels
<1>9. /\ used' \in [Months -> [Levels -> Nat]]
      /\ used'[x.month][old.user] = used[x.month][old.user] + x.cost
      /\ \A u \in Users \ {old.user} : used'[x.month][u] = used[x.month][u]
      /\ \A m \in Months \ {x.month} : used'[m] = used[m]
      /\ \A m \in Months : used'[m][Workspace] = used[m][Workspace]
    <2>1. PICK f \in [Levels -> Nat] : f = [used[x.month] EXCEPT ![old.user] = used[x.month][old.user] + x.cost]
        BY <1>3, <1>8
    <2>2. used' = [used EXCEPT ![x.month] = f]
        BY <1>8, <2>1
    <2>3. /\ f[old.user] = used[x.month][old.user] + x.cost
          /\ \A u \in Users \ {old.user} : f[u] = used[x.month][u]
          /\ f[Workspace] = used[x.month][Workspace]
        BY <1>3, <1>8, <2>1 DEF Levels
    <2>4. QED
        BY <1>3, <1>8, <2>2, <2>3
<1>10. LedgerTypeOK'
    BY <1>7, <1>8, <1>9 DEF Books, LedgerTypeOK
<1>11. \A m : Spent(m)' = Spent(m) /\ \A l : Total(l, RowsOf(m))' = Total(l, RowsOf(m))
    BY <1>8, SameSums
<1>12. IsFiniteSet(Tokens(rows)) /\ IsFiniteSet(Tokens(rows))'
    BY <1>8 DEF Books, Tokens
<1>13. ASSUME NEW q \in Requests PROVE Entered(q)'
    <2>1. CASE q = r
        BY <1>1, <1>6, <1>7, <2>1 DEF Entered
    <2>2. CASE q # r
        BY <1>7, <1>8, <1>11, <2>2 DEF Books, Entered, RowOf
    <2>3. QED
        BY <2>1, <2>2
<1>14. \A y \in rows : y # x => y.by # r /\ call'[y.by] = call[y.by]
    BY <1>4, <1>7 DEF Books, LedgerTypeOK, Row
<1>15. Posts'
    <2>1. call'[x.by].phase \in Posted
        BY <1>3, <1>6, <1>7 DEF Posted
    <2>2. QED
        BY <1>8, <1>14, <2>1 DEF Books, Posts
<1>16. Behind'
    <2>1. audit.month \in Months
        BY DEF Books, LedgerTypeOK, Audit
    <2>2. QED
        BY <1>8, <1>9, <1>11, <2>1 DEF Books, Behind
<1>17. Sound(cached)'
    BY <1>8, <1>11 DEF Books, Sound
<1>18. Billed'
    <2>1. ASSUME NEW u \in Users, NEW m, u # old.user \/ m # x.month
          PROVE  Total(u, Missing(u, m))' = Total(u, Missing(u, m))
        <3>1. Missing(u, m)' = Missing(u, m)
            BY <1>3, <1>8, <1>14, <2>1 DEF Missing, RowsOf
        <3>2. QED
            BY <3>1 DEF Total, At, Tokens
    <2>2. PICK u \in Users, n \in Months : u = old.user /\ n = x.month
        BY <1>1, <1>3
    <2>3. Total(u, Missing(u, n)) = Total(u, Missing(u, n))' + x.cost /\ Total(u, Missing(u, n))' \in Nat
        <3>1. PICK S : S = Missing(u, n) \ {x}
            OBVIOUS
        <3>2. Missing(u, n) = S \cup {x} /\ x \notin S /\ S \in SUBSET rows
            BY <1>1, <1>3, <2>2, <3>1 DEF Missing, RowsOf
        <3>3. Missing(u, n)' = S
            BY <1>3, <1>6, <1>7, <1>8, <1>14, <3>1 DEF Missing, RowsOf
        <3>4. IsFiniteSet(Tokens(S))
            BY <1>12, <3>2, FewerRecords
        <3>5. Total(u, S \cup {x}) = Total(u, S) + x.cost /\ Total(u, S) \in Nat
            BY <1>3, <2>2, <3>2, <3>4, TotalGrows, TotalType
        <3>6. Total(u, Missing(u, n))' = Total(u, S)
            BY <3>3 DEF Total, At, Tokens
        <3>7. QED
            BY <3>2, <3>5, <3>6
    <2>4. used[n][u] \in Nat /\ used'[n][u] = used[n][u] + x.cost
        BY <1>8, <1>9, <2>2 DEF Levels
    <2>5. ASSUME audits' = 0, NEW m \in Months, NEW v \in Users
          PROVE  used'[m][v] + Total(v, Missing(v, m))' = Total(v, RowsOf(m))'
        <3>1. used[m][v] + Total(v, Missing(v, m)) = Total(v, RowsOf(m))
            BY <1>8, <2>5 DEF Books, Billed
        <3>2. Total(v, RowsOf(m))' = Total(v, RowsOf(m))
            BY <1>11
        <3>3. CASE v = u /\ m = n
            BY <1>3, <2>3, <2>4, <3>1, <3>2, <3>3
        <3>4. CASE v # u \/ m # n
            <4>1. used'[m][v] = used[m][v]
                BY <1>9, <2>2, <3>4
            <4>2. Total(v, Missing(v, m))' = Total(v, Missing(v, m))
                BY <2>1, <2>2, <3>4
            <4>3. QED
                BY <3>1, <3>2, <4>1, <4>2
        <3>5. QED
            BY <3>3, <3>4
    <2>6. ASSUME NEW m \in Months
          PROVE  /\ used'[m][Workspace] <= Total(Workspace, RowsOf(m))'
                 /\ audits' = 0 => used'[m][Workspace] = Total(Workspace, RowsOf(m))'
        BY <1>8, <1>9, <1>11 DEF Books, Billed
    <2>7. QED
        BY <2>5, <2>6 DEF Billed
<1>19. QED
    BY <1>10, <1>12, <1>13, <1>15, <1>16, <1>17, <1>18 DEF Books

--------------------------------------------------------------------------------
(* Steps of a reconciliation *)

\* No request moves and no record is added: what is left to show is said of the
\* counters and of the reconciliation.
LEMMA AuditBooks ==
    ASSUME Books, UNCHANGED <<call, rows, cached, month>>,
           used' \in [Months -> [Levels -> Nat]], audit' \in Audit, audits' \in 0 .. MaxAudits,
           audits' > 0, Behind', \A m \in Months : used'[m][Workspace] <= Spent(m)
    PROVE  Books'
<1>1. /\ \A m : Spent(m)' = Spent(m) /\ \A l : Total(l, RowsOf(m))' = Total(l, RowsOf(m))
      /\ IsFiniteSet(Tokens(rows))'
    BY SameSums DEF Books, Tokens
<1>2. LedgerTypeOK' /\ Posts'
    BY DEF Books, LedgerTypeOK, Posts
<1>3. \A r \in Requests : Entered(r)'
    BY <1>1 DEF Books, Entered, RowOf
<1>4. Billed'
    BY <1>1 DEF Billed, Spent
<1>5. Sound(cached)'
    BY <1>1 DEF Books, Sound
<1>6. QED
    BY <1>1, <1>2, <1>3, <1>4, <1>5 DEF Books

\* What is at hand while a reconciliation goes on.
LEMMA AuditHas ==
    ASSUME Books
    PROVE  /\ used \in [Months -> [Levels -> Nat]] /\ month \in Months
           /\ audit \in Audit /\ audit.month \in Months /\ audits \in 0 .. MaxAudits
           /\ audit.phase # "none" => audits # 0
           /\ \A m \in Months : used[m][Workspace] <= Spent(m)
           /\ \A m : Spent(m) \in Nat
           /\ Workspace \in Levels
BY SumsAreNumbers DEF Books, LedgerTypeOK, Audit, Billed, Behind, Spent, Levels

LEMMA AuditSumBooks == ASSUME Books, AuditSum PROVE Books'
<1>1. /\ UNCHANGED <<call, rows, used, cached, month>> /\ audits' = audits + 1 /\ audits < MaxAudits
      /\ audits \in 0 .. MaxAudits
    BY AuditHas DEF AuditSum
<1>2. PICK m \in Months : m = month
    BY AuditHas
<1>3. PICK sum : sum = [l \in Levels |-> Total(l, RowsOf(m))]
    OBVIOUS
<1>4. sum \in [Levels -> Nat] /\ sum[Workspace] = Spent(m)
    BY <1>3, SumsAreNumbers DEF Spent, Levels
<1>5. PICK new : new = [NoAudit EXCEPT !.phase = "summed", !.month = m, !.sum = sum]
    OBVIOUS
<1>6. audit' = new /\ new \in Audit /\ new.phase = "summed" /\ new.sum = sum /\ new.month = m
    <2>1. new \in Audit /\ new.phase = "summed" /\ new.sum = sum /\ new.month = m
        BY <1>4, <1>5 DEF NoAudit, Audit
    <2>2. audit' = new
        BY <1>2, <1>3, <1>5 DEF AuditSum
    <2>3. QED
        BY <2>1, <2>2
<1>7. audits' \in 0 .. MaxAudits /\ audits' > 0
    BY <1>1
<1>8. Spent(m) \in Nat /\ Spent(m)' = Spent(m)
    BY <1>1, AuditHas, SameSums
<1>9. Behind'
    BY <1>4, <1>6, <1>7, <1>8 DEF Behind
<1>10. QED
    BY <1>1, <1>6, <1>7, <1>9, AuditHas, AuditBooks

LEMMA AuditCompareBooks == ASSUME Books, AuditCompare PROVE Books'
<1>1. UNCHANGED <<call, rows, used, cached, audits, month>>
    BY DEF AuditCompare
<1>2. PICK old \in Audit, m \in Months :
         old = audit /\ old.phase = "summed" /\ m = old.month /\ old.sum[Workspace] <= Spent(m)
    BY AuditHas DEF AuditCompare, Books, Behind
<1>3. PICK todo \in SUBSET Users, n \in Nat :
         todo = {u \in Users : old.sum[u] > 0} /\ n = used[m][Workspace]
    <2>1. {u \in Users : old.sum[u] > 0} \in SUBSET Users
        OBVIOUS
    <2>2. used[m][Workspace] \in Nat
        BY AuditHas
    <2>3. QED
        BY <2>1, <2>2
<1>4. PICK new : new = [old EXCEPT !.phase = "compared", !.counter = n, !.todo = todo]
    OBVIOUS
<1>5. /\ audit' = new /\ new \in Audit
      /\ new.phase = "compared" /\ new.sum = old.sum /\ new.counter = n /\ new.month = m
    <2>1. audit' = new
        BY <1>2, <1>3, <1>4 DEF AuditCompare
    <2>2. new \in Audit /\ new.phase = "compared" /\ new.sum = old.sum /\ new.counter = n /\ new.month = m
        BY <1>2, <1>3, <1>4 DEF Audit
    <2>3. QED
        BY <2>1, <2>2
<1>6. /\ Spent(m) \in Nat /\ Spent(m)' = Spent(m) /\ old.sum[Workspace] \in Nat
      /\ used[m][Workspace] <= Spent(m) /\ audits # 0 /\ audits \in 0 .. MaxAudits
    BY <1>1, <1>2, AuditHas, SameSums DEF Audit
<1>7. Behind'
    BY <1>1, <1>2, <1>3, <1>5, <1>6 DEF Behind
<1>8. audits' \in 0 .. MaxAudits /\ audits' > 0
    BY <1>1, <1>6
<1>9. QED
    BY <1>1, <1>5, <1>7, <1>8, AuditHas, AuditBooks

\* What is committed changes the counters of the month reconciled and of no other.
LEMMA CommitsOne ==
    ASSUME Books, NEW f \in [Levels -> Nat], Commits(f)
    PROVE  /\ used' \in [Months -> [Levels -> Nat]] /\ used'[audit.month] = f
           /\ \A m \in Months \ {audit.month} : used'[m] = used[m]
BY AuditHas DEF Commits

LEMMA AuditUserBooks == ASSUME Books, NEW u \in Users, AuditUser(u) PROVE Books'
<1>1. UNCHANGED <<call, rows, cached, audits, month>>
    BY DEF AuditUser
<1>2. PICK old \in Audit, m \in Months : old = audit /\ old.phase = "compared" /\ m = old.month
    BY AuditHas DEF AuditUser
<1>3. u \in Levels /\ u # Workspace /\ old.sum \in [Levels -> Nat] /\ Workspace \in Levels
      /\ Workspace \notin old.dirty /\ used[m] \in [Levels -> Nat]
    BY <1>2, AuditHas DEF Levels, Audit
<1>4. PICK next : next = [old EXCEPT !.todo = old.todo \ {u}]
    OBVIOUS
<1>5. /\ next \in Audit /\ next.phase = "compared" /\ next.sum = old.sum /\ next.counter = old.counter
      /\ next.dirty = old.dirty /\ next.month = m
    BY <1>2, <1>4 DEF Audit
<1>6. /\ used' \in [Months -> [Levels -> Nat]]
      /\ \A n \in Months : used'[n][Workspace] = used[n][Workspace]
      /\ \E d \in SUBSET Users : audit' = [next EXCEPT !.dirty = d]
    <2>1. CASE used[m][u] = 0
        <3>1. /\ Commits([Overwrite(old.dirty) EXCEPT ![u] = Overwrite(old.dirty)[u] + old.sum[u]])
              /\ audit' = [next EXCEPT !.dirty = {}]
            BY <1>2, <1>4, <2>1 DEF AuditUser
        <3>2. /\ Overwrite(old.dirty) \in [Levels -> Nat]
              /\ Overwrite(old.dirty)[Workspace] = used[m][Workspace]
            BY <1>2, <1>3 DEF Overwrite
        <3>3. PICK f \in [Levels -> Nat] : f = Overwrite(old.dirty)
            BY <3>2
        <3>4. PICK v \in Nat : v = f[u] + old.sum[u]
            BY <1>3
        <3>5. PICK g \in [Levels -> Nat] : g = [f EXCEPT ![u] = v] /\ g[Workspace] = used[m][Workspace]
            <4>1. [f EXCEPT ![u] = v] \in [Levels -> Nat]
                OBVIOUS
            <4>2. [f EXCEPT ![u] = v][Workspace] = used[m][Workspace]
                BY <1>3, <3>2, <3>3
            <4>3. QED
                BY <4>1, <4>2
        <3>6. Commits(g)
            BY <3>1, <3>3, <3>4, <3>5
        <3>7. QED
            BY <1>2, <3>1, <3>5, <3>6, CommitsOne
    <2>2. CASE used[m][u] # 0
        <3>1. /\ UNCHANGED used
              /\ audit' = [next EXCEPT !.dirty = IF used[m][u] = old.sum[u] THEN next.dirty
                                                 ELSE next.dirty \cup {u}]
            BY <1>2, <1>4, <2>2 DEF AuditUser
        <3>2. next.dirty \in SUBSET Users /\ next.dirty \cup {u} \in SUBSET Users
            BY <1>5 DEF Audit
        <3>3. QED
            BY <3>1, <3>2, AuditHas
    <2>3. QED
        BY <2>1, <2>2
<1>7. PICK new : new = audit'
    OBVIOUS
<1>8. /\ new \in Audit /\ new.phase = "compared" /\ new.sum = old.sum /\ new.counter = old.counter
      /\ new.month = m
    BY <1>5, <1>6, <1>7 DEF Audit
<1>9. Spent(m)' = Spent(m) /\ \A n \in Months : used[n][Workspace] <= Spent(n)
    BY <1>1, SameSums, AuditHas
<1>10. Behind'
    BY <1>1, <1>2, <1>6, <1>7, <1>8, <1>9 DEF Behind, Books
<1>11. audits' \in 0 .. MaxAudits /\ audits' > 0
    BY <1>1, <1>2, AuditHas
<1>12. QED
    BY <1>1, <1>6, <1>7, <1>8, <1>9, <1>10, <1>11, AuditBooks

\* What is written in the end is the sum, or what the counter has gained since on top of it.
LEMMA AuditFinishBooks ==
    ASSUME Books, AuditFinish
    PROVE  /\ Books'
           /\ audit.sum[Workspace] = Spent(audit.month)
                => used'[audit.month][Workspace] = Spent(audit.month)
<1>1. UNCHANGED <<call, rows, cached, audits, month>> /\ audit' = NoAudit
    BY DEF AuditFinish
<1>2. PICK old \in Audit, m \in Months :
         /\ old = audit /\ old.phase = "compared" /\ m = old.month
         /\ old.sum[Workspace] <= Spent(m) /\ old.counter <= used[m][Workspace]
         /\ used[m][Workspace] + old.sum[Workspace] <= old.counter + Spent(m)
    BY AuditHas DEF AuditFinish, Books, Behind
<1>3. /\ old.sum \in [Levels -> Nat] /\ Workspace \in Levels /\ Workspace \notin old.dirty
      /\ old.counter \in Nat /\ Spent(m) \in Nat /\ used[m] \in [Levels -> Nat]
      /\ used[m][Workspace] <= Spent(m)
    BY <1>2, AuditHas DEF Levels, Audit
<1>4. PICK n \in Nat, s \in Nat : n = used[m][Workspace] /\ s = old.sum[Workspace]
    BY <1>3
<1>5. /\ used' \in [Months -> [Levels -> Nat]]
      /\ \A k \in Months \ {m} : used'[k] = used[k]
      /\ \/ old.counter = s /\ used'[m][Workspace] = n
         \/ old.counter = 0 /\ used'[m][Workspace] = n + s
         \/ used'[m][Workspace] = s
    <2>1. CASE ~Drifts
        <3>1. used' = used /\ old.counter = s
            BY <1>2, <1>4, <2>1 DEF AuditFinish, Drifts
        <3>2. QED
            BY <1>4, <3>1, AuditHas
    <2>2. CASE Drifts /\ old.counter = 0
        <3>1. Commits([Overwrite(old.dirty) EXCEPT ![Workspace] = Overwrite(old.dirty)[Workspace] + s])
            BY <1>2, <1>4, <2>2 DEF AuditFinish
        <3>2. PICK f \in [Levels -> Nat] : f = Overwrite(old.dirty) /\ f[Workspace] = n
            <4>1. Overwrite(old.dirty) \in [Levels -> Nat] /\ Overwrite(old.dirty)[Workspace] = n
                BY <1>2, <1>3, <1>4 DEF Overwrite
            <4>2. QED
                BY <4>1
        <3>3. PICK g \in [Levels -> Nat] : g = [f EXCEPT ![Workspace] = n + s] /\ g[Workspace] = n + s
            <4>1. n + s \in Nat
                OBVIOUS
            <4>2. [f EXCEPT ![Workspace] = n + s] \in [Levels -> Nat]
                BY <4>1
            <4>3. [f EXCEPT ![Workspace] = n + s][Workspace] = n + s
                BY <1>3
            <4>4. QED
                BY <4>2, <4>3
        <3>4. Commits(g)
            BY <3>1, <3>2, <3>3
        <3>5. QED
            BY <1>2, <2>2, <3>3, <3>4, CommitsOne
    <2>3. CASE Drifts /\ old.counter # 0
        <3>1. Commits(Overwrite(old.dirty \cup {Workspace}))
            BY <1>2, <2>3 DEF AuditFinish
        <3>2. PICK g \in [Levels -> Nat] : g = Overwrite(old.dirty \cup {Workspace}) /\ g[Workspace] = s
            <4>1. /\ Overwrite(old.dirty \cup {Workspace}) \in [Levels -> Nat]
                  /\ Overwrite(old.dirty \cup {Workspace})[Workspace] = s
                BY <1>2, <1>3, <1>4 DEF Overwrite
            <4>2. QED
                BY <4>1
        <3>3. QED
            BY <1>2, <3>1, <3>2, CommitsOne
    <2>4. QED
        BY <2>1, <2>2, <2>3
<1>6. used'[m][Workspace] <= Spent(m)
    BY <1>2, <1>3, <1>4, <1>5
<1>7. \A k \in Months : used'[k][Workspace] <= Spent(k)
    BY <1>5, <1>6, AuditHas
<1>8. NoAudit \in Audit /\ NoAudit.phase = "none"
    <2>1. 0 \in Months
        BY DEF Months
    <2>2. QED
        BY <2>1 DEF NoAudit, Audit
<1>9. Behind' /\ audits' \in 0 .. MaxAudits /\ audits' > 0
    BY <1>1, <1>2, <1>8, AuditHas DEF Behind
<1>10. Books'
    BY <1>1, <1>5, <1>7, <1>8, <1>9, AuditBooks
<1>11. ASSUME old.sum[Workspace] = Spent(m) PROVE used'[m][Workspace] = Spent(m)
    BY <1>2, <1>3, <1>4, <1>5, <1>11
<1>12. QED
    BY <1>2, <1>10, <1>11

--------------------------------------------------------------------------------
(* Steps of the keys and of the calendar *)

\* Neither the database nor a request changes: keys may go, and the month may turn.
LEMMA TimeBooks ==
    ASSUME Books, UNCHANGED <<call, rows, used, audit, audits>>, month' \in Months,
           cached' \in [Levels -> Key \cup {Nobody}],
           cached'[Workspace] # Nobody => cached'[Workspace] = cached[Workspace]
    PROVE  Books'
<1>1. /\ \A m : Spent(m)' = Spent(m) /\ \A l : Total(l, RowsOf(m))' = Total(l, RowsOf(m))
      /\ IsFiniteSet(Tokens(rows))'
    BY SameSums DEF Books, Tokens
<1>2. LedgerTypeOK' /\ Posts' /\ Behind' /\ Sound(cached)'
    BY <1>1 DEF Books, LedgerTypeOK, Posts, Behind, Sound
<1>3. \A r \in Requests : Entered(r)'
    BY <1>1 DEF Books, Entered, RowOf
<1>4. \A u, m : Total(u, Missing(u, m))' = Total(u, Missing(u, m))
    BY DEF Missing, RowsOf, Total, At, Tokens
<1>5. Billed'
    BY <1>1, <1>4 DEF Books, Billed
<1>6. QED
    BY <1>1, <1>2, <1>3, <1>5 DEF Books

LEMMA ExpireBooks == ASSUME Books, NEW l \in Levels, Expire(l) PROVE Books'
<1>1. UNCHANGED <<call, rows, used, audit, audits, month>> /\ cached' = [cached EXCEPT ![l] = Nobody]
    BY DEF Expire
<1>2. /\ cached' \in [Levels -> Key \cup {Nobody}] /\ month \in Months
      /\ cached'[Workspace] # Nobody => cached'[Workspace] = cached[Workspace]
    BY <1>1 DEF Books, LedgerTypeOK, Levels
<1>3. QED
    BY <1>1, <1>2, TimeBooks

LEMMA MonthTurnsBooks == ASSUME Books, MonthTurns PROVE Books'
<1>1. /\ UNCHANGED <<call, rows, used, cached, audit, audits>> /\ month < MaxTurns /\ month' = month + 1
      /\ month \in 0 .. MaxTurns /\ cached \in [Levels -> Key \cup {Nobody}]
    BY DEF MonthTurns, Books, LedgerTypeOK, Months
<1>2. month' \in Months
    BY <1>1 DEF Months
<1>3. QED
    BY <1>1, <1>2, TimeBooks

--------------------------------------------------------------------------------
(* The ledger *)

LEMMA LedgerInitBooks == LedgerInit => Books
<1> SUFFICES ASSUME LedgerInit PROVE Books
    OBVIOUS
<1>1. /\ call = [r \in Requests |-> NewCall] /\ rows = {} /\ audit = NoAudit /\ audits = 0
      /\ used = [m \in Months |-> [l \in Levels |-> 0]] /\ cached = [l \in Levels |-> Nobody]
      /\ month = 0
    BY DEF LedgerInit
<1>2. Workspace \in Levels /\ Users \subseteq Levels /\ 0 \in Months
    BY DEF Levels, Months
<1>3. NewCall \in Call /\ NewCall.phase = "new"
    BY <1>2 DEF NewCall, Call, Phases
<1>4. NoAudit \in Audit /\ NoAudit.phase = "none"
    BY <1>2 DEF NoAudit, Audit
<1>5. LedgerTypeOK
    BY <1>1, <1>2, <1>3, <1>4 DEF LedgerTypeOK
<1>6. \A r \in Requests : Entered(r)
    BY <1>1, <1>3 DEF Entered
<1>7. /\ IsFiniteSet(Tokens(rows)) /\ (\A l, m : Total(l, RowsOf(m)) = 0)
      /\ (\A u, m : Total(u, Missing(u, m)) = 0)
    <2>1. (\A m : RowsOf(m) = {}) /\ (\A u, m : Missing(u, m) = {})
        BY <1>1 DEF Missing, RowsOf
    <2>2. QED
        BY <1>1, <2>1, NoRecords
<1>8. Billed
    BY <1>1, <1>2, <1>7 DEF Billed
<1>9. Posts /\ Behind /\ Sound(cached)
    BY <1>1, <1>2, <1>4 DEF Posts, Behind, Sound
<1>10. QED
    BY <1>5, <1>6, <1>7, <1>8, <1>9 DEF Books

LEMMA ReconcileBooks == ASSUME Books, Reconcile PROVE Books'
BY AuditSumBooks, AuditCompareBooks, AuditUserBooks, AuditFinishBooks DEF Reconcile

LEMMA LedgerNextBooks == ASSUME Books, LedgerNext PROVE Books'
<1>1. ASSUME NEW r \in Requests, NEW c \in Costs, Answered(r, c) PROVE Books'
    BY <1>1, OwesBooks DEF Answered, Is
<1>2. ASSUME NEW r \in Requests, Charge(r) PROVE Books'
    BY <1>2, SelectBooks, InsertBooks, ChargeUserBooks DEF Charge
<1>3. QED
    BY <1>1, <1>2, AskBooks, CheckBooks, AbandonBooks, ExpireBooks, MonthTurnsBooks, ReconcileBooks
    DEF LedgerNext

\* The ledger at rest.
LEMMA LedgerRests == ASSUME Books, UNCHANGED ledgerVars PROVE Books'
<1>1. UNCHANGED <<call, rows, used, cached, audit, audits, month>>
    BY DEF ledgerVars
<1>2. cached \in [Levels -> Key \cup {Nobody}] /\ month \in Months
    BY DEF Books, LedgerTypeOK
<1>3. QED
    BY <1>1, <1>2, TimeBooks

\* No number the check is given is above what had been spent in the month it is of.
LEMMA RefusedInVain == Books => NoFalseRefusal
BY DEF Books, Entered, NoFalseRefusal, Is, Spent

\* Only the last step of a reconciliation ends it.
LEMMA LedgerNextRepairs ==
    ASSUME Books, LedgerNext, audit.phase = "compared", audit'.phase = "none",
           audit.sum[Workspace] = Total(Workspace, RowsOf(audit.month))
    PROVE  used'[audit.month][Workspace] = Total(Workspace, RowsOf(audit.month))
<1>1. audit' # audit
    OBVIOUS
<1>2. Reconcile
    BY <1>1 DEF LedgerNext, Ask, Check, ReadCached, ReadCounter, Fill, Charge, Select, Insert,
                ChargeUser, Abandon, Answered, Expire, MonthTurns
<1>3. ~AuditSum /\ ~AuditCompare
    BY DEF AuditSum, AuditCompare
<1>4. ~ \E u \in Users : AuditUser(u)
    <2>1. SUFFICES ASSUME NEW u \in Users, AuditUser(u) PROVE FALSE
        OBVIOUS
    <2>2. PICK old \in Audit : old = audit /\ old.phase = "compared"
        BY DEF Books, LedgerTypeOK
    <2>3. \E d : audit' = [[old EXCEPT !.todo = old.todo \ {u}] EXCEPT !.dirty = d]
        BY <2>1, <2>2 DEF AuditUser
    <2>4. audit'.phase = "compared"
        BY <2>2, <2>3 DEF Audit
    <2>5. QED
        BY <2>4
<1>5. AuditFinish
    BY <1>2, <1>3, <1>4 DEF Reconcile
<1>6. QED
    BY <1>5, AuditFinishBooks DEF Spent
================================================================================
