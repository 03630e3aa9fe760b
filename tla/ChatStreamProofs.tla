---------------------------- MODULE ChatStreamProofs ----------------------------
(***************************************************************************)
(* ChatStream over the TokenLedger for any number of requests, ids, chunks *)
(* and reconciliations: what is replayed, what is charged, and the ledger's *)
(* counters, whose invariant TokenLedgerProofs shows to be kept.           *)
(***************************************************************************)
EXTENDS ChatStream, TokenLedgerProofs, FiniteSetTheorems, TLAPS

USE ChunksAssumption DEF ChunksAssumption

Early    == {"new", "check", "fill", "refused"}
Past     == {"select", "insert", "user", "recorded", "abandoned"}
Unwitnessed == {"select", "insert", "abandoned"}
Booked   == {"user", "recorded", "abandoned"}
Under    == {"stream", "yield", "save", "account"}

\* The form of a request at the ledger, with whatever numbers in values.
CallIn(values) == [phase : Phases, kind : {"chat", "direct"}, id : Ids \cup {Nobody},
                   user : Users \cup {Nobody}, level : values, seen : values, cost : values,
                   month : values]

Shape == \E values : call \in [Requests -> CallIn(values)]

Typed ==
    /\ Shape
    /\ turn \in [Requests -> Turn]
    /\ buffer \in [Ids -> Seq(Entry)]
    /\ asked \subseteq Ids

\* A request and its stream: one that is under way has been admitted, one that is being
\* charged has been asked, and what has been delivered has been asked in the end.
Stage(r) ==
    /\ turn[r].at \in Under => Is(r, "admitted") /\ call[r].kind = "chat"
    /\ call[r].phase # "new" => call[r].id \in Ids
    /\ call[r].phase \in Early => turn[r].at = "none"
    /\ call[r].kind = "chat" /\ call[r].phase \in Past => call[r].id \in asked
    /\ call[r].phase \in {"user", "recorded"} => Recorded(call[r].id) # {}
    /\ turn[r].at = "over" /\ ~turn[r].fault /\ turn[r].got > 0 => call[r].id \in asked
    /\ turn[r].at = "none" => turn[r].got = 0

Stages == \A r \in Requests : Stage(r)

\* Two questions that are being charged have different correlation ids.
Distinct ==
    \A r, q \in Requests :
        /\ call[r].kind = "chat" /\ call[q].kind = "chat"
        /\ call[r].phase \in Past /\ call[q].phase \in Past
        /\ call[r].id = call[q].id
        => r = q

\* A record is that of a request that has come so far, and the only one.
Receipts ==
    /\ \A x \in rows : x.by \in Requests /\ x.id = call[x.by].id /\ call[x.by].phase \in Booked
    /\ \A x, y \in rows : x.by = y.by => x = y

\* A question that has been asked is recorded, or will be, or has been abandoned.
Accounted ==
    \A k \in asked :
        \/ Recorded(k) # {}
        \/ \E q \in Requests : /\ call[q].kind = "chat" /\ call[q].id = k
                               /\ call[q].phase \in Unwitnessed

\* Before a chunk in a replay list come the earlier chunks of the same answer.
Order ==
    \A k \in Ids : \A p \in 1 .. Len(buffer[k]) : \A j \in 0 .. buffer[k][p].index - 1 :
        \E i \in 1 .. p - 1 : buffer[k][i] = [by |-> buffer[k][p].by, index |-> j]

\* A stream that still buffers has in its list what it has received.
Kept ==
    \A r \in Requests : Streams(r) /\ turn[r].buffering =>
        \A j \in 0 .. turn[r].got - 1 :
            \E i \in 1 .. Len(buffer[call[r].id]) : buffer[call[r].id][i] = [by |-> r, index |-> j]

Charging == Stages /\ Distinct /\ Receipts /\ Accounted

IInv == Typed /\ Charging /\ Order /\ Kept

--------------------------------------------------------------------------------
(* Steps of one request at the ledger *)

\* What a step that keeps the records may do to a request.
Allowed(r, new) ==
    LET old == call[r] IN
    /\ new.kind = old.kind /\ new.id = old.id
    /\ old.phase # "new" /\ (old.phase = "admitted" => old.kind = "direct")
    /\ new.phase \in Early => old.phase \in Early
    /\ new.phase \in Past => old.phase \in Past \/ old.kind = "direct"
    /\ new.phase \in {"user", "recorded"} => old.phase \in {"user", "recorded"} \/ Recorded(old.id) # {}
    /\ old.phase \in Booked => new.phase \in Booked
    /\ old.phase \in Unwitnessed => new.phase \in Unwitnessed \/ Recorded(old.id) # {}

LEMMA CallMoves ==
    ASSUME IInv, NEW r \in Requests, NEW values, NEW new \in CallIn(values), Moves(r, new),
           Allowed(r, new), UNCHANGED <<rows, chatVars>>
    PROVE  IInv'
<1> USE DEF chatVars
<1>1. PICK old : call \in [Requests -> CallIn(old)]
    BY DEF IInv, Typed, Shape
<1>2. call \in [Requests -> CallIn(old \cup values)] /\ new \in CallIn(old \cup values)
    BY <1>1 DEF CallIn
<1>3. /\ call' \in [Requests -> CallIn(old \cup values)]
      /\ call'[r] = new /\ \A q \in Requests \ {r} : call'[q] = call[q]
    BY <1>2 DEF Moves
<1>4. Typed'
    BY <1>3 DEF IInv, Typed, Shape
<1>5. \A q \in Requests : call'[q].kind = call[q].kind /\ call'[q].id = call[q].id
    BY <1>3 DEF Allowed
<1>6. \A k : Recorded(k)' = Recorded(k)
    BY DEF Recorded
<1>7. Stages'
    <2>1. ASSUME NEW q \in Requests, q # r PROVE Stage(q)'
        BY <1>3, <1>6, <2>1 DEF IInv, Charging, Stages, Stage, Is
    <2>2. Stage(r)'
        <3>1. Stage(r) /\ new.kind = call[r].kind /\ new.id = call[r].id /\ call'[r] = new
            BY <1>3 DEF IInv, Charging, Stages, Allowed
        <3>2. turn[r].at \notin Under
            BY <3>1 DEF Stage, Is, Allowed
        <3>3. call[r].id \in Ids
            BY <3>1 DEF Stage, Allowed
        <3>4. QED
            BY <1>6, <3>1, <3>2, <3>3 DEF Stage, Is, Allowed
    <2>3. QED
        BY <2>1, <2>2 DEF Stages
<1>8. Distinct'
    <2>1. ASSUME NEW q \in Requests, call'[q].kind = "chat", call'[q].phase \in Past
          PROVE  call[q].kind = "chat" /\ call[q].phase \in Past
        BY <1>3, <2>1 DEF Allowed
    <2>2. QED
        BY <1>5, <2>1 DEF IInv, Charging, Distinct
<1>9. Receipts'
    <2>1. \A x \in rows : call'[x.by].phase \in Booked
        BY <1>3 DEF IInv, Charging, Receipts, Allowed
    <2>2. QED
        BY <1>5, <2>1 DEF IInv, Charging, Receipts
<1>10. Accounted'
    <2>1. ASSUME NEW k \in asked, Recorded(k) = {}
          PROVE  \E q \in Requests : /\ call'[q].kind = "chat" /\ call'[q].id = k
                                     /\ call'[q].phase \in Unwitnessed
        <3>1. PICK q \in Requests : /\ call[q].kind = "chat" /\ call[q].id = k
                                    /\ call[q].phase \in Unwitnessed
            BY <2>1 DEF IInv, Charging, Accounted
        <3>2. call'[q].phase \in Unwitnessed
            BY <1>3, <2>1, <3>1 DEF Allowed
        <3>3. QED
            BY <1>5, <3>1, <3>2
    <2>2. QED
        BY <1>6, <2>1 DEF Accounted
<1>11. Order'
    BY DEF IInv, Order
<1>12. Kept'
    BY <1>5 DEF IInv, Kept, Streams
<1>13. QED
    BY <1>4, <1>7, <1>8, <1>9, <1>10, <1>11, <1>12 DEF IInv, Charging

\* A step in which no request moves.
LEMMA NoneMoves ==
    ASSUME IInv, UNCHANGED <<call, rows, chatVars>>
    PROVE  IInv'
<1>1. Typed' /\ Order' /\ Kept'
    BY DEF IInv, Typed, Shape, Order, Kept, Streams, chatVars
<1>2. \A k : Recorded(k)' = Recorded(k)
    BY DEF Recorded
<1>3. Stages' /\ Distinct' /\ Receipts' /\ Accounted'
    BY <1>2 DEF IInv, Charging, Stages, Stage, Is, Distinct, Receipts, Accounted, chatVars
<1>4. QED
    BY <1>1, <1>3 DEF IInv, Charging

\* A request is the record of its form, and stays one when a field changes.
LEMMA OneCall ==
    ASSUME IInv, NEW r \in Requests
    PROVE  \E values : call[r] \in CallIn(values)
BY DEF IInv, Typed, Shape

LEMMA PhaseKeeps ==
    ASSUME IInv, NEW r \in Requests, NEW p \in Phases, NEW new,
           new.phase = p /\ new.kind = call[r].kind /\ new.id = call[r].id,
           Moves(r, new), \E values : new \in CallIn(values),
           call[r].phase # "new" /\ (call[r].phase = "admitted" => call[r].kind = "direct"),
           p \in Early => call[r].phase \in Early,
           p \in Past => call[r].phase \in Past \/ call[r].kind = "direct",
           p \in {"user", "recorded"} => call[r].phase \in {"user", "recorded"} \/ Recorded(call[r].id) # {},
           call[r].phase \in Booked => p \in Booked,
           call[r].phase \in Unwitnessed => p \in Unwitnessed \/ Recorded(call[r].id) # {},
           UNCHANGED <<rows, chatVars>>
    PROVE  IInv'
<1>1. PICK values : new \in CallIn(values)
    OBVIOUS
<1>2. Allowed(r, new)
    BY DEF Allowed
<1>3. QED
    BY <1>1, <1>2, CallMoves

\* A request whose phase alone changes, or with it what it is to be charged.
LEMMA EntersForm ==
    ASSUME IInv, NEW r \in Requests, NEW p \in Phases, Enters(r, p) \/ Ends(r, p)
    PROVE  \E new : /\ Moves(r, new) /\ \E values : new \in CallIn(values)
                    /\ new.phase = p /\ new.kind = call[r].kind /\ new.id = call[r].id
<1>1. PICK old, values : old \in CallIn(values) /\ old = call[r]
    BY OneCall
<1>2. /\ [old EXCEPT !.phase = p] \in CallIn(values)
      /\ [old EXCEPT !.phase = p].phase = p
      /\ [old EXCEPT !.phase = p].kind = old.kind /\ [old EXCEPT !.phase = p].id = old.id
    BY <1>1 DEF CallIn
<1>3. old \in CallIn(values \cup {0})
    BY <1>1 DEF CallIn
<1>4. /\ [old EXCEPT !.phase = p, !.cost = 0, !.month = 0] \in CallIn(values \cup {0})
      /\ [old EXCEPT !.phase = p, !.cost = 0, !.month = 0].phase = p
      /\ [old EXCEPT !.phase = p, !.cost = 0, !.month = 0].kind = old.kind
      /\ [old EXCEPT !.phase = p, !.cost = 0, !.month = 0].id = old.id
    BY <1>3 DEF CallIn
<1>5. CASE Enters(r, p)
    BY <1>1, <1>2, <1>5 DEF Enters
<1>6. CASE Ends(r, p)
    BY <1>1, <1>4, <1>6 DEF Ends
<1>7. QED
    BY <1>5, <1>6

LEMMA Goes1 ==
    ASSUME IInv, NEW r \in Requests, NEW p \in Phases, Enters(r, p) \/ Ends(r, p),
           call[r].phase # "new" /\ (call[r].phase = "admitted" => call[r].kind = "direct"),
           p \in Early => call[r].phase \in Early,
           p \in Past => call[r].phase \in Past \/ call[r].kind = "direct",
           p \in {"user", "recorded"} => call[r].phase \in {"user", "recorded"} \/ Recorded(call[r].id) # {},
           call[r].phase \in Booked => p \in Booked,
           call[r].phase \in Unwitnessed => p \in Unwitnessed \/ Recorded(call[r].id) # {},
           UNCHANGED <<rows, chatVars>>
    PROVE  IInv'
<1>1. PICK new : /\ Moves(r, new) /\ \E values : new \in CallIn(values)
                 /\ new.phase = p /\ new.kind = call[r].kind /\ new.id = call[r].id
    BY EntersForm
<1>2. QED
    BY <1>1, PhaseKeeps

LEMMA SelectKeeps == ASSUME IInv, NEW r \in Requests, Select(r), UNCHANGED chatVars PROVE IInv'
<1>1. call[r].phase = "select" /\ UNCHANGED <<rows, chatVars>>
    BY DEF Select, Is
<1>2. Recorded(call[r].id) = {} => Cardinality(Recorded(call[r].id)) = 0
    BY FS_EmptySet
<1>3. \/ Moves(r, [call[r] EXCEPT !.phase = "insert", !.month = month])
      \/ Ends(r, "recorded") /\ Recorded(call[r].id) # {}
      \/ Ends(r, "unpaid") /\ Recorded(call[r].id) # {}
    <2>1. CASE Cardinality(Recorded(call[r].id)) = 0
        BY <2>1 DEF Select
    <2>2. CASE Cardinality(Recorded(call[r].id)) = 1
        BY <1>2, <2>2 DEF Select
    <2>3. CASE Cardinality(Recorded(call[r].id)) \notin {0, 1}
        BY <1>2, <2>3 DEF Select
    <2>4. QED
        BY <2>1, <2>2, <2>3
<1>4. "insert" \in Phases /\ "recorded" \in Phases /\ "unpaid" \in Phases
    BY DEF Phases
<1>5. CASE Moves(r, [call[r] EXCEPT !.phase = "insert", !.month = month])
    <2>1. PICK old, values : old \in CallIn(values \cup {month}) /\ old = call[r]
        BY OneCall DEF CallIn
    <2>2. PICK new : new = [old EXCEPT !.phase = "insert", !.month = month]
        OBVIOUS
    <2>3. /\ new \in CallIn(values \cup {month}) /\ new.phase = "insert"
          /\ new.kind = old.kind /\ new.id = old.id
        BY <1>4, <2>1, <2>2 DEF CallIn
    <2>4. Moves(r, new)
        BY <1>5, <2>1, <2>2
    <2>5. QED
        BY <1>1, <1>4, <2>1, <2>3, <2>4, PhaseKeeps DEF Early, Past, Booked, Unwitnessed
<1>6. CASE Ends(r, "recorded") /\ Recorded(call[r].id) # {}
    BY <1>1, <1>4, <1>6, Goes1 DEF Early, Past, Booked, Unwitnessed
<1>7. CASE Ends(r, "unpaid") /\ Recorded(call[r].id) # {}
    BY <1>1, <1>4, <1>7, Goes1 DEF Early, Past, Booked, Unwitnessed
<1>8. QED
    BY <1>3, <1>5, <1>6, <1>7

LEMMA AbandonKeeps == ASSUME IInv, NEW r \in Requests, Abandon(r), UNCHANGED chatVars PROVE IInv'
<1>1. /\ call[r].phase \in {"select", "insert", "user"} \/ (call[r].phase = "admitted" /\ call[r].kind = "direct")
      /\ Ends(r, "abandoned") /\ UNCHANGED <<rows, chatVars>>
    BY DEF Abandon, Is
<1>2. "abandoned" \in Phases
    BY DEF Phases
<1>3. QED
    BY <1>1, <1>2, Goes1 DEF Early, Past, Booked, Unwitnessed

LEMMA ChargeUserKeeps == ASSUME IInv, NEW r \in Requests, ChargeUser(r), UNCHANGED chatVars PROVE IInv'
<1>1. call[r].phase = "user" /\ Ends(r, "recorded") /\ UNCHANGED <<rows, chatVars>>
    BY DEF ChargeUser, Is
<1>2. "recorded" \in Phases
    BY DEF Phases
<1>3. QED
    BY <1>1, <1>2, Goes1 DEF Early, Past, Booked, Unwitnessed

LEMMA AnsweredKeeps ==
    ASSUME IInv, NEW r \in Requests, NEW c, Answered(r, c), UNCHANGED chatVars
    PROVE  IInv'
<1>1. /\ call[r].phase = "admitted" /\ call[r].kind = "direct" /\ UNCHANGED <<rows, chatVars>>
      /\ Moves(r, [call[r] EXCEPT !.phase = "select", !.cost = c])
    BY DEF Answered, Is
<1>2. PICK old, values : old \in CallIn(values \cup {c}) /\ old = call[r]
    BY OneCall DEF CallIn
<1>3. PICK new : new = [old EXCEPT !.phase = "select", !.cost = c]
    OBVIOUS
<1>4. new \in CallIn(values \cup {c}) /\ new.phase = "select" /\ new.kind = old.kind /\ new.id = old.id
    BY <1>2, <1>3 DEF CallIn, Phases
<1>5. Moves(r, new) /\ "select" \in Phases
    BY <1>1, <1>2, <1>3 DEF Phases
<1>6. QED
    BY <1>1, <1>2, <1>4, <1>5, PhaseKeeps DEF Early, Past, Booked, Unwitnessed

\* The check moves a request on, admits or refuses it.
LEMMA JudgeKeeps ==
    ASSUME IInv, NEW r \in Requests, call[r].phase \in {"check", "fill"}, NEW n, NEW m, Judge(r, n, m),
           UNCHANGED <<rows, chatVars>>
    PROVE  IInv'
<1>1. PICK old, values : old \in CallIn(values \cup {0, m} \cup Levels \cup {Nobody}) /\ old = call[r]
    BY OneCall DEF CallIn
<1> DEFINE all == values \cup {0, m} \cup Levels \cup {Nobody}
<1>2. \E new \in CallIn(all) :
         /\ Moves(r, new) /\ new.kind = old.kind /\ new.id = old.id
         /\ new.phase \in {"refused", "admitted", "check"}
    <2>1. /\ [old EXCEPT !.phase = "refused", !.seen = 0, !.month = m] \in CallIn(all)
          /\ [old EXCEPT !.phase = "refused", !.seen = 0, !.month = m].kind = old.kind
          /\ [old EXCEPT !.phase = "refused", !.seen = 0, !.month = m].id = old.id
          /\ [old EXCEPT !.phase = "refused", !.seen = 0, !.month = m].phase = "refused"
        BY <1>1 DEF CallIn, Phases
    <2>2. /\ [old EXCEPT !.phase = "admitted", !.seen = 0, !.month = 0] \in CallIn(all)
          /\ [old EXCEPT !.phase = "admitted", !.seen = 0, !.month = 0].kind = old.kind
          /\ [old EXCEPT !.phase = "admitted", !.seen = 0, !.month = 0].id = old.id
          /\ [old EXCEPT !.phase = "admitted", !.seen = 0, !.month = 0].phase = "admitted"
        BY <1>1 DEF CallIn, Phases
    <2>3. old.user \in all
        BY <1>1 DEF CallIn, Levels
    <2>4. /\ [old EXCEPT !.phase = "check", !.level = old.user, !.seen = 0, !.month = 0] \in CallIn(all)
          /\ [old EXCEPT !.phase = "check", !.level = old.user, !.seen = 0, !.month = 0].kind = old.kind
          /\ [old EXCEPT !.phase = "check", !.level = old.user, !.seen = 0, !.month = 0].id = old.id
          /\ [old EXCEPT !.phase = "check", !.level = old.user, !.seen = 0, !.month = 0].phase = "check"
        BY <1>1, <2>3 DEF CallIn, Phases
    <2>5. \/ Moves(r, [old EXCEPT !.phase = "refused", !.seen = 0, !.month = m])
          \/ Moves(r, [old EXCEPT !.phase = "admitted", !.seen = 0, !.month = 0])
          \/ Moves(r, [old EXCEPT !.phase = "check", !.level = old.user, !.seen = 0, !.month = 0])
        BY <1>1 DEF Judge
    <2>6. QED
        BY <2>1, <2>2, <2>4, <2>5
<1>3. PICK new \in CallIn(all) :
         /\ Moves(r, new) /\ new.kind = old.kind /\ new.id = old.id
         /\ new.phase \in {"refused", "admitted", "check"}
    BY <1>2
<1>4. PICK p \in Phases : p = new.phase /\ p \in {"refused", "admitted", "check"}
    BY <1>3 DEF Phases
<1>5. QED
    BY <1>1, <1>3, <1>4, PhaseKeeps DEF Early, Past, Booked, Unwitnessed

LEMMA CheckKeeps == ASSUME IInv, NEW r \in Requests, Check(r), UNCHANGED chatVars PROVE IInv'
<1>1. CASE ReadCached(r)
    BY <1>1, JudgeKeeps DEF ReadCached, Is
<1>2. CASE Fill(r)
    BY <1>2, JudgeKeeps DEF Fill, Is
<1>3. CASE ReadCounter(r)
    <2>1. /\ call[r].phase = "check" /\ UNCHANGED <<rows, chatVars>>
          /\ Moves(r, [call[r] EXCEPT !.phase = "fill", !.seen = used[month][call[r].level], !.month = month])
        BY <1>3 DEF ReadCounter, Is
    <2>2. PICK n : n = used[month][call[r].level]
        OBVIOUS
    <2>3. PICK old, values : old \in CallIn(values \cup {n, month}) /\ old = call[r]
        BY OneCall DEF CallIn
    <2>4. PICK new : new = [old EXCEPT !.phase = "fill", !.seen = n, !.month = month]
        OBVIOUS
    <2>5. new \in CallIn(values \cup {n, month}) /\ new.phase = "fill" /\ new.kind = old.kind /\ new.id = old.id
        BY <2>3, <2>4 DEF CallIn, Phases
    <2>6. Moves(r, new) /\ "fill" \in Phases
        BY <2>1, <2>2, <2>3, <2>4 DEF Phases
    <2>7. QED
        BY <2>1, <2>3, <2>5, <2>6, PhaseKeeps DEF Early, Past, Booked, Unwitnessed
<1>4. QED
    BY <1>1, <1>2, <1>3 DEF Check

LEMMA AskKeeps ==
    ASSUME IInv, NEW r \in Requests, NEW kind \in {"chat", "direct"}, NEW k \in Ids,
           NEW u \in Users \cup {Nobody}, Ask(r, kind, k, u), UNCHANGED chatVars
    PROVE  IInv'
<1> USE DEF chatVars
<1>1. /\ call[r].phase = "new" /\ UNCHANGED <<rows, chatVars>>
      /\ Moves(r, [call[r] EXCEPT !.phase = "check", !.kind = kind, !.id = k, !.user = u])
    BY DEF Ask, Is
<1>2. PICK values : call \in [Requests -> CallIn(values)]
    BY DEF IInv, Typed, Shape
<1>3. PICK old \in CallIn(values) : old = call[r]
    BY <1>2
<1>4. PICK new : new = [old EXCEPT !.phase = "check", !.kind = kind, !.id = k, !.user = u]
    OBVIOUS
<1>5. new \in CallIn(values) /\ new.phase = "check" /\ new.id = k
    BY <1>3, <1>4 DEF CallIn, Phases
<1>6. /\ call' \in [Requests -> CallIn(values)]
      /\ call'[r] = new /\ \A q \in Requests \ {r} : call'[q] = call[q]
    BY <1>1, <1>2, <1>3, <1>4, <1>5 DEF Moves
<1>7. Typed'
    BY <1>6 DEF IInv, Typed, Shape
<1>8. \A j : Recorded(j)' = Recorded(j)
    BY <1>1 DEF Recorded
<1>9. turn[r].at = "none" /\ turn[r].got = 0
    BY <1>1 DEF IInv, Charging, Stages, Stage, Early
<1>10. Stages'
    <2>1. ASSUME NEW q \in Requests, q # r PROVE Stage(q)'
        BY <1>6, <1>8, <2>1 DEF IInv, Charging, Stages, Stage, Is
    <2>2. Stage(r)'
        BY <1>5, <1>6, <1>9 DEF Stage, Is, Past, Under
    <2>3. QED
        BY <2>1, <2>2 DEF Stages
<1>11. Distinct'
    BY <1>5, <1>6 DEF IInv, Charging, Distinct, Past
<1>12. Receipts'
    BY <1>1, <1>6 DEF IInv, Charging, Receipts, Booked
<1>13. Accounted'
    BY <1>1, <1>6, <1>8 DEF IInv, Charging, Accounted, Unwitnessed
<1>14. Order'
    BY DEF IInv, Order
<1>15. Kept'
    BY <1>6, <1>9 DEF IInv, Kept, Streams
<1>16. QED
    BY <1>7, <1>10, <1>11, <1>12, <1>13, <1>14, <1>15 DEF IInv, Charging

LEMMA InsertKeeps == ASSUME IInv, NEW r \in Requests, Insert(r), UNCHANGED chatVars PROVE IInv'
<1> USE DEF chatVars
<1>1. /\ call[r].phase = "insert" /\ UNCHANGED chatVars /\ rows' = rows \cup {RowOf(r)}
      /\ Ends(r, "recorded") \/ Enters(r, "user")
    BY DEF Insert, Is
<1>2. PICK p \in {"recorded", "user"} : Ends(r, p) \/ Enters(r, p)
    BY <1>1
<1>3. p \in Phases
    BY DEF Phases
<1>4. PICK new, more : /\ Moves(r, new) /\ new \in CallIn(more)
                       /\ new.phase = p /\ new.kind = call[r].kind /\ new.id = call[r].id
    BY <1>2, <1>3, EntersForm
<1>5. PICK values : call \in [Requests -> CallIn(values)]
    BY DEF IInv, Typed, Shape
<1>6. call \in [Requests -> CallIn(values \cup more)] /\ new \in CallIn(values \cup more)
    BY <1>4, <1>5 DEF CallIn
<1>7. /\ call' \in [Requests -> CallIn(values \cup more)]
      /\ call'[r] = new /\ \A q \in Requests \ {r} : call'[q] = call[q]
    BY <1>4, <1>6 DEF Moves
<1>8. \A q \in Requests : call'[q].kind = call[q].kind /\ call'[q].id = call[q].id
    BY <1>4, <1>7
<1>9. Typed'
    BY <1>7 DEF IInv, Typed, Shape
<1>10. RowOf(r).by = r /\ RowOf(r).id = call[r].id
    BY DEF RowOf
<1>a. PICK id : id = call[r].id /\ id = call'[r].id
    BY <1>8
<1>b. RowOf(r) \in Recorded(id)'
    BY <1>1, <1>10, <1>a DEF Recorded
<1>c. \A j : Recorded(j) \subseteq Recorded(j)'
    BY <1>1 DEF Recorded
<1>11. (\A j : Recorded(j) # {} => Recorded(j)' # {}) /\ Recorded(id)' # {}
    BY <1>b, <1>c
<1>12. Stages'
    <2>1. ASSUME NEW q \in Requests, q # r PROVE Stage(q)'
        BY <1>7, <1>11, <2>1 DEF IInv, Charging, Stages, Stage, Is
    <2>2. Stage(r)'
        <3>1. Stage(r) /\ new.kind = call[r].kind /\ new.id = call[r].id /\ call'[r] = new /\ new.phase = p
            BY <1>4, <1>7 DEF IInv, Charging, Stages
        <3>2. turn[r].at \notin Under /\ call[r].id \in Ids
            BY <1>1, <3>1 DEF Stage, Is
        <3>3. call[r].kind = "chat" => call[r].id \in asked
            BY <1>1, <3>1 DEF Stage, Past
        <3>4. p \notin Early /\ p # "new"
            BY DEF Early
        <3>5. QED
            BY <1>11, <1>a, <3>1, <3>2, <3>3, <3>4 DEF Stage, Is
    <2>3. QED
        BY <2>1, <2>2 DEF Stages
<1>13. Distinct'
    <2>1. \A q \in Requests : call'[q].phase \in Past => call[q].phase \in Past
        BY <1>1, <1>7 DEF Past
    <2>2. QED
        BY <1>8, <2>1 DEF IInv, Charging, Distinct
<1>14. Receipts'
    <2>1. \A x \in rows : x.by \in Requests /\ x.by # r /\ x.id = call[x.by].id /\ call[x.by].phase \in Booked
        BY <1>1 DEF IInv, Charging, Receipts, Booked
    <2>2. call'[r].phase \in Booked
        BY <1>4, <1>7 DEF Booked
    <2>3. \A x \in rows' : x.by \in Requests /\ x.id = call'[x.by].id /\ call'[x.by].phase \in Booked
        BY <1>1, <1>7, <1>8, <1>10, <2>1, <2>2
    <2>4. \A x, y \in rows' : x.by = y.by => x = y
        BY <1>1, <1>10, <2>1 DEF IInv, Charging, Receipts
    <2>5. QED
        BY <2>3, <2>4 DEF Receipts
<1>15. Accounted'
    <2>1. ASSUME NEW k \in asked, Recorded(k)' = {}
          PROVE  \E q \in Requests : /\ call'[q].kind = "chat" /\ call'[q].id = k
                                     /\ call'[q].phase \in Unwitnessed
        <3>1. PICK q \in Requests : /\ call[q].kind = "chat" /\ call[q].id = k
                                    /\ call[q].phase \in Unwitnessed
            BY <1>11, <2>1 DEF IInv, Charging, Accounted
        <3>2. q # r
            BY <1>11, <1>a, <2>1, <3>1
        <3>3. QED
            BY <1>7, <3>1, <3>2
    <2>2. QED
        BY <2>1 DEF Accounted
<1>16. Order'
    BY DEF IInv, Order
<1>17. Kept'
    BY <1>8 DEF IInv, Kept, Streams
<1>18. QED
    BY <1>9, <1>12, <1>13, <1>14, <1>15, <1>16, <1>17 DEF IInv, Charging

LEMMA LedgerKeeps == ASSUME IInv, LedgerNext, UNCHANGED chatVars PROVE IInv'
<1>1. ASSUME NEW r \in Requests, NEW kind \in {"chat", "direct"}, NEW k \in Ids,
             NEW u \in Users \cup {Nobody}, Ask(r, kind, k, u)
      PROVE  IInv'
    BY <1>1, AskKeeps
<1>2. ASSUME NEW r \in Requests, Check(r) \/ Charge(r) \/ Abandon(r) PROVE IInv'
    BY <1>2, CheckKeeps, SelectKeeps, InsertKeeps, ChargeUserKeeps, AbandonKeeps DEF Charge
<1>3. ASSUME NEW r \in Requests, NEW c \in Costs, Answered(r, c) PROVE IInv'
    BY <1>3, AnsweredKeeps
<1>4. ASSUME NEW l \in Levels, Expire(l) PROVE IInv'
    BY <1>4, NoneMoves DEF Expire
<1>5. CASE MonthTurns
    BY <1>5, NoneMoves DEF MonthTurns
<1>6. CASE Reconcile
    BY <1>6, NoneMoves DEF Reconcile, AuditSum, AuditCompare, AuditUser, AuditFinish
<1>7. QED
    BY <1>1, <1>2, <1>3, <1>4, <1>5, <1>6 DEF LedgerNext

--------------------------------------------------------------------------------
(* Steps of one stream *)

LEMMA TurnMoves ==
    ASSUME IInv, NEW r \in Requests, NEW t \in Turn, Goes(r, t), UNCHANGED <<ledgerVars, asked>>,
           buffer' \in [Ids -> Seq(Entry)], Order', Kept',
           call[r].phase = "admitted",
           t.at \in Under => call[r].kind = "chat",
           t.at # "none" /\ (t.at = "over" => t.fault \/ t.got = 0)
    PROVE  IInv'
<1> USE DEF ledgerVars
<1>1. turn' \in [Requests -> Turn] /\ turn'[r] = t /\ \A q \in Requests \ {r} : turn'[q] = turn[q]
    BY DEF IInv, Typed, Goes
<1>2. Typed'
    BY <1>1 DEF IInv, Typed, Shape
<1>3. \A j : Recorded(j)' = Recorded(j)
    BY DEF Recorded
<1>4. Stages'
    <2>1. ASSUME NEW q \in Requests, q # r PROVE Stage(q)'
        BY <1>1, <1>3, <2>1 DEF IInv, Charging, Stages, Stage, Is
    <2>2. Stage(r)'
        <3>1. Stage(r)
            BY DEF IInv, Charging, Stages
        <3>2. t.got \in Nat
            BY DEF Turn
        <3>3. QED
            BY <1>1, <1>3, <3>1, <3>2 DEF Stage, Is, Early, Past
    <2>3. QED
        BY <2>1, <2>2 DEF Stages
<1>5. Distinct' /\ Receipts'
    BY DEF IInv, Charging, Distinct, Receipts
<1>6. Accounted'
    BY <1>3 DEF IInv, Charging, Accounted
<1>7. QED
    BY <1>2, <1>4, <1>5, <1>6 DEF IInv, Charging

\* The lists stay, and a stream that goes on buffering has received nothing new.
LEMMA ListsSame ==
    ASSUME IInv, NEW r \in Requests, NEW t \in Turn, Goes(r, t), UNCHANGED <<ledgerVars, buffer>>,
           t.at \in {"stream", "yield"} /\ t.buffering =>
               \/ t.got = 0
               \/ Streams(r) /\ turn[r].buffering /\ t.got = turn[r].got
    PROVE  buffer' \in [Ids -> Seq(Entry)] /\ Order' /\ Kept'
<1> USE DEF ledgerVars
<1>1. turn'[r] = t /\ \A q \in Requests \ {r} : turn'[q] = turn[q]
    BY DEF IInv, Typed, Goes
<1>2. Order'
    BY DEF IInv, Order
<1>3. ASSUME NEW q \in Requests, Streams(q)', turn'[q].buffering, NEW j \in 0 .. turn'[q].got - 1
      PROVE  \E i \in 1 .. Len(buffer[call[q].id]) : buffer[call[q].id][i] = [by |-> q, index |-> j]
    <2>1. CASE q # r
        BY <1>1, <1>3, <2>1 DEF IInv, Kept, Streams
    <2>2. CASE q = r
        BY <1>1, <1>3, <2>2 DEF IInv, Kept, Streams
    <2>3. QED
        BY <2>1, <2>2
<1>4. Kept'
    BY <1>3 DEF Kept
<1>5. QED
    BY <1>2, <1>4 DEF IInv, Typed

\* A stream under way has been admitted.
LEMMA UnderWay ==
    ASSUME IInv, NEW r \in Requests, turn[r].at \in Under
    PROVE  call[r].phase = "admitted" /\ call[r].kind = "chat" /\ call[r].id \in Ids
BY DEF IInv, Charging, Stages, Stage, Is

LEMMA UnaskedIsATurn == Unasked \in Turn /\ Unasked.at = "none" /\ Unasked.got = 0
BY DEF Unasked, Turn

LEMMA BeginKeeps == ASSUME IInv, NEW r \in Requests, Begin(r) PROVE IInv'
<1>1. PICK t : t = [Unasked EXCEPT !.at = "stream"]
    OBVIOUS
<1>2. t \in Turn /\ t.at = "stream" /\ t.got = 0
    BY <1>1, UnaskedIsATurn DEF Turn
<1>3. /\ Goes(r, t) /\ UNCHANGED <<ledgerVars, buffer, asked>>
      /\ call[r].phase = "admitted" /\ call[r].kind = "chat"
    BY <1>1 DEF Begin, Is
<1>4. buffer' \in [Ids -> Seq(Entry)] /\ Order' /\ Kept'
    BY <1>2, <1>3, ListsSame
<1>5. QED
    BY <1>2, <1>3, <1>4, TurnMoves

\* A stream is left with what it has received, unless nothing was or it was lost.
LEMMA LeavesKeeps ==
    ASSUME IInv, NEW r \in Requests, NEW lost \in BOOLEAN, Leaves(r, lost),
           UNCHANGED <<ledgerVars, buffer, asked>>, call[r].phase = "admitted",
           lost \/ turn[r].got = 0
    PROVE  IInv'
<1>1. turn[r].got \in 0 .. Chunks
    BY DEF IInv, Typed, Turn
<1>2. PICK t : t = [Unasked EXCEPT !.at = "over", !.got = turn[r].got, !.fault = lost]
    OBVIOUS
<1>3. t \in Turn /\ t.at = "over" /\ t.got = turn[r].got /\ t.fault = lost
    BY <1>1, <1>2, UnaskedIsATurn DEF Turn
<1>4. Goes(r, t)
    BY <1>2 DEF Leaves
<1>5. buffer' \in [Ids -> Seq(Entry)] /\ Order' /\ Kept'
    BY <1>3, <1>4, ListsSame
<1>6. QED
    BY <1>3, <1>4, <1>5, TurnMoves DEF Under

LEMMA DeclineKeeps == ASSUME IInv, NEW r \in Requests, Decline(r) PROVE IInv'
<1>1. /\ Leaves(r, FALSE) /\ UNCHANGED <<ledgerVars, buffer, asked>>
      /\ call[r].phase = "admitted" /\ turn[r].got = 0
    BY DEF Decline, Is, IInv, Charging, Stages, Stage
<1>2. QED
    BY <1>1, LeavesKeeps

LEMMA CrashKeeps == ASSUME IInv, NEW r \in Requests, Crash(r) PROVE IInv'
<1>1. Leaves(r, TRUE) /\ UNCHANGED <<ledgerVars, buffer, asked>> /\ turn[r].at \in Under
    BY DEF Crash, Under
<1>2. QED
    BY <1>1, UnderWay, LeavesKeeps

\* A chunk is sent, or the stream ends: the lists stay.
LEMMA OnKeeps ==
    ASSUME IInv, NEW r \in Requests, NEW t \in Turn, Goes(r, t), UNCHANGED <<ledgerVars, buffer, asked>>,
           Streams(r), t.at \in {"stream", "save"}, t.got = turn[r].got, t.buffering = turn[r].buffering
    PROVE  IInv'
<1>1. call[r].phase = "admitted" /\ call[r].kind = "chat"
    BY UnderWay DEF Streams, Under
<1>2. buffer' \in [Ids -> Seq(Entry)] /\ Order' /\ Kept'
    BY ListsSame
<1>3. QED
    BY <1>1, <1>2, TurnMoves

LEMMA SendKeeps == ASSUME IInv, NEW r \in Requests, Send(r) PROVE IInv'
<1>1. PICK a \in {"stream", "save"} : a = IF turn[r].got < Chunks THEN "stream" ELSE "save"
    OBVIOUS
<1>2. PICK t : t = [turn[r] EXCEPT !.at = a]
    OBVIOUS
<1>3. Goes(r, t) /\ UNCHANGED <<ledgerVars, buffer, asked>> /\ Streams(r)
    BY <1>1, <1>2 DEF Send, Streams
<1>4. t \in Turn /\ t.at = a /\ t.got = turn[r].got /\ t.buffering = turn[r].buffering
    BY <1>2 DEF IInv, Typed, Turn
<1>5. QED
    BY <1>3, <1>4, OnKeeps

LEMMA StopKeeps == ASSUME IInv, NEW r \in Requests, Cancel(r) \/ Close(r) \/ Fail(r) PROVE IInv'
<1>1. Streams(r) /\ UNCHANGED <<ledgerVars, buffer, asked>>
    BY DEF Cancel, Close, Fail, Streams
<1>2. turn[r] \in Turn
    BY DEF IInv, Typed
<1>3. \E cut, wrong \in BOOLEAN : Goes(r, [turn[r] EXCEPT !.at = "save", !.cut = cut, !.wrong = wrong])
    <2>1. CASE Cancel(r)
        <3>1. [turn[r] EXCEPT !.at = "save", !.cut = TRUE]
                = [turn[r] EXCEPT !.at = "save", !.cut = TRUE, !.wrong = turn[r].wrong]
            BY <1>2 DEF Turn
        <3>2. turn[r].wrong \in BOOLEAN
            BY <1>2 DEF Turn
        <3>3. QED
            BY <2>1, <3>1, <3>2 DEF Cancel
    <2>2. CASE Close(r)
        <3>1. [turn[r] EXCEPT !.at = "save"]
                = [turn[r] EXCEPT !.at = "save", !.cut = turn[r].cut, !.wrong = turn[r].wrong]
            BY <1>2 DEF Turn
        <3>2. turn[r].wrong \in BOOLEAN /\ turn[r].cut \in BOOLEAN
            BY <1>2 DEF Turn
        <3>3. QED
            BY <2>2, <3>1, <3>2 DEF Close
    <2>3. CASE Fail(r)
        <3>1. (turn[r].got > 0) \in BOOLEAN
            OBVIOUS
        <3>2. QED
            BY <2>3, <3>1 DEF Fail
    <2>4. QED
        BY <2>1, <2>2, <2>3
<1>4. PICK cut \in BOOLEAN, wrong \in BOOLEAN :
         Goes(r, [turn[r] EXCEPT !.at = "save", !.cut = cut, !.wrong = wrong])
    BY <1>3
<1>5. PICK t : t = [turn[r] EXCEPT !.at = "save", !.cut = cut, !.wrong = wrong]
    OBVIOUS
<1>6. t \in Turn /\ t.at = "save" /\ t.got = turn[r].got /\ t.buffering = turn[r].buffering
    BY <1>2, <1>5 DEF Turn
<1>7. Goes(r, t)
    BY <1>4, <1>5
<1>8. QED
    BY <1>1, <1>6, <1>7, OnKeeps

LEMMA SaveKeeps == ASSUME IInv, NEW r \in Requests, Save(r) PROVE IInv'
<1>1. /\ UNCHANGED <<ledgerVars, buffer, asked>> /\ turn[r].at = "save"
      /\ call[r].phase = "admitted" /\ call[r].kind = "chat"
    BY UnderWay DEF Save, Under
<1>2. turn[r].got \in 0 .. Chunks
    BY DEF IInv, Typed, Turn
<1>3. CASE Bills(r)
    <2>1. PICK t : t = [Unasked EXCEPT !.at = "account", !.got = turn[r].got]
        OBVIOUS
    <2>a. t \in Turn /\ t.at = "account"
        BY <1>2, <2>1, UnaskedIsATurn DEF Turn
    <2>2. t \in Turn /\ t.at = "account" /\ Goes(r, t)
        BY <1>3, <2>1, <2>a DEF Save
    <2>3. buffer' \in [Ids -> Seq(Entry)] /\ Order' /\ Kept'
        BY <1>1, <2>2, ListsSame
    <2>4. QED
        BY <1>1, <2>2, <2>3, TurnMoves
<1>4. CASE ~Bills(r)
    <2>a. Leaves(r, FALSE)
        BY <1>4 DEF Save
    <2>b. turn[r].got = 0
        BY <1>2, <1>4 DEF Bills
    <2>1. Leaves(r, FALSE) /\ turn[r].got = 0
        BY <2>a, <2>b
    <2>2. QED
        BY <1>1, <2>1, LeavesKeeps
<1>5. QED
    BY <1>3, <1>4

\* The chunk received next is appended to the list of its correlation id.
LEMMA Pushed ==
    ASSUME IInv, NEW r \in Requests, turn[r].at = "stream", turn[r].buffering, turn[r].got < Chunks,
           NEW t \in Turn, Goes(r, t), UNCHANGED ledgerVars, t.got = turn[r].got + 1,
           buffer' = [buffer EXCEPT ![call[r].id] = Append(@, [by |-> r, index |-> turn[r].got])]
    PROVE  buffer' \in [Ids -> Seq(Entry)] /\ Order' /\ Kept'
<1> USE DEF ledgerVars
<1>1. PICK id \in Ids : id = call[r].id
    BY UnderWay DEF Under
<1>2. PICK got \in Nat : got = turn[r].got /\ got < Chunks /\ t.got = got + 1
    BY DEF IInv, Typed, Turn
<1>3. PICK entry \in Entry : entry = [by |-> r, index |-> got]
    BY <1>2 DEF Entry
<1>4. buffer \in [Ids -> Seq(Entry)] /\ buffer[id] \in Seq(Entry) /\ Len(buffer[id]) \in Nat
    BY <1>1 DEF IInv, Typed
<1>5. /\ Append(buffer[id], entry) \in Seq(Entry)
      /\ Len(Append(buffer[id], entry)) = Len(buffer[id]) + 1
      /\ \A i \in 1 .. Len(buffer[id]) : Append(buffer[id], entry)[i] = buffer[id][i]
      /\ Append(buffer[id], entry)[Len(buffer[id]) + 1] = entry
    BY <1>4
<1>6. buffer' = [buffer EXCEPT ![id] = Append(buffer[id], entry)]
    BY <1>1, <1>2, <1>3
<1>7. /\ buffer' \in [Ids -> Seq(Entry)] /\ \A k \in Ids \ {id} : buffer'[k] = buffer[k]
      /\ buffer'[id] = Append(buffer[id], entry)
    BY <1>4, <1>5, <1>6
<1>8. \A k \in Ids : /\ Len(buffer[k]) \in Nat /\ Len(buffer'[k]) \in Nat /\ Len(buffer[k]) <= Len(buffer'[k])
                     /\ \A i \in 1 .. Len(buffer[k]) : buffer'[k][i] = buffer[k][i]
    BY <1>4, <1>5, <1>7
<1>9. \A j \in 0 .. got - 1 : \E i \in 1 .. Len(buffer[id]) : buffer[id][i] = [by |-> r, index |-> j]
    BY <1>1, <1>2 DEF IInv, Kept, Streams
<1>10. Order'
    <2>1. ASSUME NEW k \in Ids, NEW p \in 1 .. Len(buffer'[k]), NEW j \in 0 .. buffer'[k][p].index - 1
          PROVE  \E i \in 1 .. p - 1 : buffer'[k][i] = [by |-> buffer'[k][p].by, index |-> j]
        <3>1. CASE p \in 1 .. Len(buffer[k])
            <4>1. buffer'[k][p] = buffer[k][p]
                BY <1>8, <3>1
            <4>2. PICK i \in 1 .. p - 1 : buffer[k][i] = [by |-> buffer[k][p].by, index |-> j]
                BY <2>1, <3>1, <4>1 DEF IInv, Order
            <4>3. i \in 1 .. Len(buffer[k])
                BY <1>8, <3>1, <4>2
            <4>4. QED
                BY <1>8, <4>1, <4>2, <4>3
        <3>2. CASE p \notin 1 .. Len(buffer[k])
            <4>1. k = id /\ p = Len(buffer[id]) + 1
                BY <1>4, <1>5, <1>7, <1>8, <3>2
            <4>2. buffer'[k][p] = entry
                BY <1>5, <1>7, <4>1
            <4>3. entry.by = r /\ entry.index = got
                BY <1>3
            <4>4. PICK i \in 1 .. Len(buffer[id]) : buffer[id][i] = [by |-> r, index |-> j]
                BY <1>9, <2>1, <4>2, <4>3
            <4>5. buffer'[k][i] = buffer[id][i] /\ i \in 1 .. p - 1
                BY <1>4, <1>8, <4>1, <4>4
            <4>6. QED
                BY <4>2, <4>3, <4>4, <4>5
        <3>3. QED
            BY <3>1, <3>2
    <2>2. QED
        BY <2>1 DEF Order
<1>11. turn'[r] = t /\ \A q \in Requests \ {r} : turn'[q] = turn[q]
    BY DEF IInv, Typed, Goes
<1>12. Kept'
    <2>1. ASSUME NEW q \in Requests, Streams(q)', turn'[q].buffering, NEW j \in 0 .. turn'[q].got - 1
          PROVE  \E i \in 1 .. Len(buffer'[call[q].id]) : buffer'[call[q].id][i] = [by |-> q, index |-> j]
        <3>1. CASE q # r
            <4>1. /\ Streams(q) /\ turn[q].buffering /\ j \in 0 .. turn[q].got - 1
                BY <1>11, <2>1, <3>1 DEF Streams
            <4>2. PICK k \in Ids : k = call[q].id
                BY <4>1, UnderWay DEF Streams, Under
            <4>3. PICK i \in 1 .. Len(buffer[k]) : buffer[k][i] = [by |-> q, index |-> j]
                BY <4>1, <4>2 DEF IInv, Kept
            <4>4. i \in 1 .. Len(buffer'[k]) /\ buffer'[k][i] = [by |-> q, index |-> j]
                BY <1>8, <4>3
            <4>5. QED
                BY <4>2, <4>4
        <3>2. CASE q = r /\ j = got
            <4>1. Len(buffer[id]) + 1 \in 1 .. Len(buffer'[id])
                BY <1>4, <1>5, <1>7
            <4>2. buffer'[id][Len(buffer[id]) + 1] = [by |-> q, index |-> j]
                BY <1>3, <1>5, <1>7, <3>2
            <4>3. QED
                BY <1>1, <3>2, <4>1, <4>2
        <3>3. CASE q = r /\ j # got
            <4>1. j \in 0 .. got - 1
                BY <1>2, <1>11, <2>1, <3>3
            <4>2. PICK i \in 1 .. Len(buffer[id]) : buffer[id][i] = [by |-> r, index |-> j]
                BY <1>9, <4>1
            <4>3. i \in 1 .. Len(buffer'[id]) /\ buffer'[id][i] = [by |-> r, index |-> j]
                BY <1>8, <4>2
            <4>4. QED
                BY <1>1, <3>3, <4>3
        <3>4. QED
            BY <3>1, <3>2, <3>3
    <2>2. QED
        BY <2>1 DEF Kept
<1>13. QED
    BY <1>7, <1>10, <1>12

LEMMA ReceiveKeeps == ASSUME IInv, NEW r \in Requests, Receive(r) PROVE IInv'
<1>1. /\ turn[r].at = "stream" /\ turn[r].got < Chunks /\ UNCHANGED <<ledgerVars, asked>>
      /\ call[r].phase = "admitted" /\ call[r].kind = "chat" /\ Streams(r)
    BY UnderWay DEF Receive, Under, Streams
<1>2. PICK old \in Turn : old = turn[r]
    BY DEF IInv, Typed
<1>3. PICK on : on = [old EXCEPT !.at = "yield", !.got = old.got + 1]
    OBVIOUS
<1>4. on \in Turn /\ on.at = "yield" /\ on.got = old.got + 1
    <2>1. old.got + 1 \in 0 .. Chunks
        BY <1>1, <1>2 DEF Turn
    <2>2. PICK n \in 0 .. Chunks : n = old.got + 1
        BY <2>1
    <2>3. on = [old EXCEPT !.at = "yield", !.got = n]
        BY <1>3, <2>2
    <2>4. on \in Turn /\ on.at = "yield" /\ on.got = n
        BY <1>2, <2>3 DEF Turn
    <2>5. QED
        BY <2>2, <2>4
<1>5. PICK off : off = [on EXCEPT !.buffering = FALSE]
    OBVIOUS
<1>6. off \in Turn /\ off.at = "yield" /\ off.got = old.got + 1 /\ ~off.buffering
    BY <1>4, <1>5 DEF Turn
<1>7. \/ /\ Goes(r, on) \/ Goes(r, off)
         /\ turn[r].buffering
         /\ buffer' = [buffer EXCEPT ![call[r].id] = Append(@, [by |-> r, index |-> turn[r].got])]
      \/ Goes(r, off) /\ buffer' = buffer
    BY <1>2, <1>3, <1>5 DEF Receive
<1>8. CASE Goes(r, off) /\ buffer' = buffer
    <2>1. buffer' \in [Ids -> Seq(Entry)] /\ Order' /\ Kept'
        BY <1>1, <1>6, <1>8, ListsSame
    <2>2. QED
        BY <1>1, <1>6, <1>8, <2>1, TurnMoves
<1>9. CASE /\ Goes(r, on) \/ Goes(r, off)
           /\ turn[r].buffering
           /\ buffer' = [buffer EXCEPT ![call[r].id] = Append(@, [by |-> r, index |-> turn[r].got])]
    <2>1. PICK t \in Turn : Goes(r, t) /\ t.at = "yield" /\ t.got = turn[r].got + 1
        BY <1>2, <1>4, <1>6, <1>9
    <2>2. buffer' \in [Ids -> Seq(Entry)] /\ Order' /\ Kept'
        BY <1>1, <1>9, <2>1, Pushed
    <2>3. QED
        BY <1>1, <2>1, <2>2, TurnMoves
<1>10. QED
    BY <1>7, <1>8, <1>9

\* A list is forgotten when no stream of its correlation id is under way.
LEMMA ForgetKeeps == ASSUME IInv, NEW k \in Ids, Forget(k) PROVE IInv'
<1> USE DEF ledgerVars
<1>1. /\ UNCHANGED <<ledgerVars, turn, asked>> /\ buffer' = [buffer EXCEPT ![k] = <<>>]
      /\ \A r \in Requests : ~(Streams(r) /\ call[r].id = k)
    BY DEF Forget
<1>2. /\ buffer' \in [Ids -> Seq(Entry)] /\ buffer'[k] = <<>>
      /\ \A j \in Ids \ {k} : buffer'[j] = buffer[j]
    BY <1>1 DEF IInv, Typed
<1>3. Typed'
    BY <1>1, <1>2 DEF IInv, Typed, Shape
<1>4. Order'
    <2>1. ASSUME NEW l \in Ids, l # k, NEW p \in 1 .. Len(buffer'[l]), NEW j \in 0 .. buffer'[l][p].index - 1
          PROVE  \E i \in 1 .. p - 1 : buffer'[l][i] = [by |-> buffer'[l][p].by, index |-> j]
        <3>1. buffer'[l] = buffer[l]
            BY <1>2, <2>1
        <3>2. p \in 1 .. Len(buffer[l]) /\ j \in 0 .. buffer[l][p].index - 1
            BY <2>1, <3>1
        <3>3. \E i \in 1 .. p - 1 : buffer[l][i] = [by |-> buffer[l][p].by, index |-> j]
            BY <3>2 DEF IInv, Order
        <3>4. QED
            BY <3>1, <3>3
    <2>2. ASSUME NEW p \in 1 .. Len(buffer'[k]) PROVE FALSE
        BY <1>2, <2>2
    <2>3. QED
        BY <2>1, <2>2 DEF Order
<1>5. Kept'
    <2>1. \A r \in Requests : Streams(r) => call[r].id \in Ids /\ call[r].id # k
        BY <1>1, UnderWay DEF Streams, Under
    <2>2. QED
        BY <1>1, <1>2, <2>1 DEF IInv, Kept, Streams
<1>6. \A j : Recorded(j)' = Recorded(j)
    BY <1>1 DEF Recorded
<1>7. Charging'
    BY <1>1, <1>6 DEF IInv, Charging, Stages, Stage, Is, Distinct, Receipts, Accounted
<1>8. QED
    BY <1>3, <1>4, <1>5, <1>7 DEF IInv

\* The stream is left and the request goes on to be charged, or not.
LEMMA AccountKeeps ==
    ASSUME IInv, NEW r \in Requests, NEW c \in Costs, Account(r, c)
    PROVE  IInv'
<1>1. /\ turn[r].at = "account" /\ call[r].id \notin asked /\ UNCHANGED <<rows, buffer>>
      /\ asked' = asked \cup {call[r].id} /\ Leaves(r, FALSE)
      /\ Moves(r, [call[r] EXCEPT !.phase = "select", !.cost = c])
      /\ call[r].phase = "admitted" /\ call[r].kind = "chat" /\ call[r].id \in Ids
    BY UnderWay DEF Account, Fresh, Under
<1>2. PICK values : call \in [Requests -> CallIn(values)]
    BY DEF IInv, Typed, Shape
<1>3. PICK old \in CallIn(values \cup {c}) : old = call[r]
    BY <1>2 DEF CallIn
<1>4. PICK new : new = [old EXCEPT !.phase = "select", !.cost = c]
    OBVIOUS
<1>5. new \in CallIn(values \cup {c}) /\ new.phase = "select" /\ new.kind = old.kind /\ new.id = old.id
    BY <1>3, <1>4 DEF CallIn, Phases
<1>6. call \in [Requests -> CallIn(values \cup {c})] /\ call' = [call EXCEPT ![r] = new]
    BY <1>1, <1>2, <1>3, <1>4 DEF CallIn, Moves
<1>7. /\ call' \in [Requests -> CallIn(values \cup {c})]
      /\ call'[r] = new /\ \A q \in Requests \ {r} : call'[q] = call[q]
    BY <1>5, <1>6
<1>8. PICK id \in Ids : id = call[r].id /\ id = call'[r].id /\ asked' = asked \cup {id} /\ id \notin asked
    BY <1>1, <1>3, <1>5, <1>7
<1>9. PICK t \in Turn : Goes(r, t) /\ t.at = "over"
    <2>1. turn[r].got \in 0 .. Chunks
        BY DEF IInv, Typed, Turn
    <2>2. PICK t : t = [Unasked EXCEPT !.at = "over", !.got = turn[r].got, !.fault = FALSE]
        OBVIOUS
    <2>3. t \in Turn /\ t.at = "over"
        BY <2>1, <2>2, UnaskedIsATurn DEF Turn
    <2>4. QED
        BY <1>1, <2>2, <2>3 DEF Leaves
<1>10. /\ turn' \in [Requests -> Turn] /\ turn'[r] = t /\ \A q \in Requests \ {r} : turn'[q] = turn[q]
    BY <1>9 DEF IInv, Typed, Goes
<1>11. Typed'
    BY <1>1, <1>7, <1>8, <1>10 DEF IInv, Typed, Shape
<1>12. \A j : Recorded(j)' = Recorded(j)
    BY <1>1 DEF Recorded
<1>13. Stages'
    <2>1. ASSUME NEW q \in Requests, q # r PROVE Stage(q)'
        BY <1>7, <1>8, <1>10, <1>12, <2>1 DEF IInv, Charging, Stages, Stage, Is
    <2>2. Stage(r)'
        BY <1>1, <1>5, <1>7, <1>8, <1>9, <1>10 DEF Stage, Is, Under, Early
    <2>3. QED
        BY <2>1, <2>2 DEF Stages
<1>14. Distinct'
    <2>1. \A q \in Requests : call[q].kind = "chat" /\ call[q].phase \in Past => call[q].id # id
        BY <1>8 DEF IInv, Charging, Stages, Stage
    <2>2. QED
        BY <1>7, <1>8, <2>1 DEF IInv, Charging, Distinct
<1>15. Receipts'
    <2>1. \A x \in rows : x.by # r
        BY <1>1 DEF IInv, Charging, Receipts, Booked
    <2>2. QED
        BY <1>1, <1>7, <2>1 DEF IInv, Charging, Receipts
<1>16. Accounted'
    <2>1. ASSUME NEW k \in asked', Recorded(k) = {}
          PROVE  \E q \in Requests : /\ call'[q].kind = "chat" /\ call'[q].id = k
                                     /\ call'[q].phase \in Unwitnessed
        <3>1. CASE k = id
            BY <1>1, <1>3, <1>5, <1>7, <1>8, <3>1 DEF Unwitnessed
        <3>2. CASE k \in asked
            <4>1. PICK q \in Requests : /\ call[q].kind = "chat" /\ call[q].id = k
                                        /\ call[q].phase \in Unwitnessed
                BY <2>1, <3>2 DEF IInv, Charging, Accounted
            <4>2. q # r
                BY <1>1, <4>1 DEF Unwitnessed
            <4>3. QED
                BY <1>7, <4>1, <4>2
        <3>3. QED
            BY <1>8, <2>1, <3>1, <3>2
    <2>2. QED
        BY <1>12, <2>1 DEF Accounted
<1>17. Order'
    BY <1>1 DEF IInv, Order
<1>18. Kept'
    BY <1>1, <1>7, <1>9, <1>10 DEF IInv, Kept, Streams
<1>19. QED
    BY <1>11, <1>13, <1>14, <1>15, <1>16, <1>17, <1>18 DEF IInv, Charging

LEMMA AccountTwiceKeeps == ASSUME IInv, NEW r \in Requests, AccountTwice(r) PROVE IInv'
<1>1. /\ turn[r].at = "account" /\ call[r].id \in asked /\ UNCHANGED <<rows, buffer, asked>>
      /\ Leaves(r, FALSE) /\ Enters(r, "unpaid")
      /\ call[r].phase = "admitted" /\ call[r].kind = "chat" /\ call[r].id \in Ids
    BY UnderWay DEF AccountTwice, Fresh, Under
<1>2. PICK new, more : /\ Moves(r, new) /\ new \in CallIn(more)
                       /\ new.phase = "unpaid" /\ new.kind = call[r].kind /\ new.id = call[r].id
    BY <1>1, EntersForm DEF Phases
<1>3. PICK values : call \in [Requests -> CallIn(values)]
    BY DEF IInv, Typed, Shape
<1>4. call \in [Requests -> CallIn(values \cup more)] /\ new \in CallIn(values \cup more)
    BY <1>2, <1>3 DEF CallIn
<1>5. /\ call' \in [Requests -> CallIn(values \cup more)]
      /\ call'[r] = new /\ \A q \in Requests \ {r} : call'[q] = call[q]
    BY <1>2, <1>4 DEF Moves
<1>6. PICK t \in Turn : Goes(r, t) /\ t.at = "over"
    <2>1. turn[r].got \in 0 .. Chunks
        BY DEF IInv, Typed, Turn
    <2>2. PICK t : t = [Unasked EXCEPT !.at = "over", !.got = turn[r].got, !.fault = FALSE]
        OBVIOUS
    <2>3. t \in Turn /\ t.at = "over"
        BY <2>1, <2>2, UnaskedIsATurn DEF Turn
    <2>4. QED
        BY <1>1, <2>2, <2>3 DEF Leaves
<1>7. /\ turn' \in [Requests -> Turn] /\ turn'[r] = t /\ \A q \in Requests \ {r} : turn'[q] = turn[q]
    BY <1>6 DEF IInv, Typed, Goes
<1>8. Typed'
    BY <1>1, <1>5, <1>7 DEF IInv, Typed, Shape
<1>9. \A j : Recorded(j)' = Recorded(j)
    BY <1>1 DEF Recorded
<1>10. Stages'
    <2>1. ASSUME NEW q \in Requests, q # r PROVE Stage(q)'
        BY <1>1, <1>5, <1>7, <1>9, <2>1 DEF IInv, Charging, Stages, Stage, Is
    <2>2. Stage(r)'
        BY <1>1, <1>2, <1>5, <1>6, <1>7 DEF Stage, Is, Under, Early, Past
    <2>3. QED
        BY <2>1, <2>2 DEF Stages
<1>11. Distinct'
    BY <1>2, <1>5 DEF IInv, Charging, Distinct, Past
<1>12. Receipts'
    BY <1>1, <1>5 DEF IInv, Charging, Receipts, Booked
<1>13. Accounted'
    BY <1>1, <1>5, <1>9 DEF IInv, Charging, Accounted, Unwitnessed
<1>14. Order'
    BY <1>1 DEF IInv, Order
<1>15. Kept'
    BY <1>1, <1>5, <1>6, <1>7 DEF IInv, Kept, Streams
<1>16. QED
    BY <1>8, <1>10, <1>11, <1>12, <1>13, <1>14, <1>15 DEF IInv, Charging

--------------------------------------------------------------------------------
(* The invariant *)

LEMMA InitHolds == Init => IInv
<1> SUFFICES ASSUME Init PROVE IInv
    OBVIOUS
<1>1. /\ call = [r \in Requests |-> NewCall] /\ rows = {} /\ asked = {}
      /\ turn = [r \in Requests |-> Unasked] /\ buffer = [k \in Ids |-> <<>>]
    BY DEF Init, LedgerInit
<1>2. NewCall \in CallIn({Workspace, 0})
    BY DEF NewCall, CallIn, Phases
<1>3. Typed
    <2>1. Shape
        BY <1>1, <1>2 DEF Shape
    <2>2. QED
        BY <1>1, <2>1, UnaskedIsATurn DEF Typed
<1>4. Charging
    <2>1. Stages
        BY <1>1 DEF Stages, Stage, Is, NewCall, Unasked, Under, Early, Past
    <2>2. Distinct
        BY <1>1 DEF Distinct, NewCall, Past
    <2>3. QED
        BY <1>1, <2>1, <2>2 DEF Charging, Receipts, Accounted
<1>5. Order
    BY <1>1 DEF Order
<1>6. Kept
    BY <1>1 DEF Kept, Streams, Unasked
<1>7. QED
    BY <1>3, <1>4, <1>5, <1>6 DEF IInv

LEMMA NextHolds == IInv /\ [Next]_vars => IInv'
<1> SUFFICES ASSUME IInv, [Next]_vars PROVE IInv'
    OBVIOUS
<1>1. CASE LedgerNext /\ UNCHANGED chatVars
    BY <1>1, LedgerKeeps
<1>2. ASSUME NEW r \in Requests, Answer(r) PROVE IInv'
    BY <1>2, BeginKeeps, DeclineKeeps, ReceiveKeeps, SendKeeps, StopKeeps, SaveKeeps,
       AccountTwiceKeeps, CrashKeeps DEF Answer
<1>3. ASSUME NEW r \in Requests, NEW c \in Costs, Account(r, c) PROVE IInv'
    BY <1>3, AccountKeeps
<1>4. ASSUME NEW k \in Ids, Forget(k) PROVE IInv'
    BY <1>4, ForgetKeeps
<1>5. CASE UNCHANGED vars
    BY <1>5, NoneMoves DEF vars, ledgerVars, chatVars
<1>6. QED
    BY <1>1, <1>2, <1>3, <1>4, <1>5 DEF Next

\* The requests, the records and the replay lists stay related as IInv says.
THEOREM Invariance == Spec => []IInv
<1>1. QED
    BY InitHolds, NextHolds, PTL DEF Spec

--------------------------------------------------------------------------------
(* The properties *)

LEMMA WholeAnswer == IInv => ReplayIsOneAnswer
<1> SUFFICES ASSUME IInv, NEW k \in Ids, Replayable(k)
             PROVE  \E r \in Requests : buffer[k] = [i \in 1 .. Chunks |-> [by |-> r, index |-> i - 1]]
    BY DEF ReplayIsOneAnswer
<1>1. PICK b \in Seq(Entry) : b = buffer[k]
    BY DEF IInv, Typed
<1>2. /\ b # <<>> /\ Len(b) \in Nat \ {0} /\ b[Len(b)].index = Chunks - 1
      /\ \A i \in 1 .. Len(b) : b[i].index = i - 1 /\ b[i] \in Entry
    BY <1>1 DEF Replayable, Last
<1>3. Len(b) = Chunks
    BY <1>2
<1>4. PICK last \in Entry : last = b[Chunks]
    BY <1>2, <1>3
<1>5. PICK r \in Requests : last.by = r
    BY <1>4 DEF Entry
<1>6. last = [by |-> r, index |-> Chunks - 1]
    BY <1>2, <1>3, <1>4, <1>5 DEF Entry
<1>7. ASSUME NEW i \in 1 .. Chunks PROVE b[i] = [by |-> r, index |-> i - 1]
    <2>1. CASE i = Chunks
        BY <1>4, <1>6, <2>1
    <2>2. CASE i # Chunks
        <3>1. i - 1 \in 0 .. b[Chunks].index - 1 /\ Chunks \in 1 .. Len(b)
            BY <1>2, <1>3, <2>2
        <3>2. PICK p \in 1 .. Chunks - 1 : b[p] = [by |-> r, index |-> i - 1]
            BY <1>1, <1>4, <1>5, <3>1 DEF IInv, Order
        <3>3. p \in 1 .. Len(b) /\ b[p].index = p - 1
            BY <1>2, <1>3, <3>2
        <3>4. b[p].index = i - 1
            BY <3>2
        <3>5. p = i
            BY <3>3, <3>4
        <3>6. QED
            BY <3>2, <3>5
    <2>3. QED
        BY <2>1, <2>2
<1>8. b = [i \in 1 .. Chunks |-> b[i]]
    BY <1>2, <1>3
<1>9. b = [i \in 1 .. Chunks |-> [by |-> r, index |-> i - 1]]
    BY <1>7, <1>8
<1>10. QED
    BY <1>1, <1>9

LEMMA OneRecord == IInv => ChargedOnce
<1> SUFFICES ASSUME IInv, NEW x \in rows, NEW y \in rows, x.id = y.id,
                    call[x.by].kind = "chat", call[y.by].kind = "chat"
             PROVE  x = y
    BY DEF ChargedOnce
<1>1. /\ x.by \in Requests /\ x.id = call[x.by].id /\ call[x.by].phase \in Past
      /\ y.by \in Requests /\ y.id = call[y.by].id /\ call[y.by].phase \in Past
    BY DEF IInv, Charging, Receipts, Booked, Past
<1>2. x.by = y.by
    BY <1>1 DEF IInv, Charging, Distinct
<1>3. QED
    BY <1>2 DEF IInv, Charging, Receipts

LEMMA TextIsPaid == IInv => DeliveredIsCharged
<1> SUFFICES ASSUME IInv, NEW k \in Ids,
                    NEW r \in Requests, call[r].id = k, call[r].phase # "new", turn[r].got > 0,
                    \A q \in Requests : call[q].id = k /\ call[q].phase # "new" =>
                        /\ turn[q].at \in {"none", "over"} /\ ~turn[q].fault
                        /\ call[q].phase \notin Unwitnessed
             PROVE  Recorded(k) # {}
    BY DEF DeliveredIsCharged, Unwitnessed
<1>1. turn[r].at = "over" /\ ~turn[r].fault
    BY DEF IInv, Charging, Stages, Stage
<1>2. k \in asked
    BY <1>1 DEF IInv, Charging, Stages, Stage
<1>3. ~ \E q \in Requests : call[q].id = k /\ call[q].phase \in Unwitnessed
    BY DEF Unwitnessed
<1>4. QED
    BY <1>2, <1>3 DEF IInv, Charging, Accounted

\* What a client that reconnects is replayed is the whole of one answer, for any
\* number of streams that share a correlation id and of chunks.
THEOREM ReplaysAreWhole == Spec => []ReplayIsOneAnswer
<1>1. QED
    BY Invariance, WholeAnswer, PTL

\* Two records of questions never carry the same correlation id.
THEOREM QuestionsAreChargedOnce == Spec => []ChargedOnce
<1>1. QED
    BY Invariance, OneRecord, PTL

\* Text that was delivered is on the record when every request with its
\* correlation id has ended and none was lost.
THEOREM DeliveryIsCharged == Spec => []DeliveredIsCharged
<1>1. QED
    BY Invariance, TextIsPaid, PTL

--------------------------------------------------------------------------------
(* The ledger under the streams *)

\* A stream touches the ledger when it is over: the request is charged, or refused by the index.
LEMMA StreamKeepsBooks ==
    ASSUME IInv, Books, NEW r \in Requests, Answer(r) \/ \E c \in Costs : Account(r, c)
    PROVE  Books'
<1>1. CASE UNCHANGED ledgerVars
    BY <1>1, LedgerRests
<1>2. CASE AccountTwice(r)
    <2>1. call[r].phase = "admitted" /\ Enters(r, "unpaid") /\ UNCHANGED <<rows, used, cached, audit, audits, month>>
        BY <1>2, UnderWay DEF AccountTwice, Under
    <2>2. "unpaid" \in Phases
        BY DEF Phases
    <2>3. QED
        BY <2>1, <2>2, PhaseBooks
<1>3. CASE \E c \in Costs : Account(r, c)
    <2>1. PICK c \in Costs : Account(r, c)
        BY <1>3
    <2>2. /\ call[r].phase = "admitted" /\ UNCHANGED <<rows, used, cached, audit, audits, month>>
          /\ Moves(r, [call[r] EXCEPT !.phase = "select", !.cost = c])
        BY <2>1, UnderWay DEF Account, Under
    <2>3. QED
        BY <2>2, OwesBooks
<1>4. QED
    BY <1>1, <1>2, <1>3 DEF Answer, Begin, Decline, Receive, Send, Cancel, Close, Fail, Save, Crash

LEMMA NextKeepsBooks == IInv /\ Books /\ [Next]_vars => Books'
<1> SUFFICES ASSUME IInv, Books, [Next]_vars PROVE Books'
    OBVIOUS
<1>1. CASE LedgerNext
    BY <1>1, LedgerNextBooks
<1>2. CASE UNCHANGED ledgerVars
    BY <1>2, LedgerRests
<1>3. QED
    BY <1>1, <1>2, StreamKeepsBooks DEF Next, Forget, vars

\* The counters, the cached numbers and a reconciliation under way stay related to the
\* records as Books says.
THEOREM LedgerInvariance == Spec => []Books
<1>1. Init => Books
    BY LedgerInitBooks DEF Init
<1>2. QED
    BY <1>1, NextKeepsBooks, Invariance, PTL DEF Spec

\* In no month is the workspace billed for more than its records show, and before the first
\* reconciliation for exactly that; a user for all but the charges cut in two.
THEOREM CountersFollowRecords == Spec => []Billed
<1>1. Books => Billed
    BY DEF Books
<1>2. QED
    BY <1>1, LedgerInvariance, PTL

\* The workspace's budget refuses only what it has no room for in the month of the number
\* looked at, however stale the number and whatever is recorded or overwritten meanwhile.
\* Just after the turn of the month that may be the old one, which the key does not tell.
THEOREM RefusalsAreDue == Spec => []NoFalseRefusal
<1>1. QED
    BY RefusedInVain, LedgerInvariance, PTL

\* A reconciliation during which nothing is recorded leaves the workspace's counter of its
\* month equal to the records, whatever an earlier one has lost.
THEOREM ReconciliationsRepair == Spec => AuditRepairs
<1> DEFINE Repair == /\ audit.phase = "compared" /\ audit'.phase = "none"
                     /\ audit.sum[Workspace] = Total(Workspace, RowsOf(audit.month))
                     => used'[audit.month][Workspace] = Total(Workspace, RowsOf(audit.month))
<1>1. Books /\ [Next]_vars => [Repair]_ledgerVars
    BY LedgerNextRepairs DEF Next, Answer, Account, AccountTwice, Begin, Decline, Receive, Send,
                             Cancel, Close, Fail, Save, Crash, Forget, vars, ledgerVars
<1>2. QED
    BY <1>1, LedgerInvariance, PTL DEF Spec, AuditRepairs

--------------------------------------------------------------------------------
(* Types *)

Messages == saved \in SUBSET Message

LEMMA NextKeepsMessages == IInv /\ Messages /\ [Next]_vars => Messages'
<1> SUFFICES ASSUME IInv, Messages, [Next]_vars PROVE Messages'
    OBVIOUS
<1>1. CASE UNCHANGED saved
    BY <1>1 DEF Messages
<1>2. ASSUME NEW r \in Requests, Save(r) PROVE Messages'
    <2>1. turn[r] \in Turn
        BY DEF IInv, Typed
    <2>2. turn[r].got # 0 => MessageOf(r) \in Message
        BY <2>1 DEF MessageOf, Message, Turn
    <2>3. QED
        BY <1>2, <2>2 DEF Save, Messages
<1>3. QED
    BY <1>1, <1>2 DEF Next, Answer, Account, AccountTwice, Begin, Decline, Receive, Send, Cancel, Close,
                      Fail, Crash, Forget, vars, chatVars

\* Requests, counters, streams, replay lists and messages stay in their domains, for any
\* number of each.
THEOREM TypeCorrect == Spec => []TypeOK
<1>1. Init => Messages
    BY DEF Init, Messages
<1>2. Spec => [](Messages)
    BY <1>1, NextKeepsMessages, Invariance, PTL DEF Spec
<1>3. IInv /\ Books /\ Messages => TypeOK
    BY DEF IInv, Typed, Books, TypeOK, Messages
<1>4. QED
    BY <1>2, <1>3, Invariance, LedgerInvariance, PTL
================================================================================
