-------------------------- MODULE AccountSessionsProofs --------------------------
(***************************************************************************)
(* AccountSessions for any number of calls, sessions, tokens and codes:    *)
(* types, what a sign-out ends, what a token and a code are good for.      *)
(***************************************************************************)
EXTENDS AccountSessions, SequenceTheorems, TLAPS

USE SessionsAssumption DEF SessionsAssumption

Last4    == {"logout", "reset", "recover", "deactivate"}
Changing == {"change", "changeByCode"}

\* What a call is about to do fits what it is.
Shaped(c) ==
    LET q == calls[c] IN
    /\ q.op \in {"none", "issue", "rotate", "guess"} => q.todo = <<>>
    /\ q.op \in Last4 => q.todo \in {<<"all">>, <<>>}
    /\ q.op = "reuse" => q.todo \in {<<"family">>, <<>>}
    /\ q.op \in Changing => q.todo \in {OthersThenOwn, <<"own">>, <<>>}
    /\ q.waiting => q.todo # <<>>
    /\ q.holds <=> q.op \in Locking
    /\ q.op \in {"rotate", "reuse"} \cup Changing => q.own \in Ids
    /\ q.op = "changeByCode" => q.token # 0
    /\ q.op = "guess" => q.attempts <= MaxAttempts
    /\ q.token <= issued

\* The rows a call has found or locked are there; those its next UPDATE is about are among
\* the found; those of its finished UPDATEs that are still live are locked. A session being
\* rotated is locked and live, and under the lock of the user's row there is no new row.
Seen(c) ==
    LET q == calls[c] IN
    /\ q.base <= Len(rows) /\ q.held \subseteq 1 .. Len(rows) /\ q.found \subseteq 1 .. Len(rows)
    /\ q.waiting => \A r \in 1 .. q.base : Matches(q, r) => r \in q.found
    /\ q.todo = <<"own">> =>
          \A r \in 1 .. q.base : rows[r].live /\ rows[r].family # q.own => r \in q.held
    /\ q.todo = <<>> /\ q.op \in Last4 \cup Changing =>
          \A r \in 1 .. q.base : rows[r].live => r \in q.held
    /\ q.todo = <<>> /\ q.op = "reuse" =>
          \A r \in 1 .. q.base : rows[r].family = q.own => r \in q.held
    /\ q.op = "rotate" => q.row \in q.held /\ rows[q.row].live
    /\ q.op \in Locking /\ (q.waiting \/ q.todo \in {<<"own">>, <<>>}) => q.base = Len(rows)

\* Row locks and the lock of the user's row exclude each other.
Locks ==
    \A c, d \in Calls : c # d =>
        /\ calls[c].held \cap calls[d].held = {}
        /\ ~(calls[c].holds /\ calls[d].holds)

CallsInv == /\ \A c \in Calls : Shaped(c) /\ Seen(c)
            /\ Locks

Outs == out \subseteq 1 .. Len(rows) /\ \A r \in out : ~rows[r].live

\* A token that could still be used has not been.
Fresh ==
    /\ spent \subseteq 0 .. issued /\ user.reset <= issued
    /\ user.reset # 0 => user.reset \notin spent
    /\ SingleUse

Guesses ==
    /\ \A h \in Channels : codes[h].open => codes[h].attempts <= MaxAttempts
    /\ codes["EMAIL"].tries <= codes["EMAIL"].attempts
    /\ GuessesBounded

IInv == TypeOK /\ CallsInv /\ Outs /\ Fresh /\ Guesses

--------------------------------------------------------------------------------
(* Rows *)

\* What a step may do to the table: the rows of revoked die, new ones are added at its end.
Follows(revoked) ==
    /\ rows' \in Seq(Session) /\ Len(rows') \in Len(rows) .. MaxRows
    /\ \A r \in 1 .. Len(rows) :
          /\ rows'[r].family = rows[r].family
          /\ rows'[r].live <=> rows[r].live /\ r \notin revoked

LEMMA RowTypes == ASSUME TypeOK
                  PROVE  /\ Len(rows) \in 0 .. MaxRows /\ DOMAIN rows = 1 .. Len(rows)
                         /\ \A r \in 1 .. Len(rows) : rows[r] \in Session
BY DEF TypeOK

LEMMA Revoked ==
    ASSUME TypeOK, NEW set
    PROVE  LET n == Revoke(set) IN
           /\ n \in Seq(Session) /\ Len(n) = Len(rows)
           /\ \A r \in 1 .. Len(rows) :
                 /\ n[r].family = rows[r].family /\ n[r].parent = rows[r].parent
                 /\ n[r].live <=> rows[r].live /\ r \notin set
<1> DEFINE n == Revoke(set)
<1>1. n = [r \in 1 .. Len(rows) |-> [rows[r] EXCEPT !.live = @ /\ r \notin set]]
    BY RowTypes DEF Revoke
<1>2. ASSUME NEW r \in 1 .. Len(rows)
      PROVE  /\ [rows[r] EXCEPT !.live = @ /\ r \notin set] \in Session
             /\ [rows[r] EXCEPT !.live = @ /\ r \notin set].family = rows[r].family
             /\ [rows[r] EXCEPT !.live = @ /\ r \notin set].parent = rows[r].parent
             /\ [rows[r] EXCEPT !.live = @ /\ r \notin set].live <=> rows[r].live /\ r \notin set
    BY RowTypes DEF Session
<1>3. n \in [1 .. Len(rows) -> Session]
    BY <1>1, <1>2
<1>4. Len(rows) \in Nat
    BY RowTypes
<1>5. n \in Seq(Session) /\ Len(n) = Len(rows)
    BY <1>3, <1>4
<1>6. QED
    BY <1>1, <1>2, <1>5

LEMMA Inserted ==
    ASSUME NEW rs \in Seq(Session), NEW f \in Ids, NEW p \in 0 .. MaxRows
    PROVE  /\ Insert(rs, f, p) \in Seq(Session) /\ Len(Insert(rs, f, p)) = Len(rs) + 1
           /\ \A r \in 1 .. Len(rs) : Insert(rs, f, p)[r] = rs[r]
           /\ Insert(rs, f, p)[Len(rs) + 1].parent = p
<1> DEFINE row == [family |-> f, parent |-> p, live |-> TRUE]
<1>1. row \in Session /\ row.parent = p
    BY DEF Session
<1> HIDE DEF row
<1>2. /\ Append(rs, row) \in Seq(Session) /\ Len(Append(rs, row)) = Len(rs) + 1
      /\ \A r \in 1 .. Len(rs) : Append(rs, row)[r] = rs[r]
      /\ Append(rs, row)[Len(rs) + 1] = row
    BY <1>1
<1>3. Insert(rs, f, p) = Append(rs, row)
    BY DEF Insert, row
<1>4. QED
    BY <1>1, <1>2, <1>3

LEMMA Dies == ASSUME TypeOK, NEW set, rows' = Revoke(set)
              PROVE  Follows(set) /\ Len(rows') = Len(rows)
<1>1. /\ rows' \in Seq(Session) /\ Len(rows') = Len(rows)
      /\ \A r \in 1 .. Len(rows) : /\ rows'[r].family = rows[r].family
                                   /\ rows'[r].live <=> rows[r].live /\ r \notin set
    BY Revoked
<1>2. QED
    BY <1>1, RowTypes DEF Follows

LEMMA Replaced ==
    ASSUME TypeOK, NEW set, NEW f \in Ids, NEW p \in 0 .. MaxRows, Len(rows) < MaxRows,
           rows' = Insert(Revoke(set), f, p)
    PROVE  Follows(set) /\ Len(rows') = Len(rows) + 1 /\ rows'[Len(rows')].parent = p
<1> DEFINE dead == Revoke(set)
<1>1. /\ dead \in Seq(Session) /\ Len(dead) = Len(rows)
      /\ \A r \in 1 .. Len(rows) : /\ dead[r].family = rows[r].family
                                   /\ dead[r].live <=> rows[r].live /\ r \notin set
    BY Revoked
<1>2. rows' = Insert(dead, f, p)
    OBVIOUS
<1> HIDE DEF dead
<1>3. /\ Insert(dead, f, p) \in Seq(Session) /\ Len(Insert(dead, f, p)) = Len(dead) + 1
      /\ \A r \in 1 .. Len(dead) : Insert(dead, f, p)[r] = dead[r]
      /\ Insert(dead, f, p)[Len(dead) + 1].parent = p
    BY <1>1, Inserted
<1>4. /\ rows' \in Seq(Session) /\ Len(rows') = Len(rows) + 1
      /\ \A r \in 1 .. Len(rows) : rows'[r] = dead[r]
      /\ rows'[Len(rows')].parent = p
    BY <1>1, <1>2, <1>3
<1>5. QED
    BY <1>1, <1>4, RowTypes DEF Follows

\* The UPDATEs a call may have before it.
LEMMA Lists ==
    /\ <<"all">> # <<>> /\ <<"family">> # <<>> /\ <<"own">> # <<>> /\ OthersThenOwn # <<>>
    /\ <<"all">> # <<"own">> /\ <<"all">> # OthersThenOwn /\ <<"own">> # OthersThenOwn
    /\ <<"family">> # <<"own">> /\ <<"family">> # <<"all">> /\ <<"family">> # OthersThenOwn
    /\ Head(<<"all">>) = "all" /\ Head(<<"family">>) = "family" /\ Head(<<"own">>) = "own"
    /\ Head(OthersThenOwn) = "others"
    /\ Tail(<<"all">>) = <<>> /\ Tail(<<"family">>) = <<>> /\ Tail(<<"own">>) = <<>>
    /\ Tail(OthersThenOwn) = <<"own">>
<1>1. <<"all">> # <<>> /\ <<"family">> # <<>> /\ <<"own">> # <<>> /\ OthersThenOwn # <<>>
    BY DEF OthersThenOwn
<1>2. /\ <<"all">> # <<"own">> /\ <<"family">> # <<"own">> /\ <<"family">> # <<"all">>
    OBVIOUS
<1>3. /\ Len(OthersThenOwn) = 2 /\ Len(<<"all">>) = 1 /\ Len(<<"own">>) = 1
      /\ Len(<<"family">>) = 1
    BY DEF OthersThenOwn
<1>4. Head(<<"all">>) = "all" /\ Head(<<"family">>) = "family" /\ Head(<<"own">>) = "own"
    OBVIOUS
<1>5. Head(OthersThenOwn) = "others"
    BY DEF OthersThenOwn
<1>6. Tail(<<"all">>) = <<>> /\ Tail(<<"family">>) = <<>> /\ Tail(<<"own">>) = <<>>
    OBVIOUS
<1>7. Tail(OthersThenOwn) = <<"own">>
    BY DEF OthersThenOwn
<1>8. QED
    BY <1>1, <1>2, <1>3, <1>4, <1>5, <1>6, <1>7

--------------------------------------------------------------------------------
(* The calls of the others *)

\* A call keeps what it has seen while others revoke rows it has not locked, and add none
\* beside its lock of the user's row.
LEMMA SeenKept ==
    ASSUME TypeOK, NEW d \in Calls, Shaped(d), Seen(d), calls'[d] = calls[d],
           NEW revoked, Follows(revoked), revoked \cap calls[d].held = {},
           calls[d].holds => Len(rows') = Len(rows)
    PROVE  Seen(d)'
<1> DEFINE q == calls[d]
<1>1. /\ Len(rows) \in Nat /\ Len(rows') \in Nat /\ Len(rows) <= Len(rows')
      /\ q.base \in Nat /\ q \in Call /\ calls'[d] = q
    BY RowTypes DEF TypeOK, Call, Follows
<1>2. \A r \in 1 .. q.base : r \in 1 .. Len(rows)
    BY <1>1 DEF Seen
<1>3. \A r \in 1 .. q.base : /\ rows'[r].family = rows[r].family
                             /\ rows'[r].live => rows[r].live
    BY <1>2 DEF Follows
<1>4. q.held \subseteq 1 .. Len(rows') /\ q.found \subseteq 1 .. Len(rows') /\ q.base <= Len(rows')
    BY <1>1 DEF Seen
<1>5. q.waiting => \A r \in 1 .. q.base : Matches(q, r)' => r \in q.found
    <2>1. SUFFICES ASSUME q.waiting, NEW r \in 1 .. q.base, Matches(q, r)'
                   PROVE  Matches(q, r)
        BY DEF Seen
    <2>2. Head(q.todo) \in {"all", "others", "own", "family"}
        BY <1>1, <2>1, Lists DEF Shaped, Call, OthersThenOwn
    <2>3. QED
        BY <1>3, <2>1, <2>2 DEF Matches
<1>6. q.op = "rotate" => q.row \in q.held /\ rows'[q.row].live
    BY <1>1 DEF Seen, Follows
<1>7. q.op \in Locking => Len(rows') = Len(rows)
    BY DEF Shaped
<1>8. QED
    BY <1>1, <1>3, <1>4, <1>5, <1>6, <1>7 DEF Seen

\* One call changes, or ends; the rows it revokes and the new ones it adds are its own affair.
LEMMA CallsKept ==
    ASSUME TypeOK, CallsInv, NEW c \in Calls, NEW n \in Call, calls' = [calls EXCEPT ![c] = n],
           NEW revoked, Follows(revoked),
           \A d \in Calls \ {c} : revoked \cap calls[d].held = {} /\ n.held \cap calls[d].held = {},
           Len(rows') # Len(rows) \/ n.holds => ~UserTaken(c),
           issued' \in Tokens, issued <= issued',
           Shaped(c)', Seen(c)'
    PROVE  CallsInv' /\ calls' \in [Calls -> Call]
<1>1. calls \in [Calls -> Call]
    BY DEF TypeOK
<1>2. calls' \in [Calls -> Call] /\ calls'[c] = n /\ \A d \in Calls \ {c} : calls'[d] = calls[d]
    BY <1>1
<1>3. \A d \in Calls \ {c} : Len(rows') # Len(rows) \/ n.holds => ~calls[d].holds
    BY DEF UserTaken
<1>4. ASSUME NEW d \in Calls, d # c
      PROVE  Shaped(d)' /\ Seen(d)'
    <2>1. Shaped(d) /\ Seen(d) /\ calls'[d] = calls[d] /\ calls[d] \in Call
        BY <1>1, <1>2, <1>4 DEF CallsInv
    <2>2. revoked \cap calls[d].held = {} /\ (calls[d].holds => Len(rows') = Len(rows))
        BY <1>3, <1>4
    <2>3. Seen(d)'
        BY <2>1, <2>2, SeenKept
    <2>4. issued \in Nat /\ issued' \in Nat /\ calls[d].token \in Nat
        BY <2>1 DEF TypeOK, Tokens, Call
    <2>5. Shaped(d)'
        BY <2>1, <2>4 DEF Shaped
    <2>6. QED
        BY <2>3, <2>5
<1>5. Locks'
    BY <1>2, <1>3 DEF Locks, CallsInv
<1>6. QED
    BY <1>2, <1>4, <1>5 DEF CallsInv

LEMMA IdleIsFine == Idle \in Call /\ Idle.op = "none" /\ Idle.todo = <<>> /\ ~Idle.waiting
                    /\ Idle.held = {} /\ Idle.found = {} /\ ~Idle.holds /\ Idle.base = 0
                    /\ Idle.token = 0 /\ Idle.attempts = 0 /\ Idle.own = 0 /\ Idle.row = 0
                    /\ Idle.number = 0
<1>1. 0 \in Tokens /\ 0 \in 0 .. MaxRows /\ 0 \in 0 .. MaxCodes /\ 0 \in 0 .. MaxAttempts + 1
    BY DEF Tokens
<1>2. QED
    BY <1>1 DEF Idle, Call

LEMMA Ended ==
    ASSUME TypeOK, CallsInv, NEW c \in Calls, Ends(c), NEW revoked, Follows(revoked),
           revoked \subseteq calls[c].held, Len(rows') # Len(rows) => ~UserTaken(c),
           issued' \in Tokens, issued <= issued'
    PROVE  CallsInv' /\ calls' \in [Calls -> Call]
<1>1. calls' = [calls EXCEPT ![c] = Idle] /\ calls'[c] = Idle
    BY DEF Ends, TypeOK
<1>2. \A d \in Calls \ {c} : /\ revoked \cap calls[d].held = {}
                             /\ Idle.held \cap calls[d].held = {}
    BY IdleIsFine DEF CallsInv, Locks
<1>3. 0 <= Len(rows') /\ 0 <= issued' /\ 0 <= MaxAttempts
    BY DEF Follows, Tokens
<1>4. Shaped(c)'
    BY <1>1, <1>3, IdleIsFine DEF Shaped, Locking, Last4, Changing
<1>5. Seen(c)'
    BY <1>1, <1>3, IdleIsFine DEF Seen, Locking, Last4, Changing
<1>6. QED
    BY <1>1, <1>2, <1>4, <1>5, CallsKept, IdleIsFine

--------------------------------------------------------------------------------
(* The calls that begin *)

\* Call n may begin as c: nothing found yet, its locks free, its UPDATEs ahead of it.
Fits(c, n) ==
    /\ ~n.waiting /\ n.base = 0 /\ n.found = {}
    /\ n.held \subseteq 1 .. Len(rows) /\ \A r \in n.held : ~RowTaken(c, r)
    /\ n.holds => ~UserTaken(c)
    /\ n.holds <=> n.op \in Locking
    /\ n.op \in {"none", "issue", "rotate", "guess"} => n.todo = <<>>
    /\ n.op \in Last4 => n.todo = <<"all">>
    /\ n.op = "reuse" => n.todo = <<"family">>
    /\ n.op \in Changing => n.todo = OthersThenOwn
    /\ n.op \in {"rotate", "reuse"} \cup Changing => n.own \in Ids
    /\ n.op = "rotate" => n.row \in n.held /\ rows[n.row].live
    /\ n.op = "changeByCode" => n.token # 0
    /\ n.op = "guess" => n.attempts <= MaxAttempts
    /\ n.token <= issued
    /\ n.op \in {"changeByCode", "recover"} => n.token \notin spent

LEMMA Started ==
    ASSUME IInv, NEW c \in Calls, NEW n \in Call, Starts(c, n), Fits(c, n),
           UNCHANGED <<user, rows, mail, ghosts>>
    PROVE  IInv'
<1> USE DEF mail, ghosts
<1>0. TypeOK /\ CallsInv
    BY DEF IInv
<1>1. calls' = [calls EXCEPT ![c] = n] /\ calls'[c] = n
    BY <1>0 DEF Starts, TypeOK
<1>2. Follows({}) /\ issued' \in Tokens /\ issued <= issued'
    BY <1>0, RowTypes DEF Follows, TypeOK, Tokens
<1>3. \A d \in Calls \ {c} : {} \cap calls[d].held = {} /\ n.held \cap calls[d].held = {}
    BY DEF RowTaken, Fits
<1>4. Shaped(c)'
    BY <1>1 DEF Shaped, Fits
<1>5. Seen(c)'
    <2>1. n.op \in Locking => n.todo \notin {<<"own">>, <<>>}
        BY Lists DEF Fits, Locking, Last4, Changing
    <2>2. \A r \in 1 .. n.base : FALSE
        BY DEF Fits
    <2>3. n.base <= Len(rows)
        BY <1>0, RowTypes DEF Fits
    <2>4. QED
        BY <1>1, <2>1, <2>2, <2>3 DEF Seen, Fits
<1>6. CallsInv' /\ calls' \in [Calls -> Call]
    BY <1>0, <1>1, <1>2, <1>3, <1>4, <1>5, CallsKept DEF Fits
<1>7. TypeOK'
    BY <1>6 DEF IInv, TypeOK, Starts
<1>8. Outs' /\ Guesses'
    BY DEF IInv, Outs, Guesses, GuessesBounded
<1>9. Fresh'
    <2>1. \A d \in Calls : calls'[d] = n \/ calls'[d] = calls[d]
        BY <1>0, <1>1 DEF TypeOK
    <2>2. \A d \in Calls : calls'[d].op \in {"changeByCode", "recover"} => calls'[d].token \notin spent
        BY <2>1 DEF IInv, Fresh, SingleUse, Fits
    <2>3. SingleUse'
        BY <2>2 DEF SingleUse
    <2>4. QED
        BY <2>3 DEF IInv, Fresh
<1>10. QED
    BY <1>6, <1>7, <1>8, <1>9 DEF IInv

LEMMA IssueKeeps == ASSUME IInv, NEW c \in Calls, Issue(c) PROVE IInv'
<1> DEFINE n == [Idle EXCEPT !.op = "issue"]
<1>1. /\ n \in Call /\ n.op = "issue" /\ n.todo = <<>> /\ ~n.waiting /\ n.held = {} /\ n.found = {}
      /\ ~n.holds /\ n.base = 0 /\ n.token = 0
    BY IdleIsFine DEF Call
<1>2. Starts(c, n) /\ UNCHANGED <<user, rows, mail, ghosts>>
    BY DEF Issue
<1> HIDE DEF n
<1>3. Fits(c, n)
    BY <1>1 DEF Fits, Locking, Last4, Changing, IInv, TypeOK, Tokens
<1>4. QED
    BY <1>1, <1>2, <1>3, Started

LEMMA RotateKeeps == ASSUME IInv, NEW c \in Calls, NEW r \in DOMAIN rows, Rotate(c, r) PROVE IInv'
<1> DEFINE n == [Idle EXCEPT !.op = "rotate", !.own = rows[r].family, !.row = r, !.held = {r}]
<1>row. r \in 1 .. Len(rows) /\ r \in Ids /\ rows[r] \in Session
    BY RowTypes DEF IInv, Ids
<1>0. /\ r \in 1 .. Len(rows) /\ r \in 0 .. MaxRows /\ {r} \in SUBSET Ids
      /\ rows[r].family \in Ids /\ rows[r].family \in 0 .. MaxRows
    BY <1>row DEF Session, Ids
<1>1. /\ n \in Call /\ n.op = "rotate" /\ n.todo = <<>> /\ ~n.waiting /\ n.held = {r} /\ n.found = {}
      /\ ~n.holds /\ n.base = 0 /\ n.token = 0 /\ n.row = r /\ n.own \in Ids
    BY <1>0, IdleIsFine DEF Call
<1>2. /\ Starts(c, n) /\ UNCHANGED <<user, rows, mail, ghosts>>
      /\ rows[r].live /\ ~RowTaken(c, r)
    BY DEF Rotate
<1> HIDE DEF n
<1>3. Fits(c, n)
    BY <1>0, <1>1, <1>2 DEF Fits, Locking, Last4, Changing, IInv, TypeOK, Tokens
<1>4. QED
    BY <1>1, <1>2, <1>3, Started

LEMMA ReuseKeeps == ASSUME IInv, NEW c \in Calls, NEW r \in DOMAIN rows, Reuse(c, r) PROVE IInv'
<1> DEFINE n == [Idle EXCEPT !.op = "reuse", !.own = rows[r].family, !.held = {r},
                             !.todo = <<"family">>]
<1>row. r \in 1 .. Len(rows) /\ r \in Ids /\ rows[r] \in Session
    BY RowTypes DEF IInv, Ids
<1>0. /\ r \in 1 .. Len(rows) /\ r \in 0 .. MaxRows /\ {r} \in SUBSET Ids
      /\ rows[r].family \in Ids /\ rows[r].family \in 0 .. MaxRows
    BY <1>row DEF Session, Ids
<1>1. /\ n \in Call /\ n.op = "reuse" /\ n.todo = <<"family">> /\ ~n.waiting /\ n.held = {r}
      /\ n.found = {} /\ ~n.holds /\ n.base = 0 /\ n.token = 0 /\ n.own \in Ids
    BY <1>0, IdleIsFine DEF Call, SignOuts
<1>2. Starts(c, n) /\ UNCHANGED <<user, rows, mail, ghosts>> /\ ~RowTaken(c, r)
    BY DEF Reuse
<1> HIDE DEF n
<1>3. Fits(c, n)
    BY <1>0, <1>1, <1>2 DEF Fits, Locking, Last4, Changing, IInv, TypeOK, Tokens
<1>4. QED
    BY <1>1, <1>2, <1>3, Started

LEMMA LogoutKeeps == ASSUME IInv, NEW c \in Calls, Logout(c) PROVE IInv'
<1> DEFINE n == [Idle EXCEPT !.op = "logout", !.todo = <<"all">>]
<1>1. /\ n \in Call /\ n.op = "logout" /\ n.todo = <<"all">> /\ ~n.waiting /\ n.held = {}
      /\ n.found = {} /\ ~n.holds /\ n.base = 0 /\ n.token = 0
    BY IdleIsFine DEF Call, SignOuts
<1>2. Starts(c, n) /\ UNCHANGED <<user, rows, mail, ghosts>>
    BY DEF Logout
<1> HIDE DEF n
<1>3. Fits(c, n)
    BY <1>1 DEF Fits, Locking, Last4, Changing, IInv, TypeOK, Tokens
<1>4. QED
    BY <1>1, <1>2, <1>3, Started

LEMMA ChangeKeeps == ASSUME IInv, NEW c \in Calls, NEW r \in DOMAIN rows, ChangePassword(c, r) PROVE IInv'
<1> DEFINE n == [Idle EXCEPT !.op = "change", !.own = rows[r].family, !.token = user.reset,
                             !.todo = OthersThenOwn]
<1>row. rows[r] \in Session /\ user.reset \in Tokens /\ user.reset <= issued
    BY RowTypes DEF IInv, TypeOK, Fresh
<1>0. /\ rows[r].family \in Ids /\ rows[r].family \in 0 .. MaxRows
      /\ user.reset \in Tokens /\ user.reset <= issued
    BY <1>row DEF Session, Ids
<1>1. /\ n \in Call /\ n.op = "change" /\ n.todo = OthersThenOwn /\ ~n.waiting /\ n.held = {}
      /\ n.found = {} /\ ~n.holds /\ n.base = 0 /\ n.token = user.reset /\ n.own \in Ids
    BY <1>0, IdleIsFine DEF Call, SignOuts, OthersThenOwn
<1>2. Starts(c, n) /\ UNCHANGED <<user, rows, mail, ghosts>>
    BY DEF ChangePassword
<1> HIDE DEF n
<1>3. Fits(c, n)
    BY <1>0, <1>1, <1>2 DEF Fits, Locking, Last4, Changing
<1>4. QED
    BY <1>1, <1>2, <1>3, Started

LEMMA CompleteChangeKeeps ==
    ASSUME IInv, NEW c \in Calls, NEW r \in DOMAIN rows, CompletePasswordChange(c, r)
    PROVE  IInv'
<1> DEFINE n == [Idle EXCEPT !.op = "changeByCode", !.own = rows[r].family, !.holds = TRUE,
                             !.token = user.reset, !.todo = OthersThenOwn]
<1>row. rows[r] \in Session /\ user.reset \in Tokens /\ user.reset <= issued
    BY RowTypes DEF IInv, TypeOK, Fresh
<1>0. /\ rows[r].family \in Ids /\ rows[r].family \in 0 .. MaxRows
      /\ user.reset \in Tokens /\ user.reset <= issued
    BY <1>row DEF Session, Ids
<1>1. /\ n \in Call /\ n.op = "changeByCode" /\ n.todo = OthersThenOwn /\ ~n.waiting /\ n.held = {}
      /\ n.found = {} /\ n.holds /\ n.base = 0 /\ n.token = user.reset /\ n.own \in Ids
    BY <1>0, IdleIsFine DEF Call, SignOuts, OthersThenOwn
<1>2. /\ Starts(c, n) /\ UNCHANGED <<user, rows, mail, ghosts>> /\ ~UserTaken(c)
      /\ user.reset # 0 /\ user.reset \notin spent
    BY DEF CompletePasswordChange, IInv, Fresh
<1> HIDE DEF n
<1>3. Fits(c, n)
    BY <1>0, <1>1, <1>2 DEF Fits, Locking, Last4, Changing
<1>4. QED
    BY <1>1, <1>2, <1>3, Started

LEMMA ResetKeeps == ASSUME IInv, NEW c \in Calls, ResetPassword(c) PROVE IInv'
<1> DEFINE n == [Idle EXCEPT !.op = "reset", !.token = user.reset, !.todo = <<"all">>]
<1>0. user.reset \in Tokens /\ user.reset <= issued
    BY DEF IInv, TypeOK, Fresh
<1>1. /\ n \in Call /\ n.op = "reset" /\ n.todo = <<"all">> /\ ~n.waiting /\ n.held = {}
      /\ n.found = {} /\ ~n.holds /\ n.base = 0 /\ n.token = user.reset
    BY <1>0, IdleIsFine DEF Call, SignOuts
<1>2. Starts(c, n) /\ UNCHANGED <<user, rows, mail, ghosts>>
    BY DEF ResetPassword
<1> HIDE DEF n
<1>3. Fits(c, n)
    BY <1>0, <1>1, <1>2 DEF Fits, Locking, Last4, Changing
<1>4. QED
    BY <1>1, <1>2, <1>3, Started

LEMMA RecoverKeeps == ASSUME IInv, NEW c \in Calls, CompletePasswordReset(c) PROVE IInv'
<1> DEFINE n == [Idle EXCEPT !.op = "recover", !.holds = TRUE, !.token = user.reset,
                             !.todo = <<"all">>]
<1>0. user.reset \in Tokens /\ user.reset <= issued
    BY DEF IInv, TypeOK, Fresh
<1>1. /\ n \in Call /\ n.op = "recover" /\ n.todo = <<"all">> /\ ~n.waiting /\ n.held = {}
      /\ n.found = {} /\ n.holds /\ n.base = 0 /\ n.token = user.reset
    BY <1>0, IdleIsFine DEF Call, SignOuts
<1>2. /\ Starts(c, n) /\ UNCHANGED <<user, rows, mail, ghosts>> /\ ~UserTaken(c)
      /\ user.reset \notin spent
    BY DEF CompletePasswordReset, IInv, Fresh
<1> HIDE DEF n
<1>3. Fits(c, n)
    BY <1>0, <1>1, <1>2 DEF Fits, Locking, Last4, Changing
<1>4. QED
    BY <1>1, <1>2, <1>3, Started

LEMMA DeactivateKeeps == ASSUME IInv, NEW c \in Calls, Deactivate(c) PROVE IInv'
<1> DEFINE n == [Idle EXCEPT !.op = "deactivate", !.holds = TRUE, !.todo = <<"all">>]
<1>1. /\ n \in Call /\ n.op = "deactivate" /\ n.todo = <<"all">> /\ ~n.waiting /\ n.held = {}
      /\ n.found = {} /\ n.holds /\ n.base = 0 /\ n.token = 0
    BY IdleIsFine DEF Call, SignOuts
<1>2. Starts(c, n) /\ UNCHANGED <<user, rows, mail, ghosts>> /\ ~UserTaken(c)
    BY DEF Deactivate
<1> HIDE DEF n
<1>3. Fits(c, n)
    BY <1>1, <1>2 DEF Fits, Locking, Last4, Changing, IInv, TypeOK, Tokens
<1>4. QED
    BY <1>1, <1>2, <1>3, Started

LEMMA ReadKeeps == ASSUME IInv, NEW c \in Calls, ReadSecurityCode(c) PROVE IInv'
<1> DEFINE code == codes["AUTH_CHANGE_PASSWORD"]
<1> DEFINE n == [Idle EXCEPT !.op = "guess", !.number = code.number, !.attempts = code.attempts]
<1>0. code \in Code /\ code.open /\ code.attempts <= MaxAttempts
    BY DEF IInv, TypeOK, Channels, Guesses, ReadSecurityCode
<1>1. /\ n \in Call /\ n.op = "guess" /\ n.todo = <<>> /\ ~n.waiting /\ n.held = {} /\ n.found = {}
      /\ ~n.holds /\ n.base = 0 /\ n.token = 0 /\ n.attempts = code.attempts
    BY <1>0, IdleIsFine DEF Call, Code
<1>2. Starts(c, n) /\ UNCHANGED <<user, rows, mail, ghosts>>
    BY DEF ReadSecurityCode
<1> HIDE DEF n
<1>3. Fits(c, n)
    BY <1>0, <1>1 DEF Fits, Locking, Last4, Changing, IInv, TypeOK, Tokens
<1>4. QED
    BY <1>1, <1>2, <1>3, Started

--------------------------------------------------------------------------------
(* The UPDATEs *)

LEMMA Moved ==
    ASSUME IInv, NEW c \in Calls, NEW n \in Call, calls' = [calls EXCEPT ![c] = n],
           UNCHANGED <<user, rows, mail, made, ghosts>>,
           n.op = calls[c].op, n.token = calls[c].token, n.holds = calls[c].holds,
           \A d \in Calls \ {c} : n.held \cap calls[d].held = {},
           Shaped(c)', Seen(c)'
    PROVE  IInv'
<1> USE DEF mail, ghosts
<1>0. TypeOK /\ CallsInv
    BY DEF IInv
<1>1. calls' = [calls EXCEPT ![c] = n] /\ calls'[c] = n
    BY <1>0 DEF TypeOK
<1>2. Follows({}) /\ issued' \in Tokens /\ issued <= issued'
    BY <1>0, RowTypes DEF Follows, TypeOK, Tokens
<1>3. \A d \in Calls \ {c} : {} \cap calls[d].held = {} /\ n.held \cap calls[d].held = {}
    OBVIOUS
<1>4. n.holds => ~UserTaken(c)
    BY <1>0 DEF UserTaken, CallsInv, Locks
<1>5. CallsInv' /\ calls' \in [Calls -> Call]
    BY <1>0, <1>2, <1>3, <1>4, CallsKept
<1>6. TypeOK'
    BY <1>5 DEF IInv, TypeOK
<1>7. Outs' /\ Guesses'
    BY DEF IInv, Outs, Guesses, GuessesBounded
<1>8. Fresh'
    <2>1. \A d \in Calls : calls'[d].op = calls[d].op /\ calls'[d].token = calls[d].token
        BY <1>0, <1>1 DEF TypeOK
    <2>2. SingleUse'
        BY <2>1 DEF SingleUse, IInv, Fresh
    <2>3. QED
        BY <2>2 DEF IInv, Fresh
<1>9. QED
    BY <1>5, <1>6, <1>7, <1>8 DEF IInv

LEMMA FindKeeps == ASSUME IInv, NEW c \in Calls, Find(c) PROVE IInv'
<1> USE DEF mail, ghosts
<1> DEFINE q == calls[c]
           new == [q EXCEPT !.waiting = TRUE, !.found = {r \in DOMAIN rows : Matches(q, r)},
                            !.base = IF Head(q.todo) = "own" THEN q.base ELSE Len(rows)]
<1>0. TypeOK /\ q \in Call /\ Shaped(c) /\ Seen(c) /\ Len(rows) \in 0 .. MaxRows
    BY RowTypes DEF IInv, CallsInv, TypeOK
<1>1. q.todo # <<>> /\ ~q.waiting /\ UNCHANGED <<user, rows, mail, made, ghosts>>
    BY DEF Find
<1>2. {r \in DOMAIN rows : Matches(q, r)} \subseteq 1 .. Len(rows)
    BY <1>0, RowTypes
<1>3. {r \in DOMAIN rows : Matches(q, r)} \in SUBSET Ids
    BY <1>0, <1>2 DEF Ids
<1>4. /\ new \in Call /\ new.op = q.op /\ new.own = q.own /\ new.row = q.row /\ new.todo = q.todo
      /\ new.waiting /\ new.found = {r \in DOMAIN rows : Matches(q, r)} /\ new.held = q.held
      /\ new.holds = q.holds /\ new.token = q.token /\ new.attempts = q.attempts
      /\ new.base = IF Head(q.todo) = "own" THEN q.base ELSE Len(rows)
    BY <1>0, <1>3 DEF Call
<1>5. calls' = [calls EXCEPT ![c] = new]
    BY <1>0 DEF Find, TypeOK
<1> HIDE DEF new
<1>6. PICK n \in Call :
         /\ n.op = q.op /\ n.own = q.own /\ n.row = q.row /\ n.todo = q.todo
         /\ n.waiting /\ n.found = {r \in DOMAIN rows : Matches(q, r)} /\ n.held = q.held
         /\ n.holds = q.holds /\ n.token = q.token /\ n.attempts = q.attempts
         /\ n.base = IF Head(q.todo) = "own" THEN q.base ELSE Len(rows)
         /\ calls' = [calls EXCEPT ![c] = n] /\ calls'[c] = n
    BY <1>0, <1>4, <1>5 DEF TypeOK
<1>7. Shaped(c)'
    BY <1>0, <1>1, <1>6 DEF Shaped
<1>8. Seen(c)'
    <2>1. n.base <= Len(rows) /\ n.base \in Nat
        BY <1>0, <1>6 DEF Seen, Call
    <2>2. \A r \in 1 .. n.base : Matches(q, r) => r \in n.found
        BY <1>0, <1>6, <2>1, RowTypes
    <2>3. \A r \in 1 .. n.base : Matches(n, r)' <=> Matches(q, r)
        BY <1>1, <1>6 DEF Matches
    <2>4. n.todo = <<"own">> => n.base = q.base
        BY <1>6, Lists
    <2>5. n.op \in Locking => n.base = Len(rows)
        BY <1>0, <1>1, <1>6, Lists DEF Seen, Shaped, Locking, Last4, Changing
    <2>6. n.op # "rotate"
        BY <1>0, <1>1, <1>6 DEF Shaped
    <2>7. QED
        BY <1>0, <1>1, <1>2, <1>6, <2>1, <2>2, <2>3, <2>4, <2>5, <2>6 DEF Seen
<1>9. \A d \in Calls \ {c} : n.held \cap calls[d].held = {}
    BY <1>6 DEF IInv, CallsInv, Locks
<1>10. QED
    BY <1>1, <1>6, <1>7, <1>8, <1>9, Moved

LEMMA UpdateKeeps == ASSUME IInv, NEW c \in Calls, Update(c) PROVE IInv'
<1> USE DEF mail, ghosts
<1> DEFINE q == calls[c]
           more == {r \in q.found : Matches(q, r)}
           n == [q EXCEPT !.waiting = FALSE, !.found = {}, !.todo = Tail(q.todo),
                          !.held = q.held \cup more]
<1>0. TypeOK /\ q \in Call /\ Shaped(c) /\ Seen(c) /\ Len(rows) \in 0 .. MaxRows
    BY RowTypes DEF IInv, CallsInv, TypeOK
<1>1. q.waiting /\ q.todo # <<>> /\ UNCHANGED <<user, rows, mail, made, ghosts>>
    BY <1>0 DEF Update, Shaped
<1>2. /\ q.held \cup more \subseteq 1 .. Len(rows) /\ q.held \cup more \in SUBSET Ids
    BY <1>0 DEF Seen, Call
<1>3. Tail(q.todo) \in {<<>>, <<"own">>} /\ (Tail(q.todo) = <<"own">> <=> q.todo = OthersThenOwn)
    BY <1>0, <1>1, Lists DEF Call, OthersThenOwn
<1>4. /\ n \in Call /\ n.op = q.op /\ n.own = q.own /\ n.row = q.row /\ n.todo = Tail(q.todo)
      /\ ~n.waiting /\ n.found = {} /\ n.held = q.held \cup more /\ n.holds = q.holds
      /\ n.token = q.token /\ n.attempts = q.attempts /\ n.base = q.base
    BY <1>0, <1>2, <1>3 DEF Call
<1>5. calls' = [calls EXCEPT ![c] = n]
    BY <1>0 DEF Update, TypeOK
<1> HIDE DEF n
<1>6. calls'[c] = n
    BY <1>0, <1>5 DEF TypeOK
<1>7. Shaped(c)'
    <2>1. q.op \in Last4 => n.todo = <<>>
        BY <1>0, <1>1, <1>4, Lists DEF Shaped
    <2>2. q.op = "reuse" => n.todo = <<>>
        BY <1>0, <1>1, <1>4, Lists DEF Shaped
    <2>3. q.op \in Changing => n.todo \in {<<"own">>, <<>>}
        BY <1>3, <1>4
    <2>4. q.op \notin {"none", "issue", "rotate", "guess"}
        BY <1>0, <1>1 DEF Shaped
    <2>5. QED
        BY <1>0, <1>1, <1>4, <1>6, <2>1, <2>2, <2>3, <2>4 DEF Shaped
<1>8. Seen(c)'
    <2>1. \A r \in 1 .. q.base : Matches(q, r) => r \in n.held
        BY <1>0, <1>1, <1>4 DEF Seen
    <2>2. n.todo = <<"own">> => \A r \in 1 .. q.base : rows[r].live /\ rows[r].family # q.own => r \in n.held
        <3>1. n.todo = <<"own">> => Head(q.todo) = "others"
            BY <1>3, <1>4, Lists
        <3>2. QED
            BY <2>1, <3>1 DEF Matches
    <2>3. n.todo = <<>> /\ q.op \in Last4 => \A r \in 1 .. q.base : rows[r].live => r \in n.held
        <3>1. q.op \in Last4 => Head(q.todo) = "all"
            BY <1>0, <1>1, Lists DEF Shaped
        <3>2. QED
            BY <2>1, <3>1 DEF Matches
    <2>4. n.todo = <<>> /\ q.op \in Changing => \A r \in 1 .. q.base : rows[r].live => r \in n.held
        <3>1. n.todo = <<>> /\ q.op \in Changing => q.todo = <<"own">> /\ Head(q.todo) = "own"
            BY <1>0, <1>1, <1>4, Lists DEF Shaped
        <3>2. q.todo = <<"own">> => \A r \in 1 .. q.base : rows[r].live /\ rows[r].family # q.own => r \in n.held
            BY <1>0, <1>4 DEF Seen
        <3>3. QED
            BY <2>1, <3>1, <3>2 DEF Matches
    <2>5. q.op = "reuse" => \A r \in 1 .. q.base : rows[r].family = q.own => r \in n.held
        <3>1. q.op = "reuse" => Head(q.todo) = "family"
            BY <1>0, <1>1, Lists DEF Shaped
        <3>2. QED
            BY <2>1, <3>1 DEF Matches
    <2>6. q.op # "rotate"
        BY <1>0, <1>1 DEF Shaped
    <2>7. q.op \in Locking => q.base = Len(rows)
        BY <1>0, <1>1 DEF Seen
    <2>8. q.base <= Len(rows)
        BY <1>0 DEF Seen
    <2>9. QED
        BY <1>1, <1>2, <1>4, <1>6, <2>2, <2>3, <2>4, <2>5, <2>6, <2>7, <2>8 DEF Seen
<1>9. \A d \in Calls \ {c} : n.held \cap calls[d].held = {}
    <2>1. \A d \in Calls \ {c} : q.held \cap calls[d].held = {}
        BY DEF IInv, CallsInv, Locks
    <2>2. \A d \in Calls \ {c} : more \cap calls[d].held = {}
        BY DEF Update, RowTaken
    <2>3. QED
        BY <1>4, <2>1, <2>2
<1>10. QED
    BY <1>1, <1>4, <1>5, <1>7, <1>8, <1>9, Moved

--------------------------------------------------------------------------------
(* The calls that end *)

\* Once its UPDATEs are done, a call has locked what it was to sign out.
LEMMA ScopeLocked ==
    ASSUME IInv, NEW c \in Calls, calls[c].todo = <<>>, calls[c].op \in SignOuts
    PROVE  /\ Scope(calls[c]) \subseteq 1 .. Len(rows)
           /\ \A r \in Scope(calls[c]) : rows[r].live => r \in calls[c].held
<1>1. Seen(c) /\ Len(rows) \in Nat /\ calls[c].base \in Nat
    BY RowTypes DEF IInv, CallsInv, TypeOK, Call
<1>2. calls[c].op # "reuse" => calls[c].op \in Last4 \cup Changing
    BY DEF SignOuts, Last4, Changing
<1>3. QED
    BY <1>1, <1>2 DEF Seen, Scope

LEMMA OutsKept ==
    ASSUME IInv, NEW revoked, Follows(revoked), NEW more, more \subseteq 1 .. Len(rows),
           \A r \in more : rows[r].live => r \in revoked,
           out' = out \cup more
    PROVE  Outs' /\ out' \subseteq Ids
<1>1. Len(rows) \in Nat /\ Len(rows') \in Nat /\ Len(rows) <= Len(rows') /\ Len(rows) <= MaxRows
    BY RowTypes DEF IInv, Follows
<1>2. out \subseteq 1 .. Len(rows) /\ (\A r \in out : ~rows[r].live) /\ out' = out \cup more
    BY DEF IInv, Outs
<1>3. out' \subseteq 1 .. Len(rows)
    BY <1>2
<1>4. \A r \in out' : ~rows'[r].live
    BY <1>2, <1>3 DEF Follows
<1>5. out' \subseteq 1 .. Len(rows') /\ out' \subseteq 1 .. MaxRows
    BY <1>1, <1>3
<1>6. QED
    BY <1>4, <1>5 DEF Outs, Ids

LEMMA OutsSame == ASSUME IInv, NEW revoked, Follows(revoked), UNCHANGED out PROVE Outs'
<1>1. Len(rows) \in Nat /\ Len(rows') \in Nat /\ Len(rows) <= Len(rows')
    BY RowTypes DEF IInv, Follows
<1>2. out \subseteq 1 .. Len(rows) /\ (\A r \in out : ~rows[r].live) /\ out' = out
    BY DEF IInv, Outs
<1>3. \A r \in out' : r \in 1 .. Len(rows') /\ ~rows'[r].live
    BY <1>1, <1>2 DEF Follows
<1>4. QED
    BY <1>3 DEF Outs

\* A call that ends has used its token, or not; in the end nobody else could use it.
LEMMA UseKept ==
    ASSUME IInv, NEW c \in Calls, Ends(c),
           \/ spent' = spent
           \/ spent' = spent \cup {calls[c].token} /\ ~UserTaken(c)
    PROVE  SingleUse' /\ spent' \subseteq Tokens /\ spent' \subseteq 0 .. issued
<1>1. calls \in [Calls -> Call] /\ calls' = [calls EXCEPT ![c] = Idle] /\ calls[c] \in Call
    BY DEF Ends, IInv, TypeOK
<1>2. calls'[c].op = "none" /\ \A d \in Calls \ {c} : calls'[d] = calls[d]
    BY <1>1, IdleIsFine
<1>3. \A d \in Calls \ {c} : calls[d].op \in {"changeByCode", "recover"} => calls[d].holds
    BY DEF IInv, CallsInv, Shaped, Locking
<1>4. SingleUse'
    BY <1>2, <1>3 DEF SingleUse, IInv, Fresh, UserTaken
<1>5. Shaped(c) /\ calls[c].token \in Tokens
    BY <1>1 DEF IInv, CallsInv, Call
<1>6. calls[c].token \in 0 .. issued
    BY <1>5 DEF Shaped, IInv, TypeOK, Tokens
<1>7. QED
    BY <1>4, <1>5, <1>6 DEF IInv, TypeOK, Fresh

LEMMA AbortKeeps == ASSUME IInv, NEW c \in Calls, Abort(c) PROVE IInv'
<1> USE DEF mail, ghosts
<1>1. Ends(c) /\ UNCHANGED <<user, rows, codes, newest, issued, out, spent>>
    BY DEF Abort
<1>2. Follows({}) /\ issued' \in Tokens /\ issued <= issued'
    BY <1>1, RowTypes DEF Follows, IInv, TypeOK, Tokens
<1>3. CallsInv' /\ calls' \in [Calls -> Call]
    BY <1>1, <1>2, Ended DEF IInv
<1>4. SingleUse'
    BY <1>1, UseKept
<1>5. TypeOK'
    BY <1>1, <1>3 DEF IInv, TypeOK, Ends
<1>6. Outs' /\ Guesses' /\ Fresh'
    BY <1>1, <1>4 DEF IInv, Outs, Guesses, GuessesBounded, Fresh
<1>7. QED
    BY <1>3, <1>5, <1>6 DEF IInv

LEMMA IssueCommitKeeps == ASSUME IInv, NEW c \in Calls, IssueCommit(c) PROVE IInv'
<1> USE DEF mail, ghosts
<1>1. /\ Ends(c) /\ UNCHANGED <<user, codes, newest, issued, out, spent>> /\ ~UserTaken(c)
      /\ rows' = Insert(rows, Len(rows) + 1, 0) /\ Len(rows) < MaxRows
    BY DEF IssueCommit
<1>2. Len(rows) \in 0 .. MaxRows /\ rows \in Seq(Session) /\ 0 \in 0 .. MaxRows
    BY RowTypes DEF IInv, TypeOK
<1>3. Len(rows) + 1 \in Ids
    BY <1>1, <1>2 DEF Ids
<1>4. Follows({}) /\ issued' \in Tokens /\ issued <= issued'
    <2>1. /\ rows' \in Seq(Session) /\ Len(rows') = Len(rows) + 1
          /\ \A r \in 1 .. Len(rows) : rows'[r] = rows[r]
        BY <1>1, <1>2, <1>3, Inserted
    <2>2. QED
        BY <1>1, <1>2, <2>1 DEF Follows, IInv, TypeOK, Tokens
<1>5. CallsInv' /\ calls' \in [Calls -> Call]
    BY <1>1, <1>4, Ended DEF IInv
<1>6. SingleUse'
    BY <1>1, UseKept
<1>7. TypeOK'
    BY <1>1, <1>4, <1>5 DEF IInv, TypeOK, Ends, Follows
<1>8. Outs'
    BY <1>1, <1>4, OutsSame
<1>9. Guesses' /\ Fresh'
    BY <1>1, <1>6 DEF IInv, Guesses, GuessesBounded, Fresh
<1>10. QED
    BY <1>5, <1>7, <1>8, <1>9 DEF IInv

LEMMA RotateCommitKeeps == ASSUME IInv, NEW c \in Calls, RotateCommit(c) PROVE IInv'
<1> USE DEF mail, ghosts
<1> DEFINE q == calls[c]
<1>1. /\ Ends(c) /\ UNCHANGED <<user, codes, newest, issued, out, spent>> /\ ~UserTaken(c)
      /\ rows' = Insert(Revoke({q.row}), q.own, q.row) /\ Len(rows) < MaxRows /\ q.op = "rotate"
    BY DEF RotateCommit
<1>2. q.row \in 0 .. MaxRows /\ q.row \in q.held /\ q.own \in Ids
    BY <1>1 DEF IInv, TypeOK, Call, CallsInv, Shaped, Seen
<1>3. PICK f \in Ids, p \in 0 .. MaxRows, set \in {{q.row}} :
         set = {q.row} /\ rows' = Insert(Revoke(set), f, p) /\ f = q.own /\ p = q.row
    BY <1>1, <1>2
<1>4. Follows(set) /\ issued' \in Tokens /\ issued <= issued'
    <2>1. TypeOK
        BY DEF IInv
    <2>2. Follows(set)
        BY <1>1, <1>3, <2>1, Replaced
    <2>3. QED
        BY <1>1, <2>1, <2>2 DEF TypeOK, Tokens
<1>5. CallsInv' /\ calls' \in [Calls -> Call]
    BY <1>1, <1>2, <1>3, <1>4, Ended DEF IInv
<1>6. SingleUse'
    BY <1>1, UseKept
<1>7. TypeOK'
    BY <1>1, <1>4, <1>5 DEF IInv, TypeOK, Ends, Follows
<1>8. Outs'
    BY <1>1, <1>4, OutsSame
<1>9. Guesses' /\ Fresh'
    BY <1>1, <1>6 DEF IInv, Guesses, GuessesBounded, Fresh
<1>10. QED
    BY <1>5, <1>7, <1>8, <1>9 DEF IInv

LEMMA LogoutCommitKeeps == ASSUME IInv, NEW c \in Calls, LogoutCommit(c) PROVE IInv'
<1> USE DEF mail, ghosts
<1>1. /\ Ends(c) /\ UNCHANGED <<user, codes, newest, issued, spent>>
      /\ rows' = Revoke(calls[c].held) /\ out' = out \cup Scope(calls[c])
      /\ calls[c].todo = <<>> /\ calls[c].op \in SignOuts
    BY DEF LogoutCommit, Ready, SignsOut, SignOuts
<1>2. Follows(calls[c].held) /\ Len(rows') = Len(rows)
    BY <1>1, Dies DEF IInv
<1>3. issued' \in Tokens /\ issued <= issued'
    BY <1>1 DEF IInv, TypeOK, Tokens
<1>4. CallsInv' /\ calls' \in [Calls -> Call]
    BY <1>1, <1>2, <1>3, Ended DEF IInv
<1>5. SingleUse'
    BY <1>1, UseKept
<1>6. Outs' /\ out' \subseteq Ids
    BY <1>1, <1>2, ScopeLocked, OutsKept
<1>7. TypeOK'
    BY <1>1, <1>2, <1>4, <1>6 DEF IInv, TypeOK, Ends, Follows
<1>8. Guesses' /\ Fresh'
    BY <1>1, <1>5 DEF IInv, Guesses, GuessesBounded, Fresh
<1>9. QED
    BY <1>4, <1>6, <1>7, <1>8 DEF IInv

LEMMA DeactivateCommitKeeps == ASSUME IInv, NEW c \in Calls, DeactivateCommit(c) PROVE IInv'
<1> USE DEF mail, ghosts
<1>1. /\ Ends(c) /\ UNCHANGED <<codes, newest, issued, spent>> /\ user' = [user EXCEPT !.active = FALSE]
      /\ rows' = Revoke(calls[c].held) /\ out' = out \cup Scope(calls[c])
      /\ calls[c].todo = <<>> /\ calls[c].op \in SignOuts
    BY DEF DeactivateCommit, Ready, SignsOut, SignOuts
<1>2. Follows(calls[c].held) /\ Len(rows') = Len(rows)
    BY <1>1, Dies DEF IInv
<1>3. issued' \in Tokens /\ issued <= issued'
    BY <1>1 DEF IInv, TypeOK, Tokens
<1>4. CallsInv' /\ calls' \in [Calls -> Call]
    BY <1>1, <1>2, <1>3, Ended DEF IInv
<1>5. SingleUse'
    BY <1>1, UseKept
<1>6. Outs' /\ out' \subseteq Ids
    BY <1>1, <1>2, ScopeLocked, OutsKept
<1>7. user' \in [active : BOOLEAN, reset : Tokens] /\ user'.reset = user.reset
    BY <1>1 DEF IInv, TypeOK
<1>8. TypeOK'
    BY <1>1, <1>2, <1>4, <1>6, <1>7 DEF IInv, TypeOK, Ends, Follows
<1>9. Guesses' /\ Fresh'
    BY <1>1, <1>5, <1>7 DEF IInv, Guesses, GuessesBounded, Fresh
<1>10. QED
    BY <1>4, <1>6, <1>8, <1>9 DEF IInv

LEMMA ChangeCommitKeeps == ASSUME IInv, NEW c \in Calls, ChangeCommit(c) PROVE IInv'
<1> USE DEF mail, ghosts
<1> DEFINE q == calls[c]
<1>1. /\ Ends(c) /\ UNCHANGED <<codes, newest, issued>> /\ ~UserTaken(c) /\ Len(rows) < MaxRows
      /\ user' = [user EXCEPT !.reset = IF q.token = 0 THEN @ ELSE 0]
      /\ rows' = Insert(Revoke(q.held), q.own, 0) /\ out' = out \cup Scope(q)
      /\ spent' = IF q.op = "changeByCode" THEN spent \cup {q.token} ELSE spent
      /\ q.todo = <<>> /\ q.op \in {"change", "changeByCode"}
    BY DEF ChangeCommit, Ready, SignsOut
<1>2. q.own \in Ids /\ 0 \in 0 .. MaxRows /\ (q.op = "changeByCode" => q.token # 0)
    BY <1>1 DEF IInv, CallsInv, Shaped, Changing
<1>3. Follows(q.held)
    BY <1>1, <1>2, Replaced DEF IInv
<1>4. issued' \in Tokens /\ issued <= issued'
    BY <1>1 DEF IInv, TypeOK, Tokens
<1>5. CallsInv' /\ calls' \in [Calls -> Call]
    BY <1>1, <1>3, <1>4, Ended DEF IInv
<1>6. SingleUse' /\ spent' \subseteq Tokens /\ spent' \subseteq 0 .. issued
    BY <1>1, UseKept
<1>7. Outs' /\ out' \subseteq Ids
    BY <1>1, <1>3, ScopeLocked, OutsKept DEF SignOuts
<1>8. /\ user' \in [active : BOOLEAN, reset : Tokens]
      /\ user'.reset = 0 \/ (user'.reset = user.reset /\ spent' = spent)
    <2>1. user \in [active : BOOLEAN, reset : Tokens] /\ 0 \in Tokens
        BY DEF IInv, TypeOK, Tokens
    <2>2. PICK t \in Tokens : t = IF q.token = 0 THEN user.reset ELSE 0
        BY <2>1
    <2>3. user' = [user EXCEPT !.reset = t]
        <3>1. CASE q.token = 0
            BY <1>1, <2>2, <3>1
        <3>2. CASE q.token # 0
            BY <1>1, <2>2, <3>2
        <3>3. QED
            BY <3>1, <3>2
    <2>4. user' \in [active : BOOLEAN, reset : Tokens] /\ user'.reset = t
        BY <2>1, <2>3
    <2>5. t = 0 \/ (t = user.reset /\ spent' = spent)
        <3>1. q.token = 0 => q.op # "changeByCode"
            BY <1>2
        <3>2. q.op # "changeByCode" => spent' = spent
            BY <1>1
        <3>3. q.token = 0 => t = user.reset
            BY <2>2
        <3>4. q.token # 0 => t = 0
            BY <2>2
        <3>5. QED
            BY <3>1, <3>2, <3>3, <3>4
    <2>6. QED
        BY <2>4, <2>5
<1>9. TypeOK'
    BY <1>1, <1>3, <1>5, <1>6, <1>7, <1>8 DEF IInv, TypeOK, Ends, Follows
<1>10. Fresh'
    BY <1>1, <1>4, <1>6, <1>8 DEF IInv, Fresh, TypeOK, Tokens
<1>11. Guesses'
    BY <1>1 DEF IInv, Guesses, GuessesBounded
<1>12. QED
    BY <1>5, <1>7, <1>9, <1>10, <1>11 DEF IInv

LEMMA ResetCommitKeeps == ASSUME IInv, NEW c \in Calls, ResetCommit(c) PROVE IInv'
<1> USE DEF mail, ghosts
<1> DEFINE q == calls[c]
           gone(h) == q.op = "recover" /\ h \in Active
<1>1. /\ Ends(c) /\ UNCHANGED <<newest, issued>> /\ ~UserTaken(c)
      /\ user' = [user EXCEPT !.reset = 0]
      /\ rows' = Revoke(q.held) /\ out' = out \cup Scope(q)
      /\ spent' = spent \cup {q.token}
      /\ codes' = [h \in Channels |-> [codes[h] EXCEPT !.open = @ /\ ~gone(h)]]
      /\ q.todo = <<>> /\ q.op \in SignOuts
    BY DEF ResetCommit, Ready, SignsOut, SignOuts
<1> HIDE DEF gone
<1>2. Follows(q.held) /\ Len(rows') = Len(rows)
    BY <1>1, Dies DEF IInv
<1>3. issued' \in Tokens /\ issued <= issued'
    BY <1>1 DEF IInv, TypeOK, Tokens
<1>4. CallsInv' /\ calls' \in [Calls -> Call]
    BY <1>1, <1>2, <1>3, Ended DEF IInv
<1>5. SingleUse' /\ spent' \subseteq Tokens /\ spent' \subseteq 0 .. issued
    BY <1>1, UseKept
<1>6. Outs' /\ out' \subseteq Ids
    BY <1>1, <1>2, ScopeLocked, OutsKept
<1>7. user' \in [active : BOOLEAN, reset : Tokens] /\ user'.reset = 0
    BY <1>1 DEF IInv, TypeOK, Tokens
<1>8. codes' \in [Channels -> Code]
    BY <1>1 DEF IInv, TypeOK, Code
<1>9. \A h \in Channels : /\ codes'[h].open => codes[h].open
                          /\ codes'[h].attempts = codes[h].attempts /\ codes'[h].tries = codes[h].tries
    BY <1>1 DEF IInv, TypeOK, Code
<1>10. TypeOK'
    BY <1>1, <1>2, <1>4, <1>5, <1>6, <1>7, <1>8 DEF IInv, TypeOK, Ends, Follows
<1>11. Fresh'
    BY <1>1, <1>3, <1>5, <1>7 DEF IInv, Fresh, TypeOK, Tokens
<1>12. Guesses'
    BY <1>9 DEF IInv, Guesses, GuessesBounded, Channels
<1>13. QED
    BY <1>4, <1>6, <1>10, <1>11, <1>12 DEF IInv

--------------------------------------------------------------------------------
(* Tokens and codes *)

\* A step that leaves the rows and the calls as they are keeps what is said of the calls.
LEMMA CallsSame ==
    ASSUME IInv, UNCHANGED <<rows, calls>>, issued' \in Tokens, issued <= issued'
    PROVE  CallsInv'
<1>1. ASSUME NEW d \in Calls PROVE Shaped(d)' /\ Seen(d)'
    <2>1. calls[d].token \in Nat /\ issued \in Nat /\ issued' \in Nat
        BY DEF IInv, TypeOK, Call, Tokens
    <2>2. Shaped(d) /\ Seen(d)
        BY DEF IInv, CallsInv
    <2>3. Shaped(d)'
        BY <2>1, <2>2 DEF Shaped
    <2>4. \A r : Matches(calls[d], r)' <=> Matches(calls[d], r)
        BY DEF Matches
    <2>5. Seen(d)'
        BY <2>2, <2>4 DEF Seen
    <2>6. QED
        BY <2>3, <2>5
<1>2. Locks'
    BY DEF IInv, CallsInv, Locks
<1>3. QED
    BY <1>1, <1>2 DEF CallsInv

LEMMA NewTokenKeeps ==
    ASSUME IInv, NewToken
    PROVE  /\ user' \in [active : BOOLEAN, reset : Tokens] /\ issued' \in Tokens /\ issued <= issued'
           /\ spent \subseteq 0 .. issued' /\ user'.reset <= issued' /\ user'.reset \notin spent
<1>1. issued \in Nat /\ issued + 1 \in Tokens /\ spent \subseteq 0 .. issued
    BY DEF IInv, TypeOK, Fresh, NewToken, Tokens
<1>2. user' = [user EXCEPT !.reset = issued + 1] /\ issued' = issued + 1
    BY DEF NewToken
<1>3. user' \in [active : BOOLEAN, reset : Tokens] /\ user'.reset = issued + 1
    BY <1>1, <1>2 DEF IInv, TypeOK
<1>4. QED
    BY <1>1, <1>2, <1>3

LEMMA SendKeeps == ASSUME IInv, SendResetToken PROVE IInv'
<1> USE DEF ghosts
<1>1. NewToken /\ UNCHANGED <<rows, codes, newest, calls, made, out, spent>>
    BY DEF SendResetToken
<1>2. /\ user' \in [active : BOOLEAN, reset : Tokens] /\ issued' \in Tokens /\ issued <= issued'
      /\ spent \subseteq 0 .. issued' /\ user'.reset <= issued' /\ user'.reset \notin spent
    BY <1>1, NewTokenKeeps
<1>3. CallsInv'
    BY <1>1, <1>2, CallsSame
<1>4. TypeOK'
    BY <1>1, <1>2 DEF IInv, TypeOK
<1>5. Fresh' /\ Outs' /\ Guesses'
    BY <1>1, <1>2 DEF IInv, Fresh, SingleUse, Outs, Guesses, GuessesBounded
<1>6. QED
    BY <1>3, <1>4, <1>5 DEF IInv

\* A code that is guessed wrongly.
LEMMA GuessedOnce ==
    ASSUME NEW code \in Code, NEW attempts \in 0 .. MaxAttempts
    PROVE  /\ Guessed(code, attempts) \in Code
           /\ Guessed(code, attempts).open => Guessed(code, attempts).attempts <= MaxAttempts
           /\ code.tries <= attempts =>
                 /\ Guessed(code, attempts).tries <= Guessed(code, attempts).attempts
                 /\ Guessed(code, attempts).tries <= MaxAttempts
<1>1. /\ code.tries \in 0 .. MaxAttempts + 1 /\ code.open \in BOOLEAN /\ code.number \in 0 .. MaxCodes
      /\ attempts + 1 \in 0 .. MaxAttempts + 1
    BY DEF Code
<1>2. PICK t \in 0 .. MaxAttempts + 1 :
         t = OneMore(code.tries, attempts) /\ (code.tries <= attempts => t <= attempts + 1 /\ t <= MaxAttempts)
    BY <1>1 DEF OneMore
<1>3. PICK o \in BOOLEAN : o = (code.open /\ attempts < MaxAttempts)
    OBVIOUS
<1>4. Guessed(code, attempts) = [code EXCEPT !.attempts = attempts + 1, !.open = o, !.tries = t]
    BY <1>2, <1>3 DEF Guessed
<1>5. /\ Guessed(code, attempts) \in Code /\ Guessed(code, attempts).open = o
      /\ Guessed(code, attempts).attempts = attempts + 1 /\ Guessed(code, attempts).tries = t
    BY <1>1, <1>4 DEF Code
<1>6. o => attempts < MaxAttempts
    BY <1>3
<1>7. QED
    BY <1>1, <1>2, <1>5, <1>6

\* A step that touches nothing but the codes, the calls apart.
LEMMA CodesKept ==
    ASSUME IInv, codes' \in [Channels -> Code], newest' \in Channels, Guesses',
           UNCHANGED <<user, rows, issued, calls, made, ghosts>>
    PROVE  IInv'
<1> USE DEF ghosts
<1>1. CallsInv'
    BY CallsSame DEF IInv, TypeOK, Tokens
<1>2. TypeOK'
    BY DEF IInv, TypeOK
<1>3. Fresh' /\ Outs'
    BY DEF IInv, Fresh, SingleUse, Outs
<1>4. QED
    BY <1>1, <1>2, <1>3 DEF IInv

\* The code of one channel is replaced, or closed.
LEMMA OneCode ==
    ASSUME IInv, NEW h \in Channels, NEW code \in Code, codes' = [codes EXCEPT ![h] = code],
           code.open => code.attempts <= MaxAttempts,
           h = "EMAIL" => code.tries <= code.attempts /\ code.tries <= MaxAttempts
    PROVE  codes' \in [Channels -> Code] /\ Guesses'
<1>1. codes \in [Channels -> Code] /\ "EMAIL" \in Channels
    BY DEF IInv, TypeOK, Channels
<1>2. codes'[h] = code /\ \A k \in Channels \ {h} : codes'[k] = codes[k]
    BY <1>1
<1>3. QED
    BY <1>1, <1>2 DEF IInv, Guesses, GuessesBounded

LEMMA ActiveIsOpen == ASSUME IInv, NEW h \in Active
                      PROVE  h \in Channels /\ codes[h].open /\ codes[h] \in Code
BY DEF Active, IInv, TypeOK

LEMMA VerifyWronglyKeeps == ASSUME IInv, NEW h \in Channels, VerifyWrongly(h) PROVE IInv'
<1>1. codes[h].open /\ codes[h] \in Code
    BY ActiveIsOpen DEF VerifyWrongly
<1>2. PICK old \in Code : old = codes[h]
    BY <1>1
<1>3. /\ old.attempts \in 0 .. MaxAttempts
      /\ h = "EMAIL" => old.tries <= old.attempts
    BY <1>1, <1>2 DEF IInv, Guesses, Code
<1>4. PICK code \in Code :
         /\ code = Guessed(old, old.attempts)
         /\ code.open => code.attempts <= MaxAttempts
         /\ h = "EMAIL" => code.tries <= code.attempts /\ code.tries <= MaxAttempts
    BY <1>3, GuessedOnce
<1>5. codes' = [codes EXCEPT ![h] = code]
    BY <1>2, <1>4 DEF VerifyWrongly
<1>6. codes' \in [Channels -> Code] /\ Guesses'
    BY <1>4, <1>5, OneCode
<1>7. QED
    BY <1>6, CodesKept DEF VerifyWrongly, ghosts, IInv, TypeOK

LEMMA RequestKeeps == ASSUME IInv, NEW h \in Channels, RequestCode(h) PROVE IInv'
<1>1. codes \in [Channels -> Code] /\ codes[h].number < MaxCodes
    BY DEF IInv, TypeOK, RequestCode
<1>2. /\ Sent(h) \in Code /\ Sent(h).attempts = 0 /\ Sent(h).tries = 0
    BY <1>1 DEF Sent, Code
<1>3. \A k \in Channels :
         /\ [codes[k] EXCEPT !.open = @ /\ h # "EMAIL"] \in Code
         /\ [codes[k] EXCEPT !.open = @ /\ h # "EMAIL"].open => codes[k].open
         /\ [codes[k] EXCEPT !.open = @ /\ h # "EMAIL"].attempts = codes[k].attempts
         /\ [codes[k] EXCEPT !.open = @ /\ h # "EMAIL"].tries = codes[k].tries
    BY <1>1 DEF Code
<1>4. \A k \in Channels :
         \/ codes'[k] = Sent(h)
         \/ /\ codes'[k] \in Code /\ (codes'[k].open => codes[k].open)
            /\ codes'[k].attempts = codes[k].attempts /\ codes'[k].tries = codes[k].tries
    BY <1>3 DEF RequestCode
<1>5. codes' \in [Channels -> Code]
    BY <1>2, <1>4 DEF RequestCode
<1>6. "EMAIL" \in Channels /\ 0 <= MaxAttempts
    BY DEF Channels
<1>7. Guesses'
    BY <1>2, <1>4, <1>6 DEF IInv, Guesses, GuessesBounded
<1>8. QED
    BY <1>5, <1>7, CodesKept DEF RequestCode, ghosts

LEMMA RecoveryCodeKeeps == ASSUME IInv, NEW h \in Channels, VerifyRecoveryCode(h) PROVE IInv'
<1> USE DEF ghosts
<1>1. /\ NewToken /\ codes' = [codes EXCEPT ![h].open = FALSE]
      /\ UNCHANGED <<rows, newest, calls, made, out, spent>>
    BY DEF VerifyRecoveryCode
<1>2. /\ user' \in [active : BOOLEAN, reset : Tokens] /\ issued' \in Tokens /\ issued <= issued'
      /\ spent \subseteq 0 .. issued' /\ user'.reset <= issued' /\ user'.reset \notin spent
    BY <1>1, NewTokenKeeps
<1>3. CallsInv'
    BY <1>1, <1>2, CallsSame
<1>4. codes' \in [Channels -> Code] /\ Guesses'
    <2>1. codes \in [Channels -> Code]
        BY DEF IInv, TypeOK
    <2>2. PICK code \in Code : code = [codes[h] EXCEPT !.open = FALSE]
        BY <2>1 DEF Code
    <2>3. /\ codes' = [codes EXCEPT ![h] = code] /\ ~code.open
          /\ code.attempts = codes[h].attempts /\ code.tries = codes[h].tries
        BY <1>1, <2>1, <2>2 DEF Code
    <2>4. h = "EMAIL" => code.tries <= code.attempts /\ code.tries <= MaxAttempts
        BY <2>3 DEF IInv, Guesses, GuessesBounded
    <2>5. QED
        BY <2>3, <2>4, OneCode
<1>5. TypeOK'
    BY <1>1, <1>2, <1>4 DEF IInv, TypeOK
<1>6. Fresh' /\ Outs'
    BY <1>1, <1>2 DEF IInv, Fresh, SingleUse, Outs
<1>7. QED
    BY <1>3, <1>4, <1>5, <1>6 DEF IInv

\* The code read without a lock is written back, or another has been sent since.
LEMMA Written ==
    ASSUME IInv, NEW c \in Calls, NEW code \in Code, Writes(c, code),
           code.open => code.attempts <= MaxAttempts
    PROVE  codes' \in [Channels -> Code] /\ Guesses'
<1> DEFINE h == "AUTH_CHANGE_PASSWORD"
<1>1. codes \in [Channels -> Code] /\ h \in Channels /\ h # "EMAIL"
    BY DEF IInv, TypeOK, Channels
<1>2. CASE codes[h].number = calls[c].number
    <2>1. codes' = [codes EXCEPT ![h] = code]
        BY <1>2 DEF Writes
    <2>2. QED
        BY <1>1, <2>1, OneCode
<1>3. CASE codes[h].number # calls[c].number
    <2>1. codes' = codes
        BY <1>1, <1>3 DEF Writes
    <2>2. QED
        BY <1>1, <2>1 DEF IInv, Guesses, GuessesBounded
<1>4. QED
    BY <1>2, <1>3

LEMMA SecurityWronglyKeeps == ASSUME IInv, NEW c \in Calls, VerifySecurityWrongly(c) PROVE IInv'
<1> USE DEF ghosts
<1>1. /\ calls[c].op = "guess" /\ Ends(c) /\ UNCHANGED <<user, rows, newest, issued, out, spent>>
      /\ Writes(c, Guessed(codes["AUTH_CHANGE_PASSWORD"], calls[c].attempts))
    BY DEF VerifySecurityWrongly
<1>2. codes["AUTH_CHANGE_PASSWORD"] \in Code /\ calls[c].attempts \in 0 .. MaxAttempts
    BY <1>1 DEF IInv, TypeOK, Channels, CallsInv, Shaped, Call
<1>3. PICK old \in Code, attempts \in 0 .. MaxAttempts :
         old = codes["AUTH_CHANGE_PASSWORD"] /\ attempts = calls[c].attempts
    BY <1>2
<1>4. PICK code \in Code :
         code = Guessed(old, attempts) /\ (code.open => code.attempts <= MaxAttempts)
    BY GuessedOnce
<1>5. codes' \in [Channels -> Code] /\ Guesses'
    BY <1>1, <1>3, <1>4, Written
<1>6. Follows({}) /\ issued' \in Tokens /\ issued <= issued'
    BY <1>1, RowTypes DEF Follows, IInv, TypeOK, Tokens
<1>7. CallsInv' /\ calls' \in [Calls -> Call]
    BY <1>1, <1>6, Ended DEF IInv
<1>8. SingleUse'
    BY <1>1, UseKept
<1>9. TypeOK'
    BY <1>1, <1>5, <1>7 DEF IInv, TypeOK, Ends
<1>10. Outs' /\ Fresh'
    BY <1>1, <1>8 DEF IInv, Outs, Fresh
<1>11. QED
    BY <1>5, <1>7, <1>9, <1>10 DEF IInv

LEMMA SecurityCodeKeeps == ASSUME IInv, NEW c \in Calls, VerifySecurityCode(c) PROVE IInv'
<1> USE DEF ghosts
<1>1. /\ Ends(c) /\ NewToken /\ UNCHANGED <<rows, newest, out, spent>>
      /\ Writes(c, [codes["AUTH_CHANGE_PASSWORD"] EXCEPT !.open = FALSE])
    BY DEF VerifySecurityCode
<1>2. /\ [codes["AUTH_CHANGE_PASSWORD"] EXCEPT !.open = FALSE] \in Code
      /\ ~[codes["AUTH_CHANGE_PASSWORD"] EXCEPT !.open = FALSE].open
    <2>1. PICK old \in Code : old = codes["AUTH_CHANGE_PASSWORD"]
        BY DEF IInv, TypeOK, Channels
    <2>2. [old EXCEPT !.open = FALSE] \in Code /\ ~[old EXCEPT !.open = FALSE].open
        BY DEF Code
    <2>3. QED
        BY <2>1, <2>2
<1>3. PICK code \in Code :
         code = [codes["AUTH_CHANGE_PASSWORD"] EXCEPT !.open = FALSE] /\ ~code.open
    BY <1>2
<1>4. codes' \in [Channels -> Code] /\ Guesses'
    <2>1. Writes(c, code)
        BY <1>1, <1>3
    <2>2. QED
        BY <1>3, <2>1, Written
<1>5. /\ user' \in [active : BOOLEAN, reset : Tokens] /\ issued' \in Tokens /\ issued <= issued'
      /\ spent \subseteq 0 .. issued' /\ user'.reset <= issued' /\ user'.reset \notin spent
    BY <1>1, NewTokenKeeps
<1>6. Follows({})
    BY <1>1, RowTypes DEF Follows, IInv, TypeOK
<1>7. CallsInv' /\ calls' \in [Calls -> Call]
    BY <1>1, <1>5, <1>6, Ended DEF IInv
<1>8. SingleUse'
    BY <1>1, UseKept
<1>9. TypeOK'
    BY <1>1, <1>4, <1>5, <1>7 DEF IInv, TypeOK, Ends
<1>10. Outs' /\ Fresh'
    BY <1>1, <1>5, <1>8 DEF IInv, Outs, Fresh
<1>11. QED
    BY <1>4, <1>7, <1>9, <1>10 DEF IInv

--------------------------------------------------------------------------------
(* The theorems *)

LEMMA InitHolds == Init => IInv
<1> SUFFICES ASSUME Init PROVE IInv
    OBVIOUS
<1>1. /\ 0 \in Tokens /\ 0 \in 0 .. MaxCodes /\ 0 \in 0 .. MaxAttempts + 1 /\ 0 \in 0 .. MaxCalls
      /\ 0 <= MaxRows /\ "EMAIL" \in Channels
    BY DEF Tokens, Channels
<1>2. Unsent \in Code /\ ~Unsent.open /\ Unsent.tries = 0 /\ Unsent.attempts = 0
    BY <1>1 DEF Unsent, Code
<1>3. rows = <<>> /\ rows \in Seq(Session) /\ Len(rows) = 0 /\ issued = 0 /\ out = {} /\ spent = {}
    BY DEF Init
<1>4. user \in [active : BOOLEAN, reset : Tokens] /\ user.reset = 0
    BY <1>1 DEF Init
<1>5. codes \in [Channels -> Code] /\ \A h \in Channels : codes[h] = Unsent
    BY <1>2 DEF Init
<1>6. calls \in [Calls -> Call] /\ \A c \in Calls : calls[c] = Idle
    BY IdleIsFine DEF Init
<1>7. TypeOK
    BY <1>1, <1>3, <1>4, <1>5, <1>6 DEF TypeOK, Init
<1>8. CallsInv
    <2>1. ASSUME NEW c \in Calls PROVE Shaped(c) /\ Seen(c)
        <3>1. calls[c] = Idle
            BY <1>6
        <3>2. Shaped(c)
            BY <1>3, <3>1, IdleIsFine DEF Shaped, Locking, Last4, Changing
        <3>3. Seen(c)
            BY <1>3, <3>1, IdleIsFine DEF Seen, Locking, Last4, Changing
        <3>4. QED
            BY <3>2, <3>3
    <2>2. Locks
        BY <1>6, IdleIsFine DEF Locks
    <2>3. QED
        BY <2>1, <2>2 DEF CallsInv
<1>9. Outs /\ Guesses
    BY <1>1, <1>2, <1>3, <1>5 DEF Outs, Guesses, GuessesBounded
<1>10. Fresh
    BY <1>3, <1>4, <1>6, IdleIsFine DEF Fresh, SingleUse
<1>11. QED
    BY <1>7, <1>8, <1>9, <1>10 DEF IInv

LEMMA NextHolds == IInv /\ [Next]_vars => IInv'
<1> SUFFICES ASSUME IInv, [Next]_vars PROVE IInv'
    OBVIOUS
<1>1. ASSUME NEW c \in Calls, Step(c) PROVE IInv'
    BY <1>1, AbortKeeps, IssueKeeps, IssueCommitKeeps, RotateKeeps, ReuseKeeps, ChangeKeeps,
       CompleteChangeKeeps, RotateCommitKeeps, LogoutKeeps, ResetKeeps, RecoverKeeps,
       DeactivateKeeps, FindKeeps, UpdateKeeps, LogoutCommitKeeps, DeactivateCommitKeeps,
       ChangeCommitKeeps, ResetCommitKeeps, ReadKeeps, SecurityWronglyKeeps, SecurityCodeKeeps
    DEF Step
<1>2. CASE SendResetToken
    BY <1>2, SendKeeps
<1>3. ASSUME NEW h \in Channels, RequestCode(h) \/ VerifyWrongly(h) \/ VerifyRecoveryCode(h)
      PROVE  IInv'
    BY <1>3, RequestKeeps, VerifyWronglyKeeps, RecoveryCodeKeeps
<1>4. CASE UNCHANGED vars
    <2>1. CallsInv'
        BY <1>4, CallsSame DEF vars, IInv, TypeOK, Tokens
    <2>2. TypeOK' /\ Outs' /\ Fresh' /\ Guesses'
        BY <1>4 DEF vars, IInv, TypeOK, Outs, Fresh, SingleUse, Guesses, GuessesBounded
    <2>3. QED
        BY <2>1, <2>2 DEF IInv
<1>5. QED
    BY <1>1, <1>2, <1>3, <1>4 DEF Next

\* The inductive invariant holds: calls keep their shape, lock what they sign out, and the
\* tokens and the codes stay within what they are good for.
THEOREM Invariance == Spec => []IInv
BY InitHolds, NextHolds, PTL DEF Spec

\* The state stays well formed, however many calls there are and whatever the bounds.
THEOREM TypeCorrect == Spec => []TypeOK
BY Invariance, PTL DEF IInv

\* A session that a sign-out was to end is dead for good.
THEOREM SignedOut == Spec => []StaysOut
<1>1. IInv => StaysOut
    BY DEF IInv, Outs, StaysOut
<1>2. QED
    BY <1>1, Invariance, PTL

\* The flows that check a token under the lock of the user's row never use one twice.
THEOREM TokensAreUsedOnce == Spec => []SingleUse
<1>1. IInv => SingleUse
    BY DEF IInv, Fresh
<1>2. QED
    BY <1>1, Invariance, PTL

\* A recovery code is compared with no more guesses than it accepts.
THEOREM GuessesAreCounted == Spec => []GuessesBounded
<1>1. IInv => GuessesBounded
    BY DEF IInv, Guesses
<1>2. QED
    BY <1>1, Invariance, PTL

\* New rows come from three steps, and only a rotation gives one a parent.
LEMMA Grows ==
    ASSUME IInv, Next, Len(rows') > Len(rows)
    PROVE  rows'[Len(rows')].parent \notin out
<1>1. /\ Len(rows) \in 0 .. MaxRows /\ rows \in Seq(Session) /\ TypeOK
      /\ out \subseteq 1 .. Len(rows) /\ \A r \in out : ~rows[r].live
    BY RowTypes DEF IInv, TypeOK, Outs
<1>2. 0 \in 0 .. MaxRows /\ 0 \notin out
    BY <1>1
<1>3. ASSUME NEW c \in Calls, IssueCommit(c) PROVE rows'[Len(rows')].parent = 0
    <2>1. rows' = Insert(rows, Len(rows) + 1, 0) /\ Len(rows) + 1 \in Ids
        BY <1>1, <1>3 DEF IssueCommit, Ids
    <2>2. QED
        BY <1>1, <1>2, <2>1, Inserted
<1>4. ASSUME NEW c \in Calls, ChangeCommit(c) PROVE rows'[Len(rows')].parent = 0
    <2>1. /\ rows' = Insert(Revoke(calls[c].held), calls[c].own, 0) /\ Len(rows) < MaxRows
          /\ calls[c].own \in Ids
        BY <1>4 DEF ChangeCommit, Ready, IInv, CallsInv, Shaped, Changing
    <2>2. QED
        BY <1>1, <1>2, <2>1, Replaced
<1>5. ASSUME NEW c \in Calls, RotateCommit(c) PROVE rows'[Len(rows')].parent \notin out
    <2>1. /\ rows' = Insert(Revoke({calls[c].row}), calls[c].own, calls[c].row)
          /\ Len(rows) < MaxRows /\ calls[c].own \in Ids /\ calls[c].row \in 0 .. MaxRows
          /\ rows[calls[c].row].live
        BY <1>5 DEF RotateCommit, IInv, TypeOK, Call, CallsInv, Shaped, Seen
    <2>2. PICK f \in Ids, p \in 0 .. MaxRows, set \in {{calls[c].row}} :
             rows' = Insert(Revoke(set), f, p) /\ p = calls[c].row
        BY <2>1
    <2>3. rows'[Len(rows')].parent = p
        BY <1>1, <2>1, <2>2, Replaced
    <2>4. QED
        BY <1>1, <2>1, <2>2, <2>3
<1>6. ASSUME Len(rows') = Len(rows) PROVE FALSE
    BY <1>1, <1>6
<1>7. ASSUME NEW c \in Calls, LogoutCommit(c) \/ DeactivateCommit(c) \/ ResetCommit(c) PROVE FALSE
    BY <1>1, <1>6, <1>7, Dies DEF LogoutCommit, DeactivateCommit, ResetCommit
<1>8. ASSUME NEW c \in Calls, NEW r \in DOMAIN rows,
             Rotate(c, r) \/ Reuse(c, r) \/ ChangePassword(c, r) \/ CompletePasswordChange(c, r)
      PROVE  FALSE
    BY <1>6, <1>8 DEF Rotate, Reuse, ChangePassword, CompletePasswordChange
<1>9. ASSUME NEW c \in Calls,
             \/ Abort(c) \/ Issue(c) \/ Logout(c) \/ ResetPassword(c) \/ CompletePasswordReset(c)
             \/ Deactivate(c) \/ Find(c) \/ Update(c) \/ ReadSecurityCode(c)
             \/ VerifySecurityWrongly(c) \/ VerifySecurityCode(c)
      PROVE  FALSE
    BY <1>6, <1>9 DEF Abort, Issue, Logout, ResetPassword, CompletePasswordReset, Deactivate, Find,
       Update, ReadSecurityCode, VerifySecurityWrongly, VerifySecurityCode
<1>10. ASSUME \/ SendResetToken
              \/ \E h \in Channels : RequestCode(h) \/ VerifyWrongly(h) \/ VerifyRecoveryCode(h)
       PROVE  FALSE
    BY <1>6, <1>10 DEF SendResetToken, RequestCode, VerifyWrongly, VerifyRecoveryCode
<1>11. ASSUME NEW c \in Calls, Step(c) PROVE rows'[Len(rows')].parent \notin out
    BY <1>2, <1>3, <1>4, <1>5, <1>7, <1>8, <1>9, <1>11 DEF Step
<1>12. QED
    BY <1>10, <1>11 DEF Next

\* No rotation completes on a session after the sign-out that was to end it has ended.
THEOREM NoLateSuccessor == Spec => NoLateHeir
<1>1. IInv /\ [Next]_vars => [Len(rows') > Len(rows) => rows'[Len(rows')].parent \notin out]_vars
    BY Grows DEF vars
<1>2. QED
    BY <1>1, Invariance, PTL DEF Spec, NoLateHeir

\* What a commit under the lock of the user's row leaves alive is the row it has made itself.
LEMMA Total ==
    ASSUME IInv, Next, NEW c \in Calls,
           calls[c].op \in Locking, calls[c].todo = <<>>, calls'[c].op = "none", out' # out
    PROVE  \A r \in DOMAIN rows' : rows'[r].live => r > Len(rows)
<1>1. Seen(c) /\ Shaped(c) /\ Len(rows) \in 0 .. MaxRows /\ TypeOK /\ calls[c] \in Call
    BY RowTypes DEF IInv, CallsInv, TypeOK
<1>2. calls[c].op \in Last4 \cup Changing /\ calls[c].op \in {"changeByCode", "recover", "deactivate"}
    BY DEF Locking, Last4, Changing
<1>3. \A r \in 1 .. Len(rows) : rows[r].live => r \in calls[c].held
    BY <1>1, <1>2 DEF Seen
<1>4. ASSUME Follows(calls[c].held) PROVE \A r \in DOMAIN rows' : rows'[r].live => r > Len(rows)
    <2>1. /\ DOMAIN rows' = 1 .. Len(rows') /\ Len(rows') \in Nat
          /\ \A r \in 1 .. Len(rows) : rows'[r].live => rows[r].live /\ r \notin calls[c].held
        BY <1>1, <1>4 DEF Follows
    <2>2. QED
        BY <1>1, <1>3, <2>1
<1>5. CASE DeactivateCommit(c) \/ ResetCommit(c) \/ LogoutCommit(c)
    BY <1>1, <1>4, <1>5, Dies DEF DeactivateCommit, ResetCommit, LogoutCommit
<1>6. CASE ChangeCommit(c)
    <2>1. /\ rows' = Insert(Revoke(calls[c].held), calls[c].own, 0) /\ Len(rows) < MaxRows
          /\ calls[c].own \in Ids /\ 0 \in 0 .. MaxRows
        BY <1>1, <1>6 DEF ChangeCommit, Ready, Shaped, Changing
    <2>2. QED
        BY <1>1, <1>4, <2>1, Replaced
<1>7. ASSUME NEW d \in Calls, d # c, Ends(d) PROVE FALSE
    BY <1>2, <1>7 DEF Ends, IInv, TypeOK
<1>8. ASSUME NEW d \in Calls, d # c, LogoutCommit(d) \/ DeactivateCommit(d) \/ ChangeCommit(d) \/ ResetCommit(d)
      PROVE  FALSE
    BY <1>7, <1>8 DEF LogoutCommit, DeactivateCommit, ChangeCommit, ResetCommit, SignsOut
<1>9. ASSUME UNCHANGED out PROVE FALSE
    BY <1>9
<1>10. ASSUME NEW d \in Calls, NEW r \in DOMAIN rows,
              Rotate(d, r) \/ Reuse(d, r) \/ ChangePassword(d, r) \/ CompletePasswordChange(d, r)
       PROVE  FALSE
    BY <1>9, <1>10 DEF Rotate, Reuse, ChangePassword, CompletePasswordChange, ghosts
<1>11. ASSUME NEW d \in Calls,
              \/ Abort(d) \/ Issue(d) \/ IssueCommit(d) \/ RotateCommit(d) \/ Logout(d)
              \/ ResetPassword(d) \/ CompletePasswordReset(d) \/ Deactivate(d) \/ Find(d) \/ Update(d)
              \/ ReadSecurityCode(d) \/ VerifySecurityWrongly(d) \/ VerifySecurityCode(d)
       PROVE  FALSE
    BY <1>9, <1>11 DEF Abort, Issue, IssueCommit, RotateCommit, Logout, ResetPassword,
       CompletePasswordReset, Deactivate, Find, Update, ReadSecurityCode, VerifySecurityWrongly,
       VerifySecurityCode, ghosts
<1>12. ASSUME \/ SendResetToken
              \/ \E h \in Channels : RequestCode(h) \/ VerifyWrongly(h) \/ VerifyRecoveryCode(h)
       PROVE  FALSE
    BY <1>9, <1>12 DEF SendResetToken, RequestCode, VerifyWrongly, VerifyRecoveryCode, ghosts
<1>13. ASSUME NEW d \in Calls, Step(d) PROVE \A r \in DOMAIN rows' : rows'[r].live => r > Len(rows)
    BY <1>5, <1>6, <1>8, <1>10, <1>11, <1>13 DEF Step
<1>14. QED
    BY <1>12, <1>13 DEF Next

\* No login and no rotation slips in beside a flow that locks the user's row.
THEOREM NothingSlipsIn == Spec => TotalUnderLock
<1> DEFINE A == \A c \in Calls :
                    calls[c].op \in Locking /\ calls[c].todo = <<>> /\ calls'[c].op = "none" /\ out' # out =>
                        \A r \in DOMAIN rows' : rows'[r].live => r > Len(rows)
<1>1. IInv /\ [Next]_vars => [A]_vars
    BY Total
<1>2. QED
    BY <1>1, Invariance, PTL DEF Spec, TotalUnderLock
================================================================================
