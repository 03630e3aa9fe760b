---------------------------- MODULE AccountSessions ----------------------------
(***************************************************************************)
(* The sessions and the password of one account: AuthService, the password *)
(* reset and change flows of PasswordResetService, the deactivation of     *)
(* UserLifecycleService and the switch of workspace.  A call is one        *)
(* PostgreSQL transaction at READ COMMITTED: an UPDATE finds the rows that *)
(* are committed when it starts, waits for those another call has locked,  *)
(* and changes those that still match; a row inserted meanwhile is not     *)
(* among them.  Inserting a session locks the user's row FOR KEY SHARE,    *)
(* which waits for a call that holds it FOR UPDATE.                        *)
(***************************************************************************)
EXTENDS Naturals, Sequences

CONSTANTS
    Calls,        \* calls in flight at a time
    MaxCalls,     \* calls accepted in all
    MaxRows,      \* user_sessions rows
    MaxTokens,    \* reset and change tokens issued
    MaxCodes,     \* codes sent on each channel
    MaxAttempts   \* guesses a code accepts

ASSUME SessionsAssumption ==
    /\ MaxCalls \in Nat /\ MaxRows \in Nat /\ MaxTokens \in Nat /\ MaxCodes \in Nat
    /\ MaxAttempts \in Nat \ {0}

VARIABLES
    user,      \* users: is_active, and password_reset_token_hash (0: none)
    rows,      \* user_sessions, in the order of insertion
    codes,     \* the last password_recovery_otps row of each channel
    newest,    \* the channel of the last code sent
    issued,    \* how many tokens have been issued
    calls,     \* the calls in flight
    made,      \* how many have been accepted
    out,       \* sessions a finished sign-out was to end
    spent      \* tokens a finished reset or change has used

vars == <<user, rows, codes, newest, issued, calls, made, out, spent>>

Ids      == 1 .. MaxRows
Tokens   == 0 .. MaxTokens
Channels == {"EMAIL", "AUTH_CHANGE_PASSWORD"}

\* family: the login the row descends from; parent: the row it replaces, if any.
Session == [family : Ids, parent : 0 .. MaxRows, live : BOOLEAN]

\* tries: how many guesses have been compared with the code, counted to MaxAttempts + 1.
Code == [number : 0 .. MaxCodes, open : BOOLEAN, attempts : 0 .. MaxAttempts + 1,
         tries : 0 .. MaxAttempts + 1]

SignOuts == {"logout", "reuse", "change", "changeByCode", "reset", "recover", "deactivate"}
Filters  == {"all", "others", "own", "family"}

\* own: the family of the caller; row: the session being rotated; todo: the UPDATEs of
\* user_sessions still to run; waiting: the first of them has found its rows;
\* held: the session rows locked; holds: the user's row is locked FOR UPDATE;
\* base: how many rows there were when the first UPDATE began; token, number, attempts:
\* what was read of the user and of the code.
Call == [op : SignOuts \cup {"none", "issue", "rotate", "guess"}, own : 0 .. MaxRows, row : 0 .. MaxRows,
         todo : {<<>>, <<"all">>, <<"family">>, <<"others", "own">>, <<"own">>},
         waiting : BOOLEAN, found : SUBSET Ids, held : SUBSET Ids, holds : BOOLEAN,
         base : 0 .. MaxRows, token : Tokens, number : 0 .. MaxCodes,
         attempts : 0 .. MaxAttempts + 1]

Idle == [op |-> "none", own |-> 0, row |-> 0, todo |-> <<>>, waiting |-> FALSE, found |-> {},
         held |-> {}, holds |-> FALSE, base |-> 0, token |-> 0, number |-> 0, attempts |-> 0]

Unsent == [number |-> 0, open |-> FALSE, attempts |-> 0, tries |-> 0]

Init ==
    /\ user = [active |-> TRUE, reset |-> 0]
    /\ rows = <<>>
    /\ codes = [h \in Channels |-> Unsent] /\ newest = "EMAIL" /\ issued = 0
    /\ calls = [c \in Calls |-> Idle] /\ made = 0
    /\ out = {} /\ spent = {}

mail   == <<codes, newest, issued>>
ghosts == <<out, spent>>

--------------------------------------------------------------------------------
(* Calls and locks *)

Starts(c, q) ==
    /\ calls[c].op = "none" /\ made < MaxCalls
    /\ calls' = [calls EXCEPT ![c] = q] /\ made' = made + 1

Ends(c) == calls' = [calls EXCEPT ![c] = Idle] /\ made' = made

\* Another call than c holds row r, or the user's row, FOR UPDATE.
RowTaken(c, r) == \E d \in Calls \ {c} : r \in calls[d].held
UserTaken(c)   == \E d \in Calls \ {c} : calls[d].holds

Insert(rs, family, parent) == Append(rs, [family |-> family, parent |-> parent, live |-> TRUE])
Revoke(set) == [r \in DOMAIN rows |-> [rows[r] EXCEPT !.live = @ /\ r \notin set]]

\* The client goes away, the process dies, or PostgreSQL breaks a deadlock: rolled back.
Abort(c) ==
    /\ calls[c].op # "none"
    /\ Ends(c)
    /\ UNCHANGED <<user, rows, mail, ghosts>>

--------------------------------------------------------------------------------
(* Sessions *)

\* A login, an OIDC login or a switch of workspace has read an active user.
Issue(c) ==
    /\ user.active
    /\ Starts(c, [Idle EXCEPT !.op = "issue"])
    /\ UNCHANGED <<user, rows, mail, ghosts>>

IssueCommit(c) ==
    /\ calls[c].op = "issue" /\ ~UserTaken(c) /\ Len(rows) < MaxRows
    /\ rows' = Insert(rows, Len(rows) + 1, 0)
    /\ Ends(c)
    /\ UNCHANGED <<user, mail, ghosts>>

\* Bug seeded for NoLateHeir: the session is read without FOR UPDATE.
RotateUnlocked(c, r) ==
    /\ rows[r].live /\ user.active
    /\ Starts(c, [Idle EXCEPT !.op = "rotate", !.own = rows[r].family, !.row = r])
    /\ UNCHANGED <<user, rows, mail, ghosts>>

\* A refresh token of a session that is live, or that has been revoked or rotated: reuse.
Rotate(c, r) ==
    /\ ~RowTaken(c, r)
    /\ rows[r].live /\ user.active
    /\ Starts(c, [Idle EXCEPT !.op = "rotate", !.own = rows[r].family, !.row = r, !.held = {r}])
    /\ UNCHANGED <<user, rows, mail, ghosts>>

Reuse(c, r) ==
    /\ ~RowTaken(c, r)
    /\ ~rows[r].live
    /\ Starts(c, [Idle EXCEPT !.op = "reuse", !.own = rows[r].family, !.held = {r},
                              !.todo = <<"family">>])
    /\ UNCHANGED <<user, rows, mail, ghosts>>

RotateCommit(c) ==
    /\ calls[c].op = "rotate" /\ ~UserTaken(c) /\ Len(rows) < MaxRows
    /\ rows' = Insert(Revoke({calls[c].row}), calls[c].own, calls[c].row)
    /\ Ends(c)
    /\ UNCHANGED <<user, mail, ghosts>>

--------------------------------------------------------------------------------
(* Signing out *)

\* Terminate the other sessions, then rotate the caller's.
OthersThenOwn == <<"others", "own">>

\* Logging out, with the access token of any session.
Logout(c) ==
    /\ rows # <<>>
    /\ Starts(c, [Idle EXCEPT !.op = "logout", !.todo = <<"all">>])
    /\ UNCHANGED <<user, rows, mail, ghosts>>

\* Path A: the current password has been verified.
ChangePassword(c, r) ==
    /\ user.active
    /\ Starts(c, [Idle EXCEPT !.op = "change", !.own = rows[r].family, !.token = user.reset,
                              !.todo = OthersThenOwn])
    /\ UNCHANGED <<user, rows, mail, ghosts>>

\* Path B: the change token is checked under the lock of the user's row.
CompletePasswordChange(c, r) ==
    /\ ~UserTaken(c) /\ user.active /\ user.reset # 0
    /\ Starts(c, [Idle EXCEPT !.op = "changeByCode", !.own = rows[r].family, !.holds = TRUE,
                              !.token = user.reset, !.todo = OthersThenOwn])
    /\ UNCHANGED <<user, rows, mail, ghosts>>

\* The link of the e-mail: the user is found by the token, without a lock.
ResetPassword(c) ==
    /\ user.active /\ user.reset # 0
    /\ Starts(c, [Idle EXCEPT !.op = "reset", !.token = user.reset, !.todo = <<"all">>])
    /\ UNCHANGED <<user, rows, mail, ghosts>>

\* Bug seeded for SingleUse: the token is checked before the user's row is locked.
RecoverUnlocked(c) ==
    /\ user.active /\ user.reset # 0
    /\ Starts(c, [Idle EXCEPT !.op = "recover", !.token = user.reset, !.todo = <<"all">>])
    /\ UNCHANGED <<user, rows, mail, ghosts>>

CompletePasswordReset(c) ==
    /\ ~UserTaken(c) /\ user.active /\ user.reset # 0
    /\ Starts(c, [Idle EXCEPT !.op = "recover", !.holds = TRUE, !.token = user.reset,
                              !.todo = <<"all">>])
    /\ UNCHANGED <<user, rows, mail, ghosts>>

\* Bug seeded for TotalUnderLock: the user's row is not locked.
DeactivateUnlocked(c) ==
    /\ user.active
    /\ Starts(c, [Idle EXCEPT !.op = "deactivate", !.todo = <<"all">>])
    /\ UNCHANGED <<user, rows, mail, ghosts>>

Deactivate(c) ==
    /\ ~UserTaken(c) /\ user.active
    /\ Starts(c, [Idle EXCEPT !.op = "deactivate", !.holds = TRUE, !.todo = <<"all">>])
    /\ UNCHANGED <<user, rows, mail, ghosts>>

\* Bug seeded for StaysOut: the family is compared with = where != is meant.
MatchesSwapped(q, r) ==
    /\ Head(q.todo) # "family" => rows[r].live
    /\ Head(q.todo) # "all" => rows[r].family = q.own

\* The rows an UPDATE of call q is about.
Matches(q, r) ==
    CASE Head(q.todo) = "all"    -> rows[r].live
      [] Head(q.todo) = "others" -> rows[r].live /\ rows[r].family # q.own
      [] Head(q.todo) = "own"    -> rows[r].live /\ rows[r].family = q.own
      [] Head(q.todo) = "family" -> rows[r].family = q.own

\* An UPDATE begins: it sees what is committed now.
Find(c) ==
    LET q == calls[c] IN
    /\ q.todo # <<>> /\ ~q.waiting
    /\ calls' = [calls EXCEPT ![c].waiting = TRUE,
                              ![c].found = {r \in DOMAIN rows : Matches(q, r)},
                              ![c].base = IF Head(q.todo) = "own" THEN @ ELSE Len(rows)]
    /\ UNCHANGED <<user, rows, mail, made, ghosts>>

\* It has waited for the rows it found, and keeps those that still match.
Update(c) ==
    LET q == calls[c] IN
    /\ q.waiting /\ \A r \in q.found : ~RowTaken(c, r)
    /\ calls' = [calls EXCEPT ![c].waiting = FALSE, ![c].found = {}, ![c].todo = Tail(@),
                              ![c].held = @ \cup {r \in q.found : Matches(q, r)}]
    /\ UNCHANGED <<user, rows, mail, made, ghosts>>

Ready(c, ops) == calls[c].op \in ops /\ calls[c].todo = <<>>

\* What the call was to sign out.
Scope(q) == {r \in 1 .. q.base : q.op = "reuse" => rows[r].family = q.own}

SignsOut(c) ==
    /\ out' = out \cup Scope(calls[c])
    /\ Ends(c)

LogoutCommit(c) ==
    /\ Ready(c, {"logout", "reuse"})
    /\ rows' = Revoke(calls[c].held)
    /\ SignsOut(c)
    /\ UNCHANGED <<user, mail, spent>>

DeactivateCommit(c) ==
    /\ Ready(c, {"deactivate"})
    /\ rows' = Revoke(calls[c].held)
    /\ user' = [user EXCEPT !.active = FALSE]
    /\ SignsOut(c)
    /\ UNCHANGED <<mail, spent>>

\* A change of password keeps the caller signed in; the token is cleared when one was read.
ChangeCommit(c) ==
    LET q == calls[c] IN
    /\ Ready(c, {"change", "changeByCode"}) /\ ~UserTaken(c) /\ Len(rows) < MaxRows
    /\ rows' = Insert(Revoke(q.held), q.own, 0)
    /\ user' = [user EXCEPT !.reset = IF q.token = 0 THEN @ ELSE 0]
    /\ spent' = IF q.op = "changeByCode" THEN spent \cup {q.token} ELSE spent
    /\ SignsOut(c)
    /\ UNCHANGED mail

Active == IF codes[newest].open THEN {newest} ELSE {h \in Channels : codes[h].open}

ResetCommit(c) ==
    LET q == calls[c] IN
    /\ Ready(c, {"reset", "recover"}) /\ ~UserTaken(c)
    /\ rows' = Revoke(q.held)
    /\ user' = [user EXCEPT !.reset = 0]
    /\ spent' = spent \cup {q.token}
    /\ codes' = [h \in Channels |-> [codes[h] EXCEPT !.open = @ /\ ~(q.op = "recover" /\ h \in Active)]]
    /\ SignsOut(c)
    /\ UNCHANGED <<newest, issued>>

--------------------------------------------------------------------------------
(* Tokens and codes *)

CodeTaken == \E c \in Calls : calls[c].op = "recover"
NobodyHolds == \A c \in Calls : ~calls[c].holds

NewToken == issued < MaxTokens /\ issued' = issued + 1 /\ user' = [user EXCEPT !.reset = issued + 1]

\* The e-mail with a link, which replaces the token of any other flow.
SendResetToken ==
    /\ user.active /\ NobodyHolds /\ NewToken
    /\ UNCHANGED <<rows, codes, newest, calls, made, ghosts>>

Sent(h) == [number |-> codes[h].number + 1, open |-> TRUE, attempts |-> 0, tries |-> 0]

\* A recovery code replaces the codes of both channels, a security code those of its own.
RequestCode(h) ==
    /\ user.active /\ NobodyHolds /\ ~CodeTaken /\ codes[h].number < MaxCodes
    /\ codes' = [k \in Channels |->
                    IF k = h THEN Sent(h) ELSE [codes[k] EXCEPT !.open = @ /\ h # "EMAIL"]]
    /\ newest' = h
    /\ UNCHANGED <<user, rows, issued, calls, made, ghosts>>

OneMore(tries, attempts) == IF attempts < MaxAttempts /\ tries <= MaxAttempts THEN tries + 1 ELSE tries

\* Bug seeded for GuessesBounded: the attempt is rolled back with the exception.
GuessedRolledBack(code, attempts) ==
    [code EXCEPT !.open = @ /\ attempts < MaxAttempts, !.tries = OneMore(@, attempts)]

\* Bug seeded for TypeOK: a code is not invalidated at its last attempt.
GuessedOn(code, attempts) ==
    [code EXCEPT !.attempts = attempts + 1, !.tries = OneMore(@, attempts)]

\* A wrong code against one read with so many attempts.
Guessed(code, attempts) ==
    [code EXCEPT !.attempts = attempts + 1,
                 !.open = @ /\ attempts < MaxAttempts,
                 !.tries = OneMore(@, attempts)]

\* verify_recovery_code takes the last code of either channel, locked.
VerifyWrongly(h) ==
    /\ user.active /\ h \in Active /\ ~CodeTaken
    /\ codes' = [codes EXCEPT ![h] = Guessed(@, @.attempts)]
    /\ UNCHANGED <<user, rows, newest, issued, calls, made, ghosts>>

VerifyRecoveryCode(h) ==
    /\ user.active /\ h \in Active /\ ~CodeTaken /\ NobodyHolds
    /\ codes[h].attempts < MaxAttempts
    /\ codes' = [codes EXCEPT ![h].open = FALSE]
    /\ NewToken
    /\ UNCHANGED <<rows, newest, calls, made, ghosts>>

\* verify_security_code reads its code without a lock.
ReadSecurityCode(c) ==
    LET code == codes["AUTH_CHANGE_PASSWORD"] IN
    /\ user.active /\ code.open
    /\ Starts(c, [Idle EXCEPT !.op = "guess", !.number = code.number, !.attempts = code.attempts])
    /\ UNCHANGED <<user, rows, mail, ghosts>>

\* Call c's code, unless another has been sent since.
Writes(c, code) ==
    codes' = [codes EXCEPT !["AUTH_CHANGE_PASSWORD"] =
                 IF @.number = calls[c].number THEN code ELSE @]

VerifySecurityWrongly(c) ==
    /\ calls[c].op = "guess" /\ ~CodeTaken
    /\ Writes(c, Guessed(codes["AUTH_CHANGE_PASSWORD"], calls[c].attempts))
    /\ Ends(c)
    /\ UNCHANGED <<user, rows, newest, issued, ghosts>>

VerifySecurityCode(c) ==
    /\ calls[c].op = "guess" /\ ~CodeTaken /\ ~UserTaken(c)
    /\ calls[c].attempts < MaxAttempts
    /\ Writes(c, [codes["AUTH_CHANGE_PASSWORD"] EXCEPT !.open = FALSE])
    /\ NewToken
    /\ Ends(c)
    /\ UNCHANGED <<rows, newest, ghosts>>

--------------------------------------------------------------------------------
Step(c) ==
    \/ Abort(c)
    \/ Issue(c) \/ IssueCommit(c)
    \/ \E r \in DOMAIN rows : \/ Rotate(c, r) \/ Reuse(c, r)
                              \/ ChangePassword(c, r) \/ CompletePasswordChange(c, r)
    \/ RotateCommit(c)
    \/ Logout(c) \/ ResetPassword(c) \/ CompletePasswordReset(c) \/ Deactivate(c)
    \/ Find(c) \/ Update(c)
    \/ LogoutCommit(c) \/ DeactivateCommit(c) \/ ChangeCommit(c) \/ ResetCommit(c)
    \/ ReadSecurityCode(c) \/ VerifySecurityWrongly(c) \/ VerifySecurityCode(c)

Next ==
    \/ \E c \in Calls : Step(c)
    \/ SendResetToken
    \/ \E h \in Channels : RequestCode(h) \/ VerifyWrongly(h) \/ VerifyRecoveryCode(h)

Spec == Init /\ [][Next]_vars

--------------------------------------------------------------------------------
(* What it promises *)

\* The state is well formed.
TypeOK ==
    /\ user \in [active : BOOLEAN, reset : Tokens]
    /\ rows \in Seq(Session) /\ Len(rows) <= MaxRows
    /\ codes \in [Channels -> Code] /\ newest \in Channels
    /\ issued \in Tokens
    /\ calls \in [Calls -> Call] /\ made \in 0 .. MaxCalls
    /\ out \subseteq Ids /\ spent \subseteq Tokens

\* A session that was there when a logout, a change or reset of the password, a deactivation or
\* the answer to a reused token began is dead once that has ended, and stays dead.
StaysOut == \A r \in out : ~rows[r].live

\* Once the sign-out has ended no rotation gives such a session a successor any more: one that
\* began before has finished before.  While the sign-out waits for it, it may: that successor is
\* not among the rows of the sign-out's UPDATE and stays live, against what AUTH-012 in the
\* docstring of logout says; of the flows that lock the user's row see TotalUnderLock.
NoLateHeir ==
    [][Len(rows') > Len(rows) => rows'[Len(rows')].parent \notin out]_vars

Locking == {"changeByCode", "recover", "deactivate"}

\* A token is used once by the flows that check it under the lock of the user's row, even when
\* a reset by link, which does not, overlaps them.
SingleUse ==
    \A c \in Calls : calls[c].op \in {"changeByCode", "recover"} => calls[c].token \notin spent

\* When one of the flows that lock the user's row commits, no session is live but the one it
\* made: no login and no rotation slips in beside it.
TotalUnderLock ==
    [][\A c \in Calls :
          calls[c].op \in Locking /\ calls[c].todo = <<>> /\ calls'[c].op = "none" /\ out' # out =>
             \A r \in DOMAIN rows' : rows'[r].live => r > Len(rows)]_vars

\* A recovery code is compared with at most MaxAttempts guesses, whatever else reads the codes.
GuessesBounded == codes["EMAIL"].tries <= MaxAttempts
================================================================================
