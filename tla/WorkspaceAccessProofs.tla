-------------------------- MODULE WorkspaceAccessProofs --------------------------
(***************************************************************************)
(* WorkspaceAccess for any number of users, of calls and of uses of the    *)
(* join code: types, owners, invitations, purges.                          *)
(***************************************************************************)
EXTENDS WorkspaceAccess, TLAPS

USE AccessAssumption DEF AccessAssumption

MemberKinds == {"role", "bar", "readmit", "remove"}
Joining     == {"code", "open", "approve"}

Several(set) == \E u, v \in set : u # v

\* What a call has read and found, as long as the owners are those it has begun with.
Knows(q, owners) ==
    /\ q.kind = "code" => q.code.uses < MaxUses
    /\ q.kind \in MemberKinds => q.role \in Managers \/ q.actor = q.target
    /\ q.at = "lock" => q.kind \in MemberKinds
    /\ ~q.moved =>
         /\ q.kind \in MemberKinds /\ q.actor \in owners => q.role = "OWNER"
         /\ q.kind \in Joining => q.target \notin owners
         /\ q.at = "lock" /\ Takes(q) /\ q.target \in owners =>
              (q.role = "OWNER" \/ q.actor = q.target) /\ Several(owners)

Knowing == \A c \in Calls : Knows(call[c], Owners(row))

\* The lock of the invitation is held by one acceptance, to which it is pending.
Accepting ==
    \A c \in Calls : call[c].kind = "accept" =>
        invite.status = "PENDING" /\ \A d \in Calls : call[d].kind = "accept" => d = c

\* A workspace that is cleaned, but not gone, is about to be dropped, or its purge was cut short.
Purging == cleaned /\ ~cut /\ ws # "GONE" => \E c \in Calls : At(c, "purge", "drop")

IInv == TypeOK /\ Knowing /\ Accepting /\ Purging

--------------------------------------------------------------------------------
(* Calls *)

LEMMA IdleIsACall ==
    ASSUME NEW u \in Anyone
    PROVE  /\ Idle(u) \in Call /\ Idle(u).kind = "none" /\ Idle(u).at = "read" /\ ~Idle(u).moved
           /\ Idle(u).actor = u /\ Idle(u).target = u
BY DEF Idle, Call, Kinds, Roles, Code

LEMMA FreeIsACall ==
    /\ Free \in Call /\ Free.kind = "none" /\ \A owners : Knows(Free, owners)
    /\ Free.at = "read" /\ ~Free.moved
BY IdleIsACall DEF Free, Anyone, Knows, MemberKinds, Joining

\* A call begins: it knows what it has read, and may lock the invitation.
LEMMA Begun ==
    ASSUME IInv, NEW c \in Calls, NEW q \in Call, Begins(c, q), Knows(q, Owners(row)),
           q.kind = "accept" => invite.status = "PENDING" /\ ~InviteLocked,
           UNCHANGED <<life, row, access>>
    PROVE  IInv'
<1> USE DEF life, access
<1>1. /\ call \in [Calls -> Call] /\ call' = [call EXCEPT ![c] = q] /\ call[c].kind = "none"
      /\ made \in 0 .. MaxCalls /\ made < MaxCalls /\ made' = made + 1
    BY DEF IInv, TypeOK, Begins
<1>2. call' \in [Calls -> Call] /\ call'[c] = q /\ \A d \in Calls \ {c} : call'[d] = call[d]
    BY <1>1
<1>3. TypeOK'
    BY <1>1, <1>2 DEF IInv, TypeOK
<1>4. Owners(row)' = Owners(row)
    BY DEF Owners, Owns
<1>5. Knowing'
    BY <1>2, <1>4 DEF IInv, Knowing
<1>6. Accepting'
    BY <1>2 DEF IInv, Accepting, InviteLocked
<1>7. Purging'
    <2>1. ASSUME NEW d \in Calls, At(d, "purge", "drop") PROVE At(d, "purge", "drop")'
        BY <1>1, <1>2, <2>1 DEF At
    <2>2. QED
        BY <2>1 DEF IInv, Purging
<1>8. QED
    BY <1>3, <1>5, <1>6, <1>7 DEF IInv

\* A call goes on: to its lock, to its end without effect, or from one transaction of a
\* purge to the next.
LEMMA GoesOn ==
    ASSUME IInv, NEW c \in Calls, NEW q \in Call, call' = [call EXCEPT ![c] = q],
           Knows(q, Owners(row)), q.kind # "accept",
           ~At(c, "purge", "drop"),
           UNCHANGED <<row, access, made>>,
           ws' \in Life, due' \in BOOLEAN, cleaned' \in BOOLEAN, cut' = cut,
           ws = "GONE" => ws' = "GONE",
           cleaned' = cleaned \/ (cleaned' /\ q.kind = "purge" /\ q.at = "drop")
    PROVE  IInv'
<1> USE DEF access
<1>1. call' \in [Calls -> Call] /\ call'[c] = q /\ \A d \in Calls \ {c} : call'[d] = call[d]
    BY DEF IInv, TypeOK
<1>2. TypeOK'
    BY <1>1 DEF IInv, TypeOK
<1>3. Owners(row)' = Owners(row)
    BY DEF Owners, Owns
<1>4. Knowing'
    BY <1>1, <1>3 DEF IInv, Knowing
<1>5. Accepting'
    BY <1>1 DEF IInv, Accepting
<1>6. Purging'
    <2>1. ASSUME NEW d \in Calls, At(d, "purge", "drop") PROVE At(d, "purge", "drop")'
        BY <1>1, <2>1 DEF At
    <2>2. ASSUME q.kind = "purge" /\ q.at = "drop" PROVE At(c, "purge", "drop")'
        BY <1>1, <2>2 DEF At
    <2>3. QED
        BY <2>1, <2>2 DEF IInv, Purging
<1>7. QED
    BY <1>2, <1>4, <1>5, <1>6 DEF IInv

\* A call ends, whatever it has written: the others know what they knew, or that it is past.
LEMMA Ended ==
    ASSUME IInv, NEW c \in Calls, Ends(c), row' \in [Users -> Row],
           invite' \in Invite, code' \in Code, ask' \in Ask, made' = made,
           ws' \in Life, due' \in BOOLEAN, cleaned' = cleaned, cut' \in BOOLEAN, cut => cut',
           ws = "GONE" => ws' = "GONE",
           At(c, "purge", "drop") => ws' = "GONE" \/ cut',
           \/ invite'.status = invite.status
           \/ \A d \in Calls \ {c} : call[d].kind # "accept"
    PROVE  IInv'
<1>1. /\ call \in [Calls -> Call]
      /\ call' = [d \in Calls |->
            IF d = c THEN Free
            ELSE [call[d] EXCEPT !.moved = @ \/ (call[d].kind # "none" /\ Owners(row') # Owners(row))]]
    BY DEF IInv, TypeOK, Ends
<1>2. ASSUME NEW d \in Calls, d # c
      PROVE  /\ call'[d] \in Call /\ call'[d].kind = call[d].kind /\ call'[d].at = call[d].at
             /\ call'[d].actor = call[d].actor /\ call'[d].target = call[d].target
             /\ call'[d].role = call[d].role /\ call'[d].code = call[d].code
             /\ call'[d].want = call[d].want
             /\ call'[d].moved <=> call[d].moved \/ (call[d].kind # "none" /\ Owners(row') # Owners(row))
    <2>1. PICK q \in Call : q = call[d]
        BY <1>1
    <2>2. PICK b \in BOOLEAN : b <=> q.moved \/ (q.kind # "none" /\ Owners(row') # Owners(row))
        OBVIOUS
    <2>3. call'[d] = [q EXCEPT !.moved = b]
        BY <1>1, <1>2, <2>1, <2>2 DEF Call
    <2>4. QED
        BY <2>1, <2>2, <2>3 DEF Call
<1>3. call'[c] = Free /\ call' \in [Calls -> Call]
    BY <1>1, <1>2, FreeIsACall
<1>4. TypeOK'
    BY <1>3 DEF IInv, TypeOK
<1>5. Owners(row)' = Owners(row')
    BY DEF Owners, Owns
<1>6. Knowing'
    <2>1. ASSUME NEW d \in Calls, d # c PROVE Knows(call'[d], Owners(row'))
        <3>1. Knows(call[d], Owners(row))
            BY DEF IInv, Knowing
        <3>2. Takes(call'[d]) <=> Takes(call[d])
            BY <1>2, <2>1 DEF Takes
        <3>3. CASE call[d].kind = "none"
            BY <1>2, <2>1, <3>1, <3>2, <3>3 DEF Knows, MemberKinds, Joining
        <3>4. CASE call[d].kind # "none" /\ Owners(row') # Owners(row)
            BY <1>2, <2>1, <3>1, <3>4 DEF Knows
        <3>5. CASE Owners(row') = Owners(row)
            BY <1>2, <2>1, <3>1, <3>2, <3>5 DEF Knows
        <3>6. QED
            BY <3>3, <3>4, <3>5
    <2>2. Knows(call'[c], Owners(row'))
        BY <1>3, FreeIsACall
    <2>3. QED
        BY <1>5, <2>1, <2>2 DEF Knowing
<1>7. Accepting'
    BY <1>2, <1>3, FreeIsACall DEF IInv, Accepting
<1>8. Purging'
    <2>1. ASSUME NEW d \in Calls, At(d, "purge", "drop"), d # c PROVE At(d, "purge", "drop")'
        BY <1>2, <2>1 DEF At
    <2>2. QED
        BY <2>1 DEF IInv, Purging, At
<1>9. QED
    BY <1>4, <1>6, <1>7, <1>8 DEF IInv

--------------------------------------------------------------------------------
(* Rows *)

LEMMA JoinedRows ==
    ASSUME IInv, NEW u, NEW role \in Roles, NEW state
    PROVE  /\ Joined(u, role, state) \in [Users -> Row]
           /\ \A v \in Users : v # u => Joined(u, role, state)[v] = row[v]
<1>1. row \in [Users -> Row] /\ Active(role) \in Row
    BY DEF IInv, TypeOK, Row, Active
<1>2. QED
    BY <1>1 DEF Joined

LEMMA UpdatedRows ==
    ASSUME IInv, NEW c \in Calls, call[c].at = "lock"
    PROVE  /\ [row EXCEPT ![call[c].target] = Updated(call[c])] \in [Users -> Row]
           /\ \A v \in Users : v # call[c].target =>
                [row EXCEPT ![call[c].target] = Updated(call[c])][v] = row[v]
<1>1. PICK q \in Call : q = call[c] /\ q.kind \in MemberKinds
    BY DEF IInv, TypeOK, Knowing, Knows
<1>2. row \in [Users -> Row]
    BY DEF IInv, TypeOK
<1>3. ASSUME q.target \in Users PROVE Updated(q) \in Row
    <2>1. PICK old \in Row : old = row[q.target]
        BY <1>2, <1>3
    <2>2. /\ [old EXCEPT !.role = q.want] \in Row /\ [old EXCEPT !.state = "suspended"] \in Row
          /\ [old EXCEPT !.state = "active"] \in Row /\ NoRow \in Row
        BY <2>1 DEF Row, NoRow, Call, Roles
    <2>3. QED
        BY <1>1, <2>1, <2>2 DEF Updated, MemberKinds
<1>4. QED
    BY <1>1, <1>2, <1>3

--------------------------------------------------------------------------------
(* Members *)

LEMMA BeginMemberKeeps == ASSUME IInv, NEW c \in Calls, BeginMember(c) PROVE IInv'
<1>1. PICK u \in Users, t \in Users, kind \in MemberKinds, want \in Roles :
         /\ row[u].role \in Managers \/ u = t
         /\ Begins(c, [Idle(u) EXCEPT !.kind = kind, !.target = t, !.want = want, !.role = row[u].role])
    BY DEF BeginMember, MemberKinds
<1>2. row[u] \in Row /\ u \in Anyone /\ t \in Anyone /\ kind \in Kinds
    BY DEF IInv, TypeOK, Anyone, MemberKinds, Kinds
<1>3. PICK seen \in Roles : seen = row[u].role
    BY <1>2 DEF Row
<1>4. PICK q \in Call :
         /\ Begins(c, q) /\ q.kind = kind /\ q.actor = u /\ q.target = t /\ q.role = seen
         /\ q.at = "read" /\ ~q.moved
    <2>1. PICK idle \in Call : idle = Idle(u) /\ idle.actor = u /\ idle.at = "read" /\ ~idle.moved
        BY <1>2, IdleIsACall
    <2>2. PICK q : q = [idle EXCEPT !.kind = kind, !.target = t, !.want = want, !.role = seen]
        OBVIOUS
    <2>3. /\ q \in Call /\ q.kind = kind /\ q.actor = u /\ q.target = t /\ q.role = seen
          /\ q.at = "read" /\ ~q.moved
        BY <1>2, <2>1, <2>2 DEF Call
    <2>4. Begins(c, q)
        BY <1>1, <1>3, <2>1, <2>2
    <2>5. QED
        BY <2>3, <2>4
<1>5. Knows(q, Owners(row))
    BY <1>1, <1>3, <1>4 DEF Knows, MemberKinds, Joining, Owners, Owns, Active
<1>6. UNCHANGED <<life, row, access>>
    BY DEF BeginMember
<1>7. QED
    BY <1>4, <1>5, <1>6, Begun DEF MemberKinds

LEMMA LockKeeps == ASSUME IInv, NEW c \in Calls, Lock(c) PROVE IInv'
<1>1. /\ call[c].kind \in MemberKinds /\ call[c].at = "read" /\ UNCHANGED <<life, row, access, made>>
      /\ \/ call' = [call EXCEPT ![c] = Free]
         \/ /\ Allowed(call[c]) /\ Counted(call[c])
            /\ call' = [call EXCEPT ![c].at = "lock"]
    BY DEF Lock, MemberKinds
<1>2. PICK q \in Call : q = call[c]
    BY DEF IInv, TypeOK
<1>3. CASE call' = [call EXCEPT ![c] = Free]
    <2>1. ~At(c, "purge", "drop")
        BY <1>1 DEF At
    <2>2. Knows(Free, Owners(row))
        BY FreeIsACall
    <2>3. QED
        BY <1>1, <1>3, <2>1, <2>2, FreeIsACall, GoesOn DEF IInv, TypeOK, life
<1>4. CASE Allowed(q) /\ Counted(q) /\ call' = [call EXCEPT ![c].at = "lock"]
    <2>1. PICK n \in Call :
             /\ n = [q EXCEPT !.at = "lock"] /\ n.at = "lock" /\ n.kind = q.kind /\ n.actor = q.actor
             /\ n.target = q.target /\ n.want = q.want /\ n.role = q.role /\ n.code = q.code
             /\ n.moved = q.moved
        <3>1. PICK n : n = [q EXCEPT !.at = "lock"]
            OBVIOUS
        <3>2. /\ n \in Call /\ n.at = "lock" /\ n.kind = q.kind /\ n.actor = q.actor
              /\ n.target = q.target /\ n.want = q.want /\ n.role = q.role /\ n.code = q.code
              /\ n.moved = q.moved
            BY <3>1 DEF Call
        <3>3. QED
            BY <3>1, <3>2
    <2>2. call' = [call EXCEPT ![c] = n]
        <3>1. call' = [call EXCEPT ![c] = [q EXCEPT !.at = "lock"]]
            BY <1>2, <1>4
        <3>2. QED
            BY <2>1, <3>1
    <2>3. ASSUME ~q.moved, Takes(q), q.target \in Owners(row)
          PROVE  (q.role = "OWNER" \/ q.actor = q.target) /\ Several(Owners(row))
        <3>1. row[q.target].role = "OWNER"
            BY <2>3 DEF Owners, Owns, Active
        <3>2. q.actor = q.target => q.role = "OWNER"
            BY <1>1, <1>2, <2>3 DEF IInv, Knowing, Knows
        <3>3. SeenRole(q) = "OWNER"
            BY <3>1, <3>2 DEF SeenRole
        <3>4. Several(Owners(row))
            BY <1>4, <2>3, <3>3 DEF Counted, Several
        <3>5. q.role # "ADMIN" \/ q.actor = q.target
            BY <1>4, <2>3, <3>3 DEF Allowed
        <3>6. q.role \in Managers \/ q.actor = q.target
            BY <1>1, <1>2 DEF IInv, Knowing, Knows
        <3>7. QED
            BY <3>4, <3>5, <3>6 DEF Managers
    <2>4. Takes(n) <=> Takes(q)
        BY <2>1 DEF Takes
    <2>5. Knows(q, Owners(row))
        BY <1>2 DEF IInv, Knowing
    <2>6. Knows(n, Owners(row))
        BY <1>1, <1>2, <2>1, <2>3, <2>4, <2>5 DEF Knows
    <2>7. ~At(c, "purge", "drop") /\ n.kind # "accept" /\ ~(n.kind = "purge" /\ n.at = "drop")
        BY <1>1, <1>2, <2>1 DEF At, MemberKinds
    <2>8. QED
        BY <1>1, <2>2, <2>6, <2>7, GoesOn DEF IInv, TypeOK, life
<1>5. QED
    BY <1>1, <1>2, <1>3, <1>4

LEMMA CommitMemberKeeps == ASSUME IInv, NEW c \in Calls, CommitMember(c) PROVE IInv'
<1>1. /\ call[c].at = "lock" /\ Ends(c) /\ UNCHANGED <<life, access, made>>
      /\ row' = row \/ row' = [row EXCEPT ![call[c].target] = Updated(call[c])]
    BY DEF CommitMember
<1>2. row' \in [Users -> Row]
    BY <1>1, UpdatedRows DEF IInv, TypeOK
<1>3. ~At(c, "purge", "drop")
    BY <1>1 DEF At
<1>4. QED
    BY <1>1, <1>2, <1>3, Ended DEF IInv, TypeOK, life, access

--------------------------------------------------------------------------------
(* Joining and requests *)

LEMMA BeginJoinKeeps == ASSUME IInv, NEW c \in Calls, BeginJoin(c) PROVE IInv'
<1>1. PICK u \in Users, kind \in {"code", "open"} :
         /\ row[u].state # "active" /\ (kind = "code" => code.uses < MaxUses)
         /\ Begins(c, [Idle(u) EXCEPT !.kind = kind, !.code = code, !.state = row[u].state])
    BY DEF BeginJoin
<1>2. row[u] \in Row /\ u \in Anyone /\ kind \in Kinds
    BY DEF IInv, TypeOK, Anyone, Kinds
<1>3. PICK seen \in {"none", "suspended"}, have \in Code : seen = row[u].state /\ have = code
    BY <1>1, <1>2 DEF Row, IInv, TypeOK
<1>4. PICK q \in Call :
         Begins(c, q) /\ q.kind = kind /\ q.target = u /\ q.code = have /\ q.at = "read" /\ ~q.moved
    <2>1. PICK idle \in Call : idle = Idle(u) /\ idle.target = u /\ idle.at = "read" /\ ~idle.moved
        BY <1>2, IdleIsACall
    <2>2. PICK q : q = [idle EXCEPT !.kind = kind, !.code = have, !.state = seen]
        OBVIOUS
    <2>3. /\ q \in Call /\ q.kind = kind /\ q.target = u /\ q.code = have
          /\ q.at = "read" /\ ~q.moved
        BY <1>2, <2>1, <2>2 DEF Call
    <2>4. Begins(c, q)
        BY <1>1, <1>3, <2>1, <2>2
    <2>5. QED
        BY <2>3, <2>4
<1>5. Knows(q, Owners(row))
    BY <1>1, <1>3, <1>4 DEF Knows, MemberKinds, Joining, Owners, Owns, Active
<1>6. UNCHANGED <<life, row, access>>
    BY DEF BeginJoin
<1>7. QED
    BY <1>4, <1>5, <1>6, Begun

LEMMA CommitJoinKeeps == ASSUME IInv, NEW c \in Calls, CommitJoin(c) PROVE IInv'
<1>1. /\ call[c].kind \in {"code", "open"} /\ Ends(c) /\ UNCHANGED <<life, invite, ask, made>>
      /\ row' = Joined(call[c].target, "MEMBER", call[c].state)
      /\ code' = code \/ (call[c].kind = "code" /\ code' = [call[c].code EXCEPT !.uses = @ + 1])
    BY DEF CommitJoin
<1>2. row' \in [Users -> Row]
    BY <1>1, JoinedRows DEF Roles
<1>3. code' \in Code
    <2>1. CASE code' = code
        BY <2>1 DEF IInv, TypeOK
    <2>2. CASE call[c].kind = "code" /\ code' = [call[c].code EXCEPT !.uses = @ + 1]
        <3>1. call[c].code.uses < MaxUses
            BY <2>2 DEF IInv, Knowing, Knows
        <3>2. PICK old \in Code : old = call[c].code
            BY DEF IInv, TypeOK, Call
        <3>3. PICK n \in 0 .. MaxUses + MaxCalls : n = old.uses + 1
            BY <3>1, <3>2 DEF Code
        <3>4. code' = [old EXCEPT !.uses = n]
            BY <2>2, <3>2, <3>3 DEF Code
        <3>5. QED
            BY <3>4 DEF Code
    <2>3. QED
        BY <1>1, <2>1, <2>2
<1>4. ~At(c, "purge", "drop")
    BY <1>1 DEF At
<1>5. QED
    BY <1>1, <1>2, <1>3, <1>4, Ended DEF IInv, TypeOK, life

\* A change of the code, of a request or of a date, without a call in between.
LEMMA AtOnce ==
    ASSUME IInv, UNCHANGED <<ws, cleaned, cut, row, call>>, due' \in BOOLEAN, code' \in Code,
           ask' \in Ask, invite' \in Invite, invite'.status = invite.status, made' \in 0 .. MaxCalls
    PROVE  IInv'
<1>1. TypeOK'
    BY DEF IInv, TypeOK
<1>2. Owners(row)' = Owners(row)
    BY DEF Owners, Owns
<1>3. Knowing'
    BY <1>2 DEF IInv, Knowing
<1>4. Accepting' /\ Purging'
    BY DEF IInv, Accepting, Purging, At
<1>5. QED
    BY <1>1, <1>3, <1>4 DEF IInv

LEMMA AtOnceKeeps ==
    ASSUME IInv, PatchCode \/ Asks \/ Reject \/ InvitationExpires \/ RetentionEnds
    PROVE  IInv'
<1>1. /\ made \in 0 .. MaxCalls /\ code \in Code /\ ask \in Ask /\ invite \in Invite /\ due \in BOOLEAN
      /\ UNCHANGED <<ws, cleaned, cut, row, call>> /\ (due' = due \/ due' = TRUE)
      /\ made' = made \/ (made < MaxCalls /\ made' = made + 1)
    BY DEF IInv, TypeOK, PatchCode, Asks, Reject, InvitationExpires, RetentionEnds, life
<1>2. made' \in 0 .. MaxCalls /\ due' \in BOOLEAN
    <2>1. made' \in 0 .. MaxCalls
        BY <1>1
    <2>2. due' \in BOOLEAN
        BY <1>1
    <2>3. QED
        BY <2>1, <2>2
<1>3. CASE PatchCode
    <2>1. PICK old \in Code, b \in BOOLEAN : old = code /\ b = ~old.on
        BY <1>1
    <2>2. code' = [old EXCEPT !.on = b] \/ code' = [on |-> TRUE, uses |-> 0]
        BY <1>3, <2>1 DEF PatchCode, Code
    <2>3. code' \in Code
        <3>1. [old EXCEPT !.on = b] \in Code
            BY DEF Code
        <3>2. 0 \in 0 .. MaxUses + MaxCalls
            OBVIOUS
        <3>3. [on |-> TRUE, uses |-> 0] \in Code
            BY <3>2 DEF Code
        <3>4. QED
            BY <2>2, <3>1, <3>3
    <2>4. invite' = invite /\ ask' = ask
        BY <1>3 DEF PatchCode
    <2>5. QED
        BY <1>1, <1>2, <2>3, <2>4, AtOnce
<1>4. CASE Asks
    <2>1. ask' \in Ask
        BY <1>4 DEF Asks, Ask, Anyone, Roles
    <2>2. invite' = invite /\ code' = code
        BY <1>4 DEF Asks
    <2>3. QED
        BY <1>1, <1>2, <2>1, <2>2, AtOnce
<1>5. CASE Reject
    <2>1. ask' \in Ask
        BY <1>1, <1>5 DEF Reject, Ask
    <2>2. invite' = invite /\ code' = code
        BY <1>5 DEF Reject
    <2>3. QED
        BY <1>1, <1>2, <2>1, <2>2, AtOnce
<1>6. CASE InvitationExpires
    <2>1. invite' \in Invite /\ invite'.status = invite.status
        BY <1>1, <1>6 DEF InvitationExpires, Invite
    <2>2. ask' = ask /\ code' = code
        BY <1>6 DEF InvitationExpires
    <2>3. QED
        BY <1>1, <1>2, <2>1, <2>2, AtOnce
<1>7. CASE RetentionEnds
    <2>1. invite' = invite /\ ask' = ask /\ code' = code
        BY <1>7 DEF RetentionEnds, access
    <2>2. QED
        BY <1>1, <1>2, <2>1, AtOnce
<1>8. QED
    BY <1>3, <1>4, <1>5, <1>6, <1>7

\* Who asks is no owner: a member, for an elevation, or no active one.
LEMMA BeginApproveKeeps == ASSUME IInv, NEW c \in Calls, BeginApprove(c) PROVE IInv'
<1>1. PICK by \in Anyone, want \in Roles : by = ask.by /\ want = ask.role
    BY DEF IInv, TypeOK, Ask
<1>2. PICK u \in Users :
         /\ row[by] = Active("MEMBER") \/ row[by].state # "active"
         /\ Begins(c, [Idle(u) EXCEPT !.kind = "approve", !.target = by, !.want = want,
                !.role = row[u].role,
                !.state = IF row[by].state = "suspended" THEN "suspended" ELSE "none"])
    BY <1>1 DEF BeginApprove, IInv, TypeOK, Ask
<1>3. row[u] \in Row /\ u \in Anyone
    BY DEF IInv, TypeOK, Anyone
<1>4. PICK seen \in Roles, was \in {"none", "suspended"} :
         seen = row[u].role /\ was = IF row[by].state = "suspended" THEN "suspended" ELSE "none"
    BY <1>3 DEF Row
<1>5. PICK q \in Call :
         Begins(c, q) /\ q.kind = "approve" /\ q.target = by /\ q.at = "read" /\ ~q.moved
    <2>1. PICK idle \in Call : idle = Idle(u) /\ idle.at = "read" /\ ~idle.moved
        BY <1>3, IdleIsACall
    <2>2. PICK q : q = [idle EXCEPT !.kind = "approve", !.target = by, !.want = want,
                                    !.role = seen, !.state = was]
        OBVIOUS
    <2>3. /\ q \in Call /\ q.kind = "approve" /\ q.target = by /\ q.at = "read" /\ ~q.moved
        BY <2>1, <2>2 DEF Call, Kinds
    <2>4. Begins(c, q)
        BY <1>2, <1>4, <2>1, <2>2
    <2>5. QED
        BY <2>3, <2>4
<1>6. by \notin Owners(row)
    BY <1>2 DEF Owners, Owns, Active
<1>7. Knows(q, Owners(row))
    BY <1>5, <1>6 DEF Knows, MemberKinds, Joining
<1>8. UNCHANGED <<life, row, access>>
    BY DEF BeginApprove
<1>9. QED
    BY <1>5, <1>7, <1>8, Begun

LEMMA CommitApproveKeeps == ASSUME IInv, NEW c \in Calls, CommitApprove(c) PROVE IInv'
<1>1. /\ call[c].kind = "approve" /\ Ends(c) /\ UNCHANGED <<life, invite, code, made>>
      /\ ask' = ask \/ ask' = [ask EXCEPT !.status = "APPROVED"]
      /\ \/ row' = row
         \/ row' = [row EXCEPT ![call[c].target].role = call[c].want]
         \/ row' = Joined(call[c].target, call[c].want, call[c].state)
    BY DEF CommitApprove
<1>2. PICK q \in Call : q = call[c]
    BY DEF IInv, TypeOK
<1>3. row' \in [Users -> Row]
    <2>1. CASE row' = row
        BY <2>1 DEF IInv, TypeOK
    <2>2. CASE row' = [row EXCEPT ![q.target].role = q.want]
        <3>1. PICK want \in Roles : want = q.want
            BY DEF Call
        <3>2. ASSUME q.target \in Users PROVE [row[q.target] EXCEPT !.role = want] \in Row
            BY <3>2 DEF IInv, TypeOK, Row
        <3>3. row' = [row EXCEPT ![q.target] = [row[q.target] EXCEPT !.role = want]]
            BY <2>2, <3>1
        <3>4. QED
            BY <3>2, <3>3 DEF IInv, TypeOK
    <2>3. CASE row' = Joined(q.target, q.want, q.state)
        <3>1. q.want \in Roles
            BY DEF Call
        <3>2. QED
            BY <2>3, <3>1, JoinedRows
    <2>4. QED
        BY <1>1, <1>2, <2>1, <2>2, <2>3
<1>4. ask' \in Ask
    BY <1>1 DEF IInv, TypeOK, Ask
<1>5. ~At(c, "purge", "drop")
    BY <1>1 DEF At
<1>6. QED
    BY <1>1, <1>3, <1>4, <1>5, Ended DEF IInv, TypeOK, life

--------------------------------------------------------------------------------
(* Invitations *)

LEMMA BeginSendKeeps == ASSUME IInv, NEW c \in Calls, BeginSend(c) PROVE IInv'
<1>1. PICK u \in Users, t \in Users, role \in Roles :
         Begins(c, [Idle(u) EXCEPT !.kind = "send", !.target = t, !.want = role])
    BY DEF BeginSend
<1>2. PICK q \in Call : Begins(c, q) /\ q.kind = "send" /\ q.at = "read" /\ ~q.moved
    <2>1. PICK idle \in Call : idle = Idle(u) /\ idle.at = "read" /\ ~idle.moved
        BY IdleIsACall DEF Anyone
    <2>2. PICK q : q = [idle EXCEPT !.kind = "send", !.target = t, !.want = role]
        OBVIOUS
    <2>3. q \in Call /\ q.kind = "send" /\ q.at = "read" /\ ~q.moved
        BY <2>1, <2>2 DEF Call, Kinds, Anyone
    <2>4. QED
        BY <1>1, <2>1, <2>2, <2>3
<1>3. Knows(q, Owners(row))
    BY <1>2 DEF Knows, MemberKinds, Joining
<1>4. UNCHANGED <<life, row, access>>
    BY DEF BeginSend
<1>5. QED
    BY <1>2, <1>3, <1>4, Begun

\* A call that has read nothing it needs later.
LEMMA BeginFree ==
    ASSUME IInv, NEW c \in Calls, NEW kind \in Kinds \ (MemberKinds \cup Joining \cup {"accept"}),
           Begins(c, [Free EXCEPT !.kind = kind]), UNCHANGED <<life, row, access>>
    PROVE  IInv'
<1>1. PICK q \in Call : Begins(c, q) /\ q.kind = kind /\ q.at = "read" /\ ~q.moved
    <2>1. PICK free \in Call : free = Free /\ free.at = "read" /\ ~free.moved
        BY FreeIsACall
    <2>2. PICK q : q = [free EXCEPT !.kind = kind]
        OBVIOUS
    <2>3. q \in Call /\ q.kind = kind /\ q.at = "read" /\ ~q.moved
        BY <2>1, <2>2 DEF Call
    <2>4. QED
        BY <2>1, <2>2, <2>3
<1>2. Knows(q, Owners(row))
    BY <1>1 DEF Knows, MemberKinds, Joining
<1>3. QED
    BY <1>1, <1>2, Begun

LEMMA CommitInviteKeeps == ASSUME IInv, NEW c \in Calls, CommitInvite(c) PROVE IInv'
<1>1. /\ call[c].kind \in {"send", "resend", "revoke", "view", "sweep"} /\ ~InviteLocked
      /\ Ends(c) /\ row' = row /\ UNCHANGED <<life, code, ask, made>>
    BY DEF CommitInvite
<1>2. PICK q \in Call, old \in Invite : q = call[c] /\ old = invite
    BY DEF IInv, TypeOK
<1>3. PICK t \in Anyone, role \in Roles : t = q.target /\ role = q.want
    BY DEF Call
<1>4. \/ invite' = old
      \/ invite' = [to |-> t, role |-> role, status |-> "PENDING", late |-> FALSE]
      \/ invite' = [old EXCEPT !.late = FALSE] \/ invite' = [old EXCEPT !.status = "REVOKED"]
      \/ invite' = [old EXCEPT !.status = "EXPIRED"]
    BY <1>1, <1>2, <1>3 DEF CommitInvite
<1>5. invite' \in Invite
    <2>1. [old EXCEPT !.late = FALSE] \in Invite
        BY DEF Invite
    <2>2. [old EXCEPT !.status = "REVOKED"] \in Invite /\ [old EXCEPT !.status = "EXPIRED"] \in Invite
        BY DEF Invite
    <2>3. [to |-> t, role |-> role, status |-> "PENDING", late |-> FALSE] \in Invite
        BY DEF Invite
    <2>4. QED
        BY <1>4, <2>1, <2>2, <2>3
<1>6. ~At(c, "purge", "drop") /\ \A d \in Calls : call[d].kind # "accept"
    BY <1>1 DEF At, InviteLocked
<1>7. QED
    BY <1>1, <1>5, <1>6, Ended DEF IInv, TypeOK, life

LEMMA BeginAcceptKeeps == ASSUME IInv, NEW c \in Calls, BeginAccept(c) PROVE IInv'
<1>1. PICK to \in Anyone, role \in Roles : to = invite.to /\ role = invite.role
    BY DEF IInv, TypeOK, Invite
<1>2. PICK was \in {"none", "suspended"} : was = IF row[to].state = "none" THEN "none" ELSE "suspended"
    OBVIOUS
<1>3. PICK q \in Call : Begins(c, q) /\ q.kind = "accept" /\ q.at = "read" /\ ~q.moved
    <2>1. PICK idle \in Call : idle = Idle(to) /\ idle.at = "read" /\ ~idle.moved
        BY IdleIsACall
    <2>2. PICK q : q = [idle EXCEPT !.kind = "accept", !.want = role, !.state = was]
        OBVIOUS
    <2>3. q \in Call /\ q.kind = "accept" /\ q.at = "read" /\ ~q.moved
        BY <2>1, <2>2 DEF Call, Kinds
    <2>4. Begins(c, q)
        BY <1>1, <1>2, <2>1, <2>2 DEF BeginAccept
    <2>5. QED
        BY <2>3, <2>4
<1>4. Knows(q, Owners(row))
    BY <1>3 DEF Knows, MemberKinds, Joining
<1>5. invite.status = "PENDING" /\ ~InviteLocked /\ UNCHANGED <<life, row, access>>
    BY DEF BeginAccept
<1>6. QED
    BY <1>3, <1>4, <1>5, Begun

LEMMA CommitAcceptKeeps == ASSUME IInv, NEW c \in Calls, CommitAccept(c) PROVE IInv'
<1>1. /\ call[c].kind = "accept" /\ Ends(c) /\ UNCHANGED <<life, code, ask, made>>
      /\ row' = row \/ row' = Joined(call[c].target, call[c].want, "none")
    BY DEF CommitAccept
<1>2. call[c].want \in Roles
    BY DEF IInv, TypeOK, Call
<1>3. row' \in [Users -> Row]
    BY <1>1, <1>2, JoinedRows DEF IInv, TypeOK
<1>4. invite' \in Invite
    <2>1. PICK old \in Invite : old = invite
        BY DEF IInv, TypeOK
    <2>2. \/ invite' = old \/ invite' = [old EXCEPT !.status = "ACCEPTED"]
          \/ invite' = [old EXCEPT !.status = old.status]
        BY <2>1 DEF CommitAccept
    <2>3. [old EXCEPT !.status = "ACCEPTED"] \in Invite /\ [old EXCEPT !.status = old.status] \in Invite
        BY DEF Invite
    <2>4. QED
        BY <2>2, <2>3
<1>5. ~At(c, "purge", "drop") /\ \A d \in Calls \ {c} : call[d].kind # "accept"
    BY <1>1 DEF At, IInv, Accepting
<1>6. QED
    BY <1>1, <1>3, <1>4, <1>5, Ended DEF IInv, TypeOK, life

--------------------------------------------------------------------------------
(* The life of the workspace *)

LEMMA CommitLiftKeeps == ASSUME IInv, NEW c \in Calls, CommitLift(c) PROVE IInv'
<1>1. /\ call[c].kind \in Lifting /\ call[c].at = "read" /\ row' = row
      /\ UNCHANGED <<cleaned, cut, access, made>>
    BY DEF CommitLift
<1>2. ~At(c, "purge", "drop")
    BY <1>1 DEF At
<1>3. ws' \in Life /\ due' \in BOOLEAN /\ (ws = "GONE" => ws' = "GONE")
    BY <1>1 DEF CommitLift, Lifting, Lifted, Life, IInv, TypeOK
<1>4. CASE Ends(c)
    BY <1>1, <1>2, <1>3, <1>4, Ended DEF IInv, TypeOK, access
<1>5. CASE call[c].kind = "purge" /\ call' = [call EXCEPT ![c].at = "clean"]
    <2>1. PICK q \in Call : q = call[c]
        BY DEF IInv, TypeOK
    <2>2. PICK n : n = [q EXCEPT !.at = "clean"]
        OBVIOUS
    <2>3. n \in Call /\ n.kind = "purge" /\ n.at = "clean"
        BY <1>5, <2>1, <2>2 DEF Call
    <2>4. call' = [call EXCEPT ![c] = n]
        BY <1>5, <2>1, <2>2
    <2>5. Knows(n, Owners(row))
        BY <2>3 DEF Knows, MemberKinds, Joining
    <2>6. cleaned' \in BOOLEAN /\ cleaned' = (cleaned \/ (cleaned' /\ n.kind = "purge" /\ n.at = "drop"))
        BY <1>1, <2>3 DEF IInv, TypeOK
    <2>7. QED
        BY <1>1, <1>2, <1>3, <2>3, <2>4, <2>5, <2>6, GoesOn
<1>6. QED
    BY <1>4, <1>5 DEF CommitLift

LEMMA CleanKeeps == ASSUME IInv, NEW c \in Calls, Clean(c) PROVE IInv'
<1>1. /\ At(c, "purge", "clean") /\ cleaned' \in {cleaned, TRUE}
      /\ call' = [call EXCEPT ![c].at = "drop"]
      /\ UNCHANGED <<ws, due, cut, row, access, made>>
    BY DEF Clean
<1>2. PICK q \in Call : q = call[c] /\ q.kind = "purge"
    BY <1>1 DEF IInv, TypeOK, At
<1>3. PICK n : n = [q EXCEPT !.at = "drop"]
    OBVIOUS
<1>4. n \in Call /\ n.kind = "purge" /\ n.at = "drop"
    BY <1>2, <1>3 DEF Call
<1>5. call' = [call EXCEPT ![c] = n]
    BY <1>1, <1>2, <1>3
<1>6. Knows(n, Owners(row)) /\ ~At(c, "purge", "drop")
    BY <1>1, <1>4 DEF Knows, MemberKinds, Joining, At
<1>7. cleaned' \in BOOLEAN /\ cleaned' = (cleaned \/ (cleaned' /\ n.kind = "purge" /\ n.at = "drop"))
    BY <1>1, <1>4 DEF IInv, TypeOK
<1>8. ws' \in Life /\ due' \in BOOLEAN
    BY <1>1 DEF IInv, TypeOK
<1>9. QED
    BY <1>1, <1>4, <1>5, <1>6, <1>7, <1>8, GoesOn

LEMMA DropKeeps == ASSUME IInv, NEW c \in Calls, Drop(c) PROVE IInv'
<1>1. /\ call[c].kind = "purge" /\ Ends(c) /\ ws' = "GONE" /\ row' = [u \in Users |-> NoRow]
      /\ UNCHANGED <<due, cleaned, cut, access, made>>
    BY DEF Drop, At
<1>2. NoRow \in Row /\ "GONE" \in Life
    BY DEF NoRow, Row, Roles, Life
<1>3. row' \in [Users -> Row]
    BY <1>1, <1>2
<1>4. QED
    BY <1>1, <1>2, <1>3, Ended DEF IInv, TypeOK, access

LEMMA AbortKeeps == ASSUME IInv, NEW c \in Calls, Abort(c) PROVE IInv'
<1>1. /\ Ends(c) /\ row' = row /\ UNCHANGED <<ws, due, cleaned, access, made>>
      /\ cut' = (cut \/ At(c, "purge", "clean") \/ At(c, "purge", "drop"))
    BY DEF Abort
<1>2. cut' \in BOOLEAN /\ (cut => cut') /\ (At(c, "purge", "drop") => cut')
    BY <1>1 DEF IInv, TypeOK
<1>3. QED
    BY <1>1, <1>2, Ended DEF IInv, TypeOK, access

--------------------------------------------------------------------------------
(* The invariant *)

LEMMA InitHolds == Init => IInv
<1> SUFFICES ASSUME Init PROVE IInv
    OBVIOUS
<1>1. call = [c \in Calls |-> Free] /\ made = 0 /\ cleaned = FALSE /\ cut = FALSE
    BY DEF Init
<1>2. invite \in Invite
    <2>1. PICK u \in Anyone, role \in Roles, status \in {"none", "PENDING"} :
             invite = [to |-> u, role |-> role, status |-> status, late |-> FALSE]
        BY DEF Init, Anyone, Roles
    <2>2. QED
        BY <2>1 DEF Invite
<1>3. code \in Code
    BY DEF Init, Code
<1>4. ask \in Ask
    BY DEF Init, Ask, Anyone, Roles
<1>5. row \in [Users -> Row] /\ ws \in Life /\ due \in BOOLEAN
    BY DEF Init, Life
<1>6. call \in [Calls -> Call] /\ made \in 0 .. MaxCalls
    BY <1>1, FreeIsACall
<1>7. TypeOK
    BY <1>1, <1>2, <1>3, <1>4, <1>5, <1>6 DEF TypeOK
<1>8. Knowing
    BY <1>1, FreeIsACall DEF Knowing
<1>9. Accepting /\ Purging
    BY <1>1, FreeIsACall DEF Accepting, Purging
<1>10. QED
    BY <1>7, <1>8, <1>9 DEF IInv

LEMMA NextHolds == IInv /\ [Next]_vars => IInv'
<1> SUFFICES ASSUME IInv, [Next]_vars PROVE IInv'
    OBVIOUS
<1>1. ASSUME NEW c \in Calls, BeginInvite(c) PROVE IInv'
    <2>1. PICK kind \in {"resend", "revoke", "view", "sweep"} :
             Begins(c, [Free EXCEPT !.kind = kind]) /\ UNCHANGED <<life, row, access>>
        BY <1>1 DEF BeginInvite
    <2>2. kind \in Kinds \ (MemberKinds \cup Joining \cup {"accept"})
        BY DEF Kinds, MemberKinds, Joining
    <2>3. QED
        BY <2>1, <2>2, BeginFree
<1>2. ASSUME NEW c \in Calls, BeginLift(c) PROVE IInv'
    <2>1. PICK kind \in Lifting :
             Begins(c, [Free EXCEPT !.kind = kind]) /\ UNCHANGED <<life, row, access>>
        BY <1>2 DEF BeginLift
    <2>2. kind \in Kinds \ (MemberKinds \cup Joining \cup {"accept"})
        BY DEF Kinds, MemberKinds, Joining, Lifting
    <2>3. QED
        BY <2>1, <2>2, BeginFree
<1>3. CASE UNCHANGED vars
    BY <1>3 DEF vars, IInv, TypeOK, Knowing, Owners, Owns, Accepting, Purging, At
<1>4. ASSUME NEW c \in Calls,
             \/ BeginMember(c) \/ Lock(c) \/ CommitMember(c) \/ BeginJoin(c) \/ CommitJoin(c)
             \/ BeginApprove(c) \/ CommitApprove(c) \/ BeginSend(c) \/ CommitInvite(c)
             \/ BeginAccept(c) \/ CommitAccept(c) \/ CommitLift(c) \/ Clean(c) \/ Drop(c)
             \/ Abort(c)
      PROVE  IInv'
    BY <1>4, BeginMemberKeeps, LockKeeps, CommitMemberKeeps, BeginJoinKeeps, CommitJoinKeeps,
       BeginApproveKeeps, CommitApproveKeeps, BeginSendKeeps, CommitInviteKeeps, BeginAcceptKeeps,
       CommitAcceptKeeps, CommitLiftKeeps, CleanKeeps, DropKeeps, AbortKeeps
<1>5. QED
    BY <1>1, <1>2, <1>3, <1>4, AtOnceKeeps DEF Next

\* What calls have read and what the workspace is stay related as IInv says.
THEOREM Invariance == Spec => []IInv
BY InitHolds, NextHolds, PTL DEF Spec

\* Rows, settings, requests and calls stay within their domains.
THEOREM TypeCorrect == Spec => []TypeOK
BY Invariance, PTL DEF IInv

\* Unless a purge has failed or died between its two commits, a workspace with resources
\* deleted is gone once nobody is at work on it, whatever raced the purge.
THEOREM PurgesEnd == Spec => []PurgeCompletes
<1>1. IInv => PurgeCompletes
    BY DEF IInv, Purging, PurgeCompletes, At
<1>2. QED
    BY <1>1, Invariance, PTL

--------------------------------------------------------------------------------
(* Owners *)

\* A call that takes an active owner's place: it is told by its target, and it acts on what it
\* has read of owners that are no more, or by right and beside another owner.
Deposes(c, u) ==
    /\ call[c].kind # "none" /\ call'[c].kind = "none" /\ call[c].target = u
    /\ call[c].moved \/ (/\ call[c].role = "OWNER" \/ call[c].actor = u
                         /\ Owners(row') # {})

LEMMA EndsEnds ==
    ASSUME IInv, NEW c \in Calls, Ends(c)
    PROVE  call'[c].kind = "none" /\ \A d \in Calls \ {c} : call'[d].kind = call[d].kind
<1>1. call' = [d \in Calls |->
            IF d = c THEN Free
            ELSE [call[d] EXCEPT !.moved = @ \/ (call[d].kind # "none" /\ Owners(row') # Owners(row))]]
    BY DEF Ends
<1>2. ASSUME NEW d \in Calls, d # c PROVE call'[d].kind = call[d].kind
    <2>1. PICK q \in Call : q = call[d]
        BY DEF IInv, TypeOK
    <2>2. PICK b : call'[d] = [q EXCEPT !.moved = b]
        BY <1>1, <1>2, <2>1
    <2>3. QED
        BY <2>1, <2>2 DEF Call
<1>3. call'[c] = Free
    BY <1>1
<1>4. QED
    BY <1>2, <1>3, FreeIsACall

\* Whoever is let in takes the place of an owner only if he has become one meanwhile.
LEMMA JoinDeposes ==
    ASSUME IInv, NEW c \in Calls, NEW u \in Owners(row), u \notin Owners(row'), Ends(c),
           call[c].kind \in Joining, \A v \in Users : v # call[c].target => row'[v] = row[v]
    PROVE  Deposes(c, u)
<1>1. u \in Users /\ row'[u] # row[u]
    BY DEF Owners, Owns
<1>2. call[c].target = u
    BY <1>1
<1>3. call[c].moved
    BY <1>2 DEF IInv, Knowing, Knows
<1>4. QED
    BY <1>2, <1>3, EndsEnds DEF Deposes, Joining

LEMMA MemberDeposes ==
    ASSUME IInv, NEW c \in Calls, NEW u \in Owners(row), u \notin Owners(row'), CommitMember(c)
    PROVE  Deposes(c, u)
<1>1. PICK q \in Call : q = call[c]
    BY DEF IInv, TypeOK
<1>2. Knows(q, Owners(row)) /\ q.at = "lock" /\ Ends(c) /\ q.kind \in MemberKinds
    BY <1>1 DEF CommitMember, IInv, Knowing, Knows
<1>3. u \in Users /\ row[u] = Active("OWNER") /\ row'[u] # row[u]
    BY DEF Owners, Owns
<1>4. row' = [row EXCEPT ![q.target] = Updated(q)] /\ row \in [Users -> Row]
    BY <1>1, <1>3 DEF CommitMember, IInv, TypeOK
<1>5. q.target = u /\ row'[u] = Updated(q) /\ \A v \in Users \ {u} : row'[v] = row[v]
    BY <1>3, <1>4
<1>6. Takes(q)
    <2>1. CASE q.kind = "role" /\ q.want = "OWNER"
        <3>1. Updated(q) = [row[u] EXCEPT !.role = "OWNER"]
            BY <1>5, <2>1 DEF Updated
        <3>2. QED
            BY <1>3, <1>5, <3>1 DEF Active
    <2>2. CASE q.kind = "readmit"
        <3>1. Updated(q) = [row[u] EXCEPT !.state = "active"]
            BY <1>5, <2>2 DEF Updated
        <3>2. QED
            BY <1>3, <1>5, <3>1 DEF Active
    <2>3. QED
        BY <1>2, <2>1, <2>2 DEF Takes, MemberKinds
<1>7. ASSUME ~q.moved PROVE (q.role = "OWNER" \/ q.actor = u) /\ Owners(row') # {}
    <2>1. (q.role = "OWNER" \/ q.actor = u) /\ Several(Owners(row))
        BY <1>2, <1>5, <1>6, <1>7 DEF Knows
    <2>2. PICK v \in Owners(row) : v # u
        BY <2>1 DEF Several
    <2>3. v \in Owners(row')
        BY <1>5, <2>2 DEF Owners, Owns
    <2>4. QED
        BY <2>1, <2>3
<1>8. QED
    BY <1>1, <1>2, <1>5, <1>7, EndsEnds DEF Deposes, MemberKinds

\* Whenever an active owner is no longer one and the workspace is not gone, a call deposes him.
LEMMA SomeoneDeposes ==
    ASSUME IInv, [Next]_vars, NEW u \in Owners(row), u \notin Owners(row'), ws' # "GONE"
    PROVE  \E c \in Calls : Deposes(c, u)
<1>1. ASSUME row' = row PROVE FALSE
    BY <1>1
<1>2. ASSUME NEW c \in Calls, CommitJoin(c) PROVE Deposes(c, u)
    <2>1. /\ call[c].kind \in Joining /\ Ends(c)
          /\ row' = Joined(call[c].target, "MEMBER", call[c].state)
        BY <1>2 DEF CommitJoin, Joining
    <2>2. \A v \in Users : v # call[c].target => row'[v] = row[v]
        BY <2>1, JoinedRows DEF Roles
    <2>3. QED
        BY <2>1, <2>2, JoinDeposes
<1>3. ASSUME NEW c \in Calls, CommitApprove(c) PROVE Deposes(c, u)
    <2>1. /\ call[c].kind \in Joining /\ Ends(c) /\ call[c].want \in Roles
          /\ \/ row' = row
             \/ row' = [row EXCEPT ![call[c].target].role = call[c].want]
             \/ row' = Joined(call[c].target, call[c].want, call[c].state)
        BY <1>3 DEF CommitApprove, Joining, IInv, TypeOK, Call
    <2>2. \A v \in Users : v # call[c].target => row'[v] = row[v]
        BY <2>1, JoinedRows DEF IInv, TypeOK
    <2>3. QED
        BY <2>1, <2>2, JoinDeposes
<1>4. ASSUME NEW c \in Calls, CommitAccept(c) PROVE FALSE
    <2>1. row' = row \/ row' = Joined(call[c].target, call[c].want, "none")
        BY <1>4 DEF CommitAccept
    <2>2. u \in Users /\ row[u].state = "active"
        BY DEF Owners, Owns, Active
    <2>3. row'[u] = row[u]
        BY <2>1, <2>2 DEF Joined, IInv, TypeOK
    <2>4. QED
        BY <2>3 DEF Owners, Owns
<1>5. ASSUME NEW c \in Calls, Drop(c) PROVE FALSE
    BY <1>5 DEF Drop
<1>6. ASSUME NEW c \in Calls,
             \/ BeginMember(c) \/ Lock(c) \/ BeginJoin(c) \/ BeginApprove(c) \/ BeginSend(c)
             \/ BeginInvite(c) \/ CommitInvite(c) \/ BeginAccept(c) \/ BeginLift(c)
             \/ CommitLift(c) \/ Clean(c) \/ Abort(c)
      PROVE  FALSE
    BY <1>1, <1>6 DEF BeginMember, Lock, BeginJoin, BeginApprove, BeginSend, BeginInvite,
       CommitInvite, BeginAccept, BeginLift, CommitLift, Clean, Abort
<1>7. ASSUME PatchCode \/ Asks \/ Reject \/ InvitationExpires \/ RetentionEnds \/ UNCHANGED vars
      PROVE  FALSE
    BY <1>1, <1>7 DEF PatchCode, Asks, Reject, InvitationExpires, RetentionEnds, vars
<1>8. QED
    BY <1>2, <1>3, <1>4, <1>5, <1>6, <1>7, MemberDeposes DEF Next

\* The last active owner goes only by a call that has read of owners that are no more.
THEOREM LastOwnerStays == Spec => OwnerRemains
<1>1. ASSUME IInv, [Next]_vars, Owners(row) # {}, Owners(row') = {}, ws' # "GONE"
      PROVE  \E c \in Calls : call[c].moved /\ call'[c].kind = "none"
    <2>1. PICK u \in Owners(row) : u \notin Owners(row')
        BY <1>1
    <2>2. QED
        BY <1>1, <2>1, SomeoneDeposes DEF Deposes
<1>2. QED
    BY <1>1, Invariance, PTL DEF Spec, OwnerRemains

\* An active owner yields to an owner, to himself, or to such a call.
THEOREM OwnersYieldToOwners == Spec => OwnersAnswerToOwners
<1> DEFINE A == \A u \in Owners(row) \ Owners(row') :
                  ws' = "GONE" \/ \E c \in Calls :
                     /\ call[c].kind # "none" /\ call'[c].kind = "none" /\ call[c].target = u
                     /\ call[c].role = "OWNER" \/ call[c].actor = u \/ call[c].moved
<1>1. IInv /\ [Next]_vars => A
    BY SomeoneDeposes DEF Deposes
<1>2. QED
    BY <1>1, Invariance, PTL DEF Spec, OwnersAnswerToOwners

\* An invitation lets nobody in but while it is pending, and is spent by it.
LEMMA Admits ==
    ASSUME IInv, Next, NEW c \in Calls, NEW u \in Users,
           call[c].kind = "accept", call'[c].kind = "none", row'[u] # row[u]
    PROVE  invite.status = "PENDING" /\ invite'.status = "ACCEPTED"
<1>1. invite.status = "PENDING" /\ invite \in Invite /\ call[c].state \in {"none", "suspended"}
    BY DEF IInv, Accepting, TypeOK, Call
<1>2. CASE CommitAccept(c)
    <2>1. call[c].state = "none" /\ row' = Joined(call[c].target, call[c].want, "none")
        BY <1>1, <1>2 DEF CommitAccept
    <2>2. ~Collides(call[c].target, "none")
        BY <2>1 DEF Joined, Collides
    <2>3. invite' = [invite EXCEPT !.status = "ACCEPTED"]
        BY <1>1, <1>2, <2>1, <2>2 DEF CommitAccept
    <2>4. QED
        BY <1>1, <2>3 DEF Invite
<1>3. ASSUME NEW d \in Calls, d # c, Ends(d) PROVE FALSE
    BY <1>3, EndsEnds
<1>4. ASSUME row' = row PROVE FALSE
    BY <1>4
<1>5. ASSUME NEW d \in Calls, CommitMember(d) PROVE FALSE
    <2>1. Ends(d) /\ call[d].kind \in MemberKinds
        BY <1>5 DEF CommitMember, IInv, Knowing, Knows
    <2>2. QED
        BY <1>3, <2>1 DEF MemberKinds
<1>6. ASSUME NEW d \in Calls, CommitJoin(d) \/ CommitApprove(d) \/ Drop(d) PROVE FALSE
    BY <1>3, <1>6 DEF CommitJoin, CommitApprove, Drop, At
<1>7. ASSUME NEW d \in Calls, d # c, CommitAccept(d) PROVE FALSE
    BY <1>3, <1>7 DEF CommitAccept
<1>8. ASSUME NEW d \in Calls,
             \/ BeginMember(d) \/ Lock(d) \/ BeginJoin(d) \/ BeginApprove(d) \/ BeginSend(d)
             \/ BeginInvite(d) \/ CommitInvite(d) \/ BeginAccept(d) \/ BeginLift(d)
             \/ CommitLift(d) \/ Clean(d) \/ Abort(d)
      PROVE  FALSE
    BY <1>4, <1>8 DEF BeginMember, Lock, BeginJoin, BeginApprove, BeginSend, BeginInvite,
       CommitInvite, BeginAccept, BeginLift, CommitLift, Clean, Abort
<1>9. ASSUME PatchCode \/ Asks \/ Reject \/ InvitationExpires \/ RetentionEnds PROVE FALSE
    BY <1>4, <1>9 DEF PatchCode, Asks, Reject, InvitationExpires, RetentionEnds
<1>10. QED
    BY <1>2, <1>5, <1>6, <1>7, <1>8, <1>9 DEF Next

\* An invitation is used once, and never after it was revoked or has expired.
THEOREM InvitationsAreSpent == Spec => SpentInvitation
<1> DEFINE A == \A c \in Calls, u \in Users :
                  call[c].kind = "accept" /\ call'[c].kind = "none" /\ row'[u] # row[u] =>
                     invite.status = "PENDING" /\ invite'.status = "ACCEPTED"
<1>1. IInv /\ [Next]_vars => [A]_vars
    BY Admits
<1>2. QED
    BY <1>1, Invariance, PTL DEF Spec, SpentInvitation
================================================================================
