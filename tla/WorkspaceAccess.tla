----------------------------- MODULE WorkspaceAccess -----------------------------
(***************************************************************************)
(* Who may enter one workspace: its members and their roles                *)
(* (WorkspaceMembershipService), the four ways in (WorkspaceJoiningService,*)
(* JoinCodeService, WorkspaceInvitationService, access requests) and its   *)
(* life (WorkspaceManagementService).  A call is one database transaction  *)
(* at READ COMMITTED: it reads, perhaps takes a row lock, and commits, and *)
(* other calls commit in between.                                          *)
(***************************************************************************)
EXTENDS Naturals

CONSTANTS
    Users,
    Calls,      \* calls in flight at a time
    MaxCalls,   \* calls accepted in all
    MaxUses,    \* the limit of the join code
    Nobody

ASSUME AccessAssumption == MaxCalls \in Nat /\ MaxUses \in Nat \ {0} /\ Nobody \notin Users

VARIABLES
    ws,         \* workspaces.status, GONE once the row is deleted
    due,        \* its purge_at has passed
    cleaned,    \* some of its objects, vectors or cache entries have been deleted
    cut,        \* a purge has been cut short after it had committed the status PURGING
    row,        \* the undeleted workspace_members row of each user, if any
    invite,     \* an invitation
    code,       \* the join code kept in workspace_settings.settings_json
    ask,        \* an access request
    call,       \* the calls in flight
    made        \* how many have been accepted

vars == <<ws, due, cleaned, cut, row, invite, code, ask, call, made>>

Roles    == {"OWNER", "ADMIN", "MEMBER"}
Managers == {"OWNER", "ADMIN"}
Life     == {"ACTIVE", "ARCHIVED", "SUSPENDED", "DELETING", "PURGING", "GONE"}
Row      == [role : Roles, state : {"none", "active", "suspended"}]
NoRow    == [role |-> "MEMBER", state |-> "none"]
Active(role) == [role |-> role, state |-> "active"]

Anyone  == Users \cup {Nobody}
Invite  == [to : Anyone, role : Roles, status : {"none", "PENDING", "ACCEPTED", "REVOKED", "EXPIRED"},
            late : BOOLEAN]                                 \* late: expires_at has passed
Code    == [on : BOOLEAN, uses : 0 .. MaxUses + MaxCalls]
Ask     == [by : Anyone, type : {"ROLE_ELEVATION", "JOIN_APPROVAL"}, role : Roles,
            status : {"none", "PENDING", "APPROVED", "REJECTED"}]

Lifting == {"archive", "restore", "suspend", "unsuspend", "delete", "undelete", "purge"}
Kinds   == Lifting \cup {"none", "role", "bar", "readmit", "remove", "code", "open",
                         "send", "resend", "revoke", "view", "sweep", "accept", "approve"}

\* at: read (the unlocked reads are done), lock (the target's row is locked and checked),
\*     clean, drop (the two halves of a purge).
\* role, code, state: what the call read of its actor, the code and the target's row.
\* moved: an owner has come or gone since the call began.
Call == [kind : Kinds, at : {"read", "lock", "clean", "drop"}, actor : Anyone, target : Anyone,
         want : Roles, role : Roles, code : Code, state : {"none", "suspended"}, moved : BOOLEAN]

Idle(u) == [kind |-> "none", at |-> "read", actor |-> u, target |-> u, want |-> "MEMBER",
            role |-> "MEMBER", code |-> [on |-> FALSE, uses |-> 0], state |-> "none",
            moved |-> FALSE]
Free == Idle(Nobody)

--------------------------------------------------------------------------------
Owns(rows, u) == rows[u] = Active("OWNER")
Owners(rows)  == {u \in Users : Owns(rows, u)}

\* A row lock is held from the check under it to the commit.
Locked(u) == \E c \in Calls :
    /\ call[c].target = u
    /\ \/ call[c].at = "lock"
       \/ call[c].kind = "approve" /\ ask.type = "ROLE_ELEVATION"

\* Bug seeded for SpentInvitation: the invitation is read without FOR UPDATE.
InviteUnlocked == FALSE

InviteLocked == \E c \in Calls : call[c].kind = "accept"
AskLocked    == \E c \in Calls : call[c].kind = "approve"

\* Call c begins, having read q.
Begins(c, q) ==
    /\ call[c].kind = "none" /\ made < MaxCalls
    /\ call' = [call EXCEPT ![c] = q]
    /\ made' = made + 1

\* Call c ends; the calls still in flight have read owners that are no more.
Ends(c) ==
    call' = [d \in Calls |->
        IF d = c THEN Free
        ELSE [call[d] EXCEPT !.moved = @ \/ (call[d].kind # "none" /\ Owners(row') # Owners(row))]]

At(c, kind, place) == call[c].kind = kind /\ call[c].at = place

\* Every owner in the beginning is a provisioned or promoted one.
Init ==
    /\ ws = "ACTIVE" /\ due = FALSE /\ cleaned = FALSE /\ cut = FALSE
    /\ row \in {r \in [Users -> Row] :
                  /\ Owners(r) # {}
                  /\ \A u \in Users : r[u].state = "none" => r[u] = NoRow}
    /\ \/ invite = [to |-> Nobody, role |-> "MEMBER", status |-> "none", late |-> FALSE]
       \/ \E u \in Users, role \in Roles :
             row[u] = NoRow /\ invite = [to |-> u, role |-> role, status |-> "PENDING", late |-> FALSE]
    /\ code = [on |-> TRUE, uses |-> 0]
    /\ ask = [by |-> Nobody, type |-> "JOIN_APPROVAL", role |-> "MEMBER", status |-> "none"]
    /\ call = [c \in Calls |-> Free] /\ made = 0

access == <<invite, code, ask>>
life   == <<ws, due, cleaned, cut>>

--------------------------------------------------------------------------------
(* Members *)

\* What begins a call of the membership service: the workspace is active, and the actor an
\* active member, a manager but for leaving.
BeginMember(c) ==
    /\ ws = "ACTIVE"
    /\ \E u, t \in Users, kind \in {"role", "bar", "readmit", "remove"}, want \in Roles :
          /\ row[u].state = "active" /\ row[t].state # "none"
          /\ row[u].role \in Managers \/ (kind = "remove" /\ u = t)
          /\ u = t => kind = "remove"
          /\ kind # "role" => want = "MEMBER"
          /\ Begins(c, [Idle(u) EXCEPT !.kind = kind, !.target = t, !.want = want,
                                       !.role = row[u].role])
    /\ UNCHANGED <<life, row, access>>

\* The role of the target as the call sees it: its own row is not read again under the lock.
SeenRole(q) == IF q.target = q.actor THEN q.role ELSE row[q.target].role

Takes(q) ==
    \/ q.kind = "role" /\ q.want # "OWNER"
    \/ q.kind \in {"bar", "remove"}

\* Bug seeded for OwnersAnswerToOwners: the target's role is not looked at.
AllowedAny(q) ==
    /\ q.kind = "role" /\ q.role = "ADMIN" => q.want # "OWNER"
    /\ q.kind = "role" => q.want # SeenRole(q)
    /\ q.kind = "bar" => row[q.target].state = "active"
    /\ q.kind = "readmit" => row[q.target].state = "suspended"

Allowed(q) ==
    /\ q.kind = "role" /\ q.role = "ADMIN" => q.want # "OWNER"
    /\ q.kind = "role" => q.want # SeenRole(q)
    /\ q.kind = "bar" => row[q.target].state = "active"
    /\ q.kind = "readmit" => row[q.target].state = "suspended"
    /\ Takes(q) /\ q.role = "ADMIN" /\ q.actor # q.target => SeenRole(q) # "OWNER"

\* Bug seeded for OwnerRemains: suspended owners count.
CountedWrongly(q) ==
    Takes(q) /\ SeenRole(q) = "OWNER" => \E u, v \in Users : u # v /\ row[u].role = "OWNER" /\ row[v].role = "OWNER"

\* count_active_owners > 1.
Counted(q) ==
    Takes(q) /\ SeenRole(q) = "OWNER" => \E u, v \in Owners(row) : u # v

\* SELECT FOR UPDATE of the target, the checks on its row and the count of the owners. The
\* count may come later: as the row is locked, that is this step taken later.
Lock(c) ==
    /\ call[c].kind \in {"role", "bar", "readmit", "remove"} /\ call[c].at = "read"
    /\ ~Locked(call[c].target)
    /\ IF row[call[c].target].state # "none" /\ Allowed(call[c]) /\ Counted(call[c])
       THEN call' = [call EXCEPT ![c].at = "lock"]
       ELSE call' = [call EXCEPT ![c] = Free]
    /\ UNCHANGED <<life, row, access, made>>

\* Bug seeded for TypeOK: a removed member keeps a row, of a status nobody knows.
UpdatedDeleted(q) == [row[q.target] EXCEPT !.state = "deleted"]

Updated(q) ==
    CASE q.kind = "role"    -> [row[q.target] EXCEPT !.role = q.want]
      [] q.kind = "bar"     -> [row[q.target] EXCEPT !.state = "suspended"]
      [] q.kind = "readmit" -> [row[q.target] EXCEPT !.state = "active"]
      [] q.kind = "remove"  -> NoRow

CommitMember(c) ==
    /\ call[c].at = "lock"
    /\ row' = IF ws = "GONE" THEN row ELSE [row EXCEPT ![call[c].target] = Updated(call[c])]
    /\ Ends(c)
    /\ UNCHANGED <<life, access, made>>

--------------------------------------------------------------------------------
(* The join code, open joining, access requests *)

BeginJoin(c) ==
    /\ ws = "ACTIVE"
    /\ \E u \in Users, kind \in {"code", "open"} :
          /\ row[u].state # "active"
          /\ kind = "code" => code.on /\ code.uses < MaxUses
          /\ Begins(c, [Idle(u) EXCEPT !.kind = kind, !.code = code, !.state = row[u].state])
    /\ UNCHANGED <<life, row, access>>

\* Who has no row gets one, unless an active one is there by now (a unique index) or the
\* workspace is gone (a foreign key). A suspended row is set ACTIVE with the given role,
\* by its id: if it has been removed meanwhile it stays removed.
Joined(u, role, state) ==
    IF ws # "GONE" /\ (state = "none" <=> row[u].state = "none")
    THEN [row EXCEPT ![u] = Active(role)] ELSE row

Collides(u, state) == ws = "GONE" \/ (state = "none" /\ row[u].state # "none")

\* record_join_code_usage writes the settings it read before the lock, with one more use.
CommitJoin(c) ==
    /\ call[c].kind \in {"code", "open"} /\ ~Locked(call[c].target)
    /\ row' = Joined(call[c].target, "MEMBER", call[c].state)
    /\ code' = IF call[c].kind = "code" /\ ~Collides(call[c].target, call[c].state)
               THEN [call[c].code EXCEPT !.uses = @ + 1] ELSE code
    /\ Ends(c)
    /\ UNCHANGED <<life, invite, ask, made>>

\* patch_join_code_settings and generate_new_join_code, read and written under the lock.
PatchCode ==
    /\ ws = "ACTIVE" /\ made < MaxCalls
    /\ \E u \in Users : row[u].state # "none" /\ row[u].role \in Managers
    /\ code' \in {[code EXCEPT !.on = ~@], [on |-> TRUE, uses |-> 0]}
    /\ made' = made + 1
    /\ UNCHANGED <<life, row, invite, ask, call>>

\* create_request: one is kept, the latest.
Asks ==
    /\ ws = "ACTIVE" /\ made < MaxCalls /\ ask.status # "PENDING" /\ ~AskLocked
    /\ \E u \in Users, type \in {"ROLE_ELEVATION", "JOIN_APPROVAL"}, role \in {"ADMIN", "MEMBER"} :
          /\ type = "ROLE_ELEVATION" => row[u] = Active("MEMBER") /\ role = "ADMIN"
          /\ type = "JOIN_APPROVAL" => row[u].state # "active"
          /\ ask' = [by |-> u, type |-> type, role |-> role, status |-> "PENDING"]
    /\ made' = made + 1
    /\ UNCHANGED <<life, row, invite, code, call>>

\* approve_request: the request is locked, and for an elevation the member's row too.
BeginApprove(c) ==
    /\ ws = "ACTIVE" /\ ask.status = "PENDING" /\ ~AskLocked
    /\ \E u \in Users :
          LET t == ask.by IN
          /\ row[u].state = "active" /\ row[u].role \in Managers
          /\ ask.type = "ROLE_ELEVATION" => ~Locked(t) /\ row[t] = Active("MEMBER")
          /\ ask.type = "JOIN_APPROVAL" => row[t].state # "active"
          /\ Begins(c, [Idle(u) EXCEPT !.kind = "approve", !.target = t, !.want = ask.role,
                                       !.role  = row[u].role,
                                       !.state = IF row[t].state = "suspended" THEN "suspended" ELSE "none"])
    /\ UNCHANGED <<life, row, access>>

CommitApprove(c) ==
    /\ call[c].kind = "approve"
    /\ LET t == call[c].target IN
       IF ask.type = "ROLE_ELEVATION"
       THEN /\ row' = IF ws = "GONE" THEN row ELSE [row EXCEPT ![t].role = call[c].want]
            /\ ask' = [ask EXCEPT !.status = "APPROVED"]
       ELSE /\ ~\E d \in Calls \ {c} : call[d].at = "lock" /\ call[d].target = t
            /\ row' = Joined(t, call[c].want, call[c].state)
            /\ ask' = IF Collides(t, call[c].state) THEN ask
                      ELSE [ask EXCEPT !.status = "APPROVED"]
    /\ Ends(c)
    /\ UNCHANGED <<life, invite, code, made>>

Reject ==
    /\ made < MaxCalls /\ ask.status = "PENDING" /\ ~AskLocked
    /\ \E u \in Users : row[u].state = "active" /\ row[u].role \in Managers
    /\ ask' = [ask EXCEPT !.status = "REJECTED"] /\ made' = made + 1
    /\ UNCHANGED <<life, row, invite, code, call>>

--------------------------------------------------------------------------------
(* Invitations *)

\* send_invitation; the unique index on pending addresses decides at the commit.
BeginSend(c) ==
    /\ ws = "ACTIVE" /\ invite.status = "none"
    /\ \E u, t \in Users, role \in Roles :
          /\ row[u].state # "none" /\ row[u].role \in Managers /\ row[t].state = "none"
          /\ row[u].role = "ADMIN" => role # "OWNER"
          /\ Begins(c, [Idle(u) EXCEPT !.kind = "send", !.target = t, !.want = role])
    /\ UNCHANGED <<life, row, access>>

\* resend and revoke, the lazy expiry of a view and the expiry worker read without a lock.
BeginInvite(c) ==
    /\ invite.status = "PENDING"
    /\ \E kind \in {"resend", "revoke", "view", "sweep"} :
          /\ kind \in {"resend", "revoke"} =>
                ws = "ACTIVE" /\ \E u \in Users : row[u].state # "none" /\ row[u].role \in Managers
          /\ kind \in {"view", "sweep"} => invite.late
          /\ Begins(c, [Free EXCEPT !.kind = kind])
    /\ UNCHANGED <<life, row, access>>

\* Only the worker looks at the status again (UPDATE ... WHERE status = PENDING).
CommitInvite(c) ==
    /\ call[c].kind \in {"send", "resend", "revoke", "view", "sweep"} /\ ~InviteLocked
    /\ invite' =
         IF ws = "GONE" THEN invite ELSE
         CASE call[c].kind = "send" ->
                IF invite.status # "none" THEN invite
                ELSE [to |-> call[c].target, role |-> call[c].want, status |-> "PENDING", late |-> FALSE]
           [] call[c].kind = "resend" -> [invite EXCEPT !.late = FALSE]
           [] call[c].kind = "revoke" -> [invite EXCEPT !.status = "REVOKED"]
           [] call[c].kind = "view"   -> [invite EXCEPT !.status = "EXPIRED"]
           [] call[c].kind = "sweep"  ->
                IF invite.status = "PENDING" THEN [invite EXCEPT !.status = "EXPIRED"] ELSE invite
    /\ row' = row
    /\ Ends(c)
    /\ UNCHANGED <<life, code, ask, made>>

InvitationExpires ==
    /\ invite.status = "PENDING" /\ ~invite.late
    /\ invite' = [invite EXCEPT !.late = TRUE]
    /\ UNCHANGED <<life, row, code, ask, call, made>>

\* accept_invitation under the lock of the invitation; state = "suspended" stands for any
\* membership the addressee already has.
BeginAccept(c) ==
    /\ invite.status = "PENDING" /\ ~invite.late /\ ws = "ACTIVE" /\ ~InviteLocked
    /\ Begins(c, [Idle(invite.to) EXCEPT !.kind = "accept", !.want = invite.role,
                     !.state = IF row[invite.to].state = "none" THEN "none" ELSE "suspended"])
    /\ UNCHANGED <<life, row, access>>

\* A member already: the invitation is spent and nobody is let in. Else both are written.
CommitAccept(c) ==
    /\ call[c].kind = "accept"
    /\ LET q == call[c] IN
       IF q.state = "suspended"
       THEN row' = row /\ invite' = [invite EXCEPT !.status = IF ws = "GONE" THEN @ ELSE "ACCEPTED"]
       ELSE /\ row' = Joined(q.target, q.want, "none")
            /\ invite' = IF Collides(q.target, "none") THEN invite
                         ELSE [invite EXCEPT !.status = "ACCEPTED"]
    /\ Ends(c)
    /\ UNCHANGED <<life, code, ask, made>>

--------------------------------------------------------------------------------
(* The life of the workspace *)

\* Who may, and from which status. The caller's expected_updated_at is current as it reads.
MayLift(kind) ==
    LET managed == \E u \in Users : row[u].state # "none" /\ row[u].role \in Managers
    IN CASE kind = "archive"   -> ws = "ACTIVE" /\ managed
         [] kind = "restore"   -> ws = "ARCHIVED" /\ managed
         [] kind = "suspend"   -> ws = "ACTIVE"
         [] kind = "unsuspend" -> ws = "SUSPENDED"
         [] kind = "delete"    -> ws \in {"ACTIVE", "ARCHIVED", "SUSPENDED"}
         [] kind = "undelete"  -> ws = "DELETING" /\ ~due
         [] kind = "purge"     -> ws # "GONE"

Lifted(kind) ==
    CASE kind = "archive" -> "ARCHIVED"
      [] kind = "suspend" -> "SUSPENDED"
      [] kind = "delete"  -> "DELETING"
      [] kind = "purge"   -> "PURGING"
      [] OTHER -> "ACTIVE"

BeginLift(c) ==
    /\ \E kind \in Lifting : MayLift(kind) /\ Begins(c, [Free EXCEPT !.kind = kind])
    /\ UNCHANGED <<life, row, access>>

\* UPDATE ... WHERE id: whatever the status is by now. A purge goes on to clean.
CommitLift(c) ==
    /\ call[c].kind \in Lifting /\ call[c].at = "read"
    /\ IF ws = "GONE"
       THEN UNCHANGED <<ws, due>> /\ row' = row /\ Ends(c)
       ELSE /\ ws' = Lifted(call[c].kind)
            /\ due' = IF call[c].kind \in {"delete", "undelete"} THEN FALSE ELSE due
            /\ row' = row
            /\ IF call[c].kind = "purge" THEN call' = [call EXCEPT ![c].at = "clean"] ELSE Ends(c)
    /\ UNCHANGED <<cleaned, cut, access, made>>

RetentionEnds ==
    /\ ws = "DELETING" /\ ~due /\ due' = TRUE
    /\ UNCHANGED <<ws, cleaned, cut, row, access, call, made>>

\* The three deletions outside the database. Each may fail; a failure is counted and passed
\* over, so that the purge goes on although nothing, or not everything, has been deleted.
Clean(c) ==
    /\ At(c, "purge", "clean")
    /\ cleaned' \in {cleaned, TRUE}
    /\ call' = [call EXCEPT ![c].at = "drop"]
    /\ UNCHANGED <<ws, due, cut, row, access, made>>

\* Bug seeded for PurgeCompletes: the row is deleted only if it is still PURGING.
DropIfPurging(c) ==
    /\ At(c, "purge", "drop")
    /\ ws' = IF ws = "PURGING" THEN "GONE" ELSE ws
    /\ row' = IF ws = "PURGING" THEN [u \in Users |-> NoRow] ELSE row
    /\ Ends(c)
    /\ UNCHANGED <<due, cleaned, cut, access, made>>

\* The row of the workspace is deleted, with everything that refers to it.
Drop(c) ==
    /\ At(c, "purge", "drop")
    /\ ws' = "GONE"
    /\ row' = [u \in Users |-> NoRow]
    /\ Ends(c)
    /\ UNCHANGED <<due, cleaned, cut, access, made>>

\* A call fails or dies before its commit: nothing of its transaction is left. Of a purge
\* its first commit stays: the workspace is PURGING, and nobody comes back to it, as the
\* retention worker swallows the exception and selects DELETING workspaces only.
Abort(c) ==
    /\ call[c].kind # "none"
    /\ cut' = (cut \/ At(c, "purge", "clean") \/ At(c, "purge", "drop"))
    /\ row' = row
    /\ Ends(c)
    /\ UNCHANGED <<ws, due, cleaned, access, made>>

--------------------------------------------------------------------------------
Next ==
    \/ \E c \in Calls :
          \/ Abort(c)
          \/ BeginMember(c) \/ Lock(c) \/ CommitMember(c)
          \/ BeginJoin(c) \/ CommitJoin(c)
          \/ BeginApprove(c) \/ CommitApprove(c)
          \/ BeginSend(c) \/ BeginInvite(c) \/ CommitInvite(c)
          \/ BeginAccept(c) \/ CommitAccept(c)
          \/ BeginLift(c) \/ CommitLift(c) \/ Clean(c) \/ Drop(c)
    \/ PatchCode \/ Asks \/ Reject \/ InvitationExpires \/ RetentionEnds

Spec == Init /\ [][Next]_vars

--------------------------------------------------------------------------------
\* Rows, settings, requests and calls stay within their domains.
TypeOK ==
    /\ ws \in Life /\ due \in BOOLEAN /\ cleaned \in BOOLEAN /\ cut \in BOOLEAN
    /\ row \in [Users -> Row] /\ invite \in Invite /\ code \in Code /\ ask \in Ask
    /\ call \in [Calls -> Call] /\ made \in 0 .. MaxCalls

\* A workspace loses its last active owner only to a call that overlapped with another
\* change of the owners, whichever way in, out or down is taken ("Last Owner Protection").
OwnerRemains ==
    [][Owners(row) # {} /\ Owners(row') = {} /\ ws' # "GONE" =>
         \E c \in Calls : call[c].moved /\ call'[c].kind = "none"]_vars

\* Nobody but an owner, or himself, takes an active owner's role, membership or status.
OwnersAnswerToOwners ==
    [][\A u \in Owners(row) \ Owners(row') :
         ws' = "GONE" \/ \E c \in Calls :
            /\ call[c].kind # "none" /\ call'[c].kind = "none" /\ call[c].target = u
            /\ call[c].role = "OWNER" \/ call[c].actor = u \/ call[c].moved]_vars

\* An invitation lets its addressee in once, and never after it was revoked or has expired,
\* in whatever order the acceptance, the resending, the revocation and the worker come.
SpentInvitation ==
    [][\A c \in Calls, u \in Users :
         call[c].kind = "accept" /\ call'[c].kind = "none" /\ row'[u] # row[u] =>
            invite.status = "PENDING" /\ invite'.status = "ACCEPTED"]_vars

\* Unless a purge has failed or died between its two commits, once resources of a workspace
\* are deleted and no call is under way it is gone: no restoration, however it races the
\* purge, leaves an emptied workspace behind. (A purge cut short may: see Abort.)
PurgeCompletes ==
    cleaned /\ ~cut /\ (\A c \in Calls : call[c].kind = "none") => ws = "GONE"
================================================================================
