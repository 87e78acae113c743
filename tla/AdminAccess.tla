----------------------------- MODULE AdminAccess -----------------------------
(***************************************************************************)
(* The admin console's access control: AdminAccessService, its two guards, *)
(* AdminSettingsService and AdminSessionListener.                          *)
(*                                                                         *)
(* A request reads its membership in AdminMembershipGuard, its grant in    *)
(* AdminPermissionGuard and then runs one service method, statement by     *)
(* statement and outside any transaction.  Two requests interleave at      *)
(* every await, and a statement may fail.  Repository.save puts back the   *)
(* whole row the method read; Repository.update and the unique indexes act *)
(* on the row as it is.                                                    *)
(*                                                                         *)
(* Left out: the notification and the mail of an invite (their failure is  *)
(* caught), the IP allowlist and the session timeout (a request they refuse*)
(* changes nothing), listings, and the permissions other than the two that *)
(* gate the methods.                                                       *)
(***************************************************************************)
EXTENDS Naturals, FiniteSets

CONSTANTS
  User,          \* accounts; an address is named after the account that owns it
  Slot,          \* memberships
  Handler,       \* requests under way at a time
  NoUser,        \* no user_id, no address
  FirstTables,   \* set of [Slot -> membership row]: tables the model starts with
  MaxRequests,   \* bound: requests that change something
  MaxFaults      \* bound: statements that fail

ASSUME AdminAssumption ==
  /\ NoUser \notin User
  /\ Slot \subseteq Nat \ {0}
  /\ MaxRequests \in Nat /\ MaxFaults \in Nat

VARIABLES
  member,    \* member[m]: the row of admin_memberships
  userRole,  \* userRole[u]: users.role
  token,     \* token[u]: the role in u's access token
  grant,     \* grant[r]: role r has admins.manage and platform.config
  settings,  \* settings[s]: section s of platform_settings was changed
  req,       \* req[p]: the request of handler p
  audit,     \* admin_audit_events
  done,      \* what has been committed, to compare the audit with
  granted,   \* memberships a super admin gave the super role
  joined,    \* users who accepted an invite to their own address
  taken      \* requests and failures so far

adminVars == <<member, userRole, token, grant, settings>>
adminAll == <<member, userRole, token, grant, settings, req, audit, done,
              granted, joined, taken>>

Role == {"super", "senior", "readOnly"}
Section == {"platform", "security"}
Membership == [email : User \cup {NoUser}, user : User \cup {NoUser},
               role : Role, status : {"none", "pending", "active", "revoked"}]
Open(row) == row.status \in {"pending", "active"}
ActiveOf(u) == {m \in Slot : member[m].status = "active" /\ member[m].user = u}
SupersBut(m) == {n \in Slot \ {m} : member[n].status = "active" /\ member[n].role = "super"}

\* user_id is set when an invite is accepted.
ASSUME FirstTablesAssumption ==
  \A table \in FirstTables :
    /\ table \in [Slot -> Membership]
    /\ \A m \in Slot : table[m].status \in {"none", "pending"} => table[m].user = NoUser

Op == {"invite", "update", "revoke", "accept", "grants", "reset", "settings"}
NoRow == [email |-> NoUser, user |-> NoUser, role |-> "readOnly", status |-> "none"]
NoRequest == [pc |-> "idle", op |-> "none", by |-> NoUser, m |-> 0, row |-> NoRow,
              seen |-> "readOnly", role |-> "keep", email |-> NoUser, super |-> FALSE,
              cfg |-> [s \in Section |-> FALSE]]

AdminInit ==
  /\ member \in FirstTables
  /\ userRole = [u \in User |-> IF ActiveOf(u) # {} THEN "admin" ELSE "user"]
  /\ token = userRole
  /\ grant \in {g \in [Role -> BOOLEAN] : g["super"] /\ ~g["readOnly"]}
  /\ settings = [s \in Section |-> FALSE]
  /\ req = [p \in Handler |-> NoRequest]
  /\ audit = {} /\ done = {}
  /\ granted = {m \in Slot : member[m].role = "super"}
  /\ joined = {u \in User : ActiveOf(u) # {}}
  /\ taken = [requests |-> 0, faults |-> 0]

At(p, label) == req[p].pc = label
Step(p, label) == req' = [req EXCEPT ![p].pc = label]
Leave(p) == req' = [req EXCEPT ![p] = NoRequest]

\* The two partial unique indexes: one open row per address, one active row per user.
Fits(m, row) ==
  /\ Open(row) => \A n \in Slot \ {m} : Open(member[n]) => member[n].email # row.email
  /\ row.status = "active" =>
       \A n \in Slot \ {m} : member[n].status = "active" => member[n].user # row.user

(***************************************************************************)
(* The guards                                                              *)
(***************************************************************************)
\* RoleGuard looks at the token, AdminMembershipGuard at the active membership: a
\* read-only admin changes nothing.
Arrive(p, u, r) ==
  /\ token[u] = "admin"
  /\ \E m \in ActiveOf(u) :
       /\ member[m].role # "readOnly"
       /\ req' = [req EXCEPT ![p] = [r EXCEPT !.pc = "permit", !.by = u, !.seen = member[m].role]]
  /\ taken' = [taken EXCEPT !.requests = @ + 1]
  /\ UNCHANGED <<member, userRole, token, grant, settings, audit, done, granted, joined>>

\* AdminPermissionGuard goes by the membership the first guard read.
Permit(p) ==
  /\ At(p, "permit")
  /\ IF req[p].seen = "super" \/ grant[req[p].seen]
     THEN Step(p, IF req[p].op = "invite" THEN "assign" ELSE "find")
     ELSE Leave(p)
  /\ UNCHANGED <<adminVars, audit, done, granted, joined, taken>>

(***************************************************************************)
(* AdminAccessService                                                      *)
(***************************************************************************)
Free(m) == member[m].status = "none"
NextSlot(m) == Free(m) /\ \A n \in Slot : Free(n) => m <= n

Invite(p, u, email, role) ==
  \E m \in Slot :
    /\ NextSlot(m)
    /\ Arrive(p, u, [NoRequest EXCEPT !.op = "invite", !.m = m, !.role = role, !.email = email])

UpdateAdmin(p, u, m, role, email) ==
  /\ ~Free(m)
  /\ role # "keep" \/ email # NoUser
  /\ Arrive(p, u, [NoRequest EXCEPT !.op = "update", !.m = m, !.role = role, !.email = email])

Revoke(p, u, m) ==
  /\ ~Free(m)
  /\ Arrive(p, u, [NoRequest EXCEPT !.op = "revoke", !.m = m])

\* acceptInvite is behind JwtAuthGuard alone: anybody signed in may send it.
AcceptInvite(p, u) ==
  /\ \E m \in Slot :
       /\ member[m].status = "pending" /\ member[m].email = u
       /\ req' = [req EXCEPT ![p] = [NoRequest EXCEPT !.pc = "already", !.op = "accept",
                    !.by = u, !.m = m, !.row = member[m]]]
       /\ joined' = joined \cup {u}
  /\ taken' = [taken EXCEPT !.requests = @ + 1]
  /\ UNCHANGED <<adminVars, audit, done, granted>>

\* assertSuperAdminManageLock keeps the super admins' own grant on.
UpdateRolePermissions(p, u, role, on) ==
  /\ role = "super" => on
  /\ Arrive(p, u, [NoRequest EXCEPT !.op = IF on THEN "grants" ELSE "reset", !.role = role])

UpdateSettings(p, u, section) ==
  Arrive(p, u, [NoRequest EXCEPT !.op = "settings", !.cfg = [s \in Section |-> s = section]])

\* findMembership and the checks on the row; revoke refuses the actor's own row.
Find(p) ==
  /\ At(p, "find")
  /\ req[p].op \in {"update", "revoke"}
  /\ LET r == req[p]
         row == member[r.m]
         super == row.role = "super" /\ row.status = "active"
         next == CASE r.op = "revoke" /\ super -> "lastSuper"
                   [] r.op = "revoke" /\ ~super -> "save"
                   [] r.op = "update" /\ r.role = "super" -> "assign"
                   [] r.op = "update" /\ r.role \notin {"keep", "super"} /\ super -> "lastSuper"
                   [] OTHER -> "email"
     IN IF row.status = "revoked" \/ (r.op = "revoke" /\ row.user = r.by)
        THEN Leave(p)
        ELSE req' = [req EXCEPT ![p].row = row, ![p].pc = next]
  /\ UNCHANGED <<adminVars, audit, done, granted, joined, taken>>

\* Mutant: the role is not looked at.
AssignAnyRole(p) ==
  /\ At(p, "assign")
  /\ req' = [req EXCEPT ![p].pc = "email", ![p].super =
       req[p].role = "super" /\ \E m \in ActiveOf(req[p].by) : member[m].role = "super"]
  /\ UNCHANGED <<adminVars, audit, done, granted, joined, taken>>

\* assertCanAssignRole reads the actor's membership afresh.
AssertCanAssignRole(p) ==
  /\ At(p, "assign")
  /\ LET r == req[p]
         super == \E m \in ActiveOf(r.by) : member[m].role = "super"
     IN IF r.role = "super" /\ ~super
        THEN Leave(p)
        ELSE req' = [req EXCEPT ![p].pc = "email", ![p].super = r.role = "super" /\ super]
  /\ UNCHANGED <<adminVars, audit, done, granted, joined, taken>>

\* The count of the other active super admins, for a demotion and for a revocation.
CountSupers(p) ==
  /\ At(p, "lastSuper")
  /\ IF SupersBut(req[p].m) = {} THEN Leave(p)
     ELSE Step(p, IF req[p].op = "revoke" THEN "save" ELSE "email")
  /\ UNCHANGED <<adminVars, audit, done, granted, joined, taken>>

\* The look for another open row with the address: an invite needs none, an update of
\* the address needs a pending row of its own; then the fields are set on the entity.
CheckEmail(p) ==
  /\ At(p, "email")
  /\ LET r == req[p]
         taker == {m \in Slot : Open(member[m]) /\ member[m].email = r.email}
         moves == r.op = "update" /\ r.email \notin {NoUser, r.row.email}
         email == IF moves THEN r.email ELSE r.row.email
         role == IF r.role = "keep" THEN r.row.role ELSE r.role
         syncs == role # r.row.role /\ r.row.status = "active" /\ r.row.user # NoUser
     IN IF \/ r.op = "invite" /\ taker # {}
           \/ moves /\ (r.row.status # "pending" \/ taker \ {r.m} # {})
        THEN Leave(p)
        ELSE IF r.op = "invite"
        THEN req' = [req EXCEPT ![p].pc = "save", ![p].row =
               [email |-> r.email, user |-> NoUser, role |-> r.role, status |-> "pending"]]
        ELSE req' = [req EXCEPT ![p].pc = IF syncs THEN "userRole" ELSE "save",
               ![p].row.email = email, ![p].row.role = role,
               ![p].role = IF role = r.row.role THEN "keep" ELSE role]
  /\ UNCHANGED <<adminVars, audit, done, granted, joined, taken>>

\* The look for an active membership of the account that accepts.
CheckAlready(p) ==
  /\ At(p, "already")
  /\ IF ActiveOf(req[p].by) # {} THEN Leave(p)
     ELSE req' = [req EXCEPT ![p].pc = "save", ![p].row.user = req[p].by,
                    ![p].row.status = "active"]
  /\ UNCHANGED <<adminVars, audit, done, granted, joined, taken>>

\* membershipRepo.save: the whole row of the entity.  A row the indexes refuse ends the
\* request.  An invite takes a slot that is free by now; Slot bounds how many there are.
SaveMember(p) ==
  /\ At(p, "save") /\ req[p].op \in {"invite", "update", "revoke", "accept"}
  /\ req[p].op = "invite" => \E n \in Slot : NextSlot(n)
  /\ LET r == req[p]
         row == IF r.op = "revoke" THEN [r.row EXCEPT !.status = "revoked"] ELSE r.row
         m == IF r.op = "invite" THEN CHOOSE n \in Slot : NextSlot(n) ELSE r.m
         next == IF r.op = "accept" \/ (r.op = "revoke" /\ row.user # NoUser)
                 THEN "userRole" ELSE "audit"
     IN IF ~Fits(m, row)
        THEN Leave(p) /\ UNCHANGED <<member, granted, done>>
        ELSE /\ member' = [member EXCEPT ![m] = row]
             /\ granted' = IF r.super THEN granted \cup {m} ELSE granted
             /\ done' = done \cup {<<r.op, m>>}
             /\ IF r.op = "update" /\ r.role = "keep" THEN Leave(p)
                ELSE req' = [req EXCEPT ![p].pc = next, ![p].m = m]
  /\ UNCHANGED <<userRole, token, grant, settings, audit, joined, taken>>

\* userRepo.update: before the save in updateAdmin, after it in revoke and acceptInvite.
SyncUserRole(p) ==
  /\ At(p, "userRole")
  /\ userRole' = [userRole EXCEPT ![req[p].row.user] =
                    IF req[p].op = "revoke" THEN "user" ELSE "admin"]
  /\ Step(p, IF req[p].op = "update" THEN "save" ELSE "audit")
  /\ UNCHANGED <<member, token, grant, settings, audit, done, granted, joined, taken>>

\* saveGrants reads the role's rows and saves all of them.
SaveGrants(p) ==
  /\ At(p, "find") /\ req[p].op \in {"grants", "reset"}
  /\ grant' = [grant EXCEPT ![req[p].role] = req[p].op = "grants" \/ req[p].role = "super"]
  /\ done' = done \cup {<<req[p].op, 0>>}
  /\ Step(p, "audit")
  /\ UNCHANGED <<member, userRole, token, settings, audit, granted, joined, taken>>

\* The settings methods set their section on the entity they read and save all of it.
ReadSettings(p) ==
  /\ At(p, "find") /\ req[p].op = "settings"
  /\ req' = [req EXCEPT ![p].pc = "save",
               ![p].cfg = [s \in Section |-> @[s] \/ settings[s]]]
  /\ UNCHANGED <<adminVars, audit, done, granted, joined, taken>>

SaveSettings(p) ==
  /\ At(p, "save") /\ req[p].op = "settings"
  /\ settings' = req[p].cfg
  /\ done' = done \cup {<<"settings", 0>>}
  /\ Step(p, "audit")
  /\ UNCHANGED <<member, userRole, token, grant, audit, granted, joined, taken>>

RecordAudit(p) ==
  /\ At(p, "audit")
  /\ audit' = audit \cup {<<req[p].op, req[p].m>>}
  /\ Leave(p)
  /\ UNCHANGED <<adminVars, done, granted, joined, taken>>

(***************************************************************************)
(* Sessions and failures                                                   *)
(***************************************************************************)
\* A sign-in issues a token with users.role.
TokensIssued(u) ==
  /\ token' = [token EXCEPT ![u] = userRole[u]]
  /\ UNCHANGED <<member, userRole, grant, settings, req, audit, done, granted, joined, taken>>

StatementFails(p) ==
  /\ ~At(p, "idle")
  /\ taken.faults < MaxFaults
  /\ taken' = [taken EXCEPT !.faults = @ + 1]
  /\ Leave(p)
  /\ UNCHANGED <<adminVars, audit, done, granted, joined>>

\* A handler that is free takes a request.
Requests(p) ==
  /\ At(p, "idle")
  /\ taken.requests < MaxRequests
  /\ \E u \in User :
       \/ \E e \in User, r \in Role : Invite(p, u, e, r)
       \/ \E m \in Slot, r \in Role \cup {"keep"}, e \in User \cup {NoUser} :
            UpdateAdmin(p, u, m, r, e)
       \/ \E m \in Slot : Revoke(p, u, m)
       \/ AcceptInvite(p, u)
       \/ \E r \in Role, on \in BOOLEAN : UpdateRolePermissions(p, u, r, on)
       \/ \E s \in Section : UpdateSettings(p, u, s)

AdminNext ==
  \/ \E p \in Handler :
       \/ Requests(p) \/ Permit(p) \/ Find(p) \/ AssertCanAssignRole(p)
       \/ CountSupers(p) \/ CheckEmail(p) \/ CheckAlready(p) \/ SaveMember(p)
       \/ SyncUserRole(p) \/ SaveGrants(p) \/ ReadSettings(p) \/ SaveSettings(p)
       \/ RecordAudit(p) \/ StatementFails(p)
  \/ \E u \in User : TokensIssued(u)

(***************************************************************************)
(* Properties                                                              *)
(***************************************************************************)
\* Whoever has users.role admin accepted an invite to their own address; every super admin
\* row got its role from somebody who was a super admin then, whatever stale rows are
\* written back in between; and the audit trail names nothing that was not committed,
\* though requests fail midway.
AccessIsAccountable ==
  /\ \A u \in User : userRole[u] = "admin" => u \in joined
  /\ \A m \in Slot : Open(member[m]) /\ member[m].role = "super" => m \in granted
  /\ audit \subseteq done

AdminSpec == AdminInit /\ [][AdminNext]_adminAll
=============================================================================
