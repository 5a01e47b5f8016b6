---------------------------- MODULE TenantMembers ----------------------------
(***************************************************************************)
(* The members of one organization of apps/api: the invites and their      *)
(* acceptance, the two routes that change or remove a member (of users,    *)
(* behind canManageRole, which also suspends, and of organizations, for    *)
(* owners), and the deletion of one's own account.  Every request checks   *)
(* first, in queries of its own, and writes later without looking again.   *)
(***************************************************************************)
EXTENDS Integers, FiniteSets

CONSTANTS
  Person,
  Founder,
  Invite,
  MemberOp,     \* requests
  MaxOps        \* bound: requests started

ASSUME MembersConstants ==
  Founder \in Person /\ MaxOps \in Nat

MemberRole == {"SUPER_ADMIN", "OWNER", "ADMIN", "MEMBER", "READONLY"}
MemberStatus == {"none", "ACTIVE", "REVOKED"}
StatusOfInvite == {"none", "PENDING", "ACCEPTED", "REVOKED"}
ManageKind == {"role", "remove", "suspend"}
OwnerKind == {"ownerRole", "ownerRemove"}

VARIABLES
  member,    \* [Person -> [role, status]]: the membership, "none" without a row
  suspended, \* the persons whose user is SUSPENDED
  invite,    \* [Invite -> [role, status, expired]]
  memberOp,  \* [MemberOp -> the request and what it read]
  opsLeft

memberVars == <<member, suspended, invite, memberOp, opsLeft>>

NoMember == [role |-> "MEMBER", status |-> "none"]
NoInvite == [role |-> "MEMBER", status |-> "none", expired |-> FALSE]

MembersInit ==
  /\ member \in [Person -> {NoMember} \cup [role: MemberRole, status: {"ACTIVE"}]]
  /\ member[Founder] = [role |-> "OWNER", status |-> "ACTIVE"]
  /\ suspended = {}
  /\ invite = [i \in Invite |-> NoInvite]
  /\ memberOp = [o \in MemberOp |-> [at |-> "done"]]
  /\ opsLeft = MaxOps

RoleOf(p) == IF member[p].status = "ACTIVE" THEN member[p].role ELSE "none"

\* roleSchema of the users route and of invites; the organizations route takes
\* every role.
RoleSchema == MemberRole \ {"SUPER_ADMIN"}

\* RequireRole(Role.OWNER) and RequireRole(Role.ADMIN), of a user with a session:
\* a suspended user has none.
AtLeastOwner == {"OWNER", "SUPER_ADMIN"}
AtLeastAdmin == AtLeastOwner \cup {"ADMIN"}
MayAct(p, roles) == p \notin suspended /\ RoleOf(p) \in roles
InCharge == {p \in Person : MayAct(p, AtLeastOwner)}

\* Mutant: an administrator manages every member.
MutantAdminManages(actor, target) == actor \in AtLeastAdmin /\ target # "none"

\* canManageRole
CanManageRole(actor, target) ==
  \/ actor \in AtLeastOwner /\ target # "none"
  \/ actor = "ADMIN" /\ target \in {"MEMBER", "READONLY"}

OpMoves(o, step) == memberOp' = [memberOp EXCEPT ![o].at = step]
OpEnds(o) == memberOp' = [memberOp EXCEPT ![o] = [at |-> "done"]]
OpStarts(o, op) ==
  /\ memberOp[o].at = "done" /\ opsLeft > 0
  /\ memberOp' = [memberOp EXCEPT ![o] = op] /\ opsLeft' = opsLeft - 1
  /\ UNCHANGED <<member, suspended, invite>>

\* The end of a request that wrote x: those that read x before are late.
Concerns(op) == IF op.at = "done" THEN {} ELSE {op.actor, op.target, op.invite}
OpEndsWriting(o, x) ==
  memberOp' = [r \in MemberOp |->
    IF r = o THEN [at |-> "done"]
    ELSE IF x \in Concerns(memberOp[r]) THEN [memberOp[r] EXCEPT !.late = TRUE] ELSE memberOp[r]]

-----------------------------------------------------------------------------
(* Members *)

\* Mutant: a person may manage itself.
MutantManagesItself(actor, target) == TRUE

MayManage(actor, target) == actor # target

\* Users route: the role of the actor, for the guard of the route and again
\* for assertManageableTarget,
StartManage(o, kind, actor, target, role) ==
  /\ MayAct(actor, AtLeastAdmin) /\ MayManage(actor, target)
  /\ OpStarts(o, [at |-> "target", kind |-> kind, actor |-> actor, target |-> target,
                role |-> role, as |-> RoleOf(actor), invite |-> "none", late |-> FALSE])

\* then the role of its target, and the role to be assigned.
CheckTarget(o) ==
  LET op == memberOp[o] IN
  /\ op.at = "target"
  /\ IF CanManageRole(op.as, RoleOf(op.target))
        /\ (op.kind = "role" => CanManageRole(op.as, op.role))
     THEN OpMoves(o, "write") ELSE OpEnds(o)
  /\ UNCHANGED <<member, suspended, invite, opsLeft>>

\* updateUserRoleWithAudit and revokeUserAccess: a row that is gone fails.
WriteManaged(o) ==
  LET op == memberOp[o] IN
  /\ op.at = "write" /\ op.kind \in {"role", "remove"}
  /\ IF member[op.target].status = "none" THEN OpEnds(o) /\ UNCHANGED member
     ELSE /\ member' = IF op.kind = "role" THEN [member EXCEPT ![op.target].role = op.role]
                       ELSE [member EXCEPT ![op.target].status = "REVOKED"]
          /\ OpEndsWriting(o, op.target)
  /\ UNCHANGED <<suspended, invite, opsLeft>>

\* suspendUser writes the user, not the membership; the sessions and API keys
\* that the route revokes next stop working with it (authenticateRequest).
SuspendManaged(o) ==
  LET op == memberOp[o] IN
  /\ op.at = "write" /\ op.kind = "suspend"
  /\ suspended' = suspended \cup {op.target} /\ OpEndsWriting(o, op.target)
  /\ UNCHANGED <<member, invite, opsLeft>>

\* Organizations route: only an owner, but any member, the owner included, and
\* any role.
StartOwner(o, kind, actor, target, role) ==
  /\ MayAct(actor, AtLeastOwner)
  /\ OpStarts(o, [at |-> "write", kind |-> kind, actor |-> actor, target |-> target,
                role |-> role, as |-> RoleOf(actor), invite |-> "none", late |-> FALSE])

\* updateMemberRole, and removeMember, which deletes the row.
WriteOwned(o) ==
  LET op == memberOp[o] IN
  /\ op.at = "write" /\ op.kind \in OwnerKind
  /\ IF member[op.target].status = "none" THEN OpEnds(o) /\ UNCHANGED member
     ELSE /\ member' = IF op.kind = "ownerRole" THEN [member EXCEPT ![op.target].role = op.role]
                       ELSE [member EXCEPT ![op.target] = NoMember]
          /\ OpEndsWriting(o, op.target)
  /\ UNCHANGED <<suspended, invite, opsLeft>>

\* deleteAccountAndPersonalData, of any user with a session, a member or not:
\* what it cancels at Stripe comes first.
StartErase(o, p) ==
  /\ p \notin suspended
  /\ OpStarts(o, [at |-> "write", kind |-> "erase", actor |-> p, target |-> p,
                role |-> "MEMBER", as |-> RoleOf(p), invite |-> "none", late |-> FALSE])

EraseMember(o) ==
  LET op == memberOp[o] IN
  /\ op.at = "write" /\ op.kind = "erase"
  /\ member' = [member EXCEPT ![op.target].status = IF @ = "none" THEN @ ELSE "REVOKED"]
  /\ suspended' = suspended \cup {op.target} /\ OpEndsWriting(o, op.target)
  /\ UNCHANGED <<invite, opsLeft>>

-----------------------------------------------------------------------------
(* Invites *)

AnAdministrator == \E p \in Person : MayAct(p, AtLeastAdmin)

CreateInvite(i, role) ==
  /\ AnAdministrator /\ invite[i].status = "none"
  /\ invite' = [invite EXCEPT ![i] = [role |-> role, status |-> "PENDING", expired |-> FALSE]]
  /\ UNCHANGED <<member, suspended, memberOp, opsLeft>>

Acceptable(i) == invite[i].status = "PENDING" /\ ~invite[i].expired

\* The invite is read before the transaction that accepts it, for the user
\* that the request names or the one with the address of the invite.
StartAccept(o, i, p) ==
  /\ Acceptable(i)
  /\ OpStarts(o, [at |-> "accept", kind |-> "accept", actor |-> p, target |-> p,
                role |-> invite[i].role, as |-> "none", invite |-> i, late |-> FALSE])

\* The membership is made or made active again, with the role of the invite,
\* unless the invite was deleted meanwhile.
AcceptInvite(o) ==
  LET op == memberOp[o] IN
  /\ op.at = "accept"
  /\ IF invite[op.invite].status = "none" THEN OpEnds(o) /\ UNCHANGED <<member, invite>>
     ELSE /\ member' = [member EXCEPT ![op.target] = [role |-> op.role, status |-> "ACTIVE"]]
          /\ invite' = [invite EXCEPT ![op.invite].status = "ACCEPTED"]
          /\ OpEndsWriting(o, op.target)
  /\ UNCHANGED <<suspended, opsLeft>>

\* revokeInvite: of an accepted invite too.
RevokeInvite(i) ==
  /\ AnAdministrator /\ invite[i].status # "none"
  /\ invite' = [invite EXCEPT ![i].status = "REVOKED"]
  /\ memberOp' = [o \in MemberOp |->
       IF i \in Concerns(memberOp[o]) THEN [memberOp[o] EXCEPT !.late = TRUE] ELSE memberOp[o]]
  /\ UNCHANGED <<member, suspended, opsLeft>>

InviteExpires(i) ==
  /\ invite[i].status # "none" /\ invite' = [invite EXCEPT ![i].expired = TRUE]
  /\ UNCHANGED <<member, suspended, memberOp, opsLeft>>

\* Both jobs delete what has expired, accepted invites included.
CleanupInvites ==
  /\ \E i \in Invite : invite[i].expired
  /\ invite' = [i \in Invite |-> IF invite[i].expired THEN NoInvite ELSE invite[i]]
  /\ UNCHANGED <<member, suspended, memberOp, opsLeft>>

MembersNext ==
  \/ \E o \in MemberOp :
       \/ CheckTarget(o) \/ WriteManaged(o) \/ SuspendManaged(o) \/ WriteOwned(o)
       \/ EraseMember(o) \/ AcceptInvite(o)
       \/ \E p \in Person : StartErase(o, p) \/ \E i \in Invite : StartAccept(o, i, p)
       \/ \E actor, target \in Person :
            \/ \E role \in RoleSchema : StartManage(o, "role", actor, target, role)
            \/ \E role \in MemberRole : StartOwner(o, "ownerRole", actor, target, role)
            \/ \E kind \in {"remove", "suspend"} : StartManage(o, kind, actor, target, "MEMBER")
            \/ StartOwner(o, "ownerRemove", actor, target, "MEMBER")
  \/ \E i \in Invite : RevokeInvite(i) \/ InviteExpires(i) \/ \E role \in RoleSchema : CreateInvite(i, role)
  \/ CleanupInvites

MembersSpec == MembersInit /\ [][MembersNext]_memberVars

-----------------------------------------------------------------------------
MembersTypeOK ==
  /\ member \in [Person -> [role: MemberRole, status: MemberStatus]]
  /\ suspended \subseteq Person
  /\ invite \in [Invite -> [role: RoleSchema, status: StatusOfInvite, expired: BOOLEAN]]
  /\ \A o \in MemberOp : memberOp[o].at \in {"done", "target", "write", "accept"}
  /\ opsLeft \in 0..MaxOps

\* An organization loses the last person in charge of it, an owner or a super
\* administrator who is not suspended, by a request of that person on itself
\* (but not through the users route) or an invite accepted for it, although
\* nothing counts them; otherwise only by a request whose actor or target was
\* written after it was checked.
OwnerRemains ==
  [][InCharge # {} /\ InCharge' = {} =>
       \E o \in MemberOp :
         /\ memberOp[o].at \in {"write", "accept"} /\ memberOp'[o].at = "done"
         /\ \/ memberOp[o].kind \notin ManageKind /\ InCharge = {memberOp[o].actor}
            \/ memberOp[o].late]_memberVars

\* An administrator demotes, removes or suspends a person in charge only if
\* that person was put in charge after the check.
AdminsKeepBelowOwners ==
  [][\A o \in MemberOp :
       /\ WriteManaged(o) \/ SuspendManaged(o)
       /\ memberOp[o].as = "ADMIN" /\ memberOp[o].target \in InCharge \ InCharge'
       => memberOp[o].late]_memberVars
=============================================================================
