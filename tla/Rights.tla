------------------------------- MODULE Rights -------------------------------
(***************************************************************************)
(* PermissionsGuard with those who manage accounts: SuperAdminService for    *)
(* the staff of every cooperative, StaffAccountService for the employees and *)
(* couriers of one.  The guard asks for the account of whoever calls, keeps  *)
(* the answer for 60 seconds, and lets the call pass by what it says.        *)
(***************************************************************************)
EXTENDS Requests, Sequences

CONSTANTS Homes,           \* cooperatives
          MaxEdits         \* bound: changes of the account

(* Three of the keys: daily work, a decision of the board, all villages.     *)
PermissionKeys == {"daily", "board", "global"}

RoleDefaults ==
    [SUPER_ADMIN |-> PermissionKeys, ADMIN_KOPDES |-> {"daily", "board"},
     PEGAWAI_KOPDES |-> {"daily"}, COURIER |-> {}]

StaffRoles == {"ADMIN_KOPDES", "PEGAWAI_KOPDES"}          \* of the super admin
AssignableRoles == {"PEGAWAI_KOPDES", "COURIER"}          \* of a village's admin
AssignableToPegawai == RoleDefaults["PEGAWAI_KOPDES"]

NoAccount == [role |-> None]
NoContext == [role |-> None]

VARIABLES account,         \* the User row: role, kopdesId, permissions
          context,         \* what the guard keeps of it
          edits            \* the changes so far, and what became of their drop

rightsVars == <<account, context, edits>>

RightsInit ==
    /\ account = NoAccount
    /\ context = NoContext
    /\ edits = <<>>

(* An empty list means the defaults of the role, any other narrows them.     *)
ResolvePermissions_Mutant(role, overrides) ==
    IF overrides = {} THEN RoleDefaults[role] ELSE overrides
ResolvePermissions(role, overrides) ==
    IF overrides = {} THEN RoleDefaults[role]
    ELSE RoleDefaults[role] \cap overrides

(* createStaff, create: nothing is kept of an account that is new.           *)
Account(role, home, overrides) ==
    [role |-> role, home |-> home, overrides |-> overrides]

CreateStaff(role, home, overrides) ==
    /\ account = NoAccount /\ edits = <<>>
    /\ role \in StaffRoles
    /\ account' = Account(role, home, overrides)
    /\ UNCHANGED <<context, edits, job>>

CreatePegawai(role, home, overrides) ==
    /\ account = NoAccount /\ edits = <<>>
    /\ role \in AssignableRoles /\ home # None
    /\ overrides \subseteq AssignableToPegawai
    /\ account' = Account(role, home, IF role = "COURIER" THEN {} ELSE overrides)
    /\ UNCHANGED <<context, edits, job>>

(* getStaffOrThrow before updateStaff and deleteStaff.                      *)
ManageStaff(w, op) ==
    /\ account.role \in StaffRoles
    /\ Start(w, [op |-> op, by |-> "super"])
    /\ UNCHANGED rightsVars

(* targetOrThrow before update and remove: the admin's own employees.        *)
ManagePegawai(w, op, home) ==
    /\ account.role \in AssignableRoles /\ account.home = home
    /\ Start(w, [op |-> op, by |-> "admin", courier |-> account.role = "COURIER"])
    /\ UNCHANGED rightsVars

(* The write by id, refused when the account is gone.                        *)
Writes(w, new) ==
    /\ Len(edits) < MaxEdits
    /\ account' = new
    /\ edits' = Append(edits, "pending")
    /\ Goto(w, [op |-> "invalidate", edit |-> Len(edits')])
    /\ UNCHANGED context

UpdateStaff(w, role, home, overrides) ==
    /\ Doing(w, "edit") /\ job[w].by = "super"
    /\ account # NoAccount
    /\ role \in StaffRoles
    /\ Writes(w, Account(role, home, overrides))

UpdatePegawai(w, overrides) ==
    /\ Doing(w, "edit") /\ job[w].by = "admin"
    /\ account # NoAccount
    /\ overrides \subseteq AssignableToPegawai
    /\ Writes(w, IF job[w].courier THEN account
                 ELSE [account EXCEPT !.overrides = overrides])

DeleteAccount(w) ==
    /\ Doing(w, "delete")
    /\ account # NoAccount
    /\ Writes(w, NoAccount)

AccountGone(w) ==
    /\ job[w].op \in {"edit", "delete"} /\ account = NoAccount
    /\ Finish(w)
    /\ UNCHANGED rightsVars

(* invalidate, invalidateContext: an error of Redis is swallowed.            *)
Invalidates(w) ==
    /\ Doing(w, "invalidate")
    /\ context' = NoContext
    /\ edits' = [edits EXCEPT ![job[w].edit] = "told"]
    /\ job' = [v \in Workers |->
                 IF v = w THEN Idle
                 ELSE IF Doing(v, "keep") THEN [job[v] EXCEPT !.late = TRUE]
                 ELSE job[v]]
    /\ UNCHANGED account

Loses(w) ==
    /\ Crash(w)
    /\ edits' = IF Doing(w, "invalidate")
                THEN [edits EXCEPT ![job[w].edit] = "lost"] ELSE edits
    /\ UNCHANGED <<account, context>>

(* loadContext, when nothing is kept: the row and the rights it gives.       *)
Loads(w) ==
    /\ context = NoContext /\ account # NoAccount
    /\ Start(w, [op |-> "keep", role |-> account.role, home |-> account.home,
                 rights |-> ResolvePermissions(account.role, account.overrides),
                 upTo |-> Len(edits), late |-> FALSE])
    /\ UNCHANGED rightsVars

ContextKept(w) ==
    LET k == job[w] IN
    /\ Doing(w, "keep")
    /\ context' = [role |-> k.role, home |-> k.home, rights |-> k.rights,
                   upTo |-> k.upTo, late |-> k.late]
    /\ Finish(w)
    /\ UNCHANGED <<account, edits>>

(* The 60 seconds are over.                                                 *)
Forgets ==
    /\ context # NoContext
    /\ context' = NoContext
    /\ UNCHANGED <<account, edits, job>>

Overrides == SUBSET PermissionKeys

RightsNext ==
    \/ \E r \in StaffRoles \cup AssignableRoles, h \in Homes \cup {None}, o \in Overrides :
         CreateStaff(r, h, o) \/ CreatePegawai(r, h, o)
    \/ Forgets
    \/ \E w \in Workers :
         \/ \E op \in {"edit", "delete"} :
              ManageStaff(w, op) \/ \E h \in Homes : ManagePegawai(w, op, h)
         \/ \E r \in StaffRoles, h \in Homes, o \in Overrides : UpdateStaff(w, r, h, o)
         \/ \E o \in Overrides : UpdatePegawai(w, o)
         \/ DeleteAccount(w) \/ AccountGone(w) \/ Invalidates(w) \/ Loses(w)
         \/ Loads(w) \/ ContextKept(w)

(* A village's admins, a super admin and the guard work on one account;      *)
(* what the guard keeps names rights of the role it names, and agrees with   *)
(* the account, unless an edit has not dropped it yet, its drop was lost, or *)
(* the guard had read the account before that drop.                          *)
RightsFollowAccount ==
    context # NoContext =>
      /\ context.rights \subseteq RoleDefaults[context.role]
      /\ \/ /\ account # NoAccount
            /\ context.role = account.role /\ context.home = account.home
            /\ context.rights = ResolvePermissions(account.role, account.overrides)
         \/ context.late
         \/ \E n \in context.upTo + 1 .. Len(edits) : edits[n] \in {"pending", "lost"}
=============================================================================
