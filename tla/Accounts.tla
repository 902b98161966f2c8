------------------------------- MODULE Accounts -------------------------------
(***************************************************************************)
(* Accounts, roles and departments: the older administration of users      *)
(* (routers/admin_router.py), the identity pages (routers/                 *)
(* enterprise_users_router.py), the roles (routers/                        *)
(* platform_admin_router.py, and the configuration pages of routers/       *)
(* super_admin_router.py), and who is let in (auth/deps.py,                *)
(* routers/auth_router.py, services/permissions.py).                       *)
(*                                                                         *)
(* The departments are one list in system_settings, read through a cache   *)
(* of the process (services/settings_cache.py).  A request checks first    *)
(* (the Open actions), prepares what it writes, and commits.  The          *)
(* permissions of the administration stand or fall together here.          *)
(***************************************************************************)
EXTENDS Naturals

CONSTANTS
    Users, Seeded,        \* accounts, and the one there is at first
    Departments,          \* names of departments
    Configured,           \* those of constants.DEPARTMENTS
    AdminDepartment,
    OwnRoles,             \* roles beside the two built-in ones
    Clerks                \* requests handled at a time

ASSUME AccountsAssumption ==
    Seeded \in Users /\ AdminDepartment \in Configured /\ Configured \subseteq Departments

VARIABLES
    account,     \* per user: whether it is there and active, role, department, own permission
    roles,       \* rows of roles
    grants,      \* per role: whether its permissions include the administration
    departments, \* departments_json, as committed
    cached,      \* the departments in the cache, or NoList
    signed,      \* users with a session that is not revoked
    asking       \* per clerk: what the handler has read, or NoAsking

accountVars == <<account, roles, grants, departments, cached, signed, asking>>

RootRole == "super_admin"
AdminRole == "admin"
BuiltIn == {RootRole, AdminRole}
Roles == BuiltIn \cup OwnRoles
NoList == {}
NoAsking == [op |-> "none"]
NoAccount == [state |-> "absent", role |-> AdminRole, dept |-> AdminDepartment, own |-> "none"]

AccountsInit ==
    /\ account = [u \in Users |-> IF u = Seeded THEN [NoAccount EXCEPT !.state = "active"] ELSE NoAccount]
    /\ roles = BuiltIn
    /\ grants = [r \in Roles |-> r \in BuiltIn]
    /\ departments = Configured /\ cached = NoList
    /\ signed = {}
    /\ asking = [c \in Clerks |-> NoAsking]

IsUser(u) == account[u].state \in {"active", "inactive"}
IsActive(u) == account[u].state = "active"

\* get_user_permissions: a permission of one's own overrides that of the role; the root role
\* needs none.
Manages(u) ==
    /\ IsActive(u)
    /\ \/ account[u].role = RootRole
       \/ account[u].own = "granted"
       \/ account[u].own = "none" /\ grants[account[u].role]

\* require_admin, and require_identity or require_platform, of somebody with a session.
MayAdminister(u) ==
    u \in signed /\ IsActive(u) /\ (account[u].role = AdminRole \/ account[u].dept = AdminDepartment)
MayManage(u) == u \in signed /\ Manages(u)

-----------------------------------------------------------------------------
(* Signing in and out.                                                     *)

\* The password is checked, then the session is inserted; its row refers to the user.
CheckLogin(c, u) ==
    /\ asking[c] = NoAsking /\ IsActive(u) /\ u \notin signed
    /\ asking' = [asking EXCEPT ![c] = [op |-> "login", user |-> u]]
    /\ UNCHANGED <<account, roles, grants, departments, cached, signed>>

StartSession(c) ==
    LET v == asking[c] IN
    /\ v.op = "login" /\ IsUser(v.user)
    /\ signed' = signed \cup {v.user}
    /\ asking' = [asking EXCEPT ![c] = NoAsking]
    /\ UNCHANGED <<account, roles, grants, departments, cached>>

ForceLogout(a, u) ==
    /\ MayManage(a)
    /\ signed' = signed \ {u}
    /\ UNCHANGED <<account, roles, grants, departments, cached, asking>>

-----------------------------------------------------------------------------
(* The older administration validates a department against the constant    *)
(* list and a role not at all.                                             *)

\* The rows that a rename has updated are locked until it commits.
Unlocked(u) == \A c \in Clerks : ~(asking[c].op = "rename" /\ asking[c].at = "prepared" /\ u \in asking[c].rows)

AdminCreateUser(a, u) ==
    /\ MayAdminister(a) /\ account[u].state = "absent"
    /\ \E r \in Roles, d \in Configured, s \in {"active", "inactive"} :
         account' = [account EXCEPT ![u] = [state |-> s, role |-> r, dept |-> d, own |-> "none"]]
    /\ UNCHANGED <<roles, grants, departments, cached, signed, asking>>

AdminUpdateUser(a, u) ==
    /\ MayAdminister(a) /\ IsUser(u) /\ Unlocked(u)
    /\ \/ \E r \in Roles : account' = [account EXCEPT ![u].role = r]
       \/ \E d \in Configured : account' = [account EXCEPT ![u].dept = d]
       \/ \E s \in {"active", "inactive"} : account' = [account EXCEPT ![u].state = s]
       \/ \E o \in {"granted", "denied"} : account' = [account EXCEPT ![u].own = o]
    /\ UNCHANGED <<roles, grants, departments, cached, signed, asking>>

\* The sessions of the user go with it.
AdminDeleteUser(a, u) ==
    /\ MayAdminister(a) /\ IsUser(u) /\ a # u /\ Unlocked(u)
    /\ account' = [account EXCEPT ![u] = NoAccount]
    /\ signed' = signed \ {u}
    /\ UNCHANGED <<roles, grants, departments, cached, asking>>

-----------------------------------------------------------------------------
(* The cache.  Whoever finds it empty reads the committed list into it.    *)

\* get_departments
Listed == IF cached = NoList THEN departments ELSE cached

\* Filling is noted by the requests that have emptied the cache and not committed yet.
Refilled(as) ==
    [c \in Clerks |-> IF cached = NoList /\ as[c].op \in {"add", "rename", "remove"} /\ as[c].at = "prepared"
                      THEN [as[c] EXCEPT !.refilled = TRUE] ELSE as[c]]

Refill ==
    /\ cached = NoList /\ cached' = departments
    /\ asking' = Refilled(asking)
    /\ UNCHANGED <<account, roles, grants, departments, signed>>

\* After CACHE_TTL_SECONDS, or when other settings are saved.
Expire ==
    /\ cached # NoList /\ cached' = NoList
    /\ UNCHANGED <<account, roles, grants, departments, signed, asking>>

-----------------------------------------------------------------------------
(* Users on the identity page.                                             *)

\* What has been checked, with the list of departments it was checked against.
Open(c, v) ==
    /\ asking[c] = NoAsking /\ MayManage(v.actor)
    /\ asking' = Refilled([asking EXCEPT ![c] = v])
    /\ cached' = Listed
    /\ UNCHANGED <<account, roles, grants, departments, signed>>

\* Mutant: an administrator may remove his own access.
SelfLockout(a, u, new) == TRUE
KeepsOwnAccess(a, u, new) == a = u => new.state = "active" /\ new.role \in BuiltIn

OpenUpdate(c, a, u) ==
    \E r \in roles, d \in Listed, s \in {"active", "inactive"} :
        LET new == [account[u] EXCEPT !.state = s, !.role = r, !.dept = d] IN
        /\ new # account[u]
        /\ IsUser(u) => KeepsOwnAccess(a, u, new)
        /\ Open(c, [op |-> "user", actor |-> a, user |-> u, seen |-> account[u], new |-> new, list |-> Listed])

\* set_status checks no department and no role.
OpenStatus(c, a, u) ==
    /\ IsUser(u)
    /\ \E s \in {"active", "inactive"} \ {account[u].state} :
         /\ a = u => s = "active"
         /\ asking[c] = NoAsking /\ MayManage(a)
         /\ asking' = [asking EXCEPT ![c] = [op |-> "user", actor |-> a, user |-> u, seen |-> account[u],
                                             new |-> [account[u] EXCEPT !.state = s], list |-> departments]]
    /\ UNCHANGED <<account, roles, grants, departments, cached, signed>>

Updated(old, seen, new) == IF new = seen THEN old ELSE new

\* Inserted, or what differs from the row that was loaded is updated.
CommitUser(c) ==
    LET v == asking[c]
        u == v.user
    IN
    /\ v.op = "user" /\ Unlocked(u)
    /\ v.seen.state = "absent" <=> account[u].state = "absent"
    /\ account' = [account EXCEPT ![u] = [state |-> Updated(@.state, v.seen.state, v.new.state),
                                          role  |-> Updated(@.role, v.seen.role, v.new.role),
                                          dept  |-> Updated(@.dept, v.seen.dept, v.new.dept),
                                          own   |-> @.own]]
    /\ asking' = [asking EXCEPT ![c] = NoAsking]
    /\ UNCHANGED <<roles, grants, departments, cached, signed>>

-----------------------------------------------------------------------------
(* Departments.                                                            *)

Members(d) == {u \in Users : IsUser(u) /\ account[u].dept = d}

OpenDepartment(c, a, op, d, name) ==
    /\ op # "rename" => name = d
    /\ CASE op = "add"    -> d \notin Listed
         [] op = "rename" -> d \in Listed \ {AdminDepartment} /\ name \notin Listed
         [] op = "remove" -> d \in Listed \ {AdminDepartment} /\ Members(d) = {}
    /\ Open(c, [op |-> op, at |-> "checked", actor |-> a, d |-> d, name |-> name,
                list |-> Listed, rows |-> {}, refilled |-> FALSE])

NewList(v) ==
    CASE v.op = "add"    -> v.list \cup {v.d}
      [] v.op = "rename" -> (v.list \ {v.d}) \cup {v.name}
      [] v.op = "remove" -> v.list \ {v.d}

\* A rename updates the users of the department; the cache is emptied before the commit.
PrepareDepartment(c) ==
    LET v == asking[c]
        rows == IF v.op = "rename" THEN Members(v.d) ELSE {}
    IN
    /\ v.op \in {"add", "rename", "remove"} /\ v.at = "checked" /\ \A u \in rows : Unlocked(u)
    /\ asking' = [asking EXCEPT ![c] = [v EXCEPT !.at = "prepared", !.rows = rows]]
    /\ cached' = NoList
    /\ UNCHANGED <<account, roles, grants, departments, signed>>

CommitDepartment(c) ==
    LET v == asking[c] IN
    /\ v.op \in {"add", "rename", "remove"} /\ v.at = "prepared"
    /\ departments' = NewList(v)
    /\ account' = [u \in Users |-> IF u \in v.rows THEN [account[u] EXCEPT !.dept = v.name] ELSE account[u]]
    /\ asking' = [asking EXCEPT ![c] = NoAsking]
    /\ UNCHANGED <<roles, grants, cached, signed>>

-----------------------------------------------------------------------------
(* Roles.                                                                  *)

Bearers(r) == {u \in Users : IsUser(u) /\ account[u].role = r}

\* A new role, other permissions of one, or a role that nobody has removed.  This page leaves the
\* root role its permissions, and lets nobody take them from the role he has himself.
OpenRole(c, a, r, op) ==
    /\ asking[c] = NoAsking /\ MayManage(a)
    /\ CASE op = "role"  -> r \notin roles
         [] op = "grant" -> r \in roles \ {RootRole}
         [] op = "deny"  -> r \in roles \ {RootRole, account[a].role}
         [] op = "drop"  -> r \in roles \cap OwnRoles /\ Bearers(r) = {}
    /\ asking' = [asking EXCEPT ![c] = [op |-> op, actor |-> a, r |-> r]]
    /\ UNCHANGED <<account, roles, grants, departments, cached, signed>>

\* A role that is gone fails the request.
CommitRole(c) ==
    LET v == asking[c] IN
    /\ v.op \in {"role", "grant", "deny", "drop"} /\ (v.r \in roles <=> v.op # "role")
    /\ roles' = CASE v.op = "role" -> roles \cup {v.r} [] v.op = "drop" -> roles \ {v.r} [] OTHER -> roles
    /\ grants' = [grants EXCEPT ![v.r] = v.op = "grant"]
    /\ asking' = [asking EXCEPT ![c] = NoAsking]
    /\ UNCHANGED <<account, departments, cached, signed>>

\* The configuration pages (super_admin_router.update_role_permissions) are open to the built-in roles
\* and to the administration's department.  They replace the permissions of any role, one's own too,
\* and check nothing; a role admin that is left without any gets them all back at the next start
\* (seed_super_admin_defaults), which is such a replacement too.
MayConfigure(u) ==
    u \in signed /\ IsActive(u) /\ (account[u].role \in BuiltIn \/ account[u].dept = AdminDepartment)

RewriteRole(a, r) ==
    /\ MayConfigure(a) /\ r \in roles
    /\ \E g \in BOOLEAN : grants' = [grants EXCEPT ![r] = g]
    /\ UNCHANGED <<account, roles, departments, cached, signed, asking>>

\* The request fails; its updates are rolled back.
Withdraw(c) ==
    /\ asking[c] # NoAsking
    /\ asking' = [asking EXCEPT ![c] = NoAsking]
    /\ UNCHANGED <<account, roles, grants, departments, cached, signed>>

ByOlderPage == \E a, u \in Users : AdminCreateUser(a, u) \/ AdminUpdateUser(a, u) \/ AdminDeleteUser(a, u)

ByConfiguration == \E a \in Users, r \in Roles : RewriteRole(a, r)

AccountsNext ==
    \/ ByOlderPage \/ ByConfiguration \/ Refill \/ Expire
    \/ \E a, u \in Users : ForceLogout(a, u)
    \/ \E c \in Clerks :
        \/ StartSession(c) \/ CommitUser(c) \/ PrepareDepartment(c) \/ CommitDepartment(c) \/ CommitRole(c) \/ Withdraw(c)
        \/ \E u \in Users : CheckLogin(c, u)
        \/ \E a, u \in Users : OpenUpdate(c, a, u) \/ OpenStatus(c, a, u)
        \/ \E a \in Users, d, name \in Departments, op \in {"add", "rename", "remove"} : OpenDepartment(c, a, op, d, name)
        \/ \E a \in Users, r \in Roles, op \in {"role", "grant", "deny", "drop"} : OpenRole(c, a, r, op)

AccountsSpec == AccountsInit /\ [][AccountsNext]_accountVars

-----------------------------------------------------------------------------
(* Properties.                                                             *)

Managed == \E u \in Users : Manages(u)
Misfiled(u) == IsUser(u) /\ (account[u].dept \notin departments \/ account[u].role \notin roles)
Stale == cached # NoList /\ cached # departments

\* What a request has checked does not hold any more when it commits, or did not hold when the
\* cache said so.
Superseded(v) ==
    \/ ~Manages(v.actor)
    \/ v.op = "user" /\ (v.new.role \notin roles \/ v.list # departments)
    \/ v.op \in {"add", "rename", "remove"} /\ (v.list # departments \/ Members(v.d) # v.rows)
    \/ v.op = "drop" /\ Bearers(v.r) # {}
    \/ v.op = "deny" /\ account[v.actor].role = v.r

\* Who takes for himself the role admin, whose permissions may have been taken away from it, or from him.
StepsDown(v) ==
    /\ v.op = "user" /\ v.actor = v.user /\ v.new.role = AdminRole
    /\ ~grants[AdminRole] \/ account[v.user].own = "denied"

\* Somebody can administer the platform, every user is in a department and a role that exist, no
\* department is lost and the cache shows the departments there are.  The older page may break
\* that, and so may the configuration pages, which take permissions from any role; the newer ones
\* break it only in a request whose checks were overtaken, when the last manager makes himself a
\* plain administrator, and, for the cache, when it was filled between being emptied and the commit
\* (update_user, rename_department, delete_department, delete_role, _save_departments).
OnlySupersededStrand ==
    [][/\ (Managed /\ ~Managed') \/ (\E u \in Users : Misfiled(u)' /\ ~Misfiled(u)) =>
            \/ ByOlderPage \/ ByConfiguration
            \/ \E c \in Clerks : /\ asking[c] # NoAsking /\ asking'[c] = NoAsking /\ asking[c].op # "login"
                                 /\ Superseded(asking[c]) \/ StepsDown(asking[c])
       /\ \A d \in departments \ departments' :
            \E c \in Clerks : CommitDepartment(c) /\ (asking[c].d = d \/ asking[c].list # departments)
       /\ ~Stale /\ Stale' =>
            \E c \in Clerks : CommitDepartment(c) /\ asking[c].refilled]_accountVars
===============================================================================
