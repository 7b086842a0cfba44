--------------------------- MODULE Authorization ---------------------------
(***************************************************************************)
(* The users, roles and permissions of                                     *)
(* internal/webserver/auth/authorization.go, called by the handlers of     *)
(* HTTP requests (internal/webserver/server.go), which run side by side.   *)
(*                                                                         *)
(* The authorizer has no lock.  A call that finds no user stores a fresh   *)
(* one later, over whatever another call stored meanwhile, and gives it    *)
(* the role or the permission after that: three steps.  A call that finds  *)
(* the user works on the account it found, one step: if the account is     *)
(* replaced before the call is done with it, what it does is lost, as if   *)
(* it had been done before.  That two calls use the map or one slice in    *)
(* the same instant is left out.                                           *)
(***************************************************************************)
EXTENDS FiniteSets

CONSTANTS
    Subjects,    \* user ids
    AdminUsers,  \* config.AdminUsers
    Grantable,   \* what GrantPermission is called with
    Assignable,  \* the roles requests are about
    Handlers,    \* the goroutines that call the authorizer
    Unknown,     \* not in a.users
    NoCall       \* a handler that is in no call

Permissions == {"desktop:view", "desktop:control", "desktop:capture", "system:monitor",
                "system:admin", "session:manage", "user:manage"}

ASSUME AuthorizationAssumption ==
    /\ AdminUsers \subseteq Subjects
    /\ Grantable \subseteq Permissions \cup {"desktop:*", "system:*"}

Roles == {"viewer", "operator", "capturer", "admin"}

ASSUME AssignableAssumption == Assignable \subseteq Roles

VARIABLES
    users,       \* a.users
    callOf,      \* where each handler stands in a call
    granted,     \* history: what each user was given and nobody has taken since
    overwritten  \* history: users stored over the account of another call

authorizerVars == <<users, callOf, granted, overwritten>>

DefaultRole == "viewer"

RolePermissions(r) ==
    CASE r = "viewer"   -> {"desktop:view"}
      [] r = "operator" -> {"desktop:view", "desktop:control"}
      [] r = "capturer" -> {"desktop:view", "desktop:capture", "system:monitor"}
      [] r = "admin"    -> Permissions

\* matchPermission
Matches(held, required) ==
    \/ held = required
    \/ held = "desktop:*" /\ required \in {"desktop:view", "desktop:control", "desktop:capture"}
    \/ held = "system:*"  /\ required \in {"system:monitor", "system:admin"}

Gifts    == [roles: SUBSET Roles, permissions: SUBSET Grantable]
Accounts == [roles: SUBSET Roles, permissions: SUBSET Grantable, active: BOOLEAN]

\* POST and DELETE of a role, past the check of the caller.
Requested == [step: {"assign", "remove"}, user: Subjects, role: Roles]
\* The user was not found: a fresh account is to be stored, and then given something.
Making    == [step: {"store", "give"}, user: Subjects, fresh: Accounts, gift: Gifts]

ASSUME UnknownAssumption ==
    Unknown \notin Accounts /\ NoCall \notin Requested \cup Making

AuthorizerTypeOK ==
    /\ users \in [Subjects -> Accounts \cup {Unknown}]
    /\ callOf \in [Handlers -> Requested \cup Making \cup {NoCall}]
    /\ granted \in [Subjects -> Gifts]
    /\ overwritten \subseteq Subjects

NoGift == [roles |-> {}, permissions |-> {}]

DefaultUser == [roles |-> {DefaultRole}, permissions |-> {}, active |-> TRUE]

\* The user AssignRole makes: with the role it is to be given only.
UserWithoutRole == [DefaultUser EXCEPT !.roles = {}]

AuthorizerInit ==
    /\ users = [u \in Subjects |->
           IF u \in AdminUsers THEN [DefaultUser EXCEPT !.roles = {"admin"}] ELSE Unknown]
    /\ callOf = [h \in Handlers |-> NoCall]
    /\ granted = [u \in Subjects |-> NoGift]
    /\ overwritten = {}

Known(u) == users[u] # Unknown

-----------------------------------------------------------------------------
(* The operations of the authorizer.                                       *)

\* The account CheckPermission decides by.
AccountOf(u) == IF Known(u) THEN users[u] ELSE DefaultUser

\* What CheckPermission answers.
Allowed(u, p) ==
    LET a == AccountOf(u) IN
    /\ a.active
    /\ \E permission \in a.permissions \cup UNION {RolePermissions(r) : r \in a.roles} :
           Matches(permission, p)

\* Mutant: what is given takes the place of what was there.
GivenOnly(a, gift) == [a EXCEPT !.roles = gift.roles, !.permissions = gift.permissions]

Given(a, gift) == [a EXCEPT !.roles = @ \cup gift.roles,
                            !.permissions = @ \cup gift.permissions]

Note(u, gift) ==
    granted' = [granted EXCEPT ![u] = [roles       |-> @.roles \cup gift.roles,
                                       permissions |-> @.permissions \cup gift.permissions]]

\* The user is found and given the gift, or is not found.
LookUp(h, u, fresh, gift) ==
    \/ /\ Known(u)
       /\ users' = [users EXCEPT ![u] = Given(users[u], gift)]
       /\ callOf' = [callOf EXCEPT ![h] = NoCall]
       /\ Note(u, gift)
       /\ UNCHANGED overwritten
    \/ /\ ~Known(u)
       /\ callOf' = [callOf EXCEPT ![h] =
              [step |-> "store", user |-> u, fresh |-> fresh, gift |-> gift]]
       /\ UNCHANGED <<users, granted, overwritten>>

\* a.users[userID] = user.  Calls on an account that was there work on it still, to
\* nobody's knowledge.
Store(h) ==
    LET c == callOf[h] IN
    /\ c # NoCall /\ c.step = "store"
    /\ users' = [users EXCEPT ![c.user] = c.fresh]
    /\ callOf' = [k \in Handlers |->
           IF k = h THEN [c EXCEPT !.step = "give"]
           ELSE IF callOf[k] # NoCall /\ callOf[k].step = "give" /\ callOf[k].user = c.user
                THEN NoCall ELSE callOf[k]]
    /\ overwritten' = IF Known(c.user) THEN overwritten \cup {c.user} ELSE overwritten
    /\ UNCHANGED granted

\* The permission or the role is appended to the account that was stored.
Give(h) ==
    LET c == callOf[h] IN
    /\ c # NoCall /\ c.step = "give"
    /\ users' = [users EXCEPT ![c.user] = Given(users[c.user], c.gift)]
    /\ callOf' = [callOf EXCEPT ![h] = NoCall]
    /\ Note(c.user, c.gift)
    /\ UNCHANGED overwritten

CheckPermission(h, u) == callOf[h] = NoCall /\ LookUp(h, u, DefaultUser, NoGift)

CreateUser(h, u) ==
    /\ callOf[h] = NoCall
    /\ ~Known(u)
    /\ LookUp(h, u, DefaultUser, NoGift)

GrantPermission(h, u, p) ==
    /\ callOf[h] = NoCall
    /\ LookUp(h, u, DefaultUser, [NoGift EXCEPT !.permissions = {p}])

AssignRole(h, u, r) == LookUp(h, u, UserWithoutRole, [NoGift EXCEPT !.roles = {r}])

RevokePermission(u, p) ==
    /\ Known(u)
    /\ users' = [users EXCEPT ![u].permissions = @ \ {p}]
    /\ granted' = [granted EXCEPT ![u].permissions = @ \ {p}]
    /\ UNCHANGED <<callOf, overwritten>>

RemoveRole(h, u, r) ==
    /\ users' = IF Known(u) THEN [users EXCEPT ![u].roles = @ \ {r}] ELSE users
    /\ granted' = [granted EXCEPT ![u].roles = @ \ {r}]
    /\ callOf' = [callOf EXCEPT ![h] = NoCall]
    /\ UNCHANGED overwritten

SetActive(u, active) ==
    /\ Known(u)
    /\ users' = [users EXCEPT ![u].active = active]
    /\ UNCHANGED <<callOf, granted, overwritten>>

-----------------------------------------------------------------------------
(* The requests of internal/webserver/server.go, where users have roles.  A      *)
(* request without a user id is that of a subject like the others, "anonymous".  *)

\* A page, refused unless the caller may view the desktop.
PageRequest(h, caller) == CheckPermission(h, caller)

\* What the handlers that concern one user, or all of them, begin with: nobody is asked
\* about themselves.
MayManage(caller) == Allowed(caller, "user:manage")

UsersRequest(h, caller) == CheckPermission(h, caller)

UserInfoRequest(h, caller, u) == caller # u /\ CheckPermission(h, caller)

UserPermissionsRequest(h, caller, u) == caller # u /\ CheckPermission(h, caller)

\* POST adds the role, DELETE takes it, also from the caller, and also if the caller
\* has lost the right by then; a refusal leaves the caller as an account.
UserRolesRequest(h, caller, u, r) ==
    \/ /\ callOf[h] = NoCall
       /\ MayManage(caller)
       /\ \E step \in {"assign", "remove"} :
              callOf' = [callOf EXCEPT ![h] = [step |-> step, user |-> u, role |-> r]]
       /\ UNCHANGED <<users, granted, overwritten>>
    \/ ~MayManage(caller) /\ CheckPermission(h, caller)

ChangeRole(h) ==
    LET c == callOf[h] IN
    /\ c # NoCall
    /\ \/ c.step = "assign" /\ AssignRole(h, c.user, c.role)
       \/ c.step = "remove" /\ RemoveRole(h, c.user, c.role)

\* Asks about anybody, who has an account from then on.
PermissionCheckRequest(h, u) == CheckPermission(h, u)

AuthorizerRequest(h, caller, u) ==
    \/ PageRequest(h, caller) \/ UsersRequest(h, caller) \/ PermissionCheckRequest(h, u)
    \/ UserInfoRequest(h, caller, u) \/ UserPermissionsRequest(h, caller, u)
    \/ \E r \in Assignable : UserRolesRequest(h, caller, u, r)

\* Roles are changed by requests only; the rest of the authorizer is called directly.
AuthorizerNext ==
    \/ \E h \in Handlers :
           \/ \E caller, u \in Subjects : AuthorizerRequest(h, caller, u)
           \/ \E u \in Subjects : CreateUser(h, u)
           \/ \E u \in Subjects, p \in Grantable : GrantPermission(h, u, p)
           \/ ChangeRole(h) \/ Store(h) \/ Give(h)
    \/ \E u \in Subjects, p \in Grantable : RevokePermission(u, p)
    \/ \E u \in Subjects, active \in BOOLEAN : SetActive(u, active)

AuthorizerSpec == AuthorizerInit /\ [][AuthorizerNext]_authorizerVars

-----------------------------------------------------------------------------
(* Properties.                                                             *)

\* A role or a permission that was given, and that nobody has taken since, is still
\* there, unless a call that had not found the user stored a fresh account over the
\* one another call had made meanwhile: the only way in which a call about a user,
\* a mere check of a permission included, undoes another's.
GrantsStay ==
    \A u \in Subjects \ overwritten :
        granted[u] # NoGift =>
            /\ Known(u)
            /\ granted[u].roles \subseteq users[u].roles
            /\ granted[u].permissions \subseteq users[u].permissions

=============================================================================
