--------------------------- MODULE AuthSessions ---------------------------
(***************************************************************************)
(* The session table of internal/webserver/auth/session.go:                *)
(* InMemorySessionManager with its list of sessions per user.              *)
(*                                                                         *)
(* Every operation holds sm.mutex from its first to its last line.  Those  *)
(* that revoke one session are one step; RevokeUserSessions and            *)
(* CleanupExpiredSessions, which revoke many, take one step per session,   *)
(* and `work` is what the one that holds the mutex has still to do.        *)
(*                                                                         *)
(* A list is a Go slice: revokeSessionLocked shifts the elements behind    *)
(* the one it takes out within the array, and RevokeUserSessions reads     *)
(* that array while it is shifted.                                         *)
(***************************************************************************)
EXTENDS Naturals, Sequences

CONSTANTS
    Users,        \* user ids
    MaxSessions,  \* config.MaxSessions
    SessionTTL,   \* config.SessionTTL, in ticks
    MaxCreated,   \* bound on the sessions created
    MaxNow        \* bound on the clock

ASSUME SessionConfigAssumption == MaxSessions \in Nat /\ SessionTTL \in Nat /\ Users # {}
ASSUME SessionBoundsAssumption == MaxCreated \in Nat /\ MaxNow \in Nat

VARIABLES
    created,       \* sessions created so far; they are numbered, the ids are unique
    sessions,      \* the keys of sm.sessions
    owner,         \* UserID of each session
    expiresAt,     \* ExpiresAt of each session
    userSessions,  \* sm.userSessions; the empty list stands for no entry
    work,          \* what the holder of sm.mutex has still to revoke
    now,           \* the clock
    stopped        \* stopCh is closed

sessionTable == <<created, sessions, owner, expiresAt, userSessions>>
authVars     == <<sessionTable, work, now, stopped>>

SessionIds == 1 .. MaxCreated

\* Nobody holds the mutex.
Free == [of |-> "nobody"]

\* The loop of RevokeUserSessions: its slice, and the index it is at.
UserLoop == [of: {"user"}, user: Users, array: Seq(SessionIds), next: Nat]

\* The loop of CleanupExpiredSessions over the ids it collected.
ExpiredLoop == [of: {"expired"}, ids: SUBSET SessionIds]

AuthTypeOK ==
    /\ created \in 0 .. MaxCreated
    /\ sessions \subseteq 1 .. created
    /\ owner \in [SessionIds -> Users]
    /\ expiresAt \in [SessionIds -> Nat]
    /\ userSessions \in [Users -> Seq(SessionIds)]
    /\ work \in {Free} \cup UserLoop \cup ExpiredLoop
    /\ now \in 0 .. MaxNow
    /\ stopped \in BOOLEAN

AuthInit ==
    /\ created = 0
    /\ sessions = {}
    /\ owner = [id \in SessionIds |-> CHOOSE u \in Users : TRUE]
    /\ expiresAt = [id \in SessionIds |-> 0]
    /\ userSessions = [u \in Users |-> <<>>]
    /\ work = Free
    /\ now = 0
    /\ stopped = FALSE

-----------------------------------------------------------------------------
\* time.Now().After(session.ExpiresAt)
Expired(id) == now > expiresAt[id]

\* GetSession returns the session.
Valid(id) == id \in sessions /\ ~Expired(id)

\* append(list[:i], list[i+1:]...): the elements behind i move forward.
Without(list, i) == [k \in 1 .. Len(list) - 1 |-> IF k < i THEN list[k] ELSE list[k + 1]]

\* Mutant: the table forgets the session, the list of its user does not.
ListKept(id) == userSessions

\* The lists once the first entry of id is out of the list of its user.
ListsWithout(id) ==
    LET u    == owner[id]
        list == userSessions[u]
    IN  IF \E i \in 1 .. Len(list) : list[i] = id
        THEN LET i == CHOOSE j \in 1 .. Len(list) : list[j] = id
             IN  [userSessions EXCEPT ![u] = Without(list, i)]
        ELSE userSessions

\* revokeSessionLocked, for a session that is in the table.
RevokeSessionLocked(id) ==
    /\ sessions' = sessions \ {id}
    /\ userSessions' = ListsWithout(id)
    /\ UNCHANGED <<created, owner, expiresAt>>

-----------------------------------------------------------------------------
(* The operations.                                                         *)

\* The user has a list, and it is full.
MustEvict(u) == Len(userSessions[u]) >= MaxSessions /\ userSessions[u] # <<>>

\* userSessions[0]
OldestOf(u) == userSessions[u][1]

CreateSession(u) ==
    /\ work = Free
    /\ created < MaxCreated
    /\ created' = created + 1
    /\ LET id    == created + 1
           lists == IF MustEvict(u) THEN ListsWithout(OldestOf(u)) ELSE userSessions
           kept  == IF MustEvict(u) THEN sessions \ {OldestOf(u)} ELSE sessions
       IN  /\ sessions' = kept \cup {id}
           /\ userSessions' = [lists EXCEPT ![u] = Append(@, id)]
           /\ owner' = [owner EXCEPT ![id] = u]
           /\ expiresAt' = [expiresAt EXCEPT ![id] = now + SessionTTL]
    /\ UNCHANGED <<work, now, stopped>>

\* An expired session that was not cleaned up yet is extended like any other.
UpdateLastAccess(id) ==
    /\ work = Free
    /\ id \in sessions
    /\ expiresAt' = [expiresAt EXCEPT ![id] = now + SessionTTL]
    /\ UNCHANGED <<created, sessions, owner, userSessions, work, now, stopped>>

RevokeSession(id) ==
    /\ work = Free
    /\ id \in sessions
    /\ RevokeSessionLocked(id)
    /\ UNCHANGED <<work, now, stopped>>

\* The loop ranges over the slice that is in the map now.
RevokeUserSessions(u) ==
    /\ work = Free
    /\ userSessions[u] # <<>>
    /\ work' = [of |-> "user", user |-> u, array |-> userSessions[u], next |-> 1]
    /\ UNCHANGED <<sessionTable, now, stopped>>

\* The array once the list of its user shrank to its first elements.
Shifted(array, list) ==
    [k \in 1 .. Len(array) |-> IF k <= Len(list) THEN list[k] ELSE array[k]]

\* One turn of that loop: the id is read from the array as it is by now.
RevokeNext ==
    /\ work.of = "user"
    /\ work.next <= Len(work.array)
    /\ LET id == work.array[work.next] IN
       IF id \in sessions
       THEN /\ RevokeSessionLocked(id)
            /\ work' = [work EXCEPT !.next = @ + 1,
                                    !.array = Shifted(@, userSessions'[work.user])]
       ELSE /\ work' = [work EXCEPT !.next = @ + 1]
            /\ UNCHANGED sessionTable
    /\ UNCHANGED <<now, stopped>>

RevokeUserSessionsReturns ==
    /\ work.of = "user"
    /\ work.next > Len(work.array)
    /\ work' = Free
    /\ UNCHANGED <<sessionTable, now, stopped>>

\* A tick of cleanupRoutine; one that finds nothing expired changes nothing.
CleanupExpiredSessions ==
    /\ ~stopped
    /\ work = Free
    /\ \E id \in sessions : Expired(id)
    /\ work' = [of |-> "expired", ids |-> {id \in sessions : Expired(id)}]
    /\ UNCHANGED <<sessionTable, now, stopped>>

\* Mutant: the loop goes over the ids and revokes none.
CleanupSkips ==
    /\ work.of = "expired"
    /\ \E id \in work.ids : work' = [work EXCEPT !.ids = @ \ {id}]
    /\ UNCHANGED <<sessionTable, now, stopped>>

CleanupNext ==
    /\ work.of = "expired"
    /\ \E id \in work.ids :
          /\ RevokeSessionLocked(id)
          /\ work' = [work EXCEPT !.ids = @ \ {id}]
    /\ UNCHANGED <<now, stopped>>

CleanupReturns ==
    /\ work.of = "expired"
    /\ work.ids = {}
    /\ work' = Free
    /\ UNCHANGED <<sessionTable, now, stopped>>

\* Stop ends cleanupRoutine; the table can still be used.
StopSessions ==
    /\ ~stopped
    /\ stopped' = TRUE
    /\ UNCHANGED <<sessionTable, work, now>>

Tick ==
    /\ now < MaxNow
    /\ now' = now + 1
    /\ UNCHANGED <<sessionTable, work, stopped>>

-----------------------------------------------------------------------------
\* What the holder of the mutex goes on with.
HolderStep == RevokeNext \/ RevokeUserSessionsReturns \/ CleanupNext \/ CleanupReturns

AuthNext ==
    \/ \E u \in Users : CreateSession(u) \/ RevokeUserSessions(u)
    \/ \E id \in SessionIds : UpdateLastAccess(id) \/ RevokeSession(id)
    \/ CleanupExpiredSessions \/ HolderStep
    \/ StopSessions \/ Tick

\* The holder of the mutex runs on, and the ticker of cleanupRoutine ticks.
AuthFairness == WF_authVars(HolderStep) /\ SF_authVars(CleanupExpiredSessions)

AuthSpec == AuthInit /\ [][AuthNext]_authVars /\ AuthFairness

-----------------------------------------------------------------------------
(* Properties.                                                             *)

\* The lists and the table say the same at every moment, also between two turns
\* of a loop: each session is once in the list of its user, and nowhere else.
ListsMatchTable ==
    /\ \A u \in Users : \A i \in 1 .. Len(userSessions[u]) :
          /\ userSessions[u][i] \in sessions
          /\ owner[userSessions[u][i]] = u
    /\ \A id \in sessions : \E i \in 1 .. Len(userSessions[owner[id]]) :
          userSessions[owner[id]][i] = id
    /\ \A u \in Users : \A i, j \in 1 .. Len(userSessions[u]) :
          userSessions[u][i] = userSessions[u][j] => i = j

\* An expired session does not stay: it is removed, or extended by an access.
ExpiredGoes ==
    \A id \in SessionIds :
        id \in sessions /\ Expired(id) ~> ~(id \in sessions /\ Expired(id)) \/ stopped

\* The comment of RevokeUserSessions says it revokes all sessions of the user
\* (session.go, lines 82 and 234).
RevokeAllRevokes ==
    [][RevokeUserSessionsReturns => \A id \in sessions : owner[id] # work.user]_authVars

=============================================================================
