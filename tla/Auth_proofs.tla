------------------------------ MODULE Auth_proofs -----------------------------
(***************************************************************************)
(* Proofs about internal/webrtc's three guards of the signaling: the       *)
(* sessions, the access and refresh tokens, and the users' permissions;    *)
(* for any number of users, callers and tokens, and whatever the           *)
(* lifetimes.                                                              *)
(*                                                                         *)
(* The sessions: AuthInv. ListsMatchTable is inductive with the types      *)
(* alone; what takes the work is that the code takes an identifier out of  *)
(* a list by its place, and that the loop that revokes all of a user's     *)
(* sessions walks over a list it is shifting.                              *)
(*                                                                         *)
(* The tokens: RefreshedOnce is not inductive, since it says nothing of a  *)
(* token that is still to be made. Used says what keeps it: whoever is     *)
(* past the lookup of t, or was generated for t, is alone in that unless t *)
(* is shared, and a t that was deleted was made before and is out of the   *)
(* table, where no token comes back to.                                    *)
(*                                                                         *)
(* The permissions: GrantsStay, and that whoever is to give something to a *)
(* fresh account has stored it.                                            *)
(***************************************************************************)
EXTENDS AuthSessions, TokenManager, Authorization, SequenceTheorems, FiniteSetTheorems,
        TLAPS

-----------------------------------------------------------------------------
(* The session table: AuthSessions.                                        *)

\* A function from 1 .. n is a sequence of that length.
LEMMA SequenceOfLength ==
    ASSUME NEW S, NEW n \in Nat, NEW f \in [1 .. n -> S]
    PROVE  f \in Seq(S) /\ Len(f) = n
<1>1. f \in Seq(S)
  OBVIOUS
<1>2. DOMAIN f = 1 .. Len(f) /\ Len(f) \in Nat /\ DOMAIN f = 1 .. n
  BY <1>1
<1> QED  BY <1>1, <1>2

\* Without takes one place out and leaves the order.
LEMMA WithoutOne ==
    ASSUME NEW S, NEW list \in Seq(S), NEW i \in 1 .. Len(list)
    PROVE  /\ Without(list, i) \in Seq(S)
           /\ Len(Without(list, i)) = Len(list) - 1
           /\ \A k \in 1 .. Len(list) - 1 :
                 Without(list, i)[k] = IF k < i THEN list[k] ELSE list[k + 1]
<1> DEFINE n == Len(list) - 1
           r == Without(list, i)
<1>1. n \in Nat /\ Len(list) \in Nat
  OBVIOUS
<1>2. r = [k \in 1 .. n |-> IF k < i THEN list[k] ELSE list[k + 1]]
  BY DEF Without
<1>3. \A k \in 1 .. n : (IF k < i THEN list[k] ELSE list[k + 1]) \in S
  <2> SUFFICES ASSUME NEW k \in 1 .. n PROVE list[k] \in S /\ list[k + 1] \in S
    OBVIOUS
  <2>1. k \in 1 .. Len(list) /\ k + 1 \in 1 .. Len(list)
    BY <1>1
  <2> QED  BY <2>1
<1>4. r \in [1 .. n -> S]
  BY <1>2, <1>3
<1>5. r \in Seq(S) /\ Len(r) = n
  <2> HIDE DEF r, n
  <2> QED  BY <1>1, <1>4, SequenceOfLength
<1> QED  BY <1>2, <1>5

\* Only sessions that were created are in the table.
LEMMA TableIsMade ==
    ASSUME AuthTypeOK
    PROVE  /\ sessions \subseteq SessionIds
           /\ created \in Nat /\ created + 1 \notin sessions
           /\ created < MaxCreated => created + 1 \in SessionIds
<1>1. MaxCreated \in Nat /\ created \in 0 .. MaxCreated
  BY SessionBoundsAssumption DEF AuthTypeOK
<1>2. sessions \subseteq 1 .. created
  BY DEF AuthTypeOK
<1>3. \A s \in sessions : s \in 1 .. MaxCreated
  BY <1>1, <1>2
<1>4. created + 1 \notin 1 .. created
  BY <1>1
<1> QED  BY <1>1, <1>2, <1>3, <1>4 DEF SessionIds

\* ListsMatchTable, of any lists and any table.
Match(lists, table) ==
    /\ \A u \in Users : \A i \in 1 .. Len(lists[u]) :
          lists[u][i] \in table /\ owner[lists[u][i]] = u
    /\ \A id \in table : \E i \in 1 .. Len(lists[owner[id]]) : lists[owner[id]][i] = id
    /\ \A u \in Users : \A i, j \in 1 .. Len(lists[u]) : lists[u][i] = lists[u][j] => i = j

LEMMA MatchIsListsMatchTable == ListsMatchTable <=> Match(userSessions, sessions)
BY DEF ListsMatchTable, Match

\* Revoking one session keeps lists and table alike, whether it is still there or not.
LEMMA LockedKeepsMatch ==
    ASSUME AuthTypeOK, ListsMatchTable, NEW id \in SessionIds
    PROVE  /\ ListsWithout(id) \in [Users -> Seq(SessionIds)]
           /\ Match(ListsWithout(id), sessions \ {id})
<1> DEFINE u == owner[id]
           list == userSessions[u]
<1>1. /\ userSessions \in [Users -> Seq(SessionIds)]
      /\ u \in Users /\ list \in Seq(SessionIds) /\ Len(list) \in Nat
  BY DEF AuthTypeOK
<1>2. CASE ~ \E i \in 1 .. Len(list) : list[i] = id
  <2>1. ListsWithout(id) = userSessions
    BY <1>2 DEF ListsWithout
  <2>2. id \notin sessions
    BY <1>2 DEF ListsMatchTable
  <2>3. sessions \ {id} = sessions
    BY <2>2
  <2> QED  BY <1>1, <2>1, <2>3, MatchIsListsMatchTable
<1>3. CASE \E i \in 1 .. Len(list) : list[i] = id
  <2> DEFINE i == CHOOSE j \in 1 .. Len(list) : list[j] = id
             r == Without(list, i)
             lists == [userSessions EXCEPT ![u] = r]
  <2>1. i \in 1 .. Len(list) /\ list[i] = id
    BY <1>3
  <2>2. ListsWithout(id) = lists
    BY <1>3 DEF ListsWithout
  <2> HIDE DEF i, r
  <2>3. /\ r \in Seq(SessionIds) /\ Len(r) = Len(list) - 1
        /\ \A k \in 1 .. Len(r) : r[k] = IF k < i THEN list[k] ELSE list[k + 1]
    <3>1. list \in Seq(SessionIds)
      BY <1>1
    <3> HIDE DEF list
    <3> QED  BY <2>1, <3>1, WithoutOne DEF r
  <2>4. lists \in [Users -> Seq(SessionIds)]
    BY <1>1, <2>3
  <2>5. /\ lists[u] = r
        /\ \A v \in Users \ {u} : lists[v] = userSessions[v]
    BY <1>1
  <2> HIDE DEF lists, u, list
  \* Where each entry of r was.
  <2>6. ASSUME NEW k \in 1 .. Len(r)
        PROVE  \E l \in 1 .. Len(list) : l # i /\ r[k] = list[l] /\ l = IF k < i THEN k ELSE k + 1
    <3>1. CASE k < i
      BY <1>1, <2>1, <2>3, <3>1
    <3>2. CASE ~(k < i)
      <4>1. k + 1 \in 1 .. Len(list) /\ k + 1 # i
        BY <1>1, <2>1, <2>3, <3>2
      <4> QED  BY <2>3, <3>2, <4>1
    <3> QED  BY <3>1, <3>2
  <2>7. /\ \A j \in 1 .. Len(list) : list[j] \in sessions /\ owner[list[j]] = u
        /\ \A j, l \in 1 .. Len(list) : list[j] = list[l] => j = l
    BY <1>1 DEF ListsMatchTable, list
  <2>8. ASSUME NEW v \in Users, NEW k \in 1 .. Len(lists[v])
        PROVE  lists[v][k] \in sessions \ {id} /\ owner[lists[v][k]] = v
    <3>1. CASE v = u
      BY <2>1, <2>5, <2>6, <2>7, <2>8, <3>1
    <3>2. CASE v # u
      <4>1. lists[v][k] \in sessions /\ owner[lists[v][k]] = v
        BY <2>5, <2>8, <3>2 DEF ListsMatchTable
      <4>2. owner[id] = u
        BY DEF u
      <4> QED  BY <3>2, <4>1, <4>2
    <3> QED  BY <3>1, <3>2
  <2>9. ASSUME NEW s \in sessions \ {id}
        PROVE  \E k \in 1 .. Len(lists[owner[s]]) : lists[owner[s]][k] = s
    <3>0. owner[s] \in Users
      BY TableIsMade DEF AuthTypeOK
    <3>1. PICK j \in 1 .. Len(userSessions[owner[s]]) : userSessions[owner[s]][j] = s
      BY DEF ListsMatchTable
    <3>2. CASE owner[s] # u
      BY <2>5, <3>0, <3>1, <3>2
    <3>3. CASE owner[s] = u
      <4>1. j \in 1 .. Len(list) /\ list[j] = s /\ j # i
        BY <2>1, <2>9, <3>1, <3>3 DEF list
      <4>2. CASE j < i
        <5>1. j \in 1 .. Len(r) /\ r[j] = s
          BY <1>1, <2>1, <2>3, <4>1, <4>2
        <5> QED  BY <2>5, <3>3, <5>1
      <4>3. CASE ~(j < i)
        <5>1. j - 1 \in 1 .. Len(r) /\ ~(j - 1 < i) /\ (j - 1) + 1 = j
          BY <1>1, <2>1, <2>3, <4>1, <4>3
        <5>2. r[j - 1] = s
          BY <2>3, <4>1, <5>1
        <5> QED  BY <2>5, <3>3, <5>1, <5>2
      <4> QED  BY <4>2, <4>3
    <3> QED  BY <3>2, <3>3
  <2>10. ASSUME NEW v \in Users, NEW k \in 1 .. Len(lists[v]), NEW m \in 1 .. Len(lists[v]),
                lists[v][k] = lists[v][m]
         PROVE  k = m
    <3>1. CASE v # u
      BY <2>5, <2>10, <3>1 DEF ListsMatchTable
    <3>2. CASE v = u
      <4>1. k \in 1 .. Len(r) /\ m \in 1 .. Len(r) /\ r[k] = r[m]
        BY <2>5, <2>10, <3>2
      <4>2. (IF k < i THEN k ELSE k + 1) = (IF m < i THEN m ELSE m + 1)
        BY <2>6, <2>7, <4>1
      <4> QED  BY <2>1, <4>1, <4>2
    <3> QED  BY <3>1, <3>2
  <2> QED  BY <2>2, <2>4, <2>8, <2>9, <2>10 DEF Match
<1> QED  BY <1>2, <1>3

\* What a shrunken slice leaves in its array are ids still.
LEMMA ShiftedIsIds ==
    ASSUME NEW array \in Seq(SessionIds), NEW list \in Seq(SessionIds)
    PROVE  Shifted(array, list) \in Seq(SessionIds)
<1>1. \A k \in 1 .. Len(array) : (IF k <= Len(list) THEN list[k] ELSE array[k]) \in SessionIds
  OBVIOUS
<1>2. Shifted(array, list) \in [1 .. Len(array) -> SessionIds] /\ Len(array) \in Nat
  BY <1>1 DEF Shifted
<1> QED  BY <1>2, SequenceOfLength

AuthInv == AuthTypeOK /\ ListsMatchTable

LEMMA AuthStarts == AuthInit => AuthInv
<1> SUFFICES ASSUME AuthInit PROVE AuthInv
  OBVIOUS
<1>1. (CHOOSE u \in Users : TRUE) \in Users
  BY SessionConfigAssumption
<1>2. owner \in [SessionIds -> Users] /\ expiresAt \in [SessionIds -> Nat]
  BY <1>1 DEF AuthInit
<1>3. userSessions \in [Users -> Seq(SessionIds)] /\ \A u \in Users : userSessions[u] = <<>>
  BY DEF AuthInit
<1>4. created \in 0 .. MaxCreated /\ now \in 0 .. MaxNow
  BY SessionBoundsAssumption DEF AuthInit
<1>5. AuthTypeOK
  <2>1. sessions \subseteq 1 .. created /\ work \in {Free} \cup UserLoop \cup ExpiredLoop
        /\ stopped \in BOOLEAN
    BY DEF AuthInit
  <2>2. userSessions \in [Users -> Seq(SessionIds)]
    BY <1>3
  <2> QED  BY <1>2, <1>4, <2>1, <2>2 DEF AuthTypeOK
<1>6. \A u \in Users : Len(userSessions[u]) = 0
  <2>1. Len(<<>>) = 0
    OBVIOUS
  <2> QED  BY <1>3, <2>1, Zenon
<1>7. ListsMatchTable
  BY <1>6 DEF AuthInit, ListsMatchTable
<1> QED  BY <1>5, <1>7 DEF AuthInv

\* A step of a loop and a call that revokes one session: what they do to the table.
LEMMA RevokeKeepsTable ==
    ASSUME AuthInv, NEW id \in SessionIds, RevokeSessionLocked(id)
    PROVE  /\ ListsMatchTable'
           /\ sessions' \subseteq 1 .. created'
           /\ created' \in 0 .. MaxCreated
           /\ owner' \in [SessionIds -> Users] /\ expiresAt' \in [SessionIds -> Nat]
           /\ userSessions' \in [Users -> Seq(SessionIds)]
<1>1. /\ sessions' = sessions \ {id} /\ userSessions' = ListsWithout(id)
      /\ UNCHANGED <<created, owner, expiresAt>>
  BY DEF RevokeSessionLocked
<1>2. userSessions' \in [Users -> Seq(SessionIds)] /\ Match(userSessions', sessions')
  BY <1>1, LockedKeepsMatch DEF AuthInv
<1>3. ListsMatchTable'
  BY <1>1, <1>2 DEF Match, ListsMatchTable
<1> QED  BY <1>1, <1>2, <1>3 DEF AuthInv, AuthTypeOK

LEMMA CreateKeepsTable ==
    ASSUME AuthInv, NEW u \in Users, CreateSession(u)
    PROVE  AuthInv'
<1> DEFINE id    == created + 1
           lists == IF MustEvict(u) THEN ListsWithout(OldestOf(u)) ELSE userSessions
           kept  == IF MustEvict(u) THEN sessions \ {OldestOf(u)} ELSE sessions
<1>0. AuthTypeOK /\ ListsMatchTable
  BY DEF AuthInv
<1>1. /\ created < MaxCreated /\ created' = id
      /\ sessions' = kept \cup {id}
      /\ userSessions' = [lists EXCEPT ![u] = Append(lists[u], id)]
      /\ owner' = [owner EXCEPT ![id] = u]
      /\ expiresAt' = [expiresAt EXCEPT ![id] = now + SessionTTL]
      /\ UNCHANGED <<work, now, stopped>>
  BY DEF CreateSession
<1>2. id \in SessionIds /\ id \notin sessions /\ sessions \subseteq SessionIds /\ created \in Nat
  BY <1>0, <1>1, TableIsMade
<1>3. lists \in [Users -> Seq(SessionIds)] /\ Match(lists, kept) /\ kept \subseteq sessions
  <2>1. CASE MustEvict(u)
    <3>1. userSessions[u] # <<>> /\ userSessions[u] \in Seq(SessionIds)
      BY <1>0, <2>1 DEF MustEvict, AuthTypeOK
    <3>2. OldestOf(u) \in SessionIds
      BY <3>1 DEF OldestOf
    <3> QED  BY <1>0, <2>1, <3>2, LockedKeepsMatch
  <2>2. CASE ~MustEvict(u)
    BY <1>0, <2>2, MatchIsListsMatchTable DEF AuthTypeOK
  <2> QED  BY <2>1, <2>2
<1> HIDE DEF id, lists, kept
<1>4. AuthTypeOK'
  <2>1. created' \in 0 .. MaxCreated /\ sessions' \subseteq 1 .. created'
    <3>1. MaxCreated \in Nat /\ sessions \subseteq 1 .. created
      BY <1>0, SessionBoundsAssumption DEF AuthTypeOK
    <3>2. created' \in 0 .. MaxCreated
      BY <1>1, <1>2, <3>1 DEF id
    <3>3. 1 .. created \subseteq 1 .. created' /\ id \in 1 .. created'
      BY <1>1, <1>2 DEF id
    <3> QED  BY <1>1, <1>3, <3>1, <3>2, <3>3
  <2>2. userSessions' \in [Users -> Seq(SessionIds)]
    BY <1>1, <1>2, <1>3
  <2>3. owner' \in [SessionIds -> Users]
    BY <1>0, <1>1 DEF AuthTypeOK
  <2>4. expiresAt' \in [SessionIds -> Nat]
    <3>1. now + SessionTTL \in Nat
      BY <1>0, SessionConfigAssumption, SessionBoundsAssumption DEF AuthTypeOK
    <3> QED  BY <1>0, <1>1, <3>1 DEF AuthTypeOK
  <2> QED  BY <1>0, <1>1, <2>1, <2>2, <2>3, <2>4 DEF AuthTypeOK
<1>5. ListsMatchTable'
  <2>1. /\ lists[u] \in Seq(SessionIds) /\ Len(lists[u]) \in Nat
        /\ Len(userSessions'[u]) = Len(lists[u]) + 1
        /\ userSessions'[u][Len(lists[u]) + 1] = id
        /\ \A i \in 1 .. Len(lists[u]) : userSessions'[u][i] = lists[u][i]
        /\ \A v \in Users \ {u} : userSessions'[v] = lists[v]
    <3>1. lists[u] \in Seq(SessionIds) /\ userSessions'[u] = Append(lists[u], id)
          /\ \A v \in Users \ {u} : userSessions'[v] = lists[v]
      BY <1>1, <1>3
    <3> QED  BY <1>2, <3>1
  <2>2. owner'[id] = u /\ \A s \in sessions : owner'[s] = owner[s]
    BY <1>0, <1>1, <1>2 DEF AuthTypeOK
  <2>3. \A v \in Users : \A i \in 1 .. Len(lists[v]) :
           lists[v][i] \in kept /\ lists[v][i] # id /\ owner'[lists[v][i]] = v
    BY <1>2, <1>3, <2>2 DEF Match
  <2>4. ASSUME NEW v \in Users, NEW i \in 1 .. Len(userSessions'[v])
        PROVE  userSessions'[v][i] \in sessions' /\ owner'[userSessions'[v][i]] = v
    <3>1. CASE v = u /\ i = Len(lists[u]) + 1
      BY <1>1, <2>1, <2>2, <3>1
    <3>2. CASE ~(v = u /\ i = Len(lists[u]) + 1)
      <4>1. i \in 1 .. Len(lists[v]) /\ userSessions'[v][i] = lists[v][i]
        BY <2>1, <2>4, <3>2
      <4> QED  BY <1>1, <2>3, <4>1
    <3> QED  BY <3>1, <3>2
  <2>5. ASSUME NEW s \in sessions'
        PROVE  \E i \in 1 .. Len(userSessions'[owner'[s]]) : userSessions'[owner'[s]][i] = s
    <3>1. CASE s = id
      <4>1. Len(lists[u]) + 1 \in 1 .. Len(userSessions'[u])
        BY <2>1
      <4> QED  BY <2>1, <2>2, <3>1, <4>1
    <3>2. CASE s # id
      <4>1. s \in kept /\ owner'[s] = owner[s] /\ owner[s] \in Users
        BY <1>0, <1>1, <1>2, <1>3, <2>2, <3>2 DEF AuthTypeOK
      <4>2. PICK i \in 1 .. Len(lists[owner[s]]) : lists[owner[s]][i] = s
        BY <1>3, <4>1 DEF Match
      <4>3. i \in 1 .. Len(userSessions'[owner[s]]) /\ userSessions'[owner[s]][i] = lists[owner[s]][i]
        BY <2>1, <4>1
      <4> QED  BY <4>1, <4>2, <4>3
    <3> QED  BY <3>1, <3>2
  <2>6. ASSUME NEW v \in Users, NEW i \in 1 .. Len(userSessions'[v]),
               NEW j \in 1 .. Len(userSessions'[v]), userSessions'[v][i] = userSessions'[v][j]
        PROVE  i = j
    <3>1. CASE v # u
      BY <1>3, <2>1, <2>6, <3>1 DEF Match
    <3>2. CASE v = u
      <4>1. CASE i \in 1 .. Len(lists[u]) /\ j \in 1 .. Len(lists[u])
        BY <1>3, <2>1, <2>6, <3>2, <4>1 DEF Match
      <4>2. CASE i = Len(lists[u]) + 1 \/ j = Len(lists[u]) + 1
        <5>1. ASSUME NEW k \in 1 .. Len(lists[u]) PROVE userSessions'[u][k] # id
          <6>1. lists[u][k] # id
            BY <2>3
          <6>2. userSessions'[u][k] = lists[u][k]
            BY <2>1
          <6> QED  BY <6>1, <6>2
        <5>2. i \in 1 .. Len(lists[u]) + 1 /\ j \in 1 .. Len(lists[u]) + 1
          BY <2>1, <3>2
        <5>3. \A k \in 1 .. Len(lists[u]) + 1 :
                 userSessions'[u][k] = id => k = Len(lists[u]) + 1
          BY <2>1, <5>1
        <5>4. userSessions'[u][i] = id /\ userSessions'[u][j] = id
          BY <2>1, <2>6, <3>2, <4>2
        <5> QED  BY <5>2, <5>3, <5>4
      <4> QED  BY <2>1, <3>2, <4>1, <4>2
    <3> QED  BY <3>1, <3>2
  <2> QED  BY <2>4, <2>5, <2>6 DEF ListsMatchTable
<1> QED  BY <1>4, <1>5 DEF AuthInv

LEMMA AuthInductive ==
    ASSUME AuthInv, [AuthNext]_authVars
    PROVE  AuthInv'
<1>0. AuthTypeOK /\ ListsMatchTable
  BY DEF AuthInv
<1>k. work.of = "user" => work \in UserLoop
  BY <1>0 DEF AuthTypeOK, Free, UserLoop, ExpiredLoop
<1>l. work.of = "expired" => work \in ExpiredLoop
  BY <1>0 DEF AuthTypeOK, Free, UserLoop, ExpiredLoop
\* A step that does not touch the table.
<1>f. ASSUME UNCHANGED <<created, sessions, owner, userSessions>>,
             expiresAt' \in [SessionIds -> Nat],
             work' \in {Free} \cup UserLoop \cup ExpiredLoop,
             now' \in 0 .. MaxNow, stopped' \in BOOLEAN
      PROVE  AuthInv'
  BY <1>0, <1>f DEF AuthInv, AuthTypeOK, ListsMatchTable
<1>1. CASE UNCHANGED authVars
  BY <1>0, <1>1, <1>f DEF authVars, sessionTable, AuthTypeOK
<1>2. ASSUME NEW u \in Users, CreateSession(u) PROVE AuthInv'
  BY <1>2, CreateKeepsTable
<1>3. ASSUME NEW u \in Users, RevokeUserSessions(u) PROVE AuthInv'
  <2>1. work' \in UserLoop
    BY <1>0, <1>3 DEF RevokeUserSessions, UserLoop, AuthTypeOK
  <2> QED  BY <1>0, <1>3, <1>f, <2>1 DEF RevokeUserSessions, sessionTable, AuthTypeOK
<1>4. ASSUME NEW id \in SessionIds, UpdateLastAccess(id) PROVE AuthInv'
  <2>1. now + SessionTTL \in Nat
    BY <1>0, SessionConfigAssumption, SessionBoundsAssumption DEF AuthTypeOK
  <2>2. expiresAt' \in [SessionIds -> Nat]
    BY <1>0, <1>4, <2>1 DEF UpdateLastAccess, AuthTypeOK
  <2> QED  BY <1>0, <1>4, <1>f, <2>2 DEF UpdateLastAccess, AuthTypeOK
<1>5. ASSUME NEW id \in SessionIds, RevokeSession(id) PROVE AuthInv'
  <2>1. RevokeSessionLocked(id) /\ UNCHANGED <<work, now, stopped>>
    BY <1>5 DEF RevokeSession
  <2> QED  BY <1>0, <2>1, RevokeKeepsTable DEF AuthInv, AuthTypeOK
<1>6. CASE CleanupExpiredSessions
  <2>1. work' \in ExpiredLoop
    BY <1>0, <1>6, TableIsMade DEF CleanupExpiredSessions, ExpiredLoop
  <2> QED  BY <1>0, <1>6, <1>f, <2>1 DEF CleanupExpiredSessions, sessionTable, AuthTypeOK
<1>7. CASE RevokeNext
  <2> DEFINE id == work.array[work.next]
  <2>1. /\ work \in UserLoop /\ work.user \in Users /\ work.array \in Seq(SessionIds)
        /\ work.next \in Nat /\ work.of = "user" /\ UNCHANGED <<now, stopped>>
    BY <1>k, <1>7 DEF RevokeNext, UserLoop
  <2>2. CASE id \in sessions
    <3>1. id \in SessionIds
      BY <1>0, <2>2, TableIsMade
    <3>2. /\ RevokeSessionLocked(id)
          /\ work' = [work EXCEPT !.next = work.next + 1,
                                  !.array = Shifted(work.array, userSessions'[work.user])]
      BY <1>7, <2>2 DEF RevokeNext
    <3>3. userSessions'[work.user] \in Seq(SessionIds)
      BY <2>1, <3>1, <3>2, RevokeKeepsTable
    <3>4. work' \in UserLoop
      <4>1. Shifted(work.array, userSessions'[work.user]) \in Seq(SessionIds)
            /\ work.next + 1 \in Nat
        BY <2>1, <3>3, ShiftedIsIds
      <4>2. \A a \in Seq(SessionIds), n \in Nat :
               [work EXCEPT !.next = n, !.array = a] \in UserLoop
        BY <2>1 DEF UserLoop
      <4> QED  BY <3>2, <4>1, <4>2
    <3> HIDE DEF id
    <3> QED  BY <1>0, <2>1, <3>1, <3>2, <3>4, RevokeKeepsTable DEF AuthInv, AuthTypeOK
  <2>3. CASE id \notin sessions
    <3>1. work' = [work EXCEPT !.next = work.next + 1] /\ UNCHANGED sessionTable
      BY <1>7, <2>3 DEF RevokeNext
    <3>2. work' \in UserLoop
      BY <2>1, <3>1 DEF UserLoop
    <3> QED  BY <1>0, <1>f, <2>1, <3>1, <3>2 DEF sessionTable, AuthTypeOK
  <2> QED  BY <2>2, <2>3
<1>8. CASE RevokeUserSessionsReturns \/ CleanupReturns
  BY <1>0, <1>8, <1>f DEF RevokeUserSessionsReturns, CleanupReturns, sessionTable, AuthTypeOK
<1>9. CASE CleanupNext
  <2>1. /\ work \in ExpiredLoop /\ work.ids \subseteq SessionIds /\ UNCHANGED <<now, stopped>>
    BY <1>l, <1>9 DEF CleanupNext, ExpiredLoop
  <2>2. PICK id \in work.ids : /\ RevokeSessionLocked(id)
                               /\ work' = [work EXCEPT !.ids = work.ids \ {id}]
    BY <1>9 DEF CleanupNext
  <2>3. id \in SessionIds /\ work' \in ExpiredLoop
    BY <2>1, <2>2 DEF ExpiredLoop
  <2> QED  BY <1>0, <2>1, <2>2, <2>3, RevokeKeepsTable DEF AuthInv, AuthTypeOK
<1>10. CASE StopSessions
  BY <1>0, <1>10, <1>f DEF StopSessions, sessionTable, AuthTypeOK
<1>11. CASE Tick
  <2>1. now' \in 0 .. MaxNow
    BY <1>0, <1>11, SessionBoundsAssumption DEF Tick, AuthTypeOK
  <2> QED  BY <1>0, <1>11, <1>f, <2>1 DEF Tick, sessionTable, AuthTypeOK
<1> QED
  BY <1>1, <1>2, <1>3, <1>4, <1>5, <1>6, <1>7, <1>8, <1>9, <1>10, <1>11
  DEF AuthNext, HolderStep

\* The sessions and the lists per user say the same at every moment, also in the middle
\* of a loop that revokes many (ListsMatchTable), for any number of users and sessions.
THEOREM ListsAlwaysMatch == AuthSpec => []ListsMatchTable
<1>1. AuthInv => ListsMatchTable
  BY DEF AuthInv
<1> QED  BY <1>1, AuthStarts, AuthInductive, PTL DEF AuthSpec

-----------------------------------------------------------------------------
(* The tokens: TokenManager.                                               *)

\* r has revoked t, and is to generate.
Holds(r, t) == refreshing[r] = [step |-> "generate", token |-> t]

\* r has found t, which nobody has taken from it since unless t is shared.
Takes(r, t) == Holds(r, t) \/ refreshing[r] = [step |-> "delete", token |-> t]

\* The tokens refreshed, or being refreshed, were made, and are gone; each that was not
\* shared has one taker.
UsedAreGone ==
    /\ \A r \in Refreshers : refreshing[r] # NotRefreshing => refreshing[r].token <= tokensMade
    /\ \A r \in Refreshers, t \in TokenIds : Holds(r, t) => t \notin tokenTable
    /\ \A a \in TokenIds : madeFrom[a] # 0 =>
           a <= tokensMade /\ madeFrom[a] <= tokensMade /\ madeFrom[a] \notin tokenTable

OneTaker ==
    \A t \in TokenIds \ shared :
        /\ \A r, q \in Refreshers : Takes(r, t) /\ Takes(q, t) => r = q
        /\ \A a, b \in TokenIds : madeFrom[a] = t /\ madeFrom[b] = t => a = b
        /\ \A r \in Refreshers, a \in TokenIds : Takes(r, t) => madeFrom[a] # t

Used == UsedAreGone /\ OneTaker

\* TokenTypeOK holds at first and is kept by every step.
LEMMA TokenTypeInductive ==
    /\ TokenInit => TokenTypeOK
    /\ TokenTypeOK /\ [TokenNext]_tokenVars => TokenTypeOK'
<1> USE TokenConfigAssumption, TokenBoundsAssumption
<1>1. ASSUME TokenInit PROVE TokenTypeOK
  BY <1>1 DEF TokenInit, TokenTypeOK, TokenIds, TokenTypes
<1>2. ASSUME TokenTypeOK, [TokenNext]_tokenVars PROVE TokenTypeOK'
  <2> USE <1>2 DEF TokenTypeOK
  <2>1. CASE UNCHANGED tokenVars
    BY <2>1 DEF tokenVars
  <2>2. ASSUME NEW type \in TokenTypes, NEW from \in 0 .. MaxTokens, Generate(type, from)
        PROVE  /\ tokensMade' \in 0 .. MaxTokens
               /\ tokenTable' \subseteq 1 .. tokensMade'
               /\ tokenType' \in [TokenIds -> TokenTypes]
               /\ validUntil' \in [TokenIds -> Nat]
               /\ madeFrom' \in [TokenIds -> 0 .. MaxTokens]
               /\ hour' \in 0 .. MaxHour /\ shared' \subseteq TokenIds
    <3>1. hour + TTL(type) \in Nat
      BY <2>2 DEF TTL
    <3>2. tokensMade' \in 0 .. MaxTokens /\ tokenTable' \subseteq 1 .. tokensMade'
      BY <2>2 DEF Generate
    <3>3. tokenType' \in [TokenIds -> TokenTypes]
      BY <2>2 DEF Generate
    <3>4. validUntil' \in [TokenIds -> Nat]
      BY <2>2, <3>1 DEF Generate
    <3>5. madeFrom' \in [TokenIds -> 0 .. MaxTokens]
      BY <2>2 DEF Generate
    <3>6. hour' \in 0 .. MaxHour /\ shared' \subseteq TokenIds
      BY <2>2 DEF Generate
    <3> QED  BY <3>2, <3>3, <3>4, <3>5, <3>6
  <2>3. ASSUME NEW type \in TokenTypes, GenerateToken(type) PROVE TokenTypeOK'
    <3>1. 0 \in 0 .. MaxTokens
      OBVIOUS
    <3> QED  BY <2>2, <2>3, <3>1 DEF GenerateToken
  <2>4. ASSUME NEW t \in TokenIds, RevokeToken(t) PROVE TokenTypeOK'
    BY <2>4 DEF RevokeToken
  <2>5. ASSUME NEW r \in Refreshers, NEW t \in TokenIds, RefreshToken(r, t)
        PROVE  TokenTypeOK'
    BY <2>5 DEF RefreshToken
  <2>6. ASSUME NEW r \in Refreshers, RefreshRevokes(r) PROVE TokenTypeOK'
    <3>1. refreshing[r].token \in TokenIds /\ refreshing[r] # NotRefreshing
      BY <2>6 DEF RefreshRevokes, NotRefreshing
    <3>2. [refreshing[r] EXCEPT !.step = "delete"] \in
              [step: {"revoke", "delete", "generate"}, token: TokenIds]
      BY <3>1
    <3>3. CASE Found(refreshing[r].token)
      BY <2>6, <3>1, <3>2, <3>3 DEF RefreshRevokes
    <3>4. CASE ~Found(refreshing[r].token)
      BY <2>6, <3>4 DEF RefreshRevokes
    <3> QED  BY <3>3, <3>4
  <2>10. ASSUME NEW r \in Refreshers, RefreshDeletes(r) PROVE TokenTypeOK'
    <3>1. refreshing[r].token \in TokenIds /\ refreshing[r] # NotRefreshing
      BY <2>10 DEF RefreshDeletes, NotRefreshing
    <3>2. [refreshing[r] EXCEPT !.step = "generate"] \in
              [step: {"revoke", "delete", "generate"}, token: TokenIds]
      BY <3>1
    <3> QED  BY <2>10, <3>2 DEF RefreshDeletes
  <2>7. ASSUME NEW r \in Refreshers, RefreshGenerates(r) PROVE TokenTypeOK'
    <3>1. refreshing[r].token \in 0 .. MaxTokens
      BY <2>7 DEF RefreshGenerates, NotRefreshing, TokenIds
    <3>2. "access" \in TokenTypes
      BY DEF TokenTypes
    <3>3. Generate("access", refreshing[r].token)
      BY <2>7 DEF RefreshGenerates
    <3> QED  BY <2>2, <2>7, <3>1, <3>2, <3>3 DEF RefreshGenerates
  <2>8. CASE CleanupExpiredTokens
    BY <2>8 DEF CleanupExpiredTokens
  <2>9. CASE HourPasses
    BY <2>9 DEF HourPasses
  <2> QED  BY <2>1, <2>3, <2>4, <2>5, <2>6, <2>7, <2>8, <2>9, <2>10 DEF TokenNext
<1> QED  BY <1>1, <1>2

\* The token manager's fields keep their types.
THEOREM TokenTypeCorrect == TokenSpec => []TokenTypeOK
BY TokenTypeInductive, PTL DEF TokenSpec

\* A step that only takes tokens out of the table keeps Used.
LEMMA TakingOutKeepsUsed ==
    ASSUME Used, tokenTable' \subseteq tokenTable,
           UNCHANGED <<tokensMade, madeFrom, refreshing, shared>>
    PROVE  Used'
BY DEF Used, UsedAreGone, OneTaker, Takes, Holds

\* A token that is new was not refreshed.
LEMMA GeneratingKeepsUsed ==
    ASSUME TokenTypeOK, Used, NEW type, Generate(type, 0), UNCHANGED refreshing
    PROVE  Used'
<1>1. /\ tokensMade \in Nat /\ tokensMade' = tokensMade + 1
      /\ tokenTable' = tokenTable \cup {tokensMade + 1}
      /\ madeFrom' = madeFrom /\ shared' = shared
  <2>1. tokensMade + 1 \in TokenIds
    BY TokenBoundsAssumption DEF Generate, TokenTypeOK, TokenIds
  <2>2. madeFrom[tokensMade + 1] = 0
    BY <2>1 DEF Used, UsedAreGone, TokenTypeOK
  <2> QED  BY <2>1, <2>2 DEF Generate, TokenTypeOK
<1>2. UsedAreGone'
  <2>1. ASSUME NEW q \in Refreshers, refreshing'[q] # NotRefreshing
        PROVE  refreshing'[q].token <= tokensMade'
    <3>1. refreshing[q].token \in Nat /\ refreshing[q].token <= tokensMade
      BY <2>1 DEF Used, UsedAreGone, TokenTypeOK, TokenIds
    <3> QED  BY <1>1, <3>1
  <2>2. ASSUME NEW q \in Refreshers, NEW t \in TokenIds, Holds(q, t)'
        PROVE  t \notin tokenTable'
    <3>1. Holds(q, t) /\ refreshing[q] # NotRefreshing /\ refreshing[q].token = t
      BY <2>2 DEF Holds, NotRefreshing
    <3>2. t <= tokensMade /\ t \notin tokenTable
      BY <3>1 DEF Used, UsedAreGone
    <3> QED  BY <1>1, <3>2 DEF TokenIds
  <2>3. ASSUME NEW a \in TokenIds, madeFrom'[a] # 0
        PROVE  a <= tokensMade' /\ madeFrom'[a] <= tokensMade' /\ madeFrom'[a] \notin tokenTable'
    <3>1. /\ a <= tokensMade /\ madeFrom[a] <= tokensMade /\ madeFrom[a] \notin tokenTable
          /\ a \in Nat /\ madeFrom[a] \in Nat
      BY <1>1, <2>3 DEF Used, UsedAreGone, TokenTypeOK, TokenIds
    <3> QED  BY <1>1, <3>1
  <2> QED  BY <2>1, <2>2, <2>3 DEF UsedAreGone
<1>3. OneTaker'
  BY <1>1 DEF Used, OneTaker, Takes, Holds
<1> QED  BY <1>2, <1>3 DEF Used

\* What the lookup finds is not taken by anybody, or is shared from now on.
LEMMA RevokingKeepsUsed ==
    ASSUME TokenTypeOK, Used, NEW r \in Refreshers, RefreshRevokes(r)
    PROVE  Used'
<1> DEFINE t == refreshing[r].token
<1>1. /\ t \in TokenIds /\ refreshing[r] # NotRefreshing /\ t <= tokensMade
      /\ UNCHANGED <<tokensMade, tokenTable, madeFrom>>
  BY DEF RefreshRevokes, NotRefreshing, TokenTypeOK, Used, UsedAreGone
<1>2. CASE Found(t)
  <2>1. /\ t \in tokenTable
        /\ refreshing' = [refreshing EXCEPT ![r] = [step |-> "delete", token |-> t]]
        /\ shared \subseteq shared'
        /\ t \notin shared' =>
               \A q \in Refreshers : refreshing[q] # [step |-> "delete", token |-> t]
    <3>1. [refreshing[r] EXCEPT !.step = "delete"] = [step |-> "delete", token |-> t]
      BY <1>1 DEF TokenTypeOK
    <3> QED  BY <1>2, <3>1 DEF RefreshRevokes, Found, Deleting, TokenTypeOK
  <2>2. UsedAreGone'
    <3>1. \A q \in Refreshers :
              refreshing'[q] # NotRefreshing => refreshing'[q].token <= tokensMade'
      BY <1>1, <2>1 DEF Used, UsedAreGone, TokenTypeOK
    <3>2. \A q \in Refreshers, u \in TokenIds : Holds(q, u)' => Holds(q, u)
      BY <1>1, <2>1 DEF Holds, TokenTypeOK
    <3> QED  BY <1>1, <3>1, <3>2 DEF Used, UsedAreGone
  <2>3. /\ \A q \in Refreshers : ~Holds(q, t)
        /\ \A a \in TokenIds : madeFrom[a] # t
    BY <1>1, <2>1, TokenBoundsAssumption DEF Used, UsedAreGone, TokenIds
  <2>4. ASSUME NEW q \in Refreshers, NEW u \in TokenIds, Takes(q, u)'
        PROVE  (q = r /\ u = t) \/ Takes(q, u)
    BY <2>1, <2>4 DEF Takes, Holds, TokenTypeOK
  <2>5. t \notin shared' => \A q \in Refreshers : ~Takes(q, t)
    BY <2>1, <2>3 DEF Takes
  <2>6. OneTaker'
    BY <1>1, <2>1, <2>3, <2>4, <2>5 DEF Used, OneTaker
  <2> QED  BY <2>2, <2>6 DEF Used
<1>3. CASE ~Found(t)
  <2>1. refreshing' = [refreshing EXCEPT ![r] = NotRefreshing] /\ shared' = shared
    BY <1>3 DEF RefreshRevokes
  <2>2. UsedAreGone'
    BY <1>1, <2>1 DEF Used, UsedAreGone, Holds, TokenTypeOK, NotRefreshing
  <2>3. OneTaker'
    BY <1>1, <2>1 DEF Used, OneTaker, Takes, Holds, TokenTypeOK, NotRefreshing
  <2> QED  BY <2>2, <2>3 DEF Used
<1> QED  BY <1>2, <1>3

\* Who deletes took the token before, and holds it now.
LEMMA DeletingKeepsUsed ==
    ASSUME TokenTypeOK, Used, NEW r \in Refreshers, RefreshDeletes(r)
    PROVE  Used'
<1> DEFINE t == refreshing[r].token
<1>1. /\ t \in TokenIds /\ t <= tokensMade /\ Takes(r, t)
      /\ UNCHANGED <<tokensMade, madeFrom, shared>> /\ tokenTable' = tokenTable \ {t}
      /\ refreshing' = [refreshing EXCEPT ![r] = [step |-> "generate", token |-> t]]
  <2>1. refreshing[r] # NotRefreshing /\ refreshing[r].step = "delete"
    BY DEF RefreshDeletes, NotRefreshing
  <2>2. /\ refreshing[r] = [step |-> "delete", token |-> t] /\ t \in TokenIds
        /\ [refreshing[r] EXCEPT !.step = "generate"] = [step |-> "generate", token |-> t]
    BY <2>1 DEF TokenTypeOK
  <2> QED  BY <2>1, <2>2 DEF RefreshDeletes, Takes, Used, UsedAreGone
<1>2. ASSUME NEW q \in Refreshers, NEW u \in TokenIds, Takes(q, u)' PROVE Takes(q, u)
  BY <1>1, <1>2 DEF Takes, Holds, TokenTypeOK
<1>3. OneTaker'
  BY <1>1, <1>2 DEF Used, OneTaker
<1>4. ASSUME NEW q \in Refreshers, NEW u \in TokenIds, Holds(q, u)'
      PROVE  u = t \/ Holds(q, u)
  BY <1>1, <1>4 DEF Holds, TokenTypeOK
<1>5. \A q \in Refreshers : refreshing'[q] # NotRefreshing => refreshing'[q].token <= tokensMade'
  BY <1>1 DEF Used, UsedAreGone, TokenTypeOK
<1>6. UsedAreGone'
  BY <1>1, <1>4, <1>5 DEF Used, UsedAreGone
<1> QED  BY <1>3, <1>6 DEF Used

\* The token that is generated for was nobody else's unless it is shared, and is gone.
LEMMA TakingKeepsUsed ==
    ASSUME TokenTypeOK, Used, NEW r \in Refreshers, RefreshGenerates(r)
    PROVE  Used'
<1> USE TokenBoundsAssumption
<1> DEFINE t == refreshing[r].token
           a == tokensMade + 1
<1>1. /\ t \in TokenIds /\ Holds(r, t) /\ t <= tokensMade /\ a \in TokenIds
      /\ refreshing' = [refreshing EXCEPT ![r] = NotRefreshing]
      /\ tokensMade \in Nat /\ tokensMade' = a
      /\ tokenTable' = tokenTable \cup {a}
      /\ madeFrom' = [madeFrom EXCEPT ![a] = t] /\ shared' = shared
  BY DEF RefreshGenerates, Generate, NotRefreshing, Holds, TokenTypeOK, TokenIds,
         Used, UsedAreGone
<1>2. t \notin tokenTable /\ Takes(r, t)
  BY <1>1 DEF Used, UsedAreGone, Takes
<1>3. t \notin shared =>
          /\ \A b \in TokenIds : madeFrom[b] # t
          /\ \A q \in Refreshers : q # r => ~Takes(q, t)
  BY <1>1, <1>2 DEF Used, OneTaker
<1>4. ASSUME NEW b \in TokenIds
      PROVE  IF b = a THEN madeFrom'[b] = t ELSE madeFrom'[b] = madeFrom[b]
  BY <1>1 DEF TokenTypeOK
<1>5. ASSUME NEW q \in Refreshers, refreshing'[q] # NotRefreshing
      PROVE  refreshing'[q] = refreshing[q] /\ q # r /\ refreshing[q].token \in TokenIds
  BY <1>1, <1>5 DEF TokenTypeOK
<1>6. ASSUME NEW q \in Refreshers, NEW u \in TokenIds, Takes(q, u)'
      PROVE  Takes(q, u) /\ q # r /\ (Holds(q, u)' => Holds(q, u))
  <2>1. refreshing'[q] # NotRefreshing
    BY <1>6 DEF Takes, Holds, NotRefreshing
  <2> QED  BY <1>5, <1>6, <2>1 DEF Takes, Holds
<1>7. UsedAreGone'
  <2>1. \A q \in Refreshers :
            refreshing'[q] # NotRefreshing => refreshing'[q].token <= tokensMade'
    BY <1>1, <1>5 DEF Used, UsedAreGone, TokenIds
  <2>2. \A q \in Refreshers, u \in TokenIds : Holds(q, u)' => u \notin tokenTable'
    <3>1. ASSUME NEW q \in Refreshers, NEW u \in TokenIds, Holds(q, u)'
          PROVE  Holds(q, u)
      BY <1>6, <3>1 DEF Takes
    <3>2. ASSUME NEW q \in Refreshers, NEW u \in TokenIds, Holds(q, u)
          PROVE  u \notin tokenTable /\ u <= tokensMade
      BY <3>2 DEF Holds, Used, UsedAreGone, NotRefreshing
    <3> QED  BY <1>1, <3>1, <3>2 DEF TokenIds
  <2>3. ASSUME NEW b \in TokenIds, madeFrom'[b] # 0
        PROVE  /\ b <= tokensMade' /\ madeFrom'[b] <= tokensMade'
               /\ madeFrom'[b] \notin tokenTable'
    <3>1. CASE b = a
      BY <1>1, <1>2, <1>4, <3>1 DEF TokenIds
    <3>2. CASE b # a
      <4>1. madeFrom'[b] = madeFrom[b] /\ madeFrom[b] \in Nat /\ b \in Nat
        BY <1>4, <3>2 DEF TokenTypeOK, TokenIds
      <4>2. b <= tokensMade /\ madeFrom[b] <= tokensMade /\ madeFrom[b] \notin tokenTable
        BY <2>3, <4>1 DEF Used, UsedAreGone
      <4> QED  BY <1>1, <4>1, <4>2
    <3> QED  BY <3>1, <3>2
  <2> QED  BY <2>1, <2>2, <2>3 DEF UsedAreGone
<1>8. OneTaker'
  <2> SUFFICES ASSUME NEW u \in TokenIds \ shared
               PROVE  /\ \A q, p \in Refreshers : Takes(q, u)' /\ Takes(p, u)' => q = p
                      /\ \A b, c \in TokenIds : madeFrom'[b] = u /\ madeFrom'[c] = u => b = c
                      /\ \A q \in Refreshers, b \in TokenIds : Takes(q, u)' => madeFrom'[b] # u
    BY <1>1 DEF OneTaker
  <2>1. \A q, p \in Refreshers : Takes(q, u)' /\ Takes(p, u)' => q = p
    BY <1>6 DEF Used, OneTaker
  <2>2. \A b, c \in TokenIds : madeFrom'[b] = u /\ madeFrom'[c] = u => b = c
    BY <1>3, <1>4 DEF Used, OneTaker
  <2>3. \A q \in Refreshers, b \in TokenIds : Takes(q, u)' => madeFrom'[b] # u
    BY <1>3, <1>4, <1>6 DEF Used, OneTaker
  <2> QED  BY <2>1, <2>2, <2>3
<1> QED  BY <1>7, <1>8 DEF Used

\* Used holds at first and is kept by every step.
LEMMA UsedInductive ==
    /\ TokenInit => Used
    /\ TokenTypeOK /\ Used /\ [TokenNext]_tokenVars => Used'
<1>1. ASSUME TokenInit PROVE Used
  BY <1>1, TokenBoundsAssumption
  DEF TokenInit, Used, UsedAreGone, OneTaker, Takes, Holds, NotRefreshing, TokenIds
<1>2. ASSUME TokenTypeOK, Used, [TokenNext]_tokenVars PROVE Used'
  <2> USE <1>2
  <2>1. CASE UNCHANGED tokenVars
    BY <2>1, TakingOutKeepsUsed DEF tokenVars
  <2>2. ASSUME NEW type \in TokenTypes, GenerateToken(type) PROVE Used'
    BY <2>2, GeneratingKeepsUsed DEF GenerateToken
  <2>3. ASSUME NEW t \in TokenIds, RevokeToken(t) PROVE Used'
    BY <2>3, TakingOutKeepsUsed DEF RevokeToken
  <2>4. ASSUME NEW r \in Refreshers, NEW t \in TokenIds, RefreshToken(r, t) PROVE Used'
    <3>1. t <= tokensMade
      BY <2>4 DEF RefreshToken, ValidToken, TokenTypeOK
    <3>2. UsedAreGone'
      BY <2>4, <3>1 DEF RefreshToken, Used, UsedAreGone, Holds, TokenTypeOK
    <3>3. OneTaker'
      BY <2>4 DEF RefreshToken, Used, OneTaker, Takes, Holds, TokenTypeOK
    <3> QED  BY <3>2, <3>3 DEF Used
  <2>5. ASSUME NEW r \in Refreshers,
               RefreshRevokes(r) \/ RefreshDeletes(r) \/ RefreshGenerates(r)
        PROVE  Used'
    BY <2>5, RevokingKeepsUsed, DeletingKeepsUsed, TakingKeepsUsed
  <2>6. CASE CleanupExpiredTokens
    BY <2>6, TakingOutKeepsUsed DEF CleanupExpiredTokens
  <2>7. CASE HourPasses
    BY <2>7, TakingOutKeepsUsed DEF HourPasses
  <2> QED  BY <2>1, <2>2, <2>3, <2>4, <2>5, <2>6, <2>7 DEF TokenNext
<1> QED  BY <1>1, <1>2

\* A set in which any two elements are the same has at most one.
LEMMA AtMostOne ==
    ASSUME NEW A, \A x, y \in A : x = y
    PROVE  \/ A = {} /\ Cardinality(A) = 0
           \/ A # {} /\ Cardinality(A) = 1
<1>1. CASE A = {}
  BY <1>1, FS_EmptySet
<1>2. ASSUME NEW x \in A PROVE A = {x} /\ Cardinality(A) = 1
  <2>1. A = {x}
    BY <1>2
  <2> QED  BY <2>1, FS_Singleton
<1> QED  BY <1>1, <1>2

LEMMA UsedIsOnce == ASSUME TokenTypeOK, Used PROVE RefreshedOnce
<1>0. \A t \in TokenIds : t # 0
  BY TokenBoundsAssumption DEF TokenIds
<1>1. ASSUME NEW t \in TokenIds, Refreshing(t) \cup GeneratedFor(t) # {}
      PROVE  t \notin tokenTable
  BY <1>0, <1>1 DEF Refreshing, GeneratedFor, Used, UsedAreGone, Holds
<1>2. ASSUME NEW t \in TokenIds, t \notin shared
      PROVE  Cardinality(Refreshing(t)) + Cardinality(GeneratedFor(t)) <= 1
  <2>1. \A r, q \in Refreshing(t) : r = q
    BY <1>2 DEF Refreshing, Used, OneTaker, Takes, Holds
  <2>2. \A a, b \in GeneratedFor(t) : a = b
    BY <1>2 DEF GeneratedFor, Used, OneTaker
  <2>3. Refreshing(t) = {} \/ GeneratedFor(t) = {}
    BY <1>2 DEF Refreshing, GeneratedFor, Used, OneTaker, Takes, Holds
  <2>4. \/ Refreshing(t) = {} /\ Cardinality(Refreshing(t)) = 0
        \/ Refreshing(t) # {} /\ Cardinality(Refreshing(t)) = 1
    BY <2>1, AtMostOne
  <2>5. \/ GeneratedFor(t) = {} /\ Cardinality(GeneratedFor(t)) = 0
        \/ GeneratedFor(t) # {} /\ Cardinality(GeneratedFor(t)) = 1
    BY <2>2, AtMostOne
  <2> QED  BY <2>3, <2>4, <2>5
<1> QED  BY <1>1, <1>2 DEF RefreshedOnce

\* RefreshToken of one token, called by any number of goroutines without a lock, ends in
\* at most one access token, unless two of them looked it up before either deleted it
\* (RevokeToken, token.go:145 and 149); none finds it once one has deleted it.
THEOREM RefreshTokenIsUsedOnce == TokenSpec => []RefreshedOnce
<1> QED  BY UsedIsOnce, UsedInductive, TokenTypeCorrect, PTL DEF TokenSpec

-----------------------------------------------------------------------------
(* The permissions: Authorization.                                         *)

\* Whoever is to give something to an account has stored it.
StoredIsKnown ==
    \A h \in Handlers : callOf[h] # NoCall /\ callOf[h].step = "give" => Known(callOf[h].user)

\* The accounts and gifts of the operations are accounts and gifts.
LEMMA AccountsMade ==
    /\ NoGift \in Gifts /\ DefaultUser \in Accounts /\ UserWithoutRole \in Accounts
    /\ \A p \in Grantable : [NoGift EXCEPT !.permissions = {p}] \in Gifts
    /\ \A r \in Roles : [NoGift EXCEPT !.roles = {r}] \in Gifts
    /\ \A a \in Accounts, gift \in Gifts : Given(a, gift) \in Accounts
BY DEF NoGift, Gifts, DefaultUser, UserWithoutRole, Accounts, DefaultRole, Roles, Given

\* What every call begins with: the user is given something, or is to be made.
LEMMA LookUpTyped ==
    ASSUME AuthorizerTypeOK, NEW h \in Handlers, NEW u \in Subjects,
           NEW fresh \in Accounts, NEW gift \in Gifts, LookUp(h, u, fresh, gift)
    PROVE  AuthorizerTypeOK'
<1> USE DEF AuthorizerTypeOK
<1>1. CASE Known(u)
  <2>1. users[u] \in Accounts
    BY <1>1 DEF Known
  <2>2. Given(users[u], gift) \in Accounts
    BY <2>1, AccountsMade
  <2>3. [roles |-> granted[u].roles \cup gift.roles,
         permissions |-> granted[u].permissions \cup gift.permissions] \in Gifts
    BY DEF Gifts
  <2> QED  BY <1>1, <2>2, <2>3 DEF LookUp, Note
<1>2. CASE ~Known(u)
  <2>1. [step |-> "store", user |-> u, fresh |-> fresh, gift |-> gift] \in Making
    BY DEF Making
  <2> QED  BY <1>2, <2>1 DEF LookUp
<1> QED  BY <1>1, <1>2

LEMMA LookUpKeeps ==
    ASSUME AuthorizerTypeOK, GrantsStay, StoredIsKnown, NEW h \in Handlers,
           NEW u \in Subjects, NEW fresh, NEW gift \in Gifts, LookUp(h, u, fresh, gift)
    PROVE  GrantsStay' /\ StoredIsKnown'
<1> USE DEF AuthorizerTypeOK
<1>1. CASE Known(u)
  <2>1. /\ users' = [users EXCEPT ![u] = Given(users[u], gift)]
        /\ callOf' = [callOf EXCEPT ![h] = NoCall] /\ overwritten' = overwritten
        /\ granted' = [granted EXCEPT
               ![u] = [roles       |-> granted[u].roles \cup gift.roles,
                       permissions |-> granted[u].permissions \cup gift.permissions]]
    BY <1>1 DEF LookUp, Note
  <2>2. users[u] \in Accounts /\ Given(users[u], gift) \in Accounts
    BY <1>1, AccountsMade DEF Known
  <2>3. Known(u)'
    BY <2>1, <2>2, UnknownAssumption DEF Known
  <2>4. /\ users'[u].roles = users[u].roles \cup gift.roles
        /\ users'[u].permissions = users[u].permissions \cup gift.permissions
        /\ granted'[u].roles = granted[u].roles \cup gift.roles
        /\ granted'[u].permissions = granted[u].permissions \cup gift.permissions
    BY <2>1, <2>2 DEF Given, Accounts
  <2>5. \A v \in Subjects : v # u => users'[v] = users[v] /\ granted'[v] = granted[v]
    BY <2>1
  <2>6. u \notin overwritten =>
            granted[u].roles \subseteq users[u].roles /\ granted[u].permissions \subseteq users[u].permissions
    BY DEF GrantsStay, NoGift
  <2>7. GrantsStay'
    BY <2>1, <2>3, <2>4, <2>5, <2>6 DEF GrantsStay, Known
  <2>8. StoredIsKnown'
    BY <2>1, <2>3, <2>5 DEF StoredIsKnown, Known, Requested, Making
  <2> QED  BY <2>7, <2>8
<1>2. CASE ~Known(u)
  <2>1. /\ callOf' = [callOf EXCEPT ![h] =
               [step |-> "store", user |-> u, fresh |-> fresh, gift |-> gift]]
        /\ UNCHANGED <<users, granted, overwritten>>
    BY <1>2 DEF LookUp
  <2> QED  BY <2>1 DEF GrantsStay, StoredIsKnown, Known
<1> QED  BY <1>1, <1>2

\* A fresh account takes the place of none, or the user is overwritten.
LEMMA StoreUserKeeps ==
    ASSUME AuthorizerTypeOK, GrantsStay, StoredIsKnown, NEW h \in Handlers, Store(h)
    PROVE  AuthorizerTypeOK' /\ GrantsStay' /\ StoredIsKnown'
<1> USE DEF AuthorizerTypeOK
<1> DEFINE c == callOf[h]
<1>1. /\ c \in Making /\ c.step = "store" /\ c.user \in Subjects /\ c.fresh \in Accounts
      /\ [c EXCEPT !.step = "give"] \in Making
  BY DEF Store, Requested, Making
<1>2. /\ users' = [users EXCEPT ![c.user] = c.fresh] /\ granted' = granted
      /\ overwritten' = IF Known(c.user) THEN overwritten \cup {c.user} ELSE overwritten
      /\ callOf' = [k \in Handlers |->
             IF k = h THEN [c EXCEPT !.step = "give"]
             ELSE IF callOf[k] # NoCall /\ callOf[k].step = "give" /\ callOf[k].user = c.user
                  THEN NoCall ELSE callOf[k]]
  BY DEF Store
<1>3. AuthorizerTypeOK'
  BY <1>1, <1>2
<1>4. \A v \in Subjects : Known(v) => users'[v] # Unknown
  BY <1>1, <1>2, UnknownAssumption DEF Known
<1>5. users'[c.user] # Unknown /\ [c EXCEPT !.step = "give"].user = c.user
  BY <1>1, <1>2, UnknownAssumption DEF Making
<1>6. StoredIsKnown'
  <2> SUFFICES ASSUME NEW k \in Handlers, callOf'[k] # NoCall, callOf'[k].step = "give"
               PROVE  users'[callOf'[k].user] # Unknown
    BY DEF StoredIsKnown, Known
  <2>1. CASE k = h
    BY <1>2, <1>5, <2>1
  <2>2. CASE k # h
    <3>1. callOf'[k] = callOf[k]
      BY <1>2, <2>2
    <3>2. Known(callOf[k].user) /\ callOf[k].user \in Subjects
      BY <3>1 DEF StoredIsKnown, Requested, Making
    <3> QED  BY <1>4, <3>1, <3>2
  <2> QED  BY <2>1, <2>2
<1>7. GrantsStay'
  <2> SUFFICES ASSUME NEW u \in Subjects, u \notin overwritten', granted[u] # NoGift
               PROVE  Known(u) /\ users'[u] = users[u]
    BY <1>2, <1>4 DEF GrantsStay, Known
  <2>1. Known(u)
    BY <1>2 DEF GrantsStay
  <2>2. u # c.user
    BY <1>2, <2>1
  <2> QED  BY <1>2, <2>1, <2>2
<1> QED  BY <1>3, <1>6, <1>7

\* To give to an account that was stored is to give to a user that is known.
LEMMA GiveIsLookUp ==
    ASSUME AuthorizerTypeOK, StoredIsKnown, NEW h \in Handlers, Give(h)
    PROVE  \E u \in Subjects, gift \in Gifts : LookUp(h, u, DefaultUser, gift)
<1>1. callOf[h].user \in Subjects /\ callOf[h].gift \in Gifts /\ Known(callOf[h].user)
  BY DEF Give, AuthorizerTypeOK, StoredIsKnown, Requested, Making
<1> QED  BY <1>1 DEF Give, LookUp

\* The calls that begin with a lookup.
LEMMA CallsLookUp ==
    ASSUME NEW h \in Handlers, NEW u \in Subjects,
           \/ CheckPermission(h, u) \/ CreateUser(h, u)
           \/ \E p \in Grantable : GrantPermission(h, u, p)
           \/ \E r \in Roles : AssignRole(h, u, r)
    PROVE  \E fresh \in Accounts, gift \in Gifts : LookUp(h, u, fresh, gift)
BY AccountsMade DEF CheckPermission, CreateUser, GrantPermission, AssignRole

\* The changes of an account that is found; what is taken is no longer granted.
LEMMA TakingKeeps ==
    ASSUME AuthorizerTypeOK, GrantsStay, StoredIsKnown, NEW u \in Subjects,
           \/ \E h \in Handlers, r \in Roles : RemoveRole(h, u, r)
           \/ \E p \in Grantable : RevokePermission(u, p)
           \/ \E active \in BOOLEAN : SetActive(u, active)
    PROVE  AuthorizerTypeOK' /\ GrantsStay' /\ StoredIsKnown'
<1> USE DEF AuthorizerTypeOK
<1> DEFINE Kept(a, g) ==
        IF Known(u)
        THEN /\ users' = [users EXCEPT ![u] = a] /\ a \in Accounts
             /\ granted[u].roles \subseteq users[u].roles /\ granted[u].permissions \subseteq users[u].permissions =>
                    g.roles \subseteq a.roles /\ g.permissions \subseteq a.permissions
        ELSE users' = users /\ (granted[u] = NoGift => g = NoGift)
<1>1. \E a, g : /\ g \in Gifts /\ granted' = [granted EXCEPT ![u] = g] /\ Kept(a, g)
                /\ (callOf' = callOf \/ \E h \in Handlers : callOf' = [callOf EXCEPT ![h] = NoCall])
                /\ overwritten' = overwritten
  <2>0. Known(u) => users[u] \in Accounts
    BY DEF Known
  <2>1. ASSUME NEW h \in Handlers, NEW r \in Roles, RemoveRole(h, u, r)
        PROVE  /\ [granted[u] EXCEPT !.roles = @ \ {r}] \in Gifts
               /\ granted' = [granted EXCEPT ![u] = [granted[u] EXCEPT !.roles = @ \ {r}]]
               /\ Kept([users[u] EXCEPT !.roles = @ \ {r}], [granted[u] EXCEPT !.roles = @ \ {r}])
               /\ callOf' = [callOf EXCEPT ![h] = NoCall] /\ overwritten' = overwritten
    <3>1. [granted[u] EXCEPT !.roles = @ \ {r}] \in Gifts
      BY DEF Gifts
    <3>2. /\ granted' = [granted EXCEPT ![u] = [granted[u] EXCEPT !.roles = @ \ {r}]]
          /\ callOf' = [callOf EXCEPT ![h] = NoCall] /\ overwritten' = overwritten
          /\ users' = IF Known(u) THEN [users EXCEPT ![u] = [users[u] EXCEPT !.roles = @ \ {r}]]
                                  ELSE users
      BY <2>1 DEF RemoveRole
    <3>3. Kept([users[u] EXCEPT !.roles = @ \ {r}], [granted[u] EXCEPT !.roles = @ \ {r}])
      <4>1. CASE Known(u)
        BY <2>0, <3>2, <4>1 DEF Accounts, Gifts
      <4>2. CASE ~Known(u)
        <5>1. [NoGift EXCEPT !.roles = @ \ {r}] = NoGift
          BY DEF NoGift
        <5>2. users' = users
          BY <3>2, <4>2
        <5> QED  BY <4>2, <5>1, <5>2
      <4> QED  BY <4>1, <4>2
    <3> QED  BY <3>1, <3>2, <3>3
  <2>2. ASSUME NEW p \in Grantable, RevokePermission(u, p)
        PROVE  /\ [granted[u] EXCEPT !.permissions = @ \ {p}] \in Gifts
               /\ granted' = [granted EXCEPT ![u] = [granted[u] EXCEPT !.permissions = @ \ {p}]]
               /\ Kept([users[u] EXCEPT !.permissions = @ \ {p}],
                       [granted[u] EXCEPT !.permissions = @ \ {p}])
               /\ callOf' = callOf /\ overwritten' = overwritten
    <3>1. [granted[u] EXCEPT !.permissions = @ \ {p}] \in Gifts
      BY DEF Gifts
    <3>2. /\ granted' = [granted EXCEPT ![u] = [granted[u] EXCEPT !.permissions = @ \ {p}]]
          /\ callOf' = callOf /\ overwritten' = overwritten /\ Known(u)
          /\ users' = [users EXCEPT ![u] = [users[u] EXCEPT !.permissions = @ \ {p}]]
      BY <2>2 DEF RevokePermission
    <3> QED  BY <2>0, <3>1, <3>2 DEF Accounts, Gifts
  <2>3. ASSUME NEW active \in BOOLEAN, SetActive(u, active)
        PROVE  /\ granted[u] \in Gifts /\ granted' = [granted EXCEPT ![u] = granted[u]]
               /\ Kept([users[u] EXCEPT !.active = active], granted[u])
               /\ callOf' = callOf /\ overwritten' = overwritten
    <3>1. /\ granted' = [granted EXCEPT ![u] = granted[u]]
          /\ callOf' = callOf /\ overwritten' = overwritten /\ Known(u)
          /\ users' = [users EXCEPT ![u] = [users[u] EXCEPT !.active = active]]
      BY <2>3 DEF SetActive
    <3> QED  BY <2>0, <3>1 DEF Accounts, Gifts
  <2>4. CASE \E h \in Handlers, r \in Roles : RemoveRole(h, u, r)
    BY <2>1, <2>4
  <2>5. CASE \E p \in Grantable : RevokePermission(u, p)
    BY <2>2, <2>5
  <2>6. CASE \E active \in BOOLEAN : SetActive(u, active)
    BY <2>3, <2>6
  <2> QED  BY <2>4, <2>5, <2>6
<1>2. PICK a, g : /\ g \in Gifts /\ granted' = [granted EXCEPT ![u] = g] /\ Kept(a, g)
                  /\ (callOf' = callOf \/ \E h \in Handlers : callOf' = [callOf EXCEPT ![h] = NoCall])
                  /\ overwritten' = overwritten
  BY <1>1
<1>3. \A v \in Subjects : /\ Known(v) <=> Known(v)'
                          /\ v # u => users'[v] = users[v] /\ granted'[v] = granted[v]
  BY <1>2, UnknownAssumption DEF Known
<1>4. AuthorizerTypeOK'
  BY <1>2
<1>5. StoredIsKnown'
  BY <1>2, <1>3 DEF StoredIsKnown, Requested, Making
<1>6. GrantsStay'
  <2>1. CASE Known(u)
    <3>1. users'[u] = a /\ granted'[u] = g
      BY <1>2, <2>1
    <3>2. u \notin overwritten =>
              granted[u].roles \subseteq users[u].roles /\ granted[u].permissions \subseteq users[u].permissions
      BY DEF GrantsStay, NoGift
    <3> QED  BY <1>2, <1>3, <2>1, <3>1, <3>2 DEF GrantsStay
  <2>2. CASE ~Known(u)
    BY <1>2, <1>3, <2>2 DEF GrantsStay, Known
  <2> QED  BY <2>1, <2>2
<1> QED  BY <1>4, <1>5, <1>6

AuthorizerInv == AuthorizerTypeOK /\ GrantsStay /\ StoredIsKnown

LEMMA AuthorizerStarts == AuthorizerInit => AuthorizerInv
<1> SUFFICES ASSUME AuthorizerInit PROVE AuthorizerInv
  OBVIOUS
<1>1. [DefaultUser EXCEPT !.roles = {"admin"}] \in Accounts
  BY DEF DefaultUser, DefaultRole, Roles, Accounts
<1> QED  BY <1>1, AccountsMade
         DEF AuthorizerInit, AuthorizerInv, AuthorizerTypeOK, GrantsStay, StoredIsKnown

LEMMA AuthorizerInductive == AuthorizerInv /\ [AuthorizerNext]_authorizerVars => AuthorizerInv'
<1> SUFFICES ASSUME AuthorizerInv, [AuthorizerNext]_authorizerVars PROVE AuthorizerInv'
  OBVIOUS
<1> USE DEF AuthorizerInv
<1>1. CASE UNCHANGED authorizerVars
  BY <1>1 DEF authorizerVars, AuthorizerTypeOK, GrantsStay, StoredIsKnown, Known
<1>2. ASSUME NEW h \in Handlers, NEW u \in Subjects, NEW fresh \in Accounts, NEW gift \in Gifts,
             LookUp(h, u, fresh, gift)
      PROVE  AuthorizerInv'
  BY <1>2, LookUpTyped, LookUpKeeps
<1>3. ASSUME NEW h \in Handlers, NEW caller \in Subjects, NEW u \in Subjects,
             AuthorizerRequest(h, caller, u)
      PROVE  AuthorizerInv'
  <2>1. CASE CheckPermission(h, caller) \/ CheckPermission(h, u)
    BY <2>1, <1>2, CallsLookUp
  <2>2. ASSUME NEW r \in Roles, callOf[h] = NoCall, UNCHANGED <<users, granted, overwritten>>,
               NEW step \in {"assign", "remove"},
               callOf' = [callOf EXCEPT ![h] = [step |-> step, user |-> u, role |-> r]]
        PROVE  AuthorizerInv'
    <3>1. [step |-> step, user |-> u, role |-> r] \in Requested
      BY DEF Requested
    <3> QED  BY <2>2, <3>1 DEF AuthorizerTypeOK, GrantsStay, StoredIsKnown, Known
  <2>3. ASSUME NEW r \in Assignable, UserRolesRequest(h, caller, u, r) PROVE AuthorizerInv'
    BY <2>1, <2>2, <2>3, AssignableAssumption DEF UserRolesRequest
  <2> QED  BY <1>3, <2>1, <2>3
           DEF AuthorizerRequest, PageRequest, UsersRequest, PermissionCheckRequest,
               UserInfoRequest, UserPermissionsRequest
<1>4. ASSUME NEW h \in Handlers, ChangeRole(h) PROVE AuthorizerInv'
  <2>1. callOf[h] \in Requested /\ callOf[h].user \in Subjects /\ callOf[h].role \in Roles
    BY <1>4 DEF ChangeRole, AuthorizerTypeOK, Requested, Making
  <2>2. CASE AssignRole(h, callOf[h].user, callOf[h].role)
    BY <2>1, <2>2, <1>2, CallsLookUp
  <2>3. CASE RemoveRole(h, callOf[h].user, callOf[h].role)
    BY <2>1, <2>3, TakingKeeps
  <2> QED  BY <1>4, <2>2, <2>3 DEF ChangeRole
<1>5. ASSUME NEW h \in Handlers, NEW u \in Subjects,
             CreateUser(h, u) \/ \E p \in Grantable : GrantPermission(h, u, p)
      PROVE  AuthorizerInv'
  BY <1>2, <1>5, CallsLookUp
<1>6. ASSUME NEW h \in Handlers, Store(h) PROVE AuthorizerInv'
  BY <1>6, StoreUserKeeps
<1>7. ASSUME NEW h \in Handlers, Give(h) PROVE AuthorizerInv'
  BY <1>2, <1>7, GiveIsLookUp, AccountsMade
<1>8. ASSUME NEW u \in Subjects,
             \/ \E p \in Grantable : RevokePermission(u, p)
             \/ \E active \in BOOLEAN : SetActive(u, active)
      PROVE  AuthorizerInv'
  BY <1>8, TakingKeeps
<1> QED  BY <1>1, <1>3, <1>4, <1>5, <1>6, <1>7, <1>8 DEF AuthorizerNext

\* The table of the users keeps its type, whoever asks for what.
THEOREM AuthorizerTypeCorrect == AuthorizerSpec => []AuthorizerTypeOK
BY AuthorizerStarts, AuthorizerInductive, PTL DEF AuthorizerSpec, AuthorizerInv

\* However many handlers call the authorizer at once, what GrantPermission and AssignRole
\* gave stays until it is taken, or until a call that had not found the user stores a
\* fresh account over that of another (authorization.go:188-199, 290-356).
THEOREM GrantsStayUntilTaken == AuthorizerSpec => []GrantsStay
BY AuthorizerStarts, AuthorizerInductive, PTL DEF AuthorizerSpec, AuthorizerInv

===============================================================================
