---------------------------- MODULE TokenManager ----------------------------
(***************************************************************************)
(* InMemoryTokenManager of internal/webserver/auth/token.go.               *)
(*                                                                         *)
(* It has no lock.  RefreshToken validates, looks the token up again,      *)
(* deletes it and generates, one after the other, and whatever others do   *)
(* may come in between; that two of them use the map in the same instant   *)
(* is left out.                                                            *)
(*                                                                         *)
(* Tokens are numbered as they are made.                                   *)
(***************************************************************************)
EXTENDS Naturals, FiniteSets

CONSTANTS
    Refreshers,            \* callers of RefreshToken
    AccessTTL, RefreshTTL, \* of the configuration, in hours
    MaxTokens,             \* bound on the tokens made
    MaxHour                \* bound on the clock

ASSUME TokenConfigAssumption == AccessTTL \in Nat /\ RefreshTTL \in Nat
ASSUME TokenBoundsAssumption == MaxTokens \in Nat /\ MaxHour \in Nat

VARIABLES
    tokensMade,
    tokenTable,   \* the keys of tm.tokens
    tokenType,    \* Type of each token
    validUntil,   \* ExpiresAt of each token
    madeFrom,     \* history: the refresh token each was generated for, or 0
    refreshing,   \* what each caller of RefreshToken has still to do
    shared,       \* history: the tokens two callers found at the same time
    hour

tokenVars == <<tokensMade, tokenTable, tokenType, validUntil, madeFrom, refreshing,
               shared, hour>>

TokenIds   == 1 .. MaxTokens
TokenTypes == {"access", "refresh"}

NotRefreshing == [step |-> "none", token |-> 0]

TokenTypeOK ==
    /\ tokensMade \in 0 .. MaxTokens
    /\ tokenTable \subseteq 1 .. tokensMade
    /\ tokenType \in [TokenIds -> TokenTypes]
    /\ validUntil \in [TokenIds -> Nat]
    /\ madeFrom \in [TokenIds -> 0 .. MaxTokens]
    /\ refreshing \in [Refreshers ->
           [step: {"revoke", "delete", "generate"}, token: TokenIds] \cup {NotRefreshing}]
    /\ shared \subseteq TokenIds
    /\ hour \in 0 .. MaxHour

TokenInit ==
    /\ tokensMade = 0
    /\ tokenTable = {}
    /\ tokenType = [t \in TokenIds |-> "access"]
    /\ validUntil = [t \in TokenIds |-> 0]
    /\ madeFrom = [t \in TokenIds |-> 0]
    /\ refreshing = [r \in Refreshers |-> NotRefreshing]
    /\ shared = {}
    /\ hour = 0

-----------------------------------------------------------------------------
TTL(type) == IF type = "access" THEN AccessTTL ELSE RefreshTTL

Generate(type, from) ==
    /\ tokensMade < MaxTokens
    /\ tokensMade' = tokensMade + 1
    /\ tokenTable' = tokenTable \cup {tokensMade + 1}
    /\ tokenType' = [tokenType EXCEPT ![tokensMade + 1] = type]
    /\ validUntil' = [validUntil EXCEPT ![tokensMade + 1] = hour + TTL(type)]
    /\ madeFrom' = [madeFrom EXCEPT ![tokensMade + 1] = from]
    /\ UNCHANGED <<shared, hour>>

GenerateToken(type) == Generate(type, 0) /\ UNCHANGED refreshing

\* What ValidateToken answers for the string of a token.
ValidToken(t) == t \in tokenTable /\ hour <= validUntil[t]

\* To delete what is gone by now changes nothing, and no number is used twice: the
\* lookup and the delete are one step here, and two in RefreshToken.
RevokeToken(t) ==
    /\ t \in tokenTable
    /\ tokenTable' = tokenTable \ {t}
    /\ UNCHANGED <<tokensMade, tokenType, validUntil, madeFrom, refreshing, shared,
                   hour>>

CleanupExpiredTokens ==
    /\ \E t \in tokenTable : hour > validUntil[t]
    /\ tokenTable' = {t \in tokenTable : hour <= validUntil[t]}
    /\ UNCHANGED <<tokensMade, tokenType, validUntil, madeFrom, refreshing, shared,
                   hour>>

-----------------------------------------------------------------------------
(* RefreshToken.                                                           *)

RefreshToken(r, t) ==
    /\ refreshing[r] = NotRefreshing
    /\ ValidToken(t) /\ tokenType[t] = "refresh"
    /\ refreshing' = [refreshing EXCEPT ![r] = [step |-> "revoke", token |-> t]]
    /\ UNCHANGED <<tokensMade, tokenTable, tokenType, validUntil, madeFrom, shared, hour>>

\* Mutant: that the token is gone is no error.
FoundAlways(t) == TRUE

\* What RevokeToken finds; if the token is gone by now, the caller gets an error.
Found(t) == t \in tokenTable

Deleting(t) == {r \in Refreshers : refreshing[r] = [step |-> "delete", token |-> t]}

RefreshRevokes(r) ==
    LET t == refreshing[r].token IN
    /\ refreshing[r].step = "revoke"
    /\ \/ /\ Found(t)
          /\ refreshing' = [refreshing EXCEPT ![r].step = "delete"]
          /\ shared' = IF Deleting(t) = {} THEN shared ELSE shared \cup {t}
       \/ /\ ~Found(t)
          /\ refreshing' = [refreshing EXCEPT ![r] = NotRefreshing]
          /\ UNCHANGED shared
    /\ UNCHANGED <<tokensMade, tokenTable, tokenType, validUntil, madeFrom, hour>>

RefreshDeletes(r) ==
    /\ refreshing[r].step = "delete"
    /\ tokenTable' = tokenTable \ {refreshing[r].token}
    /\ refreshing' = [refreshing EXCEPT ![r].step = "generate"]
    /\ UNCHANGED <<tokensMade, tokenType, validUntil, madeFrom, shared, hour>>

RefreshGenerates(r) ==
    /\ refreshing[r].step = "generate"
    /\ Generate("access", refreshing[r].token)
    /\ refreshing' = [refreshing EXCEPT ![r] = NotRefreshing]

HourPasses ==
    /\ hour < MaxHour
    /\ hour' = hour + 1
    /\ UNCHANGED <<tokensMade, tokenTable, tokenType, validUntil, madeFrom, refreshing,
                   shared>>

-----------------------------------------------------------------------------
TokenNext ==
    \/ \E type \in TokenTypes : GenerateToken(type)
    \/ \E t \in TokenIds : RevokeToken(t)
    \/ \E r \in Refreshers, t \in TokenIds : RefreshToken(r, t)
    \/ \E r \in Refreshers : RefreshRevokes(r) \/ RefreshDeletes(r) \/ RefreshGenerates(r)
    \/ CleanupExpiredTokens \/ HourPasses

TokenSpec == TokenInit /\ [][TokenNext]_tokenVars

-----------------------------------------------------------------------------
(* Properties.                                                             *)

\* The callers that are to get an access token for the refresh token t, and the
\* access tokens generated for it.
Refreshing(t)   == {r \in Refreshers : refreshing[r] = [step |-> "generate", token |-> t]}
GeneratedFor(t) == {a \in TokenIds : madeFrom[a] = t}

\* A refresh token is good for one access token, although many calls may have found
\* it valid: it is gone once somebody is to generate for it, and a second access token
\* needs a second call that looked it up between the lookup and the delete of a first.
RefreshedOnce ==
    \A t \in TokenIds :
        /\ Refreshing(t) \cup GeneratedFor(t) # {} => t \notin tokenTable
        /\ t \notin shared =>
              Cardinality(Refreshing(t)) + Cardinality(GeneratedFor(t)) <= 1

=============================================================================
