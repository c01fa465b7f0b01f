---------------------------- MODULE TokenManager ----------------------------
(***************************************************************************)
(* The JWT token manager of src/core/auth/tokens.py: issue, verify,        *)
(* refresh, revoke, revoke_by_jti, revoke_all.  All of its methods are     *)
(* synchronous, so each call is one step.                                  *)
(*                                                                         *)
(* issue() makes an access token and a refresh token together; the model   *)
(* numbers these pairs in the order of issue, and a token is its type and  *)
(* the number of its pair.  This number stands for both jtis of the pair:  *)
(* the jtis are fresh random values, and the metadata stored under the     *)
(* refresh jti (user_id, access_jti) is what the number leads to.          *)
(*                                                                         *)
(* Clients keep every token ever issued, so any token can be presented at  *)
(* any time.  Scopes do not influence revocation and are left out; issuer  *)
(* and audience do, because only access tokens carry the claims.           *)
(*                                                                         *)
(* The definitions named SupersededKeeps..., StoredForSkips..., IssueStores *)
(* are mutants: slips of the definition that follows them, which the       *)
(* properties must notice; nothing uses them.                              *)
(***************************************************************************)
EXTENDS Naturals, Sequences

CONSTANTS
    Users,          \* the users tokens are issued to
    AccessTtl,      \* access_ttl
    RefreshTtl,     \* refresh_ttl
    ClaimsChecked,  \* an issuer or an audience is configured
    MaxPairs,       \* bound: pairs issued in one behaviour
    MaxTime         \* bound: the last instant of the clock

ASSUME TtlAssumption == AccessTtl \in Nat /\ RefreshTtl \in Nat
ASSUME ClaimsAssumption == ClaimsChecked \in BOOLEAN
ASSUME BoundAssumption == MaxPairs \in Nat /\ MaxTime \in Nat

VARIABLES
    now,            \* time.time()
    pairs,          \* every pair issued: its user, its iat claim and the
                    \* login (first pair of the chain of refreshes) it belongs to
    revoked,        \* _revoked
    refreshStore,   \* the keys of _refresh_store
    loggedOut       \* history: per user, the pairs issued before revoke_all

vars == <<now, pairs, revoked, refreshStore, loggedOut>>

Pair == [user : Users, iat : Nat, login : Nat]
Token == [type : {"access", "refresh"}, pair : DOMAIN pairs]

Access(n) == [type |-> "access", pair |-> n]
Refresh(n) == [type |-> "refresh", pair |-> n]

TtlOf(tok) == IF tok.type = "access" THEN AccessTtl ELSE RefreshTtl

\* _decode() returns the payload unless PyJWT finds the token expired or
\* without the iss or aud claim it is told to check; issue() puts these
\* claims into access tokens only.
Decodes(tok) ==
    /\ now < pairs[tok.pair].iat + TtlOf(tok)
    /\ ClaimsChecked => tok.type = "access"

\* verify_access_token() and verify_refresh_token() return a payload.
Verifies(tok) == Decodes(tok) /\ tok \notin revoked

Init ==
    /\ now = 0
    /\ pairs = << >>
    /\ revoked = {}
    /\ refreshStore = {}
    /\ loggedOut = [u \in Users |-> 0]

-----------------------------------------------------------------------------

\* What every issue() does: the new pair goes to the client, its metadata to
\* the store, here given as what is left of it before.
IssueStoresOnly(u, login, store) ==
    /\ UNCHANGED pairs
    /\ refreshStore' = store \cup {Len(pairs) + 1}

IssuePair(u, login, store) ==
    /\ pairs' = Append(pairs, [user |-> u, iat |-> now, login |-> login])
    /\ refreshStore' = store \cup {Len(pairs) + 1}

\* issue() for a user who logs in.
Issue(u) ==
    /\ Len(pairs) < MaxPairs
    /\ IssuePair(u, Len(pairs) + 1, refreshStore)
    /\ UNCHANGED <<now, revoked, loggedOut>>

\* The tokens refresh() revokes: the refresh token itself and, when its
\* metadata is still stored, the access token issued with it.
SupersededKeepsAccess(n) == {Refresh(n)}
SupersededKeepsRefresh(n) == IF n \in refreshStore THEN {Access(n)} ELSE {}

Superseded(n) ==
    {Refresh(n)} \cup (IF n \in refreshStore THEN {Access(n)} ELSE {})

\* refresh(): the presented refresh token verifies; a new pair replaces it.
RefreshPair(n) ==
    /\ Len(pairs) < MaxPairs
    /\ Verifies(Refresh(n))
    /\ revoked' = revoked \cup Superseded(n)
    /\ IssuePair(pairs[n].user, pairs[n].login, refreshStore \ {n})
    /\ UNCHANGED <<now, loggedOut>>

\* revoke(): the token is decoded first, so an expired one is not recorded.
Revoke(tok) ==
    /\ Decodes(tok)
    /\ revoked' = revoked \cup {tok}
    /\ UNCHANGED <<now, pairs, refreshStore, loggedOut>>

\* revoke_by_jti(): no check at all.
RevokeByJti(tok) ==
    /\ revoked' = revoked \cup {tok}
    /\ UNCHANGED <<now, pairs, refreshStore, loggedOut>>

\* The pairs revoke_all() walks over: the user's entries of _refresh_store.
StoredForSkipsNewest(u) ==
    {n \in refreshStore : pairs[n].user = u /\ n < Len(pairs)}

StoredFor(u) == {n \in refreshStore : pairs[n].user = u}

RevokeAll(u) ==
    /\ revoked' = revoked \cup {Access(n) : n \in StoredFor(u)}
                          \cup {Refresh(n) : n \in StoredFor(u)}
    /\ refreshStore' = refreshStore \ StoredFor(u)
    /\ loggedOut' = [loggedOut EXCEPT ![u] = Len(pairs)]
    /\ UNCHANGED <<now, pairs>>

Tick ==
    /\ now < MaxTime
    /\ now' = now + 1
    /\ UNCHANGED <<pairs, revoked, refreshStore, loggedOut>>

Next ==
    \/ \E u \in Users : Issue(u) \/ RevokeAll(u)
    \/ \E n \in DOMAIN pairs : RefreshPair(n)
    \/ \E tok \in Token : Revoke(tok) \/ RevokeByJti(tok)
    \/ Tick

\* One process that is never restarted.
Spec == Init /\ [][Next]_vars

-----------------------------------------------------------------------------

\* Every variable has its type: the keys of _refresh_store and the revoked
\* tokens were issued, and no user is logged out of pairs yet to come.
TypeOK ==
    /\ now \in Nat
    /\ pairs \in Seq(Pair)
    /\ revoked \subseteq Token
    /\ refreshStore \subseteq DOMAIN pairs
    /\ loggedOut \in [Users -> 0 .. Len(pairs)]

\* revoke_all() only reaches pairs whose metadata is still stored.  That is
\* enough: a pair that left _refresh_store left it with both tokens revoked.
DroppedPairIsRevoked ==
    \A n \in DOMAIN pairs \ refreshStore : {Access(n), Refresh(n)} \subseteq revoked

\* After revoke_all(user) no token issued to the user before verifies again,
\* whichever refreshes and single revocations came before or after it.
RevokeAllReachesEveryToken ==
    \A tok \in Token :
        tok.pair <= loggedOut[pairs[tok.pair].user] => ~ Verifies(tok)

\* Rotation: of all the pairs that a login was refreshed into, only the
\* newest can still verify; a refresh token is never exchanged twice and the
\* access token issued with it ends with it.
OnlyNewestPairLives ==
    \A m, n \in DOMAIN pairs :
        m < n /\ pairs[m].login = pairs[n].login
            => {Access(m), Refresh(m)} \subseteq revoked

-----------------------------------------------------------------------------

Status(tok) ==
    IF tok.pair \notin DOMAIN pairs THEN "unborn"
    ELSE IF tok \in revoked THEN "void"
    ELSE IF now >= pairs[tok.pair].iat + TtlOf(tok) THEN "lapsed" ELSE "valid"

Tokens == [type : {"access", "refresh"}, pair : 1 .. MaxPairs]

AsCredentials == INSTANCE Credentials WITH
    Ids <- Tokens, Renewable <- FALSE, status <- [tok \in Tokens |-> Status(tok)]

\* A token is issued once; revoked or replaced by a refresh it is void for
\* good, expired it can only become void.
TokensAreCredentials == AsCredentials!Spec
=============================================================================
