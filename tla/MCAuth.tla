-------------------------------- MODULE MCAuth --------------------------------
(***************************************************************************)
(* The components of src/core/auth: the token manager, the login throttle, *)
(* the personal access tokens, sessions, password resets, second factors,  *)
(* auth events, the access decisions and the guards.  They share nothing,  *)
(* so each behaviour exercises one of them, chosen at the start: an        *)
(* invariant of a component cannot tell.  The variables of the others stay *)
(* as they start, or are 0.                                                *)
(*                                                                         *)
(* What AuthProofs proves it proves for all values of the constants; those *)
(* that are functions have their values for TLC here, as MC definitions.   *)
(***************************************************************************)
EXTENDS TokenManager, TLC

CONSTANTS
    None,       \* no token, no record, no codes, no user, no answer
    SessionTtl, MaxSessions, MaxSessionTime,                            \* SessionManager
    Emails, Lower, Passwords, Weak, Hashers, Clients,                   \* PasswordResets
    ResetTtl, MaxResets, MaxResetTime,
    Drift, CodeCount, MaxGenerated, MaxStep,                            \* MFAManager
    EventTypes, BaseEvent, Listeners, Tasks, MaxDispatches, MaxRegistered,  \* AuthEventDispatcher
    k1, k2, k3, p1, p2, p3

VARIABLES
    component,                                                      \* of this behaviour
    clock, attempts, lockouts, hits,                                \* LoginThrottle
    tokens, memory, store, expired, revokes, asked, deleted,        \* PersonalAccessTokens
    sessions, owners, sessionTime,                                  \* SessionManager
    hasher, account, chosen, resets, given, client, consumed, resetTime,    \* PasswordResets
    records, generated, step, proved, spent, renewed,               \* MFAManager
    listeners, walks, dispatches,                                   \* AuthEventDispatcher
    before, after, ability, policy, roles, permissions,             \* AccessManager
    guards, default, live, known                                    \* GuardManager

throttleVars == <<clock, attempts, lockouts, hits>>
accessVars == <<tokens, memory, store, expired, revokes, asked, deleted>>
sessionVars == <<sessions, owners, sessionTime>>
resetVars == <<hasher, account, chosen, resets, given, client, consumed, resetTime>>
factorVars == <<records, generated, step, proved, spent, renewed>>
eventVars == <<listeners, walks, dispatches>>
decisionVars == <<before, after, ability, policy, roles, permissions>>
guardVars == <<guards, default, live, known>>
accountVars == <<sessionVars, resetVars, factorVars, eventVars, decisionVars, guardVars>>

\* The lockout outlasts the decay window, and the other way round.
ShortDecay == INSTANCE LoginThrottle WITH
    Keys <- {k1, k2}, MaxAttempts <- 2, Lockout <- 3, Decay <- 2, MaxHits <- 3, MaxTime <- 6,
    now <- clock
LongDecay == INSTANCE LoginThrottle WITH
    Keys <- {k3}, MaxAttempts <- 3, Lockout <- 2, Decay <- 4, MaxHits <- 6, MaxTime <- 9,
    now <- clock

\* A token is revoked by id, by hash or by both; in the process alone by both.
Shared == INSTANCE PersonalAccessTokens WITH
    Processes <- {p1, p2}, MaxTokens <- 2, RevokeKeys <- {{"id"}, {"hash"}, {"id", "hash"}},
    revoked <- deleted
Alone == INSTANCE PersonalAccessTokens WITH
    Processes <- {p3}, MaxTokens <- 3, RevokeKeys <- {{"id", "hash"}},
    revoked <- deleted

Sessions == INSTANCE SessionManager WITH
    Ttl <- SessionTtl, MaxTime <- MaxSessionTime, time <- sessionTime

\* One account under two spellings, whose hashes were made by this deployment's
\* hasher or will be; a password the validator finds fault with.
MCLower == [e \in {"ann", "Ann"} |-> "ann"]
MCHashers == {[algorithm |-> "bcrypt", rounds |-> 10], [algorithm |-> "bcrypt", rounds |-> 12],
              [algorithm |-> "argon2", rounds |-> 0]}

Resets == INSTANCE PasswordResets WITH
    Ttl <- ResetTtl, MaxTokens <- MaxResets, MaxTime <- MaxResetTime, NoToken <- None,
    time <- resetTime

Factors == INSTANCE MFAManager WITH Count <- CodeCount, NoRecord <- None, NoCodes <- None

Events == INSTANCE AuthEventDispatcher WITH Types <- EventTypes, Base <- BaseEvent

Decisions == INSTANCE AccessManager WITH
    Roles <- {"admin"}, User <- "user", Undefined <- None, MaxHooks <- 2

Guards == INSTANCE GuardManager WITH
    Users <- {"ann", "ben"}, Credentials <- {"k1", "k2"}, OwnerOf <- ("k1" :> "ann") @@ ("k2" :> "ben"),
    NoUser <- None, NoCredential <- None, Malformed <- "malformed"

ASSUME ThrottleAssumptions ==
    /\ ShortDecay!ThrottleAssumption /\ ShortDecay!BoundAssumption
    /\ LongDecay!ThrottleAssumption /\ LongDecay!BoundAssumption
ASSUME AccessAssumptions ==
    /\ Shared!RevokeAssumption /\ Shared!BoundAssumption
    /\ Alone!RevokeAssumption /\ Alone!BoundAssumption
ASSUME SessionsAssumption == Sessions!SessionsAssumption
ASSUME ResetsAssumption == Resets!ResetsAssumption
ASSUME FactorsAssumption == Factors!MFAAssumption
ASSUME EventsAssumption == Events!EventsAssumption
ASSUME DecisionsAssumption == Decisions!AccessAssumption
ASSUME GuardsAssumption == Guards!GuardAssumption

AccountComponents == {"sessions", "resets", "factors", "events", "decisions", "guards"}

AccountsInit ==
    /\ IF component = "sessions" THEN Sessions!Init
       ELSE sessions = 0 /\ owners = 0 /\ sessionTime = 0
    /\ IF component = "resets" THEN Resets!Init
       ELSE /\ hasher = 0 /\ account = 0 /\ chosen = 0 /\ resets = 0
            /\ given = 0 /\ client = 0 /\ consumed = 0 /\ resetTime = 0
    /\ IF component = "factors" THEN Factors!Init
       ELSE records = 0 /\ generated = 0 /\ step = 0 /\ proved = 0 /\ spent = 0 /\ renewed = 0
    /\ IF component = "events" THEN Events!Init
       ELSE listeners = 0 /\ walks = 0 /\ dispatches = 0
    /\ IF component = "decisions" THEN Decisions!Init
       ELSE /\ before = 0 /\ after = 0 /\ ability = 0 /\ policy = 0
            /\ roles = 0 /\ permissions = 0
    /\ IF component = "guards" THEN Guards!Init
       ELSE guards = 0 /\ default = 0 /\ live = 0 /\ known = 0

AccountsNext ==
    /\ UNCHANGED component
    /\ \/ /\ component = "sessions" /\ Sessions!Next
          /\ UNCHANGED <<resetVars, factorVars, eventVars, decisionVars, guardVars>>
       \/ /\ component = "resets" /\ Resets!Next
          /\ UNCHANGED <<sessionVars, factorVars, eventVars, decisionVars, guardVars>>
       \/ /\ component = "factors" /\ Factors!Next
          /\ UNCHANGED <<sessionVars, resetVars, eventVars, decisionVars, guardVars>>
       \/ /\ component = "events" /\ Events!Next
          /\ UNCHANGED <<sessionVars, resetVars, factorVars, decisionVars, guardVars>>
       \/ /\ component = "decisions" /\ Decisions!Next
          /\ UNCHANGED <<sessionVars, resetVars, factorVars, eventVars, guardVars>>
       \/ /\ component = "guards" /\ Guards!Next
          /\ UNCHANGED <<sessionVars, resetVars, factorVars, eventVars, decisionVars>>

MCInit ==
    /\ component \in {"tokens", "short", "long", "shared", "alone"} \cup AccountComponents
    /\ Init
    /\ IF component = "long" THEN LongDecay!Init ELSE ShortDecay!Init
    /\ IF component = "alone" THEN Alone!Init ELSE Shared!Init
    /\ AccountsInit

MCNext ==
    \/ /\ component = "tokens" /\ Next
       /\ UNCHANGED <<component, throttleVars, accessVars, accountVars>>
    \/ /\ UNCHANGED <<component, vars, accessVars, accountVars>>
       /\ \/ component = "short" /\ ShortDecay!Next
          \/ component = "long" /\ LongDecay!Next
    \/ /\ UNCHANGED <<component, vars, throttleVars, accountVars>>
       /\ \/ component = "shared" /\ Shared!Next
          \/ component = "alone" /\ Alone!Next
    \/ AccountsNext /\ UNCHANGED <<vars, throttleVars, accessVars>>

allVars == <<component, vars, throttleVars, accessVars, accountVars>>

MCSpec == MCInit /\ [][MCNext]_allVars

Symmetry == Permutations(Users) \cup Permutations({k1, k2}) \cup Permutations({p1, p2})

-----------------------------------------------------------------------------

AccountTypesOK ==
    CASE component = "sessions" -> Sessions!TypeOK
      [] component = "resets" -> Resets!TypeOK
      [] component = "factors" -> Factors!TypeOK
      [] component = "events" -> Events!TypeOK
      [] component = "decisions" -> Decisions!TypeOK
      [] component = "guards" -> Guards!TypeOK
      [] OTHER -> TRUE

\* Every component's variables have their types.
TypesOK ==
    /\ component = "tokens" => TypeOK
    /\ IF component = "long" THEN LongDecay!TypeOK ELSE ShortDecay!TypeOK
    /\ IF component = "alone" THEN Alone!TypeOK ELSE Shared!TypeOK
    /\ AccountTypesOK

\* A login key is locked exactly while max_attempts failures within the decay
\* window call for it, whatever the clean-ups threw away (throttle.py).
LockedExactly == IF component = "long" THEN LongDecay!LockedExactly ELSE ShortDecay!LockedExactly

\* A personal access token that was handed out verifies in every process and
\* after every restart, until it expires or its revocation is asked for; in a
\* process alone, one revoked by id and hash verifies nowhere.
AccessTokensAreExact ==
    IF component = "alone" THEN Alone!CreatedVerifies /\ Alone!RevokedIsDead
    ELSE Shared!CreatedVerifies

\* The stored hash verifies the password last set and no other, and a reset
\* token is consumed once (password.py); a second factor is accepted only from
\* who proved to have its secret, a backup code once (mfa.py).
SecretsHold ==
    /\ component = "resets" => Resets!PasswordHolds
    /\ component = "factors" => Factors!FactorsAreProven

\* A dispatch that is over has reached every listener registered at its start
\* for its type or for every event, in their order (auth_events.py).
ListenersHear == component = "events" => Events!ListenersHear

\* can() decides as the resolution order of gate, policy and roles says
\* (access.py, gate.py, policy.py), and a request is taken to come only from a
\* known user whose credential it carries (guards.py).
AccessIsEntitled ==
    /\ component = "decisions" => Decisions!DecidesAsDocumented
    /\ component = "guards" => Guards!AuthenticatedIsEntitled

\* JWTs, sessions and reset tokens alike are issued once and, when revoked,
\* replaced or used up, void for good; of those that lapsed only a session
\* comes back, by its own touch (tokens.py, session_manager.py, password.py).
ImplementCredentials == [][
    /\ component = "tokens" => AsCredentials!Next
    /\ component = "sessions" => Sessions!AsCredentials!Next
    /\ component = "resets" => Resets!AsCredentials!Next]_allVars
===============================================================================
