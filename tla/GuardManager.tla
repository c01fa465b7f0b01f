----------------------------- MODULE GuardManager -----------------------------
(***************************************************************************)
(* Who a request comes from (src/core/auth/guards.py): the guards for JWT, *)
(* API keys and sessions, the manager and the composite guard that try     *)
(* several.  A request carries credentials in up to five places.  Tokens,  *)
(* keys and session ids are issued to users and revoked meanwhile; their   *)
(* verification is TokenManager's business, the provider's, the session's. *)
(***************************************************************************)
EXTENDS Naturals, Sequences, SequencesExt, FiniteSets

CONSTANTS
    Users, NoUser,
    Credentials,        \* tokens and keys alike
    OwnerOf,            \* credential -> user
    NoCredential,       \* none in that place
    Malformed           \* a header of another scheme

GuardAssumption ==
    /\ OwnerOf \in [Credentials -> Users] /\ NoUser \notin Users
    /\ {NoCredential, Malformed} \cap Credentials = {}

VARIABLES
    guards, default,    \* _guards in their order, _default
    live,               \* credentials that verify
    known               \* users the user provider still finds

vars == <<guards, default, live, known>>

Names == {"jwt", "api_key", "session"}
Places == {"header", "query", "cookie", "key", "session"}
Request == {r \in [Places -> Credentials \cup {NoCredential, Malformed}] :
    \A p \in Places \ {"header"} : r[p] # Malformed}

TypeOK ==
    /\ guards \in Seq(Names) /\ Cardinality(ToSet(guards)) = Len(guards)
    /\ default \in Names
    /\ live \subseteq Credentials /\ known \subseteq Users

Init == guards = <<>> /\ default = "jwt" /\ live = Credentials /\ known = Users

\* The first guard is the default; one that is registered again keeps its place.
Register(name) ==
    /\ guards' = IF Contains(guards, name) THEN guards ELSE Append(guards, name)
    /\ default' = IF Len(guards') = 1 THEN name ELSE default
    /\ UNCHANGED <<live, known>>

SetDefault(name) ==
    /\ Contains(guards, name) /\ default' = name
    /\ UNCHANGED <<guards, live, known>>

Revoke(c) == live' = live \ {c} /\ UNCHANGED <<guards, default, known>>
Forget(u) == known' = known \ {u} /\ UNCHANGED <<guards, default, live>>

Next ==
    \/ \E name \in Names : Register(name) \/ SetDefault(name)
    \/ \E c \in Credentials : Revoke(c)
    \/ \E u \in Users : Forget(u)

Spec == Init /\ [][Next]_vars

-----------------------------------------------------------------------------

\* JWTGuard._extract_token(): the first place that has one.
Token(request) ==
    LET present == SelectSeq(<<request["header"], request["query"], request["cookie"]>>,
                             LAMBDA c : c \in Credentials)
    IN  IF present = <<>> THEN NoCredential ELSE Head(present)

\* A provider nobody asks.
Provided_Always(u) == u

Provided(u) == IF u \in known THEN u ELSE NoUser

\* Guard.user(): a session is taken at its word, a key is the provider's.
GuardUser(name, request) ==
    LET c == CASE name = "jwt" -> Token(request)
               [] name = "api_key" -> request["key"]
               [] name = "session" -> request["session"]
    IN  IF c \notin Credentials \/ (name # "session" /\ c \notin live) THEN NoUser
        ELSE Provided(OwnerOf[c])

\* GuardManager.user_from_any() and CompositeGuard.user(): the first that knows.
UserFromAny(names, request) ==
    LET found == SelectSeq([i \in DOMAIN names |-> GuardUser(names[i], request)],
                           LAMBDA u : u # NoUser)
    IN  IF found = <<>> THEN NoUser ELSE Head(found)

UserOf(request) == IF Contains(guards, default) THEN GuardUser(default, request) ELSE NoUser

-----------------------------------------------------------------------------

\* Whoever a request is taken to come from is a user the provider knows, by a
\* credential in the request that belongs to that user and, unless it is the
\* session, still verifies; and who the default guard recognises is never
\* hidden from those who ask all guards, only taken for another by an earlier.
AuthenticatedIsEntitled ==
    \A request \in Request :
        LET u == UserFromAny(guards, request)
        IN  /\ u # NoUser => u \in known /\ \E p \in Places : request[p] \in Credentials
                    /\ OwnerOf[request[p]] = u /\ (request[p] \in live \/ p = "session")
            /\ UserOf(request) # NoUser => u # NoUser
===============================================================================
