---------------------------- MODULE PasswordResets ----------------------------
(***************************************************************************)
(* Passwords of an account and the tokens to reset them                    *)
(* (src/core/auth/password.py): PasswordHasher with what verify() and      *)
(* needs_rehash() make of stored hashes, PasswordValidator, and            *)
(* PasswordResetManager used as its docstring shows: verify the token, set *)
(* the new hash, consume the token.  There are awaits between the three,   *)
(* so two clients may hold the same token.                                 *)
(*                                                                         *)
(* A hash is what it was made with; the libraries are external.  An        *)
(* address is the key of its lower case.                                   *)
(***************************************************************************)
EXTENDS Naturals, Sequences

CONSTANTS
    Emails, Lower,          \* addresses as they are typed, and their lower case
    Passwords, Weak,        \* those the validator finds fault with
    Hashers,                \* [algorithm, rounds] the deployment goes through
    Clients, NoToken, Ttl, MaxTokens, MaxTime

ResetsAssumption ==
    /\ Lower \in [Emails -> Emails] /\ \A e \in Emails : Lower[Lower[e]] = Lower[e]
    /\ Weak \subseteq Passwords
    /\ Hashers \subseteq [algorithm : {"bcrypt", "argon2", "scrypt"}, rounds : Nat]
    /\ Ttl \in Nat /\ MaxTokens \in Nat /\ MaxTime \in Nat
    /\ NoToken \notin Nat \cup [token : Nat, expires : Nat]

VARIABLES
    hasher,         \* of this deployment
    account,        \* address -> the stored hash
    chosen,         \* address -> the password last set for it (history)
    resets,         \* _tokens: address -> [token, expires] or NoToken
    given,          \* token -> address it was created for
    client,         \* client -> the token it has verified and not yet consumed
    consumed,       \* tokens consume() returned True for, with repetitions counted
    time

vars == <<hasher, account, chosen, resets, given, client, consumed, time>>

Accounts == {Lower[e] : e \in Emails}
Tokens == 1..MaxTokens
Made(p, h) == [password |-> p, by |-> h]
Hashes == [password : Passwords, by : Hashers]

TypeOK ==
    /\ hasher \in Hashers /\ account \in [Accounts -> Hashes] /\ chosen \in [Accounts -> Passwords]
    /\ \A e \in Accounts : resets[e] \in {NoToken} \cup [token : Tokens, expires : 0..MaxTime + Ttl]
    /\ given \in Seq(Accounts)
    /\ client \in [Clients -> Tokens \cup {NoToken}] /\ consumed \in [Tokens -> Nat]
    /\ time \in 0..MaxTime

Init ==
    /\ hasher \in Hashers
    /\ \E p \in Passwords \ Weak :
        /\ account = [e \in Accounts |-> Made(p, hasher)]
        /\ chosen = [e \in Accounts |-> p]
    /\ resets = [e \in Accounts |-> NoToken] /\ given = <<>>
    /\ client = [c \in Clients |-> NoToken] /\ consumed = [t \in Tokens |-> 0] /\ time = 0

\* A verify that trusts the configuration.
Verifies_Configured(p, hash) == hash.by.algorithm = hasher.algorithm /\ hash.password = p

\* verify() finds the algorithm in the hash, not in the configuration.
Verifies(p, hash) == hash.by.algorithm \in {"bcrypt", "argon2", "scrypt"} /\ hash.password = p

\* Only a hasher configured for bcrypt ever asks for another hash.
NeedsRehash(hash) == hasher.algorithm = "bcrypt" /\ hash.by # hasher

IsValid(p) == p \notin Weak

\* A login that succeeds may bring the hash up to date.
Login(e, p) ==
    /\ Verifies(p, account[e]) /\ NeedsRehash(account[e])
    /\ account' = [account EXCEPT ![e] = Made(p, hasher)]
    /\ UNCHANGED <<hasher, chosen, resets, given, client, consumed, time>>

Deploy(h) ==
    /\ hasher' = h
    /\ UNCHANGED <<account, chosen, resets, given, client, consumed, time>>

\* create() replaces the token that address had.
Create(e) ==
    LET token == Len(given) + 1
    IN  /\ token <= MaxTokens
        /\ given' = Append(given, Lower[e])
        /\ resets' = [resets EXCEPT ![Lower[e]] = [token |-> token, expires |-> time + Ttl]]
        /\ UNCHANGED <<hasher, account, chosen, client, consumed, time>>

IsExpired(e) == resets[e] # NoToken /\ time > resets[e].expires

\* What verify() leaves and whether it accepts.
Checked(e) == IF IsExpired(e) THEN [resets EXCEPT ![e] = NoToken] ELSE resets
Accepts(e, t) == resets[e] # NoToken /\ ~ IsExpired(e) /\ resets[e].token = t

Verify(c, e, t) ==
    /\ client[c] = NoToken
    /\ resets' = Checked(Lower[e])
    /\ client' = [client EXCEPT ![c] = IF Accepts(Lower[e], t) THEN t ELSE NoToken]
    /\ UNCHANGED <<hasher, account, chosen, given, consumed, time>>

SetPassword(c, p) ==
    /\ client[c] # NoToken /\ IsValid(p)
    /\ account' = [account EXCEPT ![given[client[c]]] = Made(p, hasher)]
    /\ chosen' = [chosen EXCEPT ![given[client[c]]] = p]
    /\ UNCHANGED <<hasher, resets, given, client, consumed, time>>

\* A consume that only answers.
Removed_Never(e) == resets

Removed(e) == [resets EXCEPT ![e] = NoToken]

Consume(c) ==
    /\ client[c] # NoToken
    /\ LET t == client[c]
           e == given[t]
       IN  /\ resets' = IF Accepts(e, t) THEN Removed(e) ELSE Checked(e)
           /\ consumed' = [consumed EXCEPT ![t] = @ + IF Accepts(e, t) THEN 1 ELSE 0]
    /\ client' = [client EXCEPT ![c] = NoToken]
    /\ UNCHANGED <<hasher, account, chosen, given, time>>

ClearExpired ==
    /\ resets' = [e \in Accounts |-> IF IsExpired(e) THEN NoToken ELSE resets[e]]
    /\ UNCHANGED <<hasher, account, chosen, given, client, consumed, time>>

Tick == time < MaxTime /\ time' = time + 1
    /\ UNCHANGED <<hasher, account, chosen, resets, given, client, consumed>>

Next ==
    \/ \E e \in Emails : Create(e)
    \/ \E e \in Accounts, p \in Passwords : Login(e, p)
    \/ \E h \in Hashers : Deploy(h)
    \/ \E c \in Clients, e \in Emails, t \in DOMAIN given : Verify(c, e, t)
    \/ \E c \in Clients, p \in Passwords : SetPassword(c, p)
    \/ \E c \in Clients : Consume(c)
    \/ ClearExpired \/ Tick

Spec == Init /\ [][Next]_vars

-----------------------------------------------------------------------------

Status(t) ==
    IF t \notin DOMAIN given THEN "unborn"
    ELSE IF resets[given[t]] = NoToken \/ resets[given[t]].token # t THEN "void"
    ELSE IF IsExpired(given[t]) THEN "lapsed" ELSE "valid"

AsCredentials == INSTANCE Credentials WITH
    Ids <- Tokens, Renewable <- FALSE, status <- [t \in Tokens |-> Status(t)]

\* A reset token that was replaced, consumed or cleared away is void for good,
\* and one that has expired never counts again.
ResetsAreCredentials == AsCredentials!Spec

\* Through changes of the hasher, logins that bring hashes up to date and
\* racing resets, the stored hash verifies the password last set, which the
\* validator accepted, and no other; and consume() accepts a token once.
PasswordHolds ==
    /\ \A e \in Accounts : IsValid(chosen[e])
        /\ \A p \in Passwords : Verifies(p, account[e]) <=> p = chosen[e]
    /\ \A t \in Tokens : consumed[t] <= 1
===============================================================================
