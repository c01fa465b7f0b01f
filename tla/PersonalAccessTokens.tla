------------------------- MODULE PersonalAccessTokens -------------------------
(***************************************************************************)
(* The personal access tokens of src/core/auth/tokens.py: server processes *)
(* that each have a PersonalAccessTokenManager with a _memory of its own   *)
(* and share one store.  create(), verify() and revoke() await the store,  *)
(* so that other calls run between a process's two accesses.               *)
(*                                                                         *)
(* The store (a repository over the database) is external: create adds a   *)
(* row and returns its id, find_by reads it, delete_by_id removes it.      *)
(* Tokens are numbered in the order of creation and the number also stands *)
(* for the hash and for the id of the row.                                 *)
(*                                                                         *)
(* Left out: names and scopes, which play no part in revocation.           *)
(*                                                                         *)
(* A definition whose name ends in _ and a slip is a mutant of the         *)
(* definition it is named after; nothing uses it.                          *)
(***************************************************************************)
EXTENDS Naturals, Sequences, TLAPS

CONSTANTS
    Processes,      \* the server processes
    Users,          \* the users tokens are created for
    MaxTokens,      \* bound: tokens created in one behaviour
    RevokeKeys      \* what a caller of revoke() names: sets of "id", "hash"

RevokeAssumption == RevokeKeys \subseteq SUBSET {"id", "hash"}
BoundAssumption == MaxTokens \in Nat

VARIABLES
    tokens,         \* every token created: its user, its creator, and whether
                    \* create() is still waiting for the store
    memory,         \* per process the tokens in _memory
    store,          \* the tokens that have a row in the store
    expired,        \* the tokens whose expires_at has passed
    revokes,        \* the revoke() calls that wait for the store's delete
    asked,          \* history: the tokens whose revocation was asked for
    revoked         \* history: the tokens a revoke() has returned for

vars == <<tokens, memory, store, expired, revokes, asked, revoked>>

Token == [user : Users, by : Processes, state : {"creating", "created", "crashed"}]

Init ==
    /\ tokens = << >>
    /\ memory = [p \in Processes |-> {}]
    /\ store = {}
    /\ expired = {}
    /\ revokes = {}
    /\ asked = {}
    /\ revoked = {}

Ids == DOMAIN tokens

\* verify() at process p returns the token: it is in _memory or, failing
\* that, in the store, and has not expired.
Verifies(p, n) == (n \in memory[p] \/ n \in store) /\ n \notin expired

-----------------------------------------------------------------------------

\* create() up to the await on the store.
Create(p, u) ==
    /\ Len(tokens) < MaxTokens
    /\ tokens' = Append(tokens, [user |-> u, by |-> p, state |-> "creating"])
    /\ memory' = [memory EXCEPT ![p] = @ \cup {Len(tokens) + 1}]
    /\ UNCHANGED <<store, expired, revokes, asked, revoked>>

\* What the store holds once create() has written token n.
Saved_Never(n) == store
Saved(n) == store \cup {n}

CreateStored(n) ==
    /\ tokens[n].state = "creating"
    /\ tokens' = [tokens EXCEPT ![n].state = "created"]
    /\ store' = Saved(n)
    /\ UNCHANGED <<memory, expired, revokes, asked, revoked>>

\* revoke() at process p up to the await on the store, which it only reaches
\* for an id; without one it returns here.
RevokedMemory_Kept(p, n, keys) == memory
RevokedMemory(p, n, keys) ==
    IF "hash" \in keys THEN [memory EXCEPT ![p] = @ \ {n}] ELSE memory

Revoke(p, n, keys) ==
    /\ tokens[n].state = "created"
    /\ memory' = RevokedMemory(p, n, keys)
    /\ revokes' = revokes \cup (IF "id" \in keys THEN {<<p, n>>} ELSE {})
    /\ revoked' = revoked \cup (IF "id" \in keys THEN {} ELSE {n})
    /\ asked' = asked \cup {n}
    /\ UNCHANGED <<tokens, store, expired>>

\* The store deletes the row and revoke() returns.
RevokeStored(p, n) ==
    /\ <<p, n>> \in revokes
    /\ revokes' = revokes \ {<<p, n>>}
    /\ store' = store \ {n}
    /\ revoked' = revoked \cup {n}
    /\ UNCHANGED <<tokens, memory, expired, asked>>

\* revoke_all(): the tokens of the user in _memory.
RevokeAll(p, u) ==
    /\ memory' = [memory EXCEPT ![p] = {n \in @ : tokens[n].user # u}]
    /\ asked' = asked \cup {n \in Ids : tokens[n].user = u /\ tokens[n].state = "created"}
    /\ UNCHANGED <<tokens, store, expired, revokes, revoked>>

Expire(n) ==
    /\ expired' = expired \cup {n}
    /\ UNCHANGED <<tokens, memory, store, revokes, asked, revoked>>

\* A process restarts with an empty _memory; its calls in flight are
\* over: the tokens it was creating were never handed out.
Restart(p) ==
    /\ memory' = [memory EXCEPT ![p] = {}]
    /\ tokens' = [n \in Ids |->
          IF tokens[n].by = p /\ tokens[n].state = "creating"
          THEN [tokens[n] EXCEPT !.state = "crashed"] ELSE tokens[n]]
    /\ revokes' = {r \in revokes : r[1] # p}
    /\ UNCHANGED <<store, expired, asked, revoked>>

Next ==
    \/ \E p \in Processes, u \in Users : Create(p, u) \/ RevokeAll(p, u)
    \/ \E p \in Processes, n \in Ids, keys \in RevokeKeys : Revoke(p, n, keys)
    \/ \E p \in Processes, n \in Ids : RevokeStored(p, n)
    \/ \E n \in Ids : CreateStored(n) \/ Expire(n)
    \/ \E p \in Processes : Restart(p)

Spec == Init /\ [][Next]_vars

-----------------------------------------------------------------------------

\* Every variable has its type: a process remembers only tokens of its own
\* creation, and a row belongs to a create() that got as far as the store.
TypeOK ==
    /\ tokens \in Seq(Token)
    /\ memory \in [Processes -> SUBSET Ids]
    /\ \A p \in Processes : \A n \in memory[p] : tokens[n].by = p
    /\ store \subseteq {n \in Ids : tokens[n].state = "created"}
    /\ expired \subseteq Ids /\ revokes \subseteq Processes \X Ids
    /\ asked \subseteq Ids /\ revoked \subseteq asked

\* A token that create() handed out verifies in every process, across
\* restarts, until it expires or somebody asks for its revocation.
CreatedVerifies ==
    \A n \in Ids :
        /\ tokens[n].state = "created"
        /\ n \notin asked \cup expired
        => \A p \in Processes : Verifies(p, n)

\* After revoke(token_id, token_hash) has returned the token verifies nowhere.
RevokedIsDead ==
    \A n \in revoked, p \in Processes : ~ Verifies(p, n)

-----------------------------------------------------------------------------
(* Proofs of CreatedVerifies, for any processes and any way of revoking,   *)
(* and of RevokedIsDead, for a process alone whose callers name the id and *)
(* the hash.                                                               *)

\* Only tokens that were handed out are revoked, and the row of one that is
\* not stays.
RowsHold ==
    /\ tokens \in Seq(Token) /\ DOMAIN memory = Processes
    /\ asked \subseteq {n \in Ids : tokens[n].state = "created"} /\ revoked \subseteq asked
    /\ \A r \in revokes : r[2] \in asked
    /\ \A n \in Ids : tokens[n].state = "created" /\ n \notin asked \cup expired => n \in store

\* A revoked token is in no _memory, nor is one whose row is about to go.
RevokedForgotten ==
    /\ \A p \in Processes, n \in revoked : n \notin memory[p] /\ n \notin store
    /\ \A p \in Processes, r \in revokes : r[2] \notin memory[p]

\* Every step keeps the row of a token that nobody asked to revoke.
LEMMA StepKeepsRows ==
    ASSUME RowsHold, [Next]_vars
    PROVE  RowsHold'
<1> USE DEF Ids
<1>1. ASSUME NEW p \in Processes, NEW u \in Users, Create(p, u) PROVE RowsHold'
  <2> DEFINE token == [user |-> u, by |-> p, state |-> "creating"]
  <2>1. token \in Token /\ tokens' = Append(tokens, token)
    BY <1>1 DEF Create, Token
  <2>2. /\ tokens' \in Seq(Token) /\ DOMAIN tokens' = DOMAIN tokens \cup {Len(tokens) + 1}
        /\ \A n \in DOMAIN tokens : tokens'[n] = tokens[n]
        /\ tokens'[Len(tokens) + 1] = token
    BY <2>1 DEF RowsHold
  <2>3. DOMAIN memory' = Processes /\ UNCHANGED <<store, expired, revokes, asked, revoked>>
    BY <1>1 DEF Create, RowsHold
  <2> QED
    BY <2>2, <2>3 DEF RowsHold
<1>2. ASSUME NEW n \in Ids, CreateStored(n) PROVE RowsHold'
  <2>1. /\ tokens' \in Seq(Token) /\ DOMAIN tokens' = DOMAIN tokens
        /\ \A m \in DOMAIN tokens \ {n} : tokens'[m] = tokens[m]
        /\ tokens'[n].state = "created"
    <3>1. /\ tokens[n] \in Token /\ tokens \in Seq(Token)
          /\ tokens' = [tokens EXCEPT ![n] = [tokens[n] EXCEPT !.state = "created"]]
      BY <1>2 DEF CreateStored, RowsHold
    <3>2. /\ [tokens[n] EXCEPT !.state = "created"] \in Token
          /\ [tokens[n] EXCEPT !.state = "created"].state = "created"
      BY <3>1 DEF Token
    <3>3. \A token \in Token : tokens' = [tokens EXCEPT ![n] = token] => tokens' \in Seq(Token)
      BY <3>1
    <3>4. DOMAIN tokens' = DOMAIN tokens /\ tokens'[n] = [tokens[n] EXCEPT !.state = "created"]
      BY <1>2, <3>1
    <3> QED
      BY <3>1, <3>2, <3>3, <3>4
  <2> QED
    BY <1>2, <2>1 DEF CreateStored, Saved, RowsHold
<1>3. ASSUME NEW p \in Processes, NEW n \in Ids, NEW keys \in RevokeKeys, Revoke(p, n, keys)
      PROVE  RowsHold'
  <2>1. DOMAIN memory' = Processes
    BY <1>3 DEF Revoke, RevokedMemory, RowsHold
  <2>2. /\ UNCHANGED <<tokens, store, expired>> /\ asked' = asked \cup {n}
        /\ tokens[n].state = "created"
        /\ revokes' \subseteq revokes \cup {<<p, n>>} /\ revoked' \subseteq revoked \cup {n}
    BY <1>3 DEF Revoke
  <2>3. \A r \in revokes' : r[2] \in asked'
    BY <2>2 DEF RowsHold
  <2> QED
    BY <2>1, <2>2, <2>3 DEF RowsHold
<1>4. ASSUME NEW p \in Processes, NEW n \in Ids, RevokeStored(p, n) PROVE RowsHold'
  <2>1. n \in asked
    BY <1>4 DEF RevokeStored, RowsHold
  <2> QED
    BY <1>4, <2>1 DEF RevokeStored, RowsHold
<1>5. ASSUME NEW p \in Processes, NEW u \in Users, RevokeAll(p, u) PROVE RowsHold'
  BY <1>5 DEF RevokeAll, RowsHold
<1>6. ASSUME NEW n \in Ids, Expire(n) PROVE RowsHold'
  BY <1>6 DEF Expire, RowsHold
<1>7. ASSUME NEW p \in Processes, Restart(p) PROVE RowsHold'
  <2>1. \A n \in DOMAIN tokens : tokens[n] \in Token
    BY DEF RowsHold
  <2>2. \A n \in DOMAIN tokens : [tokens[n] EXCEPT !.state = "crashed"] \in Token
    BY <2>1 DEF Token
  <2>3. tokens' \in Seq(Token) /\ DOMAIN tokens' = DOMAIN tokens
    BY <1>7, <2>1, <2>2 DEF Restart, RowsHold
  <2>4. \A n \in DOMAIN tokens : tokens'[n].state = "created" <=> tokens[n].state = "created"
    BY <1>7, <2>1 DEF Restart, Token
  <2>5. /\ DOMAIN memory' = Processes /\ UNCHANGED <<store, expired, asked, revoked>>
        /\ revokes' \subseteq revokes
    BY <1>7 DEF Restart, RowsHold
  <2> QED
    BY <2>3, <2>4, <2>5 DEF RowsHold
<1>8. CASE UNCHANGED vars
  BY <1>8 DEF vars, RowsHold
<1> QED
  BY <1>1, <1>2, <1>3, <1>4, <1>5, <1>6, <1>7, <1>8 DEF Next

\* In a process alone a revocation by id and hash empties the _memory first.
LEMMA StepKeepsForgotten ==
    ASSUME RowsHold, RevokedForgotten, [Next]_vars, RevokeKeys \subseteq {{"id", "hash"}},
           \A p, q \in Processes : p = q
    PROVE  RevokedForgotten'
<1> USE DEF Ids
<1>0. /\ DOMAIN memory = Processes /\ revoked \subseteq asked /\ \A r \in revokes : r[2] \in asked
      /\ \A n \in asked : n \in DOMAIN tokens /\ tokens[n].state = "created"
      /\ Len(tokens) + 1 \notin DOMAIN tokens
  BY DEF RowsHold
<1>1. ASSUME NEW p \in Processes, NEW u \in Users, Create(p, u) PROVE RevokedForgotten'
  BY <1>0, <1>1 DEF Create, RevokedForgotten
<1>2. ASSUME NEW n \in Ids, CreateStored(n) PROVE RevokedForgotten'
  BY <1>0, <1>2 DEF CreateStored, Saved, RevokedForgotten
<1>3. ASSUME NEW p \in Processes, NEW n \in Ids, NEW keys \in RevokeKeys, Revoke(p, n, keys)
      PROVE  RevokedForgotten'
  <2>1. keys = {"id", "hash"}
    OBVIOUS
  <2>2. /\ UNCHANGED <<store, revoked>> /\ revokes' = revokes \cup {<<p, n>>}
        /\ memory' = [memory EXCEPT ![p] = @ \ {n}]
    BY <1>3, <2>1 DEF Revoke, RevokedMemory
  <2>3. \A q \in Processes : memory'[q] \subseteq memory[q] /\ n \notin memory'[q]
    BY <1>0, <2>2
  <2> QED
    BY <2>2, <2>3 DEF RevokedForgotten
<1>4. ASSUME NEW p \in Processes, NEW n \in Ids, RevokeStored(p, n) PROVE RevokedForgotten'
  <2>1. \A q \in Processes : n \notin memory[q]
    BY <1>4 DEF RevokeStored, RevokedForgotten
  <2> QED
    BY <1>4, <2>1 DEF RevokeStored, RevokedForgotten
<1>5. ASSUME NEW p \in Processes, NEW u \in Users, RevokeAll(p, u) PROVE RevokedForgotten'
  <2>1. \A q \in Processes : memory'[q] \subseteq memory[q]
    BY <1>0, <1>5 DEF RevokeAll
  <2> QED
    BY <1>5, <2>1 DEF RevokeAll, RevokedForgotten
<1>6. ASSUME NEW n \in Ids, Expire(n) PROVE RevokedForgotten'
  BY <1>6 DEF Expire, RevokedForgotten
<1>7. ASSUME NEW p \in Processes, Restart(p) PROVE RevokedForgotten'
  <2>1. \A q \in Processes : memory'[q] \subseteq memory[q]
    BY <1>0, <1>7 DEF Restart
  <2> QED
    BY <1>7, <2>1 DEF Restart, RevokedForgotten
<1>8. CASE UNCHANGED vars
  BY <1>8 DEF vars, RevokedForgotten
<1> QED
  BY <1>1, <1>2, <1>3, <1>4, <1>5, <1>6, <1>7, <1>8 DEF Next

\* There is no token at the start.
LEMMA TokensStart == Init => RowsHold /\ RevokedForgotten
BY DEF Init, RowsHold, RevokedForgotten, Ids

\* The invariant means that tokens verify, and that revoked ones do not.
LEMMA RowsMeanVerified ==
    (RowsHold => CreatedVerifies) /\ (RevokedForgotten => RevokedIsDead)
BY DEF RowsHold, RevokedForgotten, CreatedVerifies, RevokedIsDead, Verifies

\* A token create() handed out verifies everywhere until it expires or its
\* revocation is asked for, whoever crashes: its row stays.
THEOREM CreatedTokensVerify == Spec => []CreatedVerifies
<1>1. Init => RowsHold
  BY TokensStart
<1>2. RowsHold /\ [Next]_vars => RowsHold'
  BY StepKeepsRows
<1>3. RowsHold => CreatedVerifies
  BY RowsMeanVerified
<1> QED
  BY <1>1, <1>2, <1>3, PTL DEF Spec

\* In a process alone a token revoked by id and hash verifies nowhere.
THEOREM RevokedTokensAreDead ==
    /\ RevokeKeys \subseteq {{"id", "hash"}} /\ \A p, q \in Processes : p = q
    /\ Spec
    => []RevokedIsDead
<1> SUFFICES ASSUME RevokeKeys \subseteq {{"id", "hash"}}, \A p, q \in Processes : p = q
             PROVE  Spec => []RevokedIsDead
  OBVIOUS
<1>1. Init => RowsHold /\ RevokedForgotten
  BY TokensStart
<1>2. RowsHold /\ RevokedForgotten /\ [Next]_vars => RowsHold' /\ RevokedForgotten'
  BY StepKeepsRows, StepKeepsForgotten
<1>3. RevokedForgotten => RevokedIsDead
  BY RowsMeanVerified
<1> QED
  BY <1>1, <1>2, <1>3, PTL DEF Spec
===============================================================================
