------------------------- MODULE AuthProofs -----------------------------
(***************************************************************************)
(* Proofs about the components of src/core/auth that MCAuth composes, for  *)
(* all values of its constants: token pairs, device sessions, second       *)
(* factors, passwords and resets, auth events, and from them what the run  *)
(* of MCAuth checks of all of them at once.                                *)
(*                                                                         *)
(* Of TokenManager, for any users, ttls and bounds, the inductive          *)
(* invariant is the conjunction of TypeOK,                                 *)
(* DroppedPairIsRevoked, OnlyNewestPairLives and LoggedOutIsRevoked, which *)
(* says RevokeAllReachesEveryToken of the revoked set instead of what      *)
(* verifies (expiry plays no part in the argument), and of                 *)
(* LoginIsIssued: a login is named by its first pair, so a new login is    *)
(* one no earlier pair belongs to.                                         *)
(*                                                                         *)
(* The manager also implements Credentials, provided that a token outlives *)
(* the instant of its issue: every step replaces credentials or lets them  *)
(* lapse, because tokens are revoked for good and pairs are never changed. *)
(***************************************************************************)
EXTENDS MCAuth, TLAPS

Dead(n) == Access(n) \in revoked /\ Refresh(n) \in revoked

LoggedOutIsRevoked ==
    \A n \in DOMAIN pairs : n <= loggedOut[pairs[n].user] => Dead(n)

LoginIsIssued == \A n \in DOMAIN pairs : pairs[n].login \in 1 .. n

IInv ==
    /\ TypeOK
    /\ LoginIsIssued
    /\ DroppedPairIsRevoked
    /\ OnlyNewestPairLives
    /\ LoggedOutIsRevoked

-----------------------------------------------------------------------------

\* A token is the access or the refresh token of its pair.
LEMMA TokenIsAccessOrRefresh ==
    ASSUME NEW tok \in Token
    PROVE  /\ tok.pair \in DOMAIN pairs
           /\ tok = Access(tok.pair) \/ tok = Refresh(tok.pair)
  BY DEF Token, Access, Refresh

\* The two tokens of every issued pair are tokens.
LEMMA PairHasTokens ==
    ASSUME NEW n \in DOMAIN pairs
    PROVE  Access(n) \in Token /\ Refresh(n) \in Token
  BY DEF Token, Access, Refresh

\* Appending a pair keeps the pairs issued before where they are.
LEMMA AppendPair ==
    ASSUME pairs \in Seq(Pair), NEW p \in Pair, pairs' = Append(pairs, p)
    PROVE  /\ pairs' \in Seq(Pair)
           /\ Len(pairs') = Len(pairs) + 1
           /\ DOMAIN pairs' = DOMAIN pairs \cup {Len(pairs) + 1}
           /\ DOMAIN pairs = 1 .. Len(pairs)
           /\ \A n \in DOMAIN pairs : pairs'[n] = pairs[n]
           /\ pairs'[Len(pairs) + 1] = p
           /\ Token \subseteq Token'
  BY DEF Token

\* The empty manager satisfies the invariant.
LEMMA InitInv == Init => IInv
  BY TtlAssumption DEF Init, IInv, TypeOK, DroppedPairIsRevoked,
     OnlyNewestPairLives, LoggedOutIsRevoked, LoginIsIssued, Token

\* Issuing a pair, with the revoked set growing and the presented pair (if
\* any) leaving the store, keeps the types and everything already revoked.
LEMMA IssuePairEffect ==
    ASSUME TypeOK, NEW u \in Users, NEW l \in Nat, NEW S \in SUBSET refreshStore,
           IssuePair(u, l, S), UNCHANGED <<now, loggedOut>>,
           revoked \subseteq revoked', revoked' \subseteq Token
    PROVE  /\ DOMAIN pairs' = DOMAIN pairs \cup {Len(pairs) + 1}
           /\ DOMAIN pairs = 1 .. Len(pairs)
           /\ \A n \in DOMAIN pairs : pairs'[n] = pairs[n]
           /\ pairs'[Len(pairs) + 1] = [user |-> u, iat |-> now, login |-> l]
           /\ refreshStore' = S \cup {Len(pairs) + 1}
           /\ TypeOK'
  <1> DEFINE p == [user |-> u, iat |-> now, login |-> l]
  <1>1. p \in Pair /\ pairs' = Append(pairs, p) /\ pairs \in Seq(Pair)
    BY DEF IssuePair, Pair, TypeOK
  <1>2. /\ pairs' \in Seq(Pair)
        /\ Len(pairs') = Len(pairs) + 1
        /\ DOMAIN pairs' = DOMAIN pairs \cup {Len(pairs) + 1}
        /\ DOMAIN pairs = 1 .. Len(pairs)
        /\ \A n \in DOMAIN pairs : pairs'[n] = pairs[n]
        /\ pairs'[Len(pairs) + 1] = p
        /\ Token \subseteq Token'
    BY <1>1, AppendPair
  <1>3. refreshStore' = S \cup {Len(pairs) + 1}
    BY DEF IssuePair
  <1> HIDE DEF p
  <1>4. TypeOK'
    BY <1>2, <1>3 DEF TypeOK
  <1> QED
    BY <1>2, <1>3, <1>4 DEF p

\* Every call of the manager preserves the invariant.
LEMMA NextInv == IInv /\ [Next]_vars => IInv'
<1> SUFFICES ASSUME IInv, [Next]_vars PROVE IInv'
  OBVIOUS
<1> USE DEF IInv
<1>0. /\ DOMAIN pairs = 1 .. Len(pairs) /\ Len(pairs) \in Nat
      /\ \A n \in DOMAIN pairs : pairs[n] \in Pair
  BY DEF TypeOK
<1>1. ASSUME NEW u \in Users, Issue(u) PROVE IInv'
  <2> DEFINE new == Len(pairs) + 1
  <2>1. /\ DOMAIN pairs' = DOMAIN pairs \cup {new}
        /\ \A n \in DOMAIN pairs : pairs'[n] = pairs[n]
        /\ pairs'[new] = [user |-> u, iat |-> now, login |-> new]
        /\ refreshStore' = refreshStore \cup {new}
        /\ UNCHANGED <<revoked, loggedOut>>
        /\ TypeOK'
    <3>1. /\ new \in Nat
          /\ IssuePair(u, new, refreshStore)
          /\ UNCHANGED <<now, revoked, loggedOut>>
          /\ revoked' \subseteq Token
          /\ TypeOK
      BY <1>1, <1>0 DEF Issue, TypeOK
    <3> HIDE DEF IInv
    <3> QED
      BY <3>1, IssuePairEffect
  <2>2. DroppedPairIsRevoked'
    BY <2>1 DEF DroppedPairIsRevoked, Access, Refresh
  <2>3. LoginIsIssued'
    BY <2>1, <1>0 DEF LoginIsIssued
  <2>4. \A n \in DOMAIN pairs : pairs'[n].login # pairs'[new].login
    BY <2>1, <1>0 DEF LoginIsIssued
  <2>5. OnlyNewestPairLives'
    BY <2>1, <2>4, <1>0 DEF OnlyNewestPairLives, Access, Refresh
  <2>6. LoggedOutIsRevoked'
    <3> SUFFICES ASSUME NEW n \in DOMAIN pairs', n <= loggedOut[pairs'[n].user]
                 PROVE  Dead(n)
      BY <2>1 DEF LoggedOutIsRevoked, Dead, Access, Refresh
    <3>1. n # new
      BY <2>1, <1>0 DEF TypeOK
    <3> QED
      BY <2>1, <3>1 DEF LoggedOutIsRevoked
  <2> QED
    BY <2>1, <2>2, <2>3, <2>5, <2>6
<1>2. ASSUME NEW k \in DOMAIN pairs, RefreshPair(k) PROVE IInv'
  <2> DEFINE new == Len(pairs) + 1
             u == pairs[k].user
             l == pairs[k].login
  <2>1. u \in Users /\ l \in Nat /\ l \in 1 .. k /\ u = pairs[k].user /\ l = pairs[k].login
    <3>1. pairs[k] \in Pair /\ pairs[k].login \in 1 .. k
      BY <1>0 DEF LoginIsIssued
    <3> QED
      BY <3>1 DEF Pair
  <2>2. Superseded(k) \subseteq Token
    BY PairHasTokens DEF Superseded
  <2>3. /\ DOMAIN pairs' = DOMAIN pairs \cup {new}
        /\ \A n \in DOMAIN pairs : pairs'[n] = pairs[n]
        /\ pairs'[new] = [user |-> u, iat |-> now, login |-> l]
        /\ refreshStore' = (refreshStore \ {k}) \cup {new}
        /\ revoked' = revoked \cup Superseded(k)
        /\ UNCHANGED loggedOut
        /\ TypeOK'
    <3>1. TypeOK /\ IssuePair(u, l, refreshStore \ {k})
      BY <1>2 DEF RefreshPair
    <3>2. /\ revoked' = revoked \cup Superseded(k)
          /\ UNCHANGED <<now, loggedOut>>
          /\ revoked' \subseteq Token
      BY <1>2, <2>2 DEF RefreshPair, TypeOK
    <3> HIDE DEF u, l, IInv
    <3>3. (refreshStore \ {k}) \in SUBSET refreshStore /\ revoked \subseteq revoked'
      BY <3>2
    <3> QED
      BY <2>1, <3>1, <3>2, <3>3, IssuePairEffect
  <2> HIDE DEF u, l
  <2>4. Dead(k)'
    BY <2>3 DEF Dead, Superseded, DroppedPairIsRevoked, Access, Refresh
  <2>5. \A n : Dead(n) => Dead(n)'
    BY <2>3 DEF Dead, Access, Refresh
  <2>6. DroppedPairIsRevoked'
    <3>1. \A n \in DOMAIN pairs \ refreshStore : Dead(n)
      BY DEF DroppedPairIsRevoked, Dead
    <3>2. \A n \in DOMAIN pairs' \ refreshStore' : Dead(n)'
      BY <2>3, <2>4, <2>5, <3>1
    <3> QED
      BY <3>2 DEF DroppedPairIsRevoked, Dead, Access, Refresh
  <2>7. LoginIsIssued'
    BY <2>1, <2>3, <1>0 DEF LoginIsIssued
  <2>8. ASSUME NEW m \in DOMAIN pairs', NEW n \in DOMAIN pairs', m < n,
               pairs'[m].login = pairs'[n].login
        PROVE  Dead(m)'
    <3>1. m \in DOMAIN pairs
      BY <2>3, <2>8, <1>0
    <3>2. CASE n \in DOMAIN pairs
      BY <2>3, <2>5, <2>8, <3>1, <3>2 DEF OnlyNewestPairLives, Dead
    <3>3. CASE n = new
      <4>1. pairs[m].login = pairs[k].login
        BY <2>1, <2>3, <2>8, <3>1, <3>3
      <4>2. CASE m = k
        BY <2>4, <4>2
      <4>3. CASE m < k
        BY <2>5, <3>1, <4>1, <4>3 DEF OnlyNewestPairLives, Dead
      <4>4. CASE k < m
        <5>1. Refresh(k) \in revoked
          BY <3>1, <4>1, <4>4 DEF OnlyNewestPairLives
        <5> QED
          BY <1>2, <5>1 DEF RefreshPair, Verifies
      <4> QED
        BY <3>1, <1>0, <4>2, <4>3, <4>4
    <3> QED
      BY <2>3, <2>8, <3>2, <3>3
  <2>9. OnlyNewestPairLives'
    BY <2>8 DEF OnlyNewestPairLives, Dead, Access, Refresh
  <2>10. LoggedOutIsRevoked'
    <3> SUFFICES ASSUME NEW n \in DOMAIN pairs', n <= loggedOut[pairs'[n].user]
                 PROVE  Dead(n)'
      BY <2>3 DEF LoggedOutIsRevoked
    <3>1. n # new
      BY <2>1, <2>3, <1>0 DEF TypeOK
    <3> QED
      BY <2>3, <2>5, <3>1 DEF LoggedOutIsRevoked
  <2> QED
    BY <2>3, <2>6, <2>7, <2>9, <2>10
<1>3. ASSUME NEW tok \in Token, Revoke(tok) \/ RevokeByJti(tok) PROVE IInv'
  <2>1. revoked' = revoked \cup {tok} /\ UNCHANGED <<now, pairs, refreshStore, loggedOut>>
    BY <1>3 DEF Revoke, RevokeByJti
  <2> QED
    BY <2>1 DEF TypeOK, DroppedPairIsRevoked, OnlyNewestPairLives, LoginIsIssued,
       LoggedOutIsRevoked, Dead, Access, Refresh, Token
<1>4. ASSUME NEW u \in Users, RevokeAll(u) PROVE IInv'
  <2>1. /\ UNCHANGED <<now, pairs>>
        /\ refreshStore' = refreshStore \ StoredFor(u)
        /\ loggedOut' = [loggedOut EXCEPT ![u] = Len(pairs)]
        /\ revoked \subseteq revoked'
        /\ \A n \in StoredFor(u) : Access(n) \in revoked' /\ Refresh(n) \in revoked'
    BY <1>4 DEF RevokeAll
  <2>2. TypeOK'
    <3>1. StoredFor(u) \subseteq DOMAIN pairs
      BY DEF StoredFor, TypeOK
    <3>2. revoked' \subseteq Token
      BY <1>4, <3>1, PairHasTokens DEF RevokeAll, TypeOK
    <3>3. loggedOut' \in [Users -> 0 .. Len(pairs)]
      BY <2>1, <1>0 DEF TypeOK
    <3> QED
      BY <2>1, <3>2, <3>3 DEF TypeOK, Token
  <2>3. \A n \in DOMAIN pairs :
            Dead(n) \/ (n \notin refreshStore) \/ (n \in StoredFor(u)) => Dead(n)'
    BY <2>1 DEF Dead, DroppedPairIsRevoked, Access, Refresh
  <2>4. DroppedPairIsRevoked'
    BY <2>1, <2>3 DEF DroppedPairIsRevoked, Dead, Access, Refresh
  <2>5. LoginIsIssued'
    BY <2>1 DEF LoginIsIssued
  <2>6. OnlyNewestPairLives'
    BY <2>1, <2>3 DEF OnlyNewestPairLives, Dead, Access, Refresh
  <2>7. LoggedOutIsRevoked'
    <3> SUFFICES ASSUME NEW n \in DOMAIN pairs, n <= loggedOut'[pairs[n].user]
                 PROVE  Dead(n)'
      BY <2>1 DEF LoggedOutIsRevoked
    <3>1. CASE pairs[n].user = u
      BY <2>3, <3>1 DEF StoredFor
    <3>2. CASE pairs[n].user # u
      BY <2>1, <2>3, <3>2 DEF LoggedOutIsRevoked, TypeOK
    <3> QED
      BY <3>1, <3>2
  <2> QED
    BY <2>2, <2>4, <2>5, <2>6, <2>7
<1>5. ASSUME Tick PROVE IInv'
  BY <1>5 DEF Tick, TypeOK, DroppedPairIsRevoked, OnlyNewestPairLives, LoginIsIssued,
     LoggedOutIsRevoked, Dead, Access, Refresh, Token
<1>6. ASSUME UNCHANGED vars PROVE IInv'
  BY <1>6 DEF vars, TypeOK, DroppedPairIsRevoked, OnlyNewestPairLives, LoginIsIssued,
     LoggedOutIsRevoked, Dead, Access, Refresh, Token
<1> QED
  BY <1>1, <1>2, <1>3, <1>4, <1>5, <1>6 DEF Next

-----------------------------------------------------------------------------

\* The inductive invariant holds throughout.
THEOREM Invariance == Spec => []IInv
  BY InitInv, NextInv, PTL DEF Spec

\* Type correctness of the manager.
THEOREM TypeCorrect == Spec => []TypeOK
  <1>1. IInv => TypeOK
    BY DEF IInv
  <1> QED
    BY <1>1, Invariance, PTL

\* A pair whose metadata refresh() or revoke_all() dropped is revoked, both
\* tokens of it, however the calls are mixed.
THEOREM DroppedPairsAreRevoked == Spec => []DroppedPairIsRevoked
  <1>1. IInv => DroppedPairIsRevoked
    BY DEF IInv
  <1> QED
    BY <1>1, Invariance, PTL

\* A pair that was refreshed never verifies again: one live pair per login.
THEOREM Rotation == Spec => []OnlyNewestPairLives
  <1>1. IInv => OnlyNewestPairLives
    BY DEF IInv
  <1> QED
    BY <1>1, Invariance, PTL

\* revoke_all() ends every token issued to the user before it.
THEOREM RevokeAllComplete == Spec => []RevokeAllReachesEveryToken
  <1>1. IInv => RevokeAllReachesEveryToken
    <2> SUFFICES ASSUME IInv, NEW tok \in Token,
                        tok.pair <= loggedOut[pairs[tok.pair].user]
                 PROVE  tok \in revoked
      BY DEF RevokeAllReachesEveryToken, Verifies
    <2> QED
      BY TokenIsAccessOrRefresh DEF IInv, LoggedOutIsRevoked, Dead
  <1> QED
    BY <1>1, Invariance, PTL
-----------------------------------------------------------------------------

\* A step in which no time passes, the pairs stay as they are, those added are
\* of this instant and not revoked, and what is revoked stays so.
LEMMA CallReplaces ==
    ASSUME AccessTtl > 0, RefreshTtl > 0, TypeOK, now' = now, revoked \subseteq revoked',
           \A n \in DOMAIN pairs : n \in DOMAIN pairs' /\ pairs'[n] = pairs[n],
           \A n \in DOMAIN pairs' \ DOMAIN pairs :
               pairs'[n].iat = now /\ Access(n) \notin revoked' /\ Refresh(n) \notin revoked'
    PROVE  AsCredentials!Replace
<1> DEFINE arcs == {<<"unborn", "valid">>, <<"valid", "void">>, <<"lapsed", "void">>}
<1>1. ASSUME NEW tok \in Tokens
      PROVE  Status(tok)' = Status(tok) \/ <<Status(tok), Status(tok)'>> \in arcs
  <2>1. TtlOf(tok) \in Nat /\ TtlOf(tok) > 0
    BY TtlAssumption DEF TtlOf
  <2>2. CASE tok.pair \in DOMAIN pairs
    BY <2>2 DEF Status, TtlOf
  <2>3. CASE tok.pair \in DOMAIN pairs' \ DOMAIN pairs
    <3>1. tok \notin revoked'
      BY <2>3 DEF Tokens, Access, Refresh
    <3>2. pairs'[tok.pair].iat = now /\ now \in Nat
      BY <2>3 DEF TypeOK
    <3>3. ~(now >= now + TtlOf(tok))
      BY <2>1, <3>2
    <3> QED
      BY <2>3, <3>1, <3>2, <3>3 DEF Status, TtlOf
  <2>4. CASE tok.pair \notin DOMAIN pairs'
    BY <2>4 DEF Status
  <2> QED
    BY <2>2, <2>3, <2>4
<1> QED
  BY <1>1 DEF AsCredentials!Replace, AsCredentials!Moves

\* Every step of the manager is a step of Credentials.
LEMMA StepMaps ==
    ASSUME AccessTtl > 0, RefreshTtl > 0, IInv, [Next]_vars
    PROVE  AsCredentials!Next
<1>0. /\ TypeOK /\ DOMAIN pairs = 1 .. Len(pairs) /\ Len(pairs) \in Nat
      /\ \A n \in DOMAIN pairs : pairs[n] \in Pair
  BY DEF IInv, TypeOK
<1>1. ASSUME NEW u \in Users, NEW l \in Nat, NEW S \in SUBSET refreshStore,
             IssuePair(u, l, S), UNCHANGED <<now, loggedOut>>,
             revoked \subseteq revoked', revoked' \subseteq Token
      PROVE  AsCredentials!Replace
  <2>1. /\ DOMAIN pairs' = DOMAIN pairs \cup {Len(pairs) + 1}
        /\ \A n \in DOMAIN pairs : pairs'[n] = pairs[n]
        /\ pairs'[Len(pairs) + 1] = [user |-> u, iat |-> now, login |-> l]
    BY <1>0, <1>1, IssuePairEffect
  <2>2. \A n \in DOMAIN pairs' \ DOMAIN pairs :
            pairs'[n].iat = now /\ Access(n) \notin revoked' /\ Refresh(n) \notin revoked'
    BY <1>1, <2>1 DEF Token, Access, Refresh
  <2> QED
    BY <1>0, <1>1, <2>1, <2>2, CallReplaces
<1>2. ASSUME NEW u \in Users, Issue(u) PROVE AsCredentials!Replace
  <2>1. /\ Len(pairs) + 1 \in Nat /\ revoked' \subseteq Token
        /\ IssuePair(u, Len(pairs) + 1, refreshStore) /\ UNCHANGED <<now, revoked, loggedOut>>
    BY <1>0, <1>2 DEF Issue, TypeOK
  <2> QED
    BY <1>1, <2>1
<1>3. ASSUME NEW k \in DOMAIN pairs, RefreshPair(k) PROVE AsCredentials!Replace
  <2>1. pairs[k].user \in Users /\ pairs[k].login \in Nat
    BY <1>0 DEF Pair
  <2>2. Superseded(k) \subseteq Token
    BY PairHasTokens DEF Superseded
  <2>3. /\ revoked \subseteq revoked' /\ revoked' \subseteq Token
        /\ IssuePair(pairs[k].user, pairs[k].login, refreshStore \ {k})
        /\ UNCHANGED <<now, loggedOut>>
    BY <1>0, <1>3, <2>2 DEF RefreshPair, TypeOK
  <2> QED
    BY <1>1, <2>1, <2>3
<1>4. ASSUME UNCHANGED <<now, pairs>>, revoked \subseteq revoked' PROVE AsCredentials!Replace
  BY <1>0, <1>4, CallReplaces
<1>5. ASSUME Tick PROVE AsCredentials!Lapse
  <2>1. /\ now' = now + 1 /\ now \in Nat /\ UNCHANGED <<pairs, revoked>>
    BY <1>0, <1>5 DEF Tick, TypeOK
  <2>2. ASSUME NEW tok \in Tokens
        PROVE  Status(tok)' = Status(tok) \/ <<Status(tok), Status(tok)'>> \in {<<"valid", "lapsed">>}
    <3>1. TtlOf(tok) \in Nat
      BY TtlAssumption DEF TtlOf
    <3>2. tok.pair \in DOMAIN pairs => pairs[tok.pair].iat \in Nat
      BY <1>0 DEF Pair
    <3> QED
      BY <2>1, <3>1, <3>2 DEF Status, TtlOf
  <2> QED
    BY <2>2 DEF AsCredentials!Lapse, AsCredentials!Moves
<1>6. CASE Next
  BY <1>2, <1>3, <1>4, <1>5, <1>6
  DEF Next, Revoke, RevokeByJti, RevokeAll, AsCredentials!Next
<1>7. CASE UNCHANGED vars
  BY <1>4, <1>7 DEF vars, AsCredentials!Next
<1> QED
  BY <1>6, <1>7

\* Tokens are credentials: issued once, void for good once they are revoked or
\* replaced, and never back from their expiry.
THEOREM TokensImplementCredentials ==
    ASSUME AccessTtl > 0, RefreshTtl > 0
    PROVE  Spec => TokensAreCredentials
<1>1. Init => AsCredentials!Init
  BY DEF Init, AsCredentials!Init, Status
<1>2. IInv /\ [Next]_vars => AsCredentials!Next
  BY StepMaps
<1> QED
  BY <1>1, <1>2, Invariance, PTL DEF Spec, TokensAreCredentials, AsCredentials!Spec

-----------------------------------------------------------------------------
(* Proof that sessions are credentials, for any users and life time. *)

\* Without sessions there is nothing to type.
LEMMA SessionsTyped == Sessions!SessionsAssumption /\ Sessions!Init => Sessions!TypeOK
BY DEF Sessions!SessionsAssumption, Sessions!Init, Sessions!TypeOK

\* What removing some sessions leaves.
LEMMA WithoutRemoves ==
    ASSUME Sessions!TypeOK, NEW gone, sessions' = Sessions!Without(gone), UNCHANGED <<owners, sessionTime>>
    PROVE  /\ Sessions!TypeOK'
           /\ \A s \in Sessions!Ids : Sessions!Status(s)' = Sessions!Status(s) \/ (Sessions!Status(s)' = "void" /\ Sessions!Status(s) \in {"valid", "lapsed"})
<1>1. /\ DOMAIN sessions' = DOMAIN sessions \ gone
      /\ \A s \in DOMAIN sessions' : sessions'[s] = sessions[s]
  BY DEF Sessions!Without, Sessions!Restrict
<1>2. Sessions!TypeOK'
  BY <1>1 DEF Sessions!TypeOK
<1>3. ASSUME NEW s \in Sessions!Ids
      PROVE  Sessions!Status(s)' = Sessions!Status(s) \/ (Sessions!Status(s)' = "void" /\ Sessions!Status(s) \in {"valid", "lapsed"})
  BY <1>1 DEF Sessions!Status, Sessions!IsExpired
<1> QED
  BY <1>2, <1>3

\* A session that is created was none before, and is not expired.
LEMMA CreateAdds ==
    ASSUME Sessions!SessionsAssumption, Sessions!TypeOK, NEW u \in Users, Sessions!Create(u)
    PROVE  /\ Sessions!TypeOK'
           /\ \A s \in Sessions!Ids : Sessions!Status(s)' = Sessions!Status(s) \/ (Sessions!Status(s) = "unborn" /\ Sessions!Status(s)' = "valid")
<1> DEFINE new == Len(owners) + 1
<1>1. /\ owners' \in Seq(Users) /\ Len(owners') = new /\ owners'[new] = u
      /\ \A s \in 1..Len(owners) : owners'[s] = owners[s]
      /\ new \in 1..MaxSessions /\ new \notin DOMAIN sessions
  BY DEF Sessions!Create, Sessions!TypeOK, Sessions!SessionsAssumption
<1>2. /\ DOMAIN sessions' = DOMAIN sessions \cup {new}
      /\ sessions'[new] = [user |-> u, active |-> sessionTime]
      /\ \A s \in DOMAIN sessions : sessions'[s] = sessions[s]
  BY <1>1 DEF Sessions!Create
<1>3. Sessions!TypeOK'
  BY <1>1, <1>2 DEF Sessions!Create, Sessions!TypeOK, Sessions!SessionsAssumption
<1>4. ASSUME NEW s \in Sessions!Ids
      PROVE  Sessions!Status(s)' = Sessions!Status(s) \/ (Sessions!Status(s) = "unborn" /\ Sessions!Status(s)' = "valid")
  BY <1>1, <1>2 DEF Sessions!Status, Sessions!IsExpired, Sessions!Create, Sessions!Ids, Sessions!TypeOK, Sessions!SessionsAssumption
<1> QED
  BY <1>3, <1>4

\* Time makes valid sessions lapse, and nothing else.
LEMMA TickLapses ==
    ASSUME Sessions!SessionsAssumption, Sessions!TypeOK, Sessions!Tick
    PROVE  /\ Sessions!TypeOK'
           /\ \A s \in Sessions!Ids : Sessions!Status(s)' = Sessions!Status(s) \/ (Sessions!Status(s) = "valid" /\ Sessions!Status(s)' = "lapsed")
<1>1. Sessions!TypeOK'
  BY DEF Sessions!Tick, Sessions!TypeOK, Sessions!SessionsAssumption
<1>2. ASSUME NEW s \in Sessions!Ids
      PROVE  Sessions!Status(s)' = Sessions!Status(s) \/ (Sessions!Status(s) = "valid" /\ Sessions!Status(s)' = "lapsed")
  <2>1. s \in DOMAIN sessions => sessions[s].active \in Nat
    BY DEF Sessions!TypeOK
  <2> QED
    BY <2>1 DEF Sessions!Status, Sessions!IsExpired, Sessions!Tick, Sessions!TypeOK, Sessions!SessionsAssumption
<1> QED
  BY <1>1, <1>2

\* A touch brings one session back, if it had lapsed.
LEMMA TouchRenews ==
    ASSUME Sessions!SessionsAssumption, Sessions!TypeOK, NEW t \in 1..Len(owners), Sessions!Touch(t)
    PROVE  /\ Sessions!TypeOK'
           /\ Sessions!Status(t)' = Sessions!Status(t) \/ (Sessions!Status(t) = "lapsed" /\ Sessions!Status(t)' = "valid")
           /\ \A s \in Sessions!Ids \ {t} : Sessions!Status(s)' = Sessions!Status(s)
<1>1. CASE t \notin DOMAIN sessions
  BY <1>1 DEF Sessions!Touch, Sessions!Touched, Sessions!TypeOK, Sessions!Status, Sessions!IsExpired
<1>2. CASE t \in DOMAIN sessions
  <2>1. /\ DOMAIN sessions' = DOMAIN sessions /\ UNCHANGED <<owners, sessionTime>>
        /\ \A s \in DOMAIN sessions \ {t} : sessions'[s] = sessions[s]
        /\ sessions'[t] = [user |-> owners[t], active |-> sessionTime]
    BY <1>2 DEF Sessions!Touch, Sessions!Touched, Sessions!TypeOK
  <2>2. Sessions!TypeOK'
    BY <1>2, <2>1 DEF Sessions!TypeOK
  <2>3. Sessions!Status(t)' \in {Sessions!Status(t), "valid"} /\ Sessions!Status(t) \in {"lapsed", "valid"}
    BY <1>2, <2>1 DEF Sessions!Status, Sessions!IsExpired, Sessions!TypeOK, Sessions!SessionsAssumption
  <2>4. \A s \in Sessions!Ids \ {t} : Sessions!Status(s)' = Sessions!Status(s)
    BY <2>1 DEF Sessions!Status, Sessions!IsExpired
  <2> QED
    BY <2>2, <2>3, <2>4
<1> QED
  BY <1>1, <1>2

\* Every step keeps the types and is one of Credentials.
LEMMA SessionStepMaps ==
    ASSUME Sessions!SessionsAssumption, Sessions!TypeOK, [Sessions!Next]_(Sessions!vars)
    PROVE  Sessions!TypeOK' /\ Sessions!AsCredentials!Next
<1> USE DEF Sessions!AsCredentials!Next, Sessions!AsCredentials!Replace, Sessions!AsCredentials!Lapse,
            Sessions!AsCredentials!Renew, Sessions!AsCredentials!Moves
<1>1. ASSUME NEW gone, sessions' = Sessions!Without(gone), UNCHANGED <<owners, sessionTime>>
      PROVE  Sessions!TypeOK' /\ Sessions!AsCredentials!Replace
  BY <1>1, WithoutRemoves
<1>2. ASSUME NEW u \in Users, Sessions!Create(u) PROVE Sessions!TypeOK' /\ Sessions!AsCredentials!Replace
  BY <1>2, CreateAdds
<1>3. ASSUME NEW t \in 1..Len(owners), Sessions!Touch(t)
      PROVE  Sessions!TypeOK' /\ (Sessions!AsCredentials!Replace \/ Sessions!AsCredentials!Renew)
  <2>1. t \in Sessions!Ids
    BY DEF Sessions!Ids, Sessions!TypeOK, Sessions!SessionsAssumption
  <2> QED
    BY <1>3, <2>1, TouchRenews
<1>4. ASSUME Sessions!Tick PROVE Sessions!TypeOK' /\ Sessions!AsCredentials!Lapse
  BY <1>4, TickLapses
<1>5. CASE UNCHANGED Sessions!vars
  BY <1>5 DEF Sessions!vars, Sessions!TypeOK, Sessions!Status, Sessions!IsExpired
<1>6. CASE Sessions!Next
  BY <1>1, <1>2, <1>3, <1>4, <1>6 DEF Sessions!Next, Sessions!Get, Sessions!List, Sessions!Revoke, Sessions!RevokeOthers, Sessions!RevokeAll
<1> QED
  BY <1>5, <1>6

\* The device sessions implement abstract credentials: a session that is gone
\* never counts again, and only touch() brings one back from its expiry.
THEOREM SessionsImplementCredentials ==
    Sessions!Spec => Sessions!SessionsAreCredentials
<1>1. Sessions!Init => Sessions!AsCredentials!Init
  BY SessionsAssumption DEF Sessions!Init, Sessions!AsCredentials!Init, Sessions!Status, Sessions!Ids, Sessions!SessionsAssumption
<1>2. Sessions!TypeOK /\ [Sessions!Next]_(Sessions!vars) => Sessions!TypeOK' /\ Sessions!AsCredentials!Next
  BY SessionsAssumption, SessionStepMaps
<1>3. Sessions!Init => Sessions!TypeOK
  BY SessionsAssumption, SessionsTyped
<1> QED
  BY <1>1, <1>2, <1>3, PTL DEF Sessions!Spec, Sessions!SessionsAreCredentials, Sessions!AsCredentials!Spec

-----------------------------------------------------------------------------
(* Proof of FactorsAreProven, for any users, windows and numbers of codes. *)

\* What is true of the record of a user: the secret, if confirmed, was proved;
\* the hashes are of one set generated so far, and unspent.
FactorHolds(u) ==
    records[u] # None =>
        /\ DOMAIN records[u] = {"secret", "hashes", "plain", "confirmed"}
        /\ records[u].confirmed => records[u].secret \in proved[u]
        /\ \E n \in 1..generated : records[u].hashes \subseteq Factors!CodeSet(n)
        /\ records[u].hashes \cap spent = {}
        /\ records[u].plain # None /\ u \notin renewed =>
            records[u].plain \subseteq records[u].hashes \cup spent

Apart(u, v) ==
    u # v /\ records[u] # None /\ records[v] # None =>
        records[u].hashes \cap records[v].hashes = {}

FactorsInv ==
    /\ generated \in Nat /\ DOMAIN records = Users /\ DOMAIN proved = Users
    /\ \A code \in spent : \E n \in 1..generated : code \in Factors!CodeSet(n)
    /\ \A u \in Users : FactorHolds(u)
    /\ \A u, v \in Users : Apart(u, v)

\* A backup code names the set it is of.
LEMMA CodeNamesSet == \A n : \A code \in Factors!CodeSet(n) : code[1] = n
BY DEF Factors!CodeSet

\* The codes of a set that is generated next are nobody's, and were never spent.
LEMMA FreshSet ==
    ASSUME FactorsInv
    PROVE  /\ Factors!CodeSet(generated + 1) \cap spent = {}
           /\ \A u \in Users : records[u] # None =>
                Factors!CodeSet(generated + 1) \cap records[u].hashes = {}
<1>1. \A n \in 1..generated : n # generated + 1
  BY DEF FactorsInv
<1>2. \A n \in 1..generated : Factors!CodeSet(generated + 1) \cap Factors!CodeSet(n) = {}
  BY <1>1, CodeNamesSet
<1> QED
  BY <1>2 DEF FactorsInv, FactorHolds

\* A record that gets the next set of codes.
LEMMA RecordRenewed ==
    ASSUME FactorsInv, NEW u \in Users, NEW record, generated' = generated + 1,
           records' = [records EXCEPT ![u] = record],
           DOMAIN record = {"secret", "hashes", "plain", "confirmed"},
           record.hashes = Factors!CodeSet(generated + 1),
           record.confirmed => record.secret \in proved[u],
           record.plain # None /\ u \notin renewed' => record.plain \subseteq record.hashes,
           \A v \in Users \ {u} : v \in renewed' <=> v \in renewed,
           UNCHANGED <<proved, spent>>
    PROVE  FactorsInv'
<1>1. generated' \in Nat /\ DOMAIN records' = Users /\ 1..generated \subseteq 1..generated'
  BY DEF FactorsInv
<1>2. records'[u] = record /\ \A v \in Users \ {u} : records'[v] = records[v]
  BY DEF FactorsInv
<1>3. generated + 1 \in 1..generated'
  BY DEF FactorsInv
<1>4. FactorHolds(u)'
  BY <1>2, <1>3, FreshSet DEF FactorHolds, Factors!CodeSet
<1>5. ASSUME NEW v \in Users \ {u} PROVE FactorHolds(v)'
  BY <1>1, <1>2 DEF FactorsInv, FactorHolds, Factors!CodeSet
<1>6. ASSUME NEW v \in Users, NEW w \in Users PROVE Apart(v, w)'
  BY <1>2, FreshSet DEF FactorsInv, Apart
<1>7. \A code \in spent' : \E n \in 1..generated' : code \in Factors!CodeSet(n)'
  BY <1>1 DEF FactorsInv, Factors!CodeSet
<1> QED
  BY <1>1, <1>4, <1>5, <1>6, <1>7 DEF FactorsInv

\* Setups and regenerations bring a new set, the other steps only take away.
LEMMA FactorStepKeeps ==
    ASSUME FactorsInv, [Factors!Next]_(Factors!vars)
    PROVE  FactorsInv'
<1>1. ASSUME NEW u \in Users, Factors!Setup(u) PROVE FactorsInv'
  <2> DEFINE record == [secret |-> generated + 1, hashes |-> Factors!CodeSet(generated + 1),
                        plain |-> Factors!CodeSet(generated + 1), confirmed |-> FALSE]
  <2>1. records' = [records EXCEPT ![u] = record] /\ generated' = generated + 1
    BY <1>1 DEF Factors!Setup, Factors!CodeSet
  <2> QED
    BY <1>1, <2>1, RecordRenewed DEF Factors!Setup
<1>2. ASSUME NEW u \in Users, Factors!RegenerateBackup(u) PROVE FactorsInv'
  <2> DEFINE record == [records[u] EXCEPT !.hashes = Factors!CodeSet(generated + 1)]
  <2>1. records' = [records EXCEPT ![u] = record] /\ generated' = generated + 1
    BY <1>2 DEF Factors!RegenerateBackup, Factors!CodeSet
  <2>2. DOMAIN record = {"secret", "hashes", "plain", "confirmed"}
    BY <1>2 DEF Factors!RegenerateBackup, FactorsInv, FactorHolds
  <2>3. record.hashes = Factors!CodeSet(generated + 1) /\ record.plain = records[u].plain
        /\ record.secret = records[u].secret
    BY <2>2
  <2>4. record.confirmed => record.secret \in proved[u]
    BY <1>2, <2>2 DEF Factors!RegenerateBackup, FactorsInv, FactorHolds
  <2> QED
    BY <1>2, <2>1, <2>2, <2>3, <2>4, RecordRenewed DEF Factors!RegenerateBackup
<1>3. ASSUME NEW u \in Users, Factors!GetBackupCodes(u) PROVE FactorsInv'
  BY <1>3 DEF Factors!GetBackupCodes, FactorsInv, FactorHolds, Apart, Factors!CodeSet
<1>4. ASSUME NEW u \in Users, NEW code \in Factors!Codes, Factors!ConfirmSetup(u, code) PROVE FactorsInv'
  <2>1. code[1] = records[u].secret
    BY <1>4 DEF Factors!ConfirmSetup, Factors!Matches
  <2> QED
    BY <1>4, <2>1 DEF Factors!ConfirmSetup, FactorsInv, FactorHolds, Apart, Factors!CodeSet
<1>5. ASSUME NEW u \in Users, NEW code \in Factors!BackupCodes, Factors!VerifyBackup(u, code) PROVE FactorsInv'
  BY <1>5 DEF Factors!VerifyBackup, Factors!Remaining, FactorsInv, FactorHolds, Apart, Factors!CodeSet
<1>6. ASSUME NEW u \in Users, Factors!Disable(u) PROVE FactorsInv'
  BY <1>6 DEF Factors!Disable, FactorsInv, FactorHolds, Apart, Factors!CodeSet
<1>7. CASE Factors!Tick \/ UNCHANGED Factors!vars
  BY <1>7 DEF Factors!Tick, Factors!vars, FactorsInv, FactorHolds, Apart, Factors!CodeSet
<1> QED
  BY <1>1, <1>2, <1>3, <1>4, <1>5, <1>6, <1>7 DEF Factors!Next

\* The invariant says who passes and what the backup codes are.
LEMMA FactorsInvMeans == ASSUME FactorsInv PROVE Factors!FactorsAreProven
<1>1. ASSUME NEW u \in Users, NEW code \in Factors!Codes, Factors!Passes(u, code) PROVE code[1] \in proved[u]
  BY <1>1 DEF Factors!Passes, Factors!IsEnabled, Factors!Matches, FactorsInv, FactorHolds
<1>2. ASSUME NEW u \in Users, records[u] # None
      PROVE  \A c, d \in records[u].hashes : c[1] = d[1]
  BY <1>2, CodeNamesSet DEF FactorsInv, FactorHolds
<1>3. ASSUME NEW u \in Users, records[u] # None
      PROVE  /\ records[u].hashes \cap spent = {}
             /\ records[u].plain # None /\ u \notin renewed =>
                  records[u].plain \subseteq records[u].hashes \cup spent
  BY <1>3 DEF FactorsInv, FactorHolds
<1>4. ASSUME NEW u \in Users, records[u] # None, NEW v \in Users \ {u}, records[v] # None
      PROVE  records[u].hashes \cap records[v].hashes = {}
  BY <1>4 DEF FactorsInv, Apart
<1> QED
  BY <1>1, <1>2, <1>3, <1>4 DEF Factors!FactorsAreProven

\* Through setups, confirmations, regenerations and disabling in any order: who
\* passes has proved that secret, no backup code counts twice or for another.
THEOREM FactorsHold == Factors!Spec => []Factors!FactorsAreProven
<1>1. Factors!Init => FactorsInv
  BY DEF Factors!Init, FactorsInv, FactorHolds, Apart
<1>2. FactorsInv /\ [Factors!Next]_(Factors!vars) => FactorsInv'
  BY FactorStepKeeps
<1>3. FactorsInv => Factors!FactorsAreProven
  BY FactorsInvMeans
<1> QED
  BY <1>1, <1>2, <1>3, PTL DEF Factors!Spec

-----------------------------------------------------------------------------
(* Proofs about PasswordResets, for any addresses, passwords, hashers and  *)
(* clients: an address holds a token that was made for it, so that only    *)
(* one address can hold a token; and one that was consumed is held by none. *)

HolderHolds(e) ==
    resets[e] # None =>
        /\ resets[e].token \in DOMAIN given /\ given[resets[e].token] = e
        /\ resets[e].expires \in Nat

PasswordIs(e) ==
    /\ chosen[e] \in Passwords \ Weak
    /\ account[e].password = chosen[e] /\ account[e].by \in Hashers

ConsumedOnce(t) ==
    /\ consumed[t] \in {0, 1}
    /\ consumed[t] = 1 =>
        /\ t \in DOMAIN given
        /\ \A e \in Resets!Accounts : resets[e] # None => resets[e].token # t

ResetsInv ==
    /\ given \in Seq(Resets!Accounts) /\ Len(given) <= MaxResets /\ resetTime \in Nat
    /\ hasher \in Hashers
    /\ DOMAIN resets = Resets!Accounts /\ DOMAIN client = Clients /\ DOMAIN consumed = Resets!Tokens
    /\ DOMAIN account = Resets!Accounts /\ DOMAIN chosen = Resets!Accounts
    /\ \A e \in Resets!Accounts : HolderHolds(e) /\ PasswordIs(e)
    /\ \A c \in Clients : client[c] # None => client[c] \in DOMAIN given
    /\ \A t \in Resets!Tokens : ConsumedOnce(t)

\* The initial state satisfies the invariant, with no token born.
LEMMA ResetsInit ==
    ASSUME Resets!ResetsAssumption, Resets!Init
    PROVE  ResetsInv /\ Resets!AsCredentials!Init
<1>1. ResetsInv
  BY DEF Resets!Init, Resets!ResetsAssumption, ResetsInv, HolderHolds, PasswordIs, ConsumedOnce,
         Resets!Made
<1>2. Resets!AsCredentials!Init
  BY DEF Resets!Init, Resets!AsCredentials!Init, Resets!Status
<1> QED
  BY <1>1, <1>2

\* An address may lose its token, which is then void, and others keep theirs.
LEMMA TokensDropped ==
    ASSUME Resets!ResetsAssumption, ResetsInv, UNCHANGED <<given, resetTime>>,
           DOMAIN resets' = Resets!Accounts,
           \A e \in Resets!Accounts : resets'[e] \in {resets[e], None}
    PROVE  /\ \A e \in Resets!Accounts : HolderHolds(e)'
           /\ Resets!AsCredentials!Replace
<1>1. \A e \in Resets!Accounts : HolderHolds(e)'
  BY DEF ResetsInv, HolderHolds
<1>2. ASSUME NEW t \in Resets!Tokens
      PROVE  \/ Resets!Status(t)' = Resets!Status(t)
             \/ Resets!Status(t) \in {"valid", "lapsed"} /\ Resets!Status(t)' = "void"
  <2>1. t \in DOMAIN given => given[t] \in Resets!Accounts
    BY DEF ResetsInv
  <2> QED
    BY <2>1 DEF Resets!Status, Resets!IsExpired
<1>3. Resets!AsCredentials!Replace
  BY <1>2 DEF Resets!AsCredentials!Replace, Resets!AsCredentials!Moves
<1> QED
  BY <1>1, <1>3

\* create() voids the token the address had and issues the next.
LEMMA CreateIssues ==
    ASSUME Resets!ResetsAssumption, ResetsInv, NEW e \in Emails, Resets!Create(e)
    PROVE  ResetsInv' /\ Resets!AsCredentials!Replace
<1>0. PICK new, a : new = Len(given) + 1 /\ a = Lower[e]
  OBVIOUS
<1>1. /\ a \in Resets!Accounts /\ new \in Resets!Tokens /\ new \notin DOMAIN given
      /\ given' = Append(given, a)
      /\ resets' = [resets EXCEPT ![a] = [token |-> new, expires |-> resetTime + ResetTtl]]
      /\ UNCHANGED <<hasher, account, chosen, client, consumed, resetTime>>
  BY <1>0 DEF Resets!Create, Resets!Accounts, Resets!Tokens, Resets!ResetsAssumption, ResetsInv
<1>2. /\ given' \in Seq(Resets!Accounts) /\ Len(given') = new /\ Len(given') <= MaxResets
      /\ DOMAIN given' = DOMAIN given \cup {new} /\ given'[new] = a
      /\ \A t \in DOMAIN given : given'[t] = given[t] /\ given[t] \in Resets!Accounts
  BY <1>0, <1>1 DEF ResetsInv, Resets!Tokens
<1>3. /\ DOMAIN resets' = Resets!Accounts
      /\ resets'[a].token = new /\ resets'[a].expires = resetTime + ResetTtl
      /\ resets'[a] # None
      /\ \A b \in Resets!Accounts \ {a} : resets'[b] = resets[b]
  <2>1. resets'[a] \in [token : Nat, expires : Nat]
    BY <1>1 DEF ResetsInv, Resets!Tokens, Resets!ResetsAssumption
  <2> QED
    BY <1>1, <2>1 DEF ResetsInv, Resets!ResetsAssumption
<1>4. \A b \in Resets!Accounts : HolderHolds(b)'
  BY <1>1, <1>2, <1>3 DEF ResetsInv, HolderHolds, Resets!ResetsAssumption
<1>5. \A t \in Resets!Tokens : ConsumedOnce(t)'
  BY <1>1, <1>2, <1>3 DEF ResetsInv, ConsumedOnce
<1>6. ResetsInv'
  BY <1>1, <1>2, <1>3, <1>4, <1>5 DEF ResetsInv, PasswordIs, Resets!Accounts, Resets!Tokens
<1>7. ASSUME NEW t \in Resets!Tokens
      PROVE  \/ Resets!Status(t)' = Resets!Status(t)
             \/ Resets!Status(t) \in {"valid", "lapsed"} /\ Resets!Status(t)' = "void"
             \/ Resets!Status(t) = "unborn" /\ Resets!Status(t)' = "valid"
  <2>1. CASE t = new
    <3>1. ~(resetTime' > resets'[a].expires)
      BY <1>1, <1>3 DEF ResetsInv, Resets!ResetsAssumption
    <3> QED
      BY <1>1, <1>2, <1>3, <2>1, <3>1 DEF Resets!Status, Resets!IsExpired
  <2>2. CASE t \in DOMAIN given
    BY <1>1, <1>2, <1>3, <2>2 DEF Resets!Status, Resets!IsExpired
  <2>3. CASE t \notin DOMAIN given \cup {new}
    BY <1>2, <2>3 DEF Resets!Status
  <2> QED
    BY <2>1, <2>2, <2>3
<1>8. Resets!AsCredentials!Replace
  BY <1>7 DEF Resets!AsCredentials!Replace, Resets!AsCredentials!Moves
<1> QED
  BY <1>6, <1>8

\* consume() accepts a token its address holds, and takes it away.
LEMMA ConsumeDrops ==
    ASSUME Resets!ResetsAssumption, ResetsInv, NEW c \in Clients, Resets!Consume(c)
    PROVE  ResetsInv' /\ Resets!AsCredentials!Replace
<1>0. PICK t, a : t = client[c] /\ a = given[t]
  OBVIOUS
<1>1. /\ t \in DOMAIN given /\ t \in Resets!Tokens /\ a \in Resets!Accounts
  <2>1. t \in DOMAIN given
    BY <1>0 DEF Resets!Consume, ResetsInv
  <2>2. DOMAIN given = 1..Len(given) /\ Len(given) \in Nat /\ given[t] \in Resets!Accounts
    BY <2>1 DEF ResetsInv
  <2> QED
    BY <1>0, <2>1, <2>2 DEF ResetsInv, Resets!Tokens, Resets!ResetsAssumption
<1>2. /\ resets' = IF Resets!Accepts(a, t) THEN Resets!Removed(a) ELSE Resets!Checked(a)
      /\ consumed' = [consumed EXCEPT ![t] = @ + IF Resets!Accepts(a, t) THEN 1 ELSE 0]
      /\ client' = [client EXCEPT ![c] = None]
      /\ UNCHANGED <<hasher, account, chosen, given, resetTime>>
  BY <1>0 DEF Resets!Consume
<1>3. /\ DOMAIN resets' = Resets!Accounts
      /\ \A e \in Resets!Accounts : resets'[e] \in {resets[e], None}
      /\ Resets!Accepts(a, t) => resets'[a] = None
  BY <1>1, <1>2 DEF Resets!Removed, Resets!Checked, ResetsInv
<1>4. /\ \A e \in Resets!Accounts : HolderHolds(e)'
      /\ Resets!AsCredentials!Replace
  BY <1>2, <1>3, TokensDropped
<1>5. ASSUME NEW u \in Resets!Tokens PROVE ConsumedOnce(u)'
  <2>1. ConsumedOnce(u) /\ DOMAIN consumed = Resets!Tokens
    BY DEF ResetsInv
  <2>2. CASE u # t \/ ~ Resets!Accepts(a, t)
    <3>1. consumed'[u] = consumed[u]
      BY <1>1, <1>2, <2>1, <2>2 DEF ConsumedOnce
    <3> QED
      BY <1>2, <1>3, <2>1, <3>1 DEF ConsumedOnce
  <2>3. CASE u = t /\ Resets!Accepts(a, t)
    <3>1. resets[a] # None /\ resets[a].token = t
      BY <2>3 DEF Resets!Accepts
    <3>2. consumed[t] = 0
      BY <1>1, <2>1, <2>3, <3>1 DEF ConsumedOnce
    <3>3. consumed'[t] = 1
      BY <1>1, <1>2, <2>1, <2>3, <3>2
    <3>4. ASSUME NEW e \in Resets!Accounts, resets'[e] # None PROVE resets'[e].token # t
      <4>1. e # a /\ resets'[e] = resets[e]
        BY <1>3, <2>3, <3>4
      <4> QED
        BY <1>0, <3>4, <4>1 DEF ResetsInv, HolderHolds
    <3> QED
      BY <1>1, <1>2, <2>3, <3>3, <3>4 DEF ConsumedOnce
  <2> QED
    BY <2>2, <2>3
<1>6. \A d \in Clients : client'[d] # None => client'[d] \in DOMAIN given
  BY <1>2 DEF ResetsInv
<1>7. DOMAIN consumed' = Resets!Tokens /\ DOMAIN client' = Clients
  BY <1>2 DEF ResetsInv
<1>8. ResetsInv'
  BY <1>2, <1>3, <1>4, <1>5, <1>6, <1>7 DEF ResetsInv, PasswordIs, Resets!Accounts, Resets!Tokens
<1> QED
  BY <1>4, <1>8

\* A login that succeeds and a reset hash the password that is the account's.
LEMMA PasswordsKept ==
    ASSUME Resets!ResetsAssumption, ResetsInv,
           \/ \E e \in Resets!Accounts, p \in Passwords : Resets!Login(e, p)
           \/ \E c \in Clients, p \in Passwords : Resets!SetPassword(c, p)
    PROVE  ResetsInv' /\ UNCHANGED <<resets, given, resetTime>>
<1>1. ASSUME NEW e \in Resets!Accounts, NEW p \in Passwords, Resets!Login(e, p)
      PROVE  ResetsInv' /\ UNCHANGED <<resets, given, resetTime>>
  <2>1. p = chosen[e]
    BY <1>1 DEF Resets!Login, Resets!Verifies, ResetsInv, PasswordIs
  <2>2. \A a \in Resets!Accounts : PasswordIs(a)'
    BY <1>1, <2>1 DEF Resets!Login, Resets!Made, ResetsInv, PasswordIs
  <2> QED
    BY <1>1, <2>2 DEF Resets!Login, ResetsInv, HolderHolds, ConsumedOnce, Resets!Accounts, Resets!Tokens
<1>2. ASSUME NEW c \in Clients, NEW p \in Passwords, Resets!SetPassword(c, p)
      PROVE  ResetsInv' /\ UNCHANGED <<resets, given, resetTime>>
  <2>1. \A a \in Resets!Accounts : PasswordIs(a)'
    BY <1>2 DEF Resets!SetPassword, Resets!IsValid, Resets!Made, ResetsInv, PasswordIs
  <2> QED
    BY <1>2, <2>1 DEF Resets!SetPassword, ResetsInv, HolderHolds, ConsumedOnce, Resets!Accounts, Resets!Tokens
<1> QED
  BY <1>1, <1>2

\* Every step keeps the invariant and is one of Credentials.
LEMMA ResetStepKeeps ==
    ASSUME Resets!ResetsAssumption, ResetsInv, [Resets!Next]_(Resets!vars)
    PROVE  ResetsInv' /\ Resets!AsCredentials!Next
<1> USE DEF Resets!AsCredentials!Next
<1>1. ASSUME UNCHANGED <<resets, given, resetTime>> PROVE Resets!AsCredentials!Replace
  BY <1>1, TokensDropped DEF ResetsInv
<1>2. ASSUME NEW h \in Hashers, Resets!Deploy(h) PROVE ResetsInv' /\ Resets!AsCredentials!Replace
  BY <1>1, <1>2 DEF Resets!Deploy, ResetsInv, HolderHolds, PasswordIs, ConsumedOnce,
                    Resets!Accounts, Resets!Tokens
<1>3. ASSUME DOMAIN resets' = Resets!Accounts,
             \A e \in Resets!Accounts : resets'[e] \in {resets[e], None},
             DOMAIN client' = Clients, \A c \in Clients : client'[c] # None => client'[c] \in DOMAIN given,
             UNCHANGED <<hasher, account, chosen, given, consumed, resetTime>>
      PROVE  ResetsInv' /\ Resets!AsCredentials!Replace
  <2>1. /\ \A e \in Resets!Accounts : HolderHolds(e)'
        /\ Resets!AsCredentials!Replace
    BY <1>3, TokensDropped
  <2>2. \A t \in Resets!Tokens : ConsumedOnce(t)'
    BY <1>3 DEF ResetsInv, ConsumedOnce
  <2> QED
    BY <1>3, <2>1, <2>2 DEF ResetsInv, PasswordIs, Resets!Accounts, Resets!Tokens
<1>4. ASSUME NEW c \in Clients, NEW e \in Emails, NEW t \in DOMAIN given, Resets!Verify(c, e, t)
      PROVE  ResetsInv' /\ Resets!AsCredentials!Replace
  BY <1>3, <1>4 DEF Resets!Verify, Resets!Checked, ResetsInv
<1>5. ASSUME Resets!ClearExpired PROVE ResetsInv' /\ Resets!AsCredentials!Replace
  BY <1>3, <1>5 DEF Resets!ClearExpired, ResetsInv
<1>6. ASSUME Resets!Tick PROVE ResetsInv' /\ Resets!AsCredentials!Lapse
  <2>1. ResetsInv'
    BY <1>6 DEF Resets!Tick, ResetsInv, HolderHolds, PasswordIs, ConsumedOnce, Resets!Accounts, Resets!Tokens
  <2>2. ASSUME NEW t \in Resets!Tokens
        PROVE  \/ Resets!Status(t)' = Resets!Status(t)
               \/ Resets!Status(t) = "valid" /\ Resets!Status(t)' = "lapsed"
    <3>1. t \in DOMAIN given /\ resets[given[t]] # None => resets[given[t]].expires \in Nat
      BY DEF ResetsInv, HolderHolds
    <3> QED
      BY <1>6, <3>1 DEF Resets!Tick, Resets!Status, Resets!IsExpired, ResetsInv
  <2>3. Resets!AsCredentials!Lapse
    BY <2>2 DEF Resets!AsCredentials!Lapse, Resets!AsCredentials!Moves
  <2> QED
    BY <2>1, <2>3
<1>7. CASE UNCHANGED Resets!vars
  BY <1>1, <1>7 DEF Resets!vars, ResetsInv, HolderHolds, PasswordIs, ConsumedOnce,
                    Resets!Accounts, Resets!Tokens
<1>8. CASE Resets!Next
  BY <1>1, <1>2, <1>4, <1>5, <1>6, <1>8, CreateIssues, ConsumeDrops, PasswordsKept DEF Resets!Next
<1> QED
  BY <1>7, <1>8

\* The invariant says what verifies and what was consumed.
LEMMA ResetsInvMeans == ASSUME Resets!ResetsAssumption, ResetsInv PROVE Resets!PasswordHolds
<1>1. ASSUME NEW e \in Resets!Accounts
      PROVE  /\ Resets!IsValid(chosen[e])
             /\ \A p \in Passwords : Resets!Verifies(p, account[e]) <=> p = chosen[e]
  BY DEF ResetsInv, PasswordIs, Resets!IsValid, Resets!Verifies, Resets!ResetsAssumption
<1>2. \A t \in Resets!Tokens : consumed[t] <= 1
  BY DEF ResetsInv, ConsumedOnce
<1> QED
  BY <1>1, <1>2 DEF Resets!PasswordHolds

\* Through rehashes and racing resets the stored hash verifies the password
\* last set and no other, and consume() accepts a token once.
THEOREM PasswordsHold == Resets!Spec => []Resets!PasswordHolds
<1>1. Resets!Init => ResetsInv
  BY ResetsAssumption, ResetsInit
<1>2. ResetsInv /\ [Resets!Next]_(Resets!vars) => ResetsInv'
  BY ResetsAssumption, ResetStepKeeps
<1>3. ResetsInv => Resets!PasswordHolds
  BY ResetsAssumption, ResetsInvMeans
<1> QED
  BY <1>1, <1>2, <1>3, PTL DEF Resets!Spec

\* Reset tokens implement abstract credentials, of the kind that never renews.
THEOREM ResetsImplementCredentials == Resets!Spec => Resets!ResetsAreCredentials
<1>1. Resets!Init => ResetsInv /\ Resets!AsCredentials!Init
  BY ResetsAssumption, ResetsInit
<1>2. ResetsInv /\ [Resets!Next]_(Resets!vars) => ResetsInv' /\ Resets!AsCredentials!Next
  BY ResetsAssumption, ResetStepKeeps
<1> QED
  BY <1>1, <1>2, PTL DEF Resets!Spec, Resets!ResetsAreCredentials, Resets!AsCredentials!Spec

-----------------------------------------------------------------------------
(* Proof of ListenersHear, for any types, listeners and tasks.  The list a *)
(* dispatch walks only grows at its end, so that it begins with what the   *)
(* dispatch owes and with what it has called; clear() hands it the list it *)
(* was walking.                                                            *)

Walk == [type : EventTypes, live : BOOLEAN, list : Seq(Listeners), owed : Seq(Listeners),
         heard : Seq(Listeners), over : BOOLEAN]

Begins(s, t) == Len(s) <= Len(t) /\ \A i \in 1..Len(s) : s[i] = t[i]

WalkHolds(t) ==
    /\ walks[t].over => Begins(walks[t].owed, walks[t].heard)
    /\ ~ walks[t].over =>
        /\ Begins(walks[t].owed, Events!Walked(t))
        /\ Begins(walks[t].heard, Events!Walked(t))

EventsInv ==
    /\ listeners \in [EventTypes -> Seq(Listeners)]
    /\ walks \in [Tasks -> Walk]
    /\ \A t \in Tasks : WalkHolds(t)

\* To begin with a sequence is to have it as a prefix.
LEMMA BeginsIsPrefix ==
    ASSUME NEW L, NEW s \in Seq(L), NEW t \in Seq(L), Begins(s, t)
    PROVE  Events!IsPrefix(s, t)
<1>1. SubSeq(s, 1, Len(s)) = s
  OBVIOUS
<1>2. SubSeq(t, 1, Len(s)) = s
  BY DEF Begins
<1> QED
  BY <1>1, <1>2 DEF Begins, Events!IsPrefix

\* What begins a sequence still does when that grows.
LEMMA BeginsGrown ==
    ASSUME NEW L, NEW s \in Seq(L), NEW t \in Seq(L), NEW more \in Seq(L), Begins(s, t)
    PROVE  Begins(s, t \o more)
BY DEF Begins

\* The list a task walks is a list of listeners.
LEMMA WalkedTyped ==
    ASSUME EventsInv, NEW t \in Tasks
    PROVE  /\ Events!Walked(t) \in Seq(Listeners) /\ walks[t] \in Walk
           /\ walks[t].owed \in Seq(Listeners) /\ walks[t].heard \in Seq(Listeners)
           /\ walks[t].type \in EventTypes /\ walks[t].list \in Seq(Listeners)
BY DEF EventsInv, Walk, Events!Walked

\* A list that is extended at its end keeps what the other walks have done.
LEMMA ListGrows ==
    ASSUME EventsInv, NEW e \in EventTypes, NEW more \in Seq(Listeners), NEW t \in Tasks,
           listeners' = [listeners EXCEPT ![e] = @ \o more], walks'[t] = walks[t]
    PROVE  WalkHolds(t)'
<1>1. Events!Walked(t)' \in {Events!Walked(t), Events!Walked(t) \o more}
  BY WalkedTyped DEF Events!Walked, EventsInv
<1> QED
  BY <1>1, WalkedTyped, BeginsGrown DEF EventsInv, WalkHolds

\* Registering, dispatching, calling a listener, ending and clearing keep it.
LEMMA EventStepKeeps ==
    ASSUME Events!EventsAssumption, EventsInv, [Events!Next]_(Events!vars)
    PROVE  EventsInv'
<1>1. ASSUME NEW e \in EventTypes, NEW l \in Listeners, Events!On(e, l) PROVE EventsInv'
  <2>1. /\ listeners' = [listeners EXCEPT ![e] = @ \o <<l>>] /\ walks' = walks
        /\ <<l>> \in Seq(Listeners)
    <3>1. listeners[e] \in Seq(Listeners) /\ <<l>> \in Seq(Listeners)
      BY DEF EventsInv
    <3>2. Append(listeners[e], l) = listeners[e] \o <<l>>
      BY <3>1
    <3> QED
      BY <1>1, <3>1, <3>2 DEF Events!On
  <2>2. listeners' \in [EventTypes -> Seq(Listeners)]
    BY <2>1 DEF EventsInv
  <2> QED
    BY <2>1, <2>2, ListGrows DEF EventsInv
<1>2. ASSUME NEW t \in Tasks, NEW e \in EventTypes, Events!Dispatch(t, e) PROVE EventsInv'
  <2>1. PICK shared : shared = (listeners[e] # <<>>)
    OBVIOUS
  <2>2. PICK owed : owed = listeners[e] \o listeners[BaseEvent]
    OBVIOUS
  <2>3. /\ owed \in Seq(Listeners) /\ <<>> \in Seq(Listeners) /\ shared \in BOOLEAN
        /\ listeners[BaseEvent] \in Seq(Listeners)
    BY <2>1, <2>2 DEF EventsInv, Events!EventsAssumption
  <2>4. /\ listeners' = IF shared THEN [listeners EXCEPT ![e] = @ \o listeners[BaseEvent]] ELSE listeners
        /\ walks' = [walks EXCEPT ![t] =
             [type |-> e, live |-> shared, heard |-> <<>>,
              list |-> IF shared THEN <<>> ELSE owed, owed |-> owed, over |-> FALSE]]
    BY <1>2, <2>1, <2>2 DEF Events!Dispatch, Events!Extended, EventsInv
  <2>5. listeners' \in [EventTypes -> Seq(Listeners)] /\ (shared => listeners'[e] = owed)
    BY <2>2, <2>3, <2>4 DEF EventsInv
  <2>6. walks' \in [Tasks -> Walk]
    BY <2>3, <2>4 DEF EventsInv, Walk
  <2>7. ASSUME NEW other \in Tasks \ {t} PROVE WalkHolds(other)'
    <3>1. walks'[other] = walks[other]
      BY <2>4 DEF EventsInv
    <3>2. CASE shared
      BY <2>3, <2>4, <3>1, <3>2, ListGrows
    <3>3. CASE ~ shared
      BY <2>4, <3>1, <3>3 DEF EventsInv, WalkHolds, Events!Walked
    <3> QED
      BY <2>3, <3>2, <3>3
  <2>8. WalkHolds(t)'
    <3>1. walks'[t] = [type |-> e, live |-> shared, heard |-> <<>>,
                       list |-> IF shared THEN <<>> ELSE owed, owed |-> owed, over |-> FALSE]
      BY <2>4 DEF EventsInv
    <3>2. Events!Walked(t)' = owed
      BY <2>5, <3>1 DEF Events!Walked
    <3> QED
      BY <2>3, <3>1, <3>2 DEF WalkHolds, Begins
  <2> QED
    BY <2>5, <2>6, <2>7, <2>8 DEF EventsInv
<1>3. ASSUME NEW t \in Tasks, Events!Listener(t) PROVE EventsInv'
  <2>1. PICK n, l : n = Len(walks[t].heard) /\ l = Events!Walked(t)[n + 1]
    OBVIOUS
  <2>2. /\ n < Len(Events!Walked(t)) /\ ~ walks[t].over /\ listeners' = listeners
        /\ walks' = [walks EXCEPT ![t] = [walks[t] EXCEPT !.heard = Append(walks[t].heard, l)]]
    BY <1>3, <2>1 DEF Events!Listener, EventsInv
  <2>3. n \in Nat /\ Events!Walked(t) \in Seq(Listeners) /\ l \in Listeners
    <3>1. n \in Nat /\ Events!Walked(t) \in Seq(Listeners)
      BY <2>1, WalkedTyped
    <3>2. n + 1 \in 1..Len(Events!Walked(t))
      BY <2>2, <3>1
    <3>3. Events!Walked(t)[n + 1] \in Listeners
      BY <3>1, <3>2
    <3> QED
      BY <2>1, <3>1, <3>3
  <2>4. [walks[t] EXCEPT !.heard = Append(walks[t].heard, l)] \in Walk
    <3>1. Append(walks[t].heard, l) \in Seq(Listeners) /\ walks[t] \in Walk
      BY <2>3, WalkedTyped
    <3> QED
      BY <3>1 DEF Walk
  <2>5. /\ walks'[t].heard = Append(walks[t].heard, l) /\ walks'[t].owed = walks[t].owed
        /\ walks'[t].over = walks[t].over /\ walks'[t].live = walks[t].live
        /\ walks'[t].type = walks[t].type /\ walks'[t].list = walks[t].list
    BY <2>2, WalkedTyped DEF EventsInv, Walk
  <2>6. Events!Walked(t)' = Events!Walked(t)
    BY <2>2, <2>5 DEF Events!Walked
  <2>7. Begins(walks'[t].heard, Events!Walked(t))
    BY <2>1, <2>2, <2>5, <2>3, WalkedTyped DEF EventsInv, WalkHolds, Begins
  <2>8. WalkHolds(t)'
    BY <2>2, <2>5, <2>6, <2>7 DEF EventsInv, WalkHolds
  <2>9. \A other \in Tasks \ {t} : WalkHolds(other)'
    BY <2>2 DEF EventsInv, WalkHolds, Events!Walked
  <2> QED
    BY <2>2, <2>4, <2>8, <2>9 DEF EventsInv
<1>4. ASSUME NEW t \in Tasks, Events!Dispatched(t) PROVE EventsInv'
  <2>1. /\ ~ walks[t].over /\ Len(walks[t].heard) >= Len(Events!Walked(t)) /\ listeners' = listeners
        /\ walks' = [walks EXCEPT ![t] = [walks[t] EXCEPT !.over = TRUE]]
    BY <1>4, WalkedTyped DEF Events!Dispatched, EventsInv
  <2>2. [walks[t] EXCEPT !.over = TRUE] \in Walk
    BY WalkedTyped DEF Walk
  <2>3. /\ walks'[t].heard = walks[t].heard /\ walks'[t].owed = walks[t].owed
        /\ walks'[t].over = TRUE
    BY <2>1, WalkedTyped DEF EventsInv, Walk
  <2>4. Begins(walks[t].owed, walks[t].heard)
    <3>1. Begins(walks[t].owed, Events!Walked(t)) /\ Begins(walks[t].heard, Events!Walked(t))
      BY <2>1 DEF EventsInv, WalkHolds
    <3>2. Len(walks[t].owed) \in Nat /\ Len(walks[t].heard) \in Nat /\ Len(Events!Walked(t)) \in Nat
      BY WalkedTyped
    <3> QED
      BY <2>1, <3>1, <3>2 DEF Begins
  <2>5. WalkHolds(t)'
    BY <2>3, <2>4 DEF WalkHolds
  <2>6. \A other \in Tasks \ {t} : WalkHolds(other)'
    BY <2>1 DEF EventsInv, WalkHolds, Events!Walked
  <2> QED
    BY <2>1, <2>2, <2>5, <2>6 DEF EventsInv
<1>5. ASSUME Events!Clear PROVE EventsInv'
  <2>1. listeners' \in [EventTypes -> Seq(Listeners)]
    <3>1. <<>> \in Seq(Listeners)
      OBVIOUS
    <3> QED
      BY <1>5, <3>1 DEF Events!Clear
  <2>2. ASSUME NEW t \in Tasks
        PROVE  /\ walks'[t] = [walks[t] EXCEPT !.list = Events!Walked(t), !.live = FALSE]
               /\ walks'[t] \in Walk
               /\ walks'[t].heard = walks[t].heard /\ walks'[t].owed = walks[t].owed
               /\ walks'[t].over = walks[t].over /\ Events!Walked(t)' = Events!Walked(t)
    <3>1. walks'[t] = [walks[t] EXCEPT !.list = Events!Walked(t), !.live = FALSE]
      BY <1>5 DEF Events!Clear
    <3>2. /\ walks'[t] \in Walk /\ walks'[t].heard = walks[t].heard /\ walks'[t].owed = walks[t].owed
          /\ walks'[t].over = walks[t].over /\ walks'[t].list = Events!Walked(t)
          /\ walks'[t].live = FALSE
      BY <3>1, WalkedTyped DEF Walk
    <3> QED
      BY <3>1, <3>2 DEF Events!Walked
  <2>3. walks' \in [Tasks -> Walk]
    BY <1>5, <2>2 DEF Events!Clear
  <2>4. \A t \in Tasks : WalkHolds(t)'
    BY <2>2 DEF EventsInv, WalkHolds
  <2> QED
    BY <2>1, <2>3, <2>4 DEF EventsInv
<1>6. CASE UNCHANGED Events!vars
  BY <1>6 DEF Events!vars, EventsInv, WalkHolds, Events!Walked
<1> QED
  BY <1>1, <1>2, <1>3, <1>4, <1>5, <1>6 DEF Events!Next

\* No listener is registered and no dispatch under way at the start.
LEMMA EventsStart == ASSUME Events!EventsAssumption, Events!Init PROVE EventsInv
<1>1. <<>> \in Seq(Listeners)
  OBVIOUS
<1>2. Events!Idle \in Walk
  BY <1>1 DEF Events!Idle, Walk, Events!EventsAssumption
<1>3. Begins(Events!Idle.owed, Events!Idle.heard) /\ Events!Idle.over
  BY DEF Events!Idle, Begins
<1> QED
  BY <1>1, <1>2, <1>3 DEF Events!Init, EventsInv, WalkHolds

\* A dispatch that is over has called what it owed.
LEMMA EventsInvMeans == ASSUME EventsInv PROVE Events!ListenersHear
  BY WalkedTyped, BeginsIsPrefix DEF EventsInv, WalkHolds, Events!ListenersHear

\* However the list was extended, repeated or forgotten while it was walked,
\* a dispatch reaches the listeners registered at its start, in order.
THEOREM ListenersAreReached == Events!Spec => []Events!ListenersHear
<1>1. Events!Init => EventsInv
  BY EventsAssumption, EventsStart
<1>2. EventsInv /\ [Events!Next]_(Events!vars) => EventsInv'
  BY EventsAssumption, EventStepKeeps
<1>3. EventsInv => Events!ListenersHear
  BY EventsInvMeans
<1> QED
  BY <1>1, <1>2, <1>3, PTL DEF Events!Spec

-----------------------------------------------------------------------------
(* The package: what MCAuth's run checks, for all its components at once.  *)
(* Each behaviour exercises one of them, and its steps are that            *)
(* component's, so that the invariants above carry over.                   *)

ThrottlesInv == IF component = "long" THEN LongDecay!ThrottleInv ELSE ShortDecay!ThrottleInv

AccessInv ==
    IF component = "alone" THEN Alone!RowsHold /\ Alone!RevokedForgotten ELSE Shared!RowsHold

AuthInv ==
    /\ IInv
    /\ ThrottlesInv
    /\ AccessInv
    /\ component = "sessions" => Sessions!TypeOK
    /\ component = "resets" => ResetsInv
    /\ component = "factors" => FactorsInv
    /\ component = "events" => EventsInv

\* A step is one of the component's, for every component.
LEMMA StepIsOfComponent ==
    ASSUME [MCNext]_allVars
    PROVE  /\ component' = component
           /\ [Next]_vars
           /\ component = "long" => [LongDecay!Next]_(LongDecay!vars)
           /\ component # "long" => [ShortDecay!Next]_(ShortDecay!vars)
           /\ component = "alone" => [Alone!Next]_(Alone!vars)
           /\ component # "alone" => [Shared!Next]_(Shared!vars)
           /\ component = "sessions" => [Sessions!Next]_(Sessions!vars)
           /\ component = "resets" => [Resets!Next]_(Resets!vars)
           /\ component = "factors" => [Factors!Next]_(Factors!vars)
           /\ component = "events" => [Events!Next]_(Events!vars)
<1> USE DEF allVars, throttleVars, accessVars, accountVars, sessionVars, resetVars, factorVars,
            eventVars, decisionVars, guardVars, LongDecay!vars, ShortDecay!vars, Alone!vars,
            Shared!vars, Sessions!vars, Resets!vars, Factors!vars, Events!vars
<1>1. CASE UNCHANGED allVars
  BY <1>1 DEF vars
<1>2. CASE component = "tokens" /\ Next /\ UNCHANGED <<component, throttleVars, accessVars, accountVars>>
  BY <1>2
<1>3. CASE /\ UNCHANGED <<component, vars, accessVars, accountVars>>
           /\ \/ component = "short" /\ ShortDecay!Next
              \/ component = "long" /\ LongDecay!Next
  BY <1>3
<1>4. CASE /\ UNCHANGED <<component, vars, throttleVars, accountVars>>
           /\ \/ component = "shared" /\ Shared!Next
              \/ component = "alone" /\ Alone!Next
  BY <1>4
<1>5. CASE AccountsNext /\ UNCHANGED <<vars, throttleVars, accessVars>>
  BY <1>5 DEF AccountsNext
<1> QED
  BY <1>1, <1>2, <1>3, <1>4, <1>5 DEF MCNext

\* What the composition assumes of its constants is what the components assume.
LEMMA ComponentsAssume ==
    /\ ShortDecay!ThrottleAssumption /\ LongDecay!ThrottleAssumption
    /\ Sessions!SessionsAssumption /\ Resets!ResetsAssumption /\ Events!EventsAssumption
  BY ThrottleAssumptions, SessionsAssumption, ResetsAssumption, EventsAssumption
     DEF ThrottleAssumptions, SessionsAssumption, ResetsAssumption, EventsAssumption

\* Each component starts in its invariant.
LEMMA AuthStart == MCInit => AuthInv
<1> SUFFICES ASSUME MCInit PROVE AuthInv
  OBVIOUS
<1>1. IInv
  BY InitInv DEF MCInit
<1>2. ThrottlesInv
  BY ShortDecay!ThrottleStarts, LongDecay!ThrottleStarts DEF MCInit, ThrottlesInv
<1>3. AccessInv
  BY Shared!TokensStart, Alone!TokensStart DEF MCInit, AccessInv
<1>4. /\ component = "sessions" => Sessions!TypeOK
      /\ component = "resets" => ResetsInv
      /\ component = "events" => EventsInv
  BY ComponentsAssume, SessionsTyped, ResetsInit, EventsStart DEF MCInit, AccountsInit
<1>5. component = "factors" => FactorsInv
  BY DEF MCInit, AccountsInit, Factors!Init, FactorsInv, FactorHolds, Apart
<1> QED
  BY <1>1, <1>2, <1>3, <1>4, <1>5 DEF AuthInv

\* Each step keeps the invariant of the component that takes it.
LEMMA AuthStep == AuthInv /\ [MCNext]_allVars => AuthInv'
<1> SUFFICES ASSUME AuthInv, [MCNext]_allVars PROVE AuthInv'
  OBVIOUS
<1>1. IInv'
  BY StepIsOfComponent, NextInv DEF AuthInv
<1>2. ThrottlesInv'
  BY StepIsOfComponent, ComponentsAssume, ShortDecay!StepKeepsThrottle, LongDecay!StepKeepsThrottle
     DEF AuthInv, ThrottlesInv
<1>3. AccessInv'
  <2>1. component = "alone" => Alone!RowsHold' /\ Alone!RevokedForgotten'
    <3>1. \A p, q \in {p3} : p = q
      OBVIOUS
    <3> QED
      BY <3>1, StepIsOfComponent, Alone!StepKeepsRows, Alone!StepKeepsForgotten DEF AuthInv, AccessInv
  <2>2. component # "alone" => Shared!RowsHold'
    BY StepIsOfComponent, Shared!StepKeepsRows DEF AuthInv, AccessInv
  <2> QED
    BY <2>1, <2>2, StepIsOfComponent DEF AccessInv
<1>4. /\ component = "sessions" => Sessions!TypeOK'
      /\ component = "resets" => ResetsInv'
      /\ component = "factors" => FactorsInv'
      /\ component = "events" => EventsInv'
  BY StepIsOfComponent, ComponentsAssume, SessionStepMaps, ResetStepKeeps, FactorStepKeeps,
     EventStepKeeps DEF AuthInv
<1> QED
  BY <1>1, <1>2, <1>3, <1>4, StepIsOfComponent DEF AuthInv

\* Every component of the package keeps its invariant.
THEOREM AuthInvariance == MCSpec => []AuthInv
  BY AuthStart, AuthStep, PTL DEF MCSpec

\* A login key is locked exactly while max_attempts failures within the decay
\* window call for it.
THEOREM LocksAreExact == MCSpec => []LockedExactly
<1>1. AuthInv => LockedExactly
  BY ComponentsAssume, ShortDecay!InvMeansLocked, LongDecay!InvMeansLocked
     DEF AuthInv, ThrottlesInv, LockedExactly
<1> QED
  BY <1>1, AuthInvariance, PTL

\* A personal access token verifies everywhere until it expires or somebody
\* asks for its revocation, and nowhere once a process alone has revoked it.
THEOREM AccessTokensHold == MCSpec => []AccessTokensAreExact
<1>1. AuthInv => AccessTokensAreExact
  BY Alone!RowsMeanVerified, Shared!RowsMeanVerified DEF AuthInv, AccessInv, AccessTokensAreExact
<1> QED
  BY <1>1, AuthInvariance, PTL

\* The stored hash is of the password last set, reset tokens count once, and
\* second factors are accepted only from who proved to have the secret.
THEOREM SecretsAreHeld == MCSpec => []SecretsHold
<1>1. AuthInv => SecretsHold
  BY ComponentsAssume, ResetsInvMeans, FactorsInvMeans DEF AuthInv, SecretsHold
<1> QED
  BY <1>1, AuthInvariance, PTL

\* A dispatch that is over has reached the listeners registered at its start.
THEOREM ListenersAreHeard == MCSpec => []ListenersHear
<1>1. AuthInv => ListenersHear
  BY EventsInvMeans DEF AuthInv, ListenersHear
<1> QED
  BY <1>1, AuthInvariance, PTL

\* JWTs (which outlive the instant of their issue), sessions and reset tokens
\* implement the same abstract credentials, step by step.
THEOREM CredentialsAreImplemented ==
    AccessTtl > 0 /\ RefreshTtl > 0 /\ MCSpec => ImplementCredentials
<1> SUFFICES ASSUME AccessTtl > 0, RefreshTtl > 0 PROVE MCSpec => ImplementCredentials
  OBVIOUS
<1>1. AuthInv /\ [MCNext]_allVars =>
        /\ component = "tokens" => AsCredentials!Next
        /\ component = "sessions" => Sessions!AsCredentials!Next
        /\ component = "resets" => Resets!AsCredentials!Next
  BY StepIsOfComponent, ComponentsAssume, StepMaps, SessionStepMaps, ResetStepKeeps DEF AuthInv
<1> QED
  BY <1>1, AuthInvariance, PTL DEF MCSpec, ImplementCredentials
=============================================================================
