----------------------------- MODULE MCContainer -----------------------------
(***************************************************************************)
(* Instances of Container for TLC: an application with a database behind   *)
(* an async factory, a repository and a handler built on it, a cache that  *)
(* nobody registered, and two classes that need each other.                *)
(***************************************************************************)
EXTENDS Container

CONSTANTS Handler, Repo, Left, Right, db, cache, connect, t1, t2

Param1(k, o) == [key |-> k, optional |-> o, given |-> NoClass]
Given(k, c) == [key |-> k, optional |-> TRUE, given |-> c]

MCTasks == {t1, t2}
OneTask == {t1}
MCClasses == {Handler, Repo, Left, Right}
MCKeys == MCClasses \cup {db, cache}
MCFactories == {connect}

\* Handler takes a cache if there is one and a repository; Left is given
\* Right by a contextual binding.
MCNeeds ==
    (Handler :> <<Param1(cache, TRUE), Param1(Repo, FALSE)>>) @@
    (Repo    :> <<Param1(db, FALSE)>>) @@
    (Left    :> <<Param1(db, TRUE), Given(cache, Right)>>) @@
    (Right   :> <<Param1(Left, TRUE)>>) @@
    (connect :> << >>)

MCRegistrations ==
    {[key |-> db, concrete |-> connect, type |-> "singleton"],
     [key |-> Repo, concrete |-> Repo, type |-> "singleton"]}

Symmetry == Permutations(MCTasks)
=============================================================================
