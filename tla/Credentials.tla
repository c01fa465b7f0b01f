------------------------------ MODULE Credentials ------------------------------
(***************************************************************************)
(* What every kind of credential promises: it is issued once, may lapse    *)
(* with time, and once it is void it never counts again.  A renewable one  *)
(* may come back from lapsing, on its own and by its own use only.         *)
(*                                                                         *)
(* SessionManager, PasswordResets and TokenManager implement it.           *)
(***************************************************************************)
CONSTANTS Ids, Renewable

VARIABLE status

TypeOK == status \in [Ids -> {"unborn", "valid", "lapsed", "void"}]

Init == status = [c \in Ids |-> "unborn"]

Moves(c, arcs) == status'[c] = status[c] \/ <<status[c], status'[c]>> \in arcs

\* Some are issued, others revoked, perhaps for them.
Replace == \A c \in Ids :
    Moves(c, {<<"unborn", "valid">>, <<"valid", "void">>, <<"lapsed", "void">>})

\* Time passes.
Lapse == \A c \in Ids : Moves(c, {<<"valid", "lapsed">>})

Renew == \E r \in Ids :
    /\ Renewable
    /\ Moves(r, {<<"lapsed", "valid">>})
    /\ \A c \in Ids \ {r} : status'[c] = status[c]

Next == Replace \/ Lapse \/ Renew

Spec == Init /\ [][Next]_status
===============================================================================
