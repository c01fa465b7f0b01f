------------------------------ MODULE MFAManager ------------------------------
(***************************************************************************)
(* Multi-factor authentication (src/core/auth/mfa.py).  A secret and a set *)
(* of backup codes are their numbers in the order of generation; a TOTP    *)
(* code is the secret and the time step it is for, a backup code the set   *)
(* and its place in it: hashing and truncation do not confuse them.        *)
(***************************************************************************)
EXTENDS Integers, Sequences

CONSTANTS
    Users, NoRecord, NoCodes,
    Drift,              \* steps a code may be early or late
    Count,              \* backup codes in a set
    MaxGenerated,       \* secrets and sets
    MaxStep

MFAAssumption == Drift \in Nat /\ Count \in Nat \ {0} /\ MaxGenerated \in Nat /\ MaxStep \in Nat

VARIABLES
    records,        \* _secrets
    generated,      \* secrets and sets generated, numbered together
    step,           \* time.time() // period
    proved,         \* user -> secrets confirmed by a code (history)
    spent,          \* backup codes accepted (history)
    renewed         \* users whose codes were regenerated since setup() (history)

vars == <<records, generated, step, proved, spent, renewed>>

CodeSet(n) == {<<n, i>> : i \in 1..Count}
Generated == 1..MaxGenerated
BackupCodes == UNION {CodeSet(n) : n \in Generated}

TypeOK ==
    /\ \A u \in Users : records[u] = NoRecord \/
        /\ records[u].secret \in Generated /\ records[u].confirmed \in BOOLEAN
        /\ records[u].hashes \subseteq BackupCodes
        /\ records[u].plain = NoCodes \/ records[u].plain \subseteq BackupCodes
    /\ generated \in 0..MaxGenerated /\ step \in 0..MaxStep
    /\ proved \in [Users -> SUBSET Generated] /\ spent \subseteq BackupCodes
    /\ renewed \subseteq Users

Init ==
    /\ records = [u \in Users |-> NoRecord]
    /\ generated = 0 /\ step = 0
    /\ proved = [u \in Users |-> {}] /\ spent = {} /\ renewed = {}

Codes == Generated \X (0 - Drift..MaxStep + Drift)

\* TOTP.verify(): the codes of the steps around now.
Matches(secret, code) == code \in {<<secret, step + offset>> : offset \in -Drift..Drift}

\* A verify that leaves the code where it was.
Remaining_All(hashes, code) == hashes

\* BackupCodes.verify(): what remains of the hashes.
Remaining(hashes, code) == hashes \ {code}

Setup(u) ==
    /\ generated < MaxGenerated
    /\ generated' = generated + 1
    /\ records' = [records EXCEPT ![u] = [secret |-> generated', hashes |-> CodeSet(generated'),
                        plain |-> CodeSet(generated'), confirmed |-> FALSE]]
    /\ renewed' = renewed \ {u}
    /\ UNCHANGED <<step, proved, spent>>

GetBackupCodes(u) ==
    /\ records[u] # NoRecord
    /\ records' = [records EXCEPT ![u].plain = NoCodes]
    /\ UNCHANGED <<generated, step, proved, spent, renewed>>

ConfirmSetup(u, code) ==
    /\ records[u] # NoRecord /\ Matches(records[u].secret, code)
    /\ records' = [records EXCEPT ![u].confirmed = TRUE]
    /\ proved' = [proved EXCEPT ![u] = @ \cup {code[1]}]
    /\ UNCHANGED <<generated, step, spent, renewed>>

\* A backup code is taken whether or not the setup was confirmed.
VerifyBackup(u, code) ==
    /\ records[u] # NoRecord /\ code \in records[u].hashes
    /\ records' = [records EXCEPT ![u].hashes = Remaining(@, code)]
    /\ spent' = spent \cup {code}
    /\ UNCHANGED <<generated, step, proved, renewed>>

Disable(u) ==
    /\ records' = [records EXCEPT ![u] = NoRecord]
    /\ renewed' = renewed \ {u}
    /\ UNCHANGED <<generated, step, proved, spent>>

\* The codes of the setup, if they were not shown, stay to be shown.
RegenerateBackup(u) ==
    /\ records[u] # NoRecord /\ generated < MaxGenerated
    /\ generated' = generated + 1
    /\ records' = [records EXCEPT ![u].hashes = CodeSet(generated')]
    /\ renewed' = renewed \cup {u}
    /\ UNCHANGED <<step, proved, spent>>

Tick == step < MaxStep /\ step' = step + 1
    /\ UNCHANGED <<records, generated, proved, spent, renewed>>

Next ==
    \/ \E u \in Users : Setup(u) \/ GetBackupCodes(u) \/ Disable(u) \/ RegenerateBackup(u)
    \/ \E u \in Users, code \in Codes : ConfirmSetup(u, code)
    \/ \E u \in Users, code \in BackupCodes : VerifyBackup(u, code)
    \/ Tick

Spec == Init /\ [][Next]_vars

IsEnabled(u) == records[u] # NoRecord /\ records[u].confirmed

\* verify(): TOTP at login.
Passes(u, code) == IsEnabled(u) /\ Matches(records[u].secret, code)

-----------------------------------------------------------------------------

\* Who passes by TOTP has proved to have that very secret, through repeated
\* setups and disabling; a backup code that was accepted opens nobody's
\* account again; the codes of a user are one set, no one else's; and codes
\* yet to be shown verify, unless the set was regenerated before.
FactorsAreProven ==
    /\ \A u \in Users, code \in Codes : Passes(u, code) => code[1] \in proved[u]
    /\ \A u \in Users : records[u] # NoRecord =>
        /\ records[u].hashes \cap spent = {}
        /\ \A c, d \in records[u].hashes : c[1] = d[1]
        /\ \A v \in Users \ {u} : records[v] # NoRecord => records[u].hashes \cap records[v].hashes = {}
        /\ records[u].plain # NoCodes /\ u \notin renewed =>
            records[u].plain \subseteq records[u].hashes \cup spent
===============================================================================
