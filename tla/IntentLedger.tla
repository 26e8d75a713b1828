---------------------------- MODULE IntentLedger ----------------------------
(***************************************************************************)
(* The intent ledger of automation/runtime/intent_ledger.py: a map from    *)
(* client order ids to PENDING or DONE, kept in memory and rewritten whole *)
(* to its file after every mutation.                                       *)
(*                                                                         *)
(* A mutation changes the memory first and writes the file second, so a    *)
(* failed write (it raises) leaves memory ahead of the file until the next *)
(* write that succeeds; ok says whether the write succeeds.  The atomic    *)
(* replace of _flush makes a file that is either the old or the new map,   *)
(* never a torn one, so LedgerError cannot come from a crash.              *)
(***************************************************************************)
CONSTANT Cloid    \* client order ids

VARIABLES
    intents,      \* IntentLedger._intents
    file          \* the ledger file

ledger == <<intents, file>>

\* An id is absent from the map, PENDING or DONE.
Status == {"ABSENT", "PENDING", "DONE"}

LedgerTypeOK ==
    /\ intents \in [Cloid -> Status]
    /\ file \in [Cloid -> Status]

LedgerInit ==
    /\ intents = [c \in Cloid |-> "ABSENT"]
    /\ file = [c \in Cloid |-> "ABSENT"]

_flush(ok) == file' = IF ok THEN intents' ELSE file

record_pending(c, ok) ==
    /\ intents' = [intents EXCEPT ![c] = "PENDING"]
    /\ _flush(ok)

\* mark_done of an id not in the map raises KeyError: no behaviour of the
\* executor does it, so it is a guard here.
mark_done(c, ok) ==
    /\ intents[c] # "ABSENT"
    /\ intents' = [intents EXCEPT ![c] = "DONE"]
    /\ _flush(ok)

pending == {c \in Cloid : intents[c] = "PENDING"}

Resolved(m, S) == [c \in Cloid |-> IF c \in S THEN "DONE" ELSE m[c]]

\* S are the pending intents the resolver confirms.  Each is flushed as it
\* becomes DONE; without any there is no write, and a memory ahead of the
\* file stays so.
reconcile_pending(S) ==
    /\ S \subseteq pending
    /\ intents' = Resolved(intents, S)
    /\ file' = IF S = {} THEN file ELSE intents'

\* The flush after the last of S raises: the earlier ones are durable.
reconcile_raises(S) ==
    /\ S \subseteq pending
    /\ intents' = Resolved(intents, S)
    /\ \E c \in S :
           file' = IF S = {c} THEN file ELSE Resolved(intents, S \ {c})

\* A new process reads the file; the old memory is gone.
LoadLedger == intents' = file
=============================================================================
