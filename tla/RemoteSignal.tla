---------------------------- MODULE RemoteSignal ----------------------------
(***************************************************************************)
(* RemoteSignalSource of automation/allocation/remote_signal.py, one for   *)
(* each sleeve: nine checks between an answer of the signal service and an *)
(* allocation, and the anti-replay file that remembers the last accepted.  *)
(*                                                                         *)
(* Every check that fails raises SignalRejected and changes nothing, so    *)
(* the checks are one conjunction.  Keys and signatures are only right or  *)
(* wrong: the flaw of a wire names the first such check it fails.          *)
(***************************************************************************)
EXTENDS Sleeves

CONSTANTS
    None,
    MaxSkew,        \* max_skew_seconds, in ticks
    MaxValidity,    \* max_validity_seconds, in ticks
    AsOf            \* the days an allocation may be for

\* What an anti-replay file holds.
Cursor == [seq : Nat, as_of : AsOf]

ASSUME SignalAssumption ==
    /\ MaxSkew \in Nat /\ MaxValidity \in Nat
    /\ AsOf \subseteq Nat
    /\ None \notin Nat \cup Cursor \cup Book

VARIABLE
    cursor      \* the anti-replay file of each source, or None

Flaws == {"manifest", "key_id", "signature", "bounds", "payload"}

Wire == [flaw           : Flaws \cup {None},
         audience       : Sleeves,
         issued_at      : Nat,
         expires_at     : Nat,
         seq            : Nat,
         as_of          : AsOf,
         schema_version : Nat,
         weights        : Book,
         pinned         : BOOLEAN]     \* its model_rev is the pinned one

CursorTypeOK == cursor \in [Sleeves -> Cursor \cup {None}]
CursorInit == cursor = [s \in Sleeves |-> None]

\* Checks 1, 3, 4 and 5: the manifest's root, an active key, the signature
\* over the payload, the audience.
Authentic(s, wire) ==
    /\ wire.flaw \notin {"manifest", "key_id", "signature"}
    /\ wire.audience = s

\* Check 6.
_check_freshness(wire, now) ==
    /\ now < wire.expires_at
    /\ wire.expires_at - wire.issued_at <= MaxValidity
    /\ now - wire.issued_at <= MaxSkew
    /\ wire.issued_at - now <= MaxSkew

\* Mutant: the day is not compared, so a day can be served again.
_check_anti_replay_SeqOnly(s, wire) ==
    cursor[s] # None => wire.seq > cursor[s].seq

\* Check 7.
_check_anti_replay(s, wire) ==
    cursor[s] # None =>
        wire.seq > cursor[s].seq /\ wire.as_of > cursor[s].as_of

\* allocation/base.py: refuse, never clamp.  Caps, unity and finiteness are
\* one flaw; the signs are looked at.
validate_target_allocation(wire, allow_short) ==
    /\ wire.flaw # "payload"
    /\ ~allow_short => \A c \in Coins : wire.weights[c] >= 0

\* Check 8: numeric bounds, a schema the source may consume, and the local
\* validator; v1 is long-only whatever the source.
_build_and_validate_ta(s, wire) ==
    /\ wire.flaw # "bounds"
    /\ wire.schema_version \in {1, 2}
    /\ wire.schema_version = 2 => s \in Short
    /\ validate_target_allocation(wire, wire.schema_version = 2)

Verified(s, wire, as_of, now) ==
    /\ Authentic(s, wire)
    /\ _check_freshness(wire, now)
    /\ wire.as_of = as_of
    /\ _check_anti_replay(s, wire)
    /\ _build_and_validate_ta(s, wire)

\* Check 9: the file is replaced before the allocation is returned.
_save_state_atomic(s, wire) ==
    cursor' = [cursor EXCEPT ![s] = [seq |-> wire.seq, as_of |-> wire.as_of]]
=============================================================================
