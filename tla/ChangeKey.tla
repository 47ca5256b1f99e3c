------------------------------- MODULE ChangeKey -------------------------------
(***************************************************************************)
(* The idempotency key of an outbound change (change.rs,                   *)
(* ReplicaChangeKind::key): the sequence of fields the change is digested  *)
(* into. Each field is terminated and folded in on its own, so the         *)
(* sequence is what the key tells apart; the collision of two sequences in *)
(* the 64 bits of the digest is left out, and so is the collection, one    *)
(* for the whole model. A flag set is one field here: the code folds its   *)
(* count, then its markers in the set's own order.                         *)
(***************************************************************************)
EXTENDS Merge, Sequences, FiniteSets

(* ReplicaChangeDigest::option. *)
OptionFields(x) == IF x = None THEN <<"0">> ELSE <<"1", x>>

(* ReplicaChangeDigest::flags: an unknown set is not an empty one. *)
FlagsFields(flags) ==
    IF flags = Unknown THEN <<"unknown">>
    ELSE <<"known", Cardinality(flags), flags>>

(* What the change makes true. *)
TargetFields(change) ==
    CASE change.kind = "Add" ->
            OptionFields(change.link_id) \o FlagsFields(change.flags)
                \o OptionFields(change.origin) \o OptionFields(change.object)
      [] change.kind = "Remove"   -> OptionFields(change.to)
      [] change.kind = "SetFlags" -> FlagsFields(change.flags)
      [] change.kind = "Update"   -> <<change.object>>

(* Mutant: the precondition is part of the key. *)
KeyWithPrecondition(h, change) ==
    <<h, change.kind>> \o TargetFields(change)
        \o (IF change.kind \in {"Update", "Remove"}
            THEN OptionFields(change.if_match) ELSE <<>>)

(* The key of a change on handle h. *)
ReplicaChangeKey(h, change) == <<h, change.kind>> \o TargetFields(change)

================================================================================
