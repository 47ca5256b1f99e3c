------------------------------- MODULE Placement -------------------------------
(***************************************************************************)
(* An item's presence in one collection (placement.rs): the record the     *)
(* whole engine reads and rewrites, and the three-way flag merge.          *)
(*                                                                         *)
(* Left out: `collection` and `handle`, which key the maps that hold       *)
(* placements, and `sort_key`, which nothing in the engine branches on; of *)
(* the summary `meta` only whether there is one, which an upgrade reads.   *)
(***************************************************************************)
EXTENDS Naturals

CONSTANTS
    None,       \* an absent Option, an absent map entry
    Unknown,    \* ReplicaFlags::Unknown, a flag set nobody has read
    Flag,       \* the markers an item may carry
    Body,       \* the content hashes of stored bodies
    LinkId,     \* the logical-item identities
    Origin      \* where a body may already live: (collection, handle) pairs

Opt(S) == S \cup {None}

(* A content revision (an etag, a changeKey) is opaque: the engine compares *)
(* revisions for equality only. The remote numbers its versions.           *)
Revision == Nat

ReplicaFlags == (SUBSET Flag) \cup {Unknown}

ReplicaLevel == {"Probed", "Meta", "Full"}

(* A summary is opaque: what matters is whether one is cached. *)
ReplicaMeta == {"summary"}

ReplicaStatus == {"Clean", "Dirty", "Tombstone", "Conflict", "Created"}

ReplicaBase ==
    [flags : ReplicaFlags, revision : Opt(Revision), object : Opt(Body)]

ReplicaPlacement ==
    [link_id           : Opt(LinkId),
     object            : Opt(Body),
     level             : ReplicaLevel,
     meta              : Opt(ReplicaMeta),
     flags             : ReplicaFlags,
     status            : ReplicaStatus,
     conflict_revision : Opt(Revision),
     conflict_object   : Opt(Body),
     base              : Opt(ReplicaBase),
     origin            : Opt(Origin)]

(* The two sentinels stand for no value of the types they extend. *)
ASSUME SentinelAssumption ==
    /\ \A flags \in SUBSET Flag : flags # Unknown
    /\ None \notin Body
    /\ None \notin LinkId
    /\ None \notin ReplicaMeta
    /\ None \notin Origin
    /\ None \notin Nat
    /\ None \notin ReplicaBase
    /\ None \notin ReplicaPlacement

(* Mutant: the side that moved wins the whole set, the remote's first. *)
MergeFlagsRemoteWins(base, local, remote) ==
    IF remote = base THEN local ELSE remote

(* ReplicaFlags::merge. An unknown side holds no opinion; an unknown base  *)
(* is the same fact as no base at all.                                     *)
MergeFlags(base, local, remote) ==
    LET ancestor == IF base = Unknown THEN {} ELSE base
    IN  CASE local = Unknown  -> remote
          [] local # Unknown /\ remote = Unknown -> local
          [] OTHER -> (local \cap remote) \cup (local \ ancestor)
                                          \cup (remote \ ancestor)

(* ReplicaPlacement::staged_edit: the body the placement points at was     *)
(* never synced, its base holding another one or none.                     *)
StagedEdit(p) ==
    /\ p.object # None
    /\ ~(p.base # None /\ p.base.object = p.object)

(* A locally authored placement no remote has a handle for yet: what an    *)
(* Add, a Copy, a Move's target half and a keep-both fork all stage.       *)
CreatedPlacement(link, object, level, meta, flags, origin) ==
    [link_id           |-> link,
     object            |-> object,
     level             |-> level,
     meta              |-> meta,
     flags             |-> flags,
     status            |-> "Created",
     conflict_revision |-> None,
     conflict_object   |-> None,
     base              |-> None,
     origin            |-> origin]

================================================================================
