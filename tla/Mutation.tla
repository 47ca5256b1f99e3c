-------------------------------- MODULE Mutation --------------------------------
(***************************************************************************)
(* How each local mutation rewrites the placement it loaded (mutate.rs,    *)
(* ReplicaMutate::writes and create_writes), as pure operators. A mutation *)
(* loads, rewrites and writes with no yield to a remote in between, so the *)
(* modules that use these take one verb as one step.                       *)
(***************************************************************************)
EXTENDS Placement

(* SetFlags: a pending create, a conflict and a tombstone keep their own   *)
(* status, the flag change riding along.                                   *)
SetFlagsMutation(p, flags) ==
    [p EXCEPT !.flags  = flags,
              !.status = IF @ = "Clean" THEN "Dirty" ELSE @]

(* Remove *)
RemoveMutation(p) == [p EXCEPT !.status = "Tombstone"]

(* Edit: editing a conflict resolves it, the base becoming both halves of  *)
(* the remote state it was merged against. An edit restating the synced    *)
(* body stages nothing. No `meta` given keeps the cached summary.          *)
EditMutation(p, object, meta) ==
    LET resolving == p.status = "Conflict"
        settled   == [flags    |-> IF p.base = None THEN p.flags
                                   ELSE p.base.flags,
                      revision |-> p.conflict_revision,
                      object   |-> p.conflict_object]
        base      == IF resolving THEN settled ELSE p.base
        staged    == IF base = None THEN TRUE ELSE base.object # object
    IN  [p EXCEPT !.object            = object,
                  !.level             = "Full",
                  !.meta              = IF meta = None THEN @ ELSE meta,
                  !.base              = base,
                  !.conflict_revision = IF resolving THEN None ELSE @,
                  !.conflict_object   = IF resolving THEN None ELSE @,
                  !.status = IF @ # "Created" /\ (staged \/ resolving)
                             THEN "Dirty" ELSE @]

(* Copy, and the target half of Move: staged_copy. *)
CopyMutation(p, origin) ==
    CreatedPlacement(p.link_id, p.object, p.level, p.meta, p.flags, origin)

(* Mutant: the tombstone does not name where the item goes. *)
MoveMutationDeletes(p, destination) == [p EXCEPT !.status = "Tombstone"]

(* Mutant: the source half is never staged. *)
MoveMutationCopies(p, destination) == p

(* Move, the source half: a tombstone that names where it goes. *)
MoveMutation(p, destination) ==
    [p EXCEPT !.status = "Tombstone", !.origin = destination]

(* Add: create_writes, refused while a live placement holds the link. *)
AddMutation(link, object, meta, flags) ==
    CreatedPlacement(link, object, "Full", meta, flags, None)

LinkCollides(placements, link) ==
    \E p \in placements : p.status # "Tombstone" /\ p.link_id = link

================================================================================
