--------------------------------- MODULE Detail ---------------------------------
(***************************************************************************)
(* What an upgrade makes of one placement (upgrade.rs): which rows a tier  *)
(* leaves pending, which the object store may serve, and how a fetched     *)
(* item identifies and hydrates its row, as pure operators.                *)
(***************************************************************************)
EXTENDS Placement

CONSTANT Mint       \* the link id of a second copy, by hint and handle

ReplicaTier == {"Meta", "Full"}

ReplicaFetchedItem ==
    [link_id : LinkId, body : Opt(Body), revision : Opt(Revision)]

IsConflicted(p) == p.status = "Conflict"

(* A last-synced revision is the mark of mutable content. *)
IsMutable(p) == p.base # None /\ p.base.revision # None

(* Mutant: a conflicted row is asked for its own body. *)
NeedsOwn(p, tier) ==
    IF tier = "Meta" THEN p.level = "Probed" \/ p.meta = None
    ELSE p.level # "Full" \/ p.object = None

(* pending_handles, for one placement: the level is a claim, the payload   *)
(* the fact; a conflict needs the body the remote holds instead.           *)
Needs(p, tier) ==
    CASE tier = "Meta" -> p.level = "Probed" \/ p.meta = None
      [] tier = "Full" /\ IsConflicted(p) -> p.conflict_object = None
      [] OTHER -> p.level # "Full" \/ p.object = None

PendingHandles(placements, handles, tier) ==
    {h \in handles : placements[h] # None /\ Needs(placements[h], tier)}

(* The rows the object store may serve. *)
Linkable(p) == p.link_id # None /\ ~IsMutable(p) /\ ~IsConflicted(p)

(* Mutant: the base is left behind by a body linked from the store. *)
LinkFromStoreBaseless(p, hash) ==
    [p EXCEPT !.object = hash, !.level = "Full"]

(* A row linked from the store: the base moves with the body. *)
LinkFromStore(p, hash) ==
    [p EXCEPT !.object = hash,
              !.level  = "Full",
              !.base   = IF @ = None THEN None ELSE [@ EXCEPT !.object = hash]]

(* The identity of a second copy, from the hint and its own handle alone. *)
MintLink(hint, h) == Mint[<<hint, h>>]

(* The identity a fetch settles: only of an unlinked row, and never one    *)
(* another row holds.                                                      *)
Identify(p, item, h, claimed) ==
    IF p.link_id # None THEN p
    ELSE [p EXCEPT !.link_id = IF item.link_id \in claimed
                               THEN MintLink(item.link_id, h)
                               ELSE item.link_id]

(* Mutant: a conflict is hydrated like any row, over its local body. *)
HydratedOver(p, item, tier) ==
    IF tier = "Full"
    THEN [p EXCEPT !.meta   = "summary",
                   !.object = item.body,
                   !.level  = "Full",
                   !.base   = IF @ = None THEN None
                              ELSE [@ EXCEPT !.revision = item.revision,
                                             !.object   = item.body]]
    ELSE [p EXCEPT !.meta = "summary", !.level = "Meta"]

(* What a fetched item makes of its placement (write_fetched). *)
Hydrated(p, item, tier) ==
    CASE tier = "Full" /\ IsConflicted(p) ->
            [p EXCEPT !.conflict_object = item.body]
      [] tier = "Full" /\ ~IsConflicted(p) ->
            [p EXCEPT !.meta   = "summary",
                      !.object = item.body,
                      !.level  = "Full",
                      !.base   = IF @ = None THEN None
                                 ELSE [@ EXCEPT !.revision = item.revision,
                                                !.object   = item.body]]
      [] OTHER -> [p EXCEPT !.meta = "summary", !.level = "Meta"]

(* The rows one Full upgrade of a whole collection rewrites, the server's  *)
(* members being fetched and their identities claimed in handle order.     *)
UpgradedRows(local, members) ==
    LET handles  == DOMAIN local
        claimed  == {local[h].link_id : h \in {k \in handles : local[k] # None}}
        fetched  == {h \in PendingHandles(local, handles, "Full") :
                        members[h] # None}
        item(h)  == [link_id  |-> members[h].link,
                     body     |-> members[h].body,
                     revision |-> members[h].rev]
        taken(h) == claimed \cup {members[k].link : k \in {j \in fetched : j < h}}
        row(h)   == IF IsConflicted(local[h]) THEN local[h]
                    ELSE Identify(local[h], item(h), h, taken(h))
    IN  [h \in fetched |-> Hydrated(row(h), item(h), "Full")]

================================================================================
