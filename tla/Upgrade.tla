-------------------------------- MODULE Upgrade --------------------------------
(***************************************************************************)
(* The upgrade coroutine (upgrade.rs, ReplicaUpgrade) beside the sync and  *)
(* the mutations of Sync: it raises placements up the detail ladder, and a *)
(* fetch being what reads an identity, settles the link ids of a           *)
(* collection. Other clients move between its yields; the engine's single  *)
(* writer rule keeps the other local verbs out while it runs.              *)
(***************************************************************************)
EXTENDS Sync, Detail

CONSTANTS
    Elsewhere,      \* the identities whose body another collection stores
    Batches,        \* the handles the consumer upgrades at once: the cases
    Tiers           \* the tiers it upgrades them to

VARIABLE upgrade    \* the coroutine, None when there is none

ASSUME UpgradeAssumption ==
    /\ Mint \in [LinkId \X Handle -> LinkId]
    /\ Elsewhere \subseteq LinkId
    /\ Batches \subseteq SUBSET Handle
    /\ Tiers \subseteq ReplicaTier

(* The coroutine: its placements are the loaded targets and, past the      *)
(* identity check, the holders of the identities it is about to settle.    *)
ReplicaUpgrade ==
    [state      : {"PendingLookup", "PendingFetch", "PendingLinkCheck",
                   "Applying", "PendingWrite"},
     tier       : ReplicaTier,
     handles    : SUBSET Handle,
     placements : [Handle -> Opt(ReplicaPlacement)],
     fetched    : [Handle -> Opt(ReplicaFetchedItem)],
     claimed    : SUBSET LinkId,
     ops        : [Handle -> ReplicaWriteOp \cup {Keep}]]

--------------------------------------------------------------------------------
(* MemStorage::lookup_objects: any placement of the item that holds a      *)
(* body, here or in another collection.                                    *)
KnownObjects(link) ==
    ({store[h].object : h \in {k \in Handle : store[k] # None
                                    /\ store[k].link_id = link}} \ {None})
        \cup (IF link \in Elsewhere THEN {SeedBody} ELSE {})

(* The body the lookup serves a row with, or None. *)
Hits(p) ==
    IF Linkable(p) /\ KnownObjects(p.link_id) # {}
    THEN KnownObjects(p.link_id) ELSE {None}

(* MemRemote::fetch, of one handle; an unknown one yields nothing. *)
FetchedItem(h, tier) ==
    IF items[h] = None THEN None
    ELSE [link_id  |-> items[h].link,
          body     |-> IF tier = "Full" THEN items[h].body ELSE None,
          revision |-> RevisionOf(items[h].rev)]

--------------------------------------------------------------------------------
(* The coroutine.                                                          *)

upgradeVars == <<vars, upgrade>>

Links(placements) ==
    {placements[h].link_id : h \in {k \in Handle : placements[k] # None}}
        \ {None}

(* Start and PendingLoad: with nothing pending the run is over at once.    *)
BeginUpgrade(batch, tier) ==
    LET loaded  == [h \in Handle |-> IF h \in batch THEN store[h] ELSE None]
        pending == PendingHandles(loaded, batch, tier)
    IN  /\ pc = "Idle"
        /\ upgrade = None
        /\ pending # {}
        /\ upgrade' =
              [state      |-> IF tier = "Full"
                                   /\ \E h \in pending : Linkable(loaded[h])
                              THEN "PendingLookup" ELSE "PendingFetch",
               tier       |-> tier,
               handles    |-> pending,
               placements |-> loaded,
               fetched    |-> None4All,
               claimed    |-> {},
               ops        |-> [h \in Handle |-> Keep]]
        /\ UNCHANGED vars

(* PendingLookup: the hits are linked, the rest is fetched. *)
UpgradeLookup ==
    /\ upgrade # None
    /\ upgrade.state = "PendingLookup"
    /\ \E known \in [upgrade.handles -> Opt(Body)] :
          LET rest == {h \in upgrade.handles : known[h] = None}
          IN  /\ \A h \in upgrade.handles :
                    known[h] \in Hits(upgrade.placements[h])
              /\ upgrade' =
                    [upgrade EXCEPT
                        !.state   = IF rest = {} THEN "PendingWrite"
                                    ELSE "PendingFetch",
                        !.handles = rest,
                        !.ops     = [h \in Handle |->
                            IF h \in upgrade.handles \ rest
                            THEN Upsert(LinkFromStore(upgrade.placements[h],
                                                      known[h]))
                            ELSE Keep]]
    /\ UNCHANGED vars

(* PendingFetch: the identities the fetch would newly establish are        *)
(* checked against the collection first.                                   *)
UpgradeFetch ==
    /\ upgrade # None
    /\ upgrade.state = "PendingFetch"
    /\ LET answer == [h \in Handle |->
                        IF h \in upgrade.handles
                        THEN FetchedItem(h, upgrade.tier) ELSE None]
           fresh  == \E h \in Handle :
                        answer[h] # None /\ upgrade.placements[h].link_id = None
       IN  upgrade' = [upgrade EXCEPT
                          !.fetched = answer,
                          !.claimed = Links(upgrade.placements),
                          !.state   = IF fresh THEN "PendingLinkCheck"
                                      ELSE IF answer = None4All
                                           THEN "PendingWrite" ELSE "Applying"]
    /\ UNCHANGED vars

(* Mutant: only the rows of the batch are checked. *)
HoldersLoaded(fresh) == {}

(* ReplicaLoadScope::Links *)
Holders(fresh) ==
    {h \in Handle : store[h] # None /\ store[h].link_id \in fresh}

(* PendingLinkCheck: the holders the batch never named are folded in. *)
UpgradeLinkCheck ==
    /\ upgrade # None
    /\ upgrade.state = "PendingLinkCheck"
    /\ LET fresh == {upgrade.fetched[h].link_id : h \in {k \in Handle :
                        /\ upgrade.fetched[k] # None
                        /\ upgrade.placements[k].link_id = None}}
           known == [h \in Handle |->
                        IF upgrade.placements[h] = None /\ h \in Holders(fresh)
                        THEN store[h] ELSE upgrade.placements[h]]
       IN  upgrade' = [upgrade EXCEPT !.state      = "Applying",
                                      !.placements = known,
                                      !.claimed    = Links(known)]
    /\ UNCHANGED vars

(* Mutant: identities are claimed in the order the batch was answered. *)
AnsweredNext(fetched) == {h \in Handle : fetched[h] # None}

(* write_fetched claims in handle order, however the batch was answered. *)
ClaimNext(fetched) == {Least({h \in Handle : fetched[h] # None})}

(* write_fetched, one fetched item at a time; no seam in between. *)
ApplyFetched ==
    /\ upgrade # None
    /\ upgrade.state = "Applying"
    /\ \E h \in ClaimNext(upgrade.fetched) :
          LET item == upgrade.fetched[h]
              p    == upgrade.placements[h]
              row  == IF upgrade.tier = "Full" /\ IsConflicted(p) THEN p
                      ELSE Identify(p, item, h, upgrade.claimed)
              rest == [upgrade.fetched EXCEPT ![h] = None]
          IN  upgrade' = [upgrade EXCEPT
                  !.fetched = rest,
                  !.claimed = @ \cup ({row.link_id} \ {None}),
                  !.ops     = [@ EXCEPT ![h] =
                                  Upsert(Hydrated(row, item, upgrade.tier))],
                  !.state   = IF rest = None4All THEN "PendingWrite"
                              ELSE "Applying"]
    /\ UNCHANGED vars

(* PendingWrite *)
UpgradeWrite ==
    /\ upgrade # None
    /\ upgrade.state = "PendingWrite"
    /\ upgrade' = None
    /\ store' = Applied(store, upgrade.ops)
    /\ UNCHANGED <<remoteVars, checkpoint, runVars, spent>>

(* The process dies, or a seam fails, in the middle of an upgrade. *)
UpgradeCrash ==
    /\ "crash" \in Faults
    /\ upgrade # None
    /\ upgrade.state # "Applying"
    /\ upgrade' = None
    /\ Spend("fault", MaxFault)
    /\ UNCHANGED <<remoteVars, stored, runVars>>

--------------------------------------------------------------------------------
UpgradeInit == Init /\ upgrade = None

UpgradeRun ==
    \/ UpgradeLookup
    \/ UpgradeFetch
    \/ UpgradeLinkCheck
    \/ ApplyFetched
    \/ UpgradeWrite

(* What Sync does, beside an upgrade: other clients alone. *)
SyncBeside ==
    /\ \/ upgrade = None /\ Next
       \/ upgrade # None /\ upgrade.state # "Applying" /\ Others
    /\ UNCHANGED upgrade

UpgradeNext ==
    \/ SyncBeside
    \/ \E batch \in Batches, tier \in Tiers : BeginUpgrade(batch, tier)
    \/ UpgradeRun
    \/ UpgradeCrash

UpgradeSpec == UpgradeInit /\ [][UpgradeNext]_upgradeVars

--------------------------------------------------------------------------------
(* Properties.                                                             *)

(* Types: the coroutine is one of ReplicaUpgrade's states, beside Sync's   *)
(* own variables.                                                          *)
UpgradeTypeOK ==
    /\ upgrade \in Opt(ReplicaUpgrade)
    /\ store \in [Handle -> Opt(ReplicaPlacement)]
    /\ upgrade # None => pc = "Idle"

(* A collection never holds two live placements under one link id, however *)
(* the copies of one identity reach it: fetched in one batch or in several, *)
(* authored locally before the server's copy is identified, pushed twice   *)
(* by a replayed create (upgrade.rs, write_fetched: "nor a link another    *)
(* placement already holds").                                              *)
LinksUnique ==
    \A h, k \in Handle :
        (/\ h # k /\ store[h] # None /\ store[k] # None
         /\ store[h].link_id # None
         /\ store[h].status # "Tombstone" /\ store[k].status # "Tombstone") =>
            store[h].link_id # store[k].link_id

(* A body stored for a version is that version's: the base's as in         *)
(* BasePairsBody, and the one a conflict holds beside the revision it is   *)
(* resolved against. A resolving edit makes that pair the base and pushes  *)
(* over it, so a body of another version would be overwritten unseen       *)
(* (placement.rs, conflict_object: "The remote body at the revision        *)
(* `conflict_revision` names").                                            *)
VersionsPaired ==
    /\ BasePairsBody
    /\ \A h \in Handle :
        (/\ store[h] # None /\ items[h] # None
         /\ store[h].conflict_object # None
         /\ store[h].conflict_revision = items[h].rev) =>
            store[h].conflict_object = items[h].body

NewlyLinked(h) ==
    /\ store[h] # None /\ store[h].link_id = None
    /\ store'[h] # None /\ store'[h].link_id # None

(* Of the copies of an identity one batch settles, the one at the least    *)
(* handle keeps the bare link id and the others are minted from it,        *)
(* whatever order the fetch was answered in: a store rebuilt from scratch  *)
(* mints the same keys (upgrade.rs, write_fetched: "Claiming in handle     *)
(* order is what makes the mint the same key").                            *)
MintsInHandleOrder ==
    [][\A h, k \in Handle :
          (h < k /\ NewlyLinked(h) /\ NewlyLinked(k)) =>
              store'[h].link_id # Mint[<<store'[k].link_id, h>>]]_upgradeVars

(* An upgrade is a pull, never a merge: whatever other clients did between *)
(* its load and its write, it leaves every locally authored body pending,  *)
(* and every conflict its local side (upgrade.rs, module doc; is_conflicted: *)
(* "everything but the conflict object describes the local side").         *)
UpgradeKeepsEdits ==
    [][upgrade # None =>
          PendingBodies(store) \subseteq PendingBodies(store')]_upgradeVars

(* The replica mirrors the server down to the bodies: each member's row    *)
(* holds the body the server holds, as its own or as the remote side of a  *)
(* conflict.                                                               *)
Mirrored ==
    \A h \in Handle :
        items[h] # None =>
            /\ store[h] # None
            /\ IF store[h].status = "Conflict"
               THEN store[h].conflict_object = items[h].body
               ELSE store[h].object = items[h].body

(* Once the user, the other clients and the faults are done, alternating   *)
(* syncs and upgrades bring every body over and keep it: no row reads as   *)
(* hydrated while it lacks the server's body (upgrade.rs, pending_handles: *)
(* "the level is a claim and the payload is the fact").                    *)
Mirrors == <>[](pc = "Idle" => Mirrored)

================================================================================
