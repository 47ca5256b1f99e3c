--------------------------------- MODULE Rekey ---------------------------------
(***************************************************************************)
(* The rekey coroutine (rekey.rs, ReplicaRekey) beside the verbs of        *)
(* Upgrade and Sync, and the event it answers: the source renumbers its    *)
(* handle space (an IMAP UIDVALIDITY bump), which voids every handle and   *)
(* cursor the replica holds. The consumer sees the new epoch and rebuilds  *)
(* before it syncs or upgrades again; local mutations go on meanwhile.     *)
(***************************************************************************)
EXTENDS Upgrade

CONSTANTS
    ReuseEdited,    \* edits are staged under handles the new space reuses
    MaxRenumber     \* bound: how many times the source renumbers

VARIABLES
    rekey,          \* the coroutine, None when there is none
    epoch,          \* how many times the source renumbered
    synced_epoch    \* the handle space the stored rows are in

ASSUME RekeyAssumption ==
    /\ ReuseEdited \in BOOLEAN
    /\ MaxRenumber \in Nat

replicaVars == <<upgradeVars, rekey, epoch, synced_epoch>>

(* Every handle the replica holds is void. *)
Void == epoch # synced_epoch

(* `links` is what the meta fetch resolved of the enumerated members. *)
ReplicaRekey ==
    [state : {"PendingEnumerate", "PendingFetch", "PendingWrite"},
     old   : [Handle -> Opt(ReplicaPlacement)],
     snap  : Opt(ReplicaRemoteSnapshot),
     links : [Handle -> Opt(LinkId)]]

--------------------------------------------------------------------------------
(* MemRemote::renumber: the members move onto other handles, any way at    *)
(* all, contents and revisions untouched.                                  *)
Renumber(moved) ==
    LET members == {h \in Handle : items[h] # None}
        at(k)   == {h \in members : moved[h] = k}
    IN  /\ \A h, k \in members : moved[h] = moved[k] => h = k
        /\ items' = [k \in Handle |->
                        IF at(k) = {} THEN None
                        ELSE [items[CHOOSE h \in at(k) : TRUE]
                                EXCEPT !.seq = seq + 1]]
        /\ gone' = [h \in Handle |->
                        IF h \in members /\ at(h) = {} THEN seq + 1 ELSE gone[h]]
        /\ seq' = seq + 1
        /\ UNCHANGED <<results, landed>>

(* No edit is staged under a handle the new space reuses: the assumption   *)
(* under which a rebuild keeps every row, dropped where ReuseEdited.       *)
Apart ==
    ReuseEdited \/ \A h \in Handle :
        (items'[h] # None /\ store'[h] # None) => ~StagedEdit(store'[h])

OthersRenumber ==
    /\ epoch < MaxRenumber
    /\ pc = "Idle" /\ upgrade = None /\ rekey = None
    /\ \E moved \in [{h \in Handle : items[h] # None} -> ServerHandle] :
          Renumber(moved)
    /\ epoch' = epoch + 1
    /\ UNCHANGED <<stored, runVars, spent, upgrade, rekey, synced_epoch>>
    /\ Apart

--------------------------------------------------------------------------------
(* Rebuilding the rows.                                                    *)

(* Mutant: the remote's flags are taken over the local ones. *)
CarryRemoteFlags(old, item) ==
    [old EXCEPT !.flags = item.flags,
                !.meta  = "summary",
                !.base  = [flags    |-> item.flags,
                           revision |-> item.revision,
                           object   |-> IF old.base = None THEN None
                                        ELSE old.base.object]]

(* carry: the cache survives, the flag delta is derived again against the  *)
(* new base, pending statuses stay pending.                                *)
Carry(old, item) ==
    LET base_flags   == IF old.base = None THEN {} ELSE old.base.flags
        flags        == MergeFlags(base_flags, old.flags, item.flags)
        content_edit == old.status = "Dirty" /\ StagedEdit(old)
        status       == IF old.status \in {"Tombstone", "Conflict"}
                        THEN old.status
                        ELSE IF content_edit \/ flags # item.flags
                        THEN "Dirty" ELSE "Clean"
        revision     == IF status = "Conflict" THEN item.revision ELSE None
    IN  [old EXCEPT
            !.meta              = "summary",
            !.flags             = flags,
            !.status            = status,
            !.conflict_revision = revision,
            !.conflict_object   = IF revision = old.conflict_revision
                                  THEN @ ELSE None,
            !.base              = [flags    |-> item.flags,
                                   revision |-> item.revision,
                                   object   |-> IF old.base = None THEN None
                                                ELSE old.base.object]]

(* fresh: a member no old row accounts for, with what the fetch resolved. *)
Fresh(item, link) ==
    IF link = None THEN PullAdd(item)
    ELSE [PullAdd(item) EXCEPT !.link_id = link,
                               !.level   = "Meta",
                               !.meta    = "summary"]

(* Mutant: an edit no member accounts for goes with its handle. *)
SurvivesNot(p) == FALSE

(* The edit-beats-delete rule: an unmatched staged edit survives. *)
Survives(p) == p.status \in {"Dirty", "Conflict"} /\ StagedEdit(p)

(* Mutant: every old handle is dropped, after the rows are written. *)
RebuildDropsAll(all, snapshot, links) ==
    LET old == [h \in Handle |->
                  IF all[h] # None /\ all[h].status = "Created"
                  THEN None ELSE all[h]]
    IN  [h \in Handle |->
            IF old[h] # None THEN Drop("Superseded")
            ELSE IF snapshot.items[h] # None
                 THEN Upsert(Fresh(snapshot.items[h], links[h]))
            ELSE Keep]

(* rebuild: pending creates are local staging, not spine. A member is      *)
(* carried from the row holding its link id, each row once and in the      *)
(* order of the listing; of two rows under one link id the later one is    *)
(* the holder. A batch is kept as the last op of each handle: an           *)
(* unmatched edit is written after the members, and only the old handles   *)
(* nothing writes are dropped.                                             *)
Rebuild(all, snapshot, links) ==
    LET old        == [h \in Handle |->
                         IF all[h] # None /\ all[h].status = "Created"
                         THEN None ELSE all[h]]
        members    == {k \in Handle : snapshot.items[k] # None}
        holding(l) == {h \in Handle : old[h] # None /\ old[h].link_id = l}
        carried(k) == IF links[k] = None
                         \/ \E j \in members : j < k /\ links[j] = links[k]
                      THEN {}
                      ELSE {h \in holding(links[k]) :
                               \A j \in holding(links[k]) : j <= h}
        matched    == UNION {carried(k) : k \in members}
        row(k)     == IF carried(k) = {}
                      THEN Fresh(snapshot.items[k], links[k])
                      ELSE Carry(old[CHOOSE h \in carried(k) : TRUE],
                                 snapshot.items[k])
    IN  [h \in Handle |->
            IF old[h] # None /\ h \notin matched /\ Survives(old[h])
            THEN Upsert(Resurrect(old[h]))
            ELSE IF h \in members THEN Upsert(row(h))
            ELSE IF old[h] # None THEN Drop("Superseded")
            ELSE Keep]

--------------------------------------------------------------------------------
(* The coroutine.                                                          *)

(* Start and PendingLoad. *)
BeginRekey ==
    /\ Void
    /\ pc = "Idle" /\ upgrade = None /\ rekey = None
    /\ rekey' = [state |-> "PendingEnumerate", old |-> store,
                 snap |-> None, links |-> None4All]
    /\ UNCHANGED <<upgradeVars, epoch, synced_epoch>>

(* PendingEnumerate: with no link id to match there is nothing to fetch. *)
RekeyEnumerate ==
    /\ rekey # None
    /\ rekey.state = "PendingEnumerate"
    /\ rekey' = [rekey EXCEPT
                    !.snap  = Snapshot(None),
                    !.state = IF Links(rekey.old) = {} THEN "PendingWrite"
                              ELSE "PendingFetch"]
    /\ UNCHANGED <<upgradeVars, epoch, synced_epoch>>

(* PendingFetch: a member gone since the enumerate resolves to nothing. *)
RekeyFetch ==
    /\ rekey # None
    /\ rekey.state = "PendingFetch"
    /\ rekey' = [rekey EXCEPT
                    !.state = "PendingWrite",
                    !.links = [h \in Handle |->
                        IF rekey.snap.items[h] # None /\ items[h] # None
                        THEN items[h].link ELSE None]]
    /\ UNCHANGED <<upgradeVars, epoch, synced_epoch>>

(* PendingWrite: the rows, the cursor and the epoch land in one batch. *)
RekeyWrite ==
    /\ rekey # None
    /\ rekey.state = "PendingWrite"
    /\ store' = Applied(store, Rebuild(rekey.old, rekey.snap, rekey.links))
    /\ checkpoint' = rekey.snap.checkpoint
    /\ rekey' = None
    /\ synced_epoch' = epoch
    /\ UNCHANGED <<remoteVars, runVars, spent, upgrade, epoch>>

(* The process dies, or a seam fails, in the middle of a rebuild. *)
RekeyCrash ==
    /\ "crash" \in Faults
    /\ rekey # None
    /\ rekey' = None
    /\ Spend("fault", MaxFault)
    /\ UNCHANGED <<remoteVars, stored, runVars, upgrade, epoch, synced_epoch>>

--------------------------------------------------------------------------------
ReplicaInit ==
    /\ UpgradeInit
    /\ rekey = None
    /\ epoch = 0
    /\ synced_epoch = 0

(* The other verbs: on a void space only mutations, and beside a rebuild   *)
(* only other clients.                                                     *)
Verbs ==
    /\ \/ rekey = None /\ ~Void /\ UpgradeNext
       \/ rekey = None /\ Void /\ (User \/ Others) /\ Apart
             /\ UNCHANGED upgrade
       \/ rekey # None /\ Others /\ Apart /\ UNCHANGED upgrade
    /\ UNCHANGED <<rekey, epoch, synced_epoch>>

RekeyRun == RekeyEnumerate \/ RekeyFetch \/ RekeyWrite

ReplicaNext ==
    \/ Verbs
    \/ OthersRenumber
    \/ BeginRekey
    \/ RekeyRun
    \/ RekeyCrash

ReplicaSpec == ReplicaInit /\ [][ReplicaNext]_replicaVars

(* One step of a verb the consumer may run: the handle space is current. *)
Verb(step) == rekey = None /\ ~Void /\ step
                /\ UNCHANGED <<rekey, epoch, synced_epoch>>

(* A mirroring consumer alternates syncs and upgrades (as the example      *)
(* mailbox_lifecycle.rs does), so neither waits forever on the other, and  *)
(* rebuilds once it sees the new epoch; the client loop services every     *)
(* yield (client.rs, run).                                                 *)
ReplicaFairSpec ==
    /\ ReplicaSpec
    /\ SF_replicaVars(Verb(upgrade = None /\ (\E o \in Options : Begin(o))
                              /\ UNCHANGED upgrade))
    /\ SF_replicaVars(Verb(\E batch \in Batches, tier \in Tiers :
                              BeginUpgrade(batch, tier)))
    /\ WF_replicaVars(Verb(Run /\ UNCHANGED upgrade))
    /\ WF_replicaVars(Verb(UpgradeRun))
    /\ WF_replicaVars(BeginRekey)
    /\ WF_replicaVars(RekeyRun)

--------------------------------------------------------------------------------
(* Properties.                                                             *)

(* Types: the coroutine is in one of ReplicaRekey's states, and only one   *)
(* verb of the collection runs at a time.                                  *)
RekeyTypeOK ==
    /\ rekey \in Opt(ReplicaRekey)
    /\ UpgradeTypeOK
    /\ synced_epoch <= epoch
    /\ rekey # None => upgrade = None /\ pc = "Idle" /\ rekey.old = store

(* A rebuilt spine is as complete as a synced one: once the rows are in    *)
(* the source's handle space, the cursor written with them claims nothing  *)
(* they do not hold, whatever other clients did between the enumerate, the *)
(* fetch and the write, and however the two handle spaces overlap          *)
(* (rekey.rs, rebuild: "only the rows this batch does not write itself").  *)
RebuiltSpineComplete == ~Void => SpineComplete

(* A rebuild loses no locally authored body: it moves with its item, or,   *)
(* when the source dropped the item, survives as a create (rekey.rs,       *)
(* rebuild: "the same edit-beats-delete rule the sync applies").           *)
RekeyKeepsEdits ==
    [][rekey # None =>
          PendingBodies(store) \subseteq PendingBodies(store')]_replicaVars

(* A rebuild carries what the user staged along with the item: where one   *)
(* row holds a link id before it and one after it, a staged delete is      *)
(* still staged, and every marker the user flipped keeps its local         *)
(* presence against the base of the new handle (rekey.rs, carry).          *)
CarriesIntent ==
    [][rekey # None =>
        \A h, k \in Handle :
            (/\ store[h] # None /\ store'[k] # None
             /\ store[h].status # "Created"
             /\ store[h].link_id # None
             /\ {j \in Handle : store'[j] # None
                     /\ store'[j].link_id = store[h].link_id} = {k}
             /\ store[h].base # None) =>
                /\ store[h].status = "Tombstone" => store'[k].status = "Tombstone"
                /\ \A f \in FlagIntent(store[h]) :
                      f \in store'[k].flags <=> f \in store[h].flags]_replicaVars

================================================================================
