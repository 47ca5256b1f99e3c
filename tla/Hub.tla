---------------------------------- MODULE Hub ----------------------------------
(***************************************************************************)
(* One collection shared by several sources (hub.rs, ReplicaHub), behind   *)
(* the store the repository's tests wrap it in (tests/common/mod.rs,       *)
(* HubStore and SourceStore): a load projects the hub for a source, a      *)
(* write absorbs the engine's ops back into it. Syncs, upgrades and        *)
(* mutations go through one source at a time, the collection having one    *)
(* writer; the other clients of every source move at every yield.          *)
(*                                                                         *)
(* A sync enumerates in full, and pushes and writes in one chunk: deltas   *)
(* and chunks are Sync's matter. Content is mutable, so the object store   *)
(* is never asked for a body (upgrade.rs, PendingLoad).                    *)
(***************************************************************************)
EXTENDS Merge, Mutation, Detail, FiniteSets

CONSTANTS
    Source,         \* the sources
    Handle,         \* every handle, ordered: a subset of Nat
    ServerHandle,   \* the handles a server assigns
    HubHandle,      \* the placeholder of each link id a source lacks
    Provisional,    \* the placeholder of a locally authored item
    Seeded,         \* the source and handle of the item there is at first
    SeedLink,       \* its identity
    Authored,       \* the identity of the item the user creates
    SeedBody,       \* the body of the first item
    Options,        \* the sync options of each source
    Policy,         \* ReplicaHub::conflict
    Uidplus,        \* whether each server reports the handle of an add
    UserOps,        \* the mutations the consumer makes
    RemoteOps,      \* what other clients do
    MaxUser, MaxRemote, MaxFault,   \* bounds: how many of each,
    MaxTotal                        \* and how many together

VARIABLES
    hub,            \* ReplicaHub::items: [LinkId -> item or None]
    residual,       \* the rows no link id has hubbed: [Source -> [Handle -> row]]
    servers,        \* [Source -> [Handle -> item or None]]
    used,           \* the handles each server ever assigned
    clock,          \* the last revision a server made
    run,            \* the sync under way: its source, what it derived of
                    \* the handles it touches, the changes still to serve
                    \* and what the server answered; None when there is none
    landed,         \* history: every body some server has held
    removed,        \* history: the identities somebody deleted
    folded,         \* history: for each item, the source its shared body
                    \* came through and the one its divergence came through
    spent           \* how much of each bound is used

hubVars == <<hub, residual, servers, used, clock, run, landed, removed,
             folded, spent>>

ReplicaSourceBinding ==
    [handle            : Handle,
     base              : Opt(ReplicaBase),
     conflicted        : BOOLEAN,
     conflict_revision : Opt(Revision),
     conflict_object   : Opt(Body),
     shared_object     : Opt(Body)]

ReplicaHubItem ==
    [flags           : ReplicaFlags,
     object          : Opt(Body),
     meta            : Opt(ReplicaMeta),
     level           : ReplicaLevel,
     deleted         : BOOLEAN,
     conflicted      : BOOLEAN,
     conflict_object : Opt(Body),
     sources         : [Source -> Opt(ReplicaSourceBinding)]]

ServerItem == [link : LinkId, flags : ReplicaFlags, body : Body, rev : Revision]

PushResult == [accepted : BOOLEAN, assigned : Opt(Handle), revision : Opt(Revision)]

ReplicaHubConflict == {"Manual", "PreferIncoming", "PreferExisting"}

(* Handles are finitely many; a hub's placeholder is made of its link id   *)
(* and ends in a control character (hub.rs, created_placement), and a      *)
(* provisional one is the consumer's: no server assigns either.            *)
ASSUME HubAssumption ==
    /\ Handle \subseteq Nat /\ ServerHandle \subseteq Handle
    /\ IsFiniteSet(Handle)
    /\ None \notin Handle
    /\ HubHandle \in [LinkId -> Handle \ ServerHandle]
    /\ \A i, j \in LinkId : HubHandle[i] = HubHandle[j] => i = j
    /\ Provisional \in Handle \ ServerHandle
    /\ Provisional \notin {HubHandle[link] : link \in LinkId}
    /\ Seeded \in Source \X ServerHandle
    /\ SeedLink \in LinkId /\ Authored \in LinkId
    /\ SeedBody \in Body
    /\ Mint \in [LinkId \X Handle -> LinkId]
    /\ Options \in [Source -> ReplicaSyncOptions]
    /\ \A s \in Source : Options[s].full /\ Options[s].conflict # "KeepBoth"
    /\ Uidplus \in [Source -> BOOLEAN]
    /\ Policy \in ReplicaHubConflict
    /\ MaxUser \in Nat /\ MaxRemote \in Nat /\ MaxFault \in Nat
    /\ MaxTotal \in Nat
    /\ None \notin ReplicaSourceBinding /\ None \notin ReplicaHubItem
    /\ None \notin ServerItem /\ None \notin PushResult /\ None \notin Source

--------------------------------------------------------------------------------
(* Projection.                                                             *)

(* stored_level: Full means a stored body. *)
StoredLevel(item) ==
    IF item.object = None /\ item.level = "Full" THEN "Meta" ELSE item.level

(* ReplicaHubItem::project: the shared half, the same for every source. *)
Shared(link, item) ==
    [link_id           |-> link,
     object            |-> item.object,
     level             |-> StoredLevel(item),
     meta              |-> item.meta,
     flags             |-> item.flags,
     status            |-> "Clean",
     conflict_revision |-> None,
     conflict_object   |-> None,
     base              |-> None,
     origin            |-> None]

(* Mutant: a create persisted through its binding reads as dirty. *)
BoundPlacementDirty(link, item, binding) ==
    LET in_sync == /\ binding.base # None
                   /\ binding.base.flags = item.flags
                   /\ binding.base.object = item.object
    IN  [Shared(link, item) EXCEPT
            !.status = IF binding.conflicted THEN "Conflict"
                       ELSE IF in_sync THEN "Clean" ELSE "Dirty",
            !.conflict_revision = binding.conflict_revision,
            !.conflict_object   = binding.conflict_object,
            !.base              = binding.base]

(* bound_placement: the shared content against the source's own base. *)
BoundPlacement(link, item, binding) ==
    LET in_sync == /\ binding.base # None
                   /\ binding.base.flags = item.flags
                   /\ binding.base.object = item.object
    IN  [Shared(link, item) EXCEPT
            !.status = IF binding.conflicted THEN "Conflict"
                       ELSE IF binding.base = None /\ item.object # None
                       THEN "Created"
                       ELSE IF in_sync THEN "Clean" ELSE "Dirty",
            !.conflict_revision = binding.conflict_revision,
            !.conflict_object   = binding.conflict_object,
            !.base              = binding.base]

(* tombstone_placement: deleted elsewhere, still held here. *)
TombstonePlacement(link, item, binding) ==
    [Shared(link, item) EXCEPT !.status = "Tombstone", !.base = binding.base]

(* created_placement: the append of an item this source lacks. *)
OfferedPlacement(link, item) ==
    [Shared(link, item) EXCEPT !.status = "Created", !.level = "Full"]

(* The identity a source holds under a handle. *)
BoundAt(items, s, h) ==
    {link \in LinkId : /\ items[link] # None
                       /\ items[link].sources[s] # None
                       /\ items[link].sources[s].handle = h}

(* Mutant: an item is offered to the sources that hold it too. *)
OfferedAtAny(items, s, h) ==
    {link \in LinkId : /\ HubHandle[link] = h
                       /\ items[link] # None
                       /\ ~items[link].deleted
                       /\ items[link].object # None}

(* The identity offered to a source under a placeholder: only an item      *)
(* whose body is here is, so an offer never triggers a fetch.              *)
OfferedAt(items, s, h) ==
    {link \in LinkId : /\ HubHandle[link] = h
                       /\ items[link] # None
                       /\ items[link].sources[s] = None
                       /\ ~items[link].deleted
                       /\ items[link].object # None}

The(S) == CHOOSE x \in S : TRUE

(* SourceStore::load: ReplicaHub::project, and the rows held aside. *)
Loaded(s) ==
    [h \in Handle |->
        IF BoundAt(hub, s, h) # {}
        THEN LET link    == The(BoundAt(hub, s, h))
                 binding == hub[link].sources[s]
             IN  IF hub[link].deleted
                 THEN TombstonePlacement(link, hub[link], binding)
                 ELSE BoundPlacement(link, hub[link], binding)
        ELSE IF OfferedAt(hub, s, h) # {}
        THEN LET link == The(OfferedAt(hub, s, h))
             IN  OfferedPlacement(link, hub[link])
        ELSE residual[s][h]]

--------------------------------------------------------------------------------
(* Absorption.                                                             *)

Level(level) == CASE level = "Probed" -> 0
                  [] level = "Meta"   -> 1
                  [] level = "Full"   -> 2

(* binding_of *)
BindingOf(h, p, shared_object) ==
    LET conflicted == p.status = "Conflict"
    IN  [handle            |-> h,
         base              |-> p.base,
         conflicted        |-> conflicted,
         conflict_revision |-> IF conflicted THEN p.conflict_revision ELSE None,
         conflict_object   |-> IF conflicted THEN p.conflict_object ELSE None,
         shared_object     |-> shared_object]

(* Mutant: the source's base with its remote stands in for the shared body *)
(* the source last had in hand.                                            *)
ReconcileSharedOwnBase(item, s, p) ==
    LET binding  == item.sources[s]
        prev     == IF binding = None \/ binding.base = None THEN None
                    ELSE binding.base.object
        diverged == /\ p.object # prev /\ item.object # prev
                    /\ p.object # item.object
                    /\ p.object # None /\ item.object # None
    IN  CASE diverged ->
               [item EXCEPT !.conflicted = TRUE, !.conflict_object = p.object]
          [] ~diverged /\ p.object # prev /\ item.object = prev ->
               [item EXCEPT !.object = p.object, !.conflicted = FALSE,
                            !.conflict_object = None]
          [] OTHER -> item

(* Mutant: the source's body is adopted whatever the others made of it. *)
ReconcileSharedAdopts(item, s, p) ==
    [item EXCEPT !.object = p.object, !.conflicted = FALSE,
                 !.conflict_object = None]

(* reconcile_content: each axis against its own base. *)
ReconcileShared(item, s, p) ==
    LET binding  == item.sources[s]
        prev     == IF binding = None \/ binding.base = None THEN None
                    ELSE binding.base.object
        agreed   == IF binding = None \/ binding.shared_object = None THEN prev
                    ELSE binding.shared_object
        resolving     == /\ binding # None /\ binding.conflicted
                         /\ p.status # "Conflict"
        source_edited == p.object # prev \/ resolving
        hub_moved     == item.object # agreed
        body_changed  == p.object # item.object
        diverged      == /\ source_edited /\ hub_moved /\ body_changed
                         /\ p.object # None /\ item.object # None
        settled(body) == [item EXCEPT !.object          = body,
                                      !.conflicted      = FALSE,
                                      !.conflict_object = None]
    IN  CASE diverged /\ Policy = "Manual" ->
               [item EXCEPT !.conflicted = TRUE, !.conflict_object = p.object]
          [] diverged /\ Policy = "PreferIncoming" -> settled(p.object)
          [] diverged /\ Policy = "PreferExisting" -> settled(item.object)
          [] ~diverged /\ source_edited /\ ~hub_moved /\ body_changed ->
               settled(p.object)
          [] OTHER -> item

(* The item a first upsert of an identity makes. *)
NewItem(p) ==
    [flags           |-> p.flags,
     object          |-> p.object,
     meta            |-> p.meta,
     level           |-> p.level,
     deleted         |-> FALSE,
     conflicted      |-> FALSE,
     conflict_object |-> None,
     sources         |-> [s \in Source |-> None]]

(* A staged delete: the content stays, and so does the binding. *)
AbsorbTombstone(item, s, h, p) ==
    LET agreed == IF item.sources[s] = None THEN None
                  ELSE item.sources[s].shared_object
    IN  [item EXCEPT !.deleted    = TRUE,
                     !.sources[s] = BindingOf(h, p, agreed)]

(* A live upsert resurrects a delete in flight; what it does not know      *)
(* erases nothing.                                                         *)
AbsorbLive(item, s, h, p) ==
    LET merged == ReconcileShared(
            [item EXCEPT
                !.deleted = FALSE,
                !.flags   = IF p.flags = Unknown THEN @ ELSE p.flags,
                !.meta    = IF p.meta = None THEN @ ELSE p.meta,
                !.level   = IF Level(p.level) > Level(@) THEN p.level ELSE @],
            s, p)
    IN  [merged EXCEPT !.level      = StoredLevel(merged),
                       !.sources[s] = BindingOf(h, p, merged.object)]

(* absorb_upsert *)
AbsorbUpsert(items, s, h, p) ==
    IF p.link_id = None THEN items
    ELSE LET item == IF items[p.link_id] = None THEN NewItem(p)
                     ELSE items[p.link_id]
         IN  [items EXCEPT ![p.link_id] =
                 IF p.status = "Tombstone" THEN AbsorbTombstone(item, s, h, p)
                 ELSE AbsorbLive(item, s, h, p)]

(* Mutant: every drop is read as a delete. *)
AbsorbDropDeletes(items, s, h, reason) ==
    [link \in LinkId |->
        IF link \in BoundAt(items, s, h)
        THEN [items[link] EXCEPT !.deleted = TRUE, !.sources[s] = None]
        ELSE items[link]]

(* absorb_drop: only a genuine delete propagates. *)
AbsorbDrop(items, s, h, reason) ==
    [link \in LinkId |->
        IF link \in BoundAt(items, s, h)
        THEN [items[link] EXCEPT !.deleted    = @ \/ reason = "Deleted",
                                 !.sources[s] = None]
        ELSE items[link]]

(* One op of a batch; a row no link id keys is held aside. *)
AbsorbOp(st, s, h, op) ==
    CASE op = Keep -> st
      [] op # Keep /\ op.op = "DropPlacement" ->
            [items    |-> AbsorbDrop(st.items, s, h, op.reason),
             residual |-> [st.residual EXCEPT ![h] = None]]
      [] OTHER ->
            [items    |-> AbsorbUpsert(st.items, s, h, op.row),
             residual |-> [st.residual EXCEPT
                              ![h] = IF op.row.link_id = None THEN op.row
                                     ELSE None]]

(* An unlinked upsert of a bound handle is that item pulled again. *)
KeyBack(s, h, op) ==
    IF op # Keep /\ op.op = "UpsertPlacement" /\ op.row.link_id = None
          /\ BoundAt(hub, s, h) # {}
    THEN [op EXCEPT !.row.link_id = The(BoundAt(hub, s, h))]
    ELSE op

(* What is written under a handle, and under the one a server assigned it. *)
Ops(here, to, there) == [here |-> here, to |-> to, there |-> there]

AbsorbOps(st, s, h, ops) ==
    AbsorbOp(AbsorbOp(st, s, h, ops.here), s, ops.to, ops.there)

Greatest(S) == CHOOSE x \in S : \A y \in S : x >= y

(* absorb: the ops of some handles, in order. (`before` is bound to a      *)
(* value so that TLC computes it once.)                                    *)
Absorb(st, s, ops) ==
    LET after[S \in SUBSET DOMAIN ops] ==
            IF S = {} THEN st
            ELSE LET h == Greatest(S)
                 IN  The({AbsorbOps(before, s, h, ops[h]) :
                             before \in {after[S \ {h}]}})
    IN  after[DOMAIN ops]

(* The ops of a batch, one per handle. *)
AbsorbBatch(st, s, batch) ==
    Absorb(st, s, [h \in {k \in DOMAIN batch : batch[k] # Keep} |->
                      Ops(KeyBack(s, h, batch[h]), h, Keep)])

(* absorb, at the end: an item no source holds is gone. *)
Retained(items) ==
    [link \in LinkId |->
        IF items[link] # None /\ (\A s \in Source : items[link].sources[s] = None)
        THEN None ELSE items[link]]

(* SourceStore::write *)
WriteBack(s, st) ==
    /\ hub' = Retained(st.items)
    /\ residual' = [residual EXCEPT ![s] = st.residual]
    /\ folded' = [link \in LinkId |->
          IF hub'[link] = None THEN [by |-> None, rival |-> None]
          ELSE [by    |-> IF hub[link] # None /\ hub[link].object = hub'[link].object
                          THEN folded[link].by ELSE s,
                rival |-> IF ~hub'[link].conflicted THEN None
                          ELSE IF hub[link] # None /\ hub[link].conflicted
                          THEN folded[link].rival ELSE s]]

Store(s) == [items |-> hub, residual |-> residual[s]]

--------------------------------------------------------------------------------
(* A sync through a source.                                                *)

remotes == <<servers, used, clock, landed>>

(* The member a full enumerate reports. *)
Reported(s, h) ==
    IF servers[s][h] = None THEN None
    ELSE [flags |-> servers[s][h].flags, revision |-> servers[s][h].rev]

(* What a sync of the source would make of a handle. *)
OutcomeAt(s, h) == MergeCandidate(Loaded(s)[h], Reported(s, h), Options[s])

Touched(s) == {h \in Handle : OutcomeAt(s, h) # Nothing}

(* The load, the enumerate and the merge. A sync with nothing to do would  *)
(* change nothing.                                                         *)
BeginSync(s) ==
    /\ run = None
    /\ \E all \in {[h \in Handle |-> OutcomeAt(s, h)]} :
          LET outs == [h \in {k \in Handle : all[k] # Nothing} |-> all[h]]
          IN  /\ DOMAIN outs # {}
              /\ run' = [source   |-> s,
                         outs     |-> outs,
                         unserved |-> {h \in DOMAIN outs : outs[h].push # None},
                         results  |-> [h \in Handle |-> None]]
    /\ UNCHANGED <<hub, residual, remotes, removed, folded, spent>>

Least(S) == CHOOSE x \in S : \A y \in S : x <= y

Free(s) == ServerHandle \ used[s]

(* What a server holds after a push, and what it answers. *)
Serve(s, h, change) ==
    LET held  == servers[s][h]
        stale == held # None /\ held.rev # change.if_match
        rev   == clock + 1
        answer(members, accepted, assigned, revision) ==
            [members |-> members,
             result  |-> [accepted |-> accepted, assigned |-> assigned,
                          revision |-> revision]]
        refused == answer(servers[s], FALSE, None, None)
    IN  CASE change.kind = "SetFlags" ->
               answer(IF held = None THEN servers[s]
                      ELSE [servers[s] EXCEPT ![h].flags = change.flags],
                      TRUE, None, None)
          [] change.kind = "Remove" ->
               IF stale THEN refused
               ELSE answer([servers[s] EXCEPT ![h] = None], TRUE, None, None)
          [] change.kind = "Update" ->
               IF held = None \/ stale THEN refused
               ELSE answer([servers[s] EXCEPT ![h].body = change.object,
                                              ![h].rev  = rev],
                           TRUE, None, rev)
          [] change.kind = "Add" ->
               IF Free(s) = {} THEN refused
               ELSE LET new == Least(Free(s))
                    IN  answer([servers[s] EXCEPT ![new] =
                                  [link |-> change.link_id,
                                   flags |-> change.flags,
                                   body |-> change.object, rev |-> rev]],
                               TRUE, IF Uidplus[s] THEN new ELSE None, rev)

(* The bodies and the handles of a server's members. *)
Bodies(members) ==
    {members[h].body : h \in {k \in Handle : members[k] # None}}

Members(members) == {h \in Handle : members[h] # None}

(* The server services one change of the chunk, in handle order. *)
HubServe ==
    /\ run # None
    /\ run.unserved # {}
    /\ LET s      == run.source
           h      == Least(run.unserved)
           served == Serve(s, h, run.outs[h].push)
       IN  /\ servers' = [servers EXCEPT ![s] = served.members]
           /\ used' = [used EXCEPT ![s] = @ \cup Members(served.members)]
           /\ clock' = IF served.result.revision = None THEN clock
                       ELSE served.result.revision
           /\ landed' = landed \cup Bodies(served.members)
           /\ run' = [run EXCEPT !.unserved = @ \ {h},
                                 !.results[h] = served.result]
    /\ UNCHANGED <<hub, residual, removed, folded, spent>>

(* The ops an outcome adds to the batch once it is accepted. *)
OutcomeOps(h) ==
    LET out    == run.outs[h]
        result == run.results[h]
    IN  CASE ~result.accepted -> Ops(Keep, h, Keep)
          [] result.accepted /\ out.flag # None ->
                Ops(Upsert(Rebase(out.flag, out.flag.flags)), h, Keep)
          [] result.accepted /\ out.content # None ->
                Ops(Upsert(RebaseContent(out.content, result.revision)), h, Keep)
          [] result.accepted /\ out.drop -> Ops(Drop("Deleted"), h, Keep)
          [] result.accepted /\ out.create # None ->
                IF result.assigned = None THEN Ops(Drop("Superseded"), h, Keep)
                ELSE Ops(Drop("Superseded"), result.assigned,
                         Upsert(RekeyCreate(out.create, result.revision)))

Answered == {h \in Handle : run.results[h] # None}

(* The write: what the merge decided, then what the push confirmed. *)
HubWrite ==
    /\ run # None
    /\ run.unserved = {}
    /\ LET s      == run.source
           merged == AbsorbBatch(Store(s), s, [h \in DOMAIN run.outs |->
                                                  run.outs[h].put])
       IN  \E st \in {Absorb(merged, s, [h \in Answered |-> OutcomeOps(h)])} :
               WriteBack(s, st)
    /\ run' = None
    /\ UNCHANGED <<remotes, removed, spent>>

Within(who, max) ==
    /\ spent[who] < max
    /\ spent["user"] + spent["remote"] + spent["fault"] < MaxTotal

Spend(who, max) ==
    /\ Within(who, max)
    /\ spent' = [spent EXCEPT ![who] = @ + 1]

(* The run ends anywhere, what it held lost. *)
HubCrash ==
    /\ run # None
    /\ Spend("fault", MaxFault)
    /\ run' = None
    /\ UNCHANGED <<hub, residual, remotes, removed, folded>>

--------------------------------------------------------------------------------
(* An upgrade of every row of a source to Full, and the mutations.         *)

Pending(s) == PendingHandles(Loaded(s), Handle, "Full")

HubUpgrade(s) ==
    /\ run = None
    /\ \E rows \in {UpgradedRows(Loaded(s), servers[s])} :
          /\ DOMAIN rows # {}
          /\ WriteBack(s, AbsorbBatch(Store(s), s, [h \in DOMAIN rows |->
                                                       Upsert(rows[h])]))
    /\ UNCHANGED <<remotes, run, removed, spent>>

(* The collection has one writer: a mutation waits for the sync under way. *)
MayMutate(op) ==
    /\ op \in UserOps
    /\ run = None
    /\ Within("user", MaxUser)

(* A mutation loads the row, rewrites it and writes it back. *)
Mutate(s, h, p) ==
    /\ Spend("user", MaxUser)
    /\ WriteBack(s, AbsorbOp(Store(s), s, h, Upsert(p)))
    /\ UNCHANGED <<remotes, run>>

(* What the user acts on: a live row it has read the identity of. *)
Live(s, h) ==
    /\ Loaded(s)[h] # None
    /\ Loaded(s)[h].status # "Tombstone"
    /\ Loaded(s)[h].link_id # None

(* The bodies a user or another client may still author. *)
FreshBodies ==
    {b \in Body \ landed :
        \A link \in LinkId : hub[link] # None =>
            hub[link].object # b /\ hub[link].conflict_object # b}

(* Which one is authored next does not matter. *)
NewBodies == IF FreshBodies = {} THEN {} ELSE {The(FreshBodies)}

UserEdit(s, h) ==
    /\ MayMutate("Edit") /\ Live(s, h)
    /\ LET p    == Loaded(s)[h]
           back == IF p.base = None THEN {} ELSE {p.base.object} \ {None}
       IN  \E b \in NewBodies \cup back :
              Mutate(s, h, EditMutation(p, b, None))
    /\ UNCHANGED removed

UserSetFlags(s, h, flags) ==
    /\ MayMutate("SetFlags") /\ Live(s, h)
    /\ flags # Loaded(s)[h].flags
    /\ Mutate(s, h, SetFlagsMutation(Loaded(s)[h], flags))
    /\ UNCHANGED removed

(* The identities a handle stands for, or will once it is fetched. *)
Identities(s, h) ==
    (IF Loaded(s)[h] = None THEN {} ELSE {Loaded(s)[h].link_id} \ {None})
        \cup (IF servers[s][h] = None THEN {}
              ELSE {servers[s][h].link, Mint[<<servers[s][h].link, h>>]})

UserRemove(s, h) ==
    /\ MayMutate("Remove") /\ Live(s, h)
    /\ Mutate(s, h, RemoveMutation(Loaded(s)[h]))
    /\ removed' = removed \cup Identities(s, h)

(* What the user authors has an identity of its own, used once. *)
UserAdd(s) ==
    /\ MayMutate("Add")
    /\ Loaded(s)[Provisional] = None
    /\ hub[Authored] = None /\ Authored \notin removed
    /\ \A k \in Source, h \in Handle :
          servers[k][h] # None => servers[k][h].link # Authored
    /\ \E b \in NewBodies :
          Mutate(s, Provisional, AddMutation(Authored, b, None, {}))
    /\ UNCHANGED removed

--------------------------------------------------------------------------------
(* Other clients of a source's server.                                     *)
MayAct(op, s, h) ==
    /\ op \in RemoteOps
    /\ Within("remote", MaxRemote)
    /\ servers[s][h] # None

OtherClient(s, h, member) ==
    /\ Spend("remote", MaxRemote)
    /\ clock' = clock + 1
    /\ servers' = [servers EXCEPT ![s][h] = member]
    /\ landed' = landed \cup Bodies(servers'[s])
    /\ UNCHANGED <<hub, residual, used, run, folded>>

OthersEdit(s, h) ==
    /\ MayAct("Edit", s, h)
    /\ \E b \in NewBodies :
          OtherClient(s, h, [servers[s][h] EXCEPT !.body = b,
                                                  !.rev  = clock + 1])
    /\ UNCHANGED removed

OthersSetFlags(s, h, flags) ==
    /\ MayAct("SetFlags", s, h)
    /\ servers[s][h].flags # flags
    /\ OtherClient(s, h, [servers[s][h] EXCEPT !.flags = flags])
    /\ UNCHANGED removed

OthersRemove(s, h) ==
    /\ MayAct("Remove", s, h)
    /\ OtherClient(s, h, None)
    /\ removed' = removed \cup Identities(s, h)

--------------------------------------------------------------------------------
Init ==
    /\ hub = [link \in LinkId |-> None]
    /\ residual = [s \in Source |-> [h \in Handle |-> None]]
    /\ servers = [s \in Source |-> [h \in Handle |->
                    IF <<s, h>> = Seeded
                    THEN [link |-> SeedLink, flags |-> {}, body |-> SeedBody,
                          rev |-> 1]
                    ELSE None]]
    /\ used = [s \in Source |-> IF s = Seeded[1] THEN {Seeded[2]} ELSE {}]
    /\ clock = 1
    /\ run = None
    /\ landed = {SeedBody}
    /\ removed = {}
    /\ folded = [link \in LinkId |-> [by |-> None, rival |-> None]]
    /\ spent = [who \in {"user", "remote", "fault"} |-> 0]

Run == HubServe \/ HubWrite

User ==
    \E s \in Source :
        \/ \E h \in Handle :
              \/ UserEdit(s, h)
              \/ UserRemove(s, h)
              \/ \E flags \in SUBSET Flag : UserSetFlags(s, h, flags)
        \/ UserAdd(s)

Others ==
    \E s \in Source, h \in ServerHandle :
        \/ OthersEdit(s, h)
        \/ OthersRemove(s, h)
        \/ \E flags \in SUBSET Flag : OthersSetFlags(s, h, flags)

Next ==
    \/ \E s \in Source : BeginSync(s)
    \/ \E s \in Source : HubUpgrade(s)
    \/ Run
    \/ HubCrash
    \/ User
    \/ Others

Spec == Init /\ [][Next]_hubVars

--------------------------------------------------------------------------------
(* Properties.                                                             *)

(* Types: every variable holds what its declaration says.                  *)
TypeOK ==
    /\ hub \in [LinkId -> Opt(ReplicaHubItem)]
    /\ residual \in [Source -> [Handle -> Opt(ReplicaPlacement)]]
    /\ servers \in [Source -> [Handle -> Opt(ServerItem)]]
    /\ used \in [Source -> SUBSET ServerHandle]
    /\ clock \in Nat
    /\ run # None => /\ run.source \in Source
                     /\ \A h \in DOMAIN run.outs : run.outs[h] \in Outcome
                     /\ run.unserved \subseteq DOMAIN run.outs
                     /\ run.results \in [Handle -> Opt(PushResult)]
    /\ landed \subseteq Body
    /\ removed \subseteq LinkId
    /\ folded \in [LinkId -> [by : Opt(Source), rival : Opt(Source)]]

(* A delete nobody asked for never spreads: an item is marked deleted, and *)
(* so pushed as a Remove to every source that holds it, only after a user  *)
(* or a client of some server deleted that very item. A placeholder        *)
(* reconciled with the handle its server assigned, or dropped because the  *)
(* server assigned none, is no delete (hub.rs, absorb_drop: "only a        *)
(* genuine delete propagates").                                            *)
DeletesAsked ==
    \A link \in LinkId :
        (hub[link] # None /\ hub[link].deleted) => link \in removed

(* A source never diverges from itself: when an item turns conflicted      *)
(* through a source that held it, the shared body it diverges from came    *)
(* through another, however far behind its own server the source is        *)
(* (hub.rs, reconcile_content: "never in conflict with a body it folded in *)
(* itself"). It takes a user that removes no row it is merely offered: the *)
(* tombstone of one is bound with no shared body.                          *)
NoSelfDivergence ==
    [][\A link \in LinkId :
        (/\ hub[link] # None /\ hub'[link] # None
         /\ ~hub[link].conflicted /\ hub'[link].conflicted
         /\ hub[link].sources[folded'[link].rival] # None) =>
            folded'[link].rival # folded[link].by
      ]_hubVars

(* The bodies the items share, and those their conflicts record. *)
SharedBodies(items) ==
    {items[link].object : link \in {l \in LinkId : items[l] # None
                                       /\ ~items[l].deleted}} \ {None}

RecordedBodies(items) ==
    {items[link].conflict_object : link \in {l \in LinkId : items[l] # None
                                                /\ items[l].conflicted}} \ {None}

(* No sync or upgrade loses a body only the hub holds: a shared body no    *)
(* server has ever held is still shared, or recorded as the diverging side *)
(* of a conflict, after any step that is no mutation and no delete         *)
(* (hub.rs, reconcile_content: "the shared body stays and the next         *)
(* projection pushes it").                                                 *)
HubKeepsBodies ==
    [][spent' = spent =>
          SharedBodies(hub) \subseteq
              SharedBodies(hub') \cup RecordedBodies(hub') \cup landed
                  \cup {hub[link].object : link \in {l \in LinkId :
                          hub[l] # None /\ hub'[l] # None /\ hub'[l].deleted}}
      ]_hubVars

(* No sync or upgrade resolves a divergence between two sources: the       *)
(* diverging body a conflict recorded, unless some server holds it, is     *)
(* still recorded (hub.rs, ReplicaHubConflict::Manual: "Flag the item      *)
(* conflicted and record the diverging body for the consumer to resolve"). *)
DivergenceKept ==
    [][spent' = spent =>
          RecordedBodies(hub) \subseteq
              RecordedBodies(hub') \cup SharedBodies(hub') \cup landed]_hubVars

(* No server that reports the handles it assigns ends up with two copies   *)
(* of one item, whichever sources offer it: with no run cut short, an add  *)
(* is pushed once to each source (hub.rs, project: a bound source is       *)
(* offered nothing).                                                       *)
OneCopy ==
    \A s \in Source : (Uidplus[s] /\ spent["fault"] = 0) =>
        \A h, k \in Handle :
            (h # k /\ servers[s][h] # None /\ servers[s][k] # None) =>
                servers[s][h].link # servers[s][k].link

(* Every source holds every shared item, at the shared flags and the       *)
(* shared body unless its own conflict with its server is unresolved, and  *)
(* nothing else.                                                           *)
Converged ==
    /\ \A link \in LinkId : hub[link] # None =>
          /\ ~hub[link].deleted
          /\ \A s \in Source :
                LET binding == hub[link].sources[s]
                IN  /\ binding # None
                    /\ servers[s][binding.handle] # None
                    /\ servers[s][binding.handle].flags = hub[link].flags
                    /\ binding.conflicted
                         \/ servers[s][binding.handle].body = hub[link].object
    /\ \A s \in Source, h \in Handle :
          servers[s][h] # None => BoundAt(hub, s, h) # {}

(* Nothing is left to do: no sync of any source would write or push, and   *)
(* no upgrade would fetch.                                                 *)
Quiescent ==
    /\ run = None
    /\ \A s \in Source : Touched(s) = {}
    /\ \A s \in Source : \A h \in Pending(s) : servers[s][h] = None

(* The sources never settle apart: a state no sync and no upgrade would    *)
(* change again is one where every source holds the one shared state       *)
(* (hub.rs: "propagation falls out of the per-source merge, with no        *)
(* cross-merge"; tests/hub.rs, quiesce).                                   *)
SettlesConverged == Quiescent => Converged

================================================================================
