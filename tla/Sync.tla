---------------------------------- MODULE Sync ----------------------------------
(***************************************************************************)
(* One collection of one replica against its remote: the persisted store   *)
(* (tests/common/mod.rs, MemStorage), the sync coroutine (sync.rs,         *)
(* ReplicaSync) driven by the client loop (client.rs, ReplicaClient::run), *)
(* the local mutations between runs (mutate.rs), other clients of the      *)
(* remote moving at every yield, and the faults a run meets: a crash or a  *)
(* seam error that ends it anywhere, a change refused, an outcome never    *)
(* reported.                                                               *)
(*                                                                         *)
(* The engine asks for a single writer per collection between a load and   *)
(* the write derived from it (client.rs, ReplicaStorage::write), so the    *)
(* local verbs run one after the other: a mutation only between runs.      *)
(*                                                                         *)
(* A batch of write ops is kept as the last op of each handle, which is    *)
(* what applying it in order and atomically amounts to, and the queue of   *)
(* changes as a map, the merge deriving at most one per handle and in      *)
(* handle order. A run's report counts and events are left out.            *)
(***************************************************************************)
EXTENDS Remote, Mutation

CONSTANTS
    Provisional,    \* the placeholder handles consumers pick for creates
    Fork,           \* the handle a keep-both fork of (handle, body) takes
    PushChunk,      \* ReplicaSync::PUSH_CHUNK
    WriteChunk,     \* ReplicaSync::WRITE_CHUNK
    Options,        \* the options the consumer runs syncs with
    UserOps,        \* the mutations it makes
    RemoteOps,      \* what other clients do
    Faults,         \* the faults that happen
    Editable,       \* the statuses of the placements it mutates
    Authored,       \* the identities of the items it creates
    Summaries,      \* the summaries its edits and creates come with
    MaxUser, MaxRemote, MaxFault    \* bounds: how many of each

(* A placeholder or a fork's handle is never one the server assigns. *)
ASSUME SyncAssumption ==
    /\ Provisional \subseteq Handle \ ServerHandle
    /\ Fork \in [Handle \X Body -> Nat]
    /\ \A h \in ServerHandle, b \in Body : Fork[<<h, b>>] \notin ServerHandle
    /\ (\E o \in Options : o.conflict = "KeepBoth") =>
          \A h \in ServerHandle, b \in Body \ Foreign :
              Fork[<<h, b>>] \in Handle
    /\ Authored \subseteq LinkId
    /\ Summaries \subseteq Opt(ReplicaMeta)
    /\ PushChunk \in Nat \ {0}
    /\ WriteChunk \in Nat \ {0}
    /\ Options \subseteq ReplicaSyncOptions
    /\ None \notin ReplicaSyncOptions
    /\ Editable \subseteq ReplicaStatus
    /\ MaxUser \in Nat /\ MaxRemote \in Nat /\ MaxFault \in Nat

VARIABLES
    store,              \* persisted placements: [Handle -> placement or None]
    checkpoint,         \* persisted cursor
    pc,                 \* where the coroutine stands
    opts,               \* the run's options
    local,              \* the placements it loaded
    snap,               \* the snapshot it enumerated
    todo,               \* the handles the join has not walked yet
    writes,             \* the batch: the last op of each handle, or Keep
    nops,               \* how many ops the batch holds
    pushes,             \* the changes no chunk has taken yet
    in_flight,          \* the changes of the chunk awaiting its outcome
    unserved,           \* those the remote has not answered yet
    next_checkpoint,    \* the enumerate's cursor, once the merge is over
    pending_flag_pushes, pending_content_pushes,
    pending_drops, pending_creates,
    unrecorded,         \* history: changes served since the last write
    spent               \* how much of each bound is used

pendings == <<pending_flag_pushes, pending_content_pushes,
              pending_drops, pending_creates>>

stored == <<store, checkpoint>>

mergeVars == <<opts, local, snap, todo>>

vars == <<remoteVars, stored, pc, mergeVars, writes, nops, pushes, in_flight,
          unserved, next_checkpoint, pendings, unrecorded, spent>>

None4All == [h \in Handle |-> None]

--------------------------------------------------------------------------------
(* Storage.                                                                *)

(* MemStorage::write, for one batch. *)
Applied(st, batch) ==
    [h \in Handle |->
        IF batch[h] = Keep THEN st[h]
        ELSE IF batch[h].op = "DropPlacement" THEN None
        ELSE batch[h].row]

(* ReplicaSync::batch: the checkpoint lands in the last write only. *)
CheckpointDue == pushes = None4All /\ next_checkpoint # None

(* Mutant: the cursor is read when the last write lands, past the pushes. *)
WriteBatchPostPush ==
    /\ store' = Applied(store, writes)
    /\ checkpoint' = IF CheckpointDue THEN seq ELSE checkpoint
    /\ writes' = [h \in Handle |-> Keep]
    /\ nops' = 0
    /\ unrecorded' = {}

WriteBatch ==
    /\ store' = Applied(store, writes)
    /\ checkpoint' = IF CheckpointDue THEN next_checkpoint ELSE checkpoint
    /\ writes' = [h \in Handle |-> Keep]
    /\ nops' = 0
    /\ unrecorded' = {}

--------------------------------------------------------------------------------
(* The sync coroutine.                                                     *)

(* ReplicaSync::new: a coroutine that does not run holds nothing. *)
NoRun ==
    /\ opts = None
    /\ local = None4All
    /\ snap = None
    /\ todo = {}
    /\ pushes = None4All
    /\ in_flight = None4All
    /\ unserved = {}
    /\ next_checkpoint = None
    /\ pending_flag_pushes = None4All
    /\ pending_content_pushes = None4All
    /\ pending_drops = {}
    /\ pending_creates = None4All

(* The coroutine is dropped, done or not. *)
EndRun ==
    /\ pc' = "Idle"
    /\ opts' = None
    /\ local' = None4All
    /\ snap' = None
    /\ todo' = {}
    /\ pushes' = None4All
    /\ in_flight' = None4All
    /\ unserved' = {}
    /\ next_checkpoint' = None
    /\ pending_flag_pushes' = None4All
    /\ pending_content_pushes' = None4All
    /\ pending_drops' = {}
    /\ pending_creates' = None4All

(* Start and PendingLoad: the whole collection is loaded. *)
Begin(o) ==
    /\ pc = "Idle"
    /\ pc' = "PendingEnumerate"
    /\ opts' = o
    /\ local' = store
    /\ unrecorded' = {}
    /\ UNCHANGED <<remoteVars, stored, snap, todo, writes, nops, pushes,
                   in_flight, unserved, next_checkpoint, pendings, spent>>

(* PendingEnumerate: a full sync ignores the checkpoint. open_merge joins  *)
(* the loaded placements with the items the snapshot lists.                *)
Enumerate ==
    /\ pc = "PendingEnumerate"
    /\ pc' = "Joining"
    /\ snap' = Snapshot(IF opts.full THEN None ELSE checkpoint)
    /\ todo' = {h \in Handle : local[h] # None \/ snap'.items[h] # None}
    /\ UNCHANGED <<remoteVars, stored, opts, local, writes, nops, pushes,
                   in_flight, unserved, next_checkpoint, pendings,
                   unrecorded, spent>>

(* next_candidate passes over a handle a delta leaves untouched. *)
Untouched(h) ==
    ~snap.complete /\ ~IsCandidate(local[h], snap.items[h], h \in snap.vanished)

Skip(h) ==
    /\ Untouched(h)
    /\ pc' = "Joining"
    /\ UNCHANGED <<writes, nops, pushes, pendings>>

(* What the merge makes of a handle. *)
OutcomeOf(h) ==
    LET item == IF snap.complete THEN snap.items[h]
                ELSE NarrowedItem(local[h], snap.items[h], h \in snap.vanished)
    IN  MergeCandidate(local[h], item, opts)

(* One candidate, its writes and its change; the batch is cut between      *)
(* candidates only, once it is full.                                       *)
Merge(h) ==
    LET out   == OutcomeOf(h)
        put   == IF out.put = Keep THEN writes
                 ELSE [writes EXCEPT ![h] = out.put]
        noted == IF out.push = None THEN pushes
                 ELSE [pushes EXCEPT ![h] = out.push]
    IN  /\ ~Untouched(h)
        /\ writes' = IF out.dup = None THEN put
                     ELSE [put EXCEPT ![Fork[<<h, local[h].object>>]] =
                                          Upsert(out.dup)]
        /\ nops' = nops + out.ops
        /\ pushes' = noted
        /\ pending_flag_pushes' =
              IF out.flag = None THEN pending_flag_pushes
              ELSE [pending_flag_pushes EXCEPT ![h] = out.flag]
        /\ pending_content_pushes' =
              IF out.content = None THEN pending_content_pushes
              ELSE [pending_content_pushes EXCEPT ![h] = out.content]
        /\ pending_drops' =
              IF out.drop THEN pending_drops \cup {h} ELSE pending_drops
        /\ pending_creates' =
              IF out.create = None THEN pending_creates
              ELSE [pending_creates EXCEPT ![h] = out.create]
        /\ pc' = IF nops' >= WriteChunk THEN "Merging" ELSE "Joining"

(* merge_step, one handle of the join. *)
MergeStep ==
    /\ pc = "Joining"
    /\ todo # {}
    /\ LET h == Least(todo)
       IN  /\ Skip(h) \/ Merge(h)
           /\ todo' = todo \ {h}
    /\ UNCHANGED <<remoteVars, stored, opts, local, snap, in_flight, unserved,
                   next_checkpoint, unrecorded, spent>>

(* Merging: the batch handed over in the middle of the merge. *)
MergeWrite ==
    /\ pc = "Merging"
    /\ pc' = "Joining"
    /\ WriteBatch
    /\ UNCHANGED <<remoteVars, mergeVars, pushes, in_flight, unserved,
                   next_checkpoint, pendings, spent>>

(* Mutant: off by one. *)
NextChunkAndOne ==
    LET queued == {h \in Handle : pushes[h] # None}
    IN  {h \in queued : Cardinality({k \in queued : k < h}) <= PushChunk}

(* The first PushChunk changes of the queue, in handle order. *)
NextChunk ==
    LET queued == {h \in Handle : pushes[h] # None}
    IN  {h \in queued : Cardinality({k \in queued : k < h}) < PushChunk}

(* ReplicaSync::step: the next chunk goes out, or the last write does. *)
Step ==
    IF pushes = None4All
    THEN /\ pc' = "PendingWrite"
         /\ UNCHANGED <<pushes, in_flight, unserved>>
    ELSE /\ pc' = "PendingPush"
         /\ pushes' = [h \in Handle |->
                          IF h \in NextChunk THEN None ELSE pushes[h]]
         /\ in_flight' = [h \in Handle |->
                          IF h \in NextChunk THEN pushes[h] ELSE None]
         /\ unserved' = NextChunk

(* The join is exhausted: the run moves on to its pushes. *)
MergeEnd ==
    /\ pc = "Joining"
    /\ todo = {}
    /\ next_checkpoint' = snap.checkpoint
    /\ Step
    /\ UNCHANGED <<remoteVars, stored, mergeVars, writes, nops, pendings,
                   unrecorded, spent>>

(* The remote services the chunk's changes in order. *)
Serve ==
    /\ pc = "PendingPush"
    /\ unserved # {}
    /\ LET h == Least(unserved)
       IN  /\ Push(h, in_flight[h])
           /\ unserved' = unserved \ {h}
           /\ unrecorded' = unrecorded \cup {h}
    /\ UNCHANGED <<stored, pc, mergeVars, writes, nops, pushes, in_flight,
                   next_checkpoint, pendings, spent>>

(* What an accepted outcome makes of the placement its change came from,   *)
(* the pending maps being tried one after the other.                       *)
Confirmed(h) ==
    IF pending_creates[h] # None THEN Drop("Superseded")
    ELSE IF h \in pending_drops THEN Drop("Deleted")
    ELSE IF pending_content_pushes[h] # None
         THEN Upsert(RebaseContent(pending_content_pushes[h],
                                   results[h].revision))
    ELSE IF pending_flag_pushes[h] # None
         THEN Upsert(Rebase(pending_flag_pushes[h],
                            pending_flag_pushes[h].flags))
    ELSE writes[h]

IsAccepted(h) == /\ in_flight[h] # None
                 /\ results[h] # None
                 /\ results[h].outcome = "Accepted"

(* The accepted create the server placed at k. *)
PlacedAt(k) ==
    {h \in Handle : /\ IsAccepted(h)
                    /\ pending_creates[h] # None
                    /\ results[h].assigned = k}

(* A map without the handles of the chunk. *)
Forget(map) ==
    [h \in Handle |-> IF in_flight[h] # None THEN None ELSE map[h]]

(* PendingPush: the outcomes land. A refused change, or one never reported *)
(* on, leaves its placement as it was; the whole chunk is forgotten.       *)
PushOutcomes ==
    /\ pc = "PendingPush"
    /\ unserved = {}
    /\ pc' = "PendingWrite"
    /\ writes' = [k \in Handle |->
                    IF PlacedAt(k) # {}
                    THEN LET h == Least(PlacedAt(k))
                         IN  Upsert(RekeyCreate(pending_creates[h],
                                                results[h].revision))
                    ELSE IF IsAccepted(k) THEN Confirmed(k)
                    ELSE writes[k]]
    /\ pending_flag_pushes' = Forget(pending_flag_pushes)
    /\ pending_content_pushes' = Forget(pending_content_pushes)
    /\ pending_creates' = Forget(pending_creates)
    /\ pending_drops' = {h \in pending_drops : in_flight[h] = None}
    /\ in_flight' = None4All
    /\ results' = None4All
    /\ UNCHANGED <<items, gone, seq, landed, stored, mergeVars, nops, pushes,
                   unserved, next_checkpoint, unrecorded, spent>>

(* PendingWrite, with chunks left: the next one goes out only now. *)
ChunkWrite ==
    /\ pc = "PendingWrite"
    /\ pushes # None4All
    /\ WriteBatch
    /\ Step
    /\ UNCHANGED <<remoteVars, mergeVars, next_checkpoint, pendings, spent>>

(* PendingWrite, the last one: the run is done. *)
LastWrite ==
    /\ pc = "PendingWrite"
    /\ pushes = None4All
    /\ WriteBatch
    /\ EndRun
    /\ UNCHANGED <<remoteVars, spent>>

--------------------------------------------------------------------------------
(* Faults.                                                                 *)

Spend(who, max) ==
    /\ spent[who] < max
    /\ spent' = [spent EXCEPT ![who] = @ + 1]

(* The process dies, or a seam fails and the client returns its error:     *)
(* whatever the coroutine held is lost.                                    *)
Crash ==
    /\ "crash" \in Faults
    /\ pc \notin {"Idle", "Joining"}
    /\ Spend("fault", MaxFault)
    /\ EndRun
    /\ writes' = [h \in Handle |-> Keep]
    /\ nops' = 0
    /\ results' = None4All
    /\ UNCHANGED <<items, gone, seq, landed, stored, unrecorded>>

(* The remote refuses a change of its own accord; one it never got to, and *)
(* so never reports on, leaves the same state behind.                      *)
Refuse ==
    /\ "refuse" \in Faults
    /\ pc = "PendingPush"
    /\ unserved # {}
    /\ Spend("fault", MaxFault)
    /\ LET h == Least(unserved)
       IN  /\ Answer(h, Rejected)
           /\ unserved' = unserved \ {h}
           /\ unrecorded' = unrecorded \cup {h}
    /\ UNCHANGED <<items, gone, seq, landed, stored, pc, mergeVars, writes,
                   nops, pushes, in_flight, next_checkpoint, pendings>>

(* The remote took a change and its outcome is not reported. *)
Silence(h) ==
    /\ "silence" \in Faults
    /\ pc = "PendingPush"
    /\ unserved = {}
    /\ results[h] # None
    /\ Spend("fault", MaxFault)
    /\ Answer(h, None)
    /\ UNCHANGED <<items, gone, seq, landed, stored, pc, mergeVars, writes,
                   nops, pushes, in_flight, unserved, next_checkpoint,
                   pendings, unrecorded>>

--------------------------------------------------------------------------------
(* Local mutations, between runs.                                          *)

runVars == <<pc, mergeVars, writes, nops, pushes, in_flight, unserved,
             next_checkpoint, pendings, unrecorded>>

Mutate(op) ==
    /\ op \in UserOps
    /\ pc = "Idle"
    /\ Spend("user", MaxUser)
    /\ UNCHANGED <<remoteVars, checkpoint, runVars>>

Target(h) == store[h] # None /\ store[h].status \in Editable

UserSetFlags(h, flags) ==
    /\ Mutate("SetFlags")
    /\ Target(h)
    /\ flags # store[h].flags
    /\ store' = [store EXCEPT ![h] = SetFlagsMutation(@, flags)]

UserRemove(h) ==
    /\ Mutate("Remove")
    /\ Target(h)
    /\ store' = [store EXCEPT ![h] = RemoveMutation(@)]

(* A body the replica and its server have not met yet. *)
FreshBodies ==
    {b \in Body \ (landed \cup Foreign) :
        \A h \in Handle : store[h] # None =>
            /\ store[h].object # b
            /\ store[h].base # None => store[h].base.object # b}

(* Which one is authored next does not matter. *)
NewBody == CHOOSE b \in FreshBodies : TRUE

(* Authored anew, or the synced body restated. *)
UserEdit(h) ==
    /\ Mutate("Edit")
    /\ Target(h)
    /\ \E b \in (IF FreshBodies = {} THEN {} ELSE {NewBody})
                \cup (IF store[h].base = None THEN {}
                      ELSE {store[h].base.object} \ {None}),
          meta \in Summaries :
          store' = [store EXCEPT ![h] = EditMutation(@, b, meta)]

UserAdd(h, link) ==
    /\ Mutate("Add")
    /\ h \in Provisional
    /\ store[h] = None
    /\ FreshBodies # {}
    /\ ~LinkCollides({store[k] : k \in Handle} \ {None}, link)
    /\ \E meta \in Summaries :
          store' = [store EXCEPT ![h] = AddMutation(link, NewBody, meta, {})]

(* A move to another collection. *)
UserMove(h, destination) ==
    /\ Mutate("Move")
    /\ Target(h)
    /\ store' = [store EXCEPT ![h] = MoveMutation(@, destination)]

(* What another collection may hold of an item copied or moved from it:    *)
(* its spine alone, or a body as well, synced there or staged.             *)
CopySource(flags, object) ==
    [PullAdd([flags |-> flags, revision |-> None]) EXCEPT
        !.object = object,
        !.level  = IF object = None THEN "Probed" ELSE "Full"]

(* A copy into this collection, or the target half of a move into it. *)
UserCopy(h, source, origin) ==
    /\ Mutate("Copy")
    /\ h \in Provisional
    /\ store[h] = None
    /\ store' = [store EXCEPT ![h] = CopyMutation(source, origin)]

--------------------------------------------------------------------------------
(* Other clients move whenever the coroutine waits on a seam; the join     *)
(* itself never reads the remote.                                          *)
OtherClient(op) ==
    /\ op \in RemoteOps
    /\ pc # "Joining"
    /\ Spend("remote", MaxRemote)
    /\ UNCHANGED <<stored, runVars>>

OthersSeed(h)            == OtherClient("Seed") /\ RemoteSeed(h)
OthersSetFlags(h, flags) == OtherClient("SetFlags") /\ RemoteSetFlags(h, flags)
OthersEdit(h, body)      == OtherClient("Edit") /\ RemoteEdit(h, body)
OthersRemove(h)          == OtherClient("Remove") /\ RemoteRemove(h)

--------------------------------------------------------------------------------
Init ==
    /\ RemoteInit
    /\ store = None4All
    /\ checkpoint = None
    /\ pc = "Idle"
    /\ NoRun
    /\ writes = [h \in Handle |-> Keep]
    /\ nops = 0
    /\ unrecorded = {}
    /\ spent = [who \in {"user", "remote", "fault"} |-> 0]

(* What the engine and the remote do for a run under way. *)
Run ==
    \/ Enumerate
    \/ MergeStep
    \/ MergeWrite
    \/ MergeEnd
    \/ Serve
    \/ PushOutcomes
    \/ ChunkWrite
    \/ LastWrite

User ==
    \E h \in Handle :
        \/ \E flags \in SUBSET Flag : UserSetFlags(h, flags)
        \/ UserRemove(h)
        \/ UserEdit(h)
        \/ \E link \in Authored : UserAdd(h, link)
        \/ \E destination \in Origin : UserMove(h, destination)
        \/ \E flags \in SUBSET Flag, object \in Opt(Body), origin \in Origin :
              UserCopy(h, CopySource(flags, object), origin)

Others ==
    \E h \in Handle :
        \/ OthersSeed(h)
        \/ \E flags \in SUBSET Flag : OthersSetFlags(h, flags)
        \/ \E body \in Foreign : OthersEdit(h, body)
        \/ OthersRemove(h)

Fault ==
    \/ Crash
    \/ Refuse
    \/ \E h \in Handle : Silence(h)

Next ==
    \/ \E o \in Options : Begin(o)
    \/ Run
    \/ User
    \/ Others
    \/ Fault

Spec == Init /\ [][Next]_vars

--------------------------------------------------------------------------------
(* Properties.                                                             *)

(* Types: every variable holds what its declaration says.                  *)
TypeOK ==
    /\ items \in [Handle -> Opt(ServerItem)]
    /\ gone \in [Handle -> Nat]
    /\ seq \in Nat
    /\ results \in [Handle -> Opt(PushResult)]
    /\ landed \in SUBSET Body
    /\ store \in [Handle -> Opt(ReplicaPlacement)]
    /\ checkpoint \in Opt(Nat)
    /\ pc \in {"Idle", "PendingEnumerate", "Joining", "Merging",
              "PendingPush", "PendingWrite"}
    /\ opts \in Opt(ReplicaSyncOptions)
    /\ local \in [Handle -> Opt(ReplicaPlacement)]
    /\ snap \in Opt(ReplicaRemoteSnapshot)
    /\ todo \in SUBSET Handle
    /\ writes \in [Handle -> ReplicaWriteOp \cup {Keep}]
    /\ nops \in Nat
    /\ pushes \in [Handle -> Opt(ReplicaChange)]
    /\ in_flight \in [Handle -> Opt(ReplicaChange)]
    /\ unserved \in SUBSET Handle
    /\ next_checkpoint \in Opt(Nat)
    /\ pending_flag_pushes \in [Handle -> Opt(ReplicaPlacement)]
    /\ pending_content_pushes \in [Handle -> Opt(ReplicaPlacement)]
    /\ pending_drops \in SUBSET Handle
    /\ pending_creates \in [Handle -> Opt(ReplicaPlacement)]
    /\ unrecorded \in SUBSET Handle
    /\ spent \in [{"user", "remote", "fault"} -> Nat]

(* The change of a handle the run still owes an outcome for. *)
Owed(h) == IF pushes[h] # None THEN pushes[h] ELSE in_flight[h]

(* A push result is matched by handle alone, against four pending maps     *)
(* (sync.rs, PushFlags and the PendingPush arm). That is sound only while  *)
(* a handle owes at most one change, is queued or in flight but not both,  *)
(* and sits in exactly the pending map of that change's kind: otherwise an *)
(* accepted flag push would be read as a confirmed delete or edit.         *)
OnePushPerHandle ==
    \A h \in Handle :
        /\ pushes[h] = None \/ in_flight[h] = None
        /\ pending_flag_pushes[h] # None
              <=> Owed(h) # None /\ Owed(h).kind = "SetFlags"
        /\ pending_content_pushes[h] # None
              <=> Owed(h) # None /\ Owed(h).kind = "Update"
        /\ h \in pending_drops
              <=> Owed(h) # None /\ Owed(h).kind = "Remove"
        /\ pending_creates[h] # None
              <=> Owed(h) # None /\ Owed(h).kind = "Add"

(* The remote revision a placement has observed last. *)
KnownRevision(p) ==
    IF p.conflict_revision # None THEN p.conflict_revision
    ELSE p.base.revision

(* The persisted cursor claims nothing the persisted placements do not     *)
(* hold: a delta enumeration never lists an untouched member again, so a   *)
(* member last changed at or before the checkpoint is stored, based, at    *)
(* the content revision the server holds, and a based placement the server *)
(* lost was lost after it. Through crashes between any two writes, refused *)
(* and unreported pushes, and other clients racing the run, this is what   *)
(* keeps the spine complete (sync.rs, ReplicaSync::batch).                 *)
SpineComplete ==
    checkpoint # None =>
        \A h \in Handle :
            /\ (items[h] # None /\ items[h].seq <= checkpoint) =>
                  /\ store[h] # None
                  /\ store[h].base # None
                  /\ Mutable => KnownRevision(store[h]) = items[h].rev
            /\ (store[h] # None /\ store[h].base # None /\ items[h] = None) =>
                  gone[h] > checkpoint

(* A content change or a delete goes out under a precondition that can     *)
(* hold: the revision the server had at the enumerate, so that only a      *)
(* change made since can refuse it (sync.rs, resolve_conflict: "the        *)
(* precondition is the observed remote revision, not the stale base").     *)
PreconditionFresh ==
    \A h \in Handle :
        LET change == Owed(h)
        IN  (/\ Mutable
             /\ change # None
             /\ change.kind \in {"Update", "Remove"}
             /\ items[h] # None
             /\ items[h].seq <= snap.checkpoint) =>
                change.if_match = items[h].rev

(* A base pairs a revision with the body the server holds at it, whoever   *)
(* pushed what in between: a body paired with another version's revision   *)
(* would pass the next precondition and overwrite what it never saw        *)
(* (sync.rs, rebase_content and rekey_create). A server-side copy answers  *)
(* with a revision and not with a body: of the version it makes, a base    *)
(* may hold the body the create was staged with instead, which the server  *)
(* need not hold.                                                          *)
BasePairsBody ==
    \A h \in Handle :
        (store[h] # None /\ items[h] # None) =>
            LET base == store[h].base
            IN  (base # None /\ base.revision # None /\ base.object # None
                   /\ base.revision = items[h].rev) =>
                        base.object \in {items[h].body, items[h].asked}

(* A move relocates the body the user last saved: when a Remove naming a   *)
(* destination can still land (its precondition holds), the server already *)
(* holds the body the placement points at, a staged edit having been       *)
(* pushed and recorded ahead of it, runs before (sync.rs, merge: "the move *)
(* must not go without the edit"). Of a server-side copy nobody has        *)
(* changed since it landed, what is claimed is the body its create was     *)
(* sent with: the server may have copied another one, and the move then    *)
(* relocates that one.                                                     *)
MoveCarriesEdit ==
    \A h \in Handle :
        LET change == Owed(h)
        IN  (/\ change # None
             /\ change.kind = "Remove"
             /\ change.to # None
             /\ items[h] # None
             /\ ~Stale(h, change.if_match)
             /\ local[h].object # None) =>
                local[h].object \in {items[h].body, items[h].asked}

(* An interrupted run replays at most one chunk of pushes (sync.rs,        *)
(* PUSH_CHUNK): what the remote served and no write recorded never exceeds *)
(* it.                                                                     *)
ReplayBounded == Cardinality(unrecorded) <= PushChunk

(* The bodies the object store must keep: a stored placement references    *)
(* one per pointing field.                                                 *)
Referenced(st) ==
    LET rows == {h \in Handle : st[h] # None}
    IN  ({st[h].object : h \in rows}
            \cup {st[h].base.object : h \in {k \in rows : st[k].base # None}})
        \ {None}

(* A sync stores no body, and an object no placement points at may be      *)
(* collected between any two writes (change.rs, ReplicaWriteOp): so no     *)
(* write of a run points at a body that no placement pointed at before it, *)
(* however the batches are cut, and whatever a held placement, a fork or a *)
(* confirmed push brings back (sync.rs, merge_step, PendingPush).          *)
PointersHeld ==
    [][pc # "Idle" => Referenced(store') \subseteq Referenced(store)]_vars

(* The bodies some live placement still owes the remote, or holds for its  *)
(* conflict to be resolved.                                                *)
PendingBodies(st) ==
    {st[h].object : h \in {k \in Handle :
        /\ st[k] # None
        /\ st[k].status \in {"Dirty", "Conflict", "Created"}
        /\ StagedEdit(st[k])}}

Delivered == INSTANCE Delivery WITH
    pending   <- PendingBodies(store),
    delivered <- landed,
    running   <- pc # "Idle"

(* The replica implements Delivery: a locally authored body stays pending  *)
(* until the remote took it, through every merge, refusal, silence, crash  *)
(* and retry, and whatever other clients do to its item; a run sends no    *)
(* body but a pending one (sync.rs, merge: edit beats delete, conflicts;   *)
(* resume: a refused push stays staged). Taking the remote side of a       *)
(* conflict gives the local one up, and keeping both overwrites a fork     *)
(* edited before its first sync when its body conflicts again.             *)
DeliversOrKeeps == Delivered!Spec

(* The markers whose presence the user flipped since the base. *)
FlagIntent(p) ==
    {f \in Flag : f \in p.flags <=> f \notin p.base.flags}

(* A run never undoes a flag change of the user's: while the placement     *)
(* stays live, a marker flipped in the row the run loaded has that         *)
(* presence in every row the run writes, through the merge, push outcomes  *)
(* and batches cut between them (sync.rs, reconcile_flags; placement.rs,   *)
(* ReplicaFlags::merge). A remote's marker folded in meanwhile is no such  *)
(* change: a confirmed content push writes the row as it was before it.    *)
IntentKept ==
    [][pc # "Idle" =>
        \A h \in Handle :
            (/\ local[h] # None /\ store'[h] # None
             /\ local[h].base # None
             /\ local[h].status # "Tombstone") =>
                \A f \in FlagIntent(local[h]) :
                    f \in store'[h].flags <=> f \in local[h].flags]_vars

(* A clean placement is one the engine will not look at again until the    *)
(* server lists it, so what the cursor covers it must hold: the server's   *)
(* flags (placement.rs, ReplicaStatus::Clean; sync.rs, the flag axis runs  *)
(* always, since "a delta lists a flag change exactly once").              *)
CleanMirrorsFlags ==
    \A h \in Handle :
        (/\ checkpoint # None /\ store[h] # None /\ items[h] # None
         /\ items[h].seq <= checkpoint /\ store[h].status = "Clean") =>
            store[h].flags = items[h].flags

(* A clean placement owes no push: a body its base does not hold would     *)
(* never be pushed, and the next remote edit would drop it unseen          *)
(* (placement.rs, ReplicaStatus::Clean: "In sync with the base; no pending *)
(* push").                                                                 *)
CleanOwesNothing ==
    \A h \in Handle :
        (store[h] # None /\ store[h].status = "Clean") => ~StagedEdit(store[h])

(* The replica and the server agree: same members, same flags, every edit  *)
(* delivered or held in a conflict with the version the server holds.      *)
Settled ==
    \A h \in Handle :
        /\ store[h] # None <=> items[h] # None
        /\ store[h] # None =>
              /\ store[h].status \in {"Clean", "Conflict"}
              /\ store[h].flags = items[h].flags
              /\ Mutable => KnownRevision(store[h]) = items[h].rev

(* Once the user, the other clients and the faults are done, repeated      *)
(* incremental syncs bring the two sides to agreement and keep them there. *)
Settles == <>[](pc = "Idle" => Settled)

================================================================================
