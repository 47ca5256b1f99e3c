# io-replica: a TLA+ model of the replica engine

io-replica keeps a local replica of remote collections (mail, contacts, events):
placements of items, their flags and bodies, a last-synced base for each, and a
cursor per collection. Its verbs are coroutines that yield load, enumerate,
fetch, push and write requests to a consumer. This directory models them as TLA+
modules that TLC checks on small instances, with theorems TLAPS proves for every
instance.

## Inventory

| Component | State | Operations | Made correct by |
|---|---|---|---|
| Placement (`src/placement.rs`) | flags, body, level, status, base, conflict pair, origin | `ReplicaFlags::merge`, `staged_edit` | the merge is element-wise; a status says what is pending |
| Sync (`src/sync.rs`) | loaded placements, join, write batch, push queue, chunk in flight, four pending maps, next checkpoint | load, enumerate, merge each candidate, push by chunks, write | nothing lost, nothing pushed twice beyond a chunk, the cursor never outruns the store, convergence |
| Mutate (`src/mutate.rs`) | none between load and write | SetFlags, Remove, Edit, Copy, Move, Add | a staged change is one the merge recognises |
| Change (`src/change.rs`) | changes, keys, write ops, drop reasons | key digest | a replay keeps its key; a superseded row is not a delete |
| Upgrade (`src/upgrade.rs`) | placements, lookups, fetched items, claimed link ids | raise placements to meta or full | link ids unique and stable; bodies of the right revision; no edit hydrated over |
| Rekey (`src/rekey.rs`) | old spine, new enumeration, resolved links | rebuild after a handle-space change | pending state survives; reused handles are not dropped |
| Hub (`src/hub.rs`) | items shared by sources, a binding per source | project, absorb | sources converge; no source conflicts with itself; only real deletes spread |
| Remote seam (`src/remote.rs`, `src/client.rs`) | the server's items and change counter | enumerate, fetch, push | delta snapshots complete past a cursor; preconditions checked |
| Storage seam (`src/storage.rs`, `src/client.rs`) | placements, objects, checkpoints | load, lookup, write | batches atomic and ordered; one writer per collection |
| Client loop (`src/client.rs`) | none | services every yield, returns the first seam error | a run may end at any yield |
| Open (`src/open.rs`), coroutine protocol, identifiers | none | a load; argument errors | |

A consumer runs one verb at a time per collection. A sync loads the collection,
enumerates the remote from the stored checkpoint (or wholly), walks both sides
in handle order merging each candidate, writes batches as they fill, then pushes
its changes chunk by chunk, each chunk recorded by a write before the next goes
out. The last write carries the checkpoint of the enumeration. An upgrade fetches
what rows lack; a rekey rebuilds a collection whose handles the server voided; a
hub stands in for the storage of several collections and folds their writes into
shared items. A move is staged in two collections and pushed by two syncs.

What is hard here, and hard to test: other clients change the server between the
enumerate and every push; a crash separates a push from the write that records
it; outcomes are refused or never reported; a delta never mentions an untouched
item again, so a decision taken on a stale base is never revisited; two axes
(content, flags) rewrite one placement in one merge; results are matched by
handle alone; an upgrade and a rekey read the server twice and the store once;
either half of a move may land first; a hub sees each source only through what
that source last wrote. `PROJECT.json` lists each of these at its line.

## Modules

| Module | Models | Notes |
|---|---|---|
| `Placement` | the placement record, the flag merge, `staged_edit` | of the summary only whether one is cached; no `sort_key`: nothing branches on it |
| `Merge` | `ReplicaSync::merge` and all it calls, as pure operators from (placement, remote item, options) to an outcome | the outcome is what the candidate adds to the run: op, fork, change, entries of the four pending maps |
| `Mutation` | how each mutation rewrites a placement | pure operators |
| `Detail` | the detail ladder: what an upgrade writes of a fetched item, and the minting of link ids | pure operators |
| `ChangeKey` | the idempotency key of a change | the sequence of fields digested |
| `Remote` | enumerate and push, after the fake server of `tests/common/mod.rs`, and other clients | a revision is the counter value of the last content change |
| `Sync` | store, sync coroutine, mutations, other clients and faults composed | |
| `Delivery` | abstract: what a replica promises about authored bodies | implemented by `Sync` |
| `Replay` | `Sync` beside a consumer recording the keys it applied | extends `Sync`, `ChangeKey` |
| `Upgrade` | the upgrade coroutine beside `Sync` | extends `Sync`, `Detail` |
| `Rekey` | the rekey coroutine and the renumbering it answers, beside `Upgrade` | extends `Upgrade` |
| `Hub` | `project` and `absorb` under two sources, each with its own server | over `Merge`, `Mutation`, `Detail` |
| `Relocation` | moves between two collections of one server | over `Merge`, `Mutation`, `Detail` |
| `MCSync`, `MCReplay`, `MCReplica`, `MCHub`, `MCRelocation` | the instances | constants only |
| `MergeProofs` | theorems about the merge of one candidate | |
| `SyncProofs`, `SpineProofs`, `RowProofs` | theorems about `Sync` | each extends the one before |
| `DeliveryProofs` | that `Sync` implements `Delivery` | extends `SpineProofs` |
| `UpgradeProofs` | theorems about `Upgrade` and `Rekey` | extends `SpineProofs` |
| `HubProofs` | theorems about `Hub` | extends `MergeProofs` |
| `RelocationProofs` | theorems about `Relocation` | extends `MergeProofs` |

`Merge`, `Mutation` and `Detail` are the code all compositions share: the sync of
a hub's source or of a move's half is the very merge that `Sync` runs.

### Sync

`store` and `checkpoint` are what is persisted; `pc` is `State` (`Start` and
`PendingLoad` are `Idle` and the load of `Begin`; `Joining` is the time the
coroutine computes without yielding); `local`, `snap` and `todo` are the `Join`;
`writes`/`nops` the write batch, kept as the last op per handle and the number of
ops, since batches apply in order and atomically; `pushes`, `in_flight`,
`next_checkpoint` and the `pending_*` maps are the fields of the same name.
`results` and `unserved` are the push under way, `landed`, `unrecorded` and the
`asked` of a server's item history for properties, `spent` the bounds.

`Begin` is Start and PendingLoad; `Enumerate` PendingEnumerate and `open_merge`;
`MergeStep` one handle of `merge_step` (a candidate merged, or one a delta passes
over); `MergeWrite` Merging; `MergeEnd` the end of `merge_step`, then `step`;
`Serve` the remote taking one change; `PushOutcomes` PendingPush; `ChunkWrite` and
`LastWrite` PendingWrite; `User*` a whole mutate run each; `Others*` another
client, at any point the coroutine waits; `Crash`, `Refuse`, `Silence` the faults.

### Upgrade and Rekey

`upgrade` is the coroutine (None when there is none): its state, tier, handles,
loaded placements, fetched items, claimed links and write ops. `BeginUpgrade` is
PendingLoad (`pending_handles`), then `UpgradeLookup`, `UpgradeFetch`,
`UpgradeLinkCheck`, `ApplyFetched` (one handle of `write_fetched`, in handle
order), `UpgradeWrite` and `UpgradeCrash`. Other clients move at each of its
yields. `rekey` is the rekey coroutine, `epoch` counts the server's renumberings
and `synced_epoch` is the one the stored rows are in: `OthersRenumber`,
`BeginRekey`, `RekeyEnumerate`, `RekeyFetch`, `RekeyWrite` (`rebuild`),
`RekeyCrash`. While the epochs differ only mutations and the rekey run, as a
consumer that sees the new epoch has it.

### Hub

`hub` is `ReplicaHub::items`, `residual` the rows no link id has hubbed, `run` the
sync under way. A load is a projection (`Loaded`, after `project`), a write is
`WriteBack` of what `Absorb` makes of the batch, one `AbsorbOp` after another in
handle order (`absorb`, `reconcile_content`, `absorb_drop`). `BeginSync` enumerates and merges, `HubServe` serves one change,
`HubWrite` records, `HubCrash` cuts the run; `HubUpgrade` is a whole upgrade;
`User*` and `Others*` are as in `Sync`.

### Relocation

Two collections, each with its rows (`stores`), its members on the server
(`servers`) and its own sync (`runs`), so that the two halves interleave at every
yield. The server recognises a half by link id in the destination, as
`MemRemote` does. The one item, its copies and its relocations have handles of
their own, so the history of a copy can be read off its handle.

### Choices worth knowing

- A change is served one at a time, so other clients move inside a chunk. This
  is more than the fake server does and what real ones do.
- A crash stands for a process death and for any seam error, which
  `ReplicaClient::run` returns at once. It is not taken while `Joining`: the
  coroutine only computes there, so the effect is that of a crash at the yield
  before or after.
- `Hub` and `Relocation` enumerate in full and push in one chunk, and take an
  upgrade in one step: deltas, chunks and the yields of an upgrade are the matter
  of `Sync` and `Upgrade`.
- A server-side copy takes the body and the flags of its origin, whatever the
  change carries (`change.rs:100-104`; `AddedBodies`, `AddedFlags`). The origin is
  in another collection, so its body may be any that other clients wrote, or the
  one the replica cached; and the copy may be refused because the origin is gone.
  `asked` keeps what the change came with, so that properties can tell the two
  apart. When handles run out (a bound) an add is refused.
- A fork made by keep-both takes a handle derived from its source's and body,
  as in the code; handles are numbers so that the join's order is theirs.
- The digest of a key, of a body and of a fork is injective.
- The object table is no variable: which bodies it may still hold is read off the
  placements (`Referenced`).
- The single writer per collection is assumed, as `ReplicaStorage::write` asks.

## Properties and runs

Each property is stated and explained where it is defined.

| Run | Instance | Checks |
|---|---|---|
| `faults` | mutable content, manual and keep-both, incremental and full; edit, remove, add; remote seed, edit, remove; a crash, a refusal or an unreported outcome | `TypeOK`, `SpineComplete`, `PreconditionFresh`, `BasePairsBody`, `ReplayBounded`, `CleanOwesNothing`, `DeliversOrKeeps` |
| `moves` | sources refusing content, adds or removes, both delete policies; edit, move, copy, remove | `MoveCarriesEdit`, `SpineComplete` |
| `imap` | immutable content; set flags, remove, append, copy; assigned handle reported or not; a crash | `SpineComplete`, `CleanMirrorsFlags`, `CleanOwesNothing` |
| `axes` | content and flags edited together on both sides, two flags, every conflict policy and a full sync; a crash | `RetryKeepsKey`, `OnePushPerHandle`, `CleanMirrorsFlags`, `PreconditionFresh`, `IntentKept`, `PointersHeld` |
| `live` | fairness; syncs and upgrades at both tiers; edit, remove, add; crash or silence | `VersionsPaired`, `Settles`, `Mirrors`, `UpgradeKeepsEdits` |
| `upgrade` | immutable content, copies of one identity, whole and partial batches, a body another collection stores; add, remove; a crash | `UpgradeTypeOK`, `LinksUnique`, `CleanOwesNothing`, `MintsInHandleOrder` |
| `rekey` | one renumbering onto fresh and reused handles; edit, set flags, remove; a crash | `RekeyTypeOK`, `RebuiltSpineComplete`, `RekeyKeepsEdits`, `CarriesIntent` |
| `hub` | two sources, one server reporting assigned handles and one not, manual conflicts; edit, set flags, remove, add through either; a crash | `TypeOK`, `DeletesAsked`, `OneCopy`, `SettlesConverged`, `NoSelfDivergence`, `HubKeepsBodies` |
| `relocation` | an inbox and an archive; up to two moves, an edit or delete, another client; a crash | `TypeOK`, `DeliveredOnce`, `NeverLost`, `MovesSettle` |

The passing runs say:

- *Spine.* The persisted cursor never claims what the persisted placements do not
  hold, through any crash, refusal or race (`SpineComplete`), and a rebuilt
  collection is as complete as a synced one (`RebuiltSpineComplete`).
- *Pushes.* No content push or delete goes out under a precondition already
  stale when the run looked (`PreconditionFresh`); a handle owes one change at
  most (`OnePushPerHandle`); a crash replays at most one chunk (`ReplayBounded`),
  and a replay carries the key of what it replays (`RetryKeepsKey`); a move never
  goes out without the edit staged before it (`MoveCarriesEdit`, which of a
  server-side copy claims only what its create was sent with: *Edited copy* below).
- *Bodies.* `Sync` implements `Delivery`: a body the user authored is pending
  until the server took it, and nothing else is sent (`DeliversOrKeeps`, which is
  `INSTANCE Delivery` with `pending <- PendingBodies(store)`, `delivered <-
  landed`, `running <- pc # "Idle"`, under the policies that never drop a side).
  A revision is never paired with another version's body, in a conflict or in a
  base, but for the base of a server-side copy, which may hold what its create was
  staged with (`BasePairsBody`, `VersionsPaired`). No write of a sync points at a
  body the object store may have collected (`PointersHeld`). Upgrades and rekeys
  keep every pending body (`UpgradeKeepsEdits`, `RekeyKeepsEdits`), and so does
  the hub (`HubKeepsBodies`).
- *Flags.* A flag the user flipped stays flipped (`IntentKept`, `CarriesIntent`);
  a clean placement holds the server's flags and owes nothing
  (`CleanMirrorsFlags`, `CleanOwesNothing`).
- *Identity.* No two live rows share a link id (`LinksUnique`), and which copy
  keeps the bare one does not depend on the order of a fetch
  (`MintsInHandleOrder`).
- *Several sources.* Only asked-for deletes spread (`DeletesAsked`), a source
  never diverges from itself (`NoSelfDivergence`), no reporting server is given a
  second copy (`OneCopy`), and a hub at rest is one whose sources agree
  (`SettlesConverged`). A moved item is never nowhere (`NeverLost`), never twice
  in one collection (`DeliveredOnce`), and ends in one (`MovesSettle`).
- *In the end* the two sides agree (`Settles`) and every body is here
  (`Mirrors`).

The `hub` instance was also run by hand with `Policy = "PreferIncoming"` and
`"PreferExisting"`, without `HubKeepsBodies`, which those policies do not
promise: 338 625 and 294 941 distinct states, no violation.

### Where the code and its comments disagree

Three runs each refute a statement of the repository's own comments (`findings`
in `PROJECT.json` quotes them):

- `demoted_edit`: a flag pull beside a staged content push marks the placement
  clean; when the push is refused, the edit is pending no more.
- `hub_divergence`: after two sources diverged, a further fold by the source
  whose body is shared fast-forwards the item and clears the divergence with the
  other's body.
- `edited_move`: an item edited, then moved, with the target synced first: the
  server copies the old body, the target records the edited one as synced, and
  the source's edit goes with its remove.

The model shows more, each reproduced by the change of instance or of property
named:

- *Edited copy* (`sync.rs:1020-1024`). The same as `edited_move`, in one
  collection. A copy is edited before its first sync, or its source had cached
  another version than the origin's. The server copies what the origin holds;
  `rekey_create` pins the body it had cached under the revision of the copy and marks
  the row clean, so the two never meet again: the edit is pending no more, no
  upgrade refetches the body, and a later move relocates the one the origin had.
  `moves` with `local[h].object = items[h].body` as the claim of `MoveCarriesEdit`
  (and the like for `BasePairsBody`): violated.
- *Folded flags* (`sync.rs:835`). A remote flag folded in under a push held back
  leaves the base behind the cursor. If the user unsets that flag, the next delta
  merges against the old base, finds nothing to do and marks the placement clean.
  `imap` with `Options <- ReadOnlyOptions`: `CleanMirrorsFlags`.
- *Reverted delete* (`sync.rs:869`). Reverting a refused delete skips the flag
  change the same delta lists. `moves` with a flag and remote `SetFlags`:
  `CleanMirrorsFlags`. A row edited, then deleted, comes back clean with its edit
  still staged, which no merge pushes. `faults` with `Options <- RefusingOptions`:
  `CleanOwesNothing`.
- *Prefer-local retry* (`sync.rs:705`). The revision a prefer-local push was made
  against is not recorded, so the retry goes out under the stale base, and the
  cursor meanwhile claims a revision the row has not seen. `faults` with
  `Options <- PreferLocalOptions`: `PreconditionFresh` and `SpineComplete`. It
  takes a server that refuses the push for a reason of its own.
- *Edited tombstone* (`mutate.rs:231-245`). An edit forgets the conflict a row
  records only when its status is still conflict. A conflict deleted, then edited,
  is a dirty row with the old conflict revision; a pull moves its base past that
  revision, and a delta then stands it in for the server's (`sync.rs:1279-1282`),
  so the row is taken for one that has not seen what it holds and the next edit
  for a conflict. `faults` with one server handle, `Editable <- ReplicaStatus`,
  `MaxUser = 4` and `MaxFault = 0`: `SpineComplete`.
- *Edited create* (`mutate.rs:253`). A create deleted and edited before its first
  sync ends dirty with no base, which no arm of the merge pushes. `live` with
  `Editable <- ReplicaStatus` and `MaxUser = 3`: `Settles`.
- *Overwritten fork* (`sync.rs:753`). A keep-both fork sits under a handle made of
  its source's and of its first body. Edited before its first sync, it is
  overwritten when its source conflicts again over that same body, and the edit is
  pending no more, though a keep-both resolution "loses neither version"
  (`sync.rs:743`). `demoted_edit` with `Flag = {}`, `Options <- KeepBothOptions`,
  `RemoteOps = {"Edit"}` and `MaxUser = 3`: `DeliversOrKeeps`.
- *Lowered edit* (`upgrade.rs:393`). An edit with no summary, of a row that has
  none, leaves the row pending for a Meta upgrade (`upgrade.rs:97`), which lowers
  its level over the body it holds; the next Full upgrade takes it for a row not
  hydrated and overwrites the staged edit. `live` with
  `Summaries = {None, "summary"}`: `UpgradeKeepsEdits`.
- *Blind rekey* (`rekey.rs:239-243`). A rebuilt row takes the new enumeration's
  revision over the old base's body. If another client edited the item in the
  meantime the row reads as current and the new body is never fetched. `live`
  with `MaxRenumber = 1`: `VersionsPaired` and `Mirrors`.
- *Reused handle* (`rekey.rs:165`). An edit staged under a handle the new space
  gives to another item, its own item gone, shares that handle with the row
  rebuilt there: one of the two is lost with the batch. `rekey` with
  `ReuseEdited = TRUE`: `RekeyKeepsEdits` and `RebuiltSpineComplete`.
- *Unfolded flag* (`sync.rs:674`). A content push keeps a copy of the row from
  before the flag axis folded a remote flag in; once confirmed it is written over
  the fold when a cut batch has already persisted it. Nothing is lost, the push
  itself having put the item ahead of the cursor, and `IntentKept` speaks of the
  flips the run loaded.
- *Moved twice* (`mutate.rs:289`). The second move of an item whose copy was
  minted a link id of its own is keyed by an identity the server does not hold,
  and can deliver twice. `relocation` without the bound on moves in
  `DeliveredOnce`.
- *Removed offer* (`hub.rs:348-357`). Removing a row the hub merely offers a source
  binds it with no shared body. Where the other source refuses the delete and reverts
  it, that source has forgotten a body it had folded in, and its next edit diverges
  from it, though a source is "never in conflict with a body it folded in itself"
  (`hub.rs:426-430`). `hub` with `Options <- RefusingOptions`, `Flag = {}`,
  `RemoteOps = {}`, `MaxUser = 3` and `MaxTotal = 3`: `NoSelfDivergence`.
- *Offered twice* (`sync.rs:1124-1129`). A server that does not report the handle
  it assigns may be given a second copy, which is why `OneCopy` speaks of the
  others.
- *A key names a target state, not an operation* (`change.rs:19-26`, `216-222`).
  A flag set, unset by another client and set again has one key for both
  settings. `Replay` forgets the keys of an item somebody else moved for that
  reason; a consumer that remembers keys for ever would skip the second.
- *The conflict body is no reference* (`change.rs:296-301`). The objects a
  placement keeps alive are named as `object` and `base.object`; the one recorded
  as `conflict_object` (`placement.rs:256-259`) is not among them and may be
  collected while the conflict stands. `Referenced` counts what `change.rs`
  counts.

The passing instances leave those situations out, but for *Edited copy*, which
`moves` runs into and `MoveCarriesEdit` says less of: `imap` has no refused or
read-only push, `moves` no flags, `faults` no flags beside edits, no
prefer-local and too few edits for a fork to be overwritten, `axes` does not check `DeliversOrKeeps`, mutations target live
placements (`Editable <- Live`), every edit beside an upgrade comes with a
summary (`Summaries = {"summary"}`), `hub` has too few mutations for a removed offer
to be revived and edited, and `rekey` keeps staged edits off the handles
the new space reuses (`Apart`).

### Bounds

Two server handles (one in `axes`, where a fork and its source are enough; three
where upgrades, rekeys or resurrected edits need one),
one or two of them seeded; a placeholder; one or two authored bodies and one or
two of the other clients'; one to three mutations, one or two remote changes and
one fault (`MaxUser`, `MaxRemote`, `MaxFault`), one renumbering (`MaxRenumber`),
two moves (`MaxMove`); in `hub` two of user, remote and fault steps together
(`MaxTotal`; three in `hub_divergence`). The other clients of `moves` edit but do not
remove (`faults` has that race). `PushChunk = 1` and `WriteChunk = 2` make
a run with two changes take two chunks and a candidate with two ops cut the
batch; `axes` has `WriteChunk = 1`, so that the merge of its one item is persisted
before its push. Each hazard needs at most an edit, a race and a fault over two or three
runs, and the number of runs is not bounded. A key minted from a minted key is
out of reach and mapped to itself.

Symmetry is used for the flags of `axes` only: handles are ordered, and bodies
name fork handles. Deadlock is checked but in `hub` and `relocation`, whose
systems stop once the bounds are spent and a sync would change nothing.

### Fairness

`ReplicaFairSpec` assumes that a run under way goes on (weak fairness of `Run`,
`UpgradeRun`, `RekeyRun`): the client's loop services every yield before it
returns, and the store and server answer. It assumes that a mirroring consumer
alternates syncs and upgrades, as `examples/mailbox_lifecycle.rs` does: strong
fairness of the start of each, since each one running disables the other; and
that a consumer that sees a new handle space rebuilds (weak fairness of
`BeginRekey`). Nothing is assumed of users, other clients or faults, which the
bounds end.

## Proofs

`MergeProofs` proves, for every set of flags, bodies, links and handles:

- `MergeFlagsElementwise`: the set expression of `ReplicaFlags::merge` is the
  per-marker three-way merge, symmetric in the two sides, and a merge with an
  unmoved side is the other side.
- `MergeCandidateSound`: every outcome of the merge of one candidate is well
  typed and agrees with itself: its change, if any, is in exactly the pending
  map of its kind (`Sound`). One lemma per arm; the flag axis needs that the
  content axis's push withholds its own.
- `MergeCandidateDerives`: the merge derives no change its options forbid. A
  remove is that of a based tombstone, under its base's revision, keyed by its own
  link and destination, and held back while a move has an edit to push; an add
  with an origin is that of the create that has it. No row it writes is a
  tombstone, or has an identity or an origin the row it loaded did not (`Heir`): a
  sync stages neither deletes nor moves, only the user does.

`SyncProofs` proves `TypeCorrect` (`Spec => []TypeOK`) and `OnePush`
(`Spec => []OnePushPerHandle`) from the inductive invariant

    Inv == TypeOK /\ Phases /\ OnePushPerHandle

`Phases` says what the coroutine holds at each `pc`: options and a snapshot once
it has them, nothing queued before the join and nothing in flight outside a
push, a change in flight for every one not served yet, and no change queued for
a handle the join has still to walk. `OnePushPerHandle` is not inductive without
it: `MergeStep` adds a change for a handle, and only because each handle is
walked once does it not meet an earlier one; likewise `PushOutcomes` forgets the
chunk's entries, which keeps the maps exact only because queue and chunk never
overlap. There is one lemma per action.

It also proves `ReplayBound` (`Spec => []ReplayBounded`). The invariant
`ReplayInv` adds that what is served and not recorded is of the chunk in flight,
and that the chunk is no longer than `PushChunk`; the latter is a fact about
`NextChunk` (`ChunkSize`): but for its greatest change, all of a chunk comes
before that one in the queue. A chunk is replaced only by a write, which records
it.

Last, it proves what the merge of one candidate leaves behind, for every placement, item and options: `CandidatePresent` when the remote reports a member,
`CandidateAbsent` when it does not. `Present` and `Absent` spell the two results
out: the row has a base that saw the reported revision, or has none at all; every
revision it holds stands beside the body it stood beside before, or beside none;
the change derived carries the reported revision. The hypotheses (`Fits`, `Shape`)
are that the row is not ahead of the report, and that a recorded conflict is ahead
of its base; `SpineProofs` shows that both hold whenever the sync merges.

`SpineProofs` proves `CursorHonest` (`SpineComplete`), `PreconditionsFresh`
(`PreconditionFresh`) and `BasesPaired` (`BasePairsBody`) from one inductive
invariant, `SpineInv`, on top of `Inv`:

- `ServerInv`: every stamp of the server is in its past.
- `RowsInv`: every row, stored, loaded, in the batch or waiting for an outcome,
  holds only revisions the server has been at. The one of a conflict stands beside
  its own body (`Paired`); the one of a base beside its own, or beside what the push
  that made the version came with (`Based`), which differs for a server-side copy
  alone. All rows, since any may be written next.
- `CursorInv`: the cursor's claims hold of the store and of what the batch will
  make of it. Without the second half a write in the middle of a merge could break
  the first.
- `RunInv`: from the enumerate to the last write. `SnapInv` relates the snapshot to
  a server that moves on (what is no younger than the snapshot is listed as it is,
  or was covered already), `JoinOK` says that each handle the join has walked is
  covered up to the snapshot's cursor and that the others are as loaded, `OwedOK`
  that each change can still land unless somebody moved its member, `ResultOK` that
  an accepted one moved it past the snapshot. The last two are why a confirmed
  push, whose row holds a revision the snapshot never listed, does not falsify the
  snapshot's cursor.
- `PlaceInv`: what the place of the coroutine says of the batch and the cursor.

The cursor lands with the last write, when all is walked and nothing is owed, so
`JoinOK` becomes `CursorInv`. `RemoteKeeps` proves once that all of this survives
any move of the server; then there is one lemma per action. `SpineInv` was first
checked by TLC as an invariant of the instances of `faults`, `moves`, `imap` and
`axes`.

`MovesCarryEdits` (`MoveCarriesEdit`) follows from what `SpineInv` says of the
rows and from one more invariant, `MoveInv`: a move in the queue or in flight is
that of its row as loaded, with no staged edit. An accepted one then met the
member at the revision of the row's base, whose body is the row's (`RowsInv`), or,
of a copy, what its create was sent with. It is about mutable content (`Mutable`): an immutable body has no revision to
precondition on and no edits to carry.

The theorems of `SpineProofs` are about the instances that are `Cautious`: no prefer-local
run against a server that refuses for reasons of its own, no edit of a deleted
placement. Both exclusions are real (*Prefer-local retry* and *Edited tombstone*
above violate `SpineComplete`); they are hypotheses on the constants, stated in
the theorems, and all passing runs satisfy them. Nothing else is bounded:
handles, bodies, chunk sizes, options, mutations, remote changes and faults are
arbitrary.

`RowProofs` proves what a run may write into a row: `IntentsKept` (`IntentKept`),
`PointersStayHeld` (`PointersHeld`) and `CleanRowsMirror` (`CleanMirrorsFlags`). A
run holds a handle's row in up to six places: the store, the batch, the rows loaded
and the three pending maps (`Slots`), any of which may be written next. So the
invariants speak of all six:

- `HeldInv`: every flag set was read, never `Unknown`; a row at a server's handle is
  one the server assigned, so a created item is placed where the run loaded nothing.
- `IntentInv`: each of them shows every marker the user flipped in the row loaded.
- `PointInv`: the batch points at no body the store does not, and neither does a row
  kept for a push. A keep-both fork moves a body to another handle, so the theorem
  is about instances that fork nothing (`Unforked`); `axes` checks the others.
- `MirrorInv`: a clean row stands at its base (`StandInv`), a base has the flags of
  any member the cursor covers (`CoverInv`), the snapshot lists those of every
  member that has not moved since (`ListedInv`), and so does a row the join has
  walked, unless its change is still to be answered (`WalkedInv`). It needs sources
  that take what they are sent (`Obliging`); *Folded flags* and *Reverted delete*
  above are about others.

`RowMade` is the lemma under all three: whatever the row, the listing and the
options, the row that the merge of one candidate leaves, and each it keeps in mind,
undoes no marker, points at no new body and stands on the flags the remote reports,
unless a change that will move them goes out. `PushOutcomesRows` and `RunRows` say
the same of the outcomes and the writes.

It also proves `CleanCopiesPushed` (`CleanOwesNothing`) for the `Cautious` instances
where bodies are never edited in place, a mailbox's (`"Edit" \notin UserOps`),
whatever is created, copied, moved, flagged, refused or lost. `UnstagedInv` says of
all six slots that a row without a base was created here and is under no handle of
the server's, and that the body of any other is its base's. A confirmed create is
where it could fail: its row moves to the server's handle and gets a base there.

`DeliveryProofs` proves `BodiesDelivered`: `Sync` implements `Delivery`
(`DeliversOrKeeps`). Every initial state maps to an initial state and every step to
a step or a stutter: a mutation is a `Mutate`, `Begin` a `Start`, serving an edit
or a create a `Send`, each write and a crash a `Record`, and all else, the moves
of other clients included, a stutter. What the steps need is `DeliveryInv`, on
top of `Inv`:

- `BatchInv`: against the row it replaces, a row in the batch stages no body of its
  own and gives none up but one the remote took. Any write may come next, so it
  speaks of the batch at all times; it is what makes a write a `Record`.
- `OwedFit`, `ResultFit`: a change queued or in flight carries the body its stored
  row owes, or deletes a row that owes none, and an accepted one has landed. They
  make a push a `Send`, and let a confirmed push take its row off the books.
- `FitInv`, `MembersInv`, `SnapFit`: which rows, members and listings occur. A row
  with no base at a server's handle is an edit whose member is gone, and for good
  where handles are not used again: otherwise the member's return would be merged
  as a pull over the edit.
- `Unwalked`, `PlaceFit`: what the join has not walked is as loaded, and what the
  place of the coroutine says of the batch.

`CandidateKeeps` is the heart of it: whatever the row, the listing and the options,
the merge of one candidate gives up no body the row owes. TLC checked
`DeliveryInv` on four instances, of 170 000 to 500 000 states, before it was
proved.

The theorem is about content alone in one collection (`ContentAlone`), under the
manual and prefer-local policies: edits, deletes and creates by the user, seeds,
edits and removes by others, any faults. Each exclusion is a behaviour of the code:
flags that move beside an edit demote it (`demoted_edit`), a move takes its edit to
another collection, where `Relocation` follows it, prefer-remote gives the local
side up on purpose, and keep-both may overwrite a fork (*Overwritten fork* above).
Keep-both is checked by `faults`.

From the same invariant it proves `CleanEditsPushed` (`CleanOwesNothing`), where in
addition no refused delete is reverted (`Unreverted`; *Reverted delete* above is the
rest). `TidyInv` says that a clean row is `Tidy`, its body its base's, in the store,
in the batch and as loaded. A refused, silenced or crashed push leaves the row of
the store as it was, still dirty; only an accepted one marks it clean, with a base
that pins the body pushed. That the row written is the one pushed, and not an older
copy kept for it, is what `DeliveryInv` adds.

`UpgradeProofs` proves, for `UpgradeSpec`, `UpgradeTypeCorrect`
(`UpgradeTypeOK`), `VersionsStayPaired` (`VersionsPaired`), `CursorHonestBeside`
(`SpineComplete` with upgrades between the syncs) and `UpgradesKeepEdits`
(`UpgradeKeepsEdits`, an action property). The invariant is

    BesideInv == UpInv /\ SpineInv /\ WholeInv /\ HydrateInv

- `UpInv` is `Inv` beside the coroutine: while it runs the sync is idle, the rows
  it loaded are the rows stored, and it fetches and writes only rows that lacked
  what its tier is for (`Staged`). Types follow from it alone.
- `WholeInv` is why an upgrade meets no edit: a row with a body never synced, or a
  recorded conflict, reads as hydrated at every tier the server can be asked for.
  Every merge and every mutation must keep it (`CandidateWhole`, `WholeNext`),
  since a row of the store, of the batch or of a pending map may be the next one
  upgraded.
- `HydrateInv` says what a fetched item and a row to be written still are when
  other clients have moved: one version of the member (`FetchOK`), which the
  cursor does not claim to be past, and a row that is sound and has kept the
  body, base and status of an edit (`RaisedOK`, `Raises`).
- `SpineInv` is that of `SpineProofs`, kept by each write because `RaisedOK` holds
  of what is written.

These theorems (but for the first) are about the instances that are `Careful`:
`Cautious`, and every edit and create comes with a summary. *Lowered edit* above is
the reason: without it `WholeInv` is false, and so is `UpgradeKeepsEdits`. TLC checked
the four parts on the instances of `live` and `upgrade` first.

It also proves, for `ReplicaSpec`, `RekeyTypeCorrect` (`RekeyTypeOK`) and
`RekeysKeepEdits` (`RekeyKeepsEdits`, an action property) from `RekeyInv`: verbs run
one at a time (`UpInv` of the sync and the upgrade; on a void space neither runs,
and the rows a rebuild loaded are the rows stored), and `SpacedInv`, no edit is
staged under a handle of the void space, nor under one the rebuild enumerated.
`SpacedInv` is the hypothesis `~ReuseEdited` carried along the steps: a renumbering,
a mutation on the void space and a member another client adds must each keep it
(`Apart`), since a rebuild fetches and writes after they could have moved. Dropped,
it is *Reused handle* above.

`RebuildRows` says what `rebuild` makes of each handle: a revived create, a carried
row, a fresh one or none. A member is carried from the last row under its link, and
of several members under one link only the first is (`CarriedFrom`). So an edited
row is either the one a member is carried from, and `CarryPends` keeps its body
pending there, or it is revived (`RebuildKeeps`); without `SpacedInv` the revived
row and a member rebuilt at its handle would collide.

`RelocationProofs` proves `RelocationTypeCorrect` (`TypeOK` of `Relocation`),
`MovesNeverLose` (`NeverLost`) and `MovesDeliverOnce` (`DeliveredOnce`), for any
collections, handles and bounds, and whatever a sync may push.

- `KeptInv` carries the first two. A run's outcomes are those the merge derives
  (`Derives`) from rows still as it loaded them; and until somebody deletes the
  item, every tombstone names a destination and some collection holds a member.
  Without the former a stale run could delete what the latter rests on. `Served`
  shows that a remove with a destination leaves a member there, whether it
  relocates the item or recognises a copy.
- `OnceInv` carries the third, on top of `KeptInv`, one case for the time before
  the move (`Unmoved`: nothing exists but the item and its row) and one for the
  time after it (`MovedTo`). After it, a row that can still deliver is one of the
  two halves (`HalfOf`), since no step but a move stages one (`Trails`); copies in
  the target lie under the one handle the server copies the item to; and whenever
  the create has delivered, or still can (`Copying`), the remove is keyed by the
  identity the server knows the copy by. That last part is what a second move
  breaks (*Moved twice* above), and why the theorem, like the run, is about one.

The handles the server hands out are those of `ServerHandle` (`Bounded`); in the
theorems that set is arbitrary. TLC checked `KeptInv` and `OnceInv` as invariants
of the instance of `relocation` first.

`HubProofs` proves `HubTypeCorrect` (`TypeOK` of `Hub`), `DeletesWereAsked`
(`DeletesAsked`) and `NeverItsOwnRival` (`NoSelfDivergence`), for any sources,
handles, bodies and bounds, any hub policy, any options that fork nothing
(`HubAssumption`), and whether or not a server reports the handles it assigns. The invariant of the first two is

    HubInv == TypeOK /\ StoreInv /\ RunInv

A sync turns a delete in two ways: the server no longer lists a row's handle, or
the row it loaded is a tombstone. So a deleted mark is asked for only if *no row is
ever under a handle that is somebody else's, and none with a base is under a handle
whose member is gone for another reason than a delete*. That is what the parts say:

- `Named`: a row of an item under a server's handle is under one the server has
  assigned, and if a member is there, that member is the item (by its hint or by
  the key minted from it, `Names`). A handle never used again is why it lasts.
- `Mourned`: beyond that, if no member is there, somebody deleted the item. It holds
  of every binding with a base or a conflict (`ItemsInv`), and so of what is loaded;
  it fails of a create, which is why a create dropped as superseded must not count
  as a delete.
- `OneBound`, `LooseInv`: a handle of a source is bound to one item, and a row held
  aside is one pulled and never identified. A second item under the handle would be
  deleted for the first's sake.
- `RunInv`: what a sync under way derived (`OutFits`) is still fit to be absorbed
  when it is, other clients having moved at every yield; a handle the server assigned
  during the run (`ResultFits`) is nobody's but the created item's.

A member moves in one of three ways (`ServerMoves`): it goes, it changes and keeps its
identity, or it appears where none ever was. `ItemsStay`, `OutStays` and `RunStays`
say once that everything lasts through such a move, if what goes was deleted;
`BeginStep` and `OutcomeFits` that what the merge derives from a row that fits is
fit; `WriteStep`, `UpgradeStep` and `MutateStep` that what is absorbed leaves a store
that fits. A batch is absorbed by a recursive function over its handles; `AbsorbKeeps`
shows that an invariant every op keeps is kept by the batch, not by induction over
the data but by the least counterexample, on the cardinality of the handles absorbed
so far. `HubAssumption` says that handles are finitely many, that a placeholder is
its item's alone, and that no server assigns one (`hub.rs`, `created_placement`: it
ends in a control character).

`NeverItsOwnRival` adds `SelfInv`: of every item, the source whose body is shared has
that body in hand (`Agreed`: its binding's shared body), and a sync under way writes
no body but the shared one (`OutRestates`), since it never fetches and no mutation
runs beside it. A write is a batch of ops, and `Folding` is what holds between two of
them: the other sources' bindings stay, the source agrees with what it has folded in
so far, and an item it was the one to share has not turned conflicted. That each op
keeps it (`FoldOpKeeps`) takes one of two things. In a sync, every body is the shared
one, so nothing diverges even once a binding has been dropped (`SameBodies`). In an
upgrade or a mutation nothing is dropped, so the source still knows what it agreed to
(`StillBound`). The theorem has one hypothesis, `HeldRemove`: no user removes a row
its source does not hold. Without it the property is false (*Removed offer* above).
TLC checked `SelfInv` first, over two and a half million states with three mutations
and refused deletes.

The other assumptions are `SentinelAssumption`, `MergeAssumption`, `RemoteAssumption`,
`ServerAssumption`, `SyncAssumption` and, of what a batch and a minted link id
are, `UpgradeAssumption`: the sentinels are no values of the types
they extend, handles are finitely many naturals, placeholders and forks take
handles the server never assigns (a placeholder is provisional by
`mutate.rs:104-106`, a fork's handle holds a control character,
`sync.rs:753-755`), chunks are not empty.
TLC evaluates them in every run of `Sync`, the last in those of `MCReplica`.
`RelocationAssumption` says the
same of the handles of a move, that a copy gets a handle of its own, that syncs
are full and fork nothing (forks are `Sync`'s matter).

Only model-checked: `Settles` and `Mirrors` (liveness under fairness is out of
the prover's reach), `DeliversOrKeeps` and `PointersHeld` under keep-both,
`CleanOwesNothing` under keep-both beside edits, and beside upgrades (where flags move
beside edits it is false: `demoted_edit`), `RetryKeepsKey`, `MovesSettle` (which needs a server that takes
removes), `LinksUnique` and `MintsInHandleOrder` of `Upgrade`, `CarriesIntent` and
`RebuiltSpineComplete` of `Rekey`, and `OneCopy`, `SettlesConverged` and
`HubKeepsBodies` of `Hub`. The last of `Rekey` would need `SpineInv` to hold again after a rebuild, and it does not: a carried
conflict has the same revision in its base and in its conflict, and a carried base
may pair a revision with another version's body (*Blind rekey*). `Replay` and
`Rekey` run `Sync` beside other actions; what is proved of `Sync` is proved of
`Sync` alone, and of `Sync` beside upgrades and rebuilds where `UpgradeProofs` says so.

## Not modelled

The coroutine protocol (`coroutine.rs`): its argument errors are a driver's bug,
not a behaviour of a correct client. `Open`, which changes nothing. Identifiers,
which are the constants. Reports, events, logs and sort keys, which nothing
branches on. The object table and its collection, but for what `PointersHeld`
reads off the placements. Collisions of the digests. Two writers of one
collection: the storage has to exclude them.

## Plan

1. `RetryKeepsKey`: equal keys have the same handle, kind and target.
   `CleanOwesNothing` beside upgrades.
2. `LinksUnique` over `Upgrade`, `HubKeepsBodies` over `Hub` under manual conflicts,
   `MovesSettle` where the server takes removes.
3. A history of the flags each member has carried, so that a base can be
   checked to be a state the server was in (`IntentKept` compares with the
   base, and does not see a base that moves too far).
