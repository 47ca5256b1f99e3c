--------------------------------- MODULE Merge ---------------------------------
(***************************************************************************)
(* The three-way merge of one candidate (sync.rs, ReplicaSync::merge and   *)
(* everything it calls), as pure operators. A candidate is what one handle *)
(* holds locally and what the remote reports for it; its outcome is what   *)
(* the merge adds to the run:                                              *)
(*   put, dup  the op written for the handle itself, and the fork a        *)
(*             keep-both resolution stages under another handle;           *)
(*   ops       how many write ops that took (a candidate may rewrite its   *)
(*             placement twice in one batch, and the last one wins);       *)
(*   push      the change derived for the remote, if any;                  *)
(*   flag, content, drop, create                                           *)
(*             what the candidate inserts in the run's four pending maps.  *)
(***************************************************************************)
EXTENDS Placement

CONSTANTS
    Keep,             \* no op for this handle in the batch
    KeepBothLink      \* the link id a fork of each body takes

DropReason == {"Deleted", "Superseded"}

Upsert(p)  == [op |-> "UpsertPlacement", row |-> p]
Drop(why)  == [op |-> "DropPlacement", reason |-> why]

ReplicaWriteOp ==
    [op : {"UpsertPlacement"}, row : ReplicaPlacement]
        \cup [op : {"DropPlacement"}, reason : DropReason]

PushKind == {"flags", "content", "add", "remove"}

ReplicaSyncOptions ==
    [push     : BOOLEAN,
     rights   : SUBSET PushKind,
     delete   : {"Revert", "Keep"},
     conflict : {"Manual", "PreferLocal", "PreferRemote", "KeepBoth"},
     full     : BOOLEAN]

(* The master switch, then the per-kind refinement. *)
May(opts, kind) == opts.push /\ kind \in opts.rights

ReplicaRemoteItem == [flags : ReplicaFlags, revision : Opt(Revision)]

ReplicaChange ==
    [kind : {"SetFlags"}, flags : ReplicaFlags]
        \cup [kind : {"Update"}, object : Body, if_match : Opt(Revision)]
        \cup [kind : {"Remove"}, to : Opt(Origin), link_id : Opt(LinkId),
              if_match : Opt(Revision)]
        \cup [kind : {"Add"}, link_id : Opt(LinkId), flags : ReplicaFlags,
              origin : Opt(Origin), object : Opt(Body)]

(* The sentinels again. *)
ASSUME MergeAssumption ==
    /\ None \notin ReplicaRemoteItem
    /\ None \notin ReplicaChange
    /\ Keep \notin ReplicaWriteOp
    /\ KeepBothLink \in [Body -> LinkId]

SetFlags(flags) == [kind |-> "SetFlags", flags |-> flags]

Update(p, if_match) ==
    [kind |-> "Update", object |-> p.object, if_match |-> if_match]

(* Mutant: the remove goes without the key of a move. *)
RemoveUnkeyed(p, if_match) ==
    [kind |-> "Remove", to |-> p.origin, link_id |-> None,
     if_match |-> if_match]

Remove(p, if_match) ==
    [kind |-> "Remove", to |-> p.origin, link_id |-> p.link_id,
     if_match |-> if_match]

Add(p) ==
    [kind |-> "Add", link_id |-> p.link_id, flags |-> p.flags,
     origin |-> p.origin, object |-> p.object]

Outcome ==
    [put : ReplicaWriteOp \cup {Keep}, dup : Opt(ReplicaPlacement), ops : Nat,
     push : Opt(ReplicaChange),
     flag : Opt(ReplicaPlacement), content : Opt(ReplicaPlacement),
     drop : BOOLEAN, create : Opt(ReplicaPlacement)]

Nothing ==
    [put |-> Keep, dup |-> None, ops |-> 0, push |-> None,
     flag |-> None, content |-> None, drop |-> FALSE, create |-> None]

Write(out, op) == [out EXCEPT !.put = op, !.ops = @ + 1]

--------------------------------------------------------------------------------
(* Rewrites of a placement.                                                *)

(* Mutant: the new row is written with no level. *)
PullAddUnleveled(item) ==
    [link_id |-> None, object |-> None, level |-> None, meta |-> None,
     flags |-> item.flags, status |-> "Clean",
     conflict_revision |-> None, conflict_object |-> None,
     base |-> [flags |-> item.flags, revision |-> item.revision,
               object |-> None],
     origin |-> None]

(* pull_add: a member new upstream, or new again over a local delete. *)
PullAdd(item) ==
    [link_id           |-> None,
     object            |-> None,
     level             |-> "Probed",
     meta              |-> None,
     flags             |-> item.flags,
     status            |-> "Clean",
     conflict_revision |-> None,
     conflict_object   |-> None,
     base              |-> [flags |-> item.flags, revision |-> item.revision,
                            object |-> None],
     origin            |-> None]

(* Mutant: the base adopts the new revision and keeps the older body. *)
PullContentKeepsBase(p, item) ==
    [p EXCEPT !.object = None, !.level = "Probed",
              !.base = IF @ = None THEN None
                       ELSE [@ EXCEPT !.revision = item.revision]]

(* pull_content: the stale body goes and the base adopts the new revision; *)
(* status and flags are left to the flag axis.                             *)
PullContent(p, item) ==
    [p EXCEPT !.object = None,
              !.level  = "Probed",
              !.base   = IF @ = None
                         THEN None
                         ELSE [@ EXCEPT !.revision = item.revision,
                                        !.object   = None]]

(* The base with its flag half replaced, made if there is none. *)
FlagBase(p, flags) ==
    [flags    |-> flags,
     revision |-> IF p.base = None THEN None ELSE p.base.revision,
     object   |-> IF p.base = None THEN None ELSE p.base.object]

(* Where the flag axis leaves the status: an unresolved content conflict   *)
(* keeps its own, everything else lands clean.                             *)
FlagStatus(p) == IF p.status = "Conflict" THEN "Conflict" ELSE "Clean"

(* pull_flags: both the current and the base set become `flags`. *)
PullFlags(p, flags) ==
    [p EXCEPT !.flags  = flags,
              !.status = FlagStatus(p),
              !.base   = FlagBase(p, flags)]

(* rebase: the base set becomes `flags`, the current one stays. *)
Rebase(p, flags) ==
    [p EXCEPT !.status = FlagStatus(p),
              !.base   = FlagBase(p, flags)]

(* Mutant: the base adopts the reported revision and keeps the older body. *)
RebaseContentBodiless(p, revision) ==
    LET base == IF p.base = None THEN [flags |-> {}, object |-> None] ELSE p.base
    IN  [p EXCEPT !.status = IF p.flags = base.flags THEN "Clean" ELSE "Dirty",
                  !.base = [flags |-> base.flags, revision |-> revision,
                            object |-> base.object]]

(* rebase_content: an accepted content push. The base pins the pushed body *)
(* and the reported revision and keeps its flags; a tombstone stays one,   *)
(* its edit having pushed ahead of the move.                               *)
RebaseContent(p, revision) ==
    LET flags == IF p.base = None THEN {} ELSE p.base.flags
    IN  [p EXCEPT !.status = IF p.status = "Tombstone" THEN "Tombstone"
                             ELSE IF p.flags = flags THEN "Clean"
                             ELSE "Dirty",
                  !.base = [flags |-> flags, revision |-> revision,
                            object |-> p.object]]

(* Mutant: the base forgets the body the create delivered. *)
RekeyCreateBodiless(p, revision) ==
    [p EXCEPT !.status = "Clean", !.origin = None,
              !.base = [flags |-> p.flags, revision |-> revision,
                        object |-> None]]

(* rekey_create: an accepted create, under its server-assigned handle. *)
RekeyCreate(p, revision) ==
    [p EXCEPT !.status = "Clean",
              !.origin = None,
              !.base   = [flags |-> p.flags, revision |-> revision,
                          object |-> p.object]]

(* An edit whose member the remote deleted, turned back into a create. *)
Resurrect(p) ==
    [p EXCEPT !.status            = "Created",
              !.conflict_revision = None,
              !.conflict_object   = None,
              !.base              = None,
              !.origin            = None]

(* stage_conflict_dup: the local body as a new item of its own. *)
ConflictDup(p) ==
    CreatedPlacement(KeepBothLink[p.object], p.object, "Full", p.meta, p.flags,
                     None)

--------------------------------------------------------------------------------
(* The content axis. It hands the flag axis the row to continue on and the *)
(* outcome so far; a push in it withholds the flag push.                   *)

Continue(p, out) == [row |-> p, out |-> out]

(* mark_conflict *)
MarkConflict(p, item) ==
    LET conflicted == [p EXCEPT !.status            = "Conflict",
                                !.conflict_revision = item.revision,
                                !.conflict_object   = None]
    IN  Continue(conflicted, Write(Nothing, Upsert(conflicted)))

(* Mutant: the conflict drops the stored body and keeps the old revision. *)
TrackConflictStuck(p, item) ==
    LET tracked == [p EXCEPT !.conflict_object = None]
    IN  Continue(tracked, Write(Nothing, Upsert(tracked)))

(* Mutant: the body stored for the older revision is kept. *)
TrackConflictKeepsBody(p, item) ==
    LET tracked == [p EXCEPT !.conflict_revision = item.revision]
    IN  Continue(tracked, Write(Nothing, Upsert(tracked)))

(* A conflict stays one, tracking the revision the remote has moved to;    *)
(* the body stored for the older revision goes with it.                    *)
TrackConflict(p, item) ==
    LET tracked == [p EXCEPT !.conflict_revision = item.revision,
                             !.conflict_object   = None]
    IN  Continue(tracked, Write(Nothing, Upsert(tracked)))

(* Mutant: the flag axis continues on the stale loaded copy. *)
PullRemoteStale(p, item, out) ==
    Continue(p, Write(out, Upsert(PullContent(p, item))))

PullRemote(p, item, out) ==
    LET pulled == PullContent(p, item)
    IN  Continue(pulled, Write(out, Upsert(pulled)))

PushLocal(p, if_match) ==
    Continue(p, [Nothing EXCEPT !.push    = Update(p, if_match),
                                !.content = p])

(* Mutant: the local side is pushed under the stale base revision. *)
ResolveConflictOnBase(p, item, opts) ==
    CASE opts.conflict = "PreferRemote" -> PullRemote(p, item, Nothing)
      [] opts.conflict = "PreferLocal" /\ May(opts, "content") ->
            PushLocal(p, p.base.revision)
      [] opts.conflict = "KeepBoth" ->
            PullRemote(p, item, [Nothing EXCEPT !.dup = ConflictDup(p),
                                                !.ops = 1])
      [] OTHER -> MarkConflict(p, item)

(* Mutant: keep-both pulls the remote side and stages no fork. *)
ResolveConflictForkless(p, item, opts) ==
    CASE opts.conflict \in {"PreferRemote", "KeepBoth"} ->
            PullRemote(p, item, Nothing)
      [] opts.conflict = "PreferLocal" /\ May(opts, "content") ->
            PushLocal(p, item.revision)
      [] OTHER -> MarkConflict(p, item)

(* resolve_conflict: both sides edited a based placement. *)
ResolveConflict(p, item, opts) ==
    CASE opts.conflict = "Manual" -> MarkConflict(p, item)
      [] opts.conflict = "PreferRemote" -> PullRemote(p, item, Nothing)
      [] opts.conflict = "PreferLocal" ->
            IF May(opts, "content") THEN PushLocal(p, item.revision)
                                    ELSE MarkConflict(p, item)
      [] opts.conflict = "KeepBoth" ->
            PullRemote(p, item, [Nothing EXCEPT !.dup = ConflictDup(p),
                                                !.ops = 1])

(* A revision the remote reports that the base does not hold. *)
Diverges(item, revision) == item.revision # None /\ item.revision # revision

(* reconcile_content *)
ReconcileContent(p, item, opts) ==
    LET local_changed  == p.status = "Dirty" /\ p.object # None
                                             /\ p.object # p.base.object
        remote_changed == Diverges(item, p.base.revision)
        untouched      == Continue(p, Nothing)
    IN  CASE p.base = None ->
               IF p.object # None /\ item.revision # None
               THEN MarkConflict(p, item) ELSE untouched
          [] p.base # None /\ p.status = "Conflict" ->
               IF Diverges(item, p.conflict_revision)
               THEN TrackConflict(p, item) ELSE untouched
          [] OTHER ->
               IF local_changed
               THEN IF remote_changed THEN ResolveConflict(p, item, opts)
                    ELSE IF May(opts, "content")
                         THEN PushLocal(p, p.base.revision) ELSE untouched
               ELSE IF remote_changed THEN PullRemote(p, item, Nothing)
                    ELSE untouched

--------------------------------------------------------------------------------
(* Mutant: the flag axis derives its push over the content axis's. *)
ReconcileFlagsUnwithheld(p, item, out, opts) ==
    LET merged  == MergeFlags(p.base.flags, p.flags, item.flags)
        updated == [p EXCEPT !.flags = merged]
    IN  CASE p.base = None ->
               Write(out, Upsert(PullFlags(p, item.flags)))
          [] p.base # None /\ merged # item.flags /\ May(opts, "flags") ->
               [out EXCEPT !.push = SetFlags(merged), !.flag = updated]
          [] p.base # None /\ merged = item.flags /\ merged # p.flags ->
               Write(out, Upsert(PullFlags(p, merged)))
          [] OTHER -> out

(* Mutant: the flag axis is skipped once the content axis has settled. *)
ReconcileFlagsSkipped(p, item, out, opts) ==
    IF out # Nothing THEN out ELSE ReconcileFlagsUnwithheld(p, item, out, opts)

(* Mutant: the base adopts the merged flags before the push confirms. *)
ReconcileFlagsEagerly(p, item, out, opts) ==
    LET merged  == MergeFlags(p.base.flags, p.flags, item.flags)
        updated == [p EXCEPT !.flags = merged]
    IN  CASE p.base = None ->
               Write(out, Upsert(PullFlags(p, item.flags)))
          [] p.base # None /\ merged # item.flags ->
               [Write(out, Upsert(PullFlags(p, merged)))
                    EXCEPT !.push = SetFlags(merged), !.flag = updated]
          [] OTHER -> Write(out, Upsert(PullFlags(p, merged)))

(* The flag axis: reconcile_flags, on the row and outcome the content axis *)
(* left.                                                                   *)
ReconcileFlags(p, item, out, opts) ==
    LET merged  == MergeFlags(p.base.flags, p.flags, item.flags)
        pull    == merged # p.flags
        push    == merged # item.flags
        staged  == p.object # None /\ p.base.object # p.object
        updated == [p EXCEPT !.flags = merged]
        folded  == IF pull THEN Write(out, Upsert(updated)) ELSE out
    IN  CASE p.base = None ->
               Write(out, Upsert(PullFlags(p, item.flags)))
          [] p.base # None /\ ~pull /\ ~push ->
               IF p.flags # p.base.flags \/ (p.status = "Dirty" /\ ~staged)
               THEN Write(out, Upsert(Rebase(p, merged))) ELSE out
          [] p.base # None /\ pull /\ ~push ->
               Write(out, Upsert(PullFlags(p, merged)))
          [] p.base # None /\ push ->
               IF out.push # None \/ ~May(opts, "flags")
               THEN folded
               ELSE [folded EXCEPT !.push = SetFlags(merged),
                                   !.flag = updated]

--------------------------------------------------------------------------------
(* refuse_delete: a local delete this source will not take. *)
RefuseDelete(p, opts) ==
    IF opts.delete = "Revert"
    THEN Write(Nothing, Upsert([p EXCEPT !.status = "Clean"]))
    ELSE Nothing

(* Mutant: the placement is dropped before the remote confirms. *)
MergeTombstoneDropped(p, item, opts) ==
    CASE Diverges(item, p.base.revision) ->
            Write(Nothing, Upsert(PullAdd(item)))
      [] OTHER ->
            [Write(Nothing, Drop("Deleted"))
                EXCEPT !.push = Remove(p, p.base.revision), !.drop = TRUE]

(* Mutant: the move goes out at once, its staged edit left behind. *)
MergeTombstoneEditless(p, item, opts) ==
    CASE Diverges(item, p.base.revision) ->
            Write(Nothing, Upsert(PullAdd(item)))
      [] OTHER ->
            IF May(opts, "remove")
            THEN [Nothing EXCEPT !.push = Remove(p, p.base.revision),
                                 !.drop = TRUE]
            ELSE RefuseDelete(p, opts)

(* Mutant: a remote edit does not win over the delete. *)
MergeTombstoneBlind(p, item, opts) ==
    IF May(opts, "remove")
    THEN [Nothing EXCEPT !.push = Remove(p, p.base.revision), !.drop = TRUE]
    ELSE RefuseDelete(p, opts)

(* A local delete or move of a member both sides knew. *)
MergeTombstone(p, item, opts) ==
    CASE Diverges(item, p.base.revision) ->
            Write(Nothing, Upsert(PullAdd(item)))
      [] ~Diverges(item, p.base.revision) /\ StagedEdit(p) /\ p.origin # None ->
            IF May(opts, "content")
            THEN [Nothing EXCEPT !.push    = Update(p, p.base.revision),
                                 !.content = p]
            ELSE RefuseDelete(p, opts)
      [] OTHER ->
            IF May(opts, "remove")
            THEN [Nothing EXCEPT !.push = Remove(p, p.base.revision),
                                 !.drop = TRUE]
            ELSE RefuseDelete(p, opts)

(* A live, based placement the remote no longer holds: a staged edit comes *)
(* back as a create, anything else goes.                                   *)
MergeVanished(p, opts) ==
    LET edited  == p.status \in {"Dirty", "Conflict"} /\ StagedEdit(p)
        revived == Resurrect(p)
    IN  IF ~edited
        THEN Write(Nothing, Drop("Deleted"))
        ELSE IF May(opts, "add")
             THEN [Write(Nothing, Upsert(revived))
                       EXCEPT !.push = Add(revived), !.create = revived]
             ELSE Write(Nothing, Upsert(revived))

(* A live placement the remote never held. *)
MergeCreated(p, opts) ==
    IF May(opts, "add") /\ p.status = "Created"
    THEN [Nothing EXCEPT !.push = Add(p), !.create = p]
    ELSE Nothing

MergeBoth(p, item, opts) ==
    LET content == ReconcileContent(p, item, opts)
    IN  ReconcileFlags(content.row, item, content.out, opts)

(* ReplicaSync::merge, over (local present, based, remote present). *)
MergeCandidate(p, item, opts) ==
    LET tombstone == p # None /\ p.status = "Tombstone"
        present   == p # None /\ p.status # "Tombstone"
        based     == p # None /\ p.base # None
    IN  CASE tombstone /\ based /\ item # None -> MergeTombstone(p, item, opts)
          [] tombstone /\ item = None -> Write(Nothing, Drop("Deleted"))
          [] present /\ based /\ item = None -> MergeVanished(p, opts)
          [] ~present /\ ~based /\ item # None ->
                Write(Nothing, Upsert(PullAdd(item)))
          [] present /\ item # None -> MergeBoth(p, item, opts)
          [] present /\ ~based /\ item = None -> MergeCreated(p, opts)
          [] OTHER -> Nothing

--------------------------------------------------------------------------------
(* Merge::narrow: what a delta makes of a handle. The base of a non-clean  *)
(* placement the delta never mentions stands in for the remote.            *)

(* Mutant: a delta merges what it lists and nothing else. *)
IsListed(p, item, vanished) == vanished \/ item # None

IsCandidate(p, item, vanished) ==
    vanished \/ item # None \/ (p # None /\ p.status # "Clean")

StandIn(p) ==
    IF p.base = None
    THEN None
    ELSE [flags    |-> p.base.flags,
          revision |-> IF p.conflict_revision # None
                       THEN p.conflict_revision ELSE p.base.revision]

NarrowedItem(p, item, vanished) ==
    IF vanished THEN None ELSE IF item # None THEN item ELSE StandIn(p)

================================================================================
