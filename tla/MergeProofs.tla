------------------------------ MODULE MergeProofs ------------------------------
(***************************************************************************)
(* What one candidate's merge yields, whatever the flags, bodies, links    *)
(* and options: a well-typed outcome, whose change and pending map agree,  *)
(* and which derives only what the options and the row allow.              *)
(***************************************************************************)
EXTENDS Merge, Mutation, TLAPS

USE DEF Opt, Revision

(* A merged flag set is a flag set, known as soon as one side is           *)
(* (placement.rs, ReplicaFlags::merge).                                    *)
LEMMA MergeFlagsType ==
    ASSUME NEW base \in ReplicaFlags, NEW local \in ReplicaFlags,
           NEW remote \in ReplicaFlags
    PROVE  MergeFlags(base, local, remote) \in ReplicaFlags
BY DEF MergeFlags, ReplicaFlags

(* The merge is element-wise and never loses a change: a marker the local  *)
(* side flipped since the base keeps its local presence, any other takes   *)
(* the remote's, and the merge of two sides that agree is what they agree  *)
(* on (placement.rs, ReplicaFlags::merge: "the side that changed a flag's  *)
(* presence from the base wins for it").                                   *)
THEOREM MergeFlagsElementwise ==
    ASSUME NEW base \in SUBSET Flag, NEW local \in SUBSET Flag,
           NEW remote \in SUBSET Flag
    PROVE  /\ \A f \in Flag : f \in MergeFlags(base, local, remote) <=>
                 IF f \in local <=> f \in base THEN f \in remote
                                              ELSE f \in local
           /\ MergeFlags(base, local, remote) = MergeFlags(base, remote, local)
           /\ MergeFlags(base, local, base) = local
           /\ MergeFlags(base, local, local) = local
<1>1. base # Unknown /\ local # Unknown /\ remote # Unknown
    BY SentinelAssumption
<1> QED BY <1>1 DEF MergeFlags

(* The rewrites of a placement yield placements (sync.rs, pull_add to      *)
(* rekey_create).                                                          *)
LEMMA PullAddType ==
    ASSUME NEW item \in ReplicaRemoteItem
    PROVE  PullAdd(item) \in ReplicaPlacement
BY DEF PullAdd, ReplicaRemoteItem, ReplicaPlacement, ReplicaBase,
       ReplicaLevel, ReplicaStatus

LEMMA PullContentType ==
    ASSUME NEW p \in ReplicaPlacement, NEW item \in ReplicaRemoteItem
    PROVE  PullContent(p, item) \in ReplicaPlacement
<1> DEFINE base == IF p.base = None THEN None
                   ELSE [p.base EXCEPT !.revision = item.revision,
                                       !.object   = None]
<1>1. base \in Opt(ReplicaBase)
    BY DEF ReplicaRemoteItem, ReplicaPlacement, ReplicaBase
<1>2. PullContent(p, item) = [p EXCEPT !.object = None, !.level = "Probed",
                                       !.base = base]
    BY DEF PullContent, ReplicaPlacement
<1> HIDE DEF base
<1>3. [p EXCEPT !.object = None, !.level = "Probed", !.base = base]
        \in ReplicaPlacement
    BY <1>1 DEF ReplicaPlacement, ReplicaLevel
<1> QED BY <1>2, <1>3, Zenon

LEMMA FlagBaseType ==
    ASSUME NEW p \in ReplicaPlacement, NEW flags \in ReplicaFlags
    PROVE  FlagBase(p, flags) \in ReplicaBase
BY DEF FlagBase, ReplicaPlacement, ReplicaBase

LEMMA FlagRewriteType ==
    ASSUME NEW p \in ReplicaPlacement, NEW flags \in ReplicaFlags
    PROVE  /\ PullFlags(p, flags) \in ReplicaPlacement
           /\ Rebase(p, flags) \in ReplicaPlacement
<1>1. FlagBase(p, flags) \in ReplicaBase
    BY FlagBaseType
<1>2. FlagStatus(p) \in ReplicaStatus
    BY DEF FlagStatus, ReplicaStatus
<1>3. PullFlags(p, flags) \in ReplicaPlacement
    BY <1>1, <1>2 DEF PullFlags, ReplicaPlacement
<1>4. Rebase(p, flags) \in ReplicaPlacement
    BY <1>1, <1>2 DEF Rebase, ReplicaPlacement
<1> QED BY <1>3, <1>4

LEMMA RebaseContentType ==
    ASSUME NEW p \in ReplicaPlacement, NEW revision \in Opt(Revision)
    PROVE  RebaseContent(p, revision) \in ReplicaPlacement
<1> DEFINE flags == IF p.base = None THEN {} ELSE p.base.flags
<1>1. flags \in ReplicaFlags
    BY DEF ReplicaPlacement, ReplicaBase, ReplicaFlags
<1>2. [flags |-> flags, revision |-> revision, object |-> p.object] \in ReplicaBase
    BY <1>1 DEF ReplicaPlacement, ReplicaBase
<1> HIDE DEF flags
<1>3. \A status \in ReplicaStatus, base \in ReplicaBase :
        [p EXCEPT !.status = status, !.base = base] \in ReplicaPlacement
    BY DEF ReplicaPlacement
<1>4. (IF p.status = "Tombstone" THEN "Tombstone"
       ELSE IF p.flags = flags THEN "Clean" ELSE "Dirty") \in ReplicaStatus
    BY DEF ReplicaStatus
<1> QED BY <1>2, <1>3, <1>4 DEF RebaseContent, flags

LEMMA RekeyCreateType ==
    ASSUME NEW p \in ReplicaPlacement, NEW revision \in Opt(Revision)
    PROVE  RekeyCreate(p, revision) \in ReplicaPlacement
BY DEF RekeyCreate, ReplicaPlacement, ReplicaStatus, ReplicaBase

LEMMA ResurrectType ==
    ASSUME NEW p \in ReplicaPlacement
    PROVE  Resurrect(p) \in ReplicaPlacement
BY DEF Resurrect, ReplicaPlacement, ReplicaStatus

LEMMA CreatedType ==
    ASSUME NEW link \in Opt(LinkId), NEW object \in Opt(Body),
           NEW level \in ReplicaLevel, NEW meta \in Opt(ReplicaMeta),
           NEW flags \in ReplicaFlags, NEW origin \in Opt(Origin)
    PROVE  CreatedPlacement(link, object, level, meta, flags, origin)
                \in ReplicaPlacement
BY DEF CreatedPlacement, ReplicaPlacement, ReplicaStatus

LEMMA ConflictDupType ==
    ASSUME NEW p \in ReplicaPlacement, p.object # None
    PROVE  ConflictDup(p) \in ReplicaPlacement
<1>1. p.object \in Body /\ p.flags \in ReplicaFlags /\ p.meta \in Opt(ReplicaMeta)
    BY DEF ReplicaPlacement
<1>2. KeepBothLink[p.object] \in LinkId
    BY <1>1, MergeAssumption
<1> QED BY <1>1, <1>2, CreatedType DEF ConflictDup, ReplicaLevel

(* ReplicaMutation::Edit. *)
LEMMA EditType ==
    ASSUME NEW p \in ReplicaPlacement, NEW object \in Body,
           NEW meta \in Opt(ReplicaMeta)
    PROVE  EditMutation(p, object, meta) \in ReplicaPlacement
<1> DEFINE resolving == p.status = "Conflict"
           settled   == [flags    |-> IF p.base = None THEN p.flags
                                      ELSE p.base.flags,
                         revision |-> p.conflict_revision,
                         object   |-> p.conflict_object]
           base      == IF resolving THEN settled ELSE p.base
           staged    == IF base = None THEN TRUE ELSE base.object # object
<1>1. settled \in ReplicaBase
    BY DEF ReplicaPlacement, ReplicaBase
<1>2. base \in Opt(ReplicaBase)
    BY <1>1 DEF ReplicaPlacement
<1>3. \A b \in Opt(ReplicaBase), r \in Opt(Revision), o \in Opt(Body),
         status \in ReplicaStatus, m \in Opt(ReplicaMeta) :
        [p EXCEPT !.object = object, !.level = "Full", !.meta = m, !.base = b,
                  !.conflict_revision = r, !.conflict_object = o,
                  !.status = status] \in ReplicaPlacement
    BY DEF ReplicaPlacement, ReplicaLevel
<1> DEFINE status   == IF p.status # "Created" /\ (staged \/ resolving)
                       THEN "Dirty" ELSE p.status
           summary  == IF meta = None THEN p.meta ELSE meta
           revision == IF resolving THEN None ELSE p.conflict_revision
           body     == IF resolving THEN None ELSE p.conflict_object
<1>4. status \in ReplicaStatus /\ summary \in Opt(ReplicaMeta)
    BY DEF ReplicaPlacement, ReplicaStatus
<1>5. revision \in Opt(Revision) /\ body \in Opt(Body)
    BY DEF ReplicaPlacement
<1>6. EditMutation(p, object, meta) =
        [p EXCEPT !.object = object, !.level = "Full", !.meta = summary,
                  !.base = base,
                  !.conflict_revision = revision,
                  !.conflict_object = body, !.status = status]
    BY DEF EditMutation, ReplicaPlacement
<1> HIDE DEF resolving, settled, base, staged, status, summary, revision, body
<1>7. [p EXCEPT !.object = object, !.level = "Full", !.meta = summary,
                !.base = base,
                !.conflict_revision = revision,
                !.conflict_object = body, !.status = status]
        \in ReplicaPlacement
    BY <1>2, <1>3, <1>4, <1>5, Zenon
<1> QED BY <1>6, <1>7, Zenon

--------------------------------------------------------------------------------
(* The pending map a candidate enters is the one of the change it derives. *)
Agrees(out) ==
    /\ out.flag # None <=> out.push # None /\ out.push.kind = "SetFlags"
    /\ out.content # None <=> out.push # None /\ out.push.kind = "Update"
    /\ out.drop = TRUE <=> out.push # None /\ out.push.kind = "Remove"
    /\ out.create # None <=> out.push # None /\ out.push.kind = "Add"

Sound(out) == out \in Outcome /\ Agrees(out)

(* An outcome that writes and derives nothing, and one that writes again.  *)
LEMMA OpTypes ==
    /\ \A p \in ReplicaPlacement : Upsert(p) \in ReplicaWriteOp
    /\ \A why \in DropReason : Drop(why) \in ReplicaWriteOp
BY DEF Upsert, Drop, ReplicaWriteOp

LEMMA NothingSound == Sound(Nothing)
BY DEF Sound, Agrees, Nothing, Outcome

LEMMA WriteSound ==
    ASSUME NEW out, Sound(out), NEW op \in ReplicaWriteOp
    PROVE  Sound(Write(out, op)) /\ Write(out, op).push = out.push
<1> DEFINE new == Write(out, op)
<1>1. out \in Outcome
    BY DEF Sound
<1>2. \A n \in Nat : [out EXCEPT !.put = op, !.ops = n] \in Outcome
    BY <1>1 DEF Outcome
<1>3. out.ops + 1 \in Nat
    BY <1>1 DEF Outcome
<1>4. new = [out EXCEPT !.put = op, !.ops = out.ops + 1]
    BY <1>1 DEF Write, Outcome
<1>5. new \in Outcome
    BY <1>2, <1>3, <1>4
<1>6. /\ new.push = out.push /\ new.flag = out.flag
      /\ new.content = out.content /\ new.drop = out.drop
      /\ new.create = out.create
    BY <1>1 DEF Write, Outcome
<1> HIDE DEF new
<1>7. Agrees(out) => Agrees(new)
    BY <1>6 DEF Agrees
<1> QED BY <1>5, <1>6, <1>7 DEF Sound, new

(* The four ways a change is derived, on an outcome that has none.         *)
LEMMA PushSound ==
    ASSUME NEW out, Sound(out), out.push = None,
           NEW p \in ReplicaPlacement
    PROVE  /\ \A flags \in ReplicaFlags :
                 Sound([out EXCEPT !.push = SetFlags(flags), !.flag = p])
           /\ \A if_match \in Opt(Revision) : p.object # None =>
                 Sound([out EXCEPT !.push = Update(p, if_match), !.content = p])
           /\ \A if_match \in Opt(Revision) :
                 Sound([out EXCEPT !.push = Remove(p, if_match), !.drop = TRUE])
           /\ Sound([out EXCEPT !.push = Add(p), !.create = p])
<1>1. \A flags \in ReplicaFlags : SetFlags(flags) \in ReplicaChange
    BY DEF SetFlags, ReplicaChange
<1>2. \A if_match \in Opt(Revision) : p.object # None =>
         Update(p, if_match) \in ReplicaChange
    BY DEF Update, ReplicaChange, ReplicaPlacement
<1>3. \A if_match \in Opt(Revision) : Remove(p, if_match) \in ReplicaChange
    BY DEF Remove, ReplicaChange, ReplicaPlacement
<1>4. Add(p) \in ReplicaChange
    BY DEF Add, ReplicaChange, ReplicaPlacement
<1>5. p # None /\ \A change \in ReplicaChange : change # None
    BY SentinelAssumption, MergeAssumption
<1>6. ASSUME NEW change \in ReplicaChange, change.kind = "SetFlags"
      PROVE  Sound([out EXCEPT !.push = change, !.flag = p])
    BY <1>5, <1>6 DEF Sound, Agrees, Outcome
<1>7. ASSUME NEW change \in ReplicaChange, change.kind = "Update"
      PROVE  Sound([out EXCEPT !.push = change, !.content = p])
    BY <1>5, <1>7 DEF Sound, Agrees, Outcome
<1>8. ASSUME NEW change \in ReplicaChange, change.kind = "Remove"
      PROVE  Sound([out EXCEPT !.push = change, !.drop = TRUE])
    BY <1>5, <1>8 DEF Sound, Agrees, Outcome
<1>9. ASSUME NEW change \in ReplicaChange, change.kind = "Add"
      PROVE  Sound([out EXCEPT !.push = change, !.create = p])
    BY <1>5, <1>9 DEF Sound, Agrees, Outcome
<1> QED
    BY <1>1, <1>2, <1>3, <1>4, <1>6, <1>7, <1>8, <1>9
       DEF SetFlags, Update, Remove, Add

--------------------------------------------------------------------------------
(* The content axis.                                                       *)

SoundContent(c) == c.row \in ReplicaPlacement /\ Sound(c.out)

LEMMA MarkSound ==
    ASSUME NEW p \in ReplicaPlacement, NEW item \in ReplicaRemoteItem
    PROVE  /\ SoundContent(MarkConflict(p, item))
           /\ SoundContent(TrackConflict(p, item))
<1> DEFINE marked  == [p EXCEPT !.status            = "Conflict",
                                !.conflict_revision = item.revision,
                                !.conflict_object   = None]
           tracked == [p EXCEPT !.conflict_revision = item.revision,
                                !.conflict_object   = None]
<1>1. marked \in ReplicaPlacement /\ tracked \in ReplicaPlacement
    BY DEF ReplicaPlacement, ReplicaRemoteItem, ReplicaStatus
<1> HIDE DEF marked, tracked
<1>2. /\ Sound(Write(Nothing, Upsert(marked)))
      /\ Sound(Write(Nothing, Upsert(tracked)))
    BY <1>1, OpTypes, NothingSound, WriteSound
<1> QED
    BY <1>1, <1>2 DEF SoundContent, Continue, MarkConflict, TrackConflict,
                      marked, tracked

LEMMA PullRemoteSound ==
    ASSUME NEW p \in ReplicaPlacement, NEW item \in ReplicaRemoteItem,
           NEW out, Sound(out)
    PROVE  SoundContent(PullRemote(p, item, out))
BY PullContentType, OpTypes, WriteSound DEF SoundContent, Continue, PullRemote

LEMMA PushLocalSound ==
    ASSUME NEW p \in ReplicaPlacement, p.object # None,
           NEW if_match \in Opt(Revision)
    PROVE  SoundContent(PushLocal(p, if_match))
<1>1. Nothing.push = None
    BY DEF Nothing
<1> QED
    BY <1>1, NothingSound, PushSound DEF SoundContent, Continue, PushLocal

LEMMA ResolveSound ==
    ASSUME NEW p \in ReplicaPlacement, NEW item \in ReplicaRemoteItem,
           NEW opts \in ReplicaSyncOptions, p.object # None
    PROVE  SoundContent(ResolveConflict(p, item, opts))
<1> DEFINE forked == [Nothing EXCEPT !.dup = ConflictDup(p), !.ops = 1]
<1>1. item.revision \in Opt(Revision)
    BY DEF ReplicaRemoteItem
<1>2. opts.conflict \in {"Manual", "PreferLocal", "PreferRemote", "KeepBoth"}
    BY DEF ReplicaSyncOptions
<1>3. Sound(forked)
    BY ConflictDupType, NothingSound DEF Sound, Agrees, Nothing, Outcome
<1> HIDE DEF forked
<1>4. CASE opts.conflict = "Manual"
    BY <1>4, MarkSound DEF ResolveConflict
<1>5. CASE opts.conflict = "PreferRemote"
    BY <1>5, PullRemoteSound, NothingSound DEF ResolveConflict
<1>6. CASE opts.conflict = "PreferLocal"
    BY <1>1, <1>6, PushLocalSound, MarkSound DEF ResolveConflict
<1>7. CASE opts.conflict = "KeepBoth"
    BY <1>3, <1>7, PullRemoteSound DEF ResolveConflict, forked
<1> QED BY <1>2, <1>4, <1>5, <1>6, <1>7

LEMMA ReconcileContentSound ==
    ASSUME NEW p \in ReplicaPlacement, NEW item \in ReplicaRemoteItem,
           NEW opts \in ReplicaSyncOptions
    PROVE  SoundContent(ReconcileContent(p, item, opts))
<1>1. SoundContent(Continue(p, Nothing))
    BY NothingSound DEF SoundContent, Continue
<1>2. CASE p.base = None
    BY <1>1, <1>2, MarkSound DEF ReconcileContent
<1>3. CASE p.base # None /\ p.status = "Conflict"
    BY <1>1, <1>3, MarkSound DEF ReconcileContent
<1>4. CASE p.base # None /\ p.status # "Conflict"
    <2>1. p.base.revision \in Opt(Revision)
        BY <1>4 DEF ReplicaPlacement, ReplicaBase
    <2> QED
        BY <1>1, <1>4, <2>1, ResolveSound, PushLocalSound, PullRemoteSound,
           NothingSound DEF ReconcileContent
<1> QED BY <1>2, <1>3, <1>4

--------------------------------------------------------------------------------
(* The flag axis, and the candidate as a whole.                            *)

LEMMA ReconcileFlagsSound ==
    ASSUME NEW p \in ReplicaPlacement, NEW item \in ReplicaRemoteItem,
           NEW opts \in ReplicaSyncOptions, NEW out, Sound(out)
    PROVE  Sound(ReconcileFlags(p, item, out, opts))
<1> DEFINE merged  == MergeFlags(p.base.flags, p.flags, item.flags)
           updated == [p EXCEPT !.flags = merged]
           folded  == IF merged # p.flags THEN Write(out, Upsert(updated))
                      ELSE out
<1>1. p.flags \in ReplicaFlags /\ item.flags \in ReplicaFlags
    BY DEF ReplicaPlacement, ReplicaRemoteItem
<1>2. CASE p.base = None
    BY <1>1, <1>2, FlagRewriteType, OpTypes, WriteSound DEF ReconcileFlags
<1>3. CASE p.base # None
    <2>1. p.base.flags \in ReplicaFlags
        BY <1>3 DEF ReplicaPlacement, ReplicaBase
    <2>2. merged \in ReplicaFlags
        BY <1>1, <2>1, MergeFlagsType
    <2> HIDE DEF merged
    <2>3. updated \in ReplicaPlacement
        BY <2>2 DEF ReplicaPlacement
    <2> HIDE DEF updated
    <2>4. Sound(folded) /\ folded.push = out.push
        BY <2>3, OpTypes, WriteSound
    <2> HIDE DEF folded
    <2>5. CASE merged # item.flags
        <3>1. out.push = None =>
                Sound([folded EXCEPT !.push = SetFlags(merged), !.flag = updated])
            BY <2>2, <2>3, <2>4, PushSound
        <3> QED
            BY <1>3, <2>4, <2>5, <3>1
               DEF ReconcileFlags, merged, updated, folded
    <2>6. CASE merged = item.flags
        <3>1. /\ Sound(Write(out, Upsert(PullFlags(p, merged))))
              /\ Sound(Write(out, Upsert(Rebase(p, merged))))
            BY <2>2, FlagRewriteType, OpTypes, WriteSound
        <3> QED BY <1>3, <2>6, <3>1 DEF ReconcileFlags, merged
    <2> QED BY <2>5, <2>6
<1> QED BY <1>2, <1>3

LEMMA RefuseDeleteSound ==
    ASSUME NEW p \in ReplicaPlacement, NEW opts \in ReplicaSyncOptions
    PROVE  Sound(RefuseDelete(p, opts))
<1>1. [p EXCEPT !.status = "Clean"] \in ReplicaPlacement
    BY DEF ReplicaPlacement, ReplicaStatus
<1> QED BY <1>1, OpTypes, NothingSound, WriteSound DEF RefuseDelete

LEMMA MergeTombstoneSound ==
    ASSUME NEW p \in ReplicaPlacement, p.base # None,
           NEW item \in ReplicaRemoteItem, NEW opts \in ReplicaSyncOptions
    PROVE  Sound(MergeTombstone(p, item, opts))
<1>1. p.base.revision \in Opt(Revision)
    BY DEF ReplicaPlacement, ReplicaBase
<1>2. Nothing.push = None
    BY DEF Nothing
<1>3. CASE Diverges(item, p.base.revision)
    BY <1>3, PullAddType, OpTypes, NothingSound, WriteSound DEF MergeTombstone
<1>4. CASE ~Diverges(item, p.base.revision) /\ StagedEdit(p) /\ p.origin # None
    <2>1. p.object # None
        BY <1>4 DEF StagedEdit
    <2> QED
        BY <1>1, <1>2, <1>4, <2>1, NothingSound, PushSound, RefuseDeleteSound
           DEF MergeTombstone
<1>5. CASE ~Diverges(item, p.base.revision) /\ ~(StagedEdit(p) /\ p.origin # None)
    BY <1>1, <1>2, <1>5, NothingSound, PushSound, RefuseDeleteSound
       DEF MergeTombstone
<1> QED BY <1>3, <1>4, <1>5

LEMMA MergeVanishedSound ==
    ASSUME NEW p \in ReplicaPlacement, NEW opts \in ReplicaSyncOptions
    PROVE  Sound(MergeVanished(p, opts))
<1> DEFINE revived == Resurrect(p)
           staged  == Write(Nothing, Upsert(revived))
<1>1. Sound(Write(Nothing, Drop("Deleted")))
    BY OpTypes, NothingSound, WriteSound DEF DropReason
<1>2. revived \in ReplicaPlacement
    BY ResurrectType
<1> HIDE DEF revived
<1>3. Sound(staged) /\ staged.push = None
    BY <1>2, OpTypes, NothingSound, WriteSound DEF Nothing
<1> HIDE DEF staged
<1>4. Sound([staged EXCEPT !.push = Add(revived), !.create = revived])
    BY <1>2, <1>3, PushSound
<1> QED BY <1>1, <1>3, <1>4 DEF MergeVanished, revived, staged

LEMMA MergeCreatedSound ==
    ASSUME NEW p \in ReplicaPlacement, NEW opts \in ReplicaSyncOptions
    PROVE  Sound(MergeCreated(p, opts))
<1>1. Nothing.push = None
    BY DEF Nothing
<1> QED BY <1>1, NothingSound, PushSound DEF MergeCreated

(* Whatever a handle holds on either side and whatever the options, its    *)
(* merge yields a well-typed outcome that derives at most one change, and  *)
(* enters the pending map of that change and no other (sync.rs, merge).    *)
THEOREM MergeCandidateSound ==
    ASSUME NEW p \in Opt(ReplicaPlacement), NEW item \in Opt(ReplicaRemoteItem),
           NEW opts \in ReplicaSyncOptions
    PROVE  Sound(MergeCandidate(p, item, opts))
<1>1. p = None \/ p \in ReplicaPlacement
    OBVIOUS
<1>2. item = None \/ item \in ReplicaRemoteItem
    OBVIOUS
<1>3. Sound(Write(Nothing, Drop("Deleted")))
    BY OpTypes, NothingSound, WriteSound DEF DropReason
<1>4. item # None => Sound(Write(Nothing, Upsert(PullAdd(item))))
    BY <1>2, PullAddType, OpTypes, NothingSound, WriteSound
<1>5. p # None /\ item # None => Sound(MergeBoth(p, item, opts))
    BY <1>1, <1>2, ReconcileContentSound, ReconcileFlagsSound
       DEF MergeBoth, SoundContent
<1>6. CASE p = None
    BY <1>4, <1>6, NothingSound DEF MergeCandidate
<1>7. CASE p # None /\ p.status = "Tombstone"
    BY <1>1, <1>2, <1>3, <1>4, <1>7, NothingSound, MergeTombstoneSound
       DEF MergeCandidate
<1>8. CASE p # None /\ p.status # "Tombstone"
    BY <1>1, <1>2, <1>5, <1>8, NothingSound, MergeVanishedSound,
       MergeCreatedSound DEF MergeCandidate
<1> QED BY <1>6, <1>7, <1>8

--------------------------------------------------------------------------------
(* What the options allow, and what becomes of a delete.                   *)

(* A row a merge makes of p is live; it has no identity but the one of p,  *)
(* and names an origin only as p did, as a create only of a create.        *)
Heir(q, p) ==
    q # None =>
        /\ q.status # "Tombstone"
        /\ q.link_id # None => p # None /\ q.link_id = p.link_id
        /\ q.origin # None =>
              /\ p # None /\ q.origin = p.origin /\ q.link_id = p.link_id
              /\ q.status = "Created" => p.status = "Created"

(* A change is one the options allow; only a based tombstone is removed,   *)
(* under its base's revision, and moved only once its edit is pushed; no   *)
(* row is staged for deletion, or as half of a move, but by the user.      *)
Derives(out, p, opts) ==
    /\ out.push # None =>
          /\ out.push.kind = "SetFlags" => May(opts, "flags")
          /\ out.push.kind = "Update"   => May(opts, "content")
          /\ out.push.kind = "Add"      =>
                /\ May(opts, "add")
                /\ out.push.origin # None =>
                      /\ p # None /\ p.status = "Created"
                      /\ out.push.origin = p.origin
          /\ out.push.kind = "Remove"   =>
                /\ May(opts, "remove")
                /\ p # None /\ p.status = "Tombstone" /\ p.base # None
                /\ out.push.if_match = p.base.revision
                /\ out.push.to = p.origin /\ out.push.link_id = p.link_id
                /\ p.origin # None => ~StagedEdit(p)
    /\ (out.put # Keep /\ out.put.op = "UpsertPlacement") =>
          Heir(out.put.row, p)
    /\ Heir(out.flag, p) /\ Heir(out.create, p)
    /\ out.content \in {None, p}

LEMMA NothingDerives ==
    ASSUME NEW p, NEW opts
    PROVE  Derives(Nothing, p, opts)
BY DEF Derives, Nothing, Heir

(* A write adds no change. *)
LEMMA WriteDerives ==
    ASSUME NEW p, NEW opts, NEW out, Sound(out), Derives(out, p, opts)
    PROVE  /\ \A q \in ReplicaPlacement : Heir(q, p) =>
                 Derives(Write(out, Upsert(q)), p, opts)
           /\ \A why \in DropReason : Derives(Write(out, Drop(why)), p, opts)
<1>1. out \in Outcome
    BY DEF Sound
<1>2. ASSUME NEW op
      PROVE  LET new == Write(out, op)
             IN  /\ new.put = op /\ new.push = out.push /\ new.flag = out.flag
                 /\ new.content = out.content /\ new.create = out.create
    BY <1>1 DEF Write, Outcome
<1>3. ASSUME NEW op, op.op = "UpsertPlacement" => Heir(op.row, p)
      PROVE  Derives(Write(out, op), p, opts)
    <2> DEFINE new == Write(out, op)
    <2>1. /\ new.put = op /\ new.push = out.push /\ new.flag = out.flag
          /\ new.content = out.content /\ new.create = out.create
        BY <1>2
    <2> HIDE DEF new
    <2>2. Derives(new, p, opts)
        BY <1>3, <2>1 DEF Derives
    <2> QED BY <2>2 DEF new
<1>4. \A q : Upsert(q).row = q
    BY DEF Upsert
<1>5. \A why : Drop(why).op # "UpsertPlacement"
    BY DEF Drop
<1> QED BY <1>3, <1>4, <1>5

(* The content axis of a live row: it stays live. *)
LiveContent(c, p, opts) ==
    /\ SoundContent(c) /\ Heir(c.row, p)
    /\ Derives(c.out, p, opts)

LEMMA PullRemoteDerives ==
    ASSUME NEW p \in ReplicaPlacement, NEW item \in ReplicaRemoteItem,
           NEW opts, p.status # "Tombstone",
           NEW out, Sound(out), Derives(out, p, opts)
    PROVE  LiveContent(PullRemote(p, item, out), p, opts)
<1>1. PullContent(p, item) \in ReplicaPlacement
    BY PullContentType
<1>2. Heir(PullContent(p, item), p)
    BY SentinelAssumption DEF Heir, PullContent, ReplicaPlacement
<1>3. Derives(Write(out, Upsert(PullContent(p, item))), p, opts)
    BY <1>1, <1>2, WriteDerives
<1> QED BY <1>2, <1>3, PullRemoteSound DEF LiveContent, PullRemote, Continue

LEMMA MarkDerives ==
    ASSUME NEW p \in ReplicaPlacement, NEW item \in ReplicaRemoteItem,
           NEW opts, p.status # "Tombstone"
    PROVE  /\ LiveContent(MarkConflict(p, item), p, opts)
           /\ LiveContent(TrackConflict(p, item), p, opts)
<1> DEFINE marked  == MarkConflict(p, item).row
           tracked == TrackConflict(p, item).row
<1>1. /\ MarkConflict(p, item) = Continue(marked, Write(Nothing, Upsert(marked)))
      /\ TrackConflict(p, item) = Continue(tracked, Write(Nothing, Upsert(tracked)))
    BY DEF MarkConflict, TrackConflict, Continue
<1>2. Heir(marked, p) /\ Heir(tracked, p)
    BY SentinelAssumption DEF Heir, MarkConflict, TrackConflict, Continue, ReplicaPlacement
<1>3. marked \in ReplicaPlacement /\ tracked \in ReplicaPlacement
    BY MarkSound DEF SoundContent
<1> HIDE DEF marked, tracked
<1>4. /\ Derives(Write(Nothing, Upsert(marked)), p, opts)
      /\ Derives(Write(Nothing, Upsert(tracked)), p, opts)
    BY <1>2, <1>3, NothingSound, NothingDerives, WriteDerives
<1> QED BY <1>1, <1>2, <1>4, MarkSound DEF LiveContent, Continue

LEMMA PushLocalDerives ==
    ASSUME NEW p \in ReplicaPlacement, p.object # None, NEW opts,
           NEW if_match \in Opt(Revision), May(opts, "content"),
           p.status # "Tombstone"
    PROVE  LiveContent(PushLocal(p, if_match), p, opts)
<1> DEFINE out == [Nothing EXCEPT !.push = Update(p, if_match), !.content = p]
<1>1. /\ out.push.kind = "Update" /\ out.put = Keep /\ out.content = p
      /\ out.flag = None /\ out.create = None
    BY DEF Nothing, Update
<1> HIDE DEF out
<1>2. Derives(out, p, opts)
    BY <1>1 DEF Derives, Heir
<1>3. Heir(p, p)
    BY SentinelAssumption DEF Heir
<1> QED BY <1>2, <1>3, PushLocalSound DEF LiveContent, PushLocal, Continue, out

LEMMA ReconcileContentDerives ==
    ASSUME NEW p \in ReplicaPlacement, NEW item \in ReplicaRemoteItem,
           NEW opts \in ReplicaSyncOptions, p.status # "Tombstone"
    PROVE  LiveContent(ReconcileContent(p, item, opts), p, opts)
<1>1. LiveContent(Continue(p, Nothing), p, opts)
    BY NothingSound, NothingDerives, SentinelAssumption
       DEF Heir, LiveContent, SoundContent, Continue
<1>2. LiveContent(PullRemote(p, item, Nothing), p, opts)
    BY NothingSound, NothingDerives, PullRemoteDerives
<1>3. CASE p.base = None
    BY <1>1, <1>3, MarkDerives DEF ReconcileContent
<1>4. CASE p.base # None /\ p.status = "Conflict"
    BY <1>1, <1>4, MarkDerives DEF ReconcileContent
<1>5. CASE p.base # None /\ p.status # "Conflict"
    <2>1. p.base.revision \in Opt(Revision) /\ item.revision \in Opt(Revision)
        BY <1>5 DEF ReplicaPlacement, ReplicaBase, ReplicaRemoteItem
    <2>2. ASSUME p.object # None
          PROVE  LiveContent(ResolveConflict(p, item, opts), p, opts)
        <3> DEFINE forked == [Nothing EXCEPT !.dup = ConflictDup(p), !.ops = 1]
        <3>1. Sound(forked)
            BY ConflictDupType, NothingSound, <2>2 DEF Sound, Agrees, Nothing, Outcome
        <3>2. /\ forked.push = None /\ forked.put = Keep /\ forked.content = None
              /\ forked.flag = None /\ forked.create = None
            BY DEF Nothing
        <3> HIDE DEF forked
        <3>3. Derives(forked, p, opts)
            BY <3>2 DEF Derives, Heir
        <3>4. LiveContent(PullRemote(p, item, forked), p, opts)
            BY <3>1, <3>3, PullRemoteDerives
        <3>5. opts.conflict \in {"Manual", "PreferLocal", "PreferRemote", "KeepBoth"}
            BY DEF ReplicaSyncOptions
        <3> QED BY <1>2, <2>1, <2>2, <3>4, <3>5, MarkDerives, PushLocalDerives
                DEF ResolveConflict, forked
    <2> QED BY <1>1, <1>2, <1>5, <2>1, <2>2, PushLocalDerives DEF ReconcileContent
<1> QED BY <1>3, <1>4, <1>5

LEMMA ReconcileFlagsDerives ==
    ASSUME NEW q \in ReplicaPlacement, NEW item \in ReplicaRemoteItem,
           NEW opts \in ReplicaSyncOptions, NEW p, NEW out, Sound(out),
           Heir(q, p), Derives(out, p, opts)
    PROVE  Derives(ReconcileFlags(q, item, out, opts), p, opts)
<1> DEFINE merged  == MergeFlags(q.base.flags, q.flags, item.flags)
           updated == [q EXCEPT !.flags = merged]
           folded  == IF merged # q.flags THEN Write(out, Upsert(updated))
                      ELSE out
<1>1. q.flags \in ReplicaFlags /\ item.flags \in ReplicaFlags
    BY DEF ReplicaPlacement, ReplicaRemoteItem
<1>2. ASSUME NEW flags \in ReplicaFlags
      PROVE  /\ PullFlags(q, flags) \in ReplicaPlacement
             /\ Rebase(q, flags) \in ReplicaPlacement
             /\ Heir(PullFlags(q, flags), p)
             /\ Heir(Rebase(q, flags), p)
    <2>1. FlagStatus(q) \notin {"Tombstone", "Created"} /\ q # None
        BY SentinelAssumption DEF FlagStatus
    <2>2. /\ PullFlags(q, flags).status = FlagStatus(q)
          /\ PullFlags(q, flags).origin = q.origin
          /\ PullFlags(q, flags).link_id = q.link_id
          /\ Rebase(q, flags).status = FlagStatus(q)
          /\ Rebase(q, flags).origin = q.origin
          /\ Rebase(q, flags).link_id = q.link_id
        BY DEF PullFlags, Rebase, ReplicaPlacement
    <2>3. Heir(PullFlags(q, flags), p) /\ Heir(Rebase(q, flags), p)
        BY <2>1, <2>2 DEF Heir
    <2> QED BY <2>3, FlagRewriteType
<1>3. CASE q.base = None
    BY <1>1, <1>2, <1>3, WriteDerives DEF ReconcileFlags
<1>4. CASE q.base # None
    <2>1. q.base.flags \in ReplicaFlags
        BY <1>4 DEF ReplicaPlacement, ReplicaBase
    <2>2. merged \in ReplicaFlags
        BY <1>1, <2>1, MergeFlagsType
    <2> HIDE DEF merged
    <2>3. updated \in ReplicaPlacement /\ Heir(updated, p)
        BY <2>2, SentinelAssumption DEF Heir, ReplicaPlacement
    <2> HIDE DEF updated
    <2>4. Sound(folded) /\ folded.push = out.push /\ Derives(folded, p, opts)
        BY <2>3, OpTypes, WriteSound, WriteDerives
    <2> HIDE DEF folded
    <2>5. CASE merged # item.flags
        <3> DEFINE pushed == [folded EXCEPT !.push = SetFlags(merged),
                                            !.flag = updated]
        <3>1. /\ pushed.push.kind = "SetFlags" /\ pushed.flag = updated
              /\ pushed.put = folded.put /\ pushed.content = folded.content
              /\ pushed.create = folded.create
            BY <2>4 DEF Sound, Outcome, SetFlags
        <3> HIDE DEF pushed
        <3>2. May(opts, "flags") => Derives(pushed, p, opts)
            BY <2>3, <2>4, <3>1 DEF Derives, Heir
        <3> QED
            BY <1>4, <2>4, <2>5, <3>2
               DEF ReconcileFlags, merged, updated, folded, pushed
    <2>6. CASE merged = item.flags
        <3>1. /\ Derives(Write(out, Upsert(PullFlags(q, merged))), p, opts)
              /\ Derives(Write(out, Upsert(Rebase(q, merged))), p, opts)
            BY <1>2, <2>2, WriteDerives
        <3> QED BY <1>4, <2>6, <3>1 DEF ReconcileFlags, merged
    <2> QED BY <2>5, <2>6
<1> QED BY <1>3, <1>4

LEMMA MergeTombstoneDerives ==
    ASSUME NEW p \in ReplicaPlacement, p.base # None, p.status = "Tombstone",
           NEW item \in ReplicaRemoteItem, NEW opts \in ReplicaSyncOptions
    PROVE  Derives(MergeTombstone(p, item, opts), p, opts)
<1> DEFINE revision == p.base.revision
           removed  == [Nothing EXCEPT !.push = Remove(p, revision), !.drop = TRUE]
           pushed   == [Nothing EXCEPT !.push    = Update(p, revision),
                                       !.content = p]
           reverted == [p EXCEPT !.status = "Clean"]
<1>1. Derives(Write(Nothing, Upsert(PullAdd(item))), p, opts)
    <2>1. Heir(PullAdd(item), p)
        BY DEF Heir, PullAdd
    <2> QED BY <2>1, PullAddType, NothingSound, NothingDerives, WriteDerives
<1>2. Derives(RefuseDelete(p, opts), p, opts)
    <2>1. reverted \in ReplicaPlacement /\ Heir(reverted, p)
        BY SentinelAssumption DEF Heir, ReplicaPlacement, ReplicaStatus
    <2> QED BY <2>1, NothingSound, NothingDerives, WriteDerives DEF RefuseDelete
<1>3. May(opts, "content") => Derives(pushed, p, opts)
    BY DEF Derives, Nothing, Update, Heir
<1>4. (May(opts, "remove") /\ (p.origin # None => ~StagedEdit(p))) =>
            Derives(removed, p, opts)
    BY SentinelAssumption DEF Derives, Nothing, Remove, Heir
<1>5. CASE Diverges(item, p.base.revision)
    BY <1>1, <1>5 DEF MergeTombstone
<1>6. CASE ~Diverges(item, p.base.revision) /\ StagedEdit(p) /\ p.origin # None
    <2>1. MergeTombstone(p, item, opts) = IF May(opts, "content") THEN pushed
                                          ELSE RefuseDelete(p, opts)
        BY <1>6 DEF MergeTombstone
    <2> QED BY <1>2, <1>3, <2>1
<1>7. CASE ~Diverges(item, p.base.revision) /\ ~(StagedEdit(p) /\ p.origin # None)
    <2>1. MergeTombstone(p, item, opts) = IF May(opts, "remove") THEN removed
                                          ELSE RefuseDelete(p, opts)
        BY <1>7 DEF MergeTombstone
    <2> QED BY <1>2, <1>4, <1>7, <2>1
<1> QED BY <1>5, <1>6, <1>7

(* The merge never derives a change the run's options forbid, deletes only *)
(* what the user deleted, under the revision it was deleted at, and sends  *)
(* a move only when no edit is left behind; and no row it writes is a      *)
(* staged delete (sync.rs, merge, PushFlags; "the move must not go without *)
(* the edit").                                                             *)
THEOREM MergeCandidateDerives ==
    ASSUME NEW p \in Opt(ReplicaPlacement), NEW item \in Opt(ReplicaRemoteItem),
           NEW opts \in ReplicaSyncOptions
    PROVE  Derives(MergeCandidate(p, item, opts), p, opts)
<1>1. (p = None \/ p \in ReplicaPlacement) /\ (item = None \/ item \in ReplicaRemoteItem)
    OBVIOUS
<1>2. Derives(Nothing, p, opts) /\ Derives(Write(Nothing, Drop("Deleted")), p, opts)
    BY NothingSound, NothingDerives, WriteDerives DEF DropReason
<1>3. item # None => Derives(Write(Nothing, Upsert(PullAdd(item))), p, opts)
    <2>1. Heir(PullAdd(item), p)
        BY DEF Heir, PullAdd
    <2> QED BY <1>1, <2>1, PullAddType, NothingSound, NothingDerives, WriteDerives
<1>4. CASE p = None
    BY <1>2, <1>3, <1>4 DEF MergeCandidate
<1>5. CASE p # None /\ p.status = "Tombstone"
    <2>1. (p.base # None /\ item # None) =>
            Derives(MergeTombstone(p, item, opts), p, opts)
        BY <1>1, <1>5, MergeTombstoneDerives
    <2> QED BY <1>2, <1>3, <1>5, <2>1 DEF MergeCandidate
<1>6. CASE p # None /\ p.status # "Tombstone"
    <2>1. Derives(MergeVanished(p, opts), p, opts)
        <3> DEFINE revived == Resurrect(p)
                   staged  == Write(Nothing, Upsert(revived))
        <3>1. /\ revived \in ReplicaPlacement
              /\ revived.status = "Created" /\ revived.origin = None
              /\ revived.link_id = p.link_id
            BY <1>1, <1>6, ResurrectType DEF Resurrect, ReplicaPlacement
        <3> HIDE DEF revived
        <3>5. Heir(revived, p)
            BY <1>6, <3>1 DEF Heir
        <3>2. Sound(staged) /\ Derives(staged, p, opts)
            BY <3>1, <3>5, OpTypes, NothingSound, NothingDerives, WriteSound, WriteDerives
        <3> HIDE DEF staged
        <3> DEFINE new == [staged EXCEPT !.push = Add(revived), !.create = revived]
        <3>3. /\ new.push.kind = "Add" /\ new.push.origin = None
              /\ new.create = revived
              /\ new.put = staged.put /\ new.flag = staged.flag
              /\ new.content = staged.content
            BY <3>1, <3>2 DEF Sound, Outcome, Add
        <3> HIDE DEF new
        <3>4. May(opts, "add") => Derives(new, p, opts)
            BY <3>2, <3>3, <3>5 DEF Derives
        <3> QED BY <1>2, <3>2, <3>4 DEF MergeVanished, revived, staged, new
    <2>2. Derives(MergeCreated(p, opts), p, opts)
        <3> DEFINE new == [Nothing EXCEPT !.push = Add(p), !.create = p]
        <3>1. (May(opts, "add") /\ p.status = "Created") => Derives(new, p, opts)
            BY <1>6 DEF Derives, Nothing, Add, Heir
        <3> HIDE DEF new
        <3> QED BY <1>2, <3>1 DEF MergeCreated, new
    <2>3. item # None => Derives(MergeBoth(p, item, opts), p, opts)
        BY <1>1, <1>6, ReconcileContentDerives, ReconcileFlagsDerives
           DEF MergeBoth, LiveContent, SoundContent
    <2> QED BY <1>2, <1>6, <2>1, <2>2, <2>3 DEF MergeCandidate
<1> QED BY <1>4, <1>5, <1>6

(* What no sync has seen, nothing remote touches: it is pushed or dropped, *)
(* never rewritten (sync.rs, merge). *)
LEMMA BaselessCandidate ==
    ASSUME NEW p \in ReplicaPlacement, p.base = None, NEW opts
    PROVE  LET out == MergeCandidate(p, None, opts)
           IN  /\ out.put # Keep => out.put.op # "UpsertPlacement"
               /\ out.flag = None /\ out.content = None
<1>1. p # None
    BY SentinelAssumption
<1>2. CASE p.status = "Tombstone"
    <2>1. MergeCandidate(p, None, opts) = Write(Nothing, Drop("Deleted"))
        BY <1>1, <1>2 DEF MergeCandidate
    <2> QED BY <2>1 DEF Write, Nothing, Drop
<1>3. CASE p.status # "Tombstone"
    <2>1. MergeCandidate(p, None, opts) = MergeCreated(p, opts)
        BY <1>1, <1>3 DEF MergeCandidate
    <2> QED BY <2>1 DEF MergeCreated, Nothing
<1> QED BY <1>2, <1>3

================================================================================
