------------------------------- MODULE RowProofs -------------------------------
(***************************************************************************)
(* What a run may write into a row: no marker the user flipped is undone,  *)
(* a row the cursor covers is based on the flags the server holds, no      *)
(* pointer is written to a body that nothing pointed at, and, bodies never *)
(* edited, no clean row points at one its base does not.                   *)
(***************************************************************************)
EXTENDS SpineProofs

USE DEF Opt, Revision, remoteVars, stored, mergeVars, pendings, runVars

--------------------------------------------------------------------------------
(* What a row says.                                                        *)

(* Its flags have been read. *)
KnownFlags(p) ==
    p # None =>
        /\ p.flags \in SUBSET Flag
        /\ p.base # None => p.base.flags \in SUBSET Flag

(* Clean, it stands at its base. *)
AtBase(p) ==
    (p # None /\ p.status = "Clean") => p.base # None /\ p.flags = p.base.flags

(* The bodies it points at. *)
Bodies(p) ==
    IF p = None THEN {}
    ELSE ({p.object} \cup IF p.base = None THEN {} ELSE {p.base.object}) \ {None}

(* Every marker the user flipped in p has that presence in q. *)
KeepsIntent(p, q) ==
    (p # None /\ q # None /\ p.base # None /\ p.status # "Tombstone") =>
        \A f \in FlagIntent(p) : f \in q.flags <=> f \in p.flags

--------------------------------------------------------------------------------
(* The merge of one candidate.                                             *)

(* The content axis leaves the flag half alone, and points at no new body. *)
ContentSame(c, p) ==
    /\ c.row \in ReplicaPlacement /\ c.out \in Outcome
    /\ c.row.flags = p.flags
    /\ c.row.base = None <=> p.base = None
    /\ p.base # None => c.row.base.flags = p.base.flags
    /\ c.row.status \in {p.status, "Conflict"}
    /\ Bodies(c.row) \subseteq Bodies(p)
    /\ \/ c.out.put = Keep /\ c.row = p
       \/ c.out.put = Upsert(c.row)
    /\ c.out.flag = None /\ c.out.create = None
    /\ c.out.content # None => c.out.content = p /\ c.row = p
    /\ c.out.push # None => c.out.push.kind = "Update"

LEMMA MarkSame ==
    ASSUME NEW p \in ReplicaPlacement, NEW item \in ReplicaRemoteItem,
           NEW c, \/ c = MarkConflict(p, item)
                  \/ c = TrackConflict(p, item) /\ p.status = "Conflict"
    PROVE  ContentSame(c, p)
<1> DEFINE q == c.row
<1>1. \/ q = [p EXCEPT !.status            = "Conflict",
                       !.conflict_revision = item.revision,
                       !.conflict_object   = None]
      \/ /\ q = [p EXCEPT !.conflict_revision = item.revision,
                          !.conflict_object   = None]
         /\ p.status = "Conflict"
    BY DEF MarkConflict, TrackConflict, Continue
<1>2. q \in ReplicaPlacement
    <2>1. item.revision \in Opt(Revision) /\ None \in Opt(Body)
        BY DEF ReplicaRemoteItem
    <2>2. "Conflict" \in ReplicaStatus
        BY DEF ReplicaStatus
    <2> HIDE DEF q
    <2> QED BY <1>1, <2>1, <2>2 DEF ReplicaPlacement
<1>3. c.out = Write(Nothing, Upsert(q))
    BY DEF MarkConflict, TrackConflict, Continue
<1> HIDE DEF q
<1>4. /\ q.status = "Conflict" /\ q.object = p.object /\ q.base = p.base
      /\ q.flags = p.flags
    BY <1>1 DEF ReplicaPlacement
<1>5. Upsert(q) \in ReplicaWriteOp
    BY <1>2, OpTypes
<1>6. /\ c.out \in Outcome /\ c.out.put = Upsert(q) /\ c.out.push = None
      /\ c.out.flag = None /\ c.out.content = None /\ c.out.create = None
    BY <1>3, <1>5, NothingSound, WriteSound, WriteKeeps DEF Sound, Nothing
<1>7. p # None /\ q # None
    BY <1>2, SentinelAssumption
<1> QED BY <1>2, <1>4, <1>6, <1>7 DEF ContentSame, Bodies, q

LEMMA PullRemoteSame ==
    ASSUME NEW p \in ReplicaPlacement, NEW item \in ReplicaRemoteItem,
           p.base # None,
           NEW out \in {Nothing}
                   \cup (IF p.object = None THEN {}
                         ELSE {[Nothing EXCEPT !.dup = ConflictDup(p), !.ops = 1]})
    PROVE  ContentSame(PullRemote(p, item, out), p)
<1> DEFINE q == PullContent(p, item)
           b == [p.base EXCEPT !.revision = item.revision, !.object = None]
<1>1. q \in ReplicaPlacement
    BY PullContentType
<1>2. p.base \in ReplicaBase
    BY DEF ReplicaPlacement
<1>3. b \in ReplicaBase /\ b.flags = p.base.flags /\ b.object = None
    BY <1>2 DEF ReplicaBase, ReplicaRemoteItem
<1>4. q.base = b /\ q.status = p.status /\ q.flags = p.flags /\ q.object = None
    BY DEF PullContent, ReplicaPlacement
<1>5. /\ PullRemote(p, item, out).row = q
      /\ PullRemote(p, item, out).out = Write(out, Upsert(q))
    BY DEF PullRemote, Continue
<1> HIDE DEF q, b
<1>6. /\ Sound(out) /\ out.push = None /\ out.flag = None
      /\ out.create = None /\ out.content = None
    <2>1. CASE out = Nothing
        BY <2>1, NothingSound DEF Nothing
    <2>2. CASE out # Nothing
        <3>1. PICK d \in ReplicaPlacement : d = ConflictDup(p) /\ p.object # None
            BY <2>2, ConflictDupType
        <3>2. out = [Nothing EXCEPT !.dup = d, !.ops = 1]
            BY <2>2, <3>1
        <3> QED BY <3>1, <3>2, NothingSound DEF Sound, Agrees, Nothing, Outcome
    <2> QED BY <2>1, <2>2
<1>7. Upsert(q) \in ReplicaWriteOp
    BY <1>1, OpTypes
<1>8. LET w == Write(out, Upsert(q))
      IN  /\ w \in Outcome /\ w.put = Upsert(q) /\ w.push = None
          /\ w.flag = None /\ w.create = None /\ w.content = None
    <2>1. Write(out, Upsert(q)) \in Outcome
        BY <1>6, <1>7, WriteSound DEF Sound
    <2> QED BY <1>6, <2>1, WriteKeeps DEF Sound
<1>9. b # None
    BY <1>3, SentinelAssumption
<1>10. Bodies(q) = {}
    BY <1>3, <1>4 DEF Bodies
<1> QED BY <1>1, <1>3, <1>4, <1>5, <1>8, <1>9, <1>10 DEF ContentSame

LEMMA UntouchedSame ==
    ASSUME NEW p \in ReplicaPlacement
    PROVE  ContentSame(Continue(p, Nothing), p)
BY NothingSound DEF ContentSame, Continue, Nothing, Sound

LEMMA PushLocalSame ==
    ASSUME NEW p \in ReplicaPlacement, p.object # None,
           NEW if_match \in Opt(Revision)
    PROVE  ContentSame(PushLocal(p, if_match), p)
<1> DEFINE c == PushLocal(p, if_match)
<1>1. Sound(c.out) /\ c.row = p
    BY PushLocalSound DEF SoundContent, PushLocal, Continue
<1>2. /\ c.out.put = Keep /\ c.out.push = Update(p, if_match)
      /\ c.out.flag = None /\ c.out.create = None /\ c.out.content = p
    BY DEF PushLocal, Continue, Nothing
<1>3. Update(p, if_match).kind = "Update"
    BY DEF Update
<1> HIDE DEF c
<1> QED BY <1>1, <1>2, <1>3 DEF ContentSame, Sound, c

LEMMA ReconcileContentSame ==
    ASSUME NEW p \in ReplicaPlacement, NEW item \in ReplicaRemoteItem,
           NEW options \in ReplicaSyncOptions
    PROVE  ContentSame(ReconcileContent(p, item, options), p)
<1>1. ContentSame(Continue(p, Nothing), p)
    BY UntouchedSame
<1>2. /\ ContentSame(MarkConflict(p, item), p)
      /\ p.status = "Conflict" => ContentSame(TrackConflict(p, item), p)
    BY MarkSame
<1>3. p.base # None =>
        /\ ContentSame(PullRemote(p, item, Nothing), p)
        /\ p.object # None =>
              ContentSame(PullRemote(p, item,
                             [Nothing EXCEPT !.dup = ConflictDup(p), !.ops = 1]), p)
    BY PullRemoteSame
<1>4. p.object # None =>
        /\ ContentSame(PushLocal(p, item.revision), p)
        /\ p.base # None => ContentSame(PushLocal(p, p.base.revision), p)
    BY PushLocalSame DEF ReplicaPlacement, ReplicaBase, ReplicaRemoteItem
<1>5. (p.base # None /\ p.object # None) =>
        ContentSame(ResolveConflict(p, item, options), p)
    <2>1. options.conflict \in {"Manual", "PreferLocal", "PreferRemote", "KeepBoth"}
        BY DEF ReplicaSyncOptions
    <2> QED BY <1>2, <1>3, <1>4, <2>1 DEF ResolveConflict
<1> HIDE DEF ContentSame
<1>6. CASE p.base = None
    BY <1>1, <1>2, <1>6 DEF ReconcileContent
<1>7. CASE p.base # None /\ p.status = "Conflict"
    BY <1>1, <1>2, <1>7 DEF ReconcileContent
<1>8. CASE p.base # None /\ p.status # "Conflict"
    <2> DEFINE local_changed  == p.status = "Dirty" /\ p.object # None
                                                    /\ p.object # p.base.object
               remote_changed == Diverges(item, p.base.revision)
    <2>1. ReconcileContent(p, item, options) =
            IF local_changed
            THEN IF remote_changed THEN ResolveConflict(p, item, options)
                 ELSE IF May(options, "content")
                      THEN PushLocal(p, p.base.revision)
                      ELSE Continue(p, Nothing)
            ELSE IF remote_changed THEN PullRemote(p, item, Nothing)
                 ELSE Continue(p, Nothing)
        BY <1>8 DEF ReconcileContent
    <2>2. local_changed => p.object # None
        OBVIOUS
    <2> HIDE DEF local_changed, remote_changed
    <2> QED BY <1>1, <1>3, <1>4, <1>5, <1>8, <2>1, <2>2
<1> QED BY <1>6, <1>7, <1>8

LEMMA WriteOutcome ==
    ASSUME NEW out \in Outcome, NEW op \in ReplicaWriteOp
    PROVE  Write(out, op) \in Outcome
<1>1. \A n \in Nat : [out EXCEPT !.put = op, !.ops = n] \in Outcome
    BY DEF Outcome
<1>2. out.ops + 1 \in Nat
    BY DEF Outcome
<1>3. Write(out, op) = [out EXCEPT !.put = op, !.ops = out.ops + 1]
    BY DEF Write
<1> QED BY <1>1, <1>2, <1>3

(* What the flag axis makes of the row r it was handed.                    *)
FlagStep(q, r, item) ==
    /\ q \in ReplicaPlacement /\ KnownFlags(q) /\ q.base # None
    /\ Bodies(q) = Bodies(r) /\ q.object = r.object
    /\ r.base # None => q.base.object = r.base.object
    /\ r.base # None => \A f \in FlagIntent(r) : f \in q.flags <=> f \in r.flags
    /\ \/ q.base.flags = item.flags
       \/ r.base # None /\ q.base.flags = r.base.flags
    /\ AtBase(r) => AtBase(q)

(* The row q an outcome leaves: the base has the reported flags, unless a  *)
(* change that will move them goes out.                                    *)
FlagResult(q, r, item, out, new, options) ==
    /\ FlagStep(q, r, item)
    /\ \/ new.put = out.put /\ q = r
       \/ new.put = Upsert(q)
    /\ (new.push = None /\ May(options, "flags")) => q.base.flags = item.flags

(* Its base moved to the set the remote reports. *)
LEMMA RewriteStep ==
    ASSUME NEW r \in ReplicaPlacement, KnownFlags(r),
           NEW item \in ReplicaRemoteItem, item.flags \in SUBSET Flag,
           NEW q, \/ q = PullFlags(r, item.flags)
                  \/ q = Rebase(r, item.flags) /\ r.flags = item.flags,
           r.base # None =>
              \A f \in FlagIntent(r) : f \in item.flags <=> f \in r.flags
    PROVE  FlagStep(q, r, item) /\ q.base.flags = item.flags
<1>1. q \in ReplicaPlacement
    BY FlagRewriteType DEF ReplicaFlags
<1> DEFINE b == FlagBase(r, item.flags)
<1>2. b \in ReplicaBase /\ b # None
    BY FlagBaseType, SentinelAssumption DEF ReplicaFlags
<1>3. /\ b.flags = item.flags
      /\ b.object = IF r.base = None THEN None ELSE r.base.object
    BY DEF FlagBase
<1>4. q.base = b /\ q.flags = item.flags /\ q.object = r.object
    BY DEF PullFlags, Rebase, ReplicaPlacement
<1> HIDE DEF b
<1>5. Bodies(q) = Bodies(r)
    BY <1>1, <1>2, <1>3, <1>4, SentinelAssumption DEF Bodies
<1> QED BY <1>1, <1>2, <1>3, <1>4, <1>5 DEF FlagStep, KnownFlags, AtBase

LEMMA ReconcileFlagsStep ==
    ASSUME NEW r \in ReplicaPlacement, KnownFlags(r),
           NEW item \in ReplicaRemoteItem, item.flags \in SUBSET Flag,
           NEW options, NEW out \in Outcome, out.flag = None,
           NEW new, new = ReconcileFlags(r, item, out, options)
    PROVE  /\ \E q : FlagResult(q, r, item, out, new, options)
           /\ new.flag # None => FlagStep(new.flag, r, item)
           /\ new.content = out.content /\ new.create = out.create
           /\ new.dup = out.dup
           /\ \/ new.push = out.push
              \/ new.push.kind = "SetFlags" /\ new.push.flags \in SUBSET Flag
<1> DEFINE merged  == MergeFlags(r.base.flags, r.flags, item.flags)
           updated == [r EXCEPT !.flags = merged]
           folded  == IF merged # r.flags THEN Write(out, Upsert(updated))
                      ELSE out
           Same(w) == /\ w.content = out.content /\ w.create = out.create
                      /\ w.dup = out.dup /\ w.push = out.push
                      /\ w.flag = out.flag
<1>1. r # None /\ r.flags \in SUBSET Flag
    BY SentinelAssumption DEF KnownFlags
<1>2. ASSUME NEW op PROVE Write(out, op).put = op /\ Same(Write(out, op))
    BY WriteKeeps
<1>3. CASE r.base = None
    <2>1. new = Write(out, Upsert(PullFlags(r, item.flags)))
        BY <1>3 DEF ReconcileFlags
    <2> DEFINE q == PullFlags(r, item.flags)
    <2>2. FlagStep(q, r, item) /\ q.base.flags = item.flags
        BY <1>3, RewriteStep
    <2>3. new.put = Upsert(q) /\ Same(new)
        BY <1>2, <2>1
    <2> HIDE DEF q
    <2> QED BY <2>2, <2>3 DEF FlagResult
<1>4. CASE r.base # None
    <2>1. r.base.flags \in SUBSET Flag
        BY <1>1, <1>4 DEF KnownFlags
    <2>2. /\ merged \in SUBSET Flag
          /\ \A f \in FlagIntent(r) : f \in merged <=> f \in r.flags
          /\ r.flags = r.base.flags => merged = item.flags
        <3>1. merged \in SUBSET Flag
            BY <1>1, <2>1, SentinelAssumption DEF MergeFlags
        <3>2. \A f \in Flag : f \in merged <=>
                 IF f \in r.flags <=> f \in r.base.flags THEN f \in item.flags
                                                        ELSE f \in r.flags
            BY <1>1, <2>1, MergeFlagsElementwise
        <3> HIDE DEF merged
        <3>3. \A f \in FlagIntent(r) : f \in merged <=> f \in r.flags
            BY <3>2 DEF FlagIntent
        <3>4. r.flags = r.base.flags => merged = item.flags
            BY <3>1, <3>2
        <3> QED BY <3>1, <3>3, <3>4
    <2>3. new = IF merged = r.flags /\ merged = item.flags
                THEN IF \/ r.flags # r.base.flags
                        \/ /\ r.status = "Dirty"
                           /\ ~(r.object # None /\ r.base.object # r.object)
                     THEN Write(out, Upsert(Rebase(r, merged))) ELSE out
                ELSE IF merged = item.flags
                THEN Write(out, Upsert(PullFlags(r, merged)))
                ELSE IF out.push # None \/ ~May(options, "flags")
                THEN folded
                ELSE [folded EXCEPT !.push = SetFlags(merged), !.flag = updated]
        BY <1>4 DEF ReconcileFlags
    <2>4. /\ updated \in ReplicaPlacement /\ updated.base = r.base
          /\ updated.flags = merged /\ updated.status = r.status
          /\ updated.object = r.object
        BY <2>2 DEF ReplicaPlacement, ReplicaFlags
    <2>5. FlagStep(r, r, item)
        BY <1>4 DEF FlagStep
    <2>6. merged # item.flags => ~AtBase(r) \/ r.status # "Clean"
        BY <1>1, <2>2 DEF AtBase
    <2> HIDE DEF merged, updated
    <2>7. merged # item.flags => FlagStep(updated, r, item)
        <3>1. updated # None
            BY <2>4, SentinelAssumption
        <3>2. Bodies(updated) = Bodies(r)
            BY <1>1, <2>4, <3>1 DEF Bodies
        <3> QED BY <1>1, <1>4, <2>1, <2>2, <2>4, <2>6, <3>1, <3>2
                DEF FlagStep, KnownFlags, AtBase
    <2>8. CASE merged = item.flags /\ merged = r.flags
        <3>1. \/ new = out /\ r.flags = r.base.flags
              \/ new = Write(out, Upsert(Rebase(r, item.flags)))
            BY <2>3, <2>8
        <3>2. CASE new = out /\ r.flags = r.base.flags
            BY <2>5, <2>8, <3>2 DEF FlagResult
        <3>3. CASE new = Write(out, Upsert(Rebase(r, item.flags)))
            <4>1. /\ FlagStep(Rebase(r, item.flags), r, item)
                  /\ Rebase(r, item.flags).base.flags = item.flags
                <5>1. /\ r.flags = item.flags
                      /\ \A f \in FlagIntent(r) : f \in item.flags <=> f \in r.flags
                    BY <2>8
                <5> QED BY <5>1, RewriteStep
            <4> QED BY <1>2, <3>3, <4>1 DEF FlagResult
        <3> QED BY <3>1, <3>2, <3>3
    <2>9. CASE merged = item.flags /\ merged # r.flags
        <3>1. new = Write(out, Upsert(PullFlags(r, item.flags)))
            BY <2>3, <2>9
        <3>2. /\ FlagStep(PullFlags(r, item.flags), r, item)
              /\ PullFlags(r, item.flags).base.flags = item.flags
            BY <2>2, <2>9, RewriteStep
        <3> QED BY <1>2, <3>1, <3>2 DEF FlagResult
    <2>10. CASE merged # item.flags
        <3>1. /\ Same(folded)
              /\ \/ folded.put = out.put /\ folded = out
                 \/ folded.put = Upsert(updated)
            BY <1>2
        <3>2. folded \in Outcome
            BY <2>4, WriteOutcome, OpTypes
        <3> HIDE DEF folded
        <3>3. CASE new = folded /\ (out.push # None \/ ~May(options, "flags"))
            BY <2>5, <2>7, <2>10, <3>1, <3>3 DEF FlagResult
        <3>4. CASE new = [folded EXCEPT !.push = SetFlags(merged), !.flag = updated]
            <4>1. /\ new.put = folded.put /\ new.content = folded.content
                  /\ new.create = folded.create /\ new.dup = folded.dup
                  /\ new.push = SetFlags(merged) /\ new.flag = updated
                BY <3>2, <3>4 DEF Outcome
            <4>2. /\ SetFlags(merged).kind = "SetFlags"
                  /\ SetFlags(merged).flags = merged
                BY DEF SetFlags
            <4>3. SetFlags(merged) # None
                BY <2>2, MergeAssumption DEF SetFlags, ReplicaChange, ReplicaFlags
            <4>4. \E q : /\ FlagStep(q, r, item)
                         /\ \/ new.put = out.put /\ q = r
                            \/ new.put = Upsert(q)
                <5>1. CASE folded.put = out.put
                    BY <2>5, <4>1, <5>1
                <5>2. CASE folded.put = Upsert(updated)
                    BY <2>7, <2>10, <4>1, <5>2
                <5> QED BY <3>1, <5>1, <5>2
            <4>5. new.push # None
                BY <4>1, <4>3
            <4>6. new.push.kind = "SetFlags" /\ new.push.flags \in SUBSET Flag
                BY <2>2, <4>1, <4>2
            <4>7. /\ new.flag # None => FlagStep(new.flag, r, item)
                  /\ new.content = out.content /\ new.create = out.create
                  /\ new.dup = out.dup
                BY <2>7, <2>10, <3>1, <4>1
            <4> QED BY <4>4, <4>5, <4>6, <4>7 DEF FlagResult
        <3> QED BY <2>3, <2>10, <3>3, <3>4
    <2> QED BY <2>8, <2>9, <2>10
<1> QED BY <1>3, <1>4

(* A change whose flags have been read. *)
KnownChange(change) ==
    (change # None /\ change.kind \in {"SetFlags", "Add"}) =>
        change.flags \in SUBSET Flag

(* The source takes every kind of change. *)
Free(options) == options.push /\ options.rights = PushKind

(* What q, written or kept in mind for p, takes from it. *)
Respects(q, p) ==
    /\ KnownFlags(q) /\ KeepsIntent(p, q)
    /\ Bodies(q) \subseteq Bodies(p)

(* A row kept in mind for p until its push is answered. *)
Kept(x, p, q) ==
    x # None => p # None /\ Respects(x, p) /\ Bodies(x) \subseteq Bodies(q)

(* The base of q has the flags the remote reports, or those it had. *)
BaseReported(q, p, item) ==
    (q # None /\ q.base # None /\ item # None) =>
        \/ q.base.flags = item.flags
        \/ p # None /\ p.base # None /\ q.base.flags = p.base.flags

(* ReplicaSync::merge leaves a row that undoes no marker of the user's,    *)
(* points at no body of its own, and stands on the flags the remote        *)
(* reports, unless a change that will move them goes out.                  *)
RowMade(out, p, item, options) ==
    LET q == After(p, out)
    IN  /\ Respects(q, p)
        /\ Kept(out.flag, p, q) /\ Kept(out.content, p, q) /\ Kept(out.create, p, q)
        /\ KnownChange(out.push)
        /\ q # None => p # None \/ item # None
        /\ BaseReported(q, p, item)
        /\ (item # None /\ q # None /\ q.base # None /\ out.push = None
               /\ Free(options)) => q.base.flags = item.flags
        /\ (Free(options) /\ AtBase(p)) => AtBase(q)

LEMMA RespectsSelf ==
    ASSUME NEW p, KnownFlags(p)
    PROVE  Respects(p, p)
BY DEF Respects, KeepsIntent

(* An outcome that keeps the row, and derives a change of it or nothing. *)
LEMMA KeptMade ==
    ASSUME NEW p \in ReplicaPlacement, KnownFlags(p), NEW item, NEW options,
           NEW out, out.put = Keep, out.flag = None, out.create \in {None, p},
           out.content \in {None, p}, KnownChange(out.push),
           (item # None /\ p.base # None /\ Free(options)) => out.push # None
    PROVE  RowMade(out, p, item, options)
<1>1. p # None /\ Respects(p, p) /\ After(p, out) = p
    BY SentinelAssumption, RespectsSelf DEF After
<1> QED BY <1>1 DEF RowMade, Kept, BaseReported

(* An outcome that writes a row and derives nothing. *)
LEMMA WrittenMade ==
    ASSUME NEW p, NEW item, NEW options, NEW q \in ReplicaPlacement,
           Respects(q, p), p # None \/ item # None, BaseReported(q, p, item),
           (item # None /\ q.base # None /\ Free(options)) =>
              q.base.flags = item.flags,
           (Free(options) /\ AtBase(p)) => AtBase(q)
    PROVE  RowMade(Write(Nothing, Upsert(q)), p, item, options)
<1>1. PICK out : out = Write(Nothing, Upsert(q))
    OBVIOUS
<1>2. /\ After(p, out) = q
      /\ out.push = None /\ out.flag = None /\ out.content = None
      /\ out.create = None
    BY <1>1, WrittenFacts
<1> QED BY <1>1, <1>2 DEF RowMade, Kept, KnownChange

LEMMA DropMade ==
    ASSUME NEW p, NEW item, NEW options
    PROVE  RowMade(Write(Nothing, Drop("Deleted")), p, item, options)
<1>1. PICK out : out = Write(Nothing, Drop("Deleted"))
    OBVIOUS
<1>2. Drop("Deleted") # Keep /\ Drop("Deleted").op = "DropPlacement"
    BY OpTypes, MergeAssumption DEF Drop, DropReason
<1>3. Nothing \in Outcome
    BY NothingSound DEF Sound
<1>4. /\ out.put = Drop("Deleted") /\ out.push = None /\ out.flag = None
      /\ out.content = None /\ out.create = None
    BY <1>1, <1>3, WriteKeeps DEF Nothing
<1>5. After(p, out) = None
    BY <1>2, <1>4 DEF After
<1> QED BY <1>1, <1>4, <1>5 DEF RowMade, Respects, KnownFlags, KeepsIntent, Bodies,
                                Kept, KnownChange, BaseReported, AtBase

LEMMA PullAddMade ==
    ASSUME NEW p, NEW item \in ReplicaRemoteItem, NEW options,
           item.flags \in SUBSET Flag,
           p # None => p.status = "Tombstone" \/ p.base = None
    PROVE  RowMade(Write(Nothing, Upsert(PullAdd(item))), p, item, options)
<1> DEFINE q == PullAdd(item)
<1>1. q \in ReplicaPlacement /\ q # None /\ item # None
    BY PullAddType, SentinelAssumption, MergeAssumption
<1>2. /\ q.base # None /\ q.base.flags = item.flags /\ q.flags = item.flags
      /\ q.base.object = None /\ q.object = None
    BY PullFacts DEF PullAdd
<1> HIDE DEF q
<1>3. Respects(q, p)
    BY <1>1, <1>2 DEF Respects, KnownFlags, KeepsIntent, Bodies
<1>4. BaseReported(q, p, item) /\ AtBase(q)
    BY <1>1, <1>2 DEF BaseReported, AtBase
<1> QED BY <1>1, <1>2, <1>3, <1>4, WrittenMade DEF q

LEMMA MergeBothMade ==
    ASSUME NEW p \in ReplicaPlacement, KnownFlags(p), p.status # "Tombstone",
           NEW item \in ReplicaRemoteItem, item.flags \in SUBSET Flag,
           NEW options \in ReplicaSyncOptions
    PROVE  RowMade(MergeBoth(p, item, options), p, item, options)
<1>1. PICK c : c = ReconcileContent(p, item, options)
    OBVIOUS
<1>2. PICK r, out : r = c.row /\ out = c.out
    OBVIOUS
<1>3. PICK new : new = MergeBoth(p, item, options)
    OBVIOUS
<1>4. ContentSame(c, p) /\ p # None /\ item # None
    BY <1>1, ReconcileContentSame, SentinelAssumption, MergeAssumption
<1>5. /\ r \in ReplicaPlacement /\ out \in Outcome /\ r # None
      /\ r.flags = p.flags /\ (r.base = None <=> p.base = None)
      /\ p.base # None => r.base.flags = p.base.flags
      /\ r.status \in {p.status, "Conflict"} /\ Bodies(r) \subseteq Bodies(p)
      /\ (out.put = Keep /\ r = p) \/ out.put = Upsert(r)
      /\ out.flag = None /\ out.create = None
      /\ out.content # None => out.content = p /\ r = p
      /\ out.push # None => out.push.kind = "Update"
    BY <1>2, <1>4, SentinelAssumption DEF ContentSame
<1>6. KnownFlags(r) /\ (AtBase(p) => AtBase(r))
    BY <1>4, <1>5 DEF KnownFlags, AtBase
<1>7. new = ReconcileFlags(r, item, out, options)
    BY <1>1, <1>2, <1>3 DEF MergeBoth
<1>8. /\ new.flag # None => FlagStep(new.flag, r, item)
      /\ new.content = out.content /\ new.create = out.create
      /\ \/ new.push = out.push
         \/ new.push.kind = "SetFlags" /\ new.push.flags \in SUBSET Flag
    BY <1>5, <1>6, <1>7, ReconcileFlagsStep
<1>9. PICK q : FlagResult(q, r, item, out, new, options)
    BY <1>5, <1>6, <1>7, ReconcileFlagsStep
<1>10. After(p, new) = q
    <2>1. /\ \A x \in ReplicaPlacement : /\ Upsert(x) # Keep /\ Upsert(x).row = x
                                         /\ Upsert(x).op = "UpsertPlacement"
        BY OpTypes, MergeAssumption DEF Upsert
    <2> QED BY <1>5, <1>9, <2>1 DEF After, FlagStep, FlagResult
<1>11. ASSUME NEW x, FlagStep(x, r, item) PROVE Respects(x, p)
    <2>1. p.base # None => FlagIntent(p) = FlagIntent(r)
        BY <1>5 DEF FlagIntent
    <2> QED BY <1>5, <1>11, <2>1 DEF FlagStep, Respects, KeepsIntent
<1>12. Kept(new.flag, p, q)
    BY <1>4, <1>8, <1>9, <1>11 DEF Kept, FlagStep, FlagResult
<1>13. Kept(new.content, p, q) /\ Kept(new.create, p, q)
    BY <1>4, <1>5, <1>8, <1>9, RespectsSelf DEF Kept, FlagStep, FlagResult
<1>14. KnownChange(new.push)
    BY <1>5, <1>8 DEF KnownChange
<1>15. BaseReported(q, p, item)
    BY <1>4, <1>5, <1>9 DEF BaseReported, FlagStep, FlagResult
<1>16. (new.push = None /\ Free(options)) => q.base.flags = item.flags
    BY <1>9 DEF Free, May, PushKind, FlagResult
<1>17. AtBase(p) => AtBase(q)
    BY <1>6, <1>9 DEF FlagStep, FlagResult
<1> QED
    <2>1. FlagStep(q, r, item)
        BY <1>9 DEF FlagResult
    <2>2. Respects(q, p)
        BY <1>11, <2>1
    <2> QED BY <1>3, <1>4, <1>10, <1>12, <1>13, <1>14, <1>15, <1>16, <1>17, <2>2
            DEF RowMade

LEMMA MergeTombstoneMade ==
    ASSUME NEW p \in ReplicaPlacement, KnownFlags(p), p.status = "Tombstone",
           p.base # None,
           NEW item \in ReplicaRemoteItem, item.flags \in SUBSET Flag,
           NEW options
    PROVE  RowMade(MergeTombstone(p, item, options), p, item, options)
<1> DEFINE edit   == [Nothing EXCEPT !.push    = Update(p, p.base.revision),
                                     !.content = p]
           remove == [Nothing EXCEPT !.push = Remove(p, p.base.revision),
                                     !.drop = TRUE]
<1>1. p # None /\ item # None
    BY SentinelAssumption, MergeAssumption
<1>2. RowMade(Write(Nothing, Upsert(PullAdd(item))), p, item, options)
    BY PullAddMade
<1>3. /\ p.object # None => RowMade(edit, p, item, options)
      /\ RowMade(remove, p, item, options)
    <2>1. /\ edit.put = Keep /\ edit.flag = None /\ edit.create = None
          /\ edit.content = p /\ edit.push = Update(p, p.base.revision)
          /\ remove.put = Keep /\ remove.flag = None /\ remove.create = None
          /\ remove.content = None /\ remove.push = Remove(p, p.base.revision)
        BY DEF Nothing
    <2>2. /\ KnownChange(Update(p, p.base.revision))
          /\ KnownChange(Remove(p, p.base.revision))
        BY DEF KnownChange, Update, Remove
    <2>3. /\ p.object # None => Update(p, p.base.revision) # None
          /\ Remove(p, p.base.revision) # None
        BY MergeAssumption
           DEF ReplicaChange, Update, Remove, ReplicaPlacement, ReplicaBase
    <2> HIDE DEF edit, remove
    <2>4. p.object # None => RowMade(edit, p, item, options)
        BY <2>1, <2>2, <2>3, KeptMade
    <2>5. RowMade(remove, p, item, options)
        BY <2>1, <2>2, <2>3, KeptMade
    <2> QED BY <2>4, <2>5
<1>4. RowMade(RefuseDelete(p, options), p, item, options) \/ Free(options)
    <2> DEFINE q == [p EXCEPT !.status = "Clean"]
    <2>1. /\ q \in ReplicaPlacement /\ q.base = p.base /\ q.flags = p.flags
          /\ q.object = p.object
        BY DEF ReplicaPlacement, ReplicaStatus
    <2> HIDE DEF q
    <2>2. Respects(q, p) /\ BaseReported(q, p, item)
        BY <1>1, <2>1 DEF Respects, KnownFlags, KeepsIntent, Bodies, BaseReported
    <2>3. ~Free(options) => RowMade(Write(Nothing, Upsert(q)), p, item, options)
        BY <1>1, <2>1, <2>2, WrittenMade
    <2>4. ~Free(options) => RowMade(Nothing, p, item, options)
        BY KeptMade DEF Nothing, KnownChange
    <2> QED BY <2>3, <2>4 DEF RefuseDelete, q
<1>5. Free(options) => May(options, "content") /\ May(options, "remove")
    BY DEF Free, May, PushKind
<1> HIDE DEF edit, remove
<1> QED BY <1>2, <1>3, <1>4, <1>5 DEF MergeTombstone, StagedEdit, edit, remove

LEMMA MergeVanishedMade ==
    ASSUME NEW p \in ReplicaPlacement, KnownFlags(p), NEW options
    PROVE  RowMade(MergeVanished(p, options), p, None, options)
<1> DEFINE q   == Resurrect(p)
           put == Write(Nothing, Upsert(q))
           out == [put EXCEPT !.push = Add(q), !.create = q]
<1>1. q \in ReplicaPlacement /\ p # None /\ q # None
    BY ResurrectType, SentinelAssumption
<1>2. /\ q.base = None /\ q.object = p.object /\ q.flags = p.flags
      /\ q.status = "Created"
    BY DEF Resurrect, ReplicaPlacement
<1> HIDE DEF q
<1>3. /\ Respects(q, p) /\ AtBase(q) /\ BaseReported(q, p, None)
    BY <1>1, <1>2 DEF Respects, KnownFlags, KeepsIntent, Bodies, AtBase, BaseReported
<1>4. RowMade(put, p, None, options)
    BY <1>1, <1>3, WrittenMade
<1>5. RowMade(out, p, None, options)
    <2>1. put \in Outcome
        BY <1>1, WriteOutcome, NothingSound, OpTypes DEF Sound
    <2>2. /\ After(p, put) = q /\ put.flag = None /\ put.content = None
        BY <1>1, WrittenFacts
    <2> HIDE DEF put
    <2>3. /\ out.put = put.put /\ out.flag = put.flag
          /\ out.content = put.content /\ out.push = Add(q) /\ out.create = q
        BY <2>1 DEF Outcome
    <2>4. After(p, out) = q
        BY <2>2, <2>3 DEF After
    <2>5. Add(q).flags = q.flags
        BY DEF Add
    <2> HIDE DEF out
    <2>6. KnownChange(out.push)
        BY <1>1, <1>3, <2>3, <2>5 DEF KnownChange, Respects, KnownFlags
    <2> QED BY <1>1, <1>3, <2>2, <2>3, <2>4, <2>6 DEF RowMade, Kept
<1>6. RowMade(Write(Nothing, Drop("Deleted")), p, None, options)
    BY DropMade
<1> QED BY <1>4, <1>5, <1>6 DEF MergeVanished, q, put, out

(* ReplicaSync::merge, whatever the two sides hold. *)
LEMMA CandidateMade ==
    ASSUME NEW p \in Opt(ReplicaPlacement), KnownFlags(p),
           NEW item \in Opt(ReplicaRemoteItem),
           item # None => item.flags \in SUBSET Flag,
           NEW options \in ReplicaSyncOptions
    PROVE  RowMade(MergeCandidate(p, item, options), p, item, options)
<1> DEFINE tombstone == p # None /\ p.status = "Tombstone"
           present   == p # None /\ p.status # "Tombstone"
           based     == p # None /\ p.base # None
<1>1. CASE tombstone /\ based /\ item # None
    BY <1>1, MergeTombstoneMade DEF MergeCandidate
<1>2. CASE tombstone /\ item = None
    BY <1>2, DropMade DEF MergeCandidate
<1>3. CASE present /\ based /\ item = None
    BY <1>3, MergeVanishedMade DEF MergeCandidate
<1>4. CASE ~present /\ ~based /\ item # None
    BY <1>4, PullAddMade DEF MergeCandidate
<1>5. CASE present /\ item # None
    BY <1>5, MergeBothMade DEF MergeCandidate
<1>6. CASE present /\ ~based /\ item = None
    <2> DEFINE out == [Nothing EXCEPT !.push = Add(p), !.create = p]
    <2>1. /\ out.put = Keep /\ out.push = Add(p) /\ out.create = p
          /\ out.flag = None /\ out.content = None
        BY DEF Nothing
    <2>2. KnownChange(Add(p)) /\ KnownChange(None)
        BY <1>6 DEF KnownChange, Add, KnownFlags
    <2> HIDE DEF out
    <2>3. RowMade(out, p, item, options)
        BY <1>6, <2>1, <2>2, KeptMade
    <2>4. RowMade(Nothing, p, item, options)
        BY <1>6, <2>2, KeptMade DEF Nothing
    <2> QED BY <1>6, <2>3, <2>4 DEF MergeCandidate, MergeCreated, out
<1>7. CASE p = None /\ item = None
    <2>1. After(p, Nothing) = None /\ Nothing.push = None /\ Nothing.flag = None
          /\ Nothing.content = None /\ Nothing.create = None
        BY <1>7 DEF After, Nothing
    <2>2. RowMade(Nothing, p, item, options)
        BY <1>7, <2>1 DEF RowMade, Respects, KnownFlags, KeepsIntent, Bodies, Kept,
                          KnownChange, BaseReported, AtBase
    <2> QED BY <1>7, <2>2 DEF MergeCandidate
<1> QED BY <1>1, <1>2, <1>3, <1>4, <1>5, <1>6, <1>7

--------------------------------------------------------------------------------
(* What a step of a run does to the rows of a handle.                      *)

(* The pending maps and the queue keep what they had for k, or forget it. *)
Forgets(k) ==
    /\ pending_flag_pushes'[k] \in {pending_flag_pushes[k], None}
    /\ pending_content_pushes'[k] \in {pending_content_pushes[k], None}
    /\ pending_creates'[k] \in {pending_creates[k], None}
    /\ Owed(k)' \in {Owed(k), None}

(* The merge of k. *)
MergedAt(k) ==
    LET out == OutcomeOf(k)
    IN  /\ pc = "Joining" /\ k \in todo /\ ~Untouched(k) /\ todo' = todo \ {k}
        /\ Row(k)' = IF out.put = Keep THEN Row(k) ELSE After(local[k], out)
        /\ pending_flag_pushes'[k] = out.flag
        /\ pending_content_pushes'[k] = out.content
        /\ pending_creates'[k] = out.create
        /\ Owed(k)' = out.push

(* The fork at k of a handle whose two sides were edited. *)
ForkedAt(k) ==
    /\ pc = "Joining" /\ k \notin ServerHandle
    /\ \E h \in todo :
          /\ ~Untouched(h) /\ OutcomeOf(h).dup # None
          /\ local[h] \in ReplicaPlacement
          /\ Row(k)' = ConflictDup(local[h])

(* An accepted change of k recorded, or an accepted create placed at k. *)
LandedAt(k) ==
    /\ pc = "PendingPush" /\ unserved = {}
    /\ \/ /\ IsAccepted(k) /\ pending_flag_pushes'[k] = None
          /\ pending_content_pushes'[k] = None /\ pending_creates'[k] = None
          /\ \/ Row(k)' = None
             \/ /\ pending_content_pushes[k] # None
                /\ Row(k)' = RebaseContent(pending_content_pushes[k],
                                           results[k].revision)
             \/ /\ pending_flag_pushes[k] # None
                /\ Row(k)' = Rebase(pending_flag_pushes[k],
                                    pending_flag_pushes[k].flags)
       \/ \E h \in Handle :
             /\ IsAccepted(h) /\ pending_creates[h] # None
             /\ results[h].assigned = k
             /\ Row(k)' = RekeyCreate(pending_creates[h], results[h].revision)

(* The whole batch is written, or none of it. *)
Batched ==
    \/ store' = store
    \/ \A h \in Handle : store'[h] = Row(h) /\ Row(h)' = Row(h)

LEMMA MergeStepRows ==
    ASSUME Inv, Inv', SpineInv, MergeStep, NEW k \in Handle
    PROVE  /\ store' = store /\ local' = local
           /\ \/ Row(k)' = Row(k) /\ Forgets(k)
              \/ MergedAt(k)
              \/ ForkedAt(k) /\ Forgets(k)
           /\ k \in todo \ todo' => MergedAt(k) \/ (Untouched(k) /\ Row(k)' = Row(k))
<1>1. /\ pc = "Joining" /\ todo # {}
      /\ UNCHANGED <<remoteVars, stored, opts, local, snap, in_flight>>
    BY DEF MergeStep
<1>2. PICK h \in todo : (Skip(h) \/ Merge(h)) /\ todo' = todo \ {h}
    <2>1. todo \in SUBSET Nat
        BY HandleFacts DEF Inv, TypeOK
    <2> QED BY <1>1, <2>1, LeastIn DEF MergeStep
<1>3. h \in Handle
    BY AheadFacts, <1>1
<1>4. CASE Skip(h)
    <2>1. Row(k)' = Row(k) /\ Forgets(k)
        BY <1>1, <1>4 DEF Skip, Row, Owed, Forgets
    <2> QED BY <1>1, <1>2, <1>4, <2>1 DEF Skip
<1>5. CASE Merge(h)
    <2>0. k \in todo \ todo' => k = h
        BY <1>2
    <2> DEFINE out == OutcomeOf(h)
               put == IF out.put = Keep THEN writes
                      ELSE [writes EXCEPT ![h] = out.put]
               f   == Fork[<<h, local[h].object>>]
    <2>1. /\ Owed(h)' = out.push
          /\ pending_flag_pushes'[h] = out.flag
          /\ pending_content_pushes'[h] = out.content
          /\ pending_creates'[h] = out.create
          /\ \A j \in Handle \ {h} : Forgets(j)
        BY <1>1, <1>5, MergeOwes DEF Forgets
    <2>2. MergedOK(h, out) /\ ~Untouched(h)
        BY <1>1, <1>5, MergedAbsent, MergedPresent DEF Merge
    <2>3. /\ out \in Outcome
          /\ writes \in [Handle -> ReplicaWriteOp \cup {Keep}]
          /\ local[h] \in Opt(ReplicaPlacement)
        BY <1>1, <1>3, <2>2, OutcomeSound DEF Sound, Inv, TypeOK
    <2>4. writes' = IF out.dup = None THEN put
                    ELSE [put EXCEPT ![f] = Upsert(out.dup)]
        BY <1>5 DEF Merge
    <2>5. out.dup # None =>
            /\ f \notin ServerHandle /\ h \in ServerHandle
            /\ local[h] \in ReplicaPlacement
            /\ out.dup \in ReplicaPlacement /\ out.dup = ConflictDup(local[h])
        <3> SUFFICES ASSUME out.dup # None
                     PROVE  /\ f \notin ServerHandle /\ h \in ServerHandle
                            /\ local[h] \in ReplicaPlacement
                            /\ out.dup \in ReplicaPlacement
                            /\ out.dup = ConflictDup(local[h])
            OBVIOUS
        <3>1. /\ h \in ServerHandle /\ local[h] \in ReplicaPlacement
              /\ local[h].object # None /\ out.dup = ConflictDup(local[h])
            BY <2>2, <2>3 DEF MergedOK
        <3>2. local[h].object \in Body
            BY <3>1 DEF ReplicaPlacement
        <3> QED BY <3>1, <3>2, SyncAssumption, ConflictDupType
    <2> HIDE DEF out, f
    <2>6. /\ put \in [Handle -> ReplicaWriteOp \cup {Keep}]
          /\ put[h] = IF out.put = Keep THEN writes[h] ELSE out.put
          /\ \A j \in Handle \ {h} : put[j] = writes[j]
        BY <1>3, <2>3 DEF Outcome
    <2> HIDE DEF put
    <2>7. \A j \in Handle : writes'[j] = IF out.dup # None /\ j = f
                                         THEN Upsert(out.dup) ELSE put[j]
        BY <2>4, <2>6
    <2>8. CASE k = h
        <3>1. writes'[h] = IF out.put = Keep THEN writes[h] ELSE out.put
            BY <1>3, <2>5, <2>6, <2>7
        <3>2. out.put = Keep => Row(h)' = Row(h)
            BY <1>1, <1>3, <3>1, OpRow
        <3>3. out.put # Keep => Row(h)' = After(local[h], out)
            BY <1>3, <3>1 DEF Row, Applied, After
        <3> QED BY <1>1, <1>2, <2>1, <2>2, <2>8, <3>2, <3>3 DEF MergedAt, out
    <2>9. CASE k # h /\ out.dup # None /\ k = f
        <3>1. Row(k)' = ConflictDup(local[h])
            BY <2>5, <2>7, <2>9, OpRow
        <3> QED BY <1>1, <2>0, <2>1, <2>2, <2>5, <2>9, <3>1 DEF ForkedAt, out
    <2>10. CASE k # h /\ ~(out.dup # None /\ k = f)
        <3>1. writes'[k] = writes[k]
            BY <2>6, <2>7, <2>10
        <3> QED BY <1>1, <2>0, <2>1, <2>10, <3>1, OpRow
    <2> QED BY <2>8, <2>9, <2>10
<1> QED BY <1>2, <1>4, <1>5

LEMMA PushOutcomesRows ==
    ASSUME Inv, Inv', SpineInv, PushOutcomes, NEW k \in Handle
    PROVE  /\ store' = store /\ local' = local
           /\ Row(k)' = Row(k) \/ LandedAt(k)
           /\ Forgets(k)
<1>1. /\ pc = "PendingPush" /\ unserved = {}
      /\ UNCHANGED <<stored, local, pushes>>
      /\ in_flight' = None4All
      /\ pending_flag_pushes' = Forget(pending_flag_pushes)
      /\ pending_content_pushes' = Forget(pending_content_pushes)
      /\ pending_creates' = Forget(pending_creates)
    BY DEF PushOutcomes
<1>2. writes'[k] = IF PlacedAt(k) # {}
                   THEN LET h == Least(PlacedAt(k))
                        IN  Upsert(RekeyCreate(pending_creates[h],
                                               results[h].revision))
                   ELSE IF IsAccepted(k) THEN Confirmed(k)
                   ELSE writes[k]
    BY DEF PushOutcomes
<1>3. Forgets(k)
    <2>1. Owed(k)' = pushes[k]
        BY <1>1 DEF Owed, None4All
    <2>2. Owed(k)' \in {Owed(k), None}
        BY <2>1 DEF Owed
    <2> QED BY <1>1, <2>2 DEF Forgets, Forget
<1>4. IsAccepted(k) => /\ pending_flag_pushes'[k] = None
                       /\ pending_content_pushes'[k] = None
                       /\ pending_creates'[k] = None
    BY <1>1 DEF IsAccepted, Forget
<1>5. CASE PlacedAt(k) # {}
    <2>1. PICK h \in PlacedAt(k) : h = Least(PlacedAt(k))
        <3>1. PlacedAt(k) \in SUBSET Nat
            BY HandleFacts DEF PlacedAt
        <3> QED BY <1>5, <3>1, LeastIn
    <2>2. /\ h \in Handle /\ IsAccepted(h) /\ pending_creates[h] # None
          /\ results[h].assigned = k
        BY <2>1 DEF PlacedAt
    <2>3. /\ pending_creates[h] \in ReplicaPlacement
          /\ results[h].revision \in Opt(Nat)
        BY <1>1, <2>2, RowTypes, AcceptedFacts DEF Inv
    <2>4. RekeyCreate(pending_creates[h], results[h].revision) \in ReplicaPlacement
        BY <2>3, RekeyCreateType
    <2>5. Row(k)' = RekeyCreate(pending_creates[h], results[h].revision)
        BY <1>2, <1>5, <2>1, <2>4, OpRow
    <2> QED BY <1>1, <1>3, <2>2, <2>5 DEF LandedAt
<1>6. CASE PlacedAt(k) = {} /\ IsAccepted(k)
    <2>1. writes'[k] = Confirmed(k)
        BY <1>2, <1>6
    <2>2. results[k].revision \in Opt(Nat)
        BY <1>1, <1>6, AcceptedFacts
    <2>3. \/ Confirmed(k) = Drop("Superseded") \/ Confirmed(k) = Drop("Deleted")
          \/ /\ pending_content_pushes[k] # None
             /\ Confirmed(k) = Upsert(RebaseContent(pending_content_pushes[k],
                                                    results[k].revision))
          \/ /\ pending_flag_pushes[k] # None
             /\ Confirmed(k) = Upsert(Rebase(pending_flag_pushes[k],
                                             pending_flag_pushes[k].flags))
        BY <1>1, <1>6, AcceptedFacts DEF Confirmed
    <2>4. CASE \/ Confirmed(k) = Drop("Superseded")
               \/ Confirmed(k) = Drop("Deleted")
        <3>1. Row(k)' = None
            BY <2>1, <2>4, OpRow DEF DropReason
        <3> QED BY <1>1, <1>3, <1>4, <1>6, <3>1 DEF LandedAt
    <2>5. CASE /\ pending_content_pushes[k] # None
               /\ Confirmed(k) = Upsert(RebaseContent(pending_content_pushes[k],
                                                      results[k].revision))
        <3>1. RebaseContent(pending_content_pushes[k], results[k].revision)
                 \in ReplicaPlacement
            BY <2>2, <2>5, RowTypes, RebaseContentType DEF Inv
        <3>2. Row(k)' = RebaseContent(pending_content_pushes[k], results[k].revision)
            BY <2>1, <2>5, <3>1, OpRow
        <3> QED BY <1>1, <1>3, <1>4, <1>6, <2>5, <3>2 DEF LandedAt
    <2>6. CASE /\ pending_flag_pushes[k] # None
               /\ Confirmed(k) = Upsert(Rebase(pending_flag_pushes[k],
                                               pending_flag_pushes[k].flags))
        <3>1. Rebase(pending_flag_pushes[k], pending_flag_pushes[k].flags)
                 \in ReplicaPlacement
            BY <2>6, RowTypes, FlagRewriteType DEF Inv, ReplicaPlacement
        <3>2. Row(k)' = Rebase(pending_flag_pushes[k], pending_flag_pushes[k].flags)
            BY <2>1, <2>6, <3>1, OpRow
        <3> QED BY <1>1, <1>3, <1>4, <1>6, <2>6, <3>2 DEF LandedAt
    <2> QED BY <2>3, <2>4, <2>5, <2>6
<1>7. CASE PlacedAt(k) = {} /\ ~IsAccepted(k)
    BY <1>1, <1>2, <1>3, <1>7, OpRow
<1> QED BY <1>1, <1>3, <1>5, <1>6, <1>7

(* Every step of a run but the one that ends it. *)
LEMMA RunRows ==
    ASSUME Inv, Inv', SpineInv, [Next]_vars, pc # "Idle", pc' # "Idle",
           NEW k \in Handle
    PROVE  /\ Batched /\ local' = local
           /\ \/ Row(k)' = Row(k) /\ Forgets(k)
              \/ MergedAt(k) /\ store' = store
              \/ ForkedAt(k) /\ Forgets(k) /\ store' = store
              \/ LandedAt(k) /\ Forgets(k) /\ store' = store
<1> DEFINE Same == Row(k)' = Row(k) /\ Forgets(k)
<1>1. UNCHANGED <<store, writes, pushes, in_flight, pendings>> => Same
    BY DEF Row, Owed, Forgets
<1>2. CASE UNCHANGED vars
    BY <1>1, <1>2 DEF vars, Batched
<1>3. CASE \E o \in Options : Begin(o)
    BY <1>3 DEF Begin
<1>4. CASE User
    BY <1>4, UserMutates DEF Mutate
<1>5. CASE Others
    BY <1>1, <1>5, OthersMove DEF OtherClient, Batched
<1>6. CASE Fault
    <2>1. CASE Crash
        BY <2>1 DEF Crash, EndRun
    <2>2. CASE Refuse \/ \E h \in Handle : Silence(h)
        BY <1>1, <2>2 DEF Refuse, Silence, Batched
    <2> QED BY <1>6, <2>1, <2>2 DEF Fault
<1>7. CASE Enumerate
    BY <1>1, <1>7 DEF Enumerate, Batched
<1>8. CASE MergeStep
    BY <1>8, MergeStepRows DEF Batched
<1>9. CASE MergeWrite
    <2>1. \A h \in Handle : store'[h] = Row(h) /\ Row(h)' = Row(h)
        BY <1>9, WriteRows DEF MergeWrite
    <2>2. UNCHANGED <<pushes, in_flight, pendings, local>>
        BY <1>9 DEF MergeWrite
    <2> QED BY <2>1, <2>2 DEF Batched, Forgets, Owed
<1>10. CASE MergeEnd
    <2>1. Step /\ pc # "PendingPush" /\ unserved = {}
          /\ UNCHANGED <<store, writes, local, pendings>>
        BY <1>10 DEF MergeEnd, SpineInv, PlaceInv
    <2>2. Owed(k)' = Owed(k)
        BY <2>1, StepOwes
    <2> QED BY <2>1, <2>2 DEF Batched, Forgets, Row
<1>11. CASE Serve
    BY <1>1, <1>11 DEF Serve, Batched
<1>12. CASE PushOutcomes
    BY <1>12, PushOutcomesRows DEF Batched
<1>13. CASE ChunkWrite
    <2>1. Step /\ pc # "PendingPush" /\ unserved = {} /\ WriteBatch
          /\ UNCHANGED <<local, pendings>>
        BY <1>13 DEF ChunkWrite, SpineInv, PlaceInv
    <2>2. Owed(k)' = Owed(k)
        BY <2>1, StepOwes
    <2>3. \A h \in Handle : store'[h] = Row(h) /\ Row(h)' = Row(h)
        BY <2>1, WriteRows
    <2> QED BY <2>1, <2>2, <2>3 DEF Batched, Forgets
<1>14. CASE LastWrite
    BY <1>14 DEF LastWrite, EndRun
<1> QED BY <1>2, <1>3, <1>4, <1>5, <1>6, <1>7, <1>8, <1>9, <1>10, <1>11, <1>12,
           <1>13, <1>14 DEF Next, Run

(* The step that ends a run. *)
LEMMA EndRows ==
    ASSUME Inv, Inv', SpineInv, [Next]_vars, pc # "Idle", pc' = "Idle",
           NEW k \in Handle
    PROVE  /\ EndRun /\ UNCHANGED <<items, gone, seq>>
           /\ store' = store \/ \A h \in Handle : store'[h] = Row(h)
           /\ Row(k)' = store'[k]
<1> DEFINE Kept4All == writes' = [h \in Handle |-> Keep]
<1>1. Kept4All => Row(k)' = store'[k]
    BY DEF Row, Applied
<1>2. CASE LastWrite
    <2>1. WriteBatch /\ EndRun /\ UNCHANGED remoteVars
        BY <1>2 DEF LastWrite
    <2>2. \A h \in Handle : store'[h] = Row(h)
        BY <2>1, WriteRows
    <2> QED BY <1>1, <2>1, <2>2 DEF WriteBatch
<1>3. CASE Crash
    BY <1>1, <1>3 DEF Crash
<1>4. CASE UNCHANGED vars
    BY <1>4 DEF vars
<1>5. CASE (\E o \in Options : Begin(o)) \/ User
    BY <1>5, UserMutates DEF Begin, Mutate
<1>6. CASE Others
    BY <1>6, OthersMove DEF OtherClient
<1>7. CASE Refuse \/ \E h \in Handle : Silence(h)
    BY <1>7 DEF Refuse, Silence
<1>8. CASE Enumerate \/ MergeWrite \/ Serve \/ PushOutcomes
    BY <1>8 DEF Enumerate, MergeWrite, Serve, PushOutcomes
<1>9. CASE MergeStep
    BY <1>9 DEF MergeStep, Skip, Merge
<1>10. CASE MergeEnd \/ ChunkWrite
    BY <1>10 DEF MergeEnd, ChunkWrite, Step
<1> QED BY <1>2, <1>3, <1>4, <1>5, <1>6, <1>7, <1>8, <1>9, <1>10
        DEF Next, Run, Fault

--------------------------------------------------------------------------------
(* The inductive invariant all of it rests on.                             *)

(* Every row the store or the run holds for h. *)
Slots(h) ==
    {store[h], Row(h), local[h], pending_flag_pushes[h],
     pending_content_pushes[h], pending_creates[h]}

(* The server has assigned h. *)
Used(h) == items[h] # None \/ gone[h] # 0

(* Nobody has seen a flag set that was not read. *)
KnownInv ==
    \A h \in Handle :
        /\ \A p \in Slots(h) : KnownFlags(p)
        /\ KnownChange(Owed(h))
        /\ items[h] # None => items[h].flags \in SUBSET Flag
        /\ (Enumerated /\ snap.items[h] # None) =>
              snap.items[h].flags \in SUBSET Flag

(* A row at a server's handle is one of a member there was, so a create is *)
(* placed where the run loaded nothing.                                    *)
UsedInv ==
    /\ \A h \in ServerHandle : \A p \in Slots(h) : p # None => Used(h)
    /\ \A h \in Handle :
          (results[h] # None /\ results[h].assigned # None) =>
              local[results[h].assigned] = None

LoadInv == pc = "Idle" => \A h \in Handle : local[h] = None

HeldInv == KnownInv /\ UsedInv /\ LoadInv

(* Every row held for h shows what the user flipped in the one loaded.     *)
IntentInv ==
    \A h \in Handle : \A q \in Slots(h) : KeepsIntent(local[h], q)

(* The fork-free instances: a batch points at no body the store does not,  *)
(* and neither does a row kept in mind.                                    *)
Unforked == \A o \in Options : o.conflict # "KeepBoth"

PointInv ==
    \A h \in Handle :
        /\ Bodies(Row(h)) \subseteq Referenced(store)
        /\ \A q \in {pending_flag_pushes[h], pending_content_pushes[h],
                     pending_creates[h]} :
              /\ Bodies(q) \subseteq Bodies(Row(h))
              /\ q # None => local[h] # None
        /\ (pc = "PendingEnumerate" \/ h \in todo) => Row(h) = local[h]

(* The sources that take every change.                                     *)
Obliging == "refuse" \notin Faults /\ \A o \in Options : Free(o)

(* The base of p has the flags of the member the cursor c covers. *)
FlagCovers(h, p, c) ==
    (p # None /\ p.base # None /\ items[h] # None /\ items[h].seq <= c) =>
        p.base.flags = items[h].flags

(* A clean row stands at its base. *)
StandInv ==
    \A h \in Handle : AtBase(store[h]) /\ AtBase(Row(h)) /\ AtBase(local[h])

(* A base has the flags of what the cursor covers. *)
CoverInv ==
    checkpoint # None =>
        \A h \in Handle : /\ FlagCovers(h, store[h], checkpoint)
                          /\ FlagCovers(h, Row(h), checkpoint)
                          /\ FlagCovers(h, local[h], checkpoint)

(* The snapshot listed the flags of every member not moved since. *)
ListedInv ==
    Enumerated =>
        \A h \in Handle : (~Newer(h) /\ snap.items[h] # None) =>
                             snap.items[h].flags = items[h].flags

(* So has a row the join has walked, unless its change is to be answered. *)
WalkedInv ==
    Enumerated =>
        \A h \in Handle :
            h \notin todo => \/ FlagCovers(h, Row(h), snap.checkpoint)
                             \/ pushes[h] # None \/ h \in unserved

MirrorInv == StandInv /\ CoverInv /\ ListedInv /\ WalkedInv

(* The slots of a handle after a step of a run: as they were, or what the  *)
(* merge of it made, or the fork or the outcome written for it.            *)
LEMMA SlotStep ==
    ASSUME Inv, Inv', SpineInv, [Next]_vars, pc # "Idle", NEW k \in Handle,
           NEW x \in Slots(k)'
    PROVE  \/ x \in Slots(k) \/ x = None
           \/ /\ MergedAt(k) /\ pc' # "Idle"
              /\ LET out == OutcomeOf(k)
                 IN  x \in {After(local[k], out), out.flag, out.content, out.create}
           \/ (ForkedAt(k) \/ LandedAt(k)) /\ x = Row(k)' /\ pc' # "Idle"
<1>1. x \in {store'[k], Row(k)', local'[k], pending_flag_pushes'[k],
             pending_content_pushes'[k], pending_creates'[k]}
    BY DEF Slots
<1>2. CASE pc' = "Idle"
    <2>1. /\ EndRun /\ Row(k)' = store'[k]
          /\ store'[k] \in {store[k], Row(k)}
        BY <1>2, EndRows
    <2>2. x \in {store'[k], None}
        BY <1>1, <2>1 DEF EndRun, None4All
    <2> QED BY <2>1, <2>2 DEF Slots
<1>3. CASE pc' # "Idle"
    <2>1. /\ Batched /\ local' = local
          /\ \/ Row(k)' = Row(k) /\ Forgets(k)
             \/ MergedAt(k) /\ store' = store
             \/ ForkedAt(k) /\ Forgets(k) /\ store' = store
             \/ LandedAt(k) /\ Forgets(k) /\ store' = store
        BY <1>3, RunRows
    <2>2. store'[k] \in Slots(k) /\ local'[k] \in Slots(k) /\ Row(k) \in Slots(k)
        BY <2>1 DEF Slots, Batched
    <2>3. Forgets(k) =>
            /\ pending_flag_pushes'[k] \in Slots(k) \cup {None}
            /\ pending_content_pushes'[k] \in Slots(k) \cup {None}
            /\ pending_creates'[k] \in Slots(k) \cup {None}
        BY DEF Forgets, Slots
    <2>4. CASE MergedAt(k)
        <3>1. LET out == OutcomeOf(k)
              IN  /\ pending_flag_pushes'[k] = out.flag
                  /\ pending_content_pushes'[k] = out.content
                  /\ pending_creates'[k] = out.create
                  /\ Row(k)' \in {Row(k), After(local[k], out)}
            BY <2>4 DEF MergedAt
        <3> QED BY <1>1, <1>3, <2>2, <2>4, <3>1
    <2> QED BY <1>1, <1>3, <2>1, <2>2, <2>3, <2>4
<1> QED BY <1>2, <1>3

(* What the merge of k hands on, of a row that is known. *)
LEMMA OutcomeMade ==
    ASSUME Inv, SpineInv, HeldInv, pc = "Joining", NEW k \in todo, ~Untouched(k)
    PROVE  /\ RowMade(OutcomeOf(k), local[k], Item(k), opts)
           /\ k \in Handle
           /\ Item(k) # None => /\ Item(k).flags \in SUBSET Flag
                                /\ k \in ServerHandle /\ Used(k)
<1>1. /\ k \in Handle /\ TypeOK /\ local[k] \in Opt(ReplicaPlacement)
      /\ opts \in ReplicaSyncOptions /\ snap.checkpoint \in Nat
      /\ gone[k] \in Nat
    BY AheadFacts
<1>2. /\ Item(k) \in Opt(ReplicaRemoteItem)
      /\ Item(k) # None => k \in ServerHandle /\ GoneSince(k)
    BY ItemOK
<1>3. Item(k) # None => Item(k).flags \in SUBSET Flag
    <2>1. /\ snap.items[k] # None => snap.items[k].flags \in SUBSET Flag
          /\ KnownFlags(local[k])
        BY <1>1 DEF HeldInv, KnownInv, Slots, Enumerated
    <2>2. local[k] # None /\ local[k].base # None =>
             StandIn(local[k]).flags = local[k].base.flags
        BY DEF StandIn
    <2>3. \/ Item(k) = None \/ Item(k) = snap.items[k]
          \/ snap.items[k] = None /\ Item(k) = StandIn(local[k])
        BY DEF Item, NarrowedItem
    <2>4. (~snap.complete /\ k \notin snap.vanished /\ snap.items[k] = None) =>
             local[k] # None
        BY DEF Untouched, IsCandidate
    <2>5. local[k] # None /\ local[k].base = None => StandIn(local[k]) = None
        BY DEF StandIn
    <2> QED BY <2>1, <2>2, <2>3, <2>4, <2>5 DEF KnownFlags, Item, NarrowedItem
<1>4. KnownFlags(local[k])
    BY <1>1 DEF HeldInv, KnownInv, Slots
<1>5. OutcomeOf(k) = MergeCandidate(local[k], Item(k), opts)
    BY DEF OutcomeOf, Item
<1>6. RowMade(OutcomeOf(k), local[k], Item(k), opts)
    BY <1>1, <1>2, <1>3, <1>4, <1>5, CandidateMade
<1>7. Item(k) # None => Used(k)
    BY <1>1, <1>2 DEF GoneSince, Used
<1> QED BY <1>1, <1>2, <1>3, <1>6, <1>7

LEMMA UsedStays ==
    ASSUME Inv, RemoteStep \/ UNCHANGED <<items, gone>>, NEW h \in Handle, Used(h)
    PROVE  Used(h)'
BY ItemFacts DEF RemoteStep, Used, Inv

(* What the run rewrites of a row once its change is accepted. *)
LEMMA LandedRow ==
    ASSUME Inv, SpineInv, NEW k \in Handle, LandedAt(k)
    PROVE  \/ Row(k)' = None
           \/ /\ IsAccepted(k)
              /\ \E p \in {pending_flag_pushes[k], pending_content_pushes[k]} :
                    /\ p \in ReplicaPlacement
                    /\ Row(k)' # None /\ Row(k)'.flags = p.flags
                    /\ Row(k)'.base # None
                    /\ \/ /\ p = pending_flag_pushes[k]
                          /\ Row(k)'.base.flags = p.flags
                       \/ /\ p = pending_content_pushes[k]
                          /\ Row(k)'.base.flags =
                                IF p.base = None THEN {} ELSE p.base.flags
                    /\ Bodies(Row(k)') \subseteq Bodies(p)
                    /\ Row(k)'.status = "Clean" =>
                          Row(k)'.flags = Row(k)'.base.flags
           \/ \E h \in Handle :
                 /\ IsAccepted(h) /\ pending_creates[h] \in ReplicaPlacement
                 /\ results[h].assigned = k /\ k \in ServerHandle
                 /\ Used(k)
                 /\ Row(k)' # None /\ Row(k)'.flags = pending_creates[h].flags
                 /\ Row(k)'.base # None
                 /\ Row(k)'.base.flags = pending_creates[h].flags
                 /\ Bodies(Row(k)') \subseteq Bodies(pending_creates[h])
<1>0. pc = "PendingPush" /\ TypeOK
    BY DEF LandedAt, Inv
<1>1. CASE IsAccepted(k) /\ Row(k)' = None
    BY <1>1
<1>2. CASE /\ IsAccepted(k) /\ pending_content_pushes[k] # None
           /\ Row(k)' = RebaseContent(pending_content_pushes[k], results[k].revision)
    <2> DEFINE p == pending_content_pushes[k]
               q == RebaseContent(p, results[k].revision)
               fl == IF p.base = None THEN {} ELSE p.base.flags
               b == [flags |-> fl, revision |-> results[k].revision,
                     object |-> p.object]
    <2>1. p \in ReplicaPlacement /\ results[k].revision \in Opt(Nat)
        BY <1>0, <1>2, RowTypes, AcceptedFacts
    <2>2. q \in ReplicaPlacement
        BY <2>1, RebaseContentType
    <2>3. /\ q.flags = p.flags /\ q.base = b /\ q.object = p.object
          /\ q.status = "Clean" => p.flags = fl
        BY <2>1 DEF RebaseContent, ReplicaPlacement
    <2>4. b.flags = fl /\ b.object = p.object
        OBVIOUS
    <2>5. b # None
        <3>1. fl \in ReplicaFlags
            BY <2>1 DEF ReplicaPlacement, ReplicaBase, ReplicaFlags
        <3>2. b \in ReplicaBase
            BY <2>1, <3>1 DEF ReplicaPlacement, ReplicaBase
        <3> QED BY <3>2, SentinelAssumption
    <2> HIDE DEF q, b
    <2>6. q # None /\ p # None
        BY <2>1, <2>2, SentinelAssumption
    <2>7. Bodies(q) \subseteq Bodies(p)
        BY <2>3, <2>4, <2>5, <2>6 DEF Bodies
    <2>8. Row(k)' = q
        BY <1>2 DEF q
    <2> QED BY <1>2, <2>1, <2>3, <2>4, <2>5, <2>6, <2>7, <2>8
<1>3. CASE /\ IsAccepted(k) /\ pending_flag_pushes[k] # None
           /\ Row(k)' = Rebase(pending_flag_pushes[k], pending_flag_pushes[k].flags)
    <2> DEFINE p == pending_flag_pushes[k]
               q == Rebase(p, p.flags)
               b == FlagBase(p, p.flags)
    <2>1. p \in ReplicaPlacement /\ p.flags \in ReplicaFlags
        BY <1>0, <1>3, RowTypes DEF ReplicaPlacement
    <2>2. q \in ReplicaPlacement /\ b \in ReplicaBase
        BY <2>1, FlagRewriteType, FlagBaseType
    <2>3. q.flags = p.flags /\ q.base = b /\ q.object = p.object
        BY <2>1 DEF Rebase, ReplicaPlacement
    <2>4. /\ b.flags = p.flags
          /\ b.object = IF p.base = None THEN None ELSE p.base.object
        BY DEF FlagBase
    <2> HIDE DEF q, b
    <2>5. q # None /\ p # None /\ b # None
        BY <2>1, <2>2, SentinelAssumption
    <2>6. Bodies(q) \subseteq Bodies(p)
        BY <2>3, <2>4, <2>5 DEF Bodies
    <2>7. Row(k)' = q
        BY <1>3 DEF q
    <2> QED BY <1>3, <2>1, <2>3, <2>4, <2>5, <2>6, <2>7
<1>4. ASSUME NEW h \in Handle, IsAccepted(h), pending_creates[h] # None,
             results[h].assigned = k,
             Row(k)' = RekeyCreate(pending_creates[h], results[h].revision)
      PROVE  /\ IsAccepted(h) /\ pending_creates[h] \in ReplicaPlacement
             /\ results[h].assigned = k /\ k \in ServerHandle /\ Used(k)
             /\ Row(k)' # None /\ Row(k)'.flags = pending_creates[h].flags
             /\ Row(k)'.base # None
             /\ Row(k)'.base.flags = pending_creates[h].flags
             /\ Bodies(Row(k)') \subseteq Bodies(pending_creates[h])
    <2> DEFINE p == pending_creates[h]
               q == RekeyCreate(p, results[h].revision)
               b == [flags |-> p.flags, revision |-> results[h].revision,
                     object |-> p.object]
    <2>1. p \in ReplicaPlacement /\ results[h].revision \in Opt(Nat)
        BY <1>0, <1>4, RowTypes, AcceptedFacts
    <2>2. q \in ReplicaPlacement
        BY <2>1, RekeyCreateType
    <2>3. q.flags = p.flags /\ q.base = b /\ q.object = p.object
        BY <2>1 DEF RekeyCreate, ReplicaPlacement
    <2>4. b.flags = p.flags /\ b.object = p.object
        OBVIOUS
    <2>5. b # None
        <3>1. b \in ReplicaBase
            BY <2>1 DEF ReplicaPlacement, ReplicaBase
        <3> QED BY <3>1, SentinelAssumption
    <2> HIDE DEF q, b
    <2>6. q # None /\ p # None
        BY <2>1, <2>2, SentinelAssumption
    <2>7. Bodies(q) \subseteq Bodies(p)
        BY <2>3, <2>4, <2>5, <2>6 DEF Bodies
    <2>8. Row(k)' = q
        BY <1>4 DEF q
    <2>9. k \in ServerHandle /\ Used(k)
        <3>1. in_flight[h].kind = "Add" /\ ResultOK(h)
            BY <1>0, <1>4, AcceptedFacts
        <3>2. k # None
            BY RemoteAssumption
        <3>3. Moved(k, results[h].revision, p.object)
            BY <1>4, <3>1, <3>2 DEF ResultOK
        <3>4. gone[k] \in Nat /\ snap.checkpoint \in Nat
            BY <1>0 DEF Inv, TypeOK, Phases, ReplicaRemoteSnapshot
        <3> QED BY <3>3, <3>4 DEF Moved, GoneSince, Used
    <2> QED BY <1>4, <2>1, <2>3, <2>4, <2>5, <2>6, <2>7, <2>8, <2>9
<1> QED BY <1>1, <1>2, <1>3, <1>4 DEF LandedAt

(* What the user makes of a row: its base keeps its flags. *)
UserRewrite(p, q) ==
    /\ KnownFlags(p) => KnownFlags(q)
    /\ AtBase(p) => AtBase(q)
    /\ q.base # None => p # None /\ p.base # None /\ q.base.flags = p.base.flags

(* What a mutation other than an edit leaves of the content of a row.      *)
Unedited(p, q) ==
    IF p = None THEN q.base = None /\ q.status = "Created"
    ELSE /\ q.object = p.object /\ q.base = p.base
         /\ p.status \in {"Created", "Tombstone"} =>
               q.status \in {"Created", "Tombstone"}

LEMMA SetFlagsRewrites ==
    ASSUME NEW p \in ReplicaPlacement, NEW flags \in SUBSET Flag
    PROVE  /\ UserRewrite(p, SetFlagsMutation(p, flags))
           /\ Unedited(p, SetFlagsMutation(p, flags))
<1> DEFINE status == IF p.status = "Clean" THEN "Dirty" ELSE p.status
           q      == [p EXCEPT !.flags = flags, !.status = status]
<1>1. SetFlagsMutation(p, flags) = q
    BY DEF SetFlagsMutation, ReplicaPlacement
<1>2. /\ q.flags = flags /\ q.base = p.base /\ q.object = p.object
      /\ q.status = status /\ status # "Clean"
      /\ p.status \in {"Created", "Tombstone"} => status = p.status
    BY DEF ReplicaPlacement
<1> HIDE DEF q, status
<1> QED BY <1>1, <1>2, SentinelAssumption
        DEF UserRewrite, KnownFlags, AtBase, Unedited

LEMMA TombstoneRewrites ==
    ASSUME NEW p \in ReplicaPlacement, NEW q,
           \/ q = RemoveMutation(p)
           \/ \E destination : q = MoveMutation(p, destination)
    PROVE  UserRewrite(p, q) /\ Unedited(p, q)
<1>1. /\ q.flags = p.flags /\ q.base = p.base /\ q.status = "Tombstone"
      /\ q.object = p.object
    BY DEF RemoveMutation, MoveMutation, ReplicaPlacement
<1> QED BY <1>1, SentinelAssumption DEF UserRewrite, KnownFlags, AtBase, Unedited

LEMMA EditRewrites ==
    ASSUME NEW p \in ReplicaPlacement, NEW object \in Body,
           NEW meta \in Opt(ReplicaMeta), p.status = "Conflict" => p.base # None
    PROVE  UserRewrite(p, EditMutation(p, object, meta))
<1> DEFINE resolving == p.status = "Conflict"
           settled   == [flags    |-> IF p.base = None THEN p.flags ELSE p.base.flags,
                         revision |-> p.conflict_revision,
                         object   |-> p.conflict_object]
           base      == IF resolving THEN settled ELSE p.base
           staged    == IF base = None THEN TRUE ELSE base.object # object
           status    == IF p.status # "Created" /\ (staged \/ resolving)
                        THEN "Dirty" ELSE p.status
           q         == EditMutation(p, object, meta)
<1>1. q.flags = p.flags /\ q.base = base /\ q.status = status
    BY DEF EditMutation, ReplicaPlacement
<1>2. base # None => p.base # None /\ base.flags = p.base.flags
    <2>1. CASE resolving
        <3>1. settled.flags = p.base.flags /\ p.base # None
            BY <2>1
        <3> QED BY <2>1, <3>1
    <2>2. CASE ~resolving
        BY <2>2
    <2> QED BY <2>1, <2>2
<1>3. status = "Clean" => p.status = "Clean" /\ base = p.base
    OBVIOUS
<1>4. q = EditMutation(p, object, meta) /\ p # None
    BY SentinelAssumption
<1> HIDE DEF q, base, status
<1>5. UserRewrite(p, q)
    BY <1>1, <1>2, <1>3, <1>4 DEF UserRewrite, KnownFlags, AtBase
<1> QED BY <1>4, <1>5

LEMMA CreateRewrites ==
    ASSUME NEW q, q.status = "Created", q.base = None, q.flags \in SUBSET Flag
    PROVE  UserRewrite(None, q) /\ Unedited(None, q)
BY DEF UserRewrite, KnownFlags, AtBase, Unedited

(* A mutation rewrites one row, or makes one at a placeholder. *)
LEMMA UserRow ==
    ASSUME Inv, SpineInv, User
    PROVE  \E op, q : \E h \in Handle :
              /\ Mutate(op) /\ store' = [store EXCEPT ![h] = q]
              /\ UserRewrite(store[h], q) /\ (op # "Edit" => Unedited(store[h], q))
              /\ h \notin ServerHandle \/ store[h] # None
<1>1. ASSUME NEW h \in Handle, Target(h)
      PROVE  /\ store[h] \in ReplicaPlacement /\ store[h] # None
             /\ store[h].status = "Conflict" => store[h].base # None
    BY <1>1 DEF Inv, TypeOK, Target, SpineInv, RowsInv, RowOK, Shape
<1>2. PICK h \in Handle :
        \/ \E flags \in SUBSET Flag : UserSetFlags(h, flags)
        \/ UserRemove(h)
        \/ UserEdit(h)
        \/ \E link \in Authored : UserAdd(h, link)
        \/ \E destination \in Origin : UserMove(h, destination)
        \/ \E flags \in SUBSET Flag, object \in Opt(Body), origin \in Origin :
              UserCopy(h, CopySource(flags, object), origin)
    BY DEF User
<1> DEFINE Goal(op, q) ==
        /\ Mutate(op) /\ store' = [store EXCEPT ![h] = q]
        /\ UserRewrite(store[h], q) /\ (op # "Edit" => Unedited(store[h], q))
        /\ h \notin ServerHandle \/ store[h] # None
<1>3. ASSUME NEW flags \in SUBSET Flag, UserSetFlags(h, flags)
      PROVE  Goal("SetFlags", SetFlagsMutation(store[h], flags))
    BY <1>1, <1>3, SetFlagsRewrites DEF UserSetFlags
<1>4. UserRemove(h) => Goal("Remove", RemoveMutation(store[h]))
    BY <1>1, TombstoneRewrites DEF UserRemove
<1>5. ASSUME NEW destination \in Origin, UserMove(h, destination)
      PROVE  Goal("Move", MoveMutation(store[h], destination))
    BY <1>1, <1>5, TombstoneRewrites DEF UserMove
<1>6. ASSUME UserEdit(h) PROVE \E op, q : Goal(op, q)
    <2>1. PICK b \in (IF FreshBodies = {} THEN {} ELSE {NewBody})
                      \cup (IF store[h].base = None THEN {}
                            ELSE {store[h].base.object} \ {None}),
               meta \in Summaries :
              store' = [store EXCEPT ![h] = EditMutation(store[h], b, meta)]
        BY <1>6 DEF UserEdit
    <2>2. Mutate("Edit") /\ Target(h)
        BY <1>6 DEF UserEdit
    <2>3. b \in Body
        <3>1. FreshBodies # {} => NewBody \in FreshBodies
            BY DEF NewBody
        <3>2. store[h].base # None => store[h].base.object \in Opt(Body)
            BY <1>1, <2>2 DEF ReplicaPlacement, ReplicaBase
        <3> QED BY <2>1, <3>1, <3>2 DEF FreshBodies
    <2>4. meta \in Opt(ReplicaMeta)
        BY SyncAssumption
    <2>5. UserRewrite(store[h], EditMutation(store[h], b, meta))
        BY <1>1, <2>2, <2>3, <2>4, EditRewrites
    <2> QED BY <1>1, <2>1, <2>2, <2>5
<1>7. h \in Provisional => h \notin ServerHandle
    BY SyncAssumption
<1>8. ASSUME NEW link \in Authored, UserAdd(h, link) PROVE \E op, q : Goal(op, q)
    <2>1. /\ Mutate("Add") /\ h \in Provisional /\ store[h] = None
        BY <1>8 DEF UserAdd
    <2>2. PICK meta \in Summaries :
              store' = [store EXCEPT ![h] = AddMutation(link, NewBody, meta, {})]
        BY <1>8 DEF UserAdd
    <2>3. /\ UserRewrite(None, AddMutation(link, NewBody, meta, {}))
          /\ Unedited(None, AddMutation(link, NewBody, meta, {}))
        BY CreateRewrites DEF AddMutation, CreatedPlacement
    <2> QED BY <1>7, <2>1, <2>2, <2>3
<1>9. ASSUME NEW flags \in SUBSET Flag, NEW object \in Opt(Body),
             NEW origin \in Origin, UserCopy(h, CopySource(flags, object), origin)
      PROVE  \E op, q : Goal(op, q)
    <2>1. /\ Mutate("Copy") /\ h \in Provisional /\ store[h] = None
          /\ store' = [store EXCEPT ![h] =
                          CopyMutation(CopySource(flags, object), origin)]
        BY <1>9 DEF UserCopy
    <2>2. CopySource(flags, object).flags = flags
        BY DEF CopySource, PullAdd
    <2>3. /\ UserRewrite(None, CopyMutation(CopySource(flags, object), origin))
          /\ Unedited(None, CopyMutation(CopySource(flags, object), origin))
        BY <2>2, CreateRewrites DEF CopyMutation, CreatedPlacement
    <2> QED BY <1>7, <2>1, <2>3
<1> HIDE DEF Goal
<1>10. \E op, q : Goal(op, q)
    BY <1>2, <1>3, <1>4, <1>5, <1>6, <1>8, <1>9
<1> QED BY <1>10 DEF Goal

(* The flags the server holds have been read. *)
ServerKnown ==
    \A h \in Handle : items[h] # None => items[h].flags \in SUBSET Flag

LEMMA OthersKnown ==
    ASSUME Inv, ServerKnown, Others
    PROVE  ServerKnown'
<1> USE DEF Inv, TypeOK, ServerItem
<1>1. ASSUME NEW h \in Handle, RemoteSeed(h) PROVE ServerKnown'
    <2> DEFINE m == Member(Hint[h], {}, SeedBody, seq + 1)
    <2>1. items' = [items EXCEPT ![h] = m]
        BY <1>1 DEF RemoteSeed
    <2>2. m.flags = {}
        BY DEF Member
    <2> HIDE DEF m
    <2> QED BY <2>1, <2>2 DEF ServerKnown
<1>2. ASSUME NEW h \in Handle, NEW flags \in SUBSET Flag, RemoteSetFlags(h, flags)
      PROVE  ServerKnown'
    <2> DEFINE m == [items[h] EXCEPT !.flags = flags, !.seq = seq + 1]
    <2>1. items[h] \in ServerItem /\ items' = [items EXCEPT ![h] = m]
        BY <1>2 DEF RemoteSetFlags
    <2>2. m.flags = flags
        BY <2>1
    <2> HIDE DEF m
    <2> QED BY <2>1, <2>2 DEF ServerKnown
<1>3. ASSUME NEW h \in Handle, NEW body \in Foreign, RemoteEdit(h, body)
      PROVE  ServerKnown'
    <2> DEFINE m == Rewritten(items[h], body, seq + 1)
    <2>1. items[h] \in ServerItem /\ items' = [items EXCEPT ![h] = m] /\ items[h] # None
        BY <1>3 DEF RemoteEdit
    <2>2. m.flags = items[h].flags
        BY <2>1, HandleFacts, ItemFacts, RewrittenFacts
    <2> HIDE DEF m
    <2> QED BY <2>1, <2>2 DEF ServerKnown
<1>4. ASSUME NEW h \in Handle, RemoteRemove(h) PROVE ServerKnown'
    BY <1>4 DEF RemoteRemove, ServerKnown
<1> QED
    BY <1>1, <1>2, <1>3, <1>4
       DEF Others, OthersSeed, OthersSetFlags, OthersEdit, OthersRemove

(* The server's side of a push: it holds what it was sent, and a create    *)
(* lands where no member ever was.                                         *)
LEMMA PushKnown ==
    ASSUME Inv, ServerKnown, NEW h \in Handle, NEW change \in ReplicaChange,
           KnownChange(change), Push(h, change)
    PROVE  /\ ServerKnown'
           /\ results'[h].assigned # None =>
                 LET k == results'[h].assigned
                 IN  k \in ServerHandle /\ ~Used(k)
           /\ (change.kind = "SetFlags" /\ items'[h] # None) =>
                 items'[h].flags = change.flags
           /\ change.kind # "SetFlags" =>
                 \A k \in Handle : (items[k] # None /\ items'[k] # None) =>
                     items'[k].flags = items[k].flags
<1> USE DEF Inv, TypeOK, ServerItem
<1>0. change # None
    BY MergeAssumption
<1>1. /\ Rejected.assigned = None
      /\ \A a, r : Accepted(a, r).assigned = a
      /\ \A r : Answer(h, r) => results'[h] = r
    BY DEF Rejected, Accepted, Answer
<1>2. CASE PushSetFlags(h, change)
    <2> DEFINE m == [items[h] EXCEPT !.flags = change.flags, !.seq = seq + 1]
    <2>1. /\ change.kind = "SetFlags" /\ change.flags \in SUBSET Flag
          /\ results'[h].assigned = None
          /\ items' = IF items[h] = None THEN items ELSE [items EXCEPT ![h] = m]
        BY <1>0, <1>1, <1>2 DEF PushSetFlags, KnownChange
    <2>2. items[h] # None => m.flags = change.flags
        OBVIOUS
    <2> HIDE DEF m
    <2> QED BY <2>1, <2>2 DEF ServerKnown
<1>3. CASE PushRemove(h, change)
    <2>1. change.kind = "Remove" /\ results'[h].assigned = None
        BY <1>1, <1>3 DEF PushRemove
    <2>2. items' = items \/ items' = [items EXCEPT ![h] = None]
        BY <1>3 DEF PushRemove
    <2> QED BY <2>1, <2>2 DEF ServerKnown
<1>4. CASE PushUpdate(h, change)
    <2> DEFINE m == Rewritten(items[h], change.object, seq + 1)
    <2>1. change.kind = "Update" /\ results'[h].assigned = None
        BY <1>1, <1>4 DEF PushUpdate
    <2>2. items' = items \/ (items[h] # None /\ items' = [items EXCEPT ![h] = m])
        BY <1>4 DEF PushUpdate
    <2>3. ASSUME items[h] # None PROVE m.flags = items[h].flags
        BY <2>3 DEF Rewritten
    <2> HIDE DEF m
    <2> QED BY <2>1, <2>2, <2>3 DEF ServerKnown
<1>5. CASE PushAdd(h, change)
    <2>1. change.kind = "Add" /\ change.flags \in SUBSET Flag
        BY <1>0, <1>5 DEF PushAdd, KnownChange
    <2>2. CASE UNCHANGED <<items, seq, landed>>
        <3>1. Answer(h, Rejected) \/ Answer(h, Accepted(None, None))
            BY <1>5, <2>2, AddedFacts, ItemFacts
        <3> QED BY <1>1, <2>1, <2>2, <3>1 DEF ServerKnown
    <2>3. CASE ~ UNCHANGED <<items, seq, landed>>
        <3>1. PICK new \in Unassigned, m \in ServerItem :
                /\ new \in ServerHandle /\ new \in Handle
                /\ items' = [items EXCEPT ![new] = m]
                /\ \/ Answer(h, Accepted(new, RevisionOf(seq + 1)))
                   \/ Answer(h, Accepted(None, None))
                /\ m.flags \in {change.flags} \cup SUBSET Flag
            BY <1>5, <2>3, AddedFacts
        <3>2. ~Used(new) /\ items[new] = None
            BY <3>1 DEF Unassigned, Used
        <3>3. results'[h].assigned \in {new, None}
            BY <1>1, <3>1
        <3>4. items'[new] = m /\ m.flags \in SUBSET Flag
              /\ \A k \in Handle \ {new} : items'[k] = items[k]
            BY <2>1, <3>1
        <3> QED BY <2>1, <3>1, <3>2, <3>3, <3>4 DEF ServerKnown
    <2> QED BY <2>2, <2>3
<1> QED BY <1>2, <1>3, <1>4, <1>5 DEF Push

(* Between runs. *)
LEMMA IdleStep ==
    ASSUME Inv, Inv', SpineInv, [Next]_vars, pc = "Idle"
    PROVE  /\ UNCHANGED <<pushes, in_flight, pendings, writes, todo>>
           /\ \A h \in Handle : Row(h) = store[h] /\ Row(h)' = store'[h]
           /\ \/ store' = store /\ local' = store /\ pc' = "PendingEnumerate"
                    /\ UNCHANGED <<items, gone, results>>
              \/ store' = store /\ local' = local /\ pc' = "Idle"
              \/ User /\ local' = local /\ pc' = "Idle" /\ UNCHANGED <<items, gone, results>>
<1>1. writes = [h \in Handle |-> Keep]
    BY DEF SpineInv, PlaceInv, Enumerated, Inv, TypeOK
<1>2. writes' = writes =>
         \A h \in Handle : Row(h) = store[h] /\ Row(h)' = store'[h]
    BY <1>1 DEF Row, Applied
<1>3. CASE \E o \in Options : Begin(o)
    BY <1>2, <1>3 DEF Begin
<1>4. CASE User
    BY <1>2, <1>4, UserMutates DEF Mutate
<1>5. CASE Others
    BY <1>2, <1>5, OthersMove DEF OtherClient
<1>6. CASE UNCHANGED vars
    BY <1>2, <1>6 DEF vars
<1>7. ~Run /\ ~Fault
    BY DEF Run, Fault, Enumerate, MergeStep, MergeWrite, MergeEnd, Serve, PushOutcomes,
           ChunkWrite, LastWrite, Crash, Refuse, Silence
<1> QED BY <1>3, <1>4, <1>5, <1>6, <1>7 DEF Next

LEMMA IdleSlots ==
    ASSUME Inv, Inv', SpineInv, [Next]_vars, pc = "Idle", NEW k \in Handle,
           NEW x \in Slots(k)'
    PROVE  x \in Slots(k) \/ (User /\ x = store'[k])
BY IdleStep DEF Slots

(* What a step does to the remote. *)
LEMMA ServerMoves ==
    ASSUME Inv, Inv', SpineInv, [Next]_vars
    PROVE  \/ /\ UNCHANGED <<items, gone, seq>>
              /\ \A h \in Handle : results'[h] \in {results[h], Rejected, None}
           \/ Others /\ RemoteStep /\ UNCHANGED <<stored, runVars, results>>
           \/ /\ Serve /\ RemoteStep
              /\ \E h \in unserved :
                    /\ h \in Handle /\ in_flight[h] \in ReplicaChange
                    /\ in_flight[h] = Owed(h) /\ pc = "PendingPush"
                    /\ Push(h, in_flight[h]) /\ unserved' = unserved \ {h}
                    /\ results' = [results EXCEPT ![h] = results'[h]]
                    /\ UNCHANGED <<stored, pc, mergeVars, writes, pushes,
                                   in_flight, next_checkpoint, pendings>>
<1> USE DEF Inv
<1>1. CASE Others
    BY <1>1, OthersRemote, OthersMove DEF OtherClient, SpineInv
<1>2. CASE Serve
    <2>1. PICK h \in unserved : Push(h, in_flight[h]) /\ unserved' = unserved \ {h}
        <3>1. unserved \in SUBSET Nat /\ unserved # {}
            BY <1>2, HandleFacts DEF TypeOK, Serve
        <3> QED BY <1>2, <3>1, LeastIn DEF Serve
    <2>2. /\ pc = "PendingPush"
          /\ UNCHANGED <<stored, pc, mergeVars, writes, pushes, in_flight,
                         next_checkpoint, pendings>>
        BY <1>2 DEF Serve
    <2>3. h \in Handle /\ in_flight[h] \in ReplicaChange
        BY DEF TypeOK, Phases
    <2>4. in_flight[h] = Owed(h)
        BY <2>3, MergeAssumption DEF Owed, OnePushPerHandle
    <2>5. RemoteStep /\ results' = [results EXCEPT ![h] = results'[h]]
        BY <2>1, <2>3, PushStep DEF SpineInv
    <2> QED BY <1>2, <2>1, <2>2, <2>3, <2>4, <2>5
<1>3. CASE Refuse
    BY <1>3 DEF Refuse, Answer, TypeOK
<1>4. ASSUME NEW h \in Handle, Silence(h)
      PROVE  /\ UNCHANGED <<items, gone, seq>>
             /\ \A k \in Handle : results'[k] \in {results[k], Rejected, None}
    BY <1>4 DEF Silence, Answer, TypeOK
<1>5. CASE Crash \/ PushOutcomes
    BY <1>5 DEF Crash, PushOutcomes, None4All
<1>6. CASE User
    BY <1>6, UserMutates DEF Mutate
<1>7. CASE (\E o \in Options : Begin(o)) \/ UNCHANGED vars
    BY <1>7 DEF Begin, vars
<1>8. CASE Enumerate \/ MergeStep \/ MergeWrite \/ MergeEnd \/ ChunkWrite \/ LastWrite
    BY <1>8 DEF Enumerate, MergeStep, MergeWrite, MergeEnd, ChunkWrite, LastWrite
<1> QED BY <1>1, <1>2, <1>3, <1>4, <1>5, <1>6, <1>7, <1>8 DEF Next, Run, Fault

(* The snapshot is the one taken, or it was just taken. *)
LEMMA SnapStep ==
    ASSUME Inv, [Next]_vars, Enumerated'
    PROVE  \/ Enumerated /\ snap' = snap
           \/ /\ Enumerate
              /\ UNCHANGED <<remoteVars, stored, local, writes, pushes, in_flight,
                             unserved, pendings>>
              /\ \E cursor \in Opt(Nat) : snap' = Snapshot(cursor)
<1>1. CASE Enumerate
    <2>1. snap' = Snapshot(IF opts.full THEN None ELSE checkpoint)
        BY <1>1 DEF Enumerate
    <2>2. (IF opts.full THEN None ELSE checkpoint) \in Opt(Nat)
        BY DEF Inv, TypeOK
    <2> QED BY <1>1, <2>1, <2>2 DEF Enumerate
<1>2. CASE (\E o \in Options : Begin(o)) \/ LastWrite \/ Crash
    BY <1>2 DEF Begin, LastWrite, Crash, EndRun, Enumerated
<1>3. CASE User
    BY <1>3, UserMutates DEF Mutate, Enumerated
<1>4. CASE Others
    BY <1>4, OthersMove DEF OtherClient, Enumerated
<1>5. CASE Refuse \/ (\E h \in Handle : Silence(h)) \/ UNCHANGED vars
    BY <1>5 DEF Refuse, Silence, vars, Enumerated
<1>6. CASE MergeStep \/ MergeWrite \/ MergeEnd \/ Serve \/ PushOutcomes \/ ChunkWrite
    BY <1>6 DEF MergeStep, MergeWrite, MergeEnd, Serve, PushOutcomes, ChunkWrite, Enumerated
<1> QED BY <1>1, <1>2, <1>3, <1>4, <1>5, <1>6 DEF Next, Run, Fault

--------------------------------------------------------------------------------
(* The invariant holds.                                                    *)

LEMMA InitHeld ==
    ASSUME Init
    PROVE  /\ HeldInv /\ IntentInv
           /\ \A h \in Handle : /\ Slots(h) = {None} /\ Owed(h) = None
                                /\ Row(h) = None
<1>1. /\ \A h \in Handle : /\ store[h] = None /\ writes[h] = Keep /\ local[h] = None
                           /\ pending_flag_pushes[h] = None
                           /\ pending_content_pushes[h] = None
                           /\ pending_creates[h] = None
                           /\ pushes[h] = None /\ in_flight[h] = None
                           /\ results[h] = None
                           /\ items[h] # None => items[h].flags = {}
      /\ pc = "Idle"
    BY DEF Init, NoRun, None4All, RemoteInit, Member
<1>2. \A h \in Handle : Row(h) = None /\ Slots(h) = {None} /\ Owed(h) = None
    BY <1>1 DEF Row, Applied, Slots, Owed
<1>3. KnownInv
    BY <1>1, <1>2 DEF KnownInv, KnownFlags, KnownChange, Enumerated
<1>4. UsedInv
    <2>1. \A h \in ServerHandle : Slots(h) = {None}
        BY <1>2, HandleFacts
    <2> QED BY <1>1, <2>1 DEF UsedInv
<1>5. LoadInv /\ IntentInv
    BY <1>1, <1>2 DEF LoadInv, IntentInv, KeepsIntent
<1> QED BY <1>2, <1>3, <1>4, <1>5 DEF HeldInv

LEMMA KnownNext ==
    ASSUME Inv, Inv', SpineInv, HeldInv, [Next]_vars
    PROVE  KnownInv'
<1>1. ServerKnown
    BY DEF HeldInv, KnownInv, ServerKnown
<1>2. ServerKnown'
    <2>1. CASE UNCHANGED items
        BY <1>1, <2>1 DEF ServerKnown
    <2>2. CASE Others
        BY <1>1, <2>2, OthersKnown
    <2>3. ASSUME NEW h \in Handle, in_flight[h] \in ReplicaChange,
                 in_flight[h] = Owed(h), Push(h, in_flight[h])
          PROVE  ServerKnown'
        <3>1. KnownChange(in_flight[h])
            BY <2>3 DEF HeldInv, KnownInv
        <3> QED BY <1>1, <2>3, <3>1, PushKnown
    <2> QED BY <2>1, <2>2, <2>3, ServerMoves
<1>3. ASSUME NEW k \in Handle, NEW x \in Slots(k)' PROVE KnownFlags(x)
    <2>1. x \in Slots(k) \/ x = None => KnownFlags(x)
        BY DEF HeldInv, KnownInv, KnownFlags
    <2>2. CASE pc = "Idle" /\ User /\ x = store'[k] /\ x \notin Slots(k)
        <3>0. PICK op, q : \E h \in Handle : /\ store' = [store EXCEPT ![h] = q]
                                            /\ UserRewrite(store[h], q)
            BY <2>2, UserRow
        <3>1. PICK h \in Handle : /\ store' = [store EXCEPT ![h] = q]
                                  /\ UserRewrite(store[h], q)
            BY <3>0
        <3>2. store'[k] = store[k] \/ (k = h /\ store'[k] = q)
            BY <3>1 DEF Inv, TypeOK
        <3>3. KnownFlags(store[h]) /\ store[k] \in Slots(k)
            BY DEF HeldInv, KnownInv, Slots
        <3> QED BY <2>2, <3>1, <3>2, <3>3 DEF UserRewrite
    <2>3. CASE pc # "Idle" /\ MergedAt(k)
                /\ LET out == OutcomeOf(k)
                   IN  x \in {After(local[k], out), out.flag, out.content, out.create}
        <3>1. RowMade(OutcomeOf(k), local[k], Item(k), opts)
            BY <2>3, OutcomeMade DEF MergedAt
        <3> QED BY <2>3, <3>1 DEF RowMade, Respects, Kept, KnownFlags
    <2>4. CASE ForkedAt(k) /\ x = Row(k)'
        <3>1. PICK h \in todo : /\ local[h] \in ReplicaPlacement
                                /\ x = ConflictDup(local[h])
            BY <2>4 DEF ForkedAt
        <3>2. h \in Handle /\ local[h] # None
            BY <3>1, SentinelAssumption DEF Inv, TypeOK
        <3>3. KnownFlags(local[h])
            BY <3>2 DEF HeldInv, KnownInv, Slots
        <3> QED BY <3>1, <3>2, <3>3 DEF ConflictDup, CreatedPlacement, KnownFlags
    <2>5. CASE LandedAt(k) /\ x = Row(k)'
        <3>1. \A h \in Handle : /\ KnownFlags(pending_flag_pushes[h])
                                /\ KnownFlags(pending_content_pushes[h])
                                /\ KnownFlags(pending_creates[h])
            BY DEF HeldInv, KnownInv, Slots
        <3> QED BY <2>5, <3>1, LandedRow, SentinelAssumption DEF KnownFlags
    <2> QED BY <2>1, <2>2, <2>3, <2>4, <2>5, IdleSlots, SlotStep
<1>4. ASSUME NEW k \in Handle PROVE KnownChange(Owed(k)')
    <2>1. KnownChange(Owed(k)) /\ KnownChange(None)
        BY DEF HeldInv, KnownInv, KnownChange
    <2>2. CASE pc = "Idle"
        <3>1. Owed(k)' = Owed(k)
            BY <2>2, IdleStep DEF Owed
        <3> QED BY <2>1, <3>1
    <2>3. CASE pc # "Idle" /\ pc' = "Idle"
        <3>1. Owed(k)' = None
            BY <2>3, EndRows DEF EndRun, None4All, Owed
        <3> QED BY <2>1, <3>1
    <2>4. CASE pc # "Idle" /\ pc' # "Idle"
        <3>1. \/ Row(k)' = Row(k) /\ Forgets(k)
              \/ MergedAt(k)
              \/ ForkedAt(k) /\ Forgets(k)
              \/ LandedAt(k) /\ Forgets(k)
            BY <2>4, RunRows
        <3>2. CASE Forgets(k)
            BY <2>1, <3>2 DEF Forgets
        <3>3. CASE MergedAt(k)
            BY <3>3, OutcomeMade DEF MergedAt, RowMade
        <3> QED BY <3>1, <3>2, <3>3
    <2> QED BY <2>2, <2>3, <2>4
<1>5. ASSUME NEW k \in Handle, Enumerated', snap'.items[k] # None
      PROVE  snap'.items[k].flags \in SUBSET Flag
    <2>1. CASE Enumerated /\ snap' = snap
        BY <1>5, <2>1 DEF HeldInv, KnownInv
    <2>2. CASE \E cursor \in Opt(Nat) : snap' = Snapshot(cursor)
        <3>1. snap'.items[k].flags = items[k].flags /\ items[k] # None
            BY <1>5, <2>2 DEF Snapshot
        <3> QED BY <1>1, <3>1 DEF ServerKnown
    <2> QED BY <1>5, <2>1, <2>2, SnapStep
<1> QED BY <1>2, <1>3, <1>4, <1>5 DEF KnownInv, ServerKnown

LEMMA UsedNext ==
    ASSUME Inv, Inv', SpineInv, SpineInv', HeldInv, [Next]_vars
    PROVE  UsedInv' /\ LoadInv'
<1>1. \A h \in Handle : Used(h) => Used(h)'
    BY ServerMoves, UsedStays
<1>2. ASSUME NEW k \in ServerHandle, NEW x \in Slots(k)', x # None PROVE Used(k)'
    <2>0. k \in Handle
        BY HandleFacts
    <2>1. \A p \in Slots(k) : p # None => Used(k)
        BY DEF HeldInv, UsedInv
    <2>2. store[k] \in Slots(k) /\ local[k] \in Slots(k)
        BY DEF Slots
    <2>3. CASE x \in Slots(k)
        BY <1>1, <1>2, <2>0, <2>1, <2>3
    <2>4. CASE User /\ x = store'[k]
        <3>0. PICK op, q : \E h \in Handle : /\ store' = [store EXCEPT ![h] = q]
                                            /\ (h \notin ServerHandle \/ store[h] # None)
            BY <2>4, UserRow
        <3>1. PICK h \in Handle : /\ store' = [store EXCEPT ![h] = q]
                                  /\ (h \notin ServerHandle \/ store[h] # None)
            BY <3>0
        <3>2. store'[k] = store[k] \/ k = h
            BY <2>0, <3>1 DEF Inv, TypeOK
        <3> QED BY <1>1, <1>2, <2>0, <2>1, <2>2, <2>4, <3>1, <3>2
    <2>5. CASE /\ MergedAt(k)
               /\ LET out == OutcomeOf(k)
                  IN  x \in {After(local[k], out), out.flag, out.content, out.create}
        <3>1. /\ RowMade(OutcomeOf(k), local[k], Item(k), opts)
              /\ Item(k) # None => Used(k)
            BY <2>5, OutcomeMade DEF MergedAt
        <3>2. local[k] # None \/ Item(k) # None
            BY <1>2, <2>5, <3>1 DEF RowMade, Kept
        <3> QED BY <1>1, <2>0, <2>1, <2>2, <3>1, <3>2
    <2>6. CASE LandedAt(k) /\ x = Row(k)'
        <3>1. \A p \in {pending_flag_pushes[k], pending_content_pushes[k]} :
                 p \in Slots(k)
            BY DEF Slots
        <3> QED BY <1>1, <1>2, <2>0, <2>1, <2>6, <3>1, LandedRow, SentinelAssumption
    <2>7. ~ForkedAt(k)
        BY DEF ForkedAt
    <2> QED BY <1>2, <2>0, <2>3, <2>4, <2>5, <2>6, <2>7, IdleSlots, SlotStep
<1>3. ASSUME NEW h \in Handle, results'[h] # None, results'[h].assigned # None
      PROVE  local'[results'[h].assigned] = None
    <2>1. pc' = "PendingPush"
        BY <1>3 DEF SpineInv, PlaceInv
    <2>2. pc # "Idle" /\ local' = local
        BY <2>1, IdleStep, RunRows, <1>3
    <2>3. results'[h] # Rejected
        BY <1>3 DEF Rejected
    <2>4. CASE results'[h] = results[h]
        BY <1>3, <2>2, <2>4 DEF HeldInv, UsedInv
    <2>5. CASE results'[h] # results[h]
        <3>1. PICK k \in Handle : /\ in_flight[k] \in ReplicaChange
                                  /\ in_flight[k] = Owed(k)
                                  /\ Push(k, in_flight[k])
                                  /\ results' = [results EXCEPT ![k] = results'[k]]
            BY <1>3, <2>3, <2>5, ServerMoves
        <3>2. k = h
            BY <2>5, <3>1 DEF Inv, TypeOK
        <3>3. KnownChange(in_flight[h]) /\ ServerKnown
            BY <3>1, <3>2 DEF HeldInv, KnownInv, ServerKnown
        <3>4. results'[h].assigned \in ServerHandle /\ ~Used(results'[h].assigned)
            BY <1>3, <3>1, <3>2, <3>3, PushKnown
        <3>5. local[results'[h].assigned] \in Slots(results'[h].assigned)
            BY DEF Slots
        <3> QED BY <2>2, <3>4, <3>5 DEF HeldInv, UsedInv
    <2> QED BY <2>4, <2>5
<1>4. LoadInv'
    <2>1. CASE pc = "Idle"
        BY <2>1, IdleStep DEF HeldInv, LoadInv
    <2>2. CASE pc # "Idle"
        BY <2>2, EndRows DEF LoadInv, EndRun, None4All
    <2> QED BY <2>1, <2>2
<1> QED BY <1>2, <1>3, <1>4 DEF UsedInv

LEMMA IntentNext ==
    ASSUME Inv, Inv', SpineInv, HeldInv, IntentInv, [Next]_vars
    PROVE  IntentInv'
<1> SUFFICES ASSUME NEW k \in Handle, NEW x \in Slots(k)'
             PROVE  KeepsIntent(local[k], x)'
    BY DEF IntentInv
<1>0. \A p \in Slots(k) : KeepsIntent(local[k], p)
    BY DEF IntentInv
<1>1. \A p : KeepsIntent(None, p) /\ KeepsIntent(p, None)
    BY DEF KeepsIntent
<1>2. CASE pc' = "Idle"
    <2>1. local'[k] = None
        <3>1. CASE pc = "Idle"
            BY <1>2, <3>1, IdleStep DEF HeldInv, LoadInv
        <3>2. CASE pc # "Idle"
            BY <1>2, <3>2, EndRows DEF EndRun, None4All
        <3> QED BY <3>1, <3>2
    <2> QED BY <1>1, <2>1
<1>3. CASE pc = "Idle" /\ pc' # "Idle"
    <2>1. /\ store' = store /\ local' = store /\ Row(k)' = store[k]
          /\ UNCHANGED pendings
        BY <1>3, IdleStep
    <2>2. \A h \in Handle : /\ pending_flag_pushes[h] = None
                            /\ pending_content_pushes[h] = None
                            /\ pending_creates[h] = None
        <3>1. \A h \in Handle : pushes[h] = None /\ in_flight[h] = None
            BY <1>3 DEF Inv, Phases
        <3> QED BY <3>1 DEF Inv, OnePushPerHandle, Owed
    <2>3. x \in {store[k], None}
        BY <2>1, <2>2 DEF Slots
    <2>4. KeepsIntent(store[k], store[k])
        BY DEF KeepsIntent
    <2> QED BY <1>1, <2>1, <2>3, <2>4
<1>4. CASE pc # "Idle" /\ pc' # "Idle"
    <2>1. local' = local
        BY <1>4, RunRows
    <2> SUFFICES KeepsIntent(local[k], x)
        BY <2>1
    <2>2. CASE x \in Slots(k) \/ x = None
        BY <1>0, <1>1, <2>2
    <2>3. CASE /\ MergedAt(k)
               /\ LET out == OutcomeOf(k)
                  IN  x \in {After(local[k], out), out.flag, out.content, out.create}
        <3>1. RowMade(OutcomeOf(k), local[k], Item(k), opts)
            BY <2>3, OutcomeMade DEF MergedAt
        <3> QED BY <1>1, <2>3, <3>1 DEF RowMade, Respects, Kept
    <2>4. CASE ForkedAt(k)
        <3>1. RowOK(k, local[k])
            BY DEF SpineInv, RowsInv
        <3> QED BY <2>4, <3>1 DEF ForkedAt, RowOK, KeepsIntent
    <2>5. CASE LandedAt(k) /\ x = Row(k)'
        <3>1. CASE x = None
            BY <1>1, <3>1
        <3>2. ASSUME NEW p \in {pending_flag_pushes[k], pending_content_pushes[k]},
                     p \in ReplicaPlacement, x.flags = p.flags
              PROVE  KeepsIntent(local[k], x)
            <4>1. KeepsIntent(local[k], p) /\ p # None
                BY <1>0, <3>2, SentinelAssumption DEF Slots
            <4> QED BY <3>2, <4>1 DEF KeepsIntent
        <3>3. ASSUME NEW h \in Handle, IsAccepted(h), results[h].assigned = k
              PROVE  KeepsIntent(local[k], x)
            <4>1. results[h] # None /\ k # None
                BY <3>3, RemoteAssumption DEF IsAccepted
            <4>2. local[k] = None
                BY <3>3, <4>1 DEF HeldInv, UsedInv
            <4> QED BY <1>1, <4>2
        <3> QED BY <2>5, <3>1, <3>2, <3>3, LandedRow
    <2> QED BY <1>4, <2>2, <2>3, <2>4, <2>5, SlotStep
<1> QED BY <1>2, <1>3, <1>4

LEMMA HeldHolds == Cautious /\ Spec => [](Inv /\ SpineInv /\ HeldInv /\ IntentInv)
<1> DEFINE I == Inv /\ SpineInv /\ HeldInv /\ IntentInv
<1>1. Cautious /\ Init => I
    BY InitInv, InitSpine, InitHeld
<1>2. I /\ [Next]_vars => I'
    <2> SUFFICES ASSUME I, [Next]_vars PROVE I'
        OBVIOUS
    <2>1. Inv' /\ SpineInv'
        BY NextInv, SpineNext
    <2> QED BY <2>1, KnownNext, UsedNext, IntentNext DEF HeldInv
<1> QED BY <1>1, <1>2, PTL DEF Spec

(* IntentKept: no run undoes a marker the user flipped in the row it       *)
(* loaded, in any row it writes, however the batches are cut and whatever  *)
(* became of the pushes.                                                   *)
THEOREM IntentsKept == Cautious /\ Spec => IntentKept
<1> DEFINE Kept4All == pc # "Idle" =>
        \A h \in Handle :
            (/\ local[h] # None /\ store'[h] # None
             /\ local[h].base # None
             /\ local[h].status # "Tombstone") =>
                \A f \in FlagIntent(local[h]) :
                    f \in store'[h].flags <=> f \in local[h].flags
<1>1. Inv /\ Inv' /\ SpineInv /\ HeldInv /\ IntentInv /\ [Next]_vars => [Kept4All]_vars
    <2> SUFFICES ASSUME Inv, Inv', SpineInv, HeldInv, IntentInv, [Next]_vars,
                        pc # "Idle", NEW h \in Handle
                 PROVE  KeepsIntent(local[h], store'[h])
        BY DEF KeepsIntent
    <2>1. store'[h] \in {store[h], Row(h)}
        BY EndRows, RunRows DEF Batched
    <2> QED BY <2>1 DEF IntentInv, Slots
<1> QED BY <1>1, HeldHolds, PTL DEF IntentKept, Spec

--------------------------------------------------------------------------------
(* Without a fork, no write of a run points at a body the store lets go.   *)

(* Only keep-both stages a fork. *)
LEMMA NoFork ==
    ASSUME NEW p \in Opt(ReplicaPlacement), NEW item \in Opt(ReplicaRemoteItem),
           NEW options \in ReplicaSyncOptions, options.conflict # "KeepBoth"
    PROVE  MergeCandidate(p, item, options).dup = None
<1> DEFINE Plain(out) == out \in Outcome /\ out.dup = None
<1>1. Plain(Nothing)
    BY NothingSound DEF Sound, Nothing
<1>2. ASSUME NEW out, Plain(out), NEW op \in ReplicaWriteOp
      PROVE  Plain(Write(out, op))
    BY <1>2, WriteOutcome, WriteKeeps
<1>3. ASSUME NEW q \in ReplicaPlacement PROVE Upsert(q) \in ReplicaWriteOp
    BY OpTypes
<1>4. ASSUME NEW new, new = RefuseDelete(p, options) PROVE new.dup = None
    <2>1. \A op : Write(Nothing, op).dup = None
        BY <1>1, WriteKeeps
    <2> QED BY <1>1, <1>4, <2>1 DEF RefuseDelete
<1>5. p # None /\ item # None => MergeTombstone(p, item, options).dup = None
    <2>1. \A op : Write(Nothing, op).dup = None
        BY <1>1, WriteKeeps
    <2>2. /\ \A u : [Nothing EXCEPT !.push = u, !.content = p].dup = None
          /\ \A u : [Nothing EXCEPT !.push = u, !.drop = TRUE].dup = None
        BY DEF Nothing
    <2> QED BY <1>4, <2>1, <2>2 DEF MergeTombstone
<1>6. p # None => MergeVanished(p, options).dup = None
    <2>1. ASSUME NEW op, NEW u, NEW v
          PROVE  /\ Write(Nothing, op).dup = None
                 /\ [Write(Nothing, op) EXCEPT !.push = u, !.create = v].dup = None
        <3>1. Nothing \in Outcome
            BY <1>1
        <3> QED BY <1>1, <3>1 DEF Write, Outcome
    <2> QED BY <2>1 DEF MergeVanished
<1>7. MergeCreated(p, options).dup = None
    BY DEF MergeCreated, Nothing
<1>8. ASSUME p # None, item # None, NEW c, c = ReconcileContent(p, item, options)
      PROVE  Plain(c.out)
    <2>1. /\ \A q : Continue(q, Nothing).out = Nothing
          /\ \A q, op : Continue(q, Write(Nothing, op)).out = Write(Nothing, op)
        BY DEF Continue
    <2>2. \A op : Write(Nothing, op).dup = None
        BY <1>1, WriteKeeps
    <2>3. \A m : PushLocal(p, m).out.dup = None
        BY DEF PushLocal, Continue, Nothing
    <2>4. /\ MarkConflict(p, item).out.dup = None
          /\ TrackConflict(p, item).out.dup = None
          /\ PullRemote(p, item, Nothing).out.dup = None
        BY <2>2 DEF MarkConflict, TrackConflict, PullRemote, Continue
    <2>5. ResolveConflict(p, item, options).out.dup = None
        <3>1. options.conflict \in {"Manual", "PreferLocal", "PreferRemote"}
            BY DEF ReplicaSyncOptions
        <3> QED BY <2>3, <2>4, <3>1 DEF ResolveConflict
    <2>6. c.out.dup = None
        BY <1>1, <1>8, <2>1, <2>3, <2>4, <2>5 DEF ReconcileContent
    <2>7. c.out \in Outcome
        BY <1>8, ReconcileContentSame DEF ContentSame
    <2> QED BY <2>6, <2>7
<1>9. ASSUME NEW r \in ReplicaPlacement, item # None, NEW out, Plain(out)
      PROVE  ReconcileFlags(r, item, out, options).dup = None
    <2>1. /\ \A op : Write(out, op).dup = None
          /\ \A op, u, v :
                /\ [Write(out, op) EXCEPT !.push = u, !.flag = v].dup = None
                /\ [out EXCEPT !.push = u, !.flag = v].dup = None
        <3>1. out \in Outcome /\ out.dup = None
            BY <1>9
        <3> QED BY <3>1 DEF Write, Outcome
    <2> QED BY <1>9, <2>1 DEF ReconcileFlags
<1>10. p # None /\ item # None => MergeBoth(p, item, options).dup = None
    <2>1. p # None /\ item # None =>
             ReconcileContent(p, item, options).row \in ReplicaPlacement
        BY ReconcileContentSame DEF ContentSame
    <2> QED BY <1>8, <1>9, <2>1 DEF MergeBoth
<1>11. \A op : Write(Nothing, op).dup = None /\ Nothing.dup = None
    BY <1>1, WriteKeeps
<1> QED BY <1>5, <1>6, <1>7, <1>10, <1>11 DEF MergeCandidate

(* What a store points at is what its rows point at. *)
LEMMA RowReferenced ==
    ASSUME NEW st, NEW h \in Handle
    PROVE  Bodies(st[h]) \subseteq Referenced(st)
BY DEF Bodies, Referenced

LEMMA ReferencedRows ==
    ASSUME NEW st, NEW S, \A h \in Handle : Bodies(st[h]) \subseteq S
    PROVE  Referenced(st) \subseteq S
BY DEF Bodies, Referenced

(* Where a run stands once it has walked a handle. *)
LEMMA TodoStep ==
    ASSUME Inv, SpineInv, [Next]_vars, pc # "Idle", pc' # "Idle", NEW k \in Handle,
           pc' = "PendingEnumerate" \/ k \in todo'
    PROVE  pc = "PendingEnumerate" \/ (k \in todo /\ pc' # "PendingEnumerate")
<1>1. pc \in {"PendingPush", "PendingWrite"} => todo = {}
    BY DEF SpineInv, PlaceInv
<1>2. CASE MergeStep
    BY <1>2 DEF MergeStep, Skip, Merge
<1>3. CASE Enumerate \/ LastWrite \/ Crash
    BY <1>3 DEF Enumerate, LastWrite, Crash, EndRun
<1>4. CASE MergeWrite \/ PushOutcomes
    BY <1>4 DEF MergeWrite, PushOutcomes
<1>5. CASE MergeEnd \/ ChunkWrite
    BY <1>5 DEF MergeEnd, ChunkWrite, Step
<1>6. CASE Serve \/ Refuse \/ \E h \in Handle : Silence(h)
    BY <1>6 DEF Serve, Refuse, Silence
<1>7. CASE Others
    BY <1>1, <1>7, OthersMove DEF OtherClient, SpineInv, PlaceInv, Enumerated
<1>8. CASE (\E o \in Options : Begin(o)) \/ User
    BY <1>8, UserMutates DEF Begin, Mutate
<1>9. CASE UNCHANGED vars
    BY <1>9 DEF vars, SpineInv, PlaceInv, Enumerated
<1> QED BY <1>2, <1>3, <1>4, <1>5, <1>6, <1>7, <1>8, <1>9 DEF Next, Run, Fault

LEMMA InitPoint ==
    ASSUME Init
    PROVE  PointInv
<1>1. \A h \in Handle : Slots(h) = {None}
    BY InitHeld
<1>2. pc = "Idle" /\ todo = {}
    BY DEF Init, NoRun
<1> QED BY <1>1, <1>2 DEF PointInv, Bodies, Slots

(* Between runs nothing is kept in mind. *)
LEMMA IdlePending ==
    ASSUME Inv, pc = "Idle", NEW h \in Handle
    PROVE  /\ pending_flag_pushes[h] = None
           /\ pending_content_pushes[h] = None
           /\ pending_creates[h] = None
<1>1. pushes[h] = None /\ in_flight[h] = None
    BY DEF Inv, Phases
<1> QED BY <1>1 DEF Inv, OnePushPerHandle, Owed

(* Nothing is kept in mind for the handle an accepted create is placed at. *)
LEMMA PlacedFresh ==
    ASSUME Inv, HeldInv, NEW h \in Handle, IsAccepted(h), NEW k \in Handle,
           results[h].assigned = k
    PROVE  local[k] = None
<1>1. results[h] # None /\ k # None
    BY RemoteAssumption DEF IsAccepted
<1> QED BY <1>1 DEF HeldInv, UsedInv

(* An outcome points at no body its placement did not. *)
LEMMA LandedPoints ==
    ASSUME Inv, SpineInv, PointInv, NEW k \in Handle, LandedAt(k)
    PROVE  Bodies(Row(k)') \subseteq Referenced(store)
<1>1. \A h \in Handle : Bodies(Row(h)) \subseteq Referenced(store)
    BY DEF PointInv
<1>2. \A h \in Handle : /\ Bodies(pending_flag_pushes[h]) \subseteq Bodies(Row(h))
                        /\ Bodies(pending_content_pushes[h]) \subseteq Bodies(Row(h))
                        /\ Bodies(pending_creates[h]) \subseteq Bodies(Row(h))
    BY DEF PointInv
<1>3. Bodies(None) = {}
    BY DEF Bodies
<1>4. CASE Row(k)' = None
    BY <1>3, <1>4
<1>5. ASSUME NEW h \in Handle, Bodies(Row(k)') \subseteq Bodies(pending_creates[h])
      PROVE  Bodies(Row(k)') \subseteq Referenced(store)
    BY <1>1, <1>2, <1>5
<1>6. ASSUME NEW q \in {pending_flag_pushes[k], pending_content_pushes[k]},
             Bodies(Row(k)') \subseteq Bodies(q)
      PROVE  Bodies(Row(k)') \subseteq Referenced(store)
    BY <1>1, <1>2, <1>6
<1> QED BY <1>4, <1>5, <1>6, LandedRow

LEMMA PointNext ==
    ASSUME Inv, Inv', SpineInv, SpineInv', HeldInv, Unforked, PointInv, [Next]_vars
    PROVE  PointInv'
<1> DEFINE Minds(h) == {pending_flag_pushes[h], pending_content_pushes[h],
                        pending_creates[h]}
<1>0. Bodies(None) = {}
    BY DEF Bodies
<1>1. CASE pc = "Idle"
    <2>1. \A h \in Handle : Minds(h) = {None} /\ Minds(h)' = {None}
        BY <1>1, IdlePending, IdleStep
    <2>2. \A h \in Handle : /\ Row(h)' = store'[h]
                            /\ pc' # "Idle" => local'[h] = store'[h]
        BY <1>1, IdleStep
    <2>3. pc' = "Idle" => todo' = {}
        BY DEF SpineInv, PlaceInv, Enumerated
    <2>4. \A h \in Handle : Bodies(Row(h)') \subseteq Referenced(store')
        BY <2>2, RowReferenced
    <2>5. pc' = "PendingEnumerate" => pc' # "Idle"
        OBVIOUS
    <2> QED BY <1>0, <2>1, <2>2, <2>3, <2>4, <2>5 DEF PointInv
<1>2. CASE pc # "Idle" /\ pc' = "Idle"
    <2>1. \A h \in Handle : Row(h)' = store'[h]
        BY <1>2, EndRows
    <2>2. /\ \A h \in Handle : Minds(h)' = {None}
          /\ todo' = {} /\ pc' = "Idle"
        <3>1. EndRun \/ Handle = {}
            BY <1>2, EndRows
        <3>2. Handle = {} => todo' = {}
            BY DEF Inv, TypeOK
        <3> QED BY <1>2, <3>1, <3>2 DEF EndRun, None4All
    <2>3. \A h \in Handle : Bodies(Row(h)') \subseteq Referenced(store')
        BY <2>1, RowReferenced
    <2> QED BY <1>0, <2>2, <2>3 DEF PointInv
<1>3. CASE pc # "Idle" /\ pc' # "Idle"
    <2>1. ASSUME NEW k \in Handle PROVE ~ForkedAt(k)
        <3> SUFFICES ASSUME pc = "Joining", NEW h \in todo, ~Untouched(h)
                     PROVE  OutcomeOf(h).dup = None
            BY DEF ForkedAt
        <3>1. /\ local[h] \in Opt(ReplicaPlacement) /\ opts \in ReplicaSyncOptions
              /\ opts.conflict # "KeepBoth" /\ Item(h) \in Opt(ReplicaRemoteItem)
            BY AheadFacts, ItemOK DEF Unforked
        <3>2. OutcomeOf(h) = MergeCandidate(local[h], Item(h), opts)
            BY DEF OutcomeOf, Item
        <3> QED BY <3>1, <3>2, NoFork
    <2>2. /\ Handle # {} => Batched /\ local' = local
          /\ \A k \in Handle :
                \/ Row(k)' = Row(k) /\ Forgets(k)
                \/ MergedAt(k) /\ store' = store
                \/ LandedAt(k) /\ Forgets(k) /\ store' = store
        BY <1>3, <2>1, RunRows
    <2>3. \A k \in Handle : MergedAt(k) =>
            /\ RowMade(OutcomeOf(k), local[k], Item(k), opts)
            /\ Row(k) = local[k]
            /\ Row(k)' = After(local[k], OutcomeOf(k))
        <3> SUFFICES ASSUME NEW k \in Handle, MergedAt(k)
                     PROVE  /\ RowMade(OutcomeOf(k), local[k], Item(k), opts)
                            /\ Row(k) = local[k]
                            /\ Row(k)' = After(local[k], OutcomeOf(k))
            OBVIOUS
        <3>1. RowMade(OutcomeOf(k), local[k], Item(k), opts)
            BY OutcomeMade DEF MergedAt
        <3>2. Row(k) = local[k]
            BY DEF MergedAt, PointInv
        <3> QED BY <3>1, <3>2 DEF MergedAt, After
    <2>4. ASSUME NEW k \in Handle PROVE Bodies(Row(k)') \subseteq Referenced(store')
        <3>1. CASE \A h \in Handle : store'[h] = Row(h) /\ Row(h)' = Row(h)
            BY <3>1, RowReferenced
        <3>2. CASE store' = store
            <4>1. CASE MergedAt(k)
                BY <2>3, <3>2, <4>1 DEF PointInv, RowMade, Respects
            <4> QED BY <2>2, <3>2, <4>1, LandedPoints DEF PointInv
        <3> QED BY <2>2, <3>1, <3>2 DEF Batched
    <2>5. ASSUME NEW k \in Handle, NEW q \in Minds(k)'
          PROVE  /\ Bodies(q) \subseteq Bodies(Row(k)')
                 /\ q # None => local'[k] # None
        <3>0. local' = local
            BY <2>2
        <3>1. \A x \in Minds(k) : /\ Bodies(x) \subseteq Bodies(Row(k))
                                  /\ x # None => local[k] # None
            BY DEF PointInv
        <3>2. Forgets(k) => q \in Minds(k) \cup {None}
            BY DEF Forgets
        <3>3. CASE Row(k)' = Row(k) /\ Forgets(k)
            BY <1>0, <3>0, <3>1, <3>2, <3>3
        <3>4. CASE MergedAt(k)
            <4>1. LET out == OutcomeOf(k) IN q \in {out.flag, out.content, out.create}
                BY <3>4 DEF MergedAt
            <4>2. q # None => local[k] # None /\ Bodies(q) \subseteq Bodies(Row(k)')
                BY <2>3, <3>4, <4>1 DEF RowMade, Kept
            <4> QED BY <1>0, <3>0, <4>2
        <3>5. CASE LandedAt(k) /\ Forgets(k)
            <4>1. q = None
                <5>1. CASE IsAccepted(k) /\ Minds(k)' = {None}
                    BY <5>1
                <5>2. ASSUME NEW h \in Handle, IsAccepted(h), results[h].assigned = k
                      PROVE  q = None
                    <6>1. local[k] = None
                        BY <5>2, PlacedFresh
                    <6> QED BY <3>1, <3>2, <3>5, <6>1
                <5> QED BY <3>5, <5>1, <5>2 DEF LandedAt
            <4> QED BY <1>0, <4>1
        <3> QED BY <2>2, <3>3, <3>4, <3>5
    <2>6. ASSUME NEW k \in Handle, pc' = "PendingEnumerate" \/ k \in todo'
          PROVE  Row(k)' = local'[k]
        <3>1. /\ pc = "PendingEnumerate" \/ k \in todo
              /\ pc = "PendingEnumerate" \/ (pc' # "PendingEnumerate" /\ k \in todo')
            BY <1>3, <2>6, TodoStep
        <3>2. Row(k) = local[k] /\ local' = local
            BY <2>2, <3>1 DEF PointInv
        <3>3. ~MergedAt(k)
            BY <3>1 DEF MergedAt
        <3>4. ~LandedAt(k)
            BY <3>1 DEF LandedAt, SpineInv, PlaceInv
        <3> QED BY <2>2, <3>2, <3>3, <3>4
    <2> QED BY <2>4, <2>5, <2>6 DEF PointInv
<1> QED BY <1>1, <1>2, <1>3

(* PointersHeld: where no source forks a conflict, no write of a run       *)
(* brings back a body the store had let go, in whatever batches the rows,  *)
(* the held placements and the confirmed pushes land.                      *)
THEOREM PointersStayHeld == Cautious /\ Unforked /\ Spec => PointersHeld
<1> DEFINE I == Inv /\ SpineInv /\ HeldInv
<1>1. Unforked /\ Init => Unforked /\ PointInv
    BY InitPoint
<1>2. I /\ I' /\ (Unforked /\ PointInv) /\ [Next]_vars => (Unforked /\ PointInv)'
    <2>1. Unforked => Unforked'
        BY DEF Unforked
    <2> QED BY <2>1, PointNext
<1>3. I /\ I' /\ PointInv /\ [Next]_vars =>
        [pc # "Idle" => Referenced(store') \subseteq Referenced(store)]_vars
    <2> SUFFICES ASSUME I, I', PointInv, [Next]_vars, pc # "Idle"
                 PROVE  Referenced(store') \subseteq Referenced(store)
        OBVIOUS
    <2>1. \A h \in Handle : store'[h] \in {store[h], Row(h)}
        BY EndRows, RunRows DEF Batched
    <2>2. \A h \in Handle : Bodies(store'[h]) \subseteq Referenced(store)
        BY <2>1, RowReferenced DEF PointInv
    <2> QED BY <2>2, ReferencedRows
<1>4. Cautious /\ Spec => []I
    BY HeldHolds, PTL
<1> HIDE DEF I
<1> QED BY <1>1, <1>2, <1>3, <1>4, PTL DEF PointersHeld, Spec

--------------------------------------------------------------------------------
(* A clean row has the flags of the member the cursor covers.              *)

LEMMA InitMirror ==
    ASSUME Init
    PROVE  MirrorInv
<1>1. \A h \in Handle : store[h] = None /\ Row(h) = None /\ local[h] = None
    <2>1. \A h \in Handle : {store[h], Row(h), local[h]} \subseteq Slots(h)
        BY DEF Slots
    <2> QED BY <2>1, InitHeld
<1>2. pc = "Idle" /\ checkpoint = None
    BY DEF Init
<1> QED BY <1>1, <1>2 DEF MirrorInv, StandInv, CoverInv, ListedInv, WalkedInv,
                          AtBase, Enumerated

(* What a base covers it goes on covering: a member whose flags move is    *)
(* stamped anew.                                                           *)
LEMMA FlagsStay ==
    ASSUME Inv, Inv', SpineInv, [Next]_vars, NEW h \in Handle, NEW p,
           NEW c \in Nat, c <= seq, FlagCovers(h, p, c)
    PROVE  FlagCovers(h, p, c)'
<1>1. CASE UNCHANGED items
    BY <1>1 DEF FlagCovers
<1>2. CASE RemoteStep
    BY <1>2, ItemFacts DEF FlagCovers, RemoteStep, Inv
<1> QED BY <1>1, <1>2, ServerMoves

LEMMA NewerStays ==
    ASSUME Inv, Inv', SpineInv, [Next]_vars, Enumerated, snap' = snap,
           NEW h \in Handle
    PROVE  ~Newer(h)' => ~Newer(h) /\ items'[h] = items[h]
<1>1. snap.checkpoint \in Nat /\ snap.checkpoint <= seq
    BY DEF Inv, Phases, Enumerated, ReplicaRemoteSnapshot, SpineInv, RunInv, SnapInv
<1>2. CASE UNCHANGED items
    BY <1>2 DEF Newer
<1>3. CASE RemoteStep
    BY <1>1, <1>3, NewerSurvives DEF Inv
<1> QED BY <1>2, <1>3, ServerMoves

(* A row the snapshot's server no longer answers for.                      *)
LEMMA NewerCovers ==
    ASSUME TypeOK, NEW h \in Handle, Newer(h), snap.checkpoint \in Nat, NEW p,
           NEW c \in Nat, c <= snap.checkpoint
    PROVE  FlagCovers(h, p, c)
BY ItemFacts DEF Newer, FlagCovers

(* The flags a candidate is merged with are the server's as of the         *)
(* snapshot, listed or stood in for by its base.                           *)
LEMMA ItemFlags ==
    ASSUME Inv, SpineInv, MirrorInv, pc = "Joining", NEW h \in todo, ~Untouched(h),
           ~Newer(h)
    PROVE  Item(h) # None /\ Item(h).flags = items[h].flags
<1>1. /\ h \in Handle /\ Item(h) # None /\ SnapOK(h) /\ h \in ServerHandle
      /\ Row(h) = local[h]
    BY AheadFacts, ItemOK
<1>2. h \notin snap.vanished
    BY <1>1 DEF SnapOK
<1>3. CASE snap.items[h] # None
    <2>1. Item(h) = snap.items[h]
        BY <1>2, <1>3 DEF Item, NarrowedItem
    <2> QED BY <1>1, <1>3, <2>1 DEF MirrorInv, ListedInv, Enumerated
<1>4. CASE snap.items[h] = None
    <2>1. ~snap.complete /\ items[h].seq <= checkpoint /\ items[h] # None
        BY <1>1, <1>4 DEF SnapOK, Newer
    <2>2. checkpoint # None
        BY <2>1, AheadFacts
    <2>3. Item(h) = StandIn(local[h]) /\ local[h].base # None
        BY <1>1, <1>2, <1>4, <2>1 DEF Item, NarrowedItem, StandIn
    <2>4. Item(h).flags = local[h].base.flags
        BY <2>3 DEF StandIn
    <2>5. local[h] # None
        BY <1>1, <2>1, <2>2, AheadFacts DEF Covers
    <2> QED BY <1>1, <2>1, <2>2, <2>3, <2>4, <2>5 DEF MirrorInv, CoverInv, FlagCovers
<1> QED BY <1>3, <1>4

(* The merge of h leaves a row that covers its member, unless the change   *)
(* that will make it do so goes out.                                       *)
LEMMA MergedFlags ==
    ASSUME Inv, SpineInv, HeldInv, Obliging, MirrorInv, pc = "Joining",
           NEW h \in todo, ~Untouched(h)
    PROVE  LET q == After(local[h], OutcomeOf(h))
           IN  /\ AtBase(q)
               /\ checkpoint # None => FlagCovers(h, q, checkpoint)
               /\ OutcomeOf(h).push = None => FlagCovers(h, q, snap.checkpoint)
<1> DEFINE out == OutcomeOf(h)
           q   == After(local[h], out)
<1>1. /\ h \in Handle /\ TypeOK /\ opts \in Options /\ snap.checkpoint \in Nat
      /\ checkpoint # None => checkpoint \in Nat /\ checkpoint <= snap.checkpoint
    BY AheadFacts
<1>2. RowMade(out, local[h], Item(h), opts) /\ Free(opts)
    BY <1>1, OutcomeMade DEF Obliging
<1> HIDE DEF out, q
<1>3. AtBase(q)
    BY <1>1, <1>2 DEF RowMade, MirrorInv, StandInv, q
<1>4. CASE Newer(h)
    BY <1>1, <1>3, <1>4, NewerCovers DEF q, out
<1>5. CASE ~Newer(h)
    <2>1. Item(h) # None /\ Item(h).flags = items[h].flags
        BY <1>5, ItemFlags
    <2>2. out.push = None => FlagCovers(h, q, snap.checkpoint)
        BY <1>2, <2>1 DEF RowMade, FlagCovers, q
    <2>3. checkpoint # None => FlagCovers(h, q, checkpoint)
        <3>1. checkpoint # None => FlagCovers(h, local[h], checkpoint)
            BY <1>1 DEF MirrorInv, CoverInv
        <3> QED BY <1>2, <2>1, <3>1 DEF RowMade, BaseReported, FlagCovers, q
    <2> QED BY <1>3, <2>2, <2>3 DEF q, out
<1> QED BY <1>4, <1>5

LEMMA SkippedFlags ==
    ASSUME Inv, SpineInv, MirrorInv, pc = "Joining", NEW h \in todo, Untouched(h)
    PROVE  FlagCovers(h, Row(h), snap.checkpoint)
<1>1. /\ h \in Handle /\ SnapOK(h) /\ snap.checkpoint \in Nat
      /\ ~snap.complete => checkpoint # None
      /\ items[h] # None => items[h].seq \in Nat
    BY AheadFacts
<1>2. ~snap.complete /\ snap.items[h] = None
    BY DEF Untouched, IsCandidate
<1>3. ~Newer(h) => items[h].seq <= checkpoint
    BY <1>1, <1>2 DEF SnapOK
<1> QED BY <1>1, <1>2, <1>3 DEF MirrorInv, CoverInv, FlagCovers, Newer

(* An answered change moved the member it names, or found it moved.        *)
LEMMA AnsweredNewer ==
    ASSUME Inv, Inv', SpineInv, pc = "PendingPush", NEW h \in unserved,
           Push(h, in_flight[h]), snap' = snap
    PROVE  Newer(h)'
<1> DEFINE change == in_flight[h]
<1>1. TypeOK /\ TypeOK' /\ ServerInv /\ OwedOK(h) /\ SnapInv /\ h \in Handle
    BY DEF Inv, SpineInv, RunInv, Enumerated, TypeOK
<1>2. snap.checkpoint \in Nat /\ snap.checkpoint <= seq /\ seq \in Nat
    BY <1>1 DEF Inv, Phases, ReplicaRemoteSnapshot, SnapInv, TypeOK
<1>3. change \in ReplicaChange /\ change # None /\ Owed(h) = change
    BY <1>1, MergeAssumption DEF Inv, Phases, OnePushPerHandle, Owed
<1>4. RemoteStep
    BY <1>1, <1>3, PushStep
<1>5. Newer(h) => Newer(h)'
    BY <1>1, <1>2, <1>4, NewerSurvives
<1>6. items[h] # None => items[h] \in ServerItem
    BY <1>1 DEF TypeOK
<1>7. (items'[h] = None \/ items'[h].seq = seq + 1) => Newer(h)'
    BY <1>2 DEF Newer
<1>8. CASE PushSetFlags(h, change)
    <2>1. \/ items[h] = None
          \/ items'[h] # None /\ items'[h].seq = seq + 1
        BY <1>1, <1>3, <1>8, PushStep DEF PushSetFlags
    <2> QED BY <1>5, <1>7, <2>1 DEF Newer
<1>9. CASE PushRemove(h, change)
    <2>1. CASE Stale(h, change.if_match)
        BY <1>1, <1>3, <1>5, <1>9, <2>1 DEF Stale, OwedOK, PushRemove
    <2>2. CASE ~Stale(h, change.if_match)
        <3>1. items' = [items EXCEPT ![h] = None]
            BY <1>9, <2>2 DEF PushRemove
        <3>2. items'[h] = None
            BY <1>1, <3>1 DEF TypeOK
        <3> QED BY <1>7, <3>2
    <2> QED BY <2>1, <2>2
<1>10. CASE PushUpdate(h, change)
    <2>1. \/ items'[h] # None /\ items'[h].seq = seq + 1
          \/ items[h] = None \/ Stale(h, change.if_match)
        BY <1>1, <1>3, <1>10, PushStep DEF PushUpdate
    <2>2. items[h] = None => Newer(h)
        BY DEF Newer
    <2>3. Stale(h, change.if_match) => Newer(h)
        BY <1>1, <1>3, <1>10 DEF Stale, OwedOK, PushUpdate
    <2> QED BY <1>5, <1>7, <2>1, <2>2, <2>3
<1>11. CASE PushAdd(h, change)
    BY <1>1, <1>3, <1>5, <1>11 DEF OwedOK, PushAdd
<1> QED BY <1>8, <1>9, <1>10, <1>11 DEF Push

LEMMA LandedNewer ==
    ASSUME Inv, SpineInv, NEW k \in Handle, LandedAt(k), Row(k)' # None
    PROVE  Newer(k)
<1>1. pc = "PendingPush"
    BY DEF LandedAt
<1>2. CASE IsAccepted(k) /\ (pending_flag_pushes[k] # None
                                \/ pending_content_pushes[k] # None)
    <2>1. in_flight[k].kind \in {"SetFlags", "Update"} /\ ResultOK(k)
        BY <1>1, <1>2, AcceptedFacts
    <2> QED BY <1>2, <2>1 DEF ResultOK, Moved
<1>3. ASSUME NEW h \in Handle, IsAccepted(h), results[h].assigned = k,
             pending_creates[h] # None
      PROVE  Newer(k)
    <2>1. in_flight[h].kind = "Add" /\ ResultOK(h) /\ k # None
        BY <1>1, <1>3, AcceptedFacts, RemoteAssumption
    <2> QED BY <1>3, <2>1 DEF ResultOK, Moved
<1> QED BY <1>2, <1>3 DEF LandedAt

(* The cursor moves with the last write only. *)
LEMMA CheckpointStep ==
    ASSUME Inv, SpineInv, [Next]_vars
    PROVE  \/ checkpoint' = checkpoint
           \/ LastWrite /\ checkpoint' = snap.checkpoint
<1>1. CASE MergeWrite
    BY <1>1 DEF MergeWrite, WriteBatch, CheckpointDue, SpineInv, PlaceInv
<1>2. CASE ChunkWrite
    BY <1>2 DEF ChunkWrite, WriteBatch, CheckpointDue
<1>3. CASE LastWrite
    BY <1>3 DEF LastWrite, WriteBatch, SpineInv, PlaceInv
<1>4. CASE User
    BY <1>4, UserMutates DEF Mutate
<1>5. CASE Others
    BY <1>5, OthersMove DEF OtherClient
<1>6. CASE (\E o \in Options : Begin(o)) \/ UNCHANGED vars \/ Fault
    BY <1>6 DEF Begin, vars, Fault, Crash, Refuse, Silence
<1>7. CASE Enumerate \/ MergeStep \/ MergeEnd \/ Serve \/ PushOutcomes
    BY <1>7 DEF Enumerate, MergeStep, MergeEnd, Serve, PushOutcomes
<1> QED BY <1>1, <1>2, <1>3, <1>4, <1>5, <1>6, <1>7 DEF Next, Run

(* FlagCovers of a given row, said of the members after the step. *)
CoversThen(h, p, c) ==
    p # None /\ p.base # None /\ items'[h] # None /\ items'[h].seq <= c =>
        p.base.flags = items'[h].flags

LEMMA FlagsStayThen ==
    ASSUME Inv, Inv', SpineInv, [Next]_vars, NEW k \in Handle, NEW c \in Nat,
           c <= seq, NEW p, FlagCovers(k, p, c)
    PROVE  CoversThen(k, p, c)
BY FlagsStay DEF FlagCovers, CoversThen

LEMMA StandNext ==
    ASSUME Inv, Inv', SpineInv, HeldInv, Obliging, MirrorInv, [Next]_vars
    PROVE  StandInv'
<1> SUFFICES ASSUME NEW k \in Handle
             PROVE  AtBase(store'[k]) /\ AtBase(Row(k)') /\ AtBase(local'[k])
    BY DEF StandInv
<1>0. /\ AtBase(None)
      /\ \A h \in Handle : AtBase(store[h]) /\ AtBase(Row(h)) /\ AtBase(local[h])
    BY DEF AtBase, MirrorInv, StandInv
<1>1. CASE pc = "Idle"
    <2>1. AtBase(store'[k])
        <3>1. CASE store' = store
            BY <1>0, <3>1
        <3>2. CASE User
            <4>1. PICK op, q : \E h \in Handle : /\ store' = [store EXCEPT ![h] = q]
                                                /\ UserRewrite(store[h], q)
                BY <3>2, UserRow
            <4>2. PICK h \in Handle : /\ store' = [store EXCEPT ![h] = q]
                                      /\ UserRewrite(store[h], q)
                BY <4>1
            <4>3. store'[k] = store[k] \/ store'[k] = q
                BY <4>2 DEF Inv, TypeOK
            <4> QED BY <1>0, <4>2, <4>3 DEF UserRewrite
        <3> QED BY <1>1, <3>1, <3>2, IdleStep
    <2>2. Row(k)' = store'[k] /\ local'[k] \in {store[k], local[k]}
        BY <1>1, IdleStep
    <2> QED BY <1>0, <2>1, <2>2
<1>2. CASE pc # "Idle" /\ pc' = "Idle"
    <2>1. /\ store'[k] \in {store[k], Row(k)} /\ Row(k)' = store'[k]
          /\ local'[k] = None
        BY <1>2, EndRows DEF EndRun, None4All
    <2> QED BY <1>0, <2>1
<1>3. CASE pc # "Idle" /\ pc' # "Idle"
    <2>1. /\ store'[k] \in {store[k], Row(k)} /\ local'[k] = local[k]
          /\ Row(k)' = Row(k) \/ MergedAt(k) \/ ForkedAt(k) \/ LandedAt(k)
        BY <1>3, RunRows DEF Batched
    <2>2. MergedAt(k) => AtBase(Row(k)')
        BY <1>0, MergedFlags DEF MergedAt
    <2>3. ForkedAt(k) => AtBase(Row(k)')
        BY DEF ForkedAt, ConflictDup, CreatedPlacement, AtBase
    <2>4. LandedAt(k) => AtBase(Row(k)')
        BY LandedRow DEF AtBase
    <2> QED BY <1>0, <2>1, <2>2, <2>3, <2>4
<1> QED BY <1>1, <1>2, <1>3

LEMMA CoverNext ==
    ASSUME Inv, Inv', SpineInv, SpineInv', HeldInv, Obliging, MirrorInv, [Next]_vars
    PROVE  CoverInv'
<1> SUFFICES ASSUME NEW k \in Handle, checkpoint' # None
             PROVE  /\ CoversThen(k, store'[k], checkpoint')
                    /\ CoversThen(k, Row(k)', checkpoint')
                    /\ CoversThen(k, local'[k], checkpoint')
    BY DEF CoverInv, FlagCovers, CoversThen
<1>0. \A c : CoversThen(k, None, c)
    BY DEF CoversThen
<1>1. CASE LastWrite /\ checkpoint' = snap.checkpoint
    <2>1. /\ WriteBatch /\ EndRun /\ UNCHANGED items /\ pc = "PendingWrite"
          /\ pushes = None4All
        BY <1>1 DEF LastWrite, remoteVars
    <2>2. store'[k] = Row(k) /\ Row(k)' = Row(k)
        BY <2>1, WriteRows
    <2>3. todo = {} /\ unserved = {}
        BY <2>1 DEF SpineInv, PlaceInv
    <2>4. FlagCovers(k, Row(k), snap.checkpoint)
        BY <2>1, <2>3 DEF MirrorInv, WalkedInv, Enumerated, None4All
    <2>6. \A p, c : FlagCovers(k, p, c) => CoversThen(k, p, c)
        BY <2>1 DEF FlagCovers, CoversThen
    <2>7. local'[k] = None
        BY <2>1 DEF EndRun, None4All
    <2> QED BY <1>0, <1>1, <2>2, <2>4, <2>6, <2>7
<1>2. CASE checkpoint' = checkpoint
    <2> DEFINE c == checkpoint
    <2>1. c \in Nat /\ c <= seq /\ c # None
        BY <1>2 DEF Inv, TypeOK, SpineInv, ServerInv
    <2> HIDE DEF c
    <2>2. \A p : FlagCovers(k, p, c) => CoversThen(k, p, c)
        BY <2>1, FlagsStayThen
    <2>3. /\ FlagCovers(k, store[k], c) /\ FlagCovers(k, Row(k), c)
          /\ FlagCovers(k, local[k], c) /\ FlagCovers(k, None, c)
        BY <2>1 DEF MirrorInv, CoverInv, FlagCovers, c
    <2> SUFFICES /\ CoversThen(k, store'[k], c) /\ CoversThen(k, Row(k)', c)
                 /\ CoversThen(k, local'[k], c)
        BY <1>2 DEF c
    <2>4. CASE pc = "Idle"
        <3>1. FlagCovers(k, store'[k], c)
            <4>1. CASE store' = store
                BY <2>3, <4>1
            <4>2. CASE User
                <5>1. PICK op, q : \E h \in Handle :
                        /\ store' = [store EXCEPT ![h] = q]
                        /\ UserRewrite(store[h], q)
                    BY <4>2, UserRow
                <5>2. PICK h \in Handle : /\ store' = [store EXCEPT ![h] = q]
                                          /\ UserRewrite(store[h], q)
                    BY <5>1
                <5>3. store'[k] = store[k] \/ (store'[k] = q /\ h = k)
                    BY <5>2 DEF Inv, TypeOK
                <5> QED BY <2>3, <5>2, <5>3 DEF UserRewrite, FlagCovers
            <4> QED BY <2>4, <4>1, <4>2, IdleStep
        <3>2. Row(k)' = store'[k] /\ local'[k] \in {store[k], local[k]}
            BY <2>4, IdleStep
        <3> QED BY <2>2, <2>3, <3>1, <3>2
    <2>5. CASE pc # "Idle" /\ pc' = "Idle"
        <3>1. /\ store'[k] \in {store[k], Row(k)} /\ Row(k)' = store'[k]
              /\ local'[k] = None
            BY <2>5, EndRows DEF EndRun, None4All
        <3> QED BY <2>2, <2>3, <3>1
    <2>6. CASE pc # "Idle" /\ pc' # "Idle"
        <3>1. /\ store'[k] \in {store[k], Row(k)} /\ local'[k] = local[k]
              /\ Row(k)' = Row(k) \/ MergedAt(k) \/ ForkedAt(k) \/ LandedAt(k)
            BY <2>6, RunRows DEF Batched
        <3>2. MergedAt(k) => FlagCovers(k, Row(k)', c)
            BY <2>1, <2>3, MergedFlags DEF MergedAt, c
        <3>3. ForkedAt(k) => FlagCovers(k, Row(k)', c)
            BY DEF ForkedAt, SpineInv, ServerInv, FlagCovers
        <3>4. LandedAt(k) => FlagCovers(k, Row(k)', c)
            <4>1. CASE Row(k)' = None
                BY <2>3, <4>1
            <4>2. CASE Row(k)' # None /\ LandedAt(k)
                <5>1. /\ Newer(k) /\ pc = "PendingPush"
                    BY <4>2, LandedNewer DEF LandedAt
                <5>2. /\ snap.checkpoint \in Nat /\ c <= snap.checkpoint
                    BY <2>1, <5>1 DEF Inv, Phases, ReplicaRemoteSnapshot, SpineInv,
                                      RunInv, SnapInv, Enumerated, c
                <5> QED BY <2>1, <5>1, <5>2, NewerCovers DEF Inv
            <4> QED BY <4>1, <4>2
        <3> QED BY <2>2, <2>3, <3>1, <3>2, <3>3, <3>4
    <2> QED BY <2>4, <2>5, <2>6
<1> QED BY <1>1, <1>2, CheckpointStep

LEMMA ListedNext ==
    ASSUME Inv, Inv', SpineInv, MirrorInv, [Next]_vars
    PROVE  ListedInv'
<1> SUFFICES ASSUME Enumerated', NEW k \in Handle, ~Newer(k)',
                    snap'.items[k] # None
             PROVE  snap'.items[k].flags = items'[k].flags
    BY DEF ListedInv
<1>1. CASE Enumerated /\ snap' = snap
    BY <1>1, NewerStays DEF MirrorInv, ListedInv
<1>2. CASE Enumerate /\ \E cursor \in Opt(Nat) : snap' = Snapshot(cursor)
    <2>1. snap'.items[k].flags = items[k].flags
        BY <1>2 DEF Snapshot
    <2>2. items' = items
        BY <1>2 DEF Enumerate, remoteVars
    <2> QED BY <2>1, <2>2
<1> QED BY <1>1, <1>2, SnapStep

LEMMA WalkedNext ==
    ASSUME Inv, Inv', SpineInv, SpineInv', HeldInv, Obliging, MirrorInv, [Next]_vars
    PROVE  WalkedInv'
<1> SUFFICES ASSUME Enumerated', NEW k \in Handle, k \notin todo'
             PROVE  \/ CoversThen(k, Row(k)', snap'.checkpoint)
                    \/ pushes'[k] # None \/ k \in unserved'
    BY DEF WalkedInv, FlagCovers, CoversThen
<1>1. CASE Enumerate
    <2>1. /\ pc = "PendingEnumerate" /\ UNCHANGED <<store, local, writes>>
          /\ todo' = {h \in Handle : local[h] # None \/ snap'.items[h] # None}
        BY <1>1 DEF Enumerate, stored
    <2>2. local = store /\ writes[k] = Keep
        BY <2>1 DEF SpineInv, PlaceInv, Enumerated
    <2>3. Row(k)' = None
        BY <2>1, <2>2 DEF Row, Applied
    <2> QED BY <2>3 DEF CoversThen
<1>2. CASE Enumerated /\ snap' = snap
    <2> DEFINE c == snap.checkpoint
    <2>1. c \in Nat /\ c <= seq
        BY <1>2 DEF Inv, Phases, Enumerated, ReplicaRemoteSnapshot, SpineInv, RunInv,
                    SnapInv
    <2> HIDE DEF c
    <2>2. \A p : FlagCovers(k, p, c) => CoversThen(k, p, c)
        BY <2>1, FlagsStayThen
    <2>3. k \notin todo => FlagCovers(k, Row(k), c) \/ pushes[k] # None
                               \/ k \in unserved
        BY <1>2 DEF MirrorInv, WalkedInv, c
    <2> SUFFICES \/ CoversThen(k, Row(k)', c)
                 \/ pushes'[k] # None \/ k \in unserved'
        BY <1>2 DEF c
    <2>4. pc # "Idle" /\ pc' # "Idle"
        BY <1>2 DEF Enumerated
    <2>5. /\ Row(k)' = Row(k) \/ MergedAt(k) \/ ForkedAt(k) \/ LandedAt(k)
        BY <2>4, RunRows
    <2>6. CASE MergeStep
        <3>1. PICK j \in todo : (Skip(j) \/ Merge(j)) /\ todo' = todo \ {j}
            <4>1. todo \in SUBSET Nat /\ todo # {}
                BY <2>6, HandleFacts DEF Inv, TypeOK, MergeStep
            <4> QED BY <2>6, <4>1, LeastIn DEF MergeStep
        <3>2. /\ pc = "Joining" /\ unserved' = unserved /\ pc' # "PendingPush"
            BY <2>6 DEF MergeStep, Skip, Merge
        <3>3. CASE k \in todo
            <4>1. MergedAt(k) \/ (Untouched(k) /\ Row(k)' = Row(k))
                BY <2>6, <3>3, MergeStepRows
            <4>2. CASE Untouched(k) /\ Row(k)' = Row(k)
                BY <2>2, <3>2, <3>3, <4>2, SkippedFlags DEF c
            <4>3. CASE MergedAt(k)
                <5>1. in_flight'[k] = None
                    BY <3>2 DEF Inv, Phases
                <5>2. OutcomeOf(k).push # None => pushes'[k] # None
                    BY <4>3, <5>1 DEF MergedAt, Owed
                <5>3. ~Untouched(k) /\ k \in todo
                    BY <4>3 DEF MergedAt
                <5>4. OutcomeOf(k).push = None => FlagCovers(k, Row(k)', c)
                    <6>1. Row(k) = local[k] \/ k \notin ServerHandle
                        BY <3>2, <3>3, AheadFacts
                    <6>2. k \notin ServerHandle => items[k] = None
                        BY DEF SpineInv, ServerInv
                    <6>3. OutcomeOf(k).push = None =>
                            FlagCovers(k, After(local[k], OutcomeOf(k)), c)
                        BY <3>2, <5>3, MergedFlags DEF c
                    <6> QED BY <4>3, <6>1, <6>2, <6>3
                            DEF MergedAt, After, FlagCovers
                <5> QED BY <2>2, <5>2, <5>4
            <4> QED BY <4>1, <4>2, <4>3
        <3>4. CASE k \notin todo
            <4>1. pushes[k] # None => pushes'[k] # None
                BY <3>1, <3>4 DEF Skip, Merge, Inv, TypeOK
            <4>2. FlagCovers(k, Row(k), c) => FlagCovers(k, Row(k)', c)
                <5>1. ForkedAt(k) => FlagCovers(k, Row(k)', c)
                    BY DEF ForkedAt, SpineInv, ServerInv, FlagCovers
                <5>2. ~MergedAt(k) /\ ~LandedAt(k)
                    BY <3>2, <3>4 DEF MergedAt, LandedAt
                <5> QED BY <2>5, <5>1, <5>2
            <4> QED BY <2>2, <2>3, <3>2, <3>4, <4>1, <4>2
        <3> QED BY <3>3, <3>4
    <2>7. CASE MergeEnd \/ ChunkWrite
        <3>1. /\ Step /\ pc # "PendingPush" /\ unserved = {} /\ todo' = todo
            BY <2>7 DEF MergeEnd, ChunkWrite, mergeVars, SpineInv, PlaceInv
        <3>2. pushes[k] # None => pushes'[k] # None \/ k \in unserved'
            BY <3>1 DEF Step, None4All
        <3>3. Row(k)' = Row(k)
            BY <2>7, WriteRows DEF MergeEnd, ChunkWrite, stored, Row
        <3> QED BY <2>2, <2>3, <3>1, <3>2, <3>3
    <2>8. CASE Serve
        <3>1. /\ UNCHANGED <<store, writes, pushes, todo>> /\ pc = "PendingPush"
            BY <2>8 DEF Serve, stored, mergeVars
        <3>2. Row(k)' = Row(k)
            BY <3>1 DEF Row
        <3>3. PICK h \in unserved : Push(h, in_flight[h]) /\ unserved' = unserved \ {h}
            <4>1. unserved \in SUBSET Nat /\ unserved # {}
                BY <2>8, HandleFacts DEF Inv, TypeOK, Serve
            <4> QED BY <2>8, <4>1, LeastIn DEF Serve
        <3>4. k = h => CoversThen(k, Row(k), c)
            <4>1. Newer(h)'
                BY <1>2, <3>1, <3>3, AnsweredNewer
            <4>2. items'[k] # None => items'[k].seq \in Nat
                BY ItemFacts DEF Inv, TypeOK, ServerItem
            <4> QED BY <1>2, <2>1, <4>1, <4>2 DEF Newer, CoversThen, c
        <3> QED BY <2>2, <2>3, <3>1, <3>2, <3>3, <3>4
    <2>9. CASE PushOutcomes
        <3>1. unserved = {} /\ UNCHANGED <<pushes, todo, unserved>>
            BY <2>9 DEF PushOutcomes, mergeVars
        <3>2. CASE Row(k)' = Row(k)
            BY <2>2, <2>3, <3>1, <3>2
        <3>3. CASE LandedAt(k) /\ Row(k)' # None
            <4>1. FlagCovers(k, Row(k)', c)
                BY <2>1, <3>3, LandedNewer, NewerCovers DEF Inv, c
            <4> QED BY <2>2, <4>1
        <3>4. CASE Row(k)' = None
            BY <3>4 DEF CoversThen
        <3> QED BY <2>9, <3>2, <3>3, <3>4, PushOutcomesRows
    <2>10. CASE MergeWrite \/ Others \/ (\E h \in Handle : Silence(h))
               \/ UNCHANGED vars
        <3>1. UNCHANGED <<pushes, todo, unserved>>
            BY <2>10, OthersMove DEF MergeWrite, OtherClient, Silence, vars, runVars,
                                     mergeVars
        <3>2. Row(k)' = Row(k)
            BY <2>10, WriteRows, OthersMove
               DEF MergeWrite, OtherClient, Silence, vars, runVars, stored, Row
        <3> QED BY <2>2, <2>3, <3>1, <3>2
    <2>11. ~Refuse
        BY DEF Refuse, Obliging
    <2>12. ~(\E o \in Options : Begin(o)) /\ ~User /\ ~LastWrite /\ ~Crash /\ ~Enumerate
        BY <1>2, <2>4, UserMutates DEF Begin, Mutate, LastWrite, Crash, EndRun,
                                       Enumerate, Enumerated
    <2> QED BY <2>6, <2>7, <2>8, <2>9, <2>10, <2>11, <2>12 DEF Next, Run, Fault
<1> QED BY <1>1, <1>2, SnapStep

(* CleanMirrorsFlags: where every source takes what it is sent, a row the  *)
(* engine calls clean holds the server's flags of any member the cursor    *)
(* covers, whatever the two sides flipped and wherever a run was cut.      *)
THEOREM CleanRowsMirror == Cautious /\ Obliging /\ Spec => []CleanMirrorsFlags
<1> DEFINE I == Inv /\ SpineInv /\ HeldInv
<1>1. Obliging /\ Init => Obliging /\ MirrorInv
    BY InitMirror
<1>2. I /\ I' /\ (Obliging /\ MirrorInv) /\ [Next]_vars => (Obliging /\ MirrorInv)'
    <2>1. Obliging => Obliging'
        BY DEF Obliging
    <2> QED BY <2>1, StandNext, CoverNext, ListedNext, WalkedNext DEF MirrorInv
<1>3. MirrorInv => CleanMirrorsFlags
    BY DEF MirrorInv, StandInv, CoverInv, AtBase, FlagCovers, CleanMirrorsFlags
<1>4. Cautious /\ Spec => []I
    BY HeldHolds, PTL
<1> HIDE DEF I
<1> QED BY <1>1, <1>2, <1>3, <1>4, PTL DEF Spec

--------------------------------------------------------------------------------
(* Where nobody edits a body.                                              *)

(* A row of h that stages no edit: one without a base was created here and *)
(* has no handle of the server's yet; the body of another is its base's.   *)
Unstaged(h, p) ==
    p # None =>
        IF p.base = None
        THEN p.status \in {"Created", "Tombstone"} /\ h \notin ServerHandle
        ELSE ~StagedEdit(p)

UnstagedInv == \A h \in Handle : \A p \in Slots(h) : Unstaged(h, p)

(* The content axis has no edit to push, and the flag axis touches no body. *)
LEMMA MergeBothUnstaged ==
    ASSUME NEW p \in ReplicaPlacement, KnownFlags(p), p.base # None,
           ~StagedEdit(p),
           NEW item \in ReplicaRemoteItem, item.flags \in SUBSET Flag,
           NEW options \in ReplicaSyncOptions
    PROVE  LET out == MergeBoth(p, item, options)
               q   == After(p, out)
           IN  /\ q # None /\ q.base # None /\ ~StagedEdit(q)
               /\ out.flag # None =>
                     out.flag.base # None /\ ~StagedEdit(out.flag)
               /\ out.content = None /\ out.create = None
<1>1. PICK c : c = ReconcileContent(p, item, options)
    OBVIOUS
<1>2. PICK r, out : r = c.row /\ out = c.out
    OBVIOUS
<1>3. PICK new : new = MergeBoth(p, item, options)
    OBVIOUS
<1>4. ContentSame(c, p) /\ p # None
    BY <1>1, ReconcileContentSame, SentinelAssumption
<1>5. /\ r \in ReplicaPlacement /\ out \in Outcome /\ r # None /\ r.base # None
      /\ r.flags = p.flags /\ r.base.flags = p.base.flags
      /\ (out.put = Keep /\ r = p) \/ out.put = Upsert(r)
      /\ out.flag = None /\ out.create = None
    BY <1>2, <1>4, SentinelAssumption DEF ContentSame
<1>6. ~StagedEdit(r) /\ out.content = None
    <2>1. c \in {Continue(p, Nothing), TrackConflict(p, item),
                 PullRemote(p, item, Nothing)}
        BY <1>1 DEF ReconcileContent, StagedEdit
    <2>2. CASE c = Continue(p, Nothing)
        BY <1>2, <2>2 DEF Continue, Nothing
    <2>3. CASE c = TrackConflict(p, item)
        <3>1. r.object = p.object /\ r.base = p.base
            BY <1>2, <2>3 DEF TrackConflict, Continue, ReplicaPlacement
        <3>2. out.content = None
            BY <1>2, <2>3 DEF TrackConflict, Continue, Write, Nothing
        <3> QED BY <3>1, <3>2 DEF StagedEdit
    <2>4. CASE c = PullRemote(p, item, Nothing)
        <3>1. r.object = None
            BY <1>2, <2>4 DEF PullRemote, PullContent, Continue, ReplicaPlacement
        <3>2. out.content = None
            BY <1>2, <2>4 DEF PullRemote, Continue, Write, Nothing
        <3> QED BY <3>1, <3>2 DEF StagedEdit
    <2> QED BY <2>1, <2>2, <2>3, <2>4
<1>7. KnownFlags(r)
    BY <1>4, <1>5 DEF KnownFlags
<1>8. new = ReconcileFlags(r, item, out, options)
    BY <1>1, <1>2, <1>3 DEF MergeBoth
<1>9. PICK q : FlagResult(q, r, item, out, new, options)
    BY <1>5, <1>7, <1>8, ReconcileFlagsStep
<1>10. /\ new.flag # None => FlagStep(new.flag, r, item)
       /\ new.content = None /\ new.create = None
    BY <1>5, <1>6, <1>7, <1>8, ReconcileFlagsStep
<1>11. After(p, new) = q
    <2>1. \A x \in ReplicaPlacement : /\ Upsert(x) # Keep /\ Upsert(x).row = x
                                      /\ Upsert(x).op = "UpsertPlacement"
        BY OpTypes, MergeAssumption DEF Upsert
    <2> QED BY <1>5, <1>9, <2>1 DEF After, FlagStep, FlagResult
<1>12. ASSUME NEW x, FlagStep(x, r, item)
       PROVE  x # None /\ x.base # None /\ ~StagedEdit(x)
    BY <1>5, <1>6, <1>12, SentinelAssumption DEF FlagStep, StagedEdit
<1> QED BY <1>3, <1>9, <1>10, <1>11, <1>12 DEF FlagResult

(* ReplicaSync::merge stages no edit of its own. *)
LEMMA CandidateUnstaged ==
    ASSUME NEW h, NEW p \in Opt(ReplicaPlacement), Unstaged(h, p), KnownFlags(p),
           NEW item \in Opt(ReplicaRemoteItem),
           item # None => item.flags \in SUBSET Flag /\ h \in ServerHandle,
           NEW options \in ReplicaSyncOptions,
           NEW out, out = MergeCandidate(p, item, options),
           NEW x \in {After(p, out), out.flag, out.content, out.create}
    PROVE  Unstaged(h, x)
<1>1. Unstaged(h, None)
    BY DEF Unstaged
<1>2. /\ Nothing \in Outcome
      /\ Nothing.put = Keep /\ Nothing.flag = None /\ Nothing.content = None
      /\ Nothing.create = None
    BY NothingSound DEF Sound, Nothing
<1>3. CASE out = Write(Nothing, Drop("Deleted"))
    <2>1. Drop("Deleted") # Keep /\ Drop("Deleted").op = "DropPlacement"
        BY OpTypes, MergeAssumption DEF Drop, DropReason
    <2>2. /\ out.put = Drop("Deleted") /\ out.flag = None /\ out.content = None
          /\ out.create = None
        BY <1>2, <1>3, WriteKeeps
    <2> QED BY <1>1, <2>1, <2>2 DEF After
<1>4. ASSUME NEW q \in ReplicaPlacement, Unstaged(h, q),
             out = Write(Nothing, Upsert(q))
      PROVE  Unstaged(h, x)
    BY <1>1, <1>4, WrittenFacts
<1>5. ASSUME out.put = Keep, out.flag = None, out.content = None,
             out.create \in {None, p}
      PROVE  Unstaged(h, x)
    BY <1>1, <1>5 DEF After
<1>6. CASE item # None /\ out = Write(Nothing, Upsert(PullAdd(item)))
    <2>1. PullAdd(item) \in ReplicaPlacement /\ PullAdd(item).base # None
        BY <1>6, PullFacts
    <2>2. PullAdd(item).object = None
        BY DEF PullAdd
    <2>3. Unstaged(h, PullAdd(item))
        BY <2>1, <2>2 DEF Unstaged, StagedEdit
    <2> QED BY <1>4, <1>6, <2>1, <2>3
<1>7. CASE p # None /\ p.status = "Tombstone" /\ p.base # None /\ item # None
    <2> DEFINE q       == [p EXCEPT !.status = "Clean"]
               deleted == [Nothing EXCEPT !.push = Remove(p, p.base.revision),
                                          !.drop = TRUE]
    <2>1. ~StagedEdit(p)
        BY <1>7 DEF Unstaged
    <2>2. out \in {Write(Nothing, Upsert(PullAdd(item))), deleted, Nothing,
                   Write(Nothing, Upsert(q))}
        BY <1>7, <2>1 DEF MergeCandidate, MergeTombstone, RefuseDelete
    <2>3. /\ deleted.put = Keep /\ deleted.flag = None
          /\ deleted.content = None /\ deleted.create = None
        BY DEF Nothing
    <2>4. /\ q \in ReplicaPlacement /\ q.object = p.object /\ q.base = p.base
        BY <1>7 DEF ReplicaPlacement, ReplicaStatus
    <2> HIDE DEF q, deleted
    <2>5. Unstaged(h, q)
        BY <1>7, <2>1, <2>4 DEF Unstaged, StagedEdit
    <2> QED BY <1>2, <1>4, <1>5, <1>6, <1>7, <2>2, <2>3, <2>4, <2>5
<1>8. CASE p # None /\ p.status # "Tombstone" /\ item # None
    <2>1. p.base # None /\ ~StagedEdit(p)
        BY <1>8 DEF Unstaged
    <2>2. out = MergeBoth(p, item, options)
        BY <1>8 DEF MergeCandidate
    <2> QED BY <1>1, <1>8, <2>1, <2>2, MergeBothUnstaged DEF Unstaged
<1>9. CASE p # None /\ p.status # "Tombstone" /\ item = None
    <2>1. CASE p.base # None
        <3>1. ~StagedEdit(p)
            BY <1>9, <2>1 DEF Unstaged
        <3>2. out = Write(Nothing, Drop("Deleted"))
            BY <1>9, <2>1, <3>1 DEF MergeCandidate, MergeVanished
        <3> QED BY <1>3, <3>2
    <2>2. CASE p.base = None
        <3> DEFINE added == [Nothing EXCEPT !.push = Add(p), !.create = p]
        <3>1. out \in {added, Nothing}
            BY <1>9, <2>2 DEF MergeCandidate, MergeCreated
        <3>2. /\ added.put = Keep /\ added.flag = None
              /\ added.content = None /\ added.create = p
            BY DEF Nothing
        <3> HIDE DEF added
        <3> QED BY <1>2, <1>5, <3>1, <3>2
    <2> QED BY <2>1, <2>2
<1>10. CASE p = None \/ (p.status = "Tombstone" /\ (p.base = None \/ item = None))
    <2>1. \/ out = Nothing
          \/ out = Write(Nothing, Drop("Deleted"))
          \/ item # None /\ out = Write(Nothing, Upsert(PullAdd(item)))
        BY <1>10 DEF MergeCandidate
    <2> QED BY <1>2, <1>3, <1>5, <1>6, <2>1
<1> QED BY <1>7, <1>8, <1>9, <1>10

LEMMA UnstagedNext ==
    ASSUME Inv, Inv', SpineInv, HeldInv, "Edit" \notin UserOps, UnstagedInv,
           [Next]_vars
    PROVE  UnstagedInv'
<1> SUFFICES ASSUME NEW k \in Handle, NEW x \in Slots(k)'
             PROVE  Unstaged(k, x)
    BY DEF UnstagedInv, Unstaged, StagedEdit
<1>1. Unstaged(k, None) /\ \A p \in Slots(k) : Unstaged(k, p)
    BY DEF UnstagedInv, Unstaged
<1>2. CASE x \in Slots(k) \/ x = None
    BY <1>1, <1>2
<1>3. CASE pc = "Idle" /\ User /\ x = store'[k]
    <2>1. PICK op, q : \E h \in Handle :
              /\ Mutate(op) /\ store' = [store EXCEPT ![h] = q]
              /\ op # "Edit" => Unedited(store[h], q)
              /\ h \notin ServerHandle \/ store[h] # None
        BY <1>3, UserRow
    <2>2. PICK h \in Handle :
              /\ Mutate(op) /\ store' = [store EXCEPT ![h] = q]
              /\ op # "Edit" => Unedited(store[h], q)
              /\ h \notin ServerHandle \/ store[h] # None
        BY <2>1
    <2>3. Unedited(store[h], q)
        BY <2>2 DEF Mutate
    <2>4. store'[k] = store[k] \/ (k = h /\ store'[k] = q)
        BY <2>2 DEF Inv, TypeOK
    <2>5. Unstaged(k, store[k])
        BY <1>1 DEF Slots
    <2>6. k = h => Unstaged(k, q)
        BY <2>2, <2>3, <2>5 DEF Unedited, Unstaged, StagedEdit
    <2> QED BY <1>3, <2>4, <2>5, <2>6
<1>4. CASE /\ MergedAt(k)
           /\ LET out == OutcomeOf(k)
              IN  x \in {After(local[k], out), out.flag, out.content, out.create}
    <2>1. pc = "Joining" /\ k \in todo /\ ~Untouched(k)
        BY <1>4 DEF MergedAt
    <2>2. /\ local[k] \in Opt(ReplicaPlacement) /\ opts \in ReplicaSyncOptions
          /\ Item(k) \in Opt(ReplicaRemoteItem)
          /\ Item(k) # None => Item(k).flags \in SUBSET Flag /\ k \in ServerHandle
        BY <2>1, AheadFacts, ItemOK, OutcomeMade
    <2>3. Unstaged(k, local[k]) /\ KnownFlags(local[k])
        BY <1>1 DEF Slots, HeldInv, KnownInv
    <2>4. OutcomeOf(k) = MergeCandidate(local[k], Item(k), opts)
        BY DEF OutcomeOf, Item
    <2> QED BY <1>4, <2>2, <2>3, <2>4, CandidateUnstaged
<1>5. CASE ForkedAt(k) /\ x = Row(k)'
    <2>1. /\ k \notin ServerHandle
          /\ \E p : x = ConflictDup(p)
        BY <1>5 DEF ForkedAt
    <2>2. x.status = "Created" /\ x.base = None
        BY <2>1 DEF ConflictDup, CreatedPlacement
    <2> QED BY <2>1, <2>2 DEF Unstaged
<1>6. CASE LandedAt(k) /\ x = Row(k)'
    <2>1. x = None \/ x.base # None
        BY <1>6, LandedRow
    <2>2. CASE /\ pending_content_pushes[k] # None
               /\ x = RebaseContent(pending_content_pushes[k], results[k].revision)
        <3>1. pending_content_pushes[k] \in ReplicaPlacement
            BY <2>2, RowTypes DEF Inv
        <3>2. x.base.object = x.object
            BY <2>2, <3>1 DEF RebaseContent, ReplicaPlacement
        <3> QED BY <2>1, <3>2 DEF Unstaged, StagedEdit
    <2>3. CASE /\ IsAccepted(k) /\ pending_flag_pushes[k] # None
               /\ x = Rebase(pending_flag_pushes[k], pending_flag_pushes[k].flags)
        <3> DEFINE p == pending_flag_pushes[k]
        <3>1. p \in ReplicaPlacement /\ Unstaged(k, p)
            BY <1>1, <2>3, RowTypes DEF Inv, Slots
        <3>2. k \in ServerHandle
            BY <1>6, <2>3, AcceptedFacts DEF LandedAt, OwedOK, IsAccepted
        <3>3. p.base # None /\ ~StagedEdit(p)
            BY <2>3, <3>1, <3>2 DEF Unstaged
        <3>4. x.object = p.object /\ x.base.object = p.base.object
            BY <2>3, <3>1, <3>3 DEF Rebase, FlagBase, ReplicaPlacement
        <3> QED BY <2>1, <3>3, <3>4 DEF Unstaged, StagedEdit
    <2>4. ASSUME NEW h \in Handle, pending_creates[h] # None,
                 x = RekeyCreate(pending_creates[h], results[h].revision)
          PROVE  Unstaged(k, x)
        <3>1. pending_creates[h] \in ReplicaPlacement
            BY <2>4, RowTypes DEF Inv
        <3>2. x.base.object = x.object
            BY <2>4, <3>1 DEF RekeyCreate, ReplicaPlacement
        <3> QED BY <2>1, <3>2 DEF Unstaged, StagedEdit
    <2> QED BY <1>1, <1>6, <2>2, <2>3, <2>4 DEF LandedAt
<1> QED BY <1>2, <1>3, <1>4, <1>5, <1>6, IdleSlots, SlotStep

(* CleanOwesNothing where bodies are never edited, as a mailbox's are not: *)
(* a clean row points at no body but its base's, whatever was copied,      *)
(* moved, flagged, created or deleted, under every conflict policy         *)
(* (sync.rs, rekey_create and refuse_delete).                              *)
THEOREM CleanCopiesPushed ==
    Cautious /\ "Edit" \notin UserOps /\ Spec => []CleanOwesNothing
<1> DEFINE I == Inv /\ SpineInv /\ HeldInv
           J == "Edit" \notin UserOps /\ UnstagedInv
<1>1. Init => UnstagedInv
    <2> SUFFICES ASSUME Init, NEW h \in Handle, NEW p \in Slots(h)
                 PROVE  p = None
        BY DEF UnstagedInv, Unstaged
    <2>1. Row(h) = None
        BY DEF Init, None4All, Row, Applied
    <2> QED BY <2>1 DEF Init, NoRun, None4All, Slots
<1>2. I /\ I' /\ J /\ [Next]_vars => J'
    BY UnstagedNext
<1>3. J => CleanOwesNothing
    <2> SUFFICES ASSUME UnstagedInv, NEW h \in Handle, store[h] # None,
                        store[h].status = "Clean"
                 PROVE  ~StagedEdit(store[h])
        BY DEF CleanOwesNothing
    <2>1. Unstaged(h, store[h])
        BY DEF UnstagedInv, Slots
    <2> QED BY <2>1 DEF Unstaged
<1>4. Cautious /\ Spec => []I
    BY HeldHolds, PTL
<1> HIDE DEF I
<1> QED BY <1>1, <1>2, <1>3, <1>4, PTL DEF Spec

================================================================================
