----------------------------- MODULE DeliveryProofs -----------------------------
(***************************************************************************)
(* The replica implements Delivery: for every set of handles and bodies,   *)
(* every chunk size, any sync options but two, and any number of edits,    *)
(* creates, deletes, other clients' changes and faults, a body a user      *)
(* authored stays pending until the remote took it, and the remote is sent *)
(* no other. No row marked clean still has one to push.                    *)
(***************************************************************************)
EXTENDS SpineProofs

USE DEF Opt, Revision, remoteVars, stored, mergeVars, pendings, runVars

(* The instances the theorem is about: content alone, in one collection.   *)
(* Flags that move beside a staged edit demote it, a move takes its edit   *)
(* to another collection, and the two other policies give one side of a    *)
(* conflict up: see the README.                                            *)
ContentAlone ==
    /\ UserOps \subseteq {"Edit", "Remove", "Add"}
    /\ RemoteOps \subseteq {"Seed", "Edit", "Remove"}
    /\ \A o \in Options : o.conflict \in {"Manual", "PreferLocal"}

--------------------------------------------------------------------------------
(* The inductive invariant, part by part.                                  *)

(* The row p owes the remote a body. *)
OwesBody(p) ==
    /\ p # None
    /\ p.status \in {"Dirty", "Conflict", "Created"}
    /\ StagedEdit(p)

(* What p owes, q owes. *)
Carries(p, q) == OwesBody(p) => OwesBody(q) /\ q.object = p.object

(* What is left of a row when content is alone: no flag, no origin. A row  *)
(* without a base is a create, or an edit brought back to life.            *)
Plain(p) ==
    p # None =>
        /\ p.flags = {} /\ p.origin = None
        /\ p.base # None => p.base.flags = {} /\ p.status # "Created"
        /\ p.base = None =>
              p.object # None /\ p.status \in {"Created", "Dirty", "Tombstone"}

(* The server has had a member at h; it has lost it. *)
Once(h) == items[h] # None \/ gone[h] # 0
Lost(h) == items[h] = None /\ gone[h] # 0

(* A row h may hold. One at a server's handle stands for a member there    *)
(* was; one without a base there, for a member lost, and lost for good     *)
(* where handles are not used again.                                       *)
RowFit(h, p) ==
    /\ Plain(p)
    /\ p # None =>
          /\ p.base # None => h \in ServerHandle
          /\ h \in ServerHandle => Once(h)
          /\ (h \in ServerHandle /\ p.base = None /\ ~Mutable) => Lost(h)

MembersInv ==
    \A h \in Handle : items[h] # None => h \in ServerHandle /\ items[h].flags = {}

FitInv ==
    \A h \in Handle :
        /\ RowFit(h, store[h]) /\ RowFit(h, Row(h)) /\ RowFit(h, local[h])
        /\ RowFit(h, pending_content_pushes[h])
        /\ RowFit(h, pending_creates[h])
        /\ pending_flag_pushes[h] = None

(* The batch gives up no body but one the remote took, and stages none. *)
BatchInv ==
    \A h \in Handle :
        /\ Carries(Row(h), store[h])
        /\ Carries(store[h], Row(h)) \/ store[h].object \in landed

(* What the snapshot lists of a member, and what it may find lost. *)
SnapFit(h) ==
    /\ snap.items[h] # None =>
          /\ h \in ServerHandle /\ Once(h)
          /\ snap.items[h].flags = {}
          /\ Mutable => snap.items[h].revision # None
    /\ (~Mutable /\ local[h] # None) =>
          /\ local[h].base = None => snap.items[h] = None
          /\ (local[h].base # None
                /\ (h \in snap.vanished
                       \/ (snap.complete /\ snap.items[h] = None))) => Lost(h)

(* What the join has not walked is as it was loaded. *)
Unwalked(h) == h \in todo => writes[h] = Keep /\ store[h] = local[h]

(* A change owed carries a pending body, or deletes what owes none. *)
OwedFit(h) ==
    Owed(h) # None =>
        /\ store[h] # None /\ Row(h) # None
        /\ Owed(h).kind \in {"Update", "Add"} =>
              /\ OwesBody(store[h]) /\ OwesBody(Row(h))
              /\ store[h].object = Owed(h).object
              /\ Row(h).object = Owed(h).object
        /\ Owed(h).kind = "Update" => pending_content_pushes[h].base # None
        /\ Owed(h).kind = "Add" => Owed(h).origin = None /\ Owed(h).flags = {}
        /\ Owed(h).kind = "Remove" =>
              store[h].status = "Tombstone" /\ Row(h).status = "Tombstone"

(* An accepted body landed, at a handle that had no row when it was given  *)
(* one.                                                                    *)
ResultFit(h) ==
    IsAccepted(h) =>
        /\ in_flight[h].kind \in {"Update", "Add"} =>
              in_flight[h].object \in landed
        /\ results[h].assigned # None =>
              LET k == results[h].assigned
              IN  /\ k \in ServerHandle /\ Once(k)
                  /\ store[k] = None /\ Row(k) = None

(* What the place of the coroutine says of the batch and the answers. *)
PlaceFit ==
    /\ ~Enumerated => todo = {} /\ \A h \in Handle : writes[h] = Keep
    /\ pc = "PendingEnumerate" => local = store
    /\ pc \notin {"Joining", "Merging"} => todo = {}
    /\ pc # "Idle" => opts \in Options
    /\ pc # "PendingPush" => unserved = {} /\ \A h \in Handle : results[h] = None

DeliveryInv ==
    /\ ContentAlone
    /\ MembersInv /\ FitInv /\ BatchInv /\ PlaceFit
    /\ \A h \in Handle : Unwalked(h) /\ OwedFit(h) /\ ResultFit(h)
    /\ Enumerated => \A h \in Handle : SnapFit(h)
--------------------------------------------------------------------------------
(* What the merge of one candidate does to the body it owes.               *)

(* A clean row owes no push. *)
Tidy(p) == (p # None /\ p.status = "Clean") => ~StagedEdit(p)

(* A live row. *)
Live(p) == p # None => p.status # "Tombstone"

(* q is p as far as what it owes goes. *)
Equal(p, q) == Carries(p, q) /\ Carries(q, p)

(* The row the content axis hands over is the one it wrote, if any, and    *)
(* owes what p owes; a row with no base it marks; a push carries what p    *)
(* owes.                                                                   *)
ContentKept(c, p) ==
    /\ c.row \in ReplicaPlacement /\ c.out \in Outcome
    /\ c.row.flags = {} /\ c.row.origin = None /\ Equal(p, c.row)
    /\ c.row.status \notin {"Tombstone", "Created"}
    /\ c.row.base # None => p.base # None /\ c.row.base.flags = {}
    /\ c.row.base = None => /\ p.base = None
                            /\ c.row.object # None /\ c.row.status = "Conflict"
    /\ Tidy(p) => Tidy(c.row)
    /\ \/ c.out.put = Keep /\ c.row = p
       \/ c.out.put = Upsert(c.row)
    /\ c.out.dup = None /\ c.out.flag = None /\ c.out.create = None
    /\ c.out.push = None => c.out.content = None
    /\ c.out.push # None =>
          /\ c.out.push.kind = "Update" /\ c.out.push.object = p.object
          /\ OwesBody(p) /\ p.base # None /\ c.row = p /\ c.out.content = p

LEMMA UntouchedKept ==
    ASSUME NEW p \in ReplicaPlacement, Plain(p), p.base # None,
           p.status # "Tombstone"
    PROVE  ContentKept(Continue(p, Nothing), p)
<1>1. p # None
    BY SentinelAssumption
<1> QED BY <1>1, NothingSound
        DEF ContentKept, Continue, Nothing, Sound, Equal, Carries, Plain

LEMMA MarkKept ==
    ASSUME NEW p \in ReplicaPlacement, NEW item \in ReplicaRemoteItem,
           Plain(p), p.status # "Tombstone",
           NEW c, \/ c = MarkConflict(p, item) /\ OwesBody(p)
                  \/ c = TrackConflict(p, item) /\ p.status = "Conflict"
    PROVE  ContentKept(c, p)
<1> DEFINE q == c.row
<1>1. \/ /\ q = [p EXCEPT !.status            = "Conflict",
                          !.conflict_revision = item.revision,
                          !.conflict_object   = None]
         /\ OwesBody(p)
      \/ /\ q = [p EXCEPT !.conflict_revision = item.revision,
                          !.conflict_object   = None]
         /\ p.status = "Conflict"
    BY DEF MarkConflict, TrackConflict, Continue
<1>2. q \in ReplicaPlacement
    BY <1>1 DEF ReplicaPlacement, ReplicaRemoteItem, ReplicaStatus
<1>3. c.out = Write(Nothing, Upsert(q))
    BY DEF MarkConflict, TrackConflict, Continue
<1> HIDE DEF q
<1>4. /\ q.status = "Conflict" /\ q.object = p.object /\ q.base = p.base
      /\ q.flags = p.flags /\ q.origin = p.origin
    BY <1>1 DEF ReplicaPlacement
<1>5. p # None /\ q # None
    BY <1>2, SentinelAssumption
<1>6. Equal(p, q)
    BY <1>1, <1>4, <1>5 DEF Equal, Carries, OwesBody, StagedEdit
<1>7. Upsert(q) \in ReplicaWriteOp /\ Tidy(q)
    BY <1>2, <1>4, OpTypes DEF Tidy
<1>8. /\ c.out \in Outcome /\ c.out.put = Upsert(q) /\ c.out.push = None
      /\ c.out.flag = None /\ c.out.content = None /\ c.out.create = None
      /\ c.out.dup = None
    BY <1>3, <1>7, NothingSound, WriteSound, WriteKeeps DEF Sound, Nothing
<1> QED BY <1>2, <1>4, <1>5, <1>6, <1>7, <1>8 DEF ContentKept, Plain, q

LEMMA PullKept ==
    ASSUME NEW p \in ReplicaPlacement, NEW item \in ReplicaRemoteItem,
           Plain(p), p.base # None, p.status # "Tombstone", ~OwesBody(p)
    PROVE  ContentKept(PullRemote(p, item, Nothing), p)
<1> DEFINE q == PullContent(p, item)
           b == [p.base EXCEPT !.revision = item.revision, !.object = None]
<1>1. q \in ReplicaPlacement
    BY PullContentType
<1>2. p.base \in ReplicaBase
    BY DEF ReplicaPlacement
<1>3. b \in ReplicaBase /\ b.flags = p.base.flags
    BY <1>2 DEF ReplicaBase, ReplicaRemoteItem
<1>4. /\ q.base = b /\ q.status = p.status /\ q.object = None
      /\ q.flags = p.flags /\ q.origin = p.origin
    BY DEF PullContent, ReplicaPlacement
<1> HIDE DEF q, b
<1>5. p # None /\ q.base # None
    BY <1>3, <1>4, SentinelAssumption
<1>6. Equal(p, q)
    BY <1>4 DEF Equal, Carries, OwesBody, StagedEdit
<1>7. Upsert(q) \in ReplicaWriteOp /\ Tidy(q)
    BY <1>1, <1>4, OpTypes DEF Tidy, StagedEdit
<1> DEFINE out == Write(Nothing, Upsert(q))
<1>8. /\ out \in Outcome /\ out.put = Upsert(q) /\ out.push = None
      /\ out.flag = None /\ out.content = None /\ out.create = None
      /\ out.dup = None
    BY <1>7, NothingSound, WriteSound, WriteKeeps DEF Sound, Nothing
<1>9. PullRemote(p, item, Nothing) = Continue(q, out)
    BY DEF PullRemote, q
<1> HIDE DEF out
<1> QED BY <1>1, <1>3, <1>4, <1>5, <1>6, <1>7, <1>8, <1>9
        DEF ContentKept, Plain, Continue

LEMMA PushKept ==
    ASSUME NEW p \in ReplicaPlacement, NEW revision \in Opt(Nat),
           Plain(p), p.base # None, p.status # "Tombstone", OwesBody(p)
    PROVE  ContentKept(PushLocal(p, revision), p)
<1> DEFINE change == Update(p, revision)
           out    == [Nothing EXCEPT !.push = change, !.content = p]
<1>1. p # None /\ p.object # None
    BY DEF OwesBody, StagedEdit
<1>2. change.kind = "Update" /\ change.object = p.object
    BY DEF Update
<1>3. Sound(out)
    BY <1>1, NothingSound, PushSound DEF Nothing
<1>4. /\ out.put = Keep /\ out.dup = None /\ out.flag = None
      /\ out.create = None /\ out.content = p /\ out.push = change
    BY DEF Nothing
<1>5. PushLocal(p, revision) = Continue(p, out)
    BY DEF PushLocal
<1> HIDE DEF out, change
<1>6. change # None
    BY <1>1, <1>3, <1>4 DEF Sound, Agrees
<1> QED BY <1>1, <1>2, <1>3, <1>4, <1>5, <1>6
        DEF ContentKept, Continue, Sound, Equal, Carries, Plain

LEMMA ContentKeeps ==
    ASSUME NEW p \in ReplicaPlacement, NEW item \in ReplicaRemoteItem,
           NEW options \in ReplicaSyncOptions,
           options.conflict \in {"Manual", "PreferLocal"},
           Plain(p), p.status # "Tombstone",
           p.base = None => item.revision # None
    PROVE  ContentKept(ReconcileContent(p, item, options), p)
<1>1. p # None /\ item.revision \in Opt(Nat)
    BY SentinelAssumption DEF ReplicaRemoteItem
<1>2. CASE p.base = None
    <2>1. OwesBody(p)
        BY <1>1, <1>2 DEF Plain, OwesBody, StagedEdit
    <2>2. ReconcileContent(p, item, options) = MarkConflict(p, item)
        BY <1>1, <1>2 DEF ReconcileContent, Plain
    <2> QED BY <2>1, <2>2, MarkKept
<1>3. CASE p.base # None /\ p.status = "Conflict"
    BY <1>3, MarkKept, UntouchedKept DEF ReconcileContent
<1>4. CASE p.base # None /\ p.status # "Conflict"
    <2>1. p.base.revision \in Opt(Nat)
        BY <1>4 DEF ReplicaPlacement, ReplicaBase
    <2> DEFINE local_changed == p.status = "Dirty" /\ p.object # None
                                    /\ p.object # p.base.object
    <2>2. local_changed <=> OwesBody(p)
        BY <1>1, <1>4 DEF OwesBody, StagedEdit, Plain
    <2>3. CASE OwesBody(p)
        <3>1. ReconcileContent(p, item, options) \in
                {MarkConflict(p, item), PushLocal(p, item.revision),
                 PushLocal(p, p.base.revision), Continue(p, Nothing)}
            BY <1>4, <2>2, <2>3 DEF ReconcileContent, ResolveConflict
        <3> QED BY <1>1, <1>4, <2>1, <2>3, <3>1, MarkKept, PushKept, UntouchedKept
    <2>4. CASE ~OwesBody(p)
        <3>1. ReconcileContent(p, item, options) \in
                {PullRemote(p, item, Nothing), Continue(p, Nothing)}
            BY <1>4, <2>2, <2>4 DEF ReconcileContent
        <3> QED BY <1>4, <2>4, <3>1, PullKept, UntouchedKept
    <2> QED BY <2>3, <2>4
<1> QED BY <1>2, <1>3, <1>4

(* What a candidate's outcome leaves of p: a plain row that owes what p    *)
(* owes, and a change that carries it, or deletes what owes nothing.       *)
Kept(out, p, item) ==
    LET r == After(p, out)
    IN  /\ out.dup = None /\ out.flag = None
        /\ Plain(r) /\ Equal(p, r)
        /\ (Tidy(p) /\ Live(p)) => Tidy(r)
        /\ (r # None /\ r.base # None) =>
              item # None \/ (p # None /\ p.base # None)
        /\ (r # None /\ r.base = None) =>
              p # None /\ (p.base = None \/ item = None)
        /\ out.content \in {None, p} /\ out.create \in {None, r}
        /\ out.push # None =>
              /\ p # None /\ r # None
              /\ out.push.kind \in {"Update", "Add"} =>
                    OwesBody(p) /\ out.push.object = p.object
              /\ out.push.kind = "Update" => p.base # None /\ out.content = p
              /\ out.push.kind = "Add" =>
                    out.push.origin = None /\ out.push.flags = {}
              /\ out.push.kind = "Remove" =>
                    p.status = "Tombstone" /\ r.status = "Tombstone"

LEMMA NothingKept ==
    ASSUME NEW p, NEW item, Plain(p)
    PROVE  Kept(Nothing, p, item)
BY DEF Kept, Nothing, After, Equal, Carries

LEMMA WrittenKept ==
    ASSUME NEW p, NEW item, NEW q \in ReplicaPlacement, Plain(q), Equal(p, q),
           (Tidy(p) /\ Live(p)) => Tidy(q),
           q.base # None => item # None \/ (p # None /\ p.base # None),
           q.base = None => p # None /\ (p.base = None \/ item = None)
    PROVE  Kept(Write(Nothing, Upsert(q)), p, item)
BY WrittenFacts, SentinelAssumption DEF Kept

(* No flag moves: the flag axis bases a marked row, settles a row that     *)
(* stages nothing, and leaves the rest.                                    *)
LEMMA FlagsKeep ==
    ASSUME NEW p \in ReplicaPlacement, NEW item \in ReplicaRemoteItem,
           NEW options \in ReplicaSyncOptions, item.flags = {}, Plain(p),
           NEW c, ContentKept(c, p)
    PROVE  Kept(ReconcileFlags(c.row, item, c.out, options), p, item)
<1> DEFINE q   == c.row
           new == ReconcileFlags(q, item, c.out, options)
<1>1. /\ q \in ReplicaPlacement /\ c.out \in Outcome
      /\ q.flags = {} /\ q.origin = None /\ Equal(p, q) /\ (Tidy(p) => Tidy(q))
      /\ q.status \notin {"Tombstone", "Created"}
      /\ q.base # None => p.base # None /\ q.base.flags = {}
      /\ q.base = None => /\ p.base = None
                          /\ q.object # None /\ q.status = "Conflict"
      /\ \/ c.out.put = Keep /\ q = p
         \/ c.out.put = Upsert(q)
      /\ c.out.dup = None /\ c.out.flag = None /\ c.out.create = None
      /\ c.out.push = None => c.out.content = None
      /\ c.out.push # None =>
            /\ c.out.push.kind = "Update" /\ c.out.push.object = p.object
            /\ OwesBody(p) /\ p.base # None /\ q = p /\ c.out.content = p
    BY DEF ContentKept
<1> HIDE DEF q
<1>2. p # None /\ q # None /\ item # None
    BY <1>1, SentinelAssumption, MergeAssumption
<1>3. {} \in ReplicaFlags /\ {} # Unknown
    BY SentinelAssumption DEF ReplicaFlags
<1>4. ASSUME NEW r \in {PullFlags(q, {}), Rebase(q, {})}
      PROVE  /\ r \in ReplicaPlacement /\ r # None /\ r.base # None
             /\ Upsert(r) # Keep
             /\ Upsert(r).op = "UpsertPlacement" /\ Upsert(r).row = r
             /\ r.flags = {} /\ r.origin = None /\ r.base.flags = {}
             /\ r.status = FlagStatus(q) /\ r.object = q.object
             /\ r.base.object = IF q.base = None THEN None ELSE q.base.object
    <2>1. r \in ReplicaPlacement
        BY <1>1, <1>3, FlagRewriteType
    <2>2. FlagBase(q, {}) \in ReplicaBase
        BY <1>1, <1>3, FlagBaseType
    <2>3. /\ r.flags = {} /\ r.origin = q.origin /\ r.base = FlagBase(q, {})
          /\ r.status = FlagStatus(q) /\ r.object = q.object
        BY <1>1 DEF PullFlags, Rebase, ReplicaPlacement
    <2>4. Upsert(r) \in ReplicaWriteOp
        BY <2>1, OpTypes
    <2>5. /\ r.base # None /\ r.base.flags = {}
          /\ r.base.object = IF q.base = None THEN None ELSE q.base.object
        BY <2>2, <2>3, SentinelAssumption DEF FlagBase
    <2>6. /\ Upsert(r) # Keep
          /\ Upsert(r).op = "UpsertPlacement" /\ Upsert(r).row = r
        BY <2>4, MergeAssumption DEF Upsert
    <2> QED BY <1>1, <2>1, <2>3, <2>5, <2>6, SentinelAssumption
<1>5. ASSUME NEW r \in {PullFlags(q, {}), Rebase(q, {})}, Equal(q, r), Tidy(r),
             c.out.push = None
      PROVE  Kept(Write(c.out, Upsert(r)), p, item)
    <2> DEFINE w == Write(c.out, Upsert(r))
    <2>1. /\ w.put = Upsert(r) /\ w.dup = None /\ w.push = None
          /\ w.flag = None /\ w.content = None /\ w.create = None
        BY <1>1, <1>5, WriteKeeps
    <2> HIDE DEF w
    <2>2. After(p, w) = r
        BY <1>4, <2>1 DEF After
    <2>3. Plain(r)
        BY <1>1, <1>4 DEF Plain, FlagStatus
    <2>4. Equal(p, r)
        BY <1>1, <1>5 DEF Equal, Carries
    <2>5. Kept(w, p, item)
        BY <1>2, <1>4, <1>5, <2>1, <2>2, <2>3, <2>4 DEF Kept
    <2> QED BY <2>5 DEF w
<1>6. CASE q.base = None
    <2>1. new = Write(c.out, Upsert(PullFlags(q, {})))
        BY <1>6 DEF ReconcileFlags
    <2>2. Equal(q, PullFlags(q, {})) /\ Tidy(PullFlags(q, {}))
        <3>1. PICK r : r = PullFlags(q, {})
            OBVIOUS
        <3>2. /\ r # None /\ r.status = "Conflict" /\ r.object = q.object
              /\ r.object # None /\ r.base.object = None
            BY <1>1, <1>4, <1>6, <3>1 DEF FlagStatus
        <3>3. OwesBody(r) /\ OwesBody(q)
            BY <1>1, <1>2, <1>6, <3>2 DEF OwesBody, StagedEdit
        <3> QED BY <3>1, <3>2, <3>3 DEF Equal, Carries, Tidy
    <2>3. c.out.push = None
        BY <1>1, <1>6
    <2> QED BY <1>5, <2>1, <2>2, <2>3 DEF q
<1>7. CASE q.base # None
    <2>1. MergeFlags(q.base.flags, q.flags, item.flags) = {}
        BY <1>1, <1>3, <1>7 DEF MergeFlags
    <2> DEFINE staged == q.object # None /\ q.base.object # q.object
    <2>2. new = IF q.status = "Dirty" /\ ~staged
                THEN Write(c.out, Upsert(Rebase(q, {}))) ELSE c.out
        BY <1>1, <1>7, <2>1 DEF ReconcileFlags
    <2>3. CASE q.status = "Dirty" /\ ~staged
        <3>1. ~OwesBody(q)
            BY <1>7, <2>3 DEF OwesBody, StagedEdit
        <3>2. PICK r : r = Rebase(q, {})
            OBVIOUS
        <3>3. r.status = "Clean"
            BY <1>4, <2>3, <3>2 DEF FlagStatus
        <3>4. ~OwesBody(r)
            BY <3>3 DEF OwesBody
        <3>5. Equal(q, Rebase(q, {})) /\ Tidy(Rebase(q, {}))
            BY <1>4, <1>7, <2>3, <3>1, <3>2, <3>4
               DEF Equal, Carries, Tidy, StagedEdit
        <3>6. c.out.push = None
            BY <1>1, <3>1
        <3> QED BY <1>5, <2>2, <2>3, <3>5, <3>6 DEF q
    <2>4. CASE ~(q.status = "Dirty" /\ ~staged)
        <3>1. new = c.out
            BY <2>2, <2>4
        <3>2. After(p, c.out) = q
            <4>1. CASE c.out.put = Keep /\ q = p
                BY <4>1 DEF After
            <4>2. CASE c.out.put = Upsert(q)
                <5>1. Upsert(q) \in ReplicaWriteOp
                    BY <1>1, OpTypes
                <5> QED BY <4>2, <5>1, MergeAssumption DEF After, Upsert
            <4> QED BY <1>1, <4>1, <4>2
        <3>3. Plain(q)
            BY <1>1, <1>7 DEF Plain
        <3>4. Kept(c.out, p, item)
            BY <1>1, <1>2, <1>7, <3>2, <3>3 DEF Kept
        <3> QED BY <3>1, <3>4 DEF q
    <2> QED BY <2>3, <2>4
<1> QED BY <1>6, <1>7

LEMMA PullAddKept ==
    ASSUME NEW p \in Opt(ReplicaPlacement), NEW item \in ReplicaRemoteItem,
           item.flags = {}, ~OwesBody(p)
    PROVE  Kept(Write(Nothing, Upsert(PullAdd(item))), p, item)
<1> DEFINE q == PullAdd(item)
<1>1. q \in ReplicaPlacement /\ item # None
    BY PullAddType, MergeAssumption
<1>2. /\ q.flags = item.flags /\ q.origin = None /\ q.status = "Clean"
      /\ q.object = None
      /\ q.base = [flags |-> item.flags, revision |-> item.revision, object |-> None]
    BY DEF PullAdd
<1>3. q.base \in ReplicaBase
    BY <1>2 DEF ReplicaBase, ReplicaRemoteItem
<1> HIDE DEF q
<1>4. q.base # None /\ q.base.flags = {} /\ ~OwesBody(q)
    BY <1>2, <1>3, SentinelAssumption DEF OwesBody
<1>5. Plain(q) /\ Equal(p, q) /\ Tidy(q)
    BY <1>2, <1>4 DEF Plain, Equal, Carries, Tidy, StagedEdit
<1> QED BY <1>1, <1>4, <1>5, WrittenKept DEF q

LEMMA DroppedKept ==
    ASSUME NEW p, NEW item, ~OwesBody(p)
    PROVE  Kept(Write(Nothing, Drop("Deleted")), p, item)
<1> DEFINE out == Write(Nothing, Drop("Deleted"))
<1>1. Drop("Deleted") \in ReplicaWriteOp /\ Drop("Deleted").op = "DropPlacement"
    BY OpTypes DEF Drop, DropReason
<1>2. /\ out.put = Drop("Deleted") /\ out.dup = None /\ out.push = None
      /\ out.flag = None /\ out.content = None /\ out.create = None
    BY NothingSound, WriteKeeps DEF Sound, Nothing
<1> HIDE DEF out
<1>3. After(p, out) = None
    BY <1>1, <1>2, MergeAssumption DEF After
<1>4. Kept(out, p, item)
    BY <1>2, <1>3 DEF Kept, Plain, Equal, Carries, OwesBody, Tidy
<1> QED BY <1>4 DEF out

LEMMA TombstoneKeeps ==
    ASSUME NEW p \in ReplicaPlacement, NEW item \in ReplicaRemoteItem,
           NEW options \in ReplicaSyncOptions,
           Plain(p), item.flags = {}, p.status = "Tombstone", p.base # None
    PROVE  Kept(MergeTombstone(p, item, options), p, item)
<1>1. p # None /\ p.origin = None /\ ~OwesBody(p)
    BY SentinelAssumption DEF Plain, OwesBody
<1>2. CASE Diverges(item, p.base.revision)
    BY <1>1, <1>2, PullAddKept DEF MergeTombstone
<1>3. CASE ~Diverges(item, p.base.revision)
    <2> DEFINE deleted == [Nothing EXCEPT !.push = Remove(p, p.base.revision),
                                          !.drop = TRUE]
               q       == [p EXCEPT !.status = "Clean"]
    <2>1. MergeTombstone(p, item, options) \in
            {deleted, Nothing, Write(Nothing, Upsert(q))}
        BY <1>1, <1>3 DEF MergeTombstone, RefuseDelete
    <2>2. Kept(deleted, p, item)
        <3>1. /\ deleted.put = Keep /\ deleted.dup = None /\ deleted.flag = None
              /\ deleted.content = None /\ deleted.create = None
              /\ deleted.push = Remove(p, p.base.revision)
            BY DEF Nothing
        <3>2. Remove(p, p.base.revision).kind = "Remove"
            BY DEF Remove
        <3> HIDE DEF deleted
        <3> QED BY <1>1, <3>1, <3>2 DEF Kept, After, Equal, Carries, Live
    <2>3. Kept(Nothing, p, item)
        BY NothingKept
    <2>4. Kept(Write(Nothing, Upsert(q)), p, item)
        <3>1. /\ q \in ReplicaPlacement /\ q.base = p.base /\ q.status = "Clean"
              /\ q.flags = p.flags /\ q.origin = p.origin
            BY DEF ReplicaPlacement, ReplicaStatus
        <3> HIDE DEF q
        <3>2. ~OwesBody(q)
            BY <3>1 DEF OwesBody
        <3>3. Plain(q) /\ Equal(p, q)
            BY <1>1, <3>1, <3>2 DEF Plain, Equal, Carries
        <3> QED BY <1>1, <3>1, <3>3, WrittenKept DEF Live
    <2> QED BY <2>1, <2>2, <2>3, <2>4
<1> QED BY <1>2, <1>3

LEMMA VanishedKeeps ==
    ASSUME NEW p \in ReplicaPlacement, NEW options \in ReplicaSyncOptions,
           Plain(p), p.base # None
    PROVE  Kept(MergeVanished(p, options), p, None)
<1>1. p # None /\ p.status # "Created"
    BY SentinelAssumption DEF Plain
<1>2. CASE ~OwesBody(p)
    <2>1. MergeVanished(p, options) = Write(Nothing, Drop("Deleted"))
        BY <1>1, <1>2 DEF MergeVanished, OwesBody
    <2> QED BY <1>2, <2>1, DroppedKept
<1>3. CASE OwesBody(p)
    <2> DEFINE q       == Resurrect(p)
               written == Write(Nothing, Upsert(q))
               added   == [written EXCEPT !.push = Add(q), !.create = q]
    <2>1. q \in ReplicaPlacement
        BY ResurrectType
    <2>2. /\ q.status = "Created" /\ q.base = None /\ q.origin = None
          /\ q.object = p.object /\ q.flags = p.flags
        BY DEF Resurrect, ReplicaPlacement
    <2>3. MergeVanished(p, options) \in {written, added}
        BY <1>1, <1>3 DEF MergeVanished, OwesBody
    <2> HIDE DEF q
    <2>4. q # None /\ OwesBody(q)
        BY <1>3, <2>1, <2>2, SentinelAssumption DEF OwesBody, StagedEdit
    <2>5. Plain(q) /\ Equal(p, q) /\ Tidy(q)
        BY <1>1, <1>3, <2>2, <2>4
           DEF Plain, Equal, Carries, OwesBody, StagedEdit, Tidy
    <2>6. Kept(written, p, None)
        BY <1>1, <2>1, <2>2, <2>5, WrittenKept
    <2>7. Kept(added, p, None)
        <3>1. /\ written \in Outcome /\ After(p, written) = q
              /\ written.push = None /\ written.flag = None
              /\ written.content = None /\ written.create = None
              /\ written.dup = None
            <4>1. Upsert(q) \in ReplicaWriteOp
                BY <2>1, OpTypes
            <4>2. written \in Outcome
                BY <4>1, NothingSound, WriteSound DEF Sound
            <4> QED BY <2>1, <4>2, WrittenFacts
        <3> HIDE DEF written
        <3>2. /\ added.put = written.put /\ added.dup = None /\ added.flag = None
              /\ added.content = None /\ added.create = q /\ added.push = Add(q)
            BY <3>1 DEF Outcome
        <3>3. After(p, added) = q
            BY <3>1, <3>2 DEF After
        <3>4. /\ Add(q).kind = "Add" /\ Add(q).object = p.object
              /\ Add(q).origin = None /\ Add(q).flags = {}
            BY <1>1, <2>2 DEF Add, Plain
        <3> HIDE DEF added
        <3> QED BY <1>1, <1>3, <2>2, <2>4, <2>5, <3>2, <3>3, <3>4 DEF Kept
    <2> QED BY <2>3, <2>6, <2>7
<1> QED BY <1>2, <1>3

LEMMA CreatedKeeps ==
    ASSUME NEW p \in ReplicaPlacement, NEW options \in ReplicaSyncOptions,
           Plain(p), p.base = None
    PROVE  Kept(MergeCreated(p, options), p, None)
<1> DEFINE added == [Nothing EXCEPT !.push = Add(p), !.create = p]
<1>1. CASE p.status = "Created"
    <2>1. Kept(Nothing, p, None)
        BY NothingKept
    <2>2. /\ added.put = Keep /\ added.dup = None /\ added.flag = None
          /\ added.content = None /\ added.create = p /\ added.push = Add(p)
        BY DEF Nothing
    <2>3. p # None /\ OwesBody(p) /\ p.flags = {} /\ p.origin = None
        BY <1>1, SentinelAssumption DEF Plain, OwesBody, StagedEdit
    <2>4. /\ Add(p).kind = "Add" /\ Add(p).object = p.object
          /\ Add(p).origin = None /\ Add(p).flags = {}
        BY <2>3 DEF Add
    <2>5. MergeCreated(p, options) \in {Nothing, added}
        BY DEF MergeCreated
    <2> HIDE DEF added
    <2>6. Kept(added, p, None)
        BY <2>2, <2>3, <2>4 DEF Kept, After, Equal, Carries
    <2> QED BY <2>1, <2>5, <2>6
<1>2. CASE p.status # "Created"
    BY <1>2, NothingKept DEF MergeCreated
<1> QED BY <1>1, <1>2

(* The merge of a candidate gives no pending body up, stages none, and     *)
(* pushes none but the one its row owes.                                   *)
LEMMA CandidateKeeps ==
    ASSUME NEW p \in Opt(ReplicaPlacement), NEW item \in Opt(ReplicaRemoteItem),
           NEW options \in ReplicaSyncOptions,
           options.conflict \in {"Manual", "PreferLocal"},
           Plain(p), item # None => item.flags = {},
           (p # None /\ p.base = None /\ item # None) => item.revision # None
    PROVE  Kept(MergeCandidate(p, item, options), p, item)
<1> DEFINE out == MergeCandidate(p, item, options)
<1>1. CASE p = None \/ (p.status = "Tombstone" /\ p.base = None)
    <2>1. ~OwesBody(p)
        BY <1>1 DEF OwesBody
    <2>2. CASE item # None
        <3>1. out = Write(Nothing, Upsert(PullAdd(item)))
            BY <1>1, <2>2 DEF MergeCandidate
        <3> QED BY <2>1, <2>2, <3>1, PullAddKept
    <2>3. CASE item = None
        <3>1. out \in {Nothing, Write(Nothing, Drop("Deleted"))}
            BY <1>1, <2>3 DEF MergeCandidate
        <3> QED BY <2>1, <3>1, DroppedKept, NothingKept
    <2> QED BY <2>2, <2>3
<1>2. CASE p # None /\ p.status = "Tombstone" /\ p.base # None
    <2>1. CASE item # None
        <3>1. out = MergeTombstone(p, item, options)
            BY <1>2, <2>1 DEF MergeCandidate
        <3> QED BY <1>2, <2>1, <3>1, TombstoneKeeps
    <2>2. CASE item = None
        <3>1. out = Write(Nothing, Drop("Deleted"))
            BY <1>2, <2>2 DEF MergeCandidate
        <3>2. ~OwesBody(p)
            BY <1>2 DEF OwesBody
        <3> QED BY <3>1, <3>2, DroppedKept
    <2> QED BY <2>1, <2>2
<1>3. CASE p # None /\ p.status # "Tombstone" /\ item # None
    <2>1. out = MergeBoth(p, item, options)
        BY <1>3 DEF MergeCandidate
    <2>2. PICK c : c = ReconcileContent(p, item, options)
        OBVIOUS
    <2>3. ContentKept(c, p)
        BY <1>3, <2>2, ContentKeeps
    <2>4. out = ReconcileFlags(c.row, item, c.out, options)
        BY <2>1, <2>2 DEF MergeBoth
    <2> QED BY <1>3, <2>3, <2>4, FlagsKeep
<1>4. CASE p # None /\ p.status # "Tombstone" /\ item = None
    <2>1. CASE p.base # None
        <3>1. out = MergeVanished(p, options)
            BY <1>4, <2>1 DEF MergeCandidate
        <3> QED BY <1>4, <2>1, <3>1, VanishedKeeps
    <2>2. CASE p.base = None
        <3>1. out = MergeCreated(p, options)
            BY <1>4, <2>2 DEF MergeCandidate
        <3> QED BY <1>4, <2>2, <3>1, CreatedKeeps
    <2> QED BY <2>1, <2>2
<1> QED BY <1>1, <1>2, <1>3, <1>4

--------------------------------------------------------------------------------
(* What a step of the server's leaves of the invariant.                    *)

LEMMA InitDelivery == Init /\ ContentAlone => DeliveryInv
<1> SUFFICES ASSUME Init, ContentAlone PROVE DeliveryInv
    OBVIOUS
<1>1. MembersInv
    BY HandleFacts, RemoteAssumption DEF Init, RemoteInit, Member, MembersInv
<1>2. \A h \in Handle :
        /\ store[h] = None /\ Row(h) = None /\ local[h] = None
        /\ pending_flag_pushes[h] = None /\ pending_content_pushes[h] = None
        /\ pending_creates[h] = None /\ results[h] = None
        /\ Owed(h) = None /\ in_flight[h] = None
    BY DEF Init, RemoteInit, NoRun, None4All, Row, Applied, Owed
<1>3. FitInv /\ BatchInv
    BY <1>2 DEF FitInv, RowFit, Plain, BatchInv, Carries, OwesBody
<1>4. PlaceFit /\ ~Enumerated /\ todo = {}
    BY <1>2 DEF Init, NoRun, PlaceFit, Enumerated
<1>5. \A h \in Handle : Unwalked(h) /\ OwedFit(h) /\ ResultFit(h)
    BY <1>2, <1>4 DEF Unwalked, OwedFit, ResultFit, IsAccepted
<1> QED BY <1>1, <1>3, <1>4, <1>5 DEF DeliveryInv

(* A handle used once stays used, a member lost for good stays lost, and   *)
(* members stay flagless.                                                  *)
ServerStep ==
    /\ MembersInv'
    /\ \A h \in Handle : /\ Once(h) => Once(h)'
                         /\ (Lost(h) /\ ~Mutable) => Lost(h)'

LEMMA FitStays ==
    ASSUME ServerStep, NEW h \in Handle, NEW p, RowFit(h, p)
    PROVE  RowFit(h, p)'
BY DEF ServerStep, RowFit

(* One member changed, or none. *)
LEMMA OneMember ==
    ASSUME TypeOK, MembersInv, NEW h \in Handle, NEW n,
           \/ items' = items
           \/ /\ items' = [items EXCEPT ![h] = n]
              /\ n # None => h \in ServerHandle /\ n.flags = {},
           items'[h] = None => gone'[h] = IF items[h] = None THEN gone[h] ELSE seq + 1,
           \A k \in Handle : k # h => gone'[k] = gone[k],
           items'[h] # None => gone'[h] = gone[h],
           (items[h] = None /\ items'[h] # None) => Mutable \/ gone[h] = 0
    PROVE  ServerStep
<1>1. seq + 1 # 0 /\ items \in [Handle -> Opt(ServerItem)]
    BY DEF TypeOK
<1>2. \A k \in Handle : k # h => items'[k] = items[k]
    BY <1>1
<1>3. items'[h] \in {items[h], n}
    BY <1>1
<1>4. MembersInv'
    BY <1>1, <1>2 DEF MembersInv
<1>5. ASSUME NEW k \in Handle
      PROVE  (Once(k) => Once(k)') /\ ((Lost(k) /\ ~Mutable) => Lost(k)')
    BY <1>1, <1>2 DEF Once, Lost
<1> QED BY <1>4, <1>5 DEF ServerStep

(* Stamps keep the flags of the member they fall on. *)
LEMMA OthersStep ==
    ASSUME Inv, DeliveryInv, Others
    PROVE  ServerStep /\ UNCHANGED <<results, landed>>
<1>1. TypeOK /\ MembersInv /\ ContentAlone
    BY DEF Inv, DeliveryInv
<1>2. ASSUME NEW h \in Handle, OthersSeed(h)
      PROVE  ServerStep /\ UNCHANGED <<results, landed>>
    <2> DEFINE n == Member(Hint[h], {}, SeedBody, seq + 1)
    <2>1. /\ h \in ServerHandle /\ items[h] = None
          /\ Mutable \/ gone[h] = 0
          /\ items' = [items EXCEPT ![h] = n]
          /\ UNCHANGED <<gone, results, landed>>
        BY <1>2 DEF OthersSeed, RemoteSeed
    <2>2. n \in ServerItem /\ n.flags = {}
        <3>1. Hint[h] \in LinkId /\ {} \in ReplicaFlags /\ SeedBody \in Body
            BY <2>1, HandleFacts DEF ReplicaFlags
        <3> QED BY <1>1, <3>1, ItemFacts, MemberFacts
    <2> HIDE DEF n
    <2>3. items'[h] # None
        BY <1>1, <2>1, <2>2, ServerAssumption DEF TypeOK
    <2> QED BY <1>1, <2>1, <2>2, <2>3, OneMember
<1>3. ASSUME NEW h \in Handle, NEW body \in Foreign, OthersEdit(h, body)
      PROVE  ServerStep /\ UNCHANGED <<results, landed>>
    <2> DEFINE n == Rewritten(items[h], body, seq + 1)
    <2>1. /\ items[h] \in ServerItem /\ items[h].flags = {} /\ h \in ServerHandle
          /\ items \in [Handle -> Opt(ServerItem)]
        BY <1>1, <1>3 DEF OthersEdit, RemoteEdit, TypeOK, MembersInv
    <2>2. n \in ServerItem /\ n.flags = {}
        <3>1. body \in Body /\ seq + 1 \in Nat
            BY <1>1, HandleFacts, ItemFacts
        <3> QED BY <2>1, <3>1, RewrittenFacts
    <2>3. /\ items' = [items EXCEPT ![h] = n]
          /\ UNCHANGED <<gone, results, landed>>
        BY <1>3 DEF OthersEdit, RemoteEdit
    <2> HIDE DEF n
    <2>4. items'[h] # None /\ items[h] # None
        BY <2>1, <2>2, <2>3, ServerAssumption
    <2> QED BY <1>1, <2>1, <2>2, <2>3, <2>4, OneMember
<1>4. ASSUME NEW h \in Handle, OthersRemove(h)
      PROVE  ServerStep /\ UNCHANGED <<results, landed>>
    BY <1>1, <1>4, OneMember DEF OthersRemove, RemoteRemove, TypeOK
<1>5. ASSUME NEW h \in Handle, NEW flags \in SUBSET Flag, OthersSetFlags(h, flags)
      PROVE  FALSE
    BY <1>1, <1>5 DEF OthersSetFlags, OtherClient, ContentAlone
<1> QED BY <1>2, <1>3, <1>4, <1>5 DEF Others

(* What the remote's answer to a change that moves no flag does. *)
LEMMA PushServes ==
    ASSUME TypeOK, MembersInv, NEW h \in Handle, NEW change \in ReplicaChange,
           Push(h, change), change.kind # "SetFlags",
           change.kind = "Add" =>
               change.origin = None /\ change.flags = {} /\ change.object # None
    PROVE  /\ ServerStep
           /\ results' = [results EXCEPT ![h] = results'[h]]
           /\ \/ landed' = landed
              \/ /\ change.kind \in {"Update", "Add"}
                 /\ landed' = landed \cup {change.object}
           /\ (results'[h].outcome = "Accepted"
                  /\ change.kind \in {"Update", "Add"}) =>
                 change.object \in landed'
           /\ \A k \in Handle :
                 (results'[h].outcome = "Accepted" /\ results'[h].assigned = k) =>
                     k \in ServerHandle /\ ~Once(k) /\ Once(k)'
<1>1. /\ Rejected.outcome = "Rejected"
      /\ \A a, r : Accepted(a, r).assigned = a
      /\ None \notin Handle
    BY RemoteAssumption DEF Rejected, Accepted
<1>2. ASSUME NEW result, Answer(h, result)
      PROVE  results'[h] = result /\ results' = [results EXCEPT ![h] = results'[h]]
    BY <1>2 DEF Answer, TypeOK
<1>3. CASE PushRemove(h, change)
    <2>1. change.kind = "Remove" /\ landed' = landed
        BY <1>3 DEF PushRemove
    <2>2. CASE Stale(h, change.if_match)
        <3>1. items' = items /\ gone' = gone /\ Answer(h, Rejected)
            BY <1>3, <2>2 DEF PushRemove
        <3>2. ServerStep
            BY <3>1 DEF ServerStep, MembersInv, Once, Lost
        <3> QED BY <1>1, <1>2, <2>1, <3>1, <3>2
    <2>3. CASE ~Stale(h, change.if_match)
        <3>1. /\ items' = [items EXCEPT ![h] = None]
              /\ gone' = IF items[h] = None THEN gone
                         ELSE [gone EXCEPT ![h] = seq + 1]
              /\ Answer(h, Accepted(None, None))
            BY <1>3, <2>3 DEF PushRemove
        <3>2. items'[h] = None
            BY <3>1 DEF TypeOK
        <3>3. ServerStep
            BY <3>1, <3>2, OneMember DEF TypeOK
        <3> QED BY <1>1, <1>2, <2>1, <3>1, <3>3
    <2> QED BY <2>2, <2>3
<1>4. CASE PushUpdate(h, change)
    <2>1. change.object \in Body /\ change.kind = "Update" /\ gone' = gone
        BY <1>4 DEF PushUpdate, ReplicaChange
    <2>2. CASE items[h] = None \/ Stale(h, change.if_match)
        <3>1. items' = items /\ landed' = landed /\ Answer(h, Rejected)
            BY <1>4, <2>2 DEF PushUpdate
        <3>2. ServerStep
            BY <2>1, <3>1 DEF ServerStep, MembersInv, Once, Lost
        <3> QED BY <1>1, <1>2, <2>1, <3>1, <3>2
    <2>3. CASE ~(items[h] = None \/ Stale(h, change.if_match))
        <3> DEFINE n == Rewritten(items[h], change.object, seq + 1)
        <3>1. /\ items[h] \in ServerItem /\ items[h].flags = {}
              /\ h \in ServerHandle /\ items \in [Handle -> Opt(ServerItem)]
            BY <2>3 DEF TypeOK, MembersInv
        <3>2. n \in ServerItem /\ n.flags = {}
            <4>1. seq + 1 \in Nat
                BY ItemFacts
            <4> QED BY <2>1, <3>1, <4>1, RewrittenFacts
        <3>3. /\ items' = [items EXCEPT ![h] = n]
              /\ landed' = landed \cup {change.object}
              /\ Answer(h, Accepted(None, RevisionOf(seq + 1)))
            BY <1>4, <2>3 DEF PushUpdate
        <3> HIDE DEF n
        <3>4. items'[h] # None /\ items[h] # None
            BY <3>1, <3>2, <3>3, ServerAssumption
        <3>5. ServerStep
            BY <2>1, <3>1, <3>2, <3>3, <3>4, OneMember
        <3>6. results'[h] = Accepted(None, RevisionOf(seq + 1))
            BY <1>2, <3>3
        <3> QED BY <1>1, <1>2, <2>1, <3>3, <3>5, <3>6
    <2> QED BY <2>2, <2>3
<1>5. CASE PushAdd(h, change)
    <2>1. change.kind = "Add" /\ gone' = gone
        BY <1>5 DEF PushAdd
    <2>2. CASE UNCHANGED <<items, seq, landed>>
        <3>1. ServerStep
            BY <2>1, <2>2 DEF ServerStep, MembersInv, Once, Lost
        <3>2. Answer(h, Rejected)
            BY <1>5, <2>1, <2>2, AddedFacts, ItemFacts
        <3> QED BY <1>1, <1>2, <2>1, <2>2, <3>1, <3>2
    <2>3. CASE ~ UNCHANGED <<items, seq, landed>>
        <3>1. PICK new \in Unassigned, n \in ServerItem :
                /\ new \in ServerHandle /\ new \in Handle
                /\ items' = [items EXCEPT ![new] = n]
                /\ landed' = landed \cup {n.body}
                /\ \/ Answer(h, Accepted(new, RevisionOf(seq + 1)))
                   \/ Answer(h, Accepted(None, None))
                /\ n.body = change.object /\ n.flags = {}
            BY <1>5, <2>1, <2>3, AddedFacts
        <3>2. items[new] = None /\ gone[new] = 0
            BY <3>1 DEF Unassigned
        <3>3. items'[new] # None
            BY <3>1, ServerAssumption DEF TypeOK
        <3>4. ServerStep
            BY <2>1, <3>1, <3>2, <3>3, OneMember
        <3>5. results'[h].assigned # None => results'[h].assigned = new
            <4>1. CASE Answer(h, Accepted(new, RevisionOf(seq + 1)))
                BY <1>1, <1>2, <4>1
            <4>2. CASE Answer(h, Accepted(None, None))
                BY <1>1, <1>2, <4>2
            <4> QED BY <3>1, <4>1, <4>2
        <3>6. results' = [results EXCEPT ![h] = results'[h]]
            BY <1>2, <3>1
        <3>7. ~Once(new) /\ Once(new)'
            BY <3>2, <3>3 DEF Once
        <3> QED BY <1>1, <2>1, <3>1, <3>4, <3>5, <3>6, <3>7
    <2> QED BY <2>2, <2>3
<1> QED BY <1>3, <1>4, <1>5 DEF Push, PushSetFlags

(* What such a step leaves of the invariant, the run's own state being     *)
(* untouched but for its answers.                                          *)
LEMMA ServerKeeps ==
    ASSUME DeliveryInv, ServerStep, landed \subseteq landed',
           UNCHANGED <<stored, pc, mergeVars, writes, pushes, in_flight, pendings>>
    PROVE  /\ ContentAlone' /\ MembersInv' /\ FitInv' /\ BatchInv'
           /\ \A h \in Handle : Unwalked(h)' /\ OwedFit(h)'
           /\ Enumerated' => \A h \in Handle : SnapFit(h)'
<1>1. \A h \in Handle : Row(h)' = Row(h) /\ Owed(h)' = Owed(h)
    BY DEF Row, Owed
<1>2. ContentAlone' /\ MembersInv'
    BY DEF DeliveryInv, ContentAlone, ServerStep
<1>3. FitInv'
    BY <1>1, FitStays DEF DeliveryInv, FitInv
<1>4. BatchInv'
    BY <1>1 DEF DeliveryInv, BatchInv, Carries, OwesBody
<1>5. \A h \in Handle : Unwalked(h)' /\ OwedFit(h)'
    BY <1>1 DEF DeliveryInv, Unwalked, OwedFit
<1>6. Enumerated' => \A h \in Handle : SnapFit(h)'
    BY DEF DeliveryInv, Enumerated, SnapFit, ServerStep
<1> QED BY <1>2, <1>3, <1>4, <1>5, <1>6

(* An answer given stands, whatever the server does next. *)
LEMMA ResultStays ==
    ASSUME Inv, NEW h \in Handle, ResultFit(h), ServerStep, landed \subseteq landed',
           UNCHANGED <<store, writes, in_flight>>, results'[h] = results[h]
    PROVE  ResultFit(h)'
<1>1. \A k \in Handle : Row(k)' = Row(k)
    BY DEF Row
<1>2. IsAccepted(h) => results[h].assigned \in Opt(Handle)
    BY DEF IsAccepted, Inv, TypeOK, PushResult
<1>3. IsAccepted(h)' = IsAccepted(h)
    BY DEF IsAccepted
<1> QED BY <1>1, <1>2, <1>3 DEF ResultFit, ServerStep

LEMMA OthersDelivers ==
    ASSUME Inv, DeliveryInv, Others
    PROVE  DeliveryInv'
<1>1. /\ ServerStep
      /\ UNCHANGED <<results, landed, stored, runVars>>
    BY OthersStep DEF Others, OthersSeed, OthersSetFlags, OthersEdit,
                      OthersRemove, OtherClient
<1>2. /\ ContentAlone' /\ MembersInv' /\ FitInv' /\ BatchInv'
      /\ \A h \in Handle : Unwalked(h)' /\ OwedFit(h)'
      /\ Enumerated' => \A h \in Handle : SnapFit(h)'
    BY <1>1, ServerKeeps
<1>3. \A h \in Handle : ResultFit(h)'
    BY <1>1, ResultStays DEF DeliveryInv
<1>4. PlaceFit'
    BY <1>1 DEF DeliveryInv, PlaceFit, Enumerated
<1> QED BY <1>2, <1>3, <1>4 DEF DeliveryInv

(* The change a run sends is one its row owes. *)
LEMMA ServedOwes ==
    ASSUME Inv, DeliveryInv, NEW h \in Handle, h \in unserved
    PROVE  /\ in_flight[h] \in ReplicaChange /\ in_flight[h].kind # "SetFlags"
           /\ in_flight[h].kind \in {"Update", "Add"} =>
                 /\ in_flight[h].object # None
                 /\ OwesBody(store[h]) /\ store[h].object = in_flight[h].object
           /\ in_flight[h].kind = "Add" =>
                 in_flight[h].origin = None /\ in_flight[h].flags = {}
<1>1. in_flight[h] \in ReplicaChange /\ in_flight[h] # None
    BY MergeAssumption DEF Inv, Phases
<1>2. pushes[h] = None
    BY <1>1 DEF Inv, OnePushPerHandle
<1>3. Owed(h) = in_flight[h]
    BY <1>2 DEF Owed
<1>4. pending_flag_pushes[h] = None /\ OwedFit(h)
    BY DEF DeliveryInv, FitInv
<1>5. in_flight[h].kind # "SetFlags"
    BY <1>1, <1>3, <1>4 DEF Inv, OnePushPerHandle
<1> QED BY <1>1, <1>3, <1>4, <1>5 DEF OwedFit, OwesBody, StagedEdit

LEMMA ServeDelivers ==
    ASSUME Inv, Inv', DeliveryInv, Serve
    PROVE  DeliveryInv'
<1>1. PICK h \in Handle : /\ h \in unserved /\ Push(h, in_flight[h])
                          /\ unserved' = unserved \ {h}
    <2>1. Least(unserved) \in unserved /\ Least(unserved) \in Handle
        BY LeastIn, HandleFacts DEF Inv, TypeOK, Serve
    <2> QED BY <2>1 DEF Serve
<1>2. /\ pc = "PendingPush"
      /\ UNCHANGED <<stored, pc, mergeVars, writes, pushes, in_flight, pendings>>
    BY DEF Serve
<1>3. TypeOK /\ TypeOK' /\ MembersInv
    BY DEF Inv, DeliveryInv
<1>4. /\ in_flight[h] \in ReplicaChange /\ in_flight[h].kind # "SetFlags"
      /\ in_flight[h].kind = "Add" =>
            /\ in_flight[h].origin = None /\ in_flight[h].flags = {}
            /\ in_flight[h].object # None
    BY <1>1, ServedOwes
<1>5. /\ ServerStep
      /\ results' = [results EXCEPT ![h] = results'[h]]
      /\ landed \subseteq landed'
      /\ (results'[h].outcome = "Accepted"
             /\ in_flight[h].kind \in {"Update", "Add"}) =>
            in_flight[h].object \in landed'
      /\ \A k \in Handle :
            (results'[h].outcome = "Accepted" /\ results'[h].assigned = k) =>
                k \in ServerHandle /\ ~Once(k) /\ Once(k)'
    BY <1>1, <1>3, <1>4, PushServes
<1>6. /\ ContentAlone' /\ MembersInv' /\ FitInv' /\ BatchInv'
      /\ \A k \in Handle : Unwalked(k)' /\ OwedFit(k)'
      /\ Enumerated' => \A k \in Handle : SnapFit(k)'
    BY <1>2, <1>5, ServerKeeps
<1>7. ASSUME NEW k \in Handle, k # h PROVE ResultFit(k)'
    <2>1. results'[k] = results[k]
        BY <1>3, <1>5, <1>7 DEF TypeOK
    <2>2. UNCHANGED <<store, writes, in_flight>> /\ ResultFit(k)
        BY <1>2 DEF DeliveryInv
    <2> QED BY <1>5, <2>1, <2>2, ResultStays
<1>8. ResultFit(h)'
    <2> SUFFICES ASSUME IsAccepted(h)'
                 PROVE  /\ in_flight[h].kind \in {"Update", "Add"} =>
                              in_flight[h].object \in landed'
                        /\ \A k \in Handle : results'[h].assigned = k =>
                              /\ k \in ServerHandle /\ Once(k)'
                              /\ store'[k] = None /\ Row(k)' = None
        <3>1. IsAccepted(h)' => results'[h].assigned \in Opt(Handle)
            BY <1>3 DEF IsAccepted, TypeOK, PushResult
        <3> QED BY <1>2, <3>1 DEF ResultFit
    <2>1. results'[h].outcome = "Accepted"
        BY DEF IsAccepted
    <2>2. ASSUME NEW k \in Handle, results'[h].assigned = k
          PROVE  store'[k] = None /\ Row(k)' = None
        <3>1. k \in ServerHandle /\ ~Once(k)
            BY <1>5, <2>1, <2>2
        <3>2. store[k] = None /\ Row(k) = None
            BY <3>1 DEF DeliveryInv, FitInv, RowFit
        <3> QED BY <1>2, <3>2 DEF Row
    <2> QED BY <1>5, <2>1, <2>2
<1>9. PlaceFit'
    BY <1>2 DEF DeliveryInv, PlaceFit, Enumerated
<1> QED BY <1>6, <1>7, <1>8, <1>9 DEF DeliveryInv

(* An answer withheld, or a refusal: the server is untouched. *)
LEMMA WithheldDelivers ==
    ASSUME Inv, DeliveryInv, pc = "PendingPush",
           NEW h \in Handle, NEW result \in {None, Rejected}, Answer(h, result),
           UNCHANGED <<items, gone, landed, stored, pc, mergeVars, writes, pushes,
                       in_flight, pendings>>
    PROVE  DeliveryInv'
<1>1. ServerStep
    BY DEF ServerStep, DeliveryInv, MembersInv, Once, Lost
<1>2. /\ ContentAlone' /\ MembersInv' /\ FitInv' /\ BatchInv'
      /\ \A k \in Handle : Unwalked(k)' /\ OwedFit(k)'
      /\ Enumerated' => \A k \in Handle : SnapFit(k)'
    BY <1>1, ServerKeeps
<1>3. /\ results'[h] = result
      /\ \A k \in Handle : k # h => results'[k] = results[k]
    BY DEF Answer, Inv, TypeOK
<1>4. ASSUME NEW k \in Handle, k # h PROVE ResultFit(k)'
    <2>1. UNCHANGED <<store, writes, in_flight>> /\ ResultFit(k)
        BY DEF DeliveryInv
    <2> QED BY <1>1, <1>3, <1>4, <2>1, ResultStays
<1>5. ResultFit(h)'
    BY <1>3 DEF ResultFit, IsAccepted, Rejected
<1>6. PlaceFit'
    BY DEF DeliveryInv, PlaceFit, Enumerated
<1> QED BY <1>2, <1>4, <1>5, <1>6 DEF DeliveryInv

--------------------------------------------------------------------------------
(* Starting, enumerating, writing, ending.                                 *)

(* What a row is fit for, and whether a handle was used, is the server's   *)
(* and nobody else's.                                                      *)
LEMMA StillFit ==
    ASSUME UNCHANGED <<items, gone>>, NEW h \in Handle, NEW p
    PROVE  /\ RowFit(h, p)' <=> RowFit(h, p)
           /\ Once(h)' <=> Once(h)
           /\ Lost(h)' <=> Lost(h)
BY DEF RowFit, Once, Lost

LEMMA NoRow ==
    ASSUME NEW h \in Handle
    PROVE  RowFit(h, None)
BY DEF RowFit, Plain

(* A run that is dropped leaves the store as it is, or as the last batch   *)
(* makes it.                                                               *)
LEMMA EndDelivers ==
    ASSUME Inv, DeliveryInv, EndRun, UNCHANGED <<items, gone, landed>>,
           writes' = [h \in Handle |-> Keep], results' = None4All,
           \A h \in Handle : store'[h] \in {store[h], Row(h)}
    PROVE  DeliveryInv'
<1>1. \A h \in Handle : Row(h)' = store'[h]
    BY DEF Row, Applied
<1>2. ContentAlone' /\ MembersInv'
    BY DEF DeliveryInv, ContentAlone, MembersInv
<1>3. FitInv'
    <2> SUFFICES ASSUME NEW h \in Handle PROVE FitInv!(h)'
        BY DEF FitInv
    <2>1. RowFit(h, store[h]) /\ RowFit(h, Row(h)) /\ RowFit(h, None)
        BY NoRow DEF DeliveryInv, FitInv
    <2>2. RowFit(h, store[h])' /\ RowFit(h, Row(h))'
        BY <1>1, <2>1, StillFit
    <2> QED BY <2>1, <2>2, StillFit DEF EndRun, None4All
<1>4. BatchInv'
    BY <1>1 DEF BatchInv, Carries, OwesBody
<1>5. PlaceFit' /\ ~Enumerated' /\ todo' = {}
    BY DEF PlaceFit, EndRun, Enumerated, None4All
<1>6. \A h \in Handle : Unwalked(h)' /\ OwedFit(h)' /\ ResultFit(h)'
    BY <1>5 DEF Unwalked, OwedFit, Owed, ResultFit, IsAccepted, EndRun, None4All
<1> QED BY <1>2, <1>3, <1>4, <1>5, <1>6 DEF DeliveryInv

LEMMA FaultDelivers ==
    ASSUME Inv, DeliveryInv, Fault
    PROVE  DeliveryInv'
<1>1. CASE Crash
    BY <1>1, EndDelivers DEF Crash
<1>2. CASE Refuse
    <2>1. PICK h \in Handle : Answer(h, Rejected)
        <3>1. Least(unserved) \in Handle
            BY <1>2, LeastIn, HandleFacts DEF Inv, TypeOK, Refuse
        <3> QED BY <1>2, <3>1 DEF Refuse
    <2> QED BY <1>2, <2>1, WithheldDelivers DEF Refuse
<1>3. ASSUME NEW h \in Handle, Silence(h) PROVE DeliveryInv'
    BY <1>3, WithheldDelivers DEF Silence
<1> QED BY <1>1, <1>2, <1>3 DEF Fault

LEMMA LastWriteDelivers ==
    ASSUME Inv, DeliveryInv, LastWrite
    PROVE  DeliveryInv'
<1>1. /\ EndRun /\ UNCHANGED <<items, gone, landed>> /\ WriteBatch
      /\ results' = None4All
    BY DEF LastWrite, DeliveryInv, PlaceFit, Inv, TypeOK, None4All
<1>2. writes' = [h \in Handle |-> Keep] /\ \A h \in Handle : store'[h] = Row(h)
    BY <1>1, WriteRows DEF WriteBatch
<1> QED BY <1>1, <1>2, EndDelivers

LEMMA BeginDelivers ==
    ASSUME Inv, DeliveryInv, NEW o \in Options, Begin(o)
    PROVE  DeliveryInv'
<1>1. /\ UNCHANGED <<items, gone, results, landed, stored, snap, todo, writes,
                     pushes, in_flight, unserved, pendings>>
      /\ local' = store /\ pc' = "PendingEnumerate" /\ pc = "Idle" /\ opts' = o
    BY DEF Begin
<1>2. \A h \in Handle : Row(h)' = Row(h) /\ Owed(h)' = Owed(h)
    BY <1>1 DEF Row, Owed
<1>3. ContentAlone' /\ MembersInv'
    BY <1>1 DEF DeliveryInv, ContentAlone, MembersInv
<1>4. FitInv'
    BY <1>1, <1>2, StillFit DEF DeliveryInv, FitInv
<1>5. BatchInv'
    BY <1>1, <1>2 DEF DeliveryInv, BatchInv, Carries, OwesBody
<1>6. PlaceFit' /\ ~Enumerated' /\ todo' = {}
    BY <1>1 DEF DeliveryInv, PlaceFit, Enumerated
<1>7. \A h \in Handle : Unwalked(h)' /\ OwedFit(h)' /\ ResultFit(h)'
    <2>1. \A h \in Handle : results[h] = None
        BY <1>1 DEF DeliveryInv, PlaceFit
    <2> QED BY <1>1, <1>2, <1>6, <2>1
            DEF DeliveryInv, Unwalked, OwedFit, ResultFit, IsAccepted
<1> QED BY <1>3, <1>4, <1>5, <1>6, <1>7 DEF DeliveryInv

LEMMA EnumerateDelivers ==
    ASSUME Inv, DeliveryInv, Enumerate
    PROVE  DeliveryInv'
<1>1. /\ pc = "PendingEnumerate" /\ pc' = "Joining" /\ ~Enumerated
      /\ UNCHANGED <<items, gone, results, landed, stored, opts, local, writes,
                     pushes, in_flight, unserved, pendings>>
    BY DEF Enumerate, Enumerated
<1>2. PICK c : /\ c = (IF opts.full THEN None ELSE checkpoint)
               /\ snap' = Snapshot(c)
    BY DEF Enumerate
<1>3. TypeOK /\ MembersInv /\ FitInv /\ c \in Opt(Nat)
    BY <1>2 DEF Inv, TypeOK, DeliveryInv
<1>4. \A h \in Handle : Row(h)' = Row(h) /\ Owed(h)' = None
    BY <1>1 DEF Row, Owed, Inv, Phases
<1>5. ASSUME NEW h \in Handle
      PROVE  local'[h] = store[h] /\ store'[h] = store[h] /\ writes'[h] = Keep
    BY <1>1 DEF DeliveryInv, PlaceFit
<1>6. ASSUME NEW h \in Handle
      PROVE  /\ snap'.items[h] # None =>
                    /\ items[h] # None /\ snap'.items[h].flags = items[h].flags
                    /\ snap'.items[h].revision = RevisionOf(items[h].rev)
             /\ (c = None /\ items[h] # None) => snap'.items[h] # None
             /\ h \in snap'.vanished =>
                    c # None /\ items[h] = None /\ gone[h] > c
    <2> DEFINE item == [flags    |-> items[h].flags,
                        revision |-> RevisionOf(items[h].rev)]
    <2>1. snap'.items[h] = IF items[h] # None /\ (c = None \/ items[h].seq > c)
                           THEN item ELSE None
        BY <1>2 DEF Snapshot
    <2>2. h \in snap'.vanished => c # None /\ items[h] = None /\ gone[h] > c
        BY <1>2 DEF Snapshot
    <2>3. items[h] # None => item # None
        <3>1. items[h] # None => item \in ReplicaRemoteItem
            BY <1>3 DEF TypeOK, ServerItem, RevisionOf, ReplicaRemoteItem
        <3> QED BY <3>1, MergeAssumption
    <2>4. item.flags = items[h].flags /\ item.revision = RevisionOf(items[h].rev)
        OBVIOUS
    <2> HIDE DEF item
    <2> QED BY <2>1, <2>2, <2>3, <2>4
<1>7. snap'.complete <=> c = None
    BY <1>2 DEF Snapshot
<1>8. ASSUME NEW h \in Handle PROVE SnapFit(h)'
    <2>1. gone[h] \in Nat /\ RowFit(h, store[h])
        BY <1>3 DEF TypeOK, FitInv
    <2>2. snap'.items[h] # None =>
            /\ h \in ServerHandle /\ Once(h)' /\ snap'.items[h].flags = {}
            /\ Mutable => snap'.items[h].revision # None
        <3> SUFFICES ASSUME items[h] # None
                     PROVE  /\ h \in ServerHandle /\ Once(h)
                            /\ items[h].flags = {}
                            /\ Mutable => RevisionOf(items[h].rev) # None
            BY <1>1, <1>6, StillFit
        <3>1. items[h].rev \in Nat
            BY <1>3, ItemFacts
        <3> QED BY <1>3, <3>1, SentinelAssumption DEF MembersInv, Once, RevisionOf
    <2>3. (~Mutable /\ store[h] # None) =>
            /\ store[h].base = None => snap'.items[h] = None
            /\ (store[h].base # None
                  /\ (h \in snap'.vanished
                         \/ (snap'.complete /\ snap'.items[h] = None))) =>
                  Lost(h)
        <3> SUFFICES ASSUME ~Mutable, store[h] # None
                     PROVE  /\ store[h].base = None => items[h] = None
                            /\ (store[h].base # None /\ items[h] = None) => Lost(h)
            BY <1>6, <1>7
        <3> QED BY <1>3, <2>1 DEF RowFit, MembersInv, Lost, Once
    <2> QED BY <1>1, <1>5, <2>2, <2>3, StillFit DEF SnapFit
<1>9. ContentAlone' /\ MembersInv'
    BY <1>1 DEF DeliveryInv, ContentAlone, MembersInv
<1>10. FitInv'
    BY <1>1, <1>3, <1>4, StillFit DEF FitInv
<1>11. BatchInv'
    BY <1>1, <1>4 DEF DeliveryInv, BatchInv, Carries, OwesBody
<1>12. PlaceFit'
    BY <1>1 DEF DeliveryInv, PlaceFit, Enumerated
<1>13. \A h \in Handle : Unwalked(h)' /\ OwedFit(h)' /\ ResultFit(h)'
    <2>1. \A h \in Handle : results[h] = None
        BY <1>1 DEF DeliveryInv, PlaceFit
    <2> QED BY <1>1, <1>4, <1>5, <2>1 DEF Unwalked, OwedFit, ResultFit, IsAccepted
<1> QED BY <1>8, <1>9, <1>10, <1>11, <1>12, <1>13 DEF DeliveryInv

(* The run moves on: what the rows will be, and what it owes, stay.        *)
LEMMA RowsCarryOn ==
    ASSUME DeliveryInv, Enumerated, PlaceFit',
           UNCHANGED <<items, gone, results, landed, opts, local, snap, pendings>>,
           todo' \subseteq todo,
           \A h \in Handle :
               /\ store'[h] \in {store[h], Row(h)} /\ Row(h)' = Row(h)
               /\ writes'[h] \in {writes[h], Keep}
               /\ Owed(h)' = Owed(h)
               /\ results[h] = None
    PROVE  DeliveryInv'
<1>1. ContentAlone' /\ MembersInv'
    BY DEF DeliveryInv, ContentAlone, MembersInv
<1>2. FitInv'
    BY StillFit DEF DeliveryInv, FitInv
<1>3. BatchInv'
    BY DEF DeliveryInv, BatchInv, Carries, OwesBody
<1>4. ASSUME NEW h \in Handle
      PROVE  Unwalked(h)' /\ OwedFit(h)' /\ ResultFit(h)' /\ SnapFit(h)'
    <2>1. Unwalked(h) /\ OwedFit(h) /\ SnapFit(h)
        BY DEF DeliveryInv
    <2>2. writes[h] = Keep => Row(h) = store[h]
        BY DEF Row, Applied
    <2>3. Unwalked(h)'
        BY <2>1, <2>2 DEF Unwalked
    <2>4. OwedFit(h)'
        BY <2>1 DEF OwedFit
    <2>5. ResultFit(h)'
        BY DEF ResultFit, IsAccepted
    <2>6. SnapFit(h)'
        BY <2>1, StillFit DEF SnapFit
    <2> QED BY <2>3, <2>4, <2>5, <2>6
<1> QED BY <1>1, <1>2, <1>3, <1>4 DEF DeliveryInv

LEMMA WriteDelivers ==
    ASSUME Inv, DeliveryInv, MergeWrite \/ MergeEnd \/ ChunkWrite
    PROVE  DeliveryInv'
<1>1. /\ pc \in {"Joining", "Merging", "PendingWrite"} /\ Enumerated
      /\ unserved = {} /\ \A h \in Handle : results[h] = None
    BY DEF MergeWrite, MergeEnd, ChunkWrite, Enumerated, DeliveryInv, PlaceFit
<1>2. UNCHANGED <<items, gone, results, landed, mergeVars, pendings>>
    BY DEF MergeWrite, MergeEnd, ChunkWrite
<1>3. \A h \in Handle : /\ store'[h] \in {store[h], Row(h)} /\ Row(h)' = Row(h)
                        /\ writes'[h] \in {writes[h], Keep}
    <2>1. CASE WriteBatch
        BY <2>1, WriteRows DEF WriteBatch
    <2>2. CASE UNCHANGED <<store, writes>>
        BY <2>2 DEF Row
    <2> QED BY <2>1, <2>2 DEF MergeWrite, MergeEnd, ChunkWrite
<1>4. CASE MergeWrite
    <2>1. \A h \in Handle : Owed(h)' = Owed(h)
        BY <1>4 DEF MergeWrite, Owed
    <2>2. PlaceFit'
        BY <1>1, <1>2, <1>4 DEF MergeWrite, DeliveryInv, PlaceFit, Enumerated
    <2> QED BY <1>1, <1>2, <1>3, <2>1, <2>2, RowsCarryOn
<1>5. CASE MergeEnd \/ ChunkWrite
    <2>1. Step /\ todo = {} /\ pc # "PendingPush"
        BY <1>1, <1>5 DEF MergeEnd, ChunkWrite, DeliveryInv, PlaceFit
    <2>2. /\ pc' \in {"PendingPush", "PendingWrite"}
          /\ pc' = "PendingWrite" => unserved' = {}
          /\ \A h \in Handle : Owed(h)' = Owed(h)
        BY <1>1, <2>1, StepOwes
    <2>3. PlaceFit'
        BY <1>1, <1>2, <2>1, <2>2 DEF DeliveryInv, PlaceFit, Enumerated
    <2> QED BY <1>1, <1>2, <1>3, <2>2, <2>3, RowsCarryOn
<1> QED BY <1>4, <1>5

--------------------------------------------------------------------------------
(* The join.                                                               *)

(* What the merge makes of a handle keeps what its row owes, and its row   *)
(* stays fit for the handle.                                               *)
LEMMA OutcomeKept ==
    ASSUME Inv, DeliveryInv, pc = "Joining", NEW h \in todo, ~Untouched(h)
    PROVE  LET r == After(local[h], OutcomeOf(h))
           IN  /\ Kept(OutcomeOf(h), local[h], Item(h))
               /\ RowFit(h, local[h]) /\ RowFit(h, r)
<1> DEFINE p    == local[h]
           item == Item(h)
           out  == OutcomeOf(h)
           r    == After(p, out)
<1>1. /\ h \in Handle /\ p \in Opt(ReplicaPlacement)
      /\ snap.items[h] \in Opt(ReplicaRemoteItem)
      /\ opts \in Options /\ opts \in ReplicaSyncOptions
      /\ RowFit(h, p) /\ SnapFit(h)
    BY HandleFacts
       DEF Inv, TypeOK, Phases, ReplicaRemoteSnapshot, DeliveryInv, FitInv,
           PlaceFit, Enumerated
<1>2. opts.conflict \in {"Manual", "PreferLocal"}
    BY <1>1 DEF DeliveryInv, ContentAlone
<1>3. Plain(p)
    BY <1>1 DEF RowFit
<1>4. \/ item = snap.items[h]
      \/ /\ item = None /\ h \in snap.vanished /\ ~snap.complete
      \/ /\ item = StandIn(p) /\ p # None /\ snap.items[h] = None
         /\ h \notin snap.vanished /\ ~snap.complete
    BY DEF Item, NarrowedItem, Untouched, IsCandidate
<1>5. /\ item \in Opt(ReplicaRemoteItem)
      /\ item # None => item.flags = {}
      /\ (p # None /\ p.base = None /\ item # None) =>
            snap.items[h] # None /\ item.revision # None
      /\ (p # None /\ p.base # None /\ item = None) =>
            \/ h \in snap.vanished
            \/ snap.complete /\ snap.items[h] = None
      /\ (item # None /\ (p = None \/ p.base = None)) => snap.items[h] # None
    <2>1. CASE item = snap.items[h]
        <3>1. (p # None /\ p.base # None /\ item = None) =>
                h \in snap.vanished \/ snap.complete
            <4> SUFFICES ASSUME p # None, p.base # None, item = None,
                                h \notin snap.vanished, ~snap.complete
                         PROVE  FALSE
                OBVIOUS
            <4>1. item = StandIn(p)
                BY <2>1 DEF Item, NarrowedItem
            <4>2. StandIn(p) \in ReplicaRemoteItem
                BY <1>1 DEF StandIn, ReplicaPlacement, ReplicaBase, ReplicaRemoteItem
            <4> QED BY <4>1, <4>2, MergeAssumption
        <3> QED BY <1>1, <2>1, <3>1 DEF SnapFit
    <2>2. CASE item = None /\ h \in snap.vanished
        BY <2>2
    <2>3. CASE item = StandIn(p) /\ p # None
        <3>1. CASE p.base = None
            BY <2>3, <3>1 DEF StandIn
        <3>2. CASE p.base # None
            <4>1. StandIn(p) \in ReplicaRemoteItem
                BY <1>1, <2>3, <3>2
                   DEF StandIn, ReplicaPlacement, ReplicaBase, ReplicaRemoteItem
            <4>2. StandIn(p).flags = {}
                BY <1>3, <2>3, <3>2 DEF StandIn, Plain
            <4> QED BY <2>3, <3>2, <4>1, <4>2, MergeAssumption
        <3> QED BY <3>1, <3>2
    <2> QED BY <1>4, <2>1, <2>2, <2>3
<1>6. out = MergeCandidate(p, item, opts)
    BY DEF OutcomeOf, Item
<1> HIDE DEF item
<1>7. Kept(out, p, item)
    BY <1>1, <1>2, <1>3, <1>5, <1>6, CandidateKeeps
<1> HIDE DEF out
<1>8. RowFit(h, r)
    <2>1. /\ Plain(r)
          /\ (r # None /\ r.base # None) =>
                item # None \/ (p # None /\ p.base # None)
          /\ (r # None /\ r.base = None) =>
                p # None /\ (p.base = None \/ item = None)
        BY <1>7 DEF Kept
    <2> HIDE DEF r
    <2>2. (r # None /\ r.base # None) => h \in ServerHandle
        BY <1>1, <1>5, <2>1 DEF RowFit, SnapFit
    <2>3. (r # None /\ h \in ServerHandle) => Once(h)
        BY <1>1, <1>5, <2>1 DEF RowFit, SnapFit
    <2>4. (r # None /\ h \in ServerHandle /\ r.base = None /\ ~Mutable) => Lost(h)
        BY <1>1, <1>5, <2>1 DEF RowFit, SnapFit
    <2> QED BY <2>1, <2>2, <2>3, <2>4 DEF RowFit
<1> QED BY <1>1, <1>7, <1>8 DEF out, item

(* The row of the handle walked becomes what its merge made of the one      *)
(* loaded.                                                                 *)
LEMMA WalkedRow ==
    ASSUME Inv, DeliveryInv, NEW h \in todo, Merge(h), store' = store,
           OutcomeOf(h).dup = None
    PROVE  /\ Row(h)' = After(local[h], OutcomeOf(h))
           /\ \A k \in Handle \ {h} : Row(k)' = Row(k) /\ writes'[k] = writes[k]
<1>1. PICK out : out = OutcomeOf(h)
    OBVIOUS
<1>2. /\ h \in Handle /\ store[h] = local[h] /\ writes[h] = Keep
      /\ writes \in [Handle -> ReplicaWriteOp \cup {Keep}]
    BY DEF DeliveryInv, Unwalked, Inv, TypeOK
<1>3. writes' = IF out.put = Keep THEN writes
                ELSE [writes EXCEPT ![h] = out.put]
    BY <1>1 DEF Merge
<1>4. CASE out.put = Keep
    BY <1>1, <1>2, <1>3, <1>4 DEF Row, Applied, After
<1>5. CASE out.put # Keep
    <2>1. /\ writes'[h] = out.put
          /\ \A k \in Handle \ {h} : writes'[k] = writes[k]
        BY <1>2, <1>3, <1>5
    <2> QED BY <1>1, <1>2, <1>5, <2>1 DEF Row, Applied, After
<1> QED BY <1>4, <1>5

LEMMA MergeStepDelivers ==
    ASSUME Inv, DeliveryInv, MergeStep
    PROVE  DeliveryInv'
<1>1. PICK h \in todo : todo' = todo \ {h} /\ (Skip(h) \/ Merge(h))
    BY LeastIn, HandleFacts DEF Inv, TypeOK, MergeStep
<1>2. /\ pc = "Joining" /\ Enumerated
      /\ UNCHANGED <<items, gone, results, landed, stored, opts, local, snap,
                     in_flight, unserved>>
      /\ \A k \in Handle : results[k] = None
      /\ h \in Handle
    BY DEF MergeStep, Enumerated, DeliveryInv, PlaceFit, Inv, TypeOK
<1>3. PlaceFit'
    <2>1. pc' \in {"Joining", "Merging"}
        BY <1>1 DEF Skip, Merge
    <2> QED BY <1>2, <2>1 DEF DeliveryInv, PlaceFit, Enumerated
<1>4. CASE Skip(h)
    <2>1. UNCHANGED <<writes, pushes, pendings>>
        BY <1>4 DEF Skip
    <2>2. \A k \in Handle : Row(k)' = Row(k) /\ Owed(k)' = Owed(k)
        BY <1>2, <2>1 DEF Row, Owed
    <2> QED BY <1>1, <1>2, <1>3, <2>1, <2>2, RowsCarryOn
<1>5. CASE Merge(h)
    <2>1. PICK out : out = OutcomeOf(h)
        OBVIOUS
    <2>2. PICK r : r = After(local[h], out)
        OBVIOUS
    <2>3. Kept(out, local[h], Item(h)) /\ RowFit(h, local[h]) /\ RowFit(h, r)
        BY <1>2, <1>5, <2>1, <2>2, OutcomeKept DEF Merge
    <2>4. /\ Plain(r) /\ Equal(local[h], r) /\ out.dup = None /\ out.flag = None
          /\ out.content \in {None, local[h]} /\ out.create \in {None, r}
        BY <2>2, <2>3 DEF Kept
    <2>5. /\ Owed(h)' = out.push
          /\ pending_flag_pushes'[h] = None
          /\ pending_content_pushes'[h] = out.content
          /\ pending_creates'[h] = out.create
          /\ \A k \in Handle \ {h} :
               /\ Owed(k)' = Owed(k)
               /\ pending_flag_pushes'[k] = pending_flag_pushes[k]
               /\ pending_content_pushes'[k] = pending_content_pushes[k]
               /\ pending_creates'[k] = pending_creates[k]
        BY <1>2, <1>5, <2>1, <2>4, MergeOwes
    <2>6. store[h] = local[h] /\ writes[h] = Keep
        BY <1>2 DEF DeliveryInv, Unwalked
    <2>8. /\ Row(h)' = r
          /\ \A k \in Handle \ {h} : Row(k)' = Row(k) /\ writes'[k] = writes[k]
        BY <1>2, <1>5, <2>1, <2>2, <2>4, WalkedRow
    <2>9. ContentAlone' /\ MembersInv'
        BY <1>2 DEF DeliveryInv, ContentAlone, MembersInv
    <2>10. FitInv'
        <3> SUFFICES ASSUME NEW k \in Handle PROVE FitInv!(k)'
            BY DEF FitInv
        <3>1. CASE k = h
            <4>1. RowFit(h, store[h]) /\ RowFit(h, None)
                BY <1>2, NoRow DEF DeliveryInv, FitInv
            <4>2. RowFit(h, store[h])' /\ RowFit(h, local[h])'
                BY <1>2, <2>3, <4>1, StillFit
            <4>3. RowFit(h, Row(h))'
                BY <1>2, <2>3, <2>8, StillFit
            <4>4. RowFit(h, pending_content_pushes[h])'
                BY <1>2, <2>3, <2>4, <2>5, <4>1, StillFit
            <4>5. RowFit(h, pending_creates[h])'
                BY <1>2, <2>3, <2>4, <2>5, <4>1, StillFit
            <4> QED BY <2>5, <3>1, <4>2, <4>3, <4>4, <4>5
        <3>2. CASE k # h
            BY <1>2, <2>5, <2>8, <3>2, StillFit DEF DeliveryInv, FitInv
        <3> QED BY <3>1, <3>2
    <2>11. BatchInv'
        <3> SUFFICES ASSUME NEW k \in Handle PROVE BatchInv!(k)'
            BY DEF BatchInv
        <3>1. CASE k = h
            BY <1>2, <2>4, <2>6, <2>8, <3>1 DEF Equal, Carries, OwesBody
        <3>2. CASE k # h
            BY <1>2, <2>8, <3>2 DEF DeliveryInv, BatchInv, Carries, OwesBody
        <3> QED BY <3>1, <3>2
    <2>12. OwedFit(h)'
        <3> SUFFICES ASSUME out.push # None PROVE OwedFit(h)'
            BY <2>5 DEF OwedFit
        <3>1. /\ local[h] # None /\ r # None
              /\ out.push.kind \in {"Update", "Add"} =>
                    OwesBody(local[h]) /\ out.push.object = local[h].object
              /\ out.push.kind = "Update" =>
                    local[h].base # None /\ out.content = local[h]
              /\ out.push.kind = "Add" =>
                    out.push.origin = None /\ out.push.flags = {}
              /\ out.push.kind = "Remove" =>
                    local[h].status = "Tombstone" /\ r.status = "Tombstone"
            BY <2>2, <2>3 DEF Kept
        <3>2. OwesBody(local[h]) => OwesBody(r) /\ r.object = local[h].object
            BY <2>4 DEF Equal, Carries
        <3> QED BY <1>2, <2>5, <2>6, <2>8, <3>1, <3>2 DEF OwedFit
    <2>13. ASSUME NEW k \in Handle
           PROVE  Unwalked(k)' /\ OwedFit(k)' /\ ResultFit(k)' /\ SnapFit(k)'
        <3>1. Unwalked(k)'
            BY <1>1, <1>2, <2>8 DEF DeliveryInv, Unwalked
        <3>2. OwedFit(k)'
            BY <1>2, <2>5, <2>8, <2>12 DEF DeliveryInv, OwedFit
        <3>3. ResultFit(k)'
            BY <1>2 DEF ResultFit, IsAccepted
        <3>4. SnapFit(k)'
            BY <1>2, StillFit DEF DeliveryInv, SnapFit
        <3> QED BY <3>1, <3>2, <3>3, <3>4
    <2> QED BY <1>3, <2>9, <2>10, <2>11, <2>13 DEF DeliveryInv
<1> QED BY <1>1, <1>4, <1>5

--------------------------------------------------------------------------------
(* The outcomes of a chunk.                                                *)

(* What an accepted change took off a row, the remote took.                *)
Recorded(k, q) ==
    /\ RowFit(k, q) /\ Carries(q, store[k])
    /\ Tidy(Row(k)) => Tidy(q)
    /\ Carries(store[k], q) \/ store[k].object \in landed

LEMMA PlacedFit ==
    ASSUME Inv, DeliveryInv, PushOutcomes, NEW k \in Handle, PlacedAt(k) # {}
    PROVE  /\ store[k] = None
           /\ \E q \in ReplicaPlacement : writes'[k] = Upsert(q) /\ Recorded(k, q)
<1>1. PICK h \in PlacedAt(k) : h = Least(PlacedAt(k))
    BY LeastIn, HandleFacts DEF PlacedAt
<1> DEFINE p == pending_creates[h]
           r == results[h].revision
           q == RekeyCreate(p, r)
<1>2. /\ h \in Handle /\ IsAccepted(h) /\ p # None /\ results[h].assigned = k
      /\ k # None
    BY <1>1, RemoteAssumption DEF PlacedAt
<1>3. /\ k \in ServerHandle /\ Once(k) /\ store[k] = None /\ Plain(p)
    BY <1>2 DEF DeliveryInv, ResultFit, FitInv, RowFit
<1>4. p \in ReplicaPlacement /\ r \in Opt(Nat)
    BY <1>2 DEF IsAccepted, Inv, TypeOK, PushResult
<1>5. q \in ReplicaPlacement
    BY <1>4, RekeyCreateType
<1>6. /\ q.flags = {} /\ q.origin = None /\ q.status = "Clean"
      /\ q.object = p.object
      /\ q.base = [flags |-> {}, revision |-> r, object |-> p.object]
    BY <1>2, <1>3, <1>4 DEF RekeyCreate, ReplicaPlacement, Plain
<1>7. q.base # None /\ q.base.flags = {}
    <2>1. q.base \in ReplicaBase
        BY <1>4, <1>6 DEF ReplicaBase, ReplicaPlacement, ReplicaFlags
    <2> QED BY <1>6, <2>1, SentinelAssumption
<1>8. writes'[k] = Upsert(q)
    BY <1>1 DEF PushOutcomes
<1> HIDE DEF q
<1>9. Recorded(k, q)
    BY <1>3, <1>6, <1>7
       DEF Recorded, RowFit, Plain, Carries, OwesBody, Tidy, StagedEdit
<1> QED BY <1>3, <1>5, <1>8, <1>9

LEMMA ConfirmedFit ==
    ASSUME Inv, DeliveryInv, pc = "PendingPush", NEW k \in Handle, IsAccepted(k)
    PROVE  \/ \E why \in DropReason : Confirmed(k) = Drop(why) /\ Recorded(k, None)
           \/ \E q \in ReplicaPlacement : Confirmed(k) = Upsert(q) /\ Recorded(k, q)
<1>1. in_flight[k] # None /\ pushes[k] = None /\ in_flight[k] \in ReplicaChange
    BY DEF IsAccepted, Inv, OnePushPerHandle, TypeOK
<1>2. /\ Owed(k) = in_flight[k] /\ OwedFit(k) /\ ResultFit(k)
      /\ pending_creates[k] # None <=> in_flight[k].kind = "Add"
      /\ k \in pending_drops <=> in_flight[k].kind = "Remove"
      /\ pending_content_pushes[k] # None <=> in_flight[k].kind = "Update"
      /\ in_flight[k].kind \in {"Remove", "Update", "Add"}
    BY <1>1 DEF Inv, OnePushPerHandle, Owed, DeliveryInv, FitInv, ReplicaChange
<1>3. Carries(None, store[k]) /\ RowFit(k, None) /\ Tidy(None)
    BY NoRow DEF Carries, OwesBody, Tidy
<1>4. CASE in_flight[k].kind = "Add"
    <2>1. Confirmed(k) = Drop("Superseded") /\ "Superseded" \in DropReason
        BY <1>2, <1>4 DEF Confirmed, DropReason
    <2>2. store[k].object \in landed
        BY <1>1, <1>2, <1>4 DEF OwedFit, ResultFit
    <2> QED BY <1>3, <2>1, <2>2 DEF Recorded
<1>5. CASE in_flight[k].kind = "Remove"
    <2>1. Confirmed(k) = Drop("Deleted") /\ "Deleted" \in DropReason
        BY <1>2, <1>5 DEF Confirmed, DropReason
    <2>2. Carries(store[k], None)
        BY <1>1, <1>2, <1>5 DEF OwedFit, Carries, OwesBody
    <2> QED BY <1>3, <2>1, <2>2 DEF Recorded
<1>6. CASE in_flight[k].kind = "Update"
    <2> DEFINE p == pending_content_pushes[k]
               r == results[k].revision
               q == RebaseContent(p, r)
    <2>1. /\ p # None /\ p \in ReplicaPlacement /\ p.base # None
          /\ RowFit(k, p) /\ Plain(p) /\ r \in Opt(Nat)
          /\ store[k].object \in landed
        BY <1>1, <1>2, <1>6
           DEF IsAccepted, Inv, TypeOK, PushResult, DeliveryInv, FitInv, RowFit,
               OwedFit, ResultFit
    <2>2. q \in ReplicaPlacement
        BY <2>1, RebaseContentType
    <2>3. /\ q.flags = {} /\ q.origin = None /\ q.status \in {"Tombstone", "Clean"}
          /\ q.object = p.object
          /\ q.base = [flags |-> {}, revision |-> r, object |-> p.object]
        BY <2>1 DEF RebaseContent, ReplicaPlacement, Plain
    <2>4. q.base # None /\ q.base.flags = {}
        <3>1. q.base \in ReplicaBase
            BY <2>1, <2>3 DEF ReplicaBase, ReplicaPlacement, ReplicaFlags
        <3> QED BY <2>3, <3>1, SentinelAssumption
    <2>5. Confirmed(k) = Upsert(q)
        BY <1>2, <1>6 DEF Confirmed
    <2> HIDE DEF q
    <2>6. Recorded(k, q)
        BY <2>1, <2>3, <2>4
           DEF Recorded, RowFit, Plain, Carries, OwesBody, Tidy, StagedEdit
    <2> QED BY <2>2, <2>5, <2>6
<1> QED BY <1>2, <1>4, <1>5, <1>6

LEMMA OutcomeFit ==
    ASSUME Inv, DeliveryInv, PushOutcomes, NEW k \in Handle
    PROVE  \E q : /\ Row(k)' = q /\ Recorded(k, q)
                  /\ pushes[k] # None => q = Row(k)
<1>1. pc = "PendingPush" /\ store' = store
    BY DEF PushOutcomes
<1>2. CASE PlacedAt(k) # {}
    <2>1. PICK q \in ReplicaPlacement : writes'[k] = Upsert(q) /\ Recorded(k, q)
        BY <1>2, PlacedFit
    <2>2. pushes[k] = None
        BY <1>2, PlacedFit DEF DeliveryInv, OwedFit, Owed
    <2> QED BY <2>1, <2>2, OpRow
<1>3. CASE PlacedAt(k) = {} /\ IsAccepted(k)
    <2>1. writes'[k] = Confirmed(k)
        BY <1>3 DEF PushOutcomes
    <2>2. pushes[k] = None
        BY <1>3 DEF IsAccepted, Inv, OnePushPerHandle
    <2> QED BY <1>1, <1>3, <2>1, <2>2, ConfirmedFit, OpRow
<1>4. CASE PlacedAt(k) = {} /\ ~IsAccepted(k)
    <2>1. writes'[k] = writes[k]
        BY <1>4 DEF PushOutcomes
    <2>2. Recorded(k, Row(k))
        BY DEF DeliveryInv, FitInv, BatchInv, Recorded
    <2> QED BY <1>1, <2>1, <2>2, OpRow
<1> QED BY <1>2, <1>3, <1>4

LEMMA PushOutcomesDelivers ==
    ASSUME Inv, DeliveryInv, PushOutcomes
    PROVE  DeliveryInv'
<1>1. /\ pc = "PendingPush" /\ pc' = "PendingWrite" /\ unserved = {}
      /\ in_flight' = None4All /\ results' = None4All
      /\ UNCHANGED <<items, gone, landed, stored, mergeVars, pushes, unserved>>
    BY DEF PushOutcomes
<1>2. Enumerated /\ todo = {}
    BY <1>1 DEF DeliveryInv, PlaceFit, Enumerated
<1>3. ContentAlone' /\ MembersInv'
    BY <1>1 DEF DeliveryInv, ContentAlone, MembersInv
<1>4. ASSUME NEW k \in Handle
      PROVE  /\ pending_flag_pushes'[k] \in {None, pending_flag_pushes[k]}
             /\ pending_content_pushes'[k] \in {None, pending_content_pushes[k]}
             /\ pending_creates'[k] \in {None, pending_creates[k]}
             /\ in_flight[k] = None =>
                   pending_content_pushes'[k] = pending_content_pushes[k]
    BY DEF PushOutcomes, Forget
<1>5. ASSUME NEW k \in Handle
      PROVE  FitInv!(k)' /\ BatchInv!(k)'
    <2>1. PICK q : Row(k)' = q /\ Recorded(k, q)
        BY OutcomeFit
    <2>2. RowFit(k, q) /\ RowFit(k, None) /\ store' = store /\ local' = local
        BY <1>1, <2>1, NoRow DEF Recorded
    <2>3. RowFit(k, Row(k))'
        BY <1>1, <2>1, <2>2, StillFit
    <2>4. RowFit(k, store[k])' /\ RowFit(k, local[k])'
        BY <1>1, <2>2, StillFit DEF DeliveryInv, FitInv
    <2>5. RowFit(k, pending_content_pushes[k])' /\ RowFit(k, pending_creates[k])'
        BY <1>1, <1>4, <2>2, StillFit DEF DeliveryInv, FitInv
    <2>6. pending_flag_pushes'[k] = None
        BY <1>4 DEF DeliveryInv, FitInv
    <2>7. BatchInv!(k)'
        BY <1>1, <2>1 DEF Recorded, Carries, OwesBody
    <2> QED BY <2>3, <2>4, <2>5, <2>6, <2>7
<1>6. FitInv' /\ BatchInv'
    BY <1>5 DEF FitInv, BatchInv
<1>7. ASSUME NEW k \in Handle
      PROVE  Unwalked(k)' /\ OwedFit(k)' /\ ResultFit(k)' /\ SnapFit(k)'
    <2>1. Unwalked(k)'
        BY <1>1, <1>2 DEF Unwalked
    <2>2. pushes[k] # None => /\ in_flight[k] = None /\ Owed(k)' = Owed(k)
                              /\ Row(k)' = Row(k)
        BY <1>1, OutcomeFit DEF Inv, OnePushPerHandle, Owed
    <2>3. pushes[k] = None => Owed(k)' = None
        BY <1>1 DEF Owed, None4All
    <2>4. OwedFit(k)'
        BY <1>1, <1>4, <2>2, <2>3 DEF DeliveryInv, OwedFit
    <2>5. ResultFit(k)'
        BY <1>1 DEF ResultFit, IsAccepted, None4All
    <2>6. SnapFit(k)'
        BY <1>1, <1>2, StillFit DEF DeliveryInv, SnapFit
    <2> QED BY <2>1, <2>4, <2>5, <2>6
<1>8. PlaceFit'
    BY <1>1, <1>2 DEF DeliveryInv, PlaceFit, Enumerated, None4All
<1> QED BY <1>3, <1>6, <1>7, <1>8 DEF DeliveryInv

--------------------------------------------------------------------------------
(* The user's mutations, between runs.                                     *)

LEMMA MutateDelivers ==
    ASSUME Inv, DeliveryInv, NEW op, Mutate(op), NEW h \in Handle, NEW q,
           store' = [store EXCEPT ![h] = q], RowFit(h, q)
    PROVE  DeliveryInv'
<1>1. /\ pc = "Idle" /\ UNCHANGED <<remoteVars, checkpoint, runVars>>
      /\ store \in [Handle -> Opt(ReplicaPlacement)]
    BY DEF Mutate, Inv, TypeOK
<1>2. \A k \in Handle : /\ store'[k] = IF k = h THEN q ELSE store[k]
                        /\ Row(k)' = store'[k]
    BY <1>1 DEF DeliveryInv, PlaceFit, Enumerated, Row, Applied
<1>3. ContentAlone' /\ MembersInv'
    BY <1>1 DEF DeliveryInv, ContentAlone, MembersInv
<1>4. FitInv'
    <2> SUFFICES ASSUME NEW k \in Handle PROVE FitInv!(k)'
        BY DEF FitInv
    <2>1. RowFit(k, store[k])' /\ RowFit(k, Row(k))'
        BY <1>1, <1>2, StillFit DEF DeliveryInv, FitInv
    <2> QED BY <1>1, <2>1, StillFit DEF DeliveryInv, FitInv
<1>5. BatchInv'
    BY <1>2 DEF BatchInv, Carries, OwesBody
<1>6. PlaceFit' /\ ~Enumerated' /\ todo' = {}
    BY <1>1 DEF DeliveryInv, PlaceFit, Enumerated
<1>7. \A k \in Handle : Unwalked(k)' /\ OwedFit(k)' /\ ResultFit(k)'
    <2>1. \A k \in Handle : pushes'[k] = None /\ in_flight'[k] = None
        BY <1>1 DEF Inv, Phases
    <2> QED BY <1>6, <2>1 DEF Unwalked, OwedFit, Owed, ResultFit, IsAccepted
<1> QED BY <1>3, <1>4, <1>5, <1>6, <1>7 DEF DeliveryInv

(* A mutation rewrites one row, into one fit for its handle, and leaves a  *)
(* clean row that owes nothing.                                            *)
LEMMA UserFits ==
    ASSUME Inv, DeliveryInv, User
    PROVE  \E op : \E h \in Handle : \E q \in ReplicaPlacement :
              /\ Mutate(op) /\ store' = [store EXCEPT ![h] = q] /\ RowFit(h, q)
              /\ Tidy(store[h]) => Tidy(q)
<1>1. PICK h \in Handle :
        \/ \E flags \in SUBSET Flag : UserSetFlags(h, flags)
        \/ UserRemove(h)
        \/ UserEdit(h)
        \/ \E link \in Authored : UserAdd(h, link)
        \/ \E destination \in Origin : UserMove(h, destination)
        \/ \E flags \in SUBSET Flag, object \in Opt(Body), origin \in Origin :
              UserCopy(h, CopySource(flags, object), origin)
    BY DEF User
<1>2. ~Mutate("SetFlags") /\ ~Mutate("Move") /\ ~Mutate("Copy")
    BY DEF Mutate, DeliveryInv, ContentAlone
<1>3. Target(h) => store[h] \in ReplicaPlacement /\ store[h] # None /\ RowFit(h, store[h])
    BY DEF Inv, TypeOK, Target, DeliveryInv, FitInv
<1>4. CASE UserRemove(h)
    <2> DEFINE p == store[h]
               q == RemoveMutation(p)
    <2>1. /\ p \in ReplicaPlacement /\ p # None /\ RowFit(h, p) /\ Mutate("Remove")
          /\ store' = [store EXCEPT ![h] = q]
        BY <1>3, <1>4 DEF UserRemove
    <2>2. /\ q \in ReplicaPlacement /\ q.status = "Tombstone"
          /\ q.flags = p.flags /\ q.origin = p.origin
          /\ q.base = p.base /\ q.object = p.object
        BY <2>1 DEF RemoveMutation, ReplicaPlacement, ReplicaStatus
    <2> HIDE DEF q
    <2>3. RowFit(h, q) /\ Tidy(q)
        BY <2>1, <2>2 DEF RowFit, Plain, Tidy
    <2> QED BY <2>1, <2>2, <2>3
<1>5. CASE UserEdit(h)
    <2> DEFINE p == store[h]
    <2>1. p \in ReplicaPlacement /\ p # None /\ RowFit(h, p) /\ Mutate("Edit")
        BY <1>3, <1>5 DEF UserEdit
    <2>2. p.base = None \/ p.base.object \in Opt(Body)
        BY <2>1 DEF ReplicaPlacement, ReplicaBase
    <2>3. FreshBodies # {} => NewBody \in Body
        BY DEF FreshBodies, NewBody
    <2>4. PICK b \in Body, meta \in Opt(ReplicaMeta) :
            store' = [store EXCEPT ![h] = EditMutation(@, b, meta)]
        BY <1>5, <2>2, <2>3, SyncAssumption DEF UserEdit
    <2> DEFINE q         == EditMutation(p, b, meta)
               resolving == p.status = "Conflict"
               settled   == [flags    |-> IF p.base = None THEN p.flags
                                          ELSE p.base.flags,
                             revision |-> p.conflict_revision,
                             object   |-> p.conflict_object]
               base      == IF resolving THEN settled ELSE p.base
    <2>5. Plain(p) /\ (p.base # None => h \in ServerHandle)
        BY <2>1 DEF RowFit
    <2>6. resolving => p.base # None /\ settled \in ReplicaBase /\ settled.flags = {}
        BY <2>1, <2>5 DEF Plain, ReplicaBase, ReplicaPlacement
    <2>7. /\ base \in Opt(ReplicaBase)
          /\ base = None <=> p.base = None
          /\ base # None => base.flags = {}
        BY <2>1, <2>5, <2>6, SentinelAssumption DEF Plain, ReplicaPlacement
    <2>8. /\ q \in ReplicaPlacement
          /\ q.base = base /\ q.object = b
          /\ q.flags = p.flags /\ q.origin = p.origin
          /\ q.status \in {p.status, "Dirty"}
          /\ p.status = "Conflict" => q.status = "Dirty"
          /\ (p.base = None /\ p.status = "Tombstone") => q.status = "Dirty"
          /\ q.status = "Clean" => base # None /\ base.object = b
        <3>1. q \in ReplicaPlacement
            BY <2>1, EditType
        <3>2. /\ q.base = base /\ q.object = b
              /\ q.flags = p.flags /\ q.origin = p.origin
            BY <2>1 DEF EditMutation, ReplicaPlacement
        <3>3. /\ q.status \in {p.status, "Dirty"}
              /\ p.status = "Conflict" => q.status = "Dirty"
              /\ (p.base = None /\ p.status = "Tombstone") => q.status = "Dirty"
              /\ q.status = "Clean" => base # None /\ base.object = b
            BY <2>1 DEF EditMutation, ReplicaPlacement
        <3> QED BY <3>1, <3>2, <3>3
    <2> HIDE DEF q, base
    <2>9. RowFit(h, q)
        BY <2>1, <2>5, <2>7, <2>8, SentinelAssumption DEF RowFit, Plain
    <2>10. Tidy(q)
        BY <2>8 DEF Tidy, StagedEdit
    <2> QED BY <2>1, <2>4, <2>8, <2>9, <2>10 DEF q
<1>6. ASSUME NEW link \in Authored, UserAdd(h, link)
      PROVE  \E q \in ReplicaPlacement :
                /\ Mutate("Add") /\ store' = [store EXCEPT ![h] = q]
                /\ RowFit(h, q) /\ Tidy(q)
    <2>1. PICK meta \in Summaries :
            store' = [store EXCEPT ![h] = AddMutation(link, NewBody, meta, {})]
        BY <1>6 DEF UserAdd
    <2> DEFINE q == AddMutation(link, NewBody, meta, {})
    <2>2. /\ Mutate("Add") /\ h \notin ServerHandle
          /\ NewBody \in Body /\ NewBody # None
          /\ link \in LinkId /\ meta \in Opt(ReplicaMeta)
        BY <1>6, SyncAssumption, SentinelAssumption
           DEF UserAdd, FreshBodies, NewBody
    <2>3. /\ q.status = "Created" /\ q.base = None /\ q.flags = {}
          /\ q.origin = None /\ q.object = NewBody
        BY DEF AddMutation, CreatedPlacement
    <2>4. q \in ReplicaPlacement
        BY <2>2 DEF AddMutation, CreatedPlacement, ReplicaPlacement, ReplicaFlags,
                    ReplicaStatus, ReplicaLevel
    <2> HIDE DEF q
    <2>5. RowFit(h, q) /\ Tidy(q)
        BY <2>2, <2>3 DEF RowFit, Plain, Tidy
    <2> QED BY <2>1, <2>2, <2>4, <2>5 DEF q
<1> QED BY <1>1, <1>2, <1>4, <1>5, <1>6 DEF UserSetFlags, UserMove, UserCopy

LEMMA DeliveryNext ==
    ASSUME Inv, Inv', DeliveryInv, [Next]_vars
    PROVE  DeliveryInv'
<1>1. CASE \E o \in Options : Begin(o)
    BY <1>1, BeginDelivers
<1>2. CASE Run
    BY <1>2, EnumerateDelivers, MergeStepDelivers, WriteDelivers, ServeDelivers,
       PushOutcomesDelivers, LastWriteDelivers DEF Run
<1>3. CASE User
    BY <1>3, UserFits, MutateDelivers
<1>4. CASE Others
    BY <1>4, OthersDelivers
<1>5. CASE Fault
    BY <1>5, FaultDelivers
<1>6. CASE UNCHANGED vars
    <2>1. ServerStep
        BY <1>6 DEF vars, ServerStep, DeliveryInv, MembersInv, Once, Lost
    <2>2. /\ UNCHANGED <<stored, pc, mergeVars, writes, pushes, in_flight, pendings>>
          /\ UNCHANGED <<results, landed, unserved>>
        BY <1>6 DEF vars
    <2>3. /\ ContentAlone' /\ MembersInv' /\ FitInv' /\ BatchInv'
          /\ \A h \in Handle : Unwalked(h)' /\ OwedFit(h)'
          /\ Enumerated' => \A h \in Handle : SnapFit(h)'
        BY <2>1, <2>2, ServerKeeps
    <2>4. \A h \in Handle : ResultFit(h)'
        BY <2>1, <2>2, ResultStays DEF DeliveryInv
    <2>5. PlaceFit'
        BY <2>2 DEF DeliveryInv, PlaceFit, Enumerated
    <2> QED BY <2>3, <2>4, <2>5 DEF DeliveryInv
<1> QED BY <1>1, <1>2, <1>3, <1>4, <1>5, <1>6 DEF Next

--------------------------------------------------------------------------------
(* The refinement.                                                         *)

LEMMA DeliveryHolds == ContentAlone /\ Spec => [](Inv /\ DeliveryInv)
<1>1. Inv /\ DeliveryInv /\ Inv' /\ [Next]_vars => DeliveryInv'
    BY DeliveryNext
<1>2. Init /\ ContentAlone => DeliveryInv
    BY InitDelivery
<1> QED BY <1>1, <1>2, InvHolds, PTL DEF Spec

LEMMA PendingFacts ==
    ASSUME NEW st, NEW b
    PROVE  b \in PendingBodies(st) <=>
              \E h \in Handle : OwesBody(st[h]) /\ b = st[h].object
BY DEF PendingBodies, OwesBody

LEMMA InitDelivers == Init => Delivered!Init
<1> SUFFICES ASSUME Init PROVE Delivered!Init
    OBVIOUS
<1>1. \A h \in Handle : ~OwesBody(store[h])
    BY DEF Init, None4All, OwesBody
<1>2. PendingBodies(store) = {}
    BY <1>1, PendingFacts
<1> QED BY <1>2 DEF Delivered!Init, Init, RemoteInit

LEMMA StutterDelivers ==
    ASSUME UNCHANGED <<store, landed>>, (pc # "Idle")' = (pc # "Idle")
    PROVE  UNCHANGED Delivered!deliveryVars
BY DEF Delivered!deliveryVars, PendingBodies

(* A write takes a body off the books of the replica only once it landed.  *)
LEMMA RecordDelivers ==
    ASSUME DeliveryInv, pc # "Idle", landed' = landed,
           \A h \in Handle : store'[h] \in {store[h], Row(h)}
    PROVE  Delivered!Record
<1>1. ASSUME NEW b, b \in PendingBodies(store') PROVE b \in PendingBodies(store)
    BY <1>1, PendingFacts DEF DeliveryInv, BatchInv, Carries
<1>2. ASSUME NEW b, b \in PendingBodies(store), b \notin PendingBodies(store')
      PROVE  b \in landed
    BY <1>2, PendingFacts DEF DeliveryInv, BatchInv, Carries
<1>3. PendingBodies(store)' = PendingBodies(store')
    BY DEF PendingBodies
<1> QED BY <1>1, <1>2, <1>3 DEF Delivered!Record

(* A run sends the bodies of its rows and nothing else.                    *)
LEMMA SendDelivers ==
    ASSUME Inv, DeliveryInv, Serve
    PROVE  \/ UNCHANGED Delivered!deliveryVars
           \/ \E b \in Body : Delivered!Send(b)
<1>1. PICK h \in Handle : h \in unserved /\ Push(h, in_flight[h])
    <2>1. Least(unserved) \in unserved /\ Least(unserved) \in Handle
        BY LeastIn, HandleFacts DEF Inv, TypeOK, Serve
    <2> QED BY <2>1 DEF Serve
<1>2. pc = "PendingPush" /\ UNCHANGED <<store, pc>>
    BY DEF Serve
<1>3. /\ in_flight[h] \in ReplicaChange /\ in_flight[h].kind # "SetFlags"
      /\ in_flight[h].kind \in {"Update", "Add"} =>
            /\ in_flight[h].object # None
            /\ OwesBody(store[h]) /\ store[h].object = in_flight[h].object
      /\ in_flight[h].kind = "Add" =>
            in_flight[h].origin = None /\ in_flight[h].flags = {}
    BY <1>1, ServedOwes
<1>4. \/ landed' = landed
      \/ /\ in_flight[h].kind \in {"Update", "Add"}
         /\ landed' = landed \cup {in_flight[h].object}
    BY <1>1, <1>3, PushServes DEF Inv, DeliveryInv
<1>5. CASE landed' = landed
    BY <1>2, <1>5, StutterDelivers
<1>6. CASE /\ in_flight[h].kind \in {"Update", "Add"}
           /\ landed' = landed \cup {in_flight[h].object}
    <2> DEFINE b == in_flight[h].object
    <2>1. b \in PendingBodies(store)
        BY <1>3, <1>6, PendingFacts
    <2>2. b \in Body
        BY <1>3, <1>6 DEF ReplicaChange
    <2>3. UNCHANGED <<PendingBodies(store), pc # "Idle">> /\ pc # "Idle"
        BY <1>2 DEF PendingBodies
    <2>4. Delivered!Send(b)
        BY <1>6, <2>1, <2>3 DEF Delivered!Send
    <2> QED BY <2>2, <2>4
<1> QED BY <1>4, <1>5, <1>6

(* A mutation stages the body of the row it writes, and gives up that of   *)
(* the row it replaces.                                                    *)
LEMMA MutateRefines ==
    ASSUME Inv, NEW op, Mutate(op), NEW h \in Handle, NEW q \in ReplicaPlacement,
           store' = [store EXCEPT ![h] = q]
    PROVE  \E b \in Body : Delivered!Mutate(b)
<1>1. /\ pc = "Idle" /\ pc' = "Idle" /\ landed' = landed
      /\ store \in [Handle -> Opt(ReplicaPlacement)]
    BY DEF Mutate, Inv, TypeOK
<1>2. PICK b \in Body : OwesBody(q) => b = q.object
    <2>1. OwesBody(q) => q.object \in Body
        BY DEF OwesBody, StagedEdit, ReplicaPlacement
    <2> QED BY <2>1, HandleFacts
<1>3. \A k \in Handle : store'[k] = IF k = h THEN q ELSE store[k]
    BY <1>1
<1>4. /\ \A c : c \in PendingBodies(store) <=>
                  \E k \in Handle : OwesBody(store[k]) /\ c = store[k].object
      /\ \A c : c \in PendingBodies(store') <=>
                  \E k \in Handle : OwesBody(store'[k]) /\ c = store'[k].object
    BY DEF PendingBodies, OwesBody
<1>5. PendingBodies(store') \subseteq PendingBodies(store) \cup {b}
    <2> SUFFICES ASSUME NEW c, c \in PendingBodies(store'), c # b
                 PROVE  c \in PendingBodies(store)
        OBVIOUS
    <2>1. PICK k \in Handle : OwesBody(store'[k]) /\ c = store'[k].object
        BY <1>4
    <2> QED BY <1>2, <1>3, <1>4, <2>1
<1>6. \E d \in Body : PendingBodies(store) \ PendingBodies(store') \subseteq {d}
    <2>1. PICK d \in Body : OwesBody(store[h]) => d = store[h].object
        <3>1. OwesBody(store[h]) => store[h].object \in Body
            BY <1>1 DEF OwesBody, StagedEdit, ReplicaPlacement
        <3> QED BY <3>1, HandleFacts
    <2>2. ASSUME NEW c, c \in PendingBodies(store), c \notin PendingBodies(store')
          PROVE  c = d
        <3>1. PICK k \in Handle : OwesBody(store[k]) /\ c = store[k].object
            BY <1>4, <2>2
        <3> QED BY <1>3, <1>4, <2>1, <2>2, <3>1
    <2> QED BY <2>2
<1>7. PendingBodies(store)' = PendingBodies(store')
    BY DEF PendingBodies
<1> QED BY <1>1, <1>5, <1>6, <1>7 DEF Delivered!Mutate

LEMMA StepDelivers ==
    ASSUME Inv, DeliveryInv, [Next]_vars
    PROVE  [Delivered!Next]_(Delivered!deliveryVars)
<1>1. ASSUME NEW o \in Options, Begin(o) PROVE Delivered!Start
    BY <1>1 DEF Begin, Delivered!Start, PendingBodies
<1>2. CASE Enumerate \/ MergeStep \/ MergeEnd \/ PushOutcomes
    <2>1. UNCHANGED <<store, landed>> /\ pc # "Idle" /\ pc' # "Idle"
        BY <1>2 DEF Enumerate, MergeStep, Skip, Merge, MergeEnd, Step, PushOutcomes
    <2> QED BY <2>1, StutterDelivers
<1>3. CASE MergeWrite \/ ChunkWrite \/ LastWrite
    <2>1. WriteBatch /\ landed' = landed /\ pc # "Idle"
        BY <1>3 DEF MergeWrite, ChunkWrite, LastWrite
    <2>2. Delivered!Record
        BY <2>1, WriteRows, RecordDelivers
    <2> QED BY <2>2 DEF Delivered!Next
<1>4. CASE Serve
    BY <1>4, SendDelivers DEF Delivered!Next
<1>5. CASE User
    <2>1. \E b \in Body : Delivered!Mutate(b)
        BY <1>5, UserFits, MutateRefines
    <2> QED BY <2>1 DEF Delivered!Next
<1>6. CASE Others
    <2>1. UNCHANGED <<store, landed, pc>>
        BY <1>6, OthersStep DEF Others, OthersSeed, OthersSetFlags, OthersEdit,
                                OthersRemove, OtherClient
    <2> QED BY <2>1, StutterDelivers
<1>7. CASE Crash
    <2>1. UNCHANGED <<store, landed>> /\ pc # "Idle"
        BY <1>7 DEF Crash
    <2>2. Delivered!Record
        BY <2>1, RecordDelivers
    <2> QED BY <2>2 DEF Delivered!Next
<1>8. ASSUME Refuse \/ \E h \in Handle : Silence(h)
      PROVE  UNCHANGED Delivered!deliveryVars
    <2>1. UNCHANGED <<store, landed, pc>>
        BY <1>8 DEF Refuse, Silence
    <2> QED BY <2>1, StutterDelivers
<1>9. CASE UNCHANGED vars
    BY <1>9, StutterDelivers DEF vars
<1> QED BY <1>1, <1>2, <1>3, <1>4, <1>5, <1>6, <1>7, <1>8, <1>9
        DEF Next, Run, Fault, Delivered!Next

(* The replica implements Delivery: through every merge, refusal, silence, *)
(* crash and retry, and whatever other clients do to its item, a body a    *)
(* user authored stays pending until the remote took it, and a run sends   *)
(* no other (sync.rs, merge: edit beats delete, conflicts; resume: a       *)
(* refused push stays staged).                                             *)
THEOREM BodiesDelivered == ContentAlone /\ Spec => DeliversOrKeeps
<1>1. Init => Delivered!Init
    BY InitDelivers
<1>2. Inv /\ DeliveryInv /\ [Next]_vars =>
            [Delivered!Next]_(Delivered!deliveryVars)
    BY StepDelivers
<1> QED BY <1>1, <1>2, DeliveryHolds, PTL DEF Spec, DeliversOrKeeps, Delivered!Spec

--------------------------------------------------------------------------------
(* No source reverts a delete it refuses: the row that would come back is  *)
(* marked clean, its edit still staged.                                    *)
Unreverted == \A o \in Options : May(o, "remove") \/ o.delete = "Keep"

TidyInv ==
    \A h \in Handle : Tidy(store[h]) /\ Tidy(Row(h)) /\ Tidy(local[h])

LEMMA OutcomeTidy ==
    ASSUME Inv, DeliveryInv, Unreverted, pc = "Joining", NEW h \in todo,
           ~Untouched(h), Tidy(local[h])
    PROVE  Tidy(After(local[h], OutcomeOf(h)))
<1> DEFINE p    == local[h]
           item == Item(h)
           out  == OutcomeOf(h)
<1>1. Kept(out, p, item) /\ Plain(p)
    BY OutcomeKept DEF RowFit
<1>2. opts \in Options
    BY DEF DeliveryInv, PlaceFit
<1>3. out = MergeCandidate(p, item, opts)
    BY DEF OutcomeOf, Item
<1> HIDE DEF out, item
<1>4. CASE Live(p)
    BY <1>1, <1>4 DEF Kept, out
<1>5. CASE ~Live(p)
    <2>1. p # None /\ p.status = "Tombstone" /\ Tidy(p) /\ Tidy(None)
        BY <1>5 DEF Live, Tidy
    <2>2. After(p, Nothing) = p
        BY DEF After, Nothing
    <2>3. Tidy(After(p, Write(Nothing, Upsert(PullAdd(item)))))
        <3>1. Write(Nothing, Upsert(PullAdd(item))).put = Upsert(PullAdd(item))
            BY DEF Write, Nothing
        <3>2. Upsert(PullAdd(item)).row.object = None
            BY DEF Upsert, PullAdd
        <3>3. Upsert(PullAdd(item)).op = "UpsertPlacement"
            BY DEF Upsert
        <3> QED BY <2>1, <3>1, <3>2, <3>3 DEF After, Tidy, StagedEdit
    <2>4. Tidy(After(p, Write(Nothing, Drop("Deleted"))))
        <3>1. Write(Nothing, Drop("Deleted")).put = Drop("Deleted")
            BY DEF Write, Nothing
        <3>2. Drop("Deleted").op = "DropPlacement"
            BY DEF Drop
        <3> QED BY <2>1, <3>1, <3>2 DEF After
    <2>5. CASE item # None /\ p.base # None
        <3> DEFINE deleted == [Nothing EXCEPT !.push = Remove(p, p.base.revision),
                                              !.drop = TRUE]
        <3>1. After(p, deleted) = p
            BY DEF After, Nothing
        <3>2. p.origin = None
            BY <1>1, <2>1 DEF Plain
        <3>3. out = MergeTombstone(p, item, opts)
            BY <1>3, <2>1, <2>5 DEF MergeCandidate
        <3>4. out \in {Write(Nothing, Upsert(PullAdd(item))), deleted, Nothing}
            BY <1>2, <3>2, <3>3 DEF MergeTombstone, RefuseDelete, Unreverted
        <3> QED BY <2>1, <2>2, <2>3, <3>1, <3>4 DEF out
    <2>6. CASE item # None /\ p.base = None
        <3>1. out = Write(Nothing, Upsert(PullAdd(item)))
            BY <1>3, <2>1, <2>6 DEF MergeCandidate
        <3> QED BY <2>3, <3>1 DEF out
    <2>7. CASE item = None
        <3>1. out = Write(Nothing, Drop("Deleted"))
            BY <1>3, <2>1, <2>7 DEF MergeCandidate
        <3> QED BY <2>4, <3>1 DEF out
    <2> QED BY <2>5, <2>6, <2>7
<1> QED BY <1>4, <1>5

(* The steps that write no row but those of the batch, loaded or stored.   *)
LEMMA OtherRows ==
    ASSUME Inv, DeliveryInv, [Next]_vars, ~MergeStep, ~PushOutcomes, ~User,
           NEW h \in Handle
    PROVE  /\ store'[h] \in {store[h], Row(h)}
           /\ Row(h)' \in {store[h], Row(h)}
           /\ local'[h] \in {store[h], local[h], None}
<1> DEFINE Goal == /\ store'[h] \in {store[h], Row(h)}
                   /\ Row(h)' \in {store[h], Row(h)}
                   /\ local'[h] \in {store[h], local[h], None}
<1>1. UNCHANGED <<store, writes>> => Row(h)' = Row(h)
    BY DEF Row
<1>2. UNCHANGED <<store, writes, local>> => Goal
    BY <1>1
<1>3. (WriteBatch /\ (local' = local \/ EndRun)) => Goal
    BY WriteRows DEF EndRun, None4All
<1> SUFFICES Goal
    OBVIOUS
<1> HIDE DEF Goal
<1>4. CASE UNCHANGED vars
    BY <1>2, <1>4 DEF vars
<1>5. CASE \E o \in Options : Begin(o)
    BY <1>1, <1>5 DEF Begin, Goal
<1>6. CASE Others
    BY <1>2, <1>6, OthersMove DEF OtherClient
<1>7. CASE Crash
    <2>1. store' = store /\ EndRun /\ writes' = [k \in Handle |-> Keep]
        BY <1>7 DEF Crash
    <2>2. Row(h)' = store[h]
        BY <2>1 DEF Row, Applied
    <2> QED BY <2>1, <2>2 DEF Goal, EndRun, None4All
<1>8. CASE Refuse \/ \E k \in Handle : Silence(k)
    BY <1>2, <1>8 DEF Refuse, Silence
<1>9. CASE Enumerate \/ MergeEnd \/ Serve
    BY <1>2, <1>9 DEF Enumerate, MergeEnd, Serve
<1>10. CASE MergeWrite \/ ChunkWrite \/ LastWrite
    BY <1>3, <1>10 DEF MergeWrite, ChunkWrite, LastWrite
<1> QED BY <1>4, <1>5, <1>6, <1>7, <1>8, <1>9, <1>10 DEF Next, Run, Fault

LEMMA TidyNext ==
    ASSUME Inv, DeliveryInv, Unreverted, TidyInv, [Next]_vars
    PROVE  TidyInv'
<1> SUFFICES ASSUME NEW k \in Handle
             PROVE  Tidy(store'[k]) /\ Tidy(Row(k)') /\ Tidy(local'[k])
    BY DEF TidyInv, Tidy, StagedEdit
<1>1. Tidy(store[k]) /\ Tidy(Row(k)) /\ Tidy(local[k]) /\ Tidy(None)
    BY DEF TidyInv, Tidy
<1>2. CASE MergeStep
    <2>1. PICK h \in todo : todo' = todo \ {h} /\ (Skip(h) \/ Merge(h))
        BY <1>2, LeastIn, HandleFacts DEF Inv, TypeOK, MergeStep
    <2>2. pc = "Joining" /\ UNCHANGED <<store, local>>
        BY <1>2 DEF MergeStep
    <2>3. CASE Skip(h)
        BY <1>1, <2>2, <2>3 DEF Skip, Row
    <2>4. CASE Merge(h)
        <3>1. ~Untouched(h) /\ Tidy(local[h]) /\ h \in Handle
            BY <2>4 DEF Merge, TidyInv, Inv, TypeOK
        <3>2. OutcomeOf(h).dup = None
            BY <2>2, <3>1, OutcomeKept DEF Kept
        <3>3. Tidy(After(local[h], OutcomeOf(h)))
            BY <2>2, <3>1, OutcomeTidy
        <3>4. Row(k)' = IF k = h THEN After(local[h], OutcomeOf(h)) ELSE Row(k)
            BY <2>2, <2>4, <3>2, WalkedRow
        <3> QED BY <1>1, <2>2, <3>3, <3>4
    <2> QED BY <2>1, <2>3, <2>4
<1>3. CASE PushOutcomes
    <2>1. UNCHANGED <<store, local>>
        BY <1>3 DEF PushOutcomes
    <2>2. Tidy(Row(k)')
        BY <1>1, <1>3, OutcomeFit DEF Recorded
    <2> QED BY <1>1, <2>1, <2>2
<1>4. CASE User
    <2>1. PICK h \in Handle, q \in ReplicaPlacement :
            /\ \E op : Mutate(op)
            /\ store' = [store EXCEPT ![h] = q] /\ Tidy(q)
        BY <1>4, UserFits DEF TidyInv
    <2>2. pc = "Idle" /\ UNCHANGED <<local, writes>>
        BY <2>1 DEF Mutate
    <2>3. store'[k] \in {store[k], q} /\ Row(k)' = store'[k]
        <3>1. store \in [Handle -> Opt(ReplicaPlacement)]
            BY DEF Inv, TypeOK
        <3>2. writes[k] = Keep
            BY <2>2 DEF DeliveryInv, PlaceFit, Enumerated
        <3> QED BY <2>1, <2>2, <3>1, <3>2 DEF Row, Applied
    <2> QED BY <1>1, <2>1, <2>2, <2>3
<1>5. CASE ~MergeStep /\ ~PushOutcomes /\ ~User
    BY <1>1, <1>5, OtherRows
<1> QED BY <1>2, <1>3, <1>4, <1>5

(* Where content moves alone and no refused delete is reverted, a clean    *)
(* row owes the remote no body, whatever was edited, created, refused,     *)
(* silenced or lost on the way: every edit is known to the next merge      *)
(* (placement.rs, ReplicaStatus::Clean; sync.rs, rebase_content).          *)
THEOREM CleanEditsPushed ==
    ContentAlone /\ Unreverted /\ Spec => []CleanOwesNothing
<1>1. Inv /\ DeliveryInv /\ Unreverted /\ TidyInv /\ [Next]_vars => TidyInv'
    BY TidyNext
<1>2. Init => TidyInv
    BY DEF Init, NoRun, None4All, TidyInv, Tidy, Row, Applied
<1>3. TidyInv => CleanOwesNothing
    BY DEF TidyInv, Tidy, CleanOwesNothing
<1>4. Unreverted /\ [Next]_vars => Unreverted'
    BY DEF Unreverted
<1> QED BY <1>1, <1>2, <1>3, <1>4, DeliveryHolds, PTL DEF Spec

================================================================================
