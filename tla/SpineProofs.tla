------------------------------ MODULE SpineProofs ------------------------------
(***************************************************************************)
(* The persisted cursor never claims what the persisted placements do not  *)
(* hold, no edit or delete goes out under a precondition stale when the    *)
(* run looked, and no base pairs a revision with another version's body:   *)
(* for every set of handles, flags and bodies, every chunk size, and any   *)
(* number of mutations, other clients' changes and faults.                 *)
(***************************************************************************)
EXTENDS SyncProofs

USE DEF Opt, Revision, remoteVars, stored, mergeVars, pendings, runVars

(* The instances the theorems are about. A prefer-local push refused for   *)
(* no reason of the server's state, and an edit of a deleted conflict,     *)
(* leave a row behind the cursor: see the README.                          *)
Cautious ==
    /\ (\E o \in Options : o.conflict = "PreferLocal") => "refuse" \notin Faults
    /\ "Edit" \in UserOps => "Tombstone" \notin Editable

(* The row of a handle once the batch is written. *)
Row(h) == Applied(store, writes)[h]

(* The run has a snapshot. *)
Enumerated == pc \in {"Joining", "Merging", "PendingPush", "PendingWrite"}

--------------------------------------------------------------------------------
(* The inductive invariant, part by part.                                  *)

(* The server: every stamp is in the past, and only its own handles hold   *)
(* members.                                                                *)
ServerInv ==
    /\ checkpoint # None => checkpoint <= seq
    /\ \A h \in Handle :
          /\ gone[h] <= seq
          /\ items[h] # None => /\ h \in ServerHandle
                                /\ items[h].seq <= seq
                                /\ items[h].rev <= items[h].seq

(* A revision some row of h may hold: not one of a version to come. *)
Past(h, revision) ==
    revision # None =>
        /\ Mutable
        /\ revision <= seq
        /\ items[h] # None => revision <= items[h].rev

(* A revision and a body held beside it are those of one version. *)
Paired(h, revision, object) ==
    (revision # None /\ object # None /\ items[h] # None
        /\ revision = items[h].rev) => object = items[h].body

(* What a base holds beside its revision is that version's body, or what   *)
(* the push that made the version came with: a server-side copy takes the  *)
(* origin's body instead.                                                  *)
Based(h, revision, object) ==
    (revision # None /\ object # None /\ items[h] # None
        /\ revision = items[h].rev) =>
            object \in {items[h].body, items[h].asked}

(* A row h may hold: only the server's handles have bases, and a row there *)
(* without one is an edit brought back to life.                            *)
RowOK(h, p) ==
    p # None =>
        /\ Shape(p)
        /\ Past(h, p.conflict_revision)
        /\ Paired(h, p.conflict_revision, p.conflict_object)
        /\ p.conflict_revision # None => p.base # None
        /\ p.base # None => /\ h \in ServerHandle
                            /\ Past(h, p.base.revision)
                            /\ Based(h, p.base.revision, p.base.object)
        /\ (p.base = None /\ h \in ServerHandle) => p.object # None

RowsInv ==
    \A h \in Handle :
        /\ RowOK(h, store[h]) /\ RowOK(h, Row(h)) /\ RowOK(h, local[h])
        /\ RowOK(h, pending_flag_pushes[h])
        /\ RowOK(h, pending_content_pushes[h])
        /\ RowOK(h, pending_creates[h])

(* The row p of h holds all that the cursor c claims. *)
Covers(h, p, c) ==
    /\ (items[h] # None /\ items[h].seq <= c) =>
          /\ p # None
          /\ p.base # None
          /\ Mutable => KnownRevision(p) = items[h].rev
    /\ (p # None /\ p.base # None /\ items[h] = None) => gone[h] > c

CursorInv ==
    checkpoint # None =>
        \A h \in Handle :
            Covers(h, store[h], checkpoint) /\ Covers(h, Row(h), checkpoint)

(* A member of h, and the loss of one, are younger than the snapshot. *)
Newer(h)     == items[h] # None => items[h].seq > snap.checkpoint
GoneSince(h) == items[h] = None => gone[h] > snap.checkpoint

(* What the snapshot still says of a server that has moved on: a member no *)
(* younger is listed as it is, unless the cursor already covers it.        *)
SnapOK(h) ==
    /\ ~Newer(h) =>
          /\ h \notin snap.vanished
          /\ snap.items[h] # None =>
                snap.items[h].revision = RevisionOf(items[h].rev)
          /\ snap.items[h] = None =>
                ~snap.complete /\ items[h].seq <= checkpoint
    /\ ~GoneSince(h) =>
          /\ snap.items[h] = None
          /\ snap.complete \/ h \in snap.vanished \/ gone[h] <= checkpoint
    /\ snap.items[h] # None =>
          /\ h \in ServerHandle
          /\ Mutable => snap.items[h].revision # None
          /\ Past(h, snap.items[h].revision)

(* The rows loaded knew no later version than the snapshot lists. *)
LoadedBefore(h) ==
    (Mutable /\ snap.items[h] # None /\ local[h] # None) =>
        /\ local[h].conflict_revision # None =>
              local[h].conflict_revision <= snap.items[h].revision
        /\ (local[h].base # None /\ local[h].base.revision # None) =>
              local[h].base.revision <= snap.items[h].revision

SnapInv ==
    /\ snap.checkpoint <= seq
    /\ ~snap.complete => checkpoint # None
    /\ checkpoint # None => checkpoint <= snap.checkpoint
    /\ \A h \in Handle : SnapOK(h) /\ LoadedBefore(h)

(* A prefer-local push still to be answered stands for its row. *)
Retried(h) ==
    /\ "refuse" \notin Faults
    /\ Owed(h) # None
    /\ Owed(h).kind = "Update"
    /\ pushes[h] # None \/ h \in unserved

(* The join: what it has walked is as the snapshot has it, what it has not *)
(* is as it was loaded.                                                    *)
JoinOK(h) ==
    /\ h \notin todo => Covers(h, Row(h), snap.checkpoint) \/ Retried(h)
    /\ (h \in todo /\ h \in ServerHandle) => Row(h) = local[h]

(* A change is one the member it names can take, unless somebody moved it. *)
OwedOK(h) ==
    Owed(h) # None =>
        /\ Owed(h).kind = "Add" =>
              /\ Newer(h)
              /\ pending_creates[h].status = "Created"
              /\ pending_creates[h].object = Owed(h).object
        /\ Owed(h).kind # "Add" => h \in ServerHandle /\ GoneSince(h)
        /\ (Owed(h).kind \in {"Update", "Remove"} /\ Mutable /\ ~Newer(h)) =>
              Owed(h).if_match = items[h].rev
        /\ Owed(h).kind = "Update" =>
              /\ pending_content_pushes[h].conflict_revision = None
              /\ pending_content_pushes[h].object = Owed(h).object
        /\ Owed(h).kind = "SetFlags" =>
              pending_flag_pushes[h].status # "Tombstone"

(* An accepted change moved the member it names, or the one it made, and   *)
(* reported the revision of what was pushed.                               *)
Moved(k, revision, object) ==
    /\ k \in ServerHandle /\ Newer(k) /\ GoneSince(k)
    /\ Past(k, revision) /\ Based(k, revision, object)

ResultOK(h) ==
    IsAccepted(h) =>
        /\ in_flight[h].kind \in {"SetFlags", "Remove"} => Newer(h) /\ GoneSince(h)
        /\ in_flight[h].kind = "Update" =>
              Moved(h, results[h].revision, pending_content_pushes[h].object)
        /\ (in_flight[h].kind = "Add" /\ results[h].assigned # None) =>
              Moved(results[h].assigned, results[h].revision,
                    pending_creates[h].object)

RunInv ==
    /\ SnapInv
    /\ \A h \in Handle : JoinOK(h) /\ OwedOK(h) /\ ResultOK(h)

(* What the place of the coroutine says of the batch and the cursor. *)
PlaceInv ==
    /\ ~Enumerated => todo = {} /\ \A h \in Handle : writes[h] = Keep
    /\ pc # "Idle" => opts \in Options
    /\ pc = "PendingEnumerate" => local = store
    /\ pc \in {"PendingPush", "PendingWrite"} =>
          todo = {} /\ next_checkpoint = snap.checkpoint
    /\ pc \notin {"PendingPush", "PendingWrite"} => next_checkpoint = None
    /\ pc # "PendingPush" => unserved = {} /\ \A h \in Handle : results[h] = None
    /\ \A h \in unserved : results[h] = None

SpineInv ==
    /\ Cautious
    /\ ServerInv /\ RowsInv /\ CursorInv /\ PlaceInv
    /\ Enumerated => RunInv

--------------------------------------------------------------------------------
(* What a step does to the server, and what survives it.                   *)

(* A handle is left alone, or its member is stamped anew, its revision     *)
(* with it unless its body stays, or its member goes.                      *)
RemoteStep ==
    /\ seq' \in {seq, seq + 1}
    /\ \A h \in Handle :
          \/ items'[h] = items[h] /\ gone'[h] = gone[h]
          \/ /\ seq' = seq + 1 /\ h \in ServerHandle
             /\ items'[h] # None /\ items'[h].seq = seq + 1
             /\ gone'[h] = gone[h]
             /\ \/ items'[h].rev = seq + 1
                \/ /\ items[h] # None
                   /\ items'[h].rev = items[h].rev
                   /\ items'[h].body = items[h].body
                   /\ items'[h].asked = items[h].asked
          \/ /\ seq' = seq + 1 /\ items[h] # None
             /\ items'[h] = None /\ gone'[h] = seq + 1

(* The types the arithmetic below needs. *)
LEMMA ItemFacts ==
    ASSUME TypeOK
    PROVE  /\ seq \in Nat /\ seq + 1 \in Nat
           /\ \A h \in Handle : /\ gone[h] \in Nat
                                /\ items[h] # None => /\ items[h].seq \in Nat
                                                      /\ items[h].rev \in Nat
BY DEF TypeOK, ServerItem

LEMMA RowTypes ==
    ASSUME TypeOK, NEW h \in Handle
    PROVE  /\ Row(h) \in Opt(ReplicaPlacement)
           /\ store[h] \in Opt(ReplicaPlacement)
           /\ local[h] \in Opt(ReplicaPlacement)
           /\ pending_flag_pushes[h] \in Opt(ReplicaPlacement)
           /\ pending_content_pushes[h] \in Opt(ReplicaPlacement)
           /\ pending_creates[h] \in Opt(ReplicaPlacement)
<1>1. writes[h] # Keep /\ writes[h].op # "DropPlacement" =>
            writes[h].row \in ReplicaPlacement
    BY DEF TypeOK, ReplicaWriteOp
<1>2. Row(h) \in Opt(ReplicaPlacement)
    BY <1>1 DEF Row, Applied, TypeOK
<1> QED BY <1>2 DEF TypeOK

LEMMA PlacementFacts ==
    ASSUME NEW p \in ReplicaPlacement
    PROVE  /\ p # None
           /\ p.conflict_revision \in Opt(Nat)
           /\ p.base # None => p.base \in ReplicaBase /\ p.base.revision \in Opt(Nat)
BY SentinelAssumption DEF ReplicaPlacement, ReplicaBase

LEMMA PastSurvives ==
    ASSUME TypeOK, TypeOK', ServerInv, RemoteStep, NEW h \in Handle,
           NEW r \in Opt(Nat), Past(h, r)
    PROVE  /\ Past(h, r)'
           /\ \A o : /\ Paired(h, r, o) => Paired(h, r, o)'
                     /\ Based(h, r, o) => Based(h, r, o)'
<1>1. CASE r = None
    BY <1>1 DEF Past, Paired, Based
<1>2. CASE r # None
    <2>1. r \in Nat /\ Mutable /\ r <= seq
        BY <1>2 DEF Past
    <2>2. CASE items'[h] = items[h]
        BY <2>1, <2>2, ItemFacts DEF Past, Paired, Based, RemoteStep
    <2>3. CASE items'[h] = None
        BY <2>1, <2>3, ItemFacts DEF Past, Paired, Based, RemoteStep
    <2>4. CASE items'[h] # None /\ items'[h] # items[h]
        <3>1. /\ seq' = seq + 1
              /\ \/ items'[h].rev = seq + 1
                 \/ /\ items[h] # None
                    /\ items'[h].rev = items[h].rev
                    /\ items'[h].body = items[h].body
                    /\ items'[h].asked = items[h].asked
            BY <2>4 DEF RemoteStep
        <3> QED BY <1>2, <2>1, <2>4, <3>1, ItemFacts DEF Past, Paired, Based
    <2> QED BY <2>2, <2>3, <2>4
<1> QED BY <1>1, <1>2

LEMMA RowSurvives ==
    ASSUME TypeOK, TypeOK', ServerInv, RemoteStep, NEW h \in Handle,
           NEW p \in Opt(ReplicaPlacement), RowOK(h, p)
    PROVE  RowOK(h, p)'
<1>1. CASE p = None
    BY <1>1 DEF RowOK
<1>2. CASE p # None
    <2>1. p \in ReplicaPlacement
        BY <1>2
    <2>2. p.conflict_revision \in Opt(Nat)
        BY <2>1, PlacementFacts
    <2>3. p.base # None => p.base.revision \in Opt(Nat)
        BY <2>1, PlacementFacts
    <2>4. /\ Past(h, p.conflict_revision)'
          /\ Paired(h, p.conflict_revision, p.conflict_object)'
        BY <1>2, <2>2, PastSurvives DEF RowOK
    <2>5. p.base # None => /\ Past(h, p.base.revision)'
                           /\ Based(h, p.base.revision, p.base.object)'
        BY <1>2, <2>3, PastSurvives DEF RowOK
    <2> QED BY <1>2, <2>4, <2>5 DEF RowOK
<1> QED BY <1>1, <1>2

LEMMA CoverSurvives ==
    ASSUME TypeOK, TypeOK', ServerInv, RemoteStep, NEW h \in Handle,
           NEW p, NEW c \in Nat, c <= seq, Covers(h, p, c)
    PROVE  Covers(h, p, c)'
BY ItemFacts DEF Covers, RemoteStep

(* A member stamped, or lost, in this step is younger than the snapshot. *)
LEMMA NewerSurvives ==
    ASSUME TypeOK, TypeOK', RemoteStep, NEW h \in Handle,
           snap' = snap, snap.checkpoint \in Nat, snap.checkpoint <= seq
    PROVE  /\ Newer(h) => Newer(h)'
           /\ GoneSince(h) => GoneSince(h)'
           /\ ~Newer(h)' => ~Newer(h) /\ items'[h] = items[h]
           /\ ~GoneSince(h)' => ~GoneSince(h) /\ items'[h] = items[h]
                                /\ gone'[h] = gone[h]
BY ItemFacts DEF Newer, GoneSince, RemoteStep

LEMMA ServerSurvives ==
    ASSUME TypeOK, TypeOK', ServerInv, RemoteStep, checkpoint' = checkpoint
    PROVE  ServerInv'
<1>1. checkpoint' # None => checkpoint' <= seq'
    BY ItemFacts DEF ServerInv, RemoteStep, TypeOK
<1>2. ASSUME NEW h \in Handle
      PROVE  /\ gone'[h] <= seq'
             /\ items'[h] # None => /\ h \in ServerHandle
                                    /\ items'[h].seq <= seq'
                                    /\ items'[h].rev <= items'[h].seq
    <2>1. /\ gone[h] <= seq
          /\ items[h] # None => /\ h \in ServerHandle
                                /\ items[h].seq <= seq
                                /\ items[h].rev <= items[h].seq
        BY DEF ServerInv
    <2> QED BY <2>1, ItemFacts DEF RemoteStep
<1> QED BY <1>1, <1>2 DEF ServerInv

LEMMA SnapSurvives ==
    ASSUME TypeOK, TypeOK', ServerInv, RemoteStep, NEW h \in Handle,
           UNCHANGED <<snap, checkpoint>>, snap \in ReplicaRemoteSnapshot,
           snap.checkpoint <= seq, SnapOK(h)
    PROVE  SnapOK(h)'
<1>1. /\ snap.checkpoint \in Nat
      /\ snap.items[h] # None => snap.items[h].revision \in Opt(Nat)
    BY DEF ReplicaRemoteSnapshot, ReplicaRemoteItem
<1>2. /\ ~Newer(h)' => ~Newer(h) /\ items'[h] = items[h]
      /\ ~GoneSince(h)' => ~GoneSince(h) /\ items'[h] = items[h]
                           /\ gone'[h] = gone[h]
    BY <1>1, NewerSurvives
<1>3. snap.items[h] # None => Past(h, snap.items[h].revision)'
    BY <1>1, PastSurvives DEF SnapOK
<1> QED BY <1>2, <1>3 DEF SnapOK, RevisionOf

LEMMA MovedSurvives ==
    ASSUME TypeOK, TypeOK', ServerInv, RemoteStep, NEW k \in Handle,
           snap' = snap, snap.checkpoint \in Nat, snap.checkpoint <= seq,
           NEW r \in Opt(Nat), NEW o, Moved(k, r, o)
    PROVE  Moved(k, r, o)'
BY NewerSurvives, PastSurvives DEF Moved

(* What a step of the remote's leaves of the invariant, the run's own      *)
(* state being untouched but for its answers.                              *)
LEMMA RemoteKeeps ==
    ASSUME Inv, Inv', SpineInv, RemoteStep,
           UNCHANGED <<stored, pc, mergeVars, writes, pushes, in_flight,
                       next_checkpoint, pendings>>
    PROVE  /\ ServerInv' /\ RowsInv' /\ CursorInv'
           /\ Enumerated' =>
                 /\ SnapInv'
                 /\ \A h \in Handle :
                       /\ OwedOK(h)'
                       /\ Covers(h, Row(h), snap.checkpoint) =>
                             Covers(h, Row(h), snap.checkpoint)'
<1>1. TypeOK /\ TypeOK' /\ ServerInv /\ RowsInv /\ CursorInv
    BY DEF Inv, SpineInv
<1>2. ServerInv'
    BY <1>1, ServerSurvives
<1>3. RowsInv'
    <2> SUFFICES ASSUME NEW h \in Handle PROVE RowsInv!(h)'
        BY DEF RowsInv
    <2>1. Row(h)' = Row(h)
        BY DEF Row
    <2>2. \A p \in Opt(ReplicaPlacement) : RowOK(h, p) => RowOK(h, p)'
        BY <1>1, RowSurvives
    <2> QED BY <1>1, <2>1, <2>2, RowTypes DEF RowsInv
<1>4. CursorInv'
    <2> SUFFICES ASSUME checkpoint # None, NEW h \in Handle
                 PROVE  /\ Covers(h, store[h], checkpoint)'
                        /\ Covers(h, Row(h), checkpoint)'
        BY DEF CursorInv
    <2>1. Row(h)' = Row(h)
        BY DEF Row
    <2>2. checkpoint \in Nat /\ checkpoint <= seq
        BY <1>1 DEF TypeOK, ServerInv
    <2>3. \A p : Covers(h, p, checkpoint) => Covers(h, p, checkpoint)'
        BY <1>1, <2>2, CoverSurvives
    <2> QED BY <1>1, <2>1, <2>3 DEF CursorInv
<1>5. ASSUME Enumerated', NEW h \in Handle
      PROVE  /\ SnapOK(h)' /\ LoadedBefore(h)' /\ OwedOK(h)'
             /\ Covers(h, Row(h), snap.checkpoint) =>
                   Covers(h, Row(h), snap.checkpoint)'
    <2>1. Enumerated /\ RunInv /\ SnapInv
        BY <1>5 DEF Enumerated, SpineInv, RunInv
    <2>2. snap \in ReplicaRemoteSnapshot /\ snap.checkpoint \in Nat
        BY <2>1 DEF Inv, Phases, Enumerated, ReplicaRemoteSnapshot
    <2>3. snap.checkpoint <= seq /\ SnapOK(h) /\ LoadedBefore(h) /\ OwedOK(h)
        BY <2>1 DEF SnapInv, RunInv
    <2>4. SnapOK(h)'
        BY <1>1, <2>2, <2>3, SnapSurvives
    <2>5. LoadedBefore(h)'
        BY <2>3 DEF LoadedBefore
    <2>6. Row(h)' = Row(h) /\ Owed(h)' = Owed(h)
        BY DEF Row, Owed
    <2>7. \A p : Covers(h, p, snap.checkpoint) => Covers(h, p, snap.checkpoint)'
        BY <1>1, <2>2, <2>3, CoverSurvives
    <2>8. /\ Newer(h) => Newer(h)'
          /\ GoneSince(h) => GoneSince(h)'
          /\ ~Newer(h)' => ~Newer(h) /\ items'[h] = items[h]
        BY <1>1, <2>2, <2>3, NewerSurvives
    <2>9. OwedOK(h)'
        BY <2>3, <2>6, <2>8 DEF OwedOK
    <2> QED BY <2>4, <2>5, <2>6, <2>7, <2>9
<1>6. Enumerated' => SnapInv'
    <2>1. Enumerated' => SnapInv
        BY DEF Enumerated, SpineInv, RunInv
    <2>2. Enumerated' => snap \in ReplicaRemoteSnapshot /\ snap.checkpoint \in Nat
        BY DEF Inv, Phases, Enumerated, ReplicaRemoteSnapshot
    <2> QED BY <1>1, <1>5, <2>1, <2>2, ItemFacts DEF SnapInv, RemoteStep
<1> QED BY <1>2, <1>3, <1>4, <1>5, <1>6

(* A member stamped anew, its body kept and its body replaced. *)
LEMMA FlagStamp ==
    ASSUME TypeOK, ServerInv, NEW h \in Handle, NEW flags \in ReplicaFlags,
           items[h] # None, seq' = seq + 1, gone' = gone,
           items' = [items EXCEPT ![h] = [@ EXCEPT !.flags = flags,
                                                   !.seq   = seq + 1]]
    PROVE  /\ RemoteStep
           /\ items'[h] # None /\ items'[h].seq = seq + 1
<1>1. items[h] \in ServerItem /\ items \in [Handle -> Opt(ServerItem)]
    BY DEF TypeOK
<1>2. items'[h] = [items[h] EXCEPT !.flags = flags, !.seq = seq + 1]
    BY <1>1
<1>3. items'[h] \in ServerItem
    BY <1>1, <1>2, ItemFacts DEF ServerItem
<1>4. /\ items'[h] # None /\ items'[h].seq = seq + 1
      /\ items'[h].rev = items[h].rev /\ items'[h].body = items[h].body
      /\ items'[h].asked = items[h].asked
    BY <1>1, <1>2, <1>3, ServerAssumption DEF ServerItem
<1>5. \A k \in Handle : k # h => items'[k] = items[k]
    BY <1>1
<1> QED BY <1>4, <1>5 DEF RemoteStep, ServerInv

LEMMA BodyStamp ==
    ASSUME TypeOK, ServerInv, NEW h \in Handle, NEW body \in Body,
           items[h] # None, seq' = seq + 1, gone' = gone,
           items' = [items EXCEPT ![h] = Rewritten(@, body, seq + 1)]
    PROVE  /\ RemoteStep
           /\ items'[h] # None /\ items'[h].seq = seq + 1
           /\ items'[h].rev = seq + 1 /\ items'[h].body = body
<1>1. items[h] \in ServerItem /\ items \in [Handle -> Opt(ServerItem)]
    BY DEF TypeOK
<1>2. items'[h] = Rewritten(items[h], body, seq + 1)
    BY <1>1
<1>3. items'[h] \in ServerItem /\ items'[h].seq = seq + 1
      /\ items'[h].rev = seq + 1 /\ items'[h].body = body
    BY <1>1, <1>2, ItemFacts, RewrittenFacts
<1>4. items'[h] # None
    BY <1>3, ServerAssumption
<1>5. \A k \in Handle : k # h => items'[k] = items[k]
    BY <1>1
<1> QED BY <1>3, <1>4, <1>5 DEF RemoteStep, ServerInv

(* Another client changes one member and stamps it. *)
LEMMA OthersRemote ==
    ASSUME TypeOK, ServerInv, Others
    PROVE  RemoteStep /\ results' = results
<1>1. ASSUME NEW h \in Handle, RemoteSeed(h) PROVE RemoteStep /\ results' = results
    <2> DEFINE m == Member(Hint[h], {}, SeedBody, seq + 1)
    <2>1. /\ h \in ServerHandle /\ items[h] = None /\ seq' = seq + 1
          /\ items' = [items EXCEPT ![h] = m]
          /\ gone' = gone /\ results' = results
        BY <1>1 DEF RemoteSeed
    <2>2. Hint[h] \in LinkId /\ {} \in ReplicaFlags /\ SeedBody \in Body
        BY <2>1, HandleFacts DEF ReplicaFlags
    <2>3. m # None /\ m.seq = seq + 1 /\ m.rev = seq + 1
        BY <2>2, ItemFacts, MemberFacts, ServerAssumption
    <2> HIDE DEF m
    <2> QED BY <2>1, <2>3 DEF RemoteStep, TypeOK
<1>2. ASSUME NEW h \in Handle, NEW flags \in SUBSET Flag, RemoteSetFlags(h, flags)
      PROVE  RemoteStep /\ results' = results
    <2>1. flags \in ReplicaFlags
        BY DEF ReplicaFlags
    <2> QED BY <1>2, <2>1, FlagStamp, Zenon DEF RemoteSetFlags
<1>3. ASSUME NEW h \in Handle, NEW body \in Foreign, RemoteEdit(h, body)
      PROVE  RemoteStep /\ results' = results
    <2>1. body \in Body
        BY <1>3, HandleFacts
    <2> QED BY <1>3, <2>1, BodyStamp, Zenon DEF RemoteEdit
<1>4. ASSUME NEW h \in Handle, RemoteRemove(h) PROVE RemoteStep /\ results' = results
    BY <1>4 DEF RemoteRemove, RemoteStep, TypeOK, ServerInv
<1> QED
    BY <1>1, <1>2, <1>3, <1>4
       DEF Others, OthersSeed, OthersSetFlags, OthersEdit, OthersRemove

LEMMA OthersSpine ==
    ASSUME Inv, Inv', SpineInv, Others
    PROVE  SpineInv'
<1>1. UNCHANGED <<stored, runVars>>
    BY OthersMove DEF OtherClient
<1>2. RemoteStep /\ results' = results
    BY OthersRemote DEF Inv, SpineInv
<1>3. TypeOK /\ TypeOK' /\ ServerInv
    BY DEF Inv, SpineInv
<1>4. /\ ServerInv' /\ RowsInv' /\ CursorInv'
      /\ Enumerated' =>
            /\ SnapInv'
            /\ \A h \in Handle :
                  /\ OwedOK(h)'
                  /\ Covers(h, Row(h), snap.checkpoint) =>
                        Covers(h, Row(h), snap.checkpoint)'
    BY <1>1, <1>2, RemoteKeeps
<1>5. PlaceInv' /\ Cautious
    BY <1>1, <1>2 DEF SpineInv, PlaceInv, Enumerated
<1>6. ASSUME Enumerated', NEW h \in Handle PROVE JoinOK(h)' /\ ResultOK(h)'
    <2>1. Enumerated /\ JoinOK(h) /\ ResultOK(h) /\ SnapInv
        BY <1>1, <1>6 DEF Enumerated, SpineInv, RunInv
    <2>2. snap \in ReplicaRemoteSnapshot /\ snap.checkpoint \in Nat
        BY <2>1 DEF Inv, Phases, Enumerated, ReplicaRemoteSnapshot
    <2>3. Retried(h) => Retried(h)'
        BY <1>1 DEF Retried, Owed
    <2>4. Row(h)' = Row(h)
        BY <1>1 DEF Row
    <2>5. JoinOK(h)'
        BY <1>1, <1>4, <1>6, <2>1, <2>3, <2>4 DEF JoinOK
    <2>6. snap' = snap /\ snap.checkpoint <= seq
        BY <1>1, <2>1 DEF SnapInv
    <2>7. \A k \in Handle : /\ Newer(k) => Newer(k)'
                            /\ GoneSince(k) => GoneSince(k)'
        BY <1>2, <1>3, <2>2, <2>6, NewerSurvives
    <2>8. \A k \in Handle, r \in Opt(Nat) :
            \A o : Moved(k, r, o) => Moved(k, r, o)'
        BY <1>2, <1>3, <2>2, <2>6, MovedSurvives
    <2>9. IsAccepted(h)' <=> IsAccepted(h)
        BY <1>1, <1>2 DEF IsAccepted
    <2>10. IsAccepted(h) => /\ results[h].revision \in Opt(Nat)
                            /\ results[h].assigned \in Opt(Handle)
        BY <1>3 DEF IsAccepted, TypeOK, PushResult
    <2>11. ResultOK(h)'
        BY <1>1, <1>2, <2>1, <2>7, <2>8, <2>9, <2>10 DEF ResultOK
    <2> QED BY <2>5, <2>11
<1>7. Cautious'
    BY <1>5 DEF Cautious
<1> QED BY <1>4, <1>5, <1>6, <1>7 DEF SpineInv, RunInv

--------------------------------------------------------------------------------
(* The remote's answers.                                                   *)

LEMMA PushStep ==
    ASSUME TypeOK, ServerInv, NEW h \in Handle, NEW change \in ReplicaChange,
           Push(h, change)
    PROVE  /\ RemoteStep
           /\ results' = [results EXCEPT ![h] = results'[h]]
           /\ change.kind = "SetFlags" =>
                 \/ items[h] = None
                 \/ items'[h] # None /\ items'[h].seq = seq + 1
           /\ (change.kind = "Remove" /\ results'[h].outcome = "Accepted") =>
                 items[h] = None \/ (items'[h] = None /\ gone'[h] = seq + 1)
           /\ change.kind = "Update" =>
                 \/ /\ items'[h] # None /\ items'[h].seq = seq + 1
                    /\ items'[h].rev = seq + 1 /\ items'[h].body = change.object
                    /\ results'[h].revision = RevisionOf(seq + 1)
                 \/ /\ items[h] = None \/ Stale(h, change.if_match)
                    /\ results'[h].outcome = "Rejected"
           /\ (change.kind = "Add" /\ results'[h].outcome = "Accepted"
                   /\ results'[h].assigned # None) =>
                 LET k == results'[h].assigned
                 IN  /\ k \in ServerHandle
                     /\ items'[k] # None /\ items'[k].seq = seq + 1
                     /\ items'[k].rev = seq + 1
                     /\ change.object # None => items'[k].asked = change.object
                     /\ results'[h].revision = RevisionOf(seq + 1)
           /\ change.kind \in {"SetFlags", "Remove", "Update", "Add"}
           /\ seq' \in {seq, seq + 1}
<1>1. /\ Rejected.outcome = "Rejected"
      /\ \A a, r : /\ Accepted(a, r).assigned = a
                   /\ Accepted(a, r).revision = r
    BY DEF Rejected, Accepted
<1>2. ASSUME NEW result, Answer(h, result)
      PROVE  results'[h] = result /\ results' = [results EXCEPT ![h] = results'[h]]
    BY <1>2 DEF Answer, TypeOK
<1>3. CASE PushSetFlags(h, change)
    <2>1. change.flags \in ReplicaFlags /\ change.kind = "SetFlags"
        BY <1>3 DEF PushSetFlags, ReplicaChange
    <2>2. CASE items[h] = None
        BY <1>2, <1>3, <2>1, <2>2 DEF PushSetFlags, RemoteStep
    <2>3. CASE items[h] # None
        <3>1. /\ RemoteStep
              /\ items'[h] # None /\ items'[h].seq = seq + 1
            BY <1>3, <2>1, <2>3, FlagStamp, Zenon DEF PushSetFlags
        <3> QED BY <1>2, <1>3, <2>1, <3>1 DEF PushSetFlags, RemoteStep
    <2> QED BY <2>2, <2>3
<1>4. CASE PushRemove(h, change)
    <2>1. CASE Stale(h, change.if_match)
        BY <1>1, <1>2, <1>4, <2>1 DEF PushRemove, RemoteStep
    <2>2. CASE ~Stale(h, change.if_match)
        <3>1. RemoteStep
            BY <1>4, <2>2 DEF PushRemove, RemoteStep, TypeOK
        <3> QED BY <1>2, <1>4, <2>2, <3>1 DEF PushRemove, RemoteStep, TypeOK
    <2> QED BY <2>1, <2>2
<1>5. CASE PushUpdate(h, change)
    <2>1. change.object \in Body /\ change.kind = "Update"
        BY <1>5 DEF PushUpdate, ReplicaChange
    <2>2. CASE items[h] = None \/ Stale(h, change.if_match)
        BY <1>1, <1>2, <1>5, <2>1, <2>2 DEF PushUpdate, RemoteStep
    <2>3. CASE ~(items[h] = None \/ Stale(h, change.if_match))
        <3>1. items[h] # None
            BY <2>3
        <3>2. /\ items' = [items EXCEPT ![h] =
                                Rewritten(@, change.object, seq + 1)]
              /\ seq' = seq + 1 /\ gone' = gone
              /\ Answer(h, Accepted(None, RevisionOf(seq + 1)))
            BY <1>5, <2>3, Zenon DEF PushUpdate
        <3>3. /\ RemoteStep
              /\ items'[h] # None /\ items'[h].seq = seq + 1
              /\ items'[h].rev = seq + 1 /\ items'[h].body = change.object
            BY <2>1, <3>1, <3>2, BodyStamp, Zenon
        <3>4. Answer(h, Accepted(None, RevisionOf(seq + 1)))
            BY <3>2
        <3> QED BY <1>1, <1>2, <2>1, <3>3, <3>4 DEF RemoteStep
    <2> QED BY <2>2, <2>3
<1>6. CASE PushAdd(h, change)
    <2>1. change.kind = "Add"
        BY <1>6 DEF PushAdd
    <2>2. CASE UNCHANGED <<items, seq, landed>>
        <3>1. Answer(h, Rejected) \/ Answer(h, Accepted(None, None))
            BY <1>6, <2>2, AddedFacts, ItemFacts
        <3>2. results' = [results EXCEPT ![h] = results'[h]]
            BY <1>2, <3>1
        <3>3. results'[h] \in {Rejected, Accepted(None, None)}
            BY <1>2, <3>1
        <3>4. results'[h].outcome = "Accepted" => results'[h].assigned = None
            BY <1>1, <3>3
        <3>5. gone' = gone
            BY <1>6 DEF PushAdd
        <3> QED BY <2>1, <2>2, <3>2, <3>4, <3>5 DEF RemoteStep
    <2>3. CASE ~ UNCHANGED <<items, seq, landed>>
        <3>1. PICK new \in Handle, m \in ServerItem :
                /\ new \in ServerHandle /\ gone' = gone /\ seq' = seq + 1
                /\ items' = [items EXCEPT ![new] = m]
                /\ \/ Answer(h, Accepted(new, RevisionOf(seq + 1)))
                   \/ Answer(h, Accepted(None, None))
                /\ m.seq = seq + 1 /\ m.rev = seq + 1
                /\ change.object # None => m.asked = change.object
            BY <1>6, <2>3, AddedFacts
        <3>2. items'[new] = m /\ m # None
              /\ \A k \in Handle : k # new => items'[k] = items[k]
            BY <3>1, ServerAssumption DEF TypeOK
        <3>3. RemoteStep
            BY <3>1, <3>2 DEF RemoteStep
        <3>4. results' = [results EXCEPT ![h] = results'[h]]
            BY <1>2, <3>1
        <3>5. results'[h].assigned # None =>
                /\ results'[h].assigned = new
                /\ results'[h].revision = RevisionOf(seq + 1)
            <4>1. CASE Answer(h, Accepted(new, RevisionOf(seq + 1)))
                BY <1>1, <1>2, <4>1
            <4>2. CASE Answer(h, Accepted(None, None))
                BY <1>1, <1>2, <4>2
            <4> QED BY <3>1, <4>1, <4>2
        <3> QED BY <2>1, <3>1, <3>2, <3>3, <3>4, <3>5
    <2> QED BY <2>2, <2>3
<1> QED BY <1>3, <1>4, <1>5, <1>6 DEF Push

(* The other answers of the chunk still say what they said. *)
LEMMA ResultSurvives ==
    ASSUME Inv, Inv', SpineInv, RemoteStep, Enumerated, NEW h \in Handle,
           UNCHANGED <<snap, in_flight, pendings>>, results'[h] = results[h]
    PROVE  ResultOK(h)'
<1>1. TypeOK /\ TypeOK' /\ ServerInv /\ ResultOK(h) /\ SnapInv
    BY DEF Inv, SpineInv, RunInv
<1>2. snap.checkpoint \in Nat /\ snap.checkpoint <= seq /\ snap' = snap
    BY <1>1 DEF Inv, Phases, Enumerated, ReplicaRemoteSnapshot, SnapInv
<1>3. \A k \in Handle : /\ Newer(k) => Newer(k)'
                        /\ GoneSince(k) => GoneSince(k)'
    BY <1>1, <1>2, NewerSurvives
<1>4. \A k \in Handle, r \in Opt(Nat) : \A o : Moved(k, r, o) => Moved(k, r, o)'
    BY <1>1, <1>2, MovedSurvives
<1>5. IsAccepted(h)' <=> IsAccepted(h)
    BY DEF IsAccepted
<1>6. IsAccepted(h) => /\ results[h].revision \in Opt(Nat)
                       /\ results[h].assigned \in Opt(Handle)
    BY <1>1 DEF IsAccepted, TypeOK, PushResult
<1> QED BY <1>1, <1>3, <1>4, <1>5, <1>6 DEF ResultOK

(* The answer of the remote to a change of h, as it lands. *)
LEMMA AnswerMoves ==
    ASSUME Inv, Inv', SpineInv, pc = "PendingPush", NEW h \in unserved,
           Push(h, in_flight[h]), UNCHANGED <<snap, in_flight, pendings>>
    PROVE  /\ ResultOK(h)'
           /\ in_flight[h].kind = "Update" => Newer(h)' /\ GoneSince(h)'
<1> DEFINE change == in_flight[h]
<1>1. TypeOK /\ TypeOK' /\ ServerInv /\ Enumerated /\ OwedOK(h) /\ SnapInv
      /\ h \in Handle
    BY DEF Inv, SpineInv, RunInv, Enumerated, TypeOK
<1>2. /\ snap.checkpoint \in Nat /\ snap.checkpoint <= seq /\ snap' = snap
      /\ seq \in Nat
    BY <1>1 DEF Inv, Phases, Enumerated, ReplicaRemoteSnapshot, SnapInv, TypeOK
<1>3. change \in ReplicaChange /\ change # None /\ Owed(h) = change
    BY <1>1, MergeAssumption DEF Inv, Phases, OnePushPerHandle, Owed
<1>4. /\ RemoteStep
      /\ change.kind = "SetFlags" =>
            \/ items[h] = None
            \/ items'[h] # None /\ items'[h].seq = seq + 1
      /\ (change.kind = "Remove" /\ results'[h].outcome = "Accepted") =>
            items[h] = None \/ (items'[h] = None /\ gone'[h] = seq + 1)
      /\ change.kind = "Update" =>
            \/ /\ items'[h] # None /\ items'[h].seq = seq + 1
               /\ items'[h].rev = seq + 1 /\ items'[h].body = change.object
               /\ results'[h].revision = RevisionOf(seq + 1)
            \/ /\ items[h] = None \/ Stale(h, change.if_match)
               /\ results'[h].outcome = "Rejected"
      /\ (change.kind = "Add" /\ results'[h].outcome = "Accepted"
              /\ results'[h].assigned # None) =>
            LET k == results'[h].assigned
            IN  /\ k \in ServerHandle
                /\ items'[k] # None /\ items'[k].seq = seq + 1
                /\ items'[k].rev = seq + 1
                /\ change.object # None => items'[k].asked = change.object
                /\ results'[h].revision = RevisionOf(seq + 1)
      /\ seq' \in {seq, seq + 1}
    BY <1>1, <1>3, PushStep
<1> HIDE DEF change
<1>5. ASSUME NEW k \in Handle
      PROVE  /\ Newer(k) => Newer(k)'
             /\ GoneSince(k) => GoneSince(k)'
    BY <1>1, <1>2, <1>4, NewerSurvives
<1>6. ASSUME NEW k \in Handle, items'[k] # None, items'[k].seq = seq + 1
      PROVE  Newer(k)' /\ GoneSince(k)'
    BY <1>2, <1>6 DEF Newer, GoneSince
<1>7. ASSUME NEW k \in ServerHandle, k \in Handle, NEW r, NEW o,
             items'[k] # None, items'[k].seq = seq + 1, items'[k].rev = seq + 1,
             o # None => o \in {items'[k].body, items'[k].asked},
             r = RevisionOf(seq + 1)
      PROVE  Moved(k, r, o)'
    <2>1. seq' = seq + 1
        BY <1>1, <1>2, <1>4, <1>7 DEF RemoteStep, ServerInv, TypeOK, ServerItem
    <2>2. Newer(k)' /\ GoneSince(k)'
        BY <1>6, <1>7
    <2>3. r # None => Mutable /\ r = seq + 1
        BY <1>7 DEF RevisionOf
    <2>4. Past(k, r)' /\ Based(k, r, o)'
        BY <1>2, <1>7, <2>1, <2>3 DEF Past, Based
    <2> QED BY <1>7, <2>2, <2>4 DEF Moved
<1>8. change.kind # "Add" => GoneSince(h)' /\ h \in ServerHandle
    BY <1>1, <1>3, <1>5 DEF OwedOK
<1>9. change.kind = "SetFlags" => Newer(h)'
    <2>1. items[h] = None => Newer(h)
        BY DEF Newer
    <2> QED BY <1>1, <1>4, <1>5, <1>6, <2>1
<1>10. (change.kind = "Remove" /\ results'[h].outcome = "Accepted") => Newer(h)'
    <2>1. items[h] = None => Newer(h)
        BY DEF Newer
    <2>2. items'[h] = None => Newer(h)'
        BY DEF Newer
    <2> QED BY <1>1, <1>4, <1>5, <2>1, <2>2
<1>11. change.kind = "Update" => Newer(h)'
    <2>1. items[h] = None => Newer(h)
        BY DEF Newer
    <2>2. (change.kind = "Update" /\ Stale(h, change.if_match)) => Newer(h)
        BY <1>1, <1>3 DEF OwedOK, Stale
    <2> QED BY <1>1, <1>4, <1>5, <1>6, <2>1, <2>2
<1>12. (change.kind = "Update" /\ results'[h].outcome = "Accepted") =>
        Moved(h, results[h].revision, pending_content_pushes[h].object)'
    <2> SUFFICES ASSUME change.kind = "Update", results'[h].outcome = "Accepted"
                 PROVE  Moved(h, results[h].revision,
                              pending_content_pushes[h].object)'
        OBVIOUS
    <2>1. /\ items'[h] # None /\ items'[h].seq = seq + 1
          /\ items'[h].rev = seq + 1 /\ items'[h].body = change.object
          /\ results'[h].revision = RevisionOf(seq + 1)
        BY <1>4
    <2>2. pending_content_pushes'[h].object = change.object
        BY <1>1, <1>3 DEF OwedOK
    <2>3. h \in ServerHandle /\ h \in Handle
        BY <1>1, <1>8
    <2>4. \A r, o : (r = RevisionOf(seq + 1) /\ o = change.object) =>
            Moved(h, r, o)'
        BY <1>7, <2>1, <2>3
    <2> QED BY <2>1, <2>2, <2>4
<1>13. (change.kind = "Add" /\ results'[h].outcome = "Accepted"
            /\ results'[h].assigned # None) =>
        Moved(results[h].assigned, results[h].revision,
              pending_creates[h].object)'
    <2> SUFFICES ASSUME change.kind = "Add", results'[h].outcome = "Accepted",
                        results'[h].assigned # None
                 PROVE  Moved(results[h].assigned, results[h].revision,
                              pending_creates[h].object)'
        OBVIOUS
    <2>1. pending_creates'[h].object = change.object
        BY <1>1, <1>3 DEF OwedOK
    <2>2. PICK k \in ServerHandle :
            /\ k = results'[h].assigned
            /\ items'[k] # None /\ items'[k].seq = seq + 1
            /\ items'[k].rev = seq + 1
            /\ change.object # None => items'[k].asked = change.object
            /\ results'[h].revision = RevisionOf(seq + 1)
        BY <1>4
    <2>3. \A r, o : (r = RevisionOf(seq + 1) /\ o = change.object) =>
            Moved(k, r, o)'
        BY <1>7, <2>2, HandleFacts
    <2> QED BY <2>1, <2>2, <2>3
<1>14. ResultOK(h)'
    BY <1>8, <1>9, <1>10, <1>12, <1>13 DEF ResultOK, IsAccepted, change
<1> QED BY <1>8, <1>11, <1>14 DEF change

LEMMA ServeSpine ==
    ASSUME Inv, Inv', SpineInv, Serve
    PROVE  SpineInv'
<1>1. PICK h \in Handle : /\ h \in unserved /\ Push(h, in_flight[h])
                          /\ unserved' = unserved \ {h}
    <2>1. Least(unserved) \in unserved /\ Least(unserved) \in Handle
        BY LeastIn, HandleFacts DEF Inv, TypeOK, Serve
    <2> QED BY <2>1 DEF Serve
<1>2. /\ pc = "PendingPush"
      /\ UNCHANGED <<stored, pc, mergeVars, writes, nops, pushes, in_flight,
                     next_checkpoint, pendings, spent>>
    BY DEF Serve
<1>3. in_flight[h] \in ReplicaChange /\ pushes[h] = None
    BY <1>1, MergeAssumption DEF Inv, Phases, OnePushPerHandle
<1>4. RemoteStep /\ results' = [results EXCEPT ![h] = results'[h]]
    BY <1>1, <1>2, <1>3, PushStep DEF Inv, SpineInv
<1>5. /\ ServerInv' /\ RowsInv' /\ CursorInv'
      /\ Enumerated' =>
            /\ SnapInv'
            /\ \A k \in Handle :
                  /\ OwedOK(k)'
                  /\ Covers(k, Row(k), snap.checkpoint) =>
                        Covers(k, Row(k), snap.checkpoint)'
    BY <1>2, <1>4, RemoteKeeps
<1>6. Enumerated /\ Enumerated' /\ RunInv /\ todo = {}
    BY <1>2 DEF Enumerated, SpineInv, PlaceInv
<1>7. PlaceInv'
    <2>1. \A k \in unserved' : results'[k] = None
        BY <1>1, <1>2, <1>4 DEF SpineInv, PlaceInv, Inv, TypeOK
    <2> QED BY <1>2, <1>6, <2>1 DEF SpineInv, PlaceInv
<1>8. /\ ResultOK(h)'
      /\ in_flight[h].kind = "Update" => Newer(h)' /\ GoneSince(h)'
    BY <1>1, <1>2, AnswerMoves
<1>9. snap'.checkpoint \in Nat /\ TypeOK'
    BY <1>2, <1>6 DEF Inv, Phases, Enumerated, ReplicaRemoteSnapshot
<1>10. ASSUME NEW k \in Handle PROVE JoinOK(k)' /\ ResultOK(k)'
    <2>1. JoinOK(k)'
        <3>1. Covers(k, Row(k), snap.checkpoint) \/ Retried(k)
            BY <1>6 DEF RunInv, JoinOK
        <3>2. CASE Covers(k, Row(k), snap.checkpoint)
            BY <1>2, <1>5, <1>6, <3>2 DEF JoinOK
        <3>3. CASE Retried(k) /\ k # h
            BY <1>1, <1>2, <1>6, <3>3 DEF JoinOK, Retried, Owed
        <3>4. CASE Retried(k) /\ k = h
            <4>1. Newer(h)' /\ GoneSince(h)'
                BY <1>3, <1>8, <3>4 DEF Retried, Owed
            <4>2. \A p : Covers(h, p, snap.checkpoint)'
                BY <1>1, <1>9, <4>1 DEF Covers, Newer, GoneSince, TypeOK, ServerItem
            <4> QED BY <1>2, <1>6, <3>4, <4>2 DEF JoinOK
        <3> QED BY <3>1, <3>2, <3>3, <3>4
    <2>2. k # h => results'[k] = results[k]
        BY <1>1, <1>4 DEF Inv, TypeOK
    <2>3. k # h => ResultOK(k)'
        BY <1>2, <1>4, <1>6, <2>2, ResultSurvives
    <2> QED BY <1>8, <2>1, <2>3
<1>11. Cautious'
    BY DEF SpineInv, Cautious
<1> QED BY <1>5, <1>6, <1>7, <1>10, <1>11 DEF SpineInv, RunInv

(* A run that is dropped leaves the store as it is, or as the last batch   *)
(* makes it.                                                               *)
LEMMA EndSpine ==
    ASSUME Inv, Inv', SpineInv, EndRun, UNCHANGED <<items, gone, seq>>,
           writes' = [h \in Handle |-> Keep], results' = None4All,
           checkpoint' # None => checkpoint' <= seq,
           \A h \in Handle : store'[h] \in {store[h], Row(h)},
           checkpoint' # None =>
               \A h \in Handle : Covers(h, store'[h], checkpoint')
    PROVE  SpineInv'
<1>1. ServerInv'
    BY DEF SpineInv, ServerInv
<1>2. \A h \in Handle : Row(h)' = store'[h]
    BY DEF Row, Applied
<1>3. \A h \in Handle : \A p : RowOK(h, p) => RowOK(h, p)'
    BY DEF RowOK, Past, Paired, Based
<1>4. \A h \in Handle : RowOK(h, None)'
    BY DEF RowOK
<1>5. RowsInv'
    BY <1>2, <1>3, <1>4 DEF SpineInv, RowsInv, EndRun, None4All
<1>6. \A h \in Handle : \A p, c : Covers(h, p, c) => Covers(h, p, c)'
    BY DEF Covers
<1>7. CursorInv'
    BY <1>2, <1>6 DEF CursorInv
<1>8. PlaceInv' /\ ~Enumerated'
    BY DEF PlaceInv, EndRun, Enumerated, None4All
<1>9. Cautious'
    BY DEF SpineInv, Cautious
<1> QED BY <1>1, <1>5, <1>7, <1>8, <1>9 DEF SpineInv

(* An answer withheld, or a refusal of no reason: the server is untouched. *)
LEMMA WithheldSpine ==
    ASSUME Inv, Inv', SpineInv, pc = "PendingPush", "refuse" \in Faults \/ unserved = {},
           NEW h \in Handle, NEW result \in {None, Rejected}, Answer(h, result),
           unserved' = unserved \ {h},
           UNCHANGED <<items, gone, seq, stored, pc, mergeVars, writes, pushes,
                       in_flight, next_checkpoint, pendings>>
    PROVE  SpineInv'
<1>1. RemoteStep
    BY DEF RemoteStep
<1>2. /\ ServerInv' /\ RowsInv' /\ CursorInv'
      /\ Enumerated' =>
            /\ SnapInv'
            /\ \A k \in Handle :
                  /\ OwedOK(k)'
                  /\ Covers(k, Row(k), snap.checkpoint) =>
                        Covers(k, Row(k), snap.checkpoint)'
    BY <1>1, RemoteKeeps
<1>3. Enumerated /\ Enumerated' /\ RunInv /\ todo = {}
    BY DEF Enumerated, SpineInv, PlaceInv
<1>4. /\ results'[h] = result
      /\ \A k \in Handle : k # h => results'[k] = results[k]
    BY DEF Answer, Inv, TypeOK
<1>5. PlaceInv'
    <2>1. \A k \in unserved' : results'[k] = None
        BY <1>4 DEF SpineInv, PlaceInv, Inv, TypeOK
    <2> QED BY <1>3, <2>1 DEF SpineInv, PlaceInv
<1>6. ASSUME NEW k \in Handle PROVE JoinOK(k)' /\ ResultOK(k)'
    <2>1. Retried(k) => Retried(k)'
        BY DEF Retried, Owed
    <2>2. JoinOK(k)'
        BY <1>2, <1>3, <2>1 DEF RunInv, JoinOK
    <2>3. k # h => ResultOK(k)'
        BY <1>1, <1>3, <1>4, ResultSurvives
    <2>4. ~IsAccepted(h)'
        BY <1>4 DEF IsAccepted, Rejected
    <2> QED BY <2>2, <2>3, <2>4 DEF ResultOK
<1>7. Cautious'
    BY DEF SpineInv, Cautious
<1> QED BY <1>2, <1>3, <1>5, <1>6, <1>7 DEF SpineInv, RunInv

LEMMA FaultSpine ==
    ASSUME Inv, Inv', SpineInv, Fault
    PROVE  SpineInv'
<1>1. CASE Crash
    <2>1. /\ EndRun /\ results' = None4All /\ writes' = [h \in Handle |-> Keep]
          /\ UNCHANGED <<items, gone, seq, stored>>
        BY <1>1 DEF Crash
    <2>2. checkpoint # None =>
            /\ checkpoint <= seq
            /\ \A h \in Handle : Covers(h, store[h], checkpoint)
        BY DEF SpineInv, ServerInv, CursorInv
    <2> QED BY <2>1, <2>2, EndSpine
<1>2. CASE Refuse
    <2>1. PICK h \in Handle : h \in unserved /\ Answer(h, Rejected)
                              /\ unserved' = unserved \ {h}
        <3>1. Least(unserved) \in unserved /\ Least(unserved) \in Handle
            BY <1>2, LeastIn, HandleFacts DEF Inv, TypeOK, Refuse
        <3> QED BY <1>2, <3>1 DEF Refuse
    <2> QED BY <1>2, <2>1, WithheldSpine DEF Refuse
<1>3. ASSUME NEW h \in Handle, Silence(h) PROVE SpineInv'
    <2>1. unserved' = unserved \ {h}
        BY <1>3 DEF Silence
    <2> QED BY <1>3, <2>1, WithheldSpine DEF Silence
<1> QED BY <1>1, <1>2, <1>3 DEF Fault

--------------------------------------------------------------------------------
(* Starting, enumerating, writing.                                         *)

(* A row says of the server what it said, as long as nothing moves. *)
LEMMA StillServer ==
    ASSUME UNCHANGED <<items, gone, seq>>, NEW h \in Handle, NEW p
    PROVE  /\ RowOK(h, p)' <=> RowOK(h, p)
           /\ \A c : Covers(h, p, c)' <=> Covers(h, p, c)
BY DEF RowOK, Past, Paired, Based, Covers

LEMMA BeginSpine ==
    ASSUME Inv, Inv', SpineInv, NEW o \in Options, Begin(o)
    PROVE  SpineInv'
<1>1. /\ UNCHANGED <<items, gone, seq, results, stored, snap, todo, writes,
                     pushes, in_flight, unserved, next_checkpoint, pendings>>
      /\ local' = store /\ pc' = "PendingEnumerate" /\ pc = "Idle"
    BY DEF Begin
<1>2. \A h \in Handle : Row(h)' = Row(h)
    BY <1>1 DEF Row
<1>3. RowsInv'
    BY <1>1, <1>2, StillServer DEF SpineInv, RowsInv
<1>4. CursorInv'
    BY <1>1, <1>2, StillServer DEF SpineInv, CursorInv
<1>5. ServerInv' /\ Cautious'
    BY <1>1 DEF SpineInv, ServerInv, Cautious
<1>6. PlaceInv' /\ ~Enumerated'
    BY <1>1 DEF SpineInv, PlaceInv, Enumerated, Begin
<1> QED BY <1>3, <1>4, <1>5, <1>6 DEF SpineInv

LEMMA EnumerateSpine ==
    ASSUME Inv, Inv', SpineInv, Enumerate
    PROVE  SpineInv'
<1>1. /\ pc = "PendingEnumerate" /\ pc' = "Joining"
      /\ UNCHANGED <<items, gone, seq, results, stored, local, writes, pushes,
                     in_flight, unserved, next_checkpoint, pendings>>
      /\ todo' = {h \in Handle : local[h] # None \/ snap'.items[h] # None}
    BY DEF Enumerate
<1>2. PICK c : /\ c = (IF opts.full THEN None ELSE checkpoint)
               /\ snap' = Snapshot(c)
    BY DEF Enumerate
<1>3. TypeOK /\ ServerInv /\ RowsInv /\ CursorInv
    BY DEF Inv, SpineInv
<1>4. c = None \/ (c = checkpoint /\ c \in Nat /\ c <= seq)
    BY <1>2, <1>3 DEF TypeOK, ServerInv
<1>5. ASSUME NEW h \in Handle
      PROVE  /\ snap'.items[h] # None =>
                    /\ items[h] # None
                    /\ snap'.items[h].revision = RevisionOf(items[h].rev)
             /\ snap'.items[h] = None =>
                    items[h] = None \/ (c # None /\ ~(items[h].seq > c))
             /\ h \in snap'.vanished <=>
                    c # None /\ items[h] = None /\ gone[h] > c
    <2> DEFINE item == [flags    |-> items[h].flags,
                        revision |-> RevisionOf(items[h].rev)]
    <2>1. snap'.items[h] = IF items[h] # None /\ (c = None \/ items[h].seq > c)
                           THEN item ELSE None
        BY <1>2 DEF Snapshot
    <2>2. h \in snap'.vanished <=> c # None /\ items[h] = None /\ gone[h] > c
        BY <1>2 DEF Snapshot
    <2>3. item.revision = RevisionOf(items[h].rev)
        OBVIOUS
    <2>4. items[h] # None => item # None
        <3>1. items[h] # None => item \in ReplicaRemoteItem
            BY <1>3 DEF TypeOK, ServerItem, RevisionOf, ReplicaRemoteItem
        <3> QED BY <3>1, MergeAssumption
    <2> HIDE DEF item
    <2> QED BY <2>1, <2>2, <2>3, <2>4
<1>6. snap'.checkpoint = seq /\ (snap'.complete <=> c = None)
    BY <1>2 DEF Snapshot
<1>7. ASSUME NEW h \in Handle, items[h] # None
      PROVE  /\ items[h].rev \in Nat /\ items[h].seq \in Nat
             /\ items[h].seq <= seq /\ items[h].rev <= seq /\ h \in ServerHandle
    BY <1>3, <1>7, ItemFacts DEF ServerInv
<1>8. ASSUME NEW h \in Handle
      PROVE  /\ Row(h)' = store[h] /\ local[h] = store[h] /\ Row(h) = store[h]
             /\ local' = local
    BY <1>1 DEF SpineInv, PlaceInv, Enumerated, Row, Applied
<1>9. ASSUME NEW h \in Handle
      PROVE  /\ Newer(h)' <=> items[h] = None
             /\ GoneSince(h)' <=> items[h] # None
    BY <1>1, <1>3, <1>6, <1>7, ItemFacts DEF Newer, GoneSince, ServerInv
<1>10. ASSUME NEW h \in Handle PROVE SnapOK(h)'
    <2>1. CASE items[h] # None
        <3>1. h \notin snap'.vanished
            BY <1>5, <2>1
        <3>2. snap'.items[h] # None =>
                snap'.items[h].revision = RevisionOf(items[h].rev)
            BY <1>5
        <3>3. snap'.items[h] = None => ~snap'.complete /\ items[h].seq <= checkpoint
            BY <1>4, <1>5, <1>6, <1>7, <2>1
        <3>4. snap'.items[h] # None =>
                /\ Mutable => snap'.items[h].revision # None
                /\ Past(h, snap.items[h].revision)'
            BY <1>1, <1>7, <2>1, <3>2, SentinelAssumption DEF RevisionOf, Past
        <3> QED BY <1>1, <1>7, <1>9, <2>1, <3>1, <3>2, <3>3, <3>4 DEF SnapOK, RevisionOf
    <2>2. CASE items[h] = None
        <3>1. snap'.items[h] = None
            BY <1>5, <2>2
        <3>2. snap'.complete \/ h \in snap'.vanished \/ gone[h] <= checkpoint
            BY <1>3, <1>4, <1>5, <1>6, <2>2, ItemFacts
        <3> QED BY <1>1, <1>9, <2>2, <3>1, <3>2 DEF SnapOK
    <2> QED BY <2>1, <2>2
<1>11. ASSUME NEW h \in Handle PROVE LoadedBefore(h)'
    <2> SUFFICES ASSUME Mutable, snap'.items[h] # None, store[h] # None
                 PROVE  /\ store[h].conflict_revision # None =>
                              store[h].conflict_revision <= snap'.items[h].revision
                        /\ (store[h].base # None /\ store[h].base.revision # None) =>
                              store[h].base.revision <= snap'.items[h].revision
        BY <1>8 DEF LoadedBefore
    <2>1. items[h] # None /\ snap'.items[h].revision = items[h].rev
        BY <1>5 DEF RevisionOf
    <2>2. RowOK(h, store[h])
        BY <1>3 DEF RowsInv
    <2> QED BY <2>1, <2>2 DEF RowOK, Past
<1>12. SnapInv'
    <2>1. ~snap'.complete => checkpoint # None
        BY <1>2, <1>6
    <2>2. checkpoint # None => checkpoint <= seq
        BY <1>3 DEF ServerInv
    <2> QED BY <1>1, <1>3, <1>6, <1>10, <1>11, <2>1, <2>2, ItemFacts DEF SnapInv
<1>13. ASSUME NEW h \in Handle PROVE JoinOK(h)'
    <2>1. (h \in todo /\ h \in ServerHandle)' => Row(h)' = local'[h]
        BY <1>8
    <2>2. h \notin todo' => Covers(h, Row(h), snap.checkpoint)'
        <3> SUFFICES ASSUME h \notin todo' PROVE Covers(h, Row(h), snap.checkpoint)'
            OBVIOUS
        <3>1. store[h] = None /\ snap'.items[h] = None
            BY <1>1, <1>8
        <3>2. items[h] = None
            <4> SUFFICES ASSUME items[h] # None PROVE FALSE
                OBVIOUS
            <4>1. checkpoint # None /\ items[h].seq <= checkpoint
                BY <1>4, <1>5, <1>7, <3>1, SentinelAssumption
            <4> QED BY <1>3, <3>1, <4>1 DEF CursorInv, Covers
        <3> QED BY <1>1, <1>8, <3>1, <3>2 DEF Covers
    <2> QED BY <2>1, <2>2 DEF JoinOK
<1>14. ASSUME NEW h \in Handle PROVE OwedOK(h)' /\ ResultOK(h)'
    <2>1. pushes'[h] = None /\ in_flight'[h] = None
        BY <1>1 DEF Inv, Phases
    <2> QED BY <2>1 DEF OwedOK, ResultOK, IsAccepted, Owed
<1>15. RowsInv'
    BY <1>1, <1>3, <1>8, StillServer DEF RowsInv
<1>16. CursorInv'
    BY <1>1, <1>3, <1>8, StillServer DEF CursorInv
<1>17. ServerInv' /\ Cautious'
    BY <1>1 DEF SpineInv, ServerInv, Cautious
<1>18. PlaceInv'
    BY <1>1 DEF SpineInv, PlaceInv, Enumerated, Enumerate
<1> QED BY <1>12, <1>13, <1>14, <1>15, <1>16, <1>17, <1>18 DEF SpineInv, RunInv

(* The run moves on: what the rows will be, and what it owes, stay.        *)
LEMMA RowsStay ==
    ASSUME Inv, Inv', SpineInv, Enumerated,
           UNCHANGED <<items, gone, seq, results, checkpoint, local, snap, todo,
                       pendings>>,
           \A h \in Handle :
               /\ store'[h] \in {store[h], Row(h)} /\ Row(h)' = Row(h)
               /\ Owed(h)' = Owed(h)
               /\ Retried(h) => Retried(h)'
               /\ results[h] = None
    PROVE  ServerInv' /\ RowsInv' /\ CursorInv' /\ RunInv' /\ Cautious'
<1>1. ServerInv /\ RowsInv /\ CursorInv /\ RunInv
    BY DEF SpineInv
<1>2. ServerInv' /\ Cautious'
    BY DEF SpineInv, ServerInv, Cautious
<1>3. RowsInv'
    BY <1>1, StillServer DEF RowsInv
<1>4. CursorInv'
    BY <1>1, StillServer DEF CursorInv
<1>5. SnapInv'
    BY <1>1 DEF RunInv, SnapInv, SnapOK, LoadedBefore, Newer, GoneSince, Past
<1>6. ASSUME NEW h \in Handle PROVE JoinOK(h)' /\ OwedOK(h)' /\ ResultOK(h)'
    <2>1. JoinOK(h) /\ OwedOK(h)
        BY <1>1 DEF RunInv
    <2>2. JoinOK(h)'
        BY <2>1, StillServer DEF JoinOK
    <2>3. OwedOK(h)'
        BY <2>1 DEF OwedOK, Newer, GoneSince
    <2>4. ResultOK(h)'
        BY DEF ResultOK, IsAccepted
    <2> QED BY <2>2, <2>3, <2>4
<1> QED BY <1>2, <1>3, <1>4, <1>5, <1>6 DEF RunInv

LEMMA WriteRows ==
    ASSUME WriteBatch, NEW h \in Handle
    PROVE  store'[h] = Row(h) /\ Row(h)' = Row(h)
<1>1. store'[h] = Row(h)
    BY DEF WriteBatch, Row, Applied
<1>2. Row(h)' = store'[h]
    BY DEF WriteBatch, Row, Applied
<1> QED BY <1>1, <1>2

LEMMA MergeWriteSpine ==
    ASSUME Inv, Inv', SpineInv, MergeWrite
    PROVE  SpineInv'
<1>1. /\ pc = "Merging" /\ pc' = "Joining" /\ WriteBatch
      /\ UNCHANGED <<remoteVars, mergeVars, pushes, in_flight, unserved,
                     next_checkpoint, pendings>>
    BY DEF MergeWrite
<1>2. Enumerated /\ Enumerated'
    BY <1>1 DEF Enumerated
<1>3. checkpoint' = checkpoint /\ \A h \in Handle : results[h] = None
    BY <1>1 DEF SpineInv, PlaceInv, WriteBatch, CheckpointDue
<1>4. \A h \in Handle : Owed(h)' = Owed(h) /\ (Retried(h) => Retried(h)')
    BY <1>1 DEF Owed, Retried
<1>5. ServerInv' /\ RowsInv' /\ CursorInv' /\ RunInv' /\ Cautious'
    BY <1>1, <1>2, <1>3, <1>4, RowsStay, WriteRows
<1>6. PlaceInv'
    BY <1>1, <1>2 DEF SpineInv, PlaceInv
<1> QED BY <1>5, <1>6 DEF SpineInv

(* ReplicaSync::step keeps what is owed, queued or on the wire. *)
LEMMA StepOwes ==
    ASSUME Inv, Step, pc # "PendingPush", unserved = {}
    PROVE  /\ pc' \in {"PendingPush", "PendingWrite"}
           /\ pc' = "PendingWrite" => unserved' = {}
           /\ \A h \in Handle : /\ Owed(h)' = Owed(h)
                                /\ Retried(h) => Retried(h)'
<1>1. \A h \in Handle : in_flight[h] = None
    BY DEF Inv, Phases
<1>2. CASE pushes = None4All
    BY <1>2 DEF Step, Owed, Retried
<1>3. CASE pushes # None4All
    <2>1. /\ \A h \in Handle :
                /\ pushes'[h] = IF h \in NextChunk THEN None ELSE pushes[h]
                /\ in_flight'[h] = IF h \in NextChunk THEN pushes[h] ELSE None
          /\ unserved' = NextChunk /\ pc' = "PendingPush"
        BY <1>3 DEF Step
    <2>2. \A h \in NextChunk : pushes[h] # None
        BY DEF NextChunk
    <2> QED BY <1>1, <2>1, <2>2 DEF Owed, Retried
<1> QED BY <1>2, <1>3

LEMMA MergeEndSpine ==
    ASSUME Inv, Inv', SpineInv, MergeEnd
    PROVE  SpineInv'
<1>1. /\ pc = "Joining" /\ todo = {} /\ next_checkpoint' = snap.checkpoint /\ Step
      /\ UNCHANGED <<remoteVars, stored, mergeVars, writes, pendings>>
    BY DEF MergeEnd
<1>2. Enumerated /\ unserved = {} /\ \A h \in Handle : results[h] = None
    BY <1>1 DEF Enumerated, SpineInv, PlaceInv
<1>3. /\ pc' \in {"PendingPush", "PendingWrite"}
      /\ pc' = "PendingWrite" => unserved' = {}
      /\ \A h \in Handle : /\ Owed(h)' = Owed(h)
                           /\ Retried(h) => Retried(h)'
    BY <1>1, <1>2, StepOwes
<1>4. \A h \in Handle : Row(h)' = Row(h)
    BY <1>1 DEF Row
<1>5. ServerInv' /\ RowsInv' /\ CursorInv' /\ RunInv' /\ Cautious'
    BY <1>1, <1>2, <1>3, <1>4, RowsStay
<1>6. PlaceInv'
    BY <1>1, <1>2, <1>3 DEF SpineInv, PlaceInv, Enumerated, Inv, TypeOK
<1> QED BY <1>5, <1>6 DEF SpineInv

LEMMA ChunkWriteSpine ==
    ASSUME Inv, Inv', SpineInv, ChunkWrite
    PROVE  SpineInv'
<1>1. /\ pc = "PendingWrite" /\ pushes # None4All /\ WriteBatch /\ Step
      /\ UNCHANGED <<remoteVars, mergeVars, next_checkpoint, pendings>>
    BY DEF ChunkWrite
<1>2. Enumerated /\ unserved = {} /\ \A h \in Handle : results[h] = None
    BY <1>1 DEF Enumerated, SpineInv, PlaceInv
<1>3. /\ pc' \in {"PendingPush", "PendingWrite"}
      /\ pc' = "PendingWrite" => unserved' = {}
      /\ \A h \in Handle : /\ Owed(h)' = Owed(h)
                           /\ Retried(h) => Retried(h)'
    BY <1>1, <1>2, StepOwes
<1>4. checkpoint' = checkpoint
    BY <1>1 DEF WriteBatch, CheckpointDue
<1>5. ServerInv' /\ RowsInv' /\ CursorInv' /\ RunInv' /\ Cautious'
    BY <1>1, <1>2, <1>3, <1>4, RowsStay, WriteRows
<1>6. PlaceInv'
    BY <1>1, <1>2, <1>3 DEF SpineInv, PlaceInv, Enumerated, Inv, TypeOK
<1> QED BY <1>5, <1>6 DEF SpineInv

(* The cursor lands with the last write: nothing is owed any more, so the  *)
(* rows hold all that the snapshot listed.                                 *)
LEMMA LastWriteSpine ==
    ASSUME Inv, Inv', SpineInv, LastWrite
    PROVE  SpineInv'
<1>1. /\ pc = "PendingWrite" /\ pushes = None4All /\ WriteBatch /\ EndRun
      /\ UNCHANGED remoteVars
    BY DEF LastWrite
<1>2. /\ Enumerated /\ unserved = {} /\ todo = {} /\ results = None4All
      /\ next_checkpoint = snap.checkpoint
    BY <1>1 DEF Enumerated, SpineInv, PlaceInv, Inv, TypeOK, None4All
<1>3. snap.checkpoint \in Nat /\ snap.checkpoint # None /\ snap.checkpoint <= seq
    BY <1>2, SentinelAssumption
       DEF Inv, Phases, Enumerated, ReplicaRemoteSnapshot, SpineInv, RunInv, SnapInv
<1>4. checkpoint' = snap.checkpoint
    BY <1>1, <1>2, <1>3 DEF WriteBatch, CheckpointDue
<1>5. ASSUME NEW h \in Handle PROVE Covers(h, Row(h), snap.checkpoint)
    <2>1. ~Retried(h)
        BY <1>1, <1>2 DEF Retried, None4All
    <2> QED BY <1>2, <2>1 DEF SpineInv, RunInv, JoinOK
<1>6. writes' = [h \in Handle |-> Keep]
    BY <1>1 DEF WriteBatch
<1> QED BY <1>1, <1>2, <1>3, <1>4, <1>5, <1>6, EndSpine, WriteRows

--------------------------------------------------------------------------------
(* The outcomes of a chunk.                                                *)

LEMMA OpRow ==
    ASSUME NEW k \in Handle
    PROVE  /\ \A q \in ReplicaPlacement : writes'[k] = Upsert(q) => Row(k)' = q
           /\ \A why \in DropReason : writes'[k] = Drop(why) => Row(k)' = None
           /\ (writes'[k] = writes[k] /\ store' = store) => Row(k)' = Row(k)
<1>1. \A q \in ReplicaPlacement :
        /\ Upsert(q) # Keep /\ Upsert(q).op = "UpsertPlacement"
        /\ Upsert(q).row = q
    BY OpTypes, MergeAssumption DEF Upsert
<1>2. \A why \in DropReason : Drop(why) # Keep /\ Drop(why).op = "DropPlacement"
    BY OpTypes, MergeAssumption DEF Drop
<1> QED BY <1>1, <1>2 DEF Row, Applied

(* An accepted outcome, the kind of its change and the row it came from. *)
LEMMA AcceptedFacts ==
    ASSUME Inv, SpineInv, pc = "PendingPush", NEW h \in Handle, IsAccepted(h)
    PROVE  /\ Owed(h) = in_flight[h] /\ OwedOK(h) /\ ResultOK(h)
           /\ pending_creates[h] # None <=> in_flight[h].kind = "Add"
           /\ h \in pending_drops <=> in_flight[h].kind = "Remove"
           /\ pending_content_pushes[h] # None <=> in_flight[h].kind = "Update"
           /\ pending_flag_pushes[h] # None <=> in_flight[h].kind = "SetFlags"
           /\ in_flight[h].kind \in {"SetFlags", "Remove", "Update", "Add"}
           /\ results[h].revision \in Opt(Nat)
<1>1. in_flight[h] # None /\ pushes[h] = None /\ in_flight[h] \in ReplicaChange
    BY DEF IsAccepted, Inv, OnePushPerHandle, TypeOK
<1>2. OwedOK(h) /\ ResultOK(h)
    BY DEF SpineInv, RunInv, Enumerated
<1>3. in_flight[h].kind \in {"SetFlags", "Remove", "Update", "Add"}
    BY <1>1 DEF ReplicaChange
<1>4. results[h].revision \in Opt(Nat)
    BY DEF IsAccepted, Inv, TypeOK, PushResult
<1> QED BY <1>1, <1>2, <1>3, <1>4 DEF Inv, OnePushPerHandle, Owed

(* A row whose base pins an accepted change. *)
LEMMA PinnedRow ==
    ASSUME NEW k \in Handle, NEW q \in ReplicaPlacement, NEW r, NEW o,
           Moved(k, r, o), q.conflict_revision = None, q.status # "Conflict",
           q.base # None, q.base.revision = r, q.base.object = o
    PROVE  RowOK(k, q)
BY DEF Moved, RowOK, Shape, Past, Paired, Based

LEMMA PlacedRow ==
    ASSUME Inv, SpineInv, PushOutcomes, NEW k \in Handle, PlacedAt(k) # {}
    PROVE  /\ Newer(k) /\ GoneSince(k)
           /\ \E q \in ReplicaPlacement : writes'[k] = Upsert(q) /\ RowOK(k, q)
<1>1. PICK h \in PlacedAt(k) : h = Least(PlacedAt(k))
    BY LeastIn, HandleFacts DEF PlacedAt
<1> DEFINE p == pending_creates[h]
           r == results[h].revision
           q == RekeyCreate(p, r)
<1>2. /\ h \in Handle /\ IsAccepted(h) /\ p # None /\ results[h].assigned = k
      /\ k # None
    BY <1>1, RemoteAssumption DEF PlacedAt
<1>3. /\ in_flight[h].kind = "Add" /\ OwedOK(h) /\ ResultOK(h)
      /\ Owed(h) = in_flight[h] /\ r \in Opt(Nat)
    BY <1>2, AcceptedFacts DEF PushOutcomes
<1>4. Moved(k, r, p.object)
    BY <1>2, <1>3 DEF ResultOK
<1>5. p \in ReplicaPlacement /\ RowOK(h, p) /\ p.status = "Created"
    BY <1>2, <1>3 DEF Inv, TypeOK, SpineInv, RowsInv, OwedOK, IsAccepted
<1>6. q \in ReplicaPlacement
    BY <1>3, <1>5, RekeyCreateType
<1>7. /\ q.conflict_revision = p.conflict_revision /\ q.status = "Clean"
      /\ q.base = [flags |-> p.flags, revision |-> r, object |-> p.object]
    BY <1>5 DEF RekeyCreate, ReplicaPlacement
<1>8. q.base # None /\ q.base.revision = r /\ q.base.object = p.object
    <2>1. q.base \in ReplicaBase
        BY <1>3, <1>5, <1>7 DEF ReplicaBase, ReplicaPlacement
    <2> QED BY <1>7, <2>1, SentinelAssumption
<1>9. p.conflict_revision = None
    BY <1>2, <1>5 DEF RowOK, Shape
<1>10. RowOK(k, q)
    BY <1>4, <1>6, <1>7, <1>8, <1>9, PinnedRow
<1>11. writes'[k] = Upsert(q)
    BY <1>1 DEF PushOutcomes
<1> HIDE DEF q
<1> QED BY <1>4, <1>6, <1>10, <1>11 DEF Moved

LEMMA ConfirmedRow ==
    ASSUME Inv, SpineInv, pc = "PendingPush", NEW k \in Handle, IsAccepted(k)
    PROVE  /\ Newer(k)
           /\ \/ \E why \in DropReason : Confirmed(k) = Drop(why)
              \/ /\ GoneSince(k)
                 /\ \E q \in ReplicaPlacement : Confirmed(k) = Upsert(q) /\ RowOK(k, q)
<1>1. /\ Owed(k) = in_flight[k] /\ OwedOK(k) /\ ResultOK(k)
      /\ pending_creates[k] # None <=> in_flight[k].kind = "Add"
      /\ k \in pending_drops <=> in_flight[k].kind = "Remove"
      /\ pending_content_pushes[k] # None <=> in_flight[k].kind = "Update"
      /\ pending_flag_pushes[k] # None <=> in_flight[k].kind = "SetFlags"
      /\ in_flight[k].kind \in {"SetFlags", "Remove", "Update", "Add"}
      /\ results[k].revision \in Opt(Nat) /\ in_flight[k] # None
    BY AcceptedFacts DEF IsAccepted
<1>2. CASE in_flight[k].kind = "Add"
    <2>1. Confirmed(k) = Drop("Superseded") /\ "Superseded" \in DropReason
        BY <1>1, <1>2 DEF Confirmed, DropReason
    <2> QED BY <1>1, <1>2, <2>1 DEF OwedOK
<1>3. CASE in_flight[k].kind = "Remove"
    <2>1. Confirmed(k) = Drop("Deleted") /\ "Deleted" \in DropReason
        BY <1>1, <1>3 DEF Confirmed, DropReason
    <2> QED BY <1>1, <1>3, <2>1 DEF ResultOK
<1>4. CASE in_flight[k].kind = "Update"
    <2> DEFINE p == pending_content_pushes[k]
               r == results[k].revision
               q == RebaseContent(p, r)
    <2>1. p # None /\ p \in ReplicaPlacement /\ RowOK(k, p)
        BY <1>1, <1>4 DEF Inv, TypeOK, SpineInv, RowsInv
    <2>2. Moved(k, r, p.object) /\ p.conflict_revision = None
        BY <1>1, <1>4 DEF ResultOK, OwedOK
    <2>3. q \in ReplicaPlacement
        BY <1>1, <2>1, RebaseContentType
    <2> DEFINE flags == IF p.base = None THEN {} ELSE p.base.flags
               b     == [flags |-> flags, revision |-> r, object |-> p.object]
    <2>4. /\ q.conflict_revision = p.conflict_revision
          /\ q.status # "Conflict" /\ q.base = b
        BY <2>1 DEF RebaseContent, ReplicaPlacement
    <2>5. b.revision = r /\ b.object = p.object
        OBVIOUS
    <2>6. b # None
        <3>1. flags \in ReplicaFlags
            BY <2>1 DEF ReplicaPlacement, ReplicaBase, ReplicaFlags
        <3>2. b \in ReplicaBase
            BY <1>1, <2>1, <3>1 DEF ReplicaBase, ReplicaPlacement
        <3> QED BY <3>2, SentinelAssumption
    <2>7. Confirmed(k) = Upsert(q)
        BY <1>1, <1>4 DEF Confirmed
    <2> HIDE DEF q, b
    <2>8. RowOK(k, q)
        BY <2>2, <2>3, <2>4, <2>5, <2>6, PinnedRow
    <2> QED BY <2>2, <2>3, <2>7, <2>8 DEF Moved
<1>5. CASE in_flight[k].kind = "SetFlags"
    <2> DEFINE p == pending_flag_pushes[k]
               q == Rebase(p, p.flags)
    <2>1. p # None /\ p \in ReplicaPlacement /\ RowOK(k, p) /\ Shape(p)
        BY <1>1, <1>5 DEF Inv, TypeOK, SpineInv, RowsInv, RowOK
    <2>2. p.status # "Tombstone" /\ k \in ServerHandle /\ p.flags \in ReplicaFlags
        BY <1>1, <1>5, <2>1 DEF OwedOK, ReplicaPlacement
    <2>3. /\ q \in ReplicaPlacement /\ q.base # None
          /\ SameVersion(q, p) /\ Shape(q)
        BY <2>1, <2>2, FlagRewriteFacts
    <2>4. Confirmed(k) = Upsert(q)
        BY <1>1, <1>5 DEF Confirmed
    <2> HIDE DEF q
    <2>5. RowOK(k, q)
        BY <2>1, <2>2, <2>3 DEF RowOK, SameVersion, Past, Paired, Based
    <2> QED BY <1>1, <1>5, <2>3, <2>4, <2>5 DEF ResultOK
<1> QED BY <1>1, <1>2, <1>3, <1>4, <1>5

(* What a chunk's outcomes leave of a row. *)
LEMMA OutcomeRow ==
    ASSUME Inv, SpineInv, PushOutcomes, NEW k \in Handle
    PROVE  \E q : /\ Row(k)' = q /\ RowOK(k, q)
                  /\ q = Row(k) \/ (Newer(k) /\ (GoneSince(k) \/ q = None))
<1>1. pc = "PendingPush" /\ store' = store
    BY DEF PushOutcomes
<1>2. CASE PlacedAt(k) # {}
    BY <1>2, PlacedRow, OpRow
<1>3. CASE PlacedAt(k) = {} /\ IsAccepted(k)
    <2>1. writes'[k] = Confirmed(k)
        BY <1>3 DEF PushOutcomes
    <2>2. RowOK(k, None)
        BY DEF RowOK
    <2> QED BY <1>1, <1>3, <2>1, <2>2, ConfirmedRow, OpRow
<1>4. CASE PlacedAt(k) = {} /\ ~IsAccepted(k)
    <2>1. writes'[k] = writes[k]
        BY <1>4 DEF PushOutcomes
    <2>2. RowOK(k, Row(k))
        BY DEF SpineInv, RowsInv
    <2> QED BY <1>1, <2>1, <2>2, OpRow
<1> QED BY <1>2, <1>3, <1>4

LEMMA PushOutcomesSpine ==
    ASSUME Inv, Inv', SpineInv, PushOutcomes
    PROVE  SpineInv'
<1>1. /\ pc = "PendingPush" /\ pc' = "PendingWrite" /\ unserved = {}
      /\ in_flight' = None4All /\ results' = None4All
      /\ UNCHANGED <<items, gone, seq, stored, mergeVars, pushes, unserved,
                     next_checkpoint>>
    BY DEF PushOutcomes
<1>2. /\ ServerInv /\ RowsInv /\ CursorInv /\ RunInv /\ SnapInv /\ Enumerated
      /\ todo = {} /\ next_checkpoint = snap.checkpoint
    BY <1>1 DEF SpineInv, Enumerated, RunInv, PlaceInv
<1>3. /\ snap.checkpoint \in Nat
      /\ checkpoint # None => checkpoint \in Nat /\ checkpoint <= snap.checkpoint
    BY <1>2 DEF Inv, Phases, Enumerated, ReplicaRemoteSnapshot, SnapInv, TypeOK
<1>4. ASSUME NEW k \in Handle, NEW c \in Nat, c <= snap.checkpoint, NEW q,
             Newer(k), GoneSince(k) \/ q = None
      PROVE  Covers(k, q, c)
    BY <1>3, <1>4, ItemFacts DEF Inv, Covers, Newer, GoneSince
<1>5. ServerInv' /\ Cautious'
    BY <1>1 DEF SpineInv, ServerInv, Cautious
<1>6. ASSUME NEW k \in Handle
      PROVE  /\ pending_flag_pushes'[k] \in {None, pending_flag_pushes[k]}
             /\ pending_content_pushes'[k] \in {None, pending_content_pushes[k]}
             /\ pending_creates'[k] \in {None, pending_creates[k]}
             /\ in_flight[k] = None =>
                   /\ pending_flag_pushes'[k] = pending_flag_pushes[k]
                   /\ pending_content_pushes'[k] = pending_content_pushes[k]
                   /\ pending_creates'[k] = pending_creates[k]
    BY DEF PushOutcomes, Forget
<1>7. RowsInv'
    <2> SUFFICES ASSUME NEW k \in Handle PROVE RowsInv!(k)'
        BY DEF RowsInv
    <2>1. RowOK(k, Row(k))'
        BY <1>1, OutcomeRow, StillServer
    <2>2. RowOK(k, None)'
        BY DEF RowOK
    <2> QED BY <1>1, <1>2, <1>6, <2>1, <2>2, StillServer DEF RowsInv
<1>8. CursorInv'
    <2> SUFFICES ASSUME checkpoint # None, NEW k \in Handle
                 PROVE  /\ Covers(k, store[k], checkpoint)'
                        /\ Covers(k, Row(k), checkpoint)'
        BY <1>1 DEF CursorInv
    <2>1. /\ Covers(k, store[k], checkpoint) /\ Covers(k, Row(k), checkpoint)
          /\ checkpoint \in Nat /\ checkpoint <= snap.checkpoint
        BY <1>2, <1>3 DEF CursorInv
    <2>2. PICK q : /\ Row(k)' = q
                   /\ q = Row(k) \/ (Newer(k) /\ (GoneSince(k) \/ q = None))
        BY OutcomeRow
    <2>3. Covers(k, q, checkpoint)
        BY <1>4, <2>1, <2>2
    <2> QED BY <1>1, <2>1, <2>2, <2>3, StillServer
<1>9. ASSUME NEW k \in Handle PROVE JoinOK(k)' /\ OwedOK(k)' /\ ResultOK(k)'
    <2>1. JoinOK(k) /\ OwedOK(k)
        BY <1>2 DEF RunInv
    <2>2. pushes[k] # None => /\ in_flight[k] = None
                              /\ Owed(k)' = Owed(k)
        BY <1>1 DEF Inv, OnePushPerHandle, Owed
    <2>3. pushes[k] = None => Owed(k)' = None
        BY <1>1 DEF Owed, None4All
    <2>4. JoinOK(k)'
        <3>1. PICK q : /\ Row(k)' = q
                       /\ q = Row(k) \/ (Newer(k) /\ (GoneSince(k) \/ q = None))
            BY OutcomeRow
        <3>2. Covers(k, q, snap.checkpoint) \/ Retried(k)
            BY <1>2, <1>3, <1>4, <2>1, <3>1 DEF JoinOK
        <3>3. Retried(k) => Retried(k)'
            BY <1>1, <2>2 DEF Retried
        <3> QED BY <1>1, <1>2, <3>1, <3>2, <3>3, StillServer DEF JoinOK
    <2>5. OwedOK(k)'
        BY <1>1, <1>6, <2>1, <2>2, <2>3 DEF OwedOK, Newer, GoneSince
    <2>6. ResultOK(k)'
        BY <1>1 DEF ResultOK, IsAccepted, None4All
    <2> QED BY <2>4, <2>5, <2>6
<1>10. SnapInv'
    BY <1>1, <1>2 DEF SnapInv, SnapOK, LoadedBefore, Newer, GoneSince, Past
<1>11. PlaceInv'
    BY <1>1, <1>2 DEF SpineInv, PlaceInv, Enumerated, None4All
<1> QED BY <1>5, <1>7, <1>8, <1>9, <1>10, <1>11 DEF SpineInv, RunInv

--------------------------------------------------------------------------------
(* The user's mutations, between runs.                                     *)

LEMMA MutateSpine ==
    ASSUME Inv, Inv', SpineInv, NEW op, Mutate(op), NEW h \in Handle, NEW q,
           store' = [store EXCEPT ![h] = q], RowOK(h, q),
           checkpoint # None => Covers(h, q, checkpoint)
    PROVE  SpineInv'
<1>1. /\ pc = "Idle" /\ UNCHANGED <<remoteVars, checkpoint, runVars>>
      /\ store \in [Handle -> Opt(ReplicaPlacement)]
    BY DEF Mutate, Inv, TypeOK
<1>2. \A k \in Handle : /\ store'[k] = IF k = h THEN q ELSE store[k]
                        /\ Row(k)' = store'[k]
    BY <1>1 DEF SpineInv, PlaceInv, Enumerated, Row, Applied
<1>3. RowsInv'
    BY <1>1, <1>2, StillServer DEF SpineInv, RowsInv
<1>4. CursorInv'
    BY <1>1, <1>2, StillServer DEF SpineInv, CursorInv
<1>5. ServerInv' /\ Cautious'
    BY <1>1 DEF SpineInv, ServerInv, Cautious
<1>6. PlaceInv' /\ ~Enumerated'
    BY <1>1 DEF SpineInv, PlaceInv, Enumerated
<1> QED BY <1>3, <1>4, <1>5, <1>6 DEF SpineInv

(* A mutation that leaves what the row knows of the remote. *)
LEMMA SameKnowledge ==
    ASSUME NEW h \in Handle, NEW p, NEW q, p # None, RowOK(h, p), Shape(q),
           q.conflict_revision = p.conflict_revision,
           q.conflict_object = p.conflict_object, q.base = p.base,
           q.object = None => p.object = None, q # None
    PROVE  /\ RowOK(h, q)
           /\ \A c : Covers(h, p, c) => Covers(h, q, c)
BY DEF RowOK, Covers, KnownRevision

(* ReplicaMutation::Edit: a conflict resolved moves the base to the version *)
(* it was with, which is the one the row knew.                             *)
LEMMA EditKnows ==
    ASSUME NEW h \in Handle, NEW p \in ReplicaPlacement, RowOK(h, p),
           p.status # "Tombstone", NEW object \in Body, NEW meta \in Opt(ReplicaMeta)
    PROVE  /\ RowOK(h, EditMutation(p, object, meta))
           /\ \A c : Covers(h, p, c) => Covers(h, EditMutation(p, object, meta), c)
<1> DEFINE q       == EditMutation(p, object, meta)
           settled == [flags    |-> IF p.base = None THEN p.flags
                                    ELSE p.base.flags,
                       revision |-> p.conflict_revision,
                       object   |-> p.conflict_object]
<1>1. q \in ReplicaPlacement /\ p # None /\ q # None
    BY EditType, SentinelAssumption
<1>2. /\ q.object = object
      /\ q.base = IF p.status = "Conflict" THEN settled ELSE p.base
      /\ q.conflict_revision = IF p.status = "Conflict" THEN None
                               ELSE p.conflict_revision
      /\ q.conflict_object = IF p.status = "Conflict" THEN None
                             ELSE p.conflict_object
      /\ p.status = "Conflict" => q.status = "Dirty"
      /\ p.status # "Conflict" => q.status \in {p.status, "Dirty"}
    BY DEF EditMutation, ReplicaPlacement
<1>3. settled.revision = p.conflict_revision /\ settled.object = p.conflict_object
    OBVIOUS
<1>4. settled # None
    <2>1. settled \in ReplicaBase
        BY DEF ReplicaPlacement, ReplicaBase
    <2> QED BY <2>1, SentinelAssumption
<1> HIDE DEF q, settled
<1>5. CASE p.status = "Conflict"
    <2>1. p.conflict_revision # None /\ p.base # None
        BY <1>1, <1>5 DEF RowOK, Shape
    <2>2. RowOK(h, q)
        BY <1>1, <1>2, <1>3, <1>4, <1>5, <2>1 DEF RowOK, Shape, Past, Paired, Based
    <2>3. \A c : Covers(h, p, c) => Covers(h, q, c)
        BY <1>1, <1>2, <1>3, <1>4, <1>5, <2>1 DEF Covers, KnownRevision
    <2> QED BY <2>2, <2>3 DEF q
<1>6. CASE p.status # "Conflict"
    <2>1. p.conflict_revision = None
        BY <1>1, <1>6 DEF RowOK, Shape
    <2>2. Shape(q)
        BY <1>2, <1>6, <2>1 DEF Shape
    <2>3. q.object # None
        BY <1>2, SentinelAssumption
    <2> QED BY <1>1, <1>2, <1>6, <2>2, <2>3, SameKnowledge DEF q
<1> QED BY <1>5, <1>6

(* A create staged under a placeholder. *)
LEMMA CreateKnows ==
    ASSUME SpineInv, NEW h \in Provisional, NEW q, q.status = "Created",
           q.base = None, q.conflict_revision = None
    PROVE  h \in Handle /\ RowOK(h, q) /\ \A c : Covers(h, q, c)
<1>1. h \in Handle /\ h \notin ServerHandle
    BY SyncAssumption
<1>2. items[h] = None
    BY <1>1 DEF SpineInv, ServerInv
<1> QED BY <1>1, <1>2 DEF RowOK, Shape, Past, Paired, Based, Covers

LEMMA UserSpine ==
    ASSUME Inv, Inv', SpineInv, User
    PROVE  SpineInv'
<1>1. ASSUME NEW h \in Handle, Target(h)
      PROVE  /\ store[h] \in ReplicaPlacement /\ store[h] # None
             /\ RowOK(h, store[h]) /\ Shape(store[h])
             /\ checkpoint # None => Covers(h, store[h], checkpoint)
    BY <1>1 DEF Inv, TypeOK, Target, SpineInv, RowsInv, CursorInv, RowOK
<1>2. PICK h \in Handle :
        \/ \E flags \in SUBSET Flag : UserSetFlags(h, flags)
        \/ UserRemove(h)
        \/ UserEdit(h)
        \/ \E link \in Authored : UserAdd(h, link)
        \/ \E destination \in Origin : UserMove(h, destination)
        \/ \E flags \in SUBSET Flag, object \in Opt(Body), origin \in Origin :
              UserCopy(h, CopySource(flags, object), origin)
    BY DEF User
<1>3. ASSUME NEW op, Mutate(op), Target(h), NEW q \in ReplicaPlacement, Shape(q),
             store' = [store EXCEPT ![h] = q],
             q.conflict_revision = store[h].conflict_revision,
             q.conflict_object = store[h].conflict_object,
             q.base = store[h].base, q.object = store[h].object
      PROVE  SpineInv'
    <2>1. q # None
        BY SentinelAssumption
    <2>2. RowOK(h, q) /\ \A c : Covers(h, store[h], c) => Covers(h, q, c)
        BY <1>1, <1>3, <2>1, SameKnowledge
    <2> QED BY <1>1, <1>3, <2>2, MutateSpine
<1>4. ASSUME NEW flags \in SUBSET Flag, UserSetFlags(h, flags) PROVE SpineInv'
    <2> DEFINE p == store[h]
               q == SetFlagsMutation(p, flags)
    <2>1. /\ p \in ReplicaPlacement /\ Shape(p) /\ Target(h) /\ Mutate("SetFlags")
          /\ flags \in ReplicaFlags
        BY <1>1, <1>4 DEF UserSetFlags, ReplicaFlags
    <2>2. store' = [store EXCEPT ![h] = q]
        BY <1>4 DEF UserSetFlags
    <2> HIDE DEF p
    <2>3. /\ q \in ReplicaPlacement
          /\ q.conflict_revision = p.conflict_revision
          /\ q.conflict_object = p.conflict_object /\ q.base = p.base
          /\ q.object = p.object
          /\ q.status \in {p.status, "Dirty"}
          /\ q.status = "Dirty" => p.status \in {"Clean", "Dirty"}
        <3> DEFINE status == IF p.status = "Clean" THEN "Dirty" ELSE p.status
        <3>1. status \in ReplicaStatus
            BY <2>1 DEF ReplicaStatus, ReplicaPlacement
        <3>2. q = [p EXCEPT !.flags = flags, !.status = status]
            BY <2>1 DEF SetFlagsMutation, ReplicaPlacement
        <3>3. status \in {p.status, "Dirty"}
              /\ (status = "Dirty" => p.status \in {"Clean", "Dirty"})
            OBVIOUS
        <3> HIDE DEF status, q
        <3> QED BY <2>1, <3>1, <3>2, <3>3 DEF ReplicaPlacement
    <2> HIDE DEF q
    <2>4. Shape(q)
        BY <2>1, <2>3 DEF Shape
    <2> QED BY <1>3, <2>1, <2>2, <2>3, <2>4 DEF p
<1>5. ASSUME UserRemove(h) PROVE SpineInv'
    <2> DEFINE p == store[h]
               q == RemoveMutation(p)
    <2>1. p \in ReplicaPlacement /\ Shape(p) /\ Target(h) /\ Mutate("Remove")
        BY <1>1, <1>5 DEF UserRemove
    <2>2. /\ q \in ReplicaPlacement
          /\ q.conflict_revision = p.conflict_revision
          /\ q.conflict_object = p.conflict_object /\ q.base = p.base
          /\ q.object = p.object /\ q.status = "Tombstone"
        BY <2>1 DEF RemoveMutation, ReplicaPlacement, ReplicaStatus
    <2>3. store' = [store EXCEPT ![h] = q]
        BY <1>5 DEF UserRemove
    <2> HIDE DEF q
    <2>4. Shape(q)
        BY <2>1, <2>2 DEF Shape
    <2> QED BY <1>3, <2>1, <2>2, <2>3, <2>4
<1>6. ASSUME NEW destination \in Origin, UserMove(h, destination) PROVE SpineInv'
    <2> DEFINE p == store[h]
               q == MoveMutation(p, destination)
    <2>1. p \in ReplicaPlacement /\ Shape(p) /\ Target(h) /\ Mutate("Move")
        BY <1>1, <1>6 DEF UserMove
    <2>2. /\ q \in ReplicaPlacement
          /\ q.conflict_revision = p.conflict_revision
          /\ q.conflict_object = p.conflict_object /\ q.base = p.base
          /\ q.object = p.object /\ q.status = "Tombstone"
        BY <2>1 DEF MoveMutation, ReplicaPlacement, ReplicaStatus
    <2>3. store' = [store EXCEPT ![h] = q]
        BY <1>6 DEF UserMove
    <2> HIDE DEF q
    <2>4. Shape(q)
        BY <2>1, <2>2 DEF Shape
    <2> QED BY <1>3, <2>1, <2>2, <2>3, <2>4
<1>7. ASSUME UserEdit(h) PROVE SpineInv'
    <2>1. /\ store[h] \in ReplicaPlacement /\ RowOK(h, store[h]) /\ Target(h)
          /\ Mutate("Edit")
          /\ checkpoint # None => Covers(h, store[h], checkpoint)
        BY <1>1, <1>7 DEF UserEdit
    <2>2. store[h].status # "Tombstone"
        BY <2>1 DEF SpineInv, Cautious, Target, Mutate
    <2>3. store[h].base = None \/ store[h].base.object \in Opt(Body)
        BY <2>1 DEF ReplicaPlacement, ReplicaBase
    <2>4. FreshBodies \subseteq Body /\ (FreshBodies # {} => NewBody \in Body)
        BY DEF FreshBodies, NewBody
    <2>5. PICK b \in Body, meta \in Opt(ReplicaMeta) :
            store' = [store EXCEPT ![h] = EditMutation(@, b, meta)]
        BY <1>7, <2>3, <2>4, SyncAssumption DEF UserEdit
    <2>6. /\ RowOK(h, EditMutation(store[h], b, meta))
          /\ \A c : Covers(h, store[h], c) =>
                    Covers(h, EditMutation(store[h], b, meta), c)
        BY <2>1, <2>2, EditKnows
    <2> QED BY <2>1, <2>5, <2>6, MutateSpine
<1>8. ASSUME NEW op, Mutate(op), h \in Provisional, NEW q,
             store' = [store EXCEPT ![h] = q], q.status = "Created",
             q.base = None, q.conflict_revision = None
      PROVE  SpineInv'
    <2>1. RowOK(h, q) /\ \A c : Covers(h, q, c)
        BY <1>8, CreateKnows
    <2> QED BY <1>8, <2>1, MutateSpine
<1>9. ASSUME NEW link \in Authored, UserAdd(h, link) PROVE SpineInv'
    <2>1. PICK meta :
            store' = [store EXCEPT ![h] = AddMutation(link, NewBody, meta, {})]
        BY <1>9 DEF UserAdd
    <2> DEFINE q == AddMutation(link, NewBody, meta, {})
    <2>2. q.status = "Created" /\ q.base = None /\ q.conflict_revision = None
        BY DEF AddMutation, CreatedPlacement
    <2>3. Mutate("Add") /\ h \in Provisional
        BY <1>9 DEF UserAdd
    <2> HIDE DEF q
    <2> QED BY <1>8, <2>1, <2>2, <2>3 DEF q
<1>10. ASSUME NEW flags \in SUBSET Flag, NEW object \in Opt(Body),
              NEW origin \in Origin,
              UserCopy(h, CopySource(flags, object), origin)
       PROVE  SpineInv'
    <2> DEFINE source == CopySource(flags, object)
               q      == CopyMutation(source, origin)
    <2> HIDE DEF source
    <2>1. q.status = "Created" /\ q.base = None /\ q.conflict_revision = None
        BY DEF CopyMutation, CreatedPlacement
    <2>2. UserCopy(h, source, origin)
        BY <1>10 DEF source
    <2>3. /\ Mutate("Copy") /\ h \in Provisional
          /\ store' = [store EXCEPT ![h] = q]
        BY <2>2 DEF UserCopy
    <2> HIDE DEF q
    <2> QED BY <1>8, <2>1, <2>3
<1> QED BY <1>2, <1>4, <1>5, <1>6, <1>7, <1>9, <1>10

--------------------------------------------------------------------------------
(* The join.                                                               *)

(* What the merge takes the remote to hold at h. *)
Item(h) ==
    IF snap.complete THEN snap.items[h]
    ELSE NarrowedItem(local[h], snap.items[h], h \in snap.vanished)

(* Off the server's handles no cursor claims anything. *)
LEMMA OffServer ==
    ASSUME ServerInv, NEW h \in Handle, h \notin ServerHandle, NEW p, RowOK(h, p)
    PROVE  \A c : Covers(h, p, c)
BY DEF ServerInv, RowOK, Covers

(* What the invariant says of a handle the join has not walked. *)
LEMMA AheadFacts ==
    ASSUME Inv, SpineInv, pc = "Joining", NEW h \in todo
    PROVE  /\ h \in Handle /\ TypeOK /\ ServerInv
           /\ local[h] \in Opt(ReplicaPlacement)
           /\ opts \in ReplicaSyncOptions /\ opts \in Options
           /\ snap.items[h] \in Opt(ReplicaRemoteItem)
           /\ snap.checkpoint \in Nat
           /\ ~snap.complete => checkpoint # None
           /\ checkpoint # None => /\ checkpoint \in Nat
                                   /\ checkpoint <= snap.checkpoint
                                   /\ Covers(h, Row(h), checkpoint)
           /\ RowOK(h, local[h]) /\ RowOK(h, Row(h))
           /\ SnapOK(h) /\ LoadedBefore(h)
           /\ h \in ServerHandle => Row(h) = local[h]
           /\ items[h] # None => /\ h \in ServerHandle
                                 /\ items[h].seq \in Nat /\ items[h].rev \in Nat
           /\ gone[h] \in Nat
<1>1. Enumerated /\ h \in Handle /\ TypeOK /\ ServerInv /\ RunInv /\ SnapInv
    BY DEF Enumerated, Inv, TypeOK, SpineInv, RunInv
<1>2. snap \in ReplicaRemoteSnapshot
    BY DEF Inv, Phases
<1>3. snap.items[h] \in Opt(ReplicaRemoteItem) /\ snap.checkpoint \in Nat
    BY <1>1, <1>2 DEF ReplicaRemoteSnapshot
<1>4. opts \in ReplicaSyncOptions /\ opts \in Options
    BY DEF Inv, Phases, SpineInv, PlaceInv
<1>5. checkpoint # None => /\ checkpoint \in Nat /\ checkpoint <= snap.checkpoint
                           /\ Covers(h, Row(h), checkpoint)
    BY <1>1 DEF SnapInv, SpineInv, CursorInv, TypeOK
<1>6. RowOK(h, local[h]) /\ RowOK(h, Row(h)) /\ SnapOK(h) /\ LoadedBefore(h)
    BY <1>1 DEF SpineInv, RowsInv, SnapInv
<1>7. h \in ServerHandle => Row(h) = local[h]
    BY <1>1 DEF RunInv, JoinOK
<1>8. ~snap.complete => checkpoint # None
    BY <1>1 DEF SnapInv
<1>9. local[h] \in Opt(ReplicaPlacement)
    BY <1>1 DEF TypeOK
<1>10. /\ items[h] # None => /\ h \in ServerHandle
                             /\ items[h].seq \in Nat /\ items[h].rev \in Nat
       /\ gone[h] \in Nat
    BY <1>1, ItemFacts DEF ServerInv
<1> QED BY <1>1, <1>3, <1>4, <1>5, <1>6, <1>7, <1>8, <1>9, <1>10

(* The item a candidate is merged with, listed or stood in for by its own  *)
(* base, is the server's as of the snapshot.                               *)
LEMMA ItemOK ==
    ASSUME Inv, SpineInv, pc = "Joining", NEW h \in todo, ~Untouched(h)
    PROVE  /\ Item(h) \in Opt(ReplicaRemoteItem)
           /\ Item(h) = None => Newer(h)
           /\ Item(h) # None =>
                 /\ h \in ServerHandle /\ GoneSince(h)
                 /\ (Mutable /\ ~Newer(h)) => Item(h).revision = items[h].rev
                 /\ local[h] # None => Fits(local[h], Item(h))
                 /\ Past(h, Item(h).revision)
<1> DEFINE p    == local[h]
           item == Item(h)
<1>1. /\ h \in Handle /\ TypeOK /\ ServerInv
      /\ p \in Opt(ReplicaPlacement)
      /\ snap.items[h] \in Opt(ReplicaRemoteItem)
      /\ snap.checkpoint \in Nat
      /\ ~snap.complete => checkpoint # None
      /\ checkpoint # None => /\ checkpoint \in Nat
                              /\ checkpoint <= snap.checkpoint
                              /\ Covers(h, Row(h), checkpoint)
      /\ RowOK(h, p)
      /\ SnapOK(h) /\ LoadedBefore(h)
      /\ h \in ServerHandle => Row(h) = p
      /\ items[h] # None => /\ h \in ServerHandle
                            /\ items[h].seq \in Nat /\ items[h].rev \in Nat
      /\ gone[h] \in Nat
    BY AheadFacts
<1>2. p # None => /\ p.conflict_revision \in Opt(Nat)
                  /\ p.base # None => p.base \in ReplicaBase
                                      /\ p.base.revision \in Opt(Nat)
    BY <1>1, PlacementFacts
<1>3. CASE snap.items[h] # None /\ (snap.complete \/ h \notin snap.vanished)
    <2>1. item = snap.items[h]
        BY <1>3 DEF Item, NarrowedItem
    <2>2. h \in ServerHandle /\ GoneSince(h) /\ Past(h, item.revision)
        BY <1>1, <1>3, <2>1 DEF SnapOK
    <2>3. (Mutable /\ ~Newer(h)) => item.revision = items[h].rev
        BY <1>1, <1>3, <2>1 DEF SnapOK, RevisionOf
    <2>4. p # None => Fits(p, item)
        BY <1>1, <1>2, <1>3, <2>1, <2>2
           DEF Fits, RowOK, LoadedBefore, SnapOK, Past
    <2> QED BY <1>1, <1>3, <2>1, <2>2, <2>3, <2>4
<1>4. CASE snap.items[h] # None /\ ~snap.complete /\ h \in snap.vanished
    <2>1. item = None
        BY <1>4 DEF Item, NarrowedItem
    <2>2. Newer(h)
        BY <1>1, <1>4 DEF SnapOK
    <2> QED BY <2>1, <2>2
<1>5. CASE snap.items[h] = None /\ (snap.complete \/ h \in snap.vanished)
    <2>1. item = None
        BY <1>5 DEF Item, NarrowedItem
    <2>2. Newer(h)
        BY <1>1, <1>5 DEF SnapOK
    <2> QED BY <2>1, <2>2
<1>6. CASE snap.items[h] = None /\ ~snap.complete /\ h \notin snap.vanished
    <2>1. item = StandIn(p) /\ p # None
        BY <1>6 DEF Item, NarrowedItem, Untouched, IsCandidate
    <2>2. ~Newer(h) => /\ items[h] # None /\ items[h].seq <= checkpoint
                       /\ Covers(h, p, checkpoint) /\ h \in ServerHandle
        BY <1>1, <1>6 DEF SnapOK, Newer
    <2>3. CASE p.base = None
        <3>1. item = None
            BY <2>1, <2>3 DEF StandIn
        <3>2. Newer(h)
            BY <2>2, <2>3 DEF Covers
        <3> QED BY <3>1, <3>2
    <2>4. CASE p.base # None
        <3>1. item = [flags |-> p.base.flags, revision |-> KnownRevision(p)]
            BY <2>1, <2>4 DEF StandIn, KnownRevision
        <3>2. item \in ReplicaRemoteItem /\ item.revision = KnownRevision(p)
            BY <1>1, <1>2, <2>1, <2>4, <3>1
               DEF ReplicaRemoteItem, ReplicaBase, KnownRevision
        <3> HIDE DEF item
        <3>3. h \in ServerHandle /\ Past(h, item.revision)
            BY <1>1, <2>1, <2>4, <3>2 DEF RowOK, KnownRevision
        <3>4. GoneSince(h)
            <4> SUFFICES ASSUME ~GoneSince(h) PROVE FALSE
                OBVIOUS
            <4>1. items[h] = None /\ gone[h] <= checkpoint /\ checkpoint \in Nat
                BY <1>1, <1>6 DEF SnapOK, GoneSince
            <4>2. Covers(h, p, checkpoint)
                BY <1>1, <1>6, <3>3
            <4> QED BY <1>1, <2>1, <2>4, <4>1, <4>2 DEF Covers
        <3>5. (Mutable /\ ~Newer(h)) => item.revision = items[h].rev
            BY <2>2, <3>2 DEF Covers
        <3>6. Fits(p, item)
            BY <1>1, <1>2, <2>1, <2>4, <3>2 DEF Fits, RowOK, Shape, KnownRevision
        <3>7. item # None
            BY <3>2, MergeAssumption
        <3> QED BY <3>2, <3>3, <3>4, <3>5, <3>6, <3>7 DEF item
    <2> QED BY <2>3, <2>4
<1> QED BY <1>3, <1>4, <1>5, <1>6

(* A row whose every revision is the loaded row's, or the reported one     *)
(* beside no body.                                                         *)
LEMMA SourcedRow ==
    ASSUME NEW h \in ServerHandle, h \in Handle, NEW p, NEW q, NEW item,
           p # None => RowOK(h, p), Past(h, item.revision),
           q.base # None, Shape(q), Sourced(q, p, item)
    PROVE  RowOK(h, q)
<1>1. Past(h, None)
    BY DEF Past
<1>2. \A r : Paired(h, r, None) /\ Based(h, r, None)
    BY DEF Paired, Based
<1>3. Past(h, q.conflict_revision) /\ Paired(h, q.conflict_revision, q.conflict_object)
    BY <1>1, <1>2 DEF Sourced, RowOK
<1>4. Past(h, q.base.revision) /\ Based(h, q.base.revision, q.base.object)
    BY <1>1, <1>2 DEF Sourced, RowOK
<1> QED BY <1>3, <1>4 DEF RowOK

(* What the merge of h leaves of its row, and what it derives. *)
MergedOK(h, out) ==
    LET q == After(local[h], out)
    IN  /\ RowOK(h, q)
        /\ checkpoint # None => Covers(h, q, checkpoint)
        /\ \/ Covers(h, q, snap.checkpoint)
           \/ /\ opts.conflict = "PreferLocal"
              /\ out.push # None /\ out.push.kind = "Update"
        /\ RowOK(h, out.flag) /\ RowOK(h, out.content) /\ RowOK(h, out.create)
        /\ out.push # None =>
              /\ out.push.kind = "Add" =>
                    /\ Newer(h) /\ out.create.status = "Created"
                    /\ out.create.object = out.push.object
              /\ out.push.kind # "Add" => h \in ServerHandle /\ GoneSince(h)
              /\ (out.push.kind \in {"Update", "Remove"} /\ Mutable /\ ~Newer(h)) =>
                    out.push.if_match = items[h].rev
              /\ out.push.kind = "Update" =>
                    /\ out.content.conflict_revision = None
                    /\ out.content.object = out.push.object
              /\ out.push.kind = "SetFlags" => out.flag.status # "Tombstone"
        /\ out.dup # None =>
              /\ h \in ServerHandle /\ local[h] # None /\ local[h].object # None
              /\ out.dup = ConflictDup(local[h])

LEMMA MergedAbsent ==
    ASSUME Inv, SpineInv, pc = "Joining", NEW h \in todo, ~Untouched(h),
           Item(h) = None
    PROVE  MergedOK(h, OutcomeOf(h))
<1> DEFINE p   == local[h]
           out == OutcomeOf(h)
           q   == After(p, out)
<1>1. /\ h \in Handle /\ p \in Opt(ReplicaPlacement) /\ RowOK(h, p)
      /\ snap.checkpoint \in Nat
      /\ checkpoint # None => checkpoint \in Nat /\ checkpoint <= snap.checkpoint
      /\ items[h] # None => items[h].seq \in Nat
    BY AheadFacts
<1>2. Newer(h)
    BY ItemOK
<1>3. out = MergeCandidate(p, None, opts)
    BY DEF OutcomeOf, Item
<1>4. p # None => Shape(p)
    BY <1>1 DEF RowOK
<1>5. Absent(out, p)
    BY <1>1, <1>3, <1>4, CandidateAbsent
<1>6. Agrees(out)
    BY OutcomeSound DEF Sound
<1> HIDE DEF out
<1>7. out.dup = None /\ (out.push # None => out.push.kind = "Add")
    BY <1>5 DEF Absent
<1>8. out.flag = None /\ out.content = None
    BY <1>6, <1>7 DEF Agrees
<1>9. q # None =>
        \/ q = p /\ p.base = None
        \/ /\ q.base = None /\ q.conflict_revision = None
           /\ q.conflict_object = None /\ q.object # None /\ Shape(q)
    BY <1>5 DEF Absent
<1> HIDE DEF q
<1>10. RowOK(h, q)
    BY <1>1, <1>9 DEF RowOK, Past, Paired, Based
<1>11. ASSUME NEW c \in Nat, c <= snap.checkpoint PROVE Covers(h, q, c)
    BY <1>1, <1>2, <1>9, <1>11 DEF Covers, Newer
<1>12. RowOK(h, out.create) /\ RowOK(h, None)
    <2>1. RowOK(h, None)
        BY DEF RowOK
    <2>2. CASE out.create = None
        BY <2>1, <2>2
    <2>3. CASE out.create # None
        <3>1. /\ out.create.status = "Created"
              /\ \/ out.create = p
                 \/ /\ out.create.base = None /\ out.create.conflict_revision = None
                    /\ out.create.conflict_object = None
                    /\ out.create.object # None
            BY <1>5, <1>6, <2>3 DEF Absent, Agrees
        <3> QED BY <1>1, <3>1 DEF RowOK, Shape, Past, Paired, Based
    <2> QED BY <2>1, <2>2, <2>3
<1>13. out.push # None => /\ out.create.status = "Created"
                          /\ out.create.object = out.push.object
    BY <1>5 DEF Absent
<1>14. checkpoint # None => Covers(h, q, checkpoint)
    BY <1>1, <1>11
<1>15. Covers(h, q, snap.checkpoint)
    BY <1>1, <1>11
<1> QED BY <1>2, <1>7, <1>8, <1>10, <1>12, <1>13, <1>14, <1>15
        DEF MergedOK, out, q

LEMMA MergedPresent ==
    ASSUME Inv, SpineInv, pc = "Joining", NEW h \in todo, ~Untouched(h),
           Item(h) # None
    PROVE  MergedOK(h, OutcomeOf(h))
<1> DEFINE p    == local[h]
           item == Item(h)
           out  == OutcomeOf(h)
           q    == After(p, out)
<1>1. /\ h \in Handle /\ p \in Opt(ReplicaPlacement) /\ RowOK(h, p)
      /\ opts \in ReplicaSyncOptions /\ snap.checkpoint \in Nat
      /\ checkpoint # None => checkpoint \in Nat /\ checkpoint <= snap.checkpoint
                              /\ Covers(h, Row(h), checkpoint)
      /\ h \in ServerHandle => Row(h) = p
      /\ items[h] # None => items[h].seq \in Nat /\ items[h].rev \in Nat
      /\ gone[h] \in Nat
    BY AheadFacts
<1>2. /\ item \in ReplicaRemoteItem
      /\ h \in ServerHandle /\ GoneSince(h)
      /\ (Mutable /\ ~Newer(h)) => item.revision = items[h].rev
      /\ p # None => Fits(p, item)
      /\ Past(h, item.revision)
    BY ItemOK
<1>3. out = MergeCandidate(p, item, opts)
    BY DEF OutcomeOf, Item
<1>4. Present(out, p, item, opts)
    BY <1>1, <1>2, <1>3, CandidatePresent
<1>5. Agrees(out)
    BY OutcomeSound DEF Sound
<1> HIDE DEF out
<1>6. /\ q \in ReplicaPlacement /\ q.base # None
      /\ Shape(q) /\ Sourced(q, p, item)
      /\ item.revision # None =>
            \/ KnownRevision(q) = item.revision
            \/ /\ opts.conflict = "PreferLocal"
               /\ p # None /\ p.base # None
               /\ KnownRevision(q) = KnownRevision(p)
               /\ out.push # None /\ out.push.kind = "Update"
    BY <1>4 DEF Present
<1> HIDE DEF q, item
<1>7. RowOK(h, q) /\ q # None
    BY <1>1, <1>2, <1>6, SourcedRow, SentinelAssumption
<1>8. ~Newer(h) /\ Mutable => item.revision # None
    BY <1>1, <1>2, SentinelAssumption DEF Newer
<1>9. \/ Covers(h, q, snap.checkpoint)
      \/ /\ opts.conflict = "PreferLocal"
         /\ out.push # None /\ out.push.kind = "Update"
    BY <1>1, <1>2, <1>6, <1>7, <1>8 DEF Covers, Newer, GoneSince
<1>10. checkpoint # None => Covers(h, q, checkpoint)
    <2> SUFFICES ASSUME checkpoint # None PROVE Covers(h, q, checkpoint)
        OBVIOUS
    <2>1. Covers(h, p, checkpoint)
        BY <1>1, <1>2
    <2>2. (items[h] # None /\ items[h].seq <= checkpoint) => ~Newer(h)
        BY <1>1 DEF Newer
    <2>3. items[h] = None => gone[h] > checkpoint
        BY <1>1, <1>2 DEF GoneSince
    <2> QED BY <1>2, <1>6, <1>7, <1>8, <2>1, <2>2, <2>3 DEF Covers
<1>11. out.push # None =>
        /\ out.push.kind # "Add"
        /\ (out.push.kind \in {"Update", "Remove"} /\ Mutable /\ ~Newer(h)) =>
              out.push.if_match = items[h].rev
    BY <1>2, <1>4, <1>8 DEF Present
<1>12. out.create = None /\ RowOK(h, None)
    BY <1>5, <1>11 DEF Agrees, RowOK
<1>13. /\ out.content # None =>
              /\ out.content = p /\ out.push.object = p.object
              /\ p.conflict_revision = None
       /\ out.push # None /\ out.push.kind = "Update" => out.content # None
    BY <1>4, <1>5 DEF Present, Agrees
<1>14. RowOK(h, out.content)
    BY <1>1, <1>12, <1>13
<1>15. /\ out.flag # None =>
              /\ out.flag.base # None /\ out.flag.status # "Tombstone"
              /\ Shape(out.flag) /\ Sourced(out.flag, p, item)
       /\ out.push # None /\ out.push.kind = "SetFlags" => out.flag # None
    BY <1>4, <1>5 DEF Present, Agrees
<1>16. RowOK(h, out.flag)
    BY <1>1, <1>2, <1>12, <1>15, SourcedRow
<1>17. out.dup # None =>
        p # None /\ p.object # None /\ out.dup = ConflictDup(p)
    BY <1>4 DEF Present
<1> QED
    BY <1>2, <1>7, <1>9, <1>10, <1>11, <1>12, <1>13, <1>14, <1>15, <1>16, <1>17
       DEF MergedOK, out, q

(* A handle a delta does not mention, and the replica has nothing to say   *)
(* of: the cursor it has covers it up to the snapshot.                     *)
LEMMA SkippedCovers ==
    ASSUME Inv, SpineInv, pc = "Joining", NEW h \in todo, Untouched(h)
    PROVE  Covers(h, Row(h), snap.checkpoint)
<1>1. /\ h \in Handle /\ ServerInv /\ RowOK(h, Row(h)) /\ SnapOK(h)
      /\ snap.checkpoint \in Nat
      /\ ~snap.complete => checkpoint # None
      /\ checkpoint # None => checkpoint \in Nat /\ Covers(h, Row(h), checkpoint)
      /\ items[h] # None => items[h].seq \in Nat
      /\ gone[h] \in Nat
    BY AheadFacts
<1>2. ~snap.complete /\ h \notin snap.vanished /\ snap.items[h] = None
    BY DEF Untouched, IsCandidate
<1>3. ~Newer(h) => items[h].seq <= checkpoint
    BY <1>1, <1>2 DEF SnapOK
<1>4. ~GoneSince(h) => gone[h] <= checkpoint
    BY <1>1, <1>2 DEF SnapOK
<1> QED BY <1>1, <1>2, <1>3, <1>4 DEF Covers, Newer, GoneSince

(* The rows once the candidate of h is merged: its own, its fork's, and    *)
(* the others as they were.                                                *)
LEMMA MergeRows ==
    ASSUME Inv, SpineInv, pc = "Joining", NEW h \in todo, Merge(h),
           store' = store, MergedOK(h, OutcomeOf(h))
    PROVE  /\ \E q : /\ Row(h)' = q /\ RowOK(h, q)
                     /\ h \in ServerHandle => q = After(local[h], OutcomeOf(h))
           /\ \A k \in Handle \ {h} :
                 \/ Row(k)' = Row(k)
                 \/ /\ k \notin ServerHandle
                    /\ \E q : Row(k)' = q /\ RowOK(k, q)
<1> DEFINE p   == local[h]
           out == OutcomeOf(h)
           put == IF out.put = Keep THEN writes ELSE [writes EXCEPT ![h] = out.put]
           f   == Fork[<<h, p.object>>]
<1>1. /\ h \in Handle /\ RowOK(h, Row(h)) /\ p \in Opt(ReplicaPlacement)
      /\ h \in ServerHandle => Row(h) = p
    BY AheadFacts
<1>2. out \in Outcome /\ writes \in [Handle -> ReplicaWriteOp \cup {Keep}]
    BY OutcomeSound DEF Merge, Sound, Inv, TypeOK
<1>3. writes' = IF out.dup = None THEN put
                ELSE [put EXCEPT ![f] = Upsert(out.dup)]
    BY DEF Merge
<1>4. out.dup # None =>
        /\ f \notin ServerHandle /\ h \in ServerHandle
        /\ out.dup \in ReplicaPlacement /\ out.dup = ConflictDup(p)
    <2> SUFFICES ASSUME out.dup # None
                 PROVE  /\ f \notin ServerHandle /\ h \in ServerHandle
                        /\ out.dup \in ReplicaPlacement /\ out.dup = ConflictDup(p)
        OBVIOUS
    <2>1. /\ h \in ServerHandle /\ p \in ReplicaPlacement /\ p.object # None
          /\ out.dup = ConflictDup(p)
        BY <1>1 DEF MergedOK
    <2>2. p.object \in Body
        BY <2>1 DEF ReplicaPlacement
    <2> QED BY <2>1, <2>2, SyncAssumption, ConflictDupType
<1>5. MergedOK(h, out)
    OBVIOUS
<1> HIDE DEF out, f
<1>6. RowOK(h, After(p, out))
    BY <1>5 DEF MergedOK
<1>7. put \in [Handle -> ReplicaWriteOp \cup {Keep}]
    BY <1>1, <1>2 DEF Outcome
<1>8. /\ put[h] = IF out.put = Keep THEN writes[h] ELSE out.put
      /\ \A k \in Handle \ {h} : put[k] = writes[k]
    BY <1>1, <1>2
<1> HIDE DEF put
<1>9. \A k \in Handle : writes'[k] = IF out.dup # None /\ k = f
                                     THEN Upsert(out.dup) ELSE put[k]
    BY <1>3, <1>7
<1>10. \E q : /\ Row(h)' = q /\ RowOK(h, q)
              /\ h \in ServerHandle => q = After(p, out)
    <2>1. writes'[h] = put[h]
        BY <1>1, <1>4, <1>9
    <2>2. CASE out.put = Keep
        <3>1. Row(h)' = Row(h)
            BY <1>1, <1>8, <2>1, <2>2, OpRow
        <3>2. After(p, out) = p
            BY <2>2 DEF After
        <3> QED BY <1>1, <3>1, <3>2
    <2>3. CASE out.put # Keep
        <3>1. writes'[h] = out.put
            BY <1>8, <2>1, <2>3
        <3>2. Row(h)' = After(p, out)
            BY <1>1, <2>3, <3>1 DEF Row, Applied, After
        <3> QED BY <1>6, <3>2
    <2> QED BY <2>2, <2>3
<1>11. ASSUME NEW k \in Handle \ {h}
       PROVE  \/ Row(k)' = Row(k)
              \/ /\ k \notin ServerHandle
                 /\ \E q : Row(k)' = q /\ RowOK(k, q)
    <2>1. CASE out.dup # None /\ k = f
        <3>1. Row(k)' = out.dup
            BY <1>4, <1>9, <2>1, OpRow
        <3>2. /\ out.dup.base = None /\ out.dup.conflict_revision = None
              /\ out.dup.status = "Created"
            BY <1>4, <2>1 DEF ConflictDup, CreatedPlacement
        <3>3. RowOK(k, out.dup)
            BY <1>4, <2>1, <3>2 DEF RowOK, Shape, Past, Paired, Based
        <3> QED BY <1>4, <2>1, <3>1, <3>3
    <2>2. CASE ~(out.dup # None /\ k = f)
        BY <1>8, <1>9, <2>2, OpRow
    <2> QED BY <2>1, <2>2
<1> QED BY <1>10, <1>11 DEF out

(* A handle whose item is not a candidate leaves the batch as it is. *)
LEMMA SkipSpine ==
    ASSUME Inv, Inv', SpineInv, MergeStep, NEW h \in todo,
           todo' = todo \ {h}, Skip(h)
    PROVE  SpineInv'
<1>1. /\ pc = "Joining" /\ pc' = "Joining" /\ Untouched(h)
      /\ UNCHANGED <<items, gone, seq, results, stored, opts, local, snap,
                     writes, pushes, in_flight, unserved, next_checkpoint,
                     pendings>>
    BY DEF MergeStep, Skip
<1>2. /\ ServerInv /\ RowsInv /\ CursorInv /\ RunInv /\ SnapInv
      /\ Enumerated /\ Enumerated'
    BY <1>1 DEF SpineInv, Enumerated, RunInv
<1>3. \A k \in Handle : /\ Row(k)' = Row(k) /\ Owed(k)' = Owed(k)
                        /\ Retried(k) => Retried(k)'
    BY <1>1 DEF Row, Owed, Retried
<1>4. ServerInv' /\ Cautious'
    BY <1>1 DEF SpineInv, ServerInv, Cautious
<1>5. RowsInv'
    BY <1>1, <1>2, <1>3, StillServer DEF RowsInv
<1>6. CursorInv'
    BY <1>1, <1>2, <1>3, StillServer DEF CursorInv
<1>7. SnapInv'
    BY <1>1, <1>2 DEF SnapInv, SnapOK, LoadedBefore, Newer, GoneSince, Past
<1>8. ASSUME NEW k \in Handle PROVE JoinOK(k)' /\ OwedOK(k)' /\ ResultOK(k)'
    <2>1. JoinOK(k) /\ OwedOK(k)
        BY <1>2 DEF RunInv
    <2>2. k \notin todo' => Covers(k, Row(k), snap.checkpoint) \/ Retried(k)
        BY <1>1, <2>1, SkippedCovers DEF JoinOK
    <2>3. JoinOK(k)'
        BY <1>1, <1>3, <2>1, <2>2, StillServer DEF JoinOK
    <2>4. OwedOK(k)'
        BY <1>1, <1>3, <2>1 DEF OwedOK, Newer, GoneSince
    <2>5. ResultOK(k)'
        BY <1>1 DEF ResultOK, IsAccepted, SpineInv, PlaceInv
    <2> QED BY <2>3, <2>4, <2>5
<1>9. PlaceInv'
    BY <1>1, <1>2 DEF SpineInv, PlaceInv
<1> QED BY <1>4, <1>5, <1>6, <1>7, <1>8, <1>9 DEF SpineInv, RunInv

(* What a merged candidate owes, and the others as they owed it. *)
LEMMA MergeOwes ==
    ASSUME Inv, pc = "Joining", NEW h \in todo, Merge(h),
           in_flight' = in_flight
    PROVE  LET out == OutcomeOf(h)
           IN  /\ Owed(h)' = out.push /\ pushes'[h] = out.push
               /\ pending_flag_pushes'[h] = out.flag
               /\ pending_content_pushes'[h] = out.content
               /\ pending_creates'[h] = out.create
               /\ \A k \in Handle \ {h} :
                    /\ Owed(k)' = Owed(k) /\ pushes'[k] = pushes[k]
                    /\ pending_flag_pushes'[k] = pending_flag_pushes[k]
                    /\ pending_content_pushes'[k] = pending_content_pushes[k]
                    /\ pending_creates'[k] = pending_creates[k]
<1> DEFINE out == OutcomeOf(h)
<1>1. out \in Outcome
    BY OutcomeSound DEF Merge, Sound
<1>2. /\ pushes' = IF out.push = None THEN pushes
                   ELSE [pushes EXCEPT ![h] = out.push]
      /\ pending_flag_pushes' =
            IF out.flag = None THEN pending_flag_pushes
            ELSE [pending_flag_pushes EXCEPT ![h] = out.flag]
      /\ pending_content_pushes' =
            IF out.content = None THEN pending_content_pushes
            ELSE [pending_content_pushes EXCEPT ![h] = out.content]
      /\ pending_creates' =
            IF out.create = None THEN pending_creates
            ELSE [pending_creates EXCEPT ![h] = out.create]
    BY DEF Merge
<1>3. /\ h \in Handle /\ in_flight[h] = None /\ pushes[h] = None
      /\ pending_flag_pushes[h] = None /\ pending_content_pushes[h] = None
      /\ pending_creates[h] = None
    BY DEF Inv, TypeOK, Phases, OnePushPerHandle, Owed
<1> HIDE DEF out
<1>4. /\ pushes'[h] = out.push
      /\ pending_flag_pushes'[h] = out.flag
      /\ pending_content_pushes'[h] = out.content
      /\ pending_creates'[h] = out.create
    BY <1>1, <1>2, <1>3 DEF Inv, TypeOK
<1>5. ASSUME NEW k \in Handle \ {h}
      PROVE  /\ pushes'[k] = pushes[k]
             /\ pending_flag_pushes'[k] = pending_flag_pushes[k]
             /\ pending_content_pushes'[k] = pending_content_pushes[k]
             /\ pending_creates'[k] = pending_creates[k]
    BY <1>2 DEF Inv, TypeOK
<1>6. \A k \in Handle \ {h} : Owed(k)' = Owed(k)
    BY <1>5 DEF Owed
<1>7. Owed(h)' = out.push
    BY <1>3, <1>4 DEF Owed
<1> QED BY <1>4, <1>5, <1>6, <1>7 DEF out

LEMMA CandidateSpine ==
    ASSUME Inv, Inv', SpineInv, MergeStep, NEW h \in todo,
           todo' = todo \ {h}, Merge(h)
    PROVE  SpineInv'
<1>1. /\ pc = "Joining" /\ pc' \in {"Joining", "Merging"} /\ ~Untouched(h)
      /\ UNCHANGED <<items, gone, seq, results, stored, opts, local, snap,
                     in_flight, unserved, next_checkpoint>>
    BY DEF MergeStep, Merge
<1>2. /\ ServerInv /\ RowsInv /\ CursorInv /\ RunInv /\ SnapInv
      /\ Enumerated /\ Enumerated' /\ Cautious /\ h \in Handle
    BY <1>1 DEF SpineInv, Enumerated, RunInv, Inv, TypeOK
<1>3. MergedOK(h, OutcomeOf(h))
    BY <1>1, MergedAbsent, MergedPresent
<1>4. PICK q : /\ Row(h)' = q /\ RowOK(h, q)
               /\ h \in ServerHandle => q = After(local[h], OutcomeOf(h))
    BY <1>1, <1>3, MergeRows
<1>5. ASSUME NEW k \in Handle \ {h}
      PROVE  \/ Row(k)' = Row(k)
             \/ /\ k \notin ServerHandle
                /\ \E r : Row(k)' = r /\ RowOK(k, r)
    BY <1>1, <1>3, MergeRows
<1>6. PICK out : out = OutcomeOf(h)
    OBVIOUS
<1>7. /\ Owed(h)' = out.push /\ pushes'[h] = out.push
      /\ pending_flag_pushes'[h] = out.flag
      /\ pending_content_pushes'[h] = out.content
      /\ pending_creates'[h] = out.create
    BY <1>1, <1>6, MergeOwes
<1>8. ASSUME NEW k \in Handle \ {h}
      PROVE  /\ Owed(k)' = Owed(k) /\ pushes'[k] = pushes[k]
             /\ pending_flag_pushes'[k] = pending_flag_pushes[k]
             /\ pending_content_pushes'[k] = pending_content_pushes[k]
             /\ pending_creates'[k] = pending_creates[k]
    BY <1>1, MergeOwes
<1>9. ASSUME NEW k \in Handle \ {h}
      PROVE  \E r : /\ Row(k)' = r /\ RowOK(k, r)
                    /\ r = Row(k) \/ (k \notin ServerHandle /\ \A c : Covers(k, r, c))
    <2>1. CASE Row(k)' = Row(k)
        BY <1>2, <2>1 DEF RowsInv
    <2>2. CASE /\ k \notin ServerHandle
               /\ \E r : Row(k)' = r /\ RowOK(k, r)
        BY <1>2, <2>2, OffServer
    <2> QED BY <1>5, <2>1, <2>2
<1>10. ServerInv' /\ Cautious'
    BY <1>1, <1>2 DEF ServerInv, Cautious
<1>11. RowsInv'
    <2> SUFFICES ASSUME NEW k \in Handle PROVE RowsInv!(k)'
        BY DEF RowsInv
    <2>1. RowOK(k, store[k]) /\ RowOK(k, local[k])
        BY <1>2 DEF RowsInv
    <2>2. CASE k = h
        <3>1. RowOK(h, out.flag) /\ RowOK(h, out.content) /\ RowOK(h, out.create)
            BY <1>3, <1>6 DEF MergedOK
        <3> QED BY <1>1, <1>4, <1>7, <2>1, <2>2, <3>1, StillServer
    <2>3. CASE k # h
        <3>1. PICK r : Row(k)' = r /\ RowOK(k, r)
            BY <1>9, <2>3
        <3> QED BY <1>1, <1>2, <1>8, <2>1, <2>3, <3>1, StillServer DEF RowsInv
    <2> QED BY <2>2, <2>3
<1>12. CursorInv'
    <2> SUFFICES ASSUME checkpoint # None, NEW k \in Handle
                 PROVE  /\ Covers(k, store[k], checkpoint)'
                        /\ Covers(k, Row(k), checkpoint)'
        BY <1>1 DEF CursorInv
    <2>1. Covers(k, store[k], checkpoint) /\ Covers(k, Row(k), checkpoint)
        BY <1>2 DEF CursorInv
    <2>2. \E r : Row(k)' = r /\ Covers(k, r, checkpoint)
        <3>1. CASE k # h
            BY <1>9, <2>1, <3>1
        <3>2. CASE k = h /\ h \notin ServerHandle
            BY <1>2, <1>4, <3>2, OffServer
        <3>3. CASE k = h /\ h \in ServerHandle
            BY <1>3, <1>4, <3>3 DEF MergedOK
        <3> QED BY <3>1, <3>2, <3>3
    <2> QED BY <1>1, <2>1, <2>2, StillServer
<1>13. SnapInv'
    BY <1>1, <1>2 DEF SnapInv, SnapOK, LoadedBefore, Newer, GoneSince, Past
<1>14. JoinOK(h)' /\ OwedOK(h)'
    <2>1. h \notin todo' /\ opts \in Options
        BY <1>1 DEF SpineInv, PlaceInv
    <2>2. Covers(h, q, snap.checkpoint) \/ Retried(h)'
        <3>1. CASE h \notin ServerHandle
            BY <1>2, <1>4, <3>1, OffServer
        <3>2. CASE /\ opts.conflict = "PreferLocal"
                   /\ out.push # None /\ out.push.kind = "Update"
            BY <1>2, <1>7, <2>1, <3>2 DEF Retried, Cautious
        <3> QED BY <1>3, <1>4, <1>6, <3>1, <3>2 DEF MergedOK
    <2>3. JoinOK(h)'
        BY <1>1, <1>2, <1>4, <2>1, <2>2, StillServer DEF JoinOK
    <2>4. OwedOK(h)'
        BY <1>1, <1>3, <1>6, <1>7 DEF MergedOK, OwedOK, Newer, GoneSince
    <2> QED BY <2>3, <2>4
<1>15. ASSUME NEW k \in Handle \ {h} PROVE JoinOK(k)' /\ OwedOK(k)'
    <2>1. JoinOK(k) /\ OwedOK(k)
        BY <1>2 DEF RunInv
    <2>2. PICK r : /\ Row(k)' = r
                   /\ r = Row(k) \/ (k \notin ServerHandle /\ \A c : Covers(k, r, c))
        BY <1>9
    <2>3. Retried(k) => Retried(k)'
        BY <1>1, <1>8 DEF Retried
    <2>4. JoinOK(k)'
        BY <1>1, <2>1, <2>2, <2>3, StillServer DEF JoinOK
    <2>5. OwedOK(k)'
        BY <1>1, <1>8, <2>1 DEF OwedOK, Newer, GoneSince
    <2> QED BY <2>4, <2>5
<1>16. \A k \in Handle : ResultOK(k)'
    BY <1>1 DEF ResultOK, IsAccepted, SpineInv, PlaceInv
<1>17. PlaceInv'
    BY <1>1, <1>2 DEF SpineInv, PlaceInv
<1> QED BY <1>2, <1>10, <1>11, <1>12, <1>13, <1>14, <1>15, <1>16, <1>17
        DEF SpineInv, RunInv

LEMMA MergeStepSpine ==
    ASSUME Inv, Inv', SpineInv, MergeStep
    PROVE  SpineInv'
<1>1. PICK h \in todo : todo' = todo \ {h} /\ (Skip(h) \/ Merge(h))
    BY LeastIn, HandleFacts DEF Inv, TypeOK, MergeStep
<1> QED BY <1>1, SkipSpine, CandidateSpine

--------------------------------------------------------------------------------
(* The theorems.                                                           *)

LEMMA InitSpine == Init /\ Cautious => SpineInv
<1> SUFFICES ASSUME Init, Cautious PROVE SpineInv
    OBVIOUS
<1>1. Inv
    BY InitInv
<1>2. Seeded \subseteq ServerHandle /\ Seeded \in SUBSET Handle /\ IsFiniteSet(Seeded)
    BY HandleFacts, RemoteAssumption, FS_Subset
<1>3. ASSUME NEW h \in Handle
      PROVE  Cardinality({k \in Seeded : k <= h}) <= Cardinality(Seeded)
    BY <1>2, FS_Subset
<1>4. ServerInv
    <2>1. ASSUME NEW h \in Handle, items[h] # None
          PROVE  /\ h \in ServerHandle /\ items[h].rev = items[h].seq
                 /\ items[h].seq <= seq
        <3> DEFINE stamp == Cardinality({k \in Seeded : k <= h})
        <3>1. h \in Seeded /\ seq = Cardinality(Seeded)
              /\ items[h] = Member(Hint[h], {}, SeedBody, stamp)
            BY <2>1 DEF Init, RemoteInit
        <3>2. items[h].seq = stamp /\ items[h].rev = stamp
            BY <3>1 DEF Member
        <3> QED BY <1>2, <1>3, <3>1, <3>2
    <2>2. checkpoint = None /\ \A h \in Handle : gone[h] = 0
        BY DEF Init, RemoteInit
    <2> QED BY <1>1, <2>1, <2>2, ItemFacts DEF ServerInv, Inv
<1>5. \A h \in Handle :
        /\ store[h] = None /\ Row(h) = None /\ local[h] = None
        /\ pending_flag_pushes[h] = None /\ pending_content_pushes[h] = None
        /\ pending_creates[h] = None
    BY DEF Init, NoRun, None4All, Row, Applied
<1>6. RowsInv
    BY <1>5 DEF RowsInv, RowOK
<1>7. CursorInv
    BY DEF Init, CursorInv
<1>8. PlaceInv /\ ~Enumerated
    BY DEF Init, NoRun, RemoteInit, PlaceInv, Enumerated
<1> QED BY <1>4, <1>6, <1>7, <1>8 DEF SpineInv

LEMMA SpineNext == Inv /\ Inv' /\ SpineInv /\ [Next]_vars => SpineInv'
<1> SUFFICES ASSUME Inv, Inv', SpineInv, [Next]_vars PROVE SpineInv'
    OBVIOUS
<1>1. ASSUME NEW o \in Options, Begin(o) PROVE SpineInv'
    BY <1>1, BeginSpine
<1>2. CASE Run
    BY <1>2, EnumerateSpine, MergeStepSpine, MergeWriteSpine, MergeEndSpine,
       ServeSpine, PushOutcomesSpine, ChunkWriteSpine, LastWriteSpine DEF Run
<1>3. CASE User
    BY <1>3, UserSpine
<1>4. CASE Others
    BY <1>4, OthersSpine
<1>5. CASE Fault
    BY <1>5, FaultSpine
<1>6. CASE UNCHANGED vars
    <2>1. UNCHANGED <<items, gone, seq, results, stored, pc, opts, local, snap,
                      todo, writes, pushes, in_flight, unserved,
                      next_checkpoint, pendings>>
        BY <1>6 DEF vars
    <2>2. \A h \in Handle : /\ Row(h)' = Row(h) /\ Owed(h)' = Owed(h)
                            /\ Retried(h)' <=> Retried(h)
        BY <2>1 DEF Row, Owed, Retried
    <2>3. RowsInv'
        BY <2>1, <2>2, StillServer DEF SpineInv, RowsInv
    <2>4. CursorInv'
        BY <2>1, <2>2, StillServer DEF SpineInv, CursorInv
    <2>5. ServerInv' /\ Cautious' /\ PlaceInv' /\ (Enumerated' <=> Enumerated)
        BY <2>1 DEF SpineInv, ServerInv, Cautious, PlaceInv, Enumerated
    <2>6. ASSUME RunInv PROVE RunInv'
        <3>1. SnapInv'
            BY <2>1, <2>6 DEF RunInv, SnapInv, SnapOK, LoadedBefore, Newer,
                              GoneSince, Past
        <3>2. ASSUME NEW h \in Handle
              PROVE  JoinOK(h)' /\ OwedOK(h)' /\ ResultOK(h)'
            <4>1. JoinOK(h)'
                BY <2>1, <2>2, <2>6, StillServer DEF RunInv, JoinOK
            <4>2. OwedOK(h)'
                BY <2>1, <2>2, <2>6 DEF RunInv, OwedOK, Newer, GoneSince
            <4>3. ResultOK(h)'
                BY <2>1, <2>6 DEF RunInv, ResultOK, IsAccepted, Moved, Newer,
                                  GoneSince, Past, Based
            <4> QED BY <4>1, <4>2, <4>3
        <3> QED BY <3>1, <3>2 DEF RunInv
    <2> QED BY <2>3, <2>4, <2>5, <2>6 DEF SpineInv
<1> QED BY <1>1, <1>2, <1>3, <1>4, <1>5, <1>6 DEF Next

LEMMA SpineHolds == Cautious /\ Spec => [](Inv /\ SpineInv)
<1>1. Init /\ Cautious => SpineInv
    BY InitSpine
<1>2. Inv /\ Inv' /\ SpineInv /\ [Next]_vars => SpineInv'
    BY SpineNext
<1> QED BY <1>1, <1>2, InvHolds, PTL DEF Spec

(* The cursor of every reachable state claims nothing the stored           *)
(* placements do not hold, so a delta enumeration misses nothing: whatever *)
(* a run is interrupted by, wherever its batches and chunks are cut, and   *)
(* whoever else writes to the remote (sync.rs, ReplicaSync::batch: the     *)
(* checkpoint lands in the last write only).                               *)
THEOREM CursorHonest == Cautious /\ Spec => []SpineComplete
<1>1. SpineInv => SpineComplete
    BY DEF SpineInv, CursorInv, Covers, SpineComplete
<1> QED BY <1>1, SpineHolds, PTL

(* Every edit and every delete goes out under the revision the server had  *)
(* when the run enumerated it: only what happened since can refuse it,     *)
(* whatever conflict a row had recorded and however the conflict was       *)
(* resolved (sync.rs, resolve_conflict and the push of a tombstone).       *)
THEOREM PreconditionsFresh == Cautious /\ Spec => []PreconditionFresh
<1>1. Inv /\ SpineInv => PreconditionFresh
    <2> SUFFICES ASSUME Inv, SpineInv, NEW h \in Handle, Mutable,
                        Owed(h) # None, Owed(h).kind \in {"Update", "Remove"},
                        items[h] # None, items[h].seq <= snap.checkpoint
                 PROVE  Owed(h).if_match = items[h].rev
        BY DEF PreconditionFresh
    <2>1. Enumerated
        BY DEF Inv, Phases, TypeOK, Owed, Enumerated
    <2>2. snap.checkpoint \in Nat /\ items[h].seq \in Nat
        BY <2>1, ItemFacts DEF Inv, Phases, Enumerated, ReplicaRemoteSnapshot
    <2>3. ~Newer(h)
        BY <2>2 DEF Newer
    <2> QED BY <2>1, <2>3 DEF SpineInv, RunInv, OwedOK
<1> QED BY <1>1, SpineHolds, PTL

(* No stored base pairs a revision with the body of another version,       *)
(* through every pull, confirmed push, placed create and resolved conflict *)
(* (sync.rs, rebase_content, rekey_create and pull_content; mutate.rs, the *)
(* edit that resolves a conflict). Of a version that is a server-side copy *)
(* it may hold what the create was staged with instead: rekey_create       *)
(* records that as synced, whatever the origin's body was.                 *)
THEOREM BasesPaired == Cautious /\ Spec => []BasePairsBody
<1>1. SpineInv => BasePairsBody
    BY DEF SpineInv, RowsInv, RowOK, Based, BasePairsBody
<1> QED BY <1>1, SpineHolds, PTL

--------------------------------------------------------------------------------
(* Moves.                                                                  *)

(* A delete is that of the row the run loaded, and a move leaves no edit   *)
(* behind.                                                                 *)
RemovalOK(h) ==
    (Owed(h) # None /\ Owed(h).kind = "Remove") =>
        /\ local[h] # None /\ local[h].base # None
        /\ Owed(h).if_match = local[h].base.revision
        /\ Owed(h).to # None => ~StagedEdit(local[h])

MoveInv == \A h \in Handle : RemovalOK(h)

(* A run derives a delete of the row it loaded, and no other change makes  *)
(* one of it. *)
LEMMA MergedRemoval ==
    ASSUME Inv, SpineInv, pc = "Joining", NEW h \in todo, Merge(h),
           UNCHANGED <<in_flight, local>>
    PROVE  RemovalOK(h)' /\ \A k \in Handle \ {h} : Owed(k)' = Owed(k)
<1>1. /\ h \in Handle /\ local[h] \in Opt(ReplicaPlacement)
      /\ opts \in ReplicaSyncOptions
    BY AheadFacts
<1>2. Item(h) \in Opt(ReplicaRemoteItem)
    BY ItemOK DEF Merge
<1>3. OutcomeOf(h) = MergeCandidate(local[h], Item(h), opts)
    BY DEF OutcomeOf, Item
<1>4. Derives(OutcomeOf(h), local[h], opts)
    BY <1>1, <1>2, <1>3, MergeCandidateDerives
<1>5. Owed(h)' = OutcomeOf(h).push /\ \A k \in Handle \ {h} : Owed(k)' = Owed(k)
    BY MergeOwes
<1> HIDE DEF Derives
<1>6. PICK out : out = OutcomeOf(h)
    OBVIOUS
<1> QED BY <1>4, <1>5, <1>6 DEF RemovalOK, Derives

LEMMA MoveNext == Inv /\ Inv' /\ SpineInv /\ MoveInv /\ [Next]_vars => MoveInv'
<1> SUFFICES ASSUME Inv, Inv', SpineInv, MoveInv, [Next]_vars, NEW h \in Handle
             PROVE  RemovalOK(h)'
    BY DEF MoveInv
<1>1. ASSUME Owed(h)' \in {None, Owed(h)}, local' = local
      PROVE  RemovalOK(h)'
    BY <1>1 DEF MoveInv, RemovalOK
<1>2. ASSUME pc' \in {"Idle", "PendingEnumerate"} PROVE RemovalOK(h)'
    <2>1. Owed(h)' = None
        BY <1>2 DEF Inv, Phases, Owed
    <2> QED BY <2>1 DEF RemovalOK
<1>3. ASSUME UNCHANGED <<pushes, in_flight, local>> PROVE RemovalOK(h)'
    BY <1>1, <1>3 DEF Owed
<1>4. CASE \E o \in Options : Begin(o)
    BY <1>2, <1>4 DEF Begin
<1>5. CASE Enumerate \/ MergeWrite \/ Serve
    BY <1>3, <1>5 DEF Enumerate, MergeWrite, Serve
<1>6. CASE MergeStep
    <2>1. PICK k \in todo : Skip(k) \/ Merge(k)
        BY <1>6, LeastIn, HandleFacts DEF Inv, TypeOK, MergeStep
    <2>2. pc = "Joining" /\ UNCHANGED <<in_flight, local>>
        BY <1>6 DEF MergeStep
    <2>3. CASE Skip(k)
        BY <1>3, <2>2, <2>3 DEF Skip
    <2>4. CASE Merge(k)
        BY <1>1, <2>2, <2>4, MergedRemoval
    <2> QED BY <2>1, <2>3, <2>4
<1>7. CASE MergeEnd \/ ChunkWrite
    <2>1. Step /\ pc # "PendingPush" /\ local' = local
        BY <1>7 DEF MergeEnd, ChunkWrite
    <2>2. unserved = {}
        BY <2>1 DEF SpineInv, PlaceInv
    <2> QED BY <1>1, <2>1, <2>2, StepOwes
<1>8. CASE PushOutcomes
    <2>1. in_flight' = None4All /\ UNCHANGED <<pushes, local>>
        BY <1>8 DEF PushOutcomes
    <2>2. Owed(h)' \in {None, Owed(h)}
        BY <2>1 DEF Owed, None4All
    <2> QED BY <1>1, <2>1, <2>2
<1>9. CASE LastWrite \/ Crash
    BY <1>2, <1>9 DEF LastWrite, Crash, EndRun
<1>10. CASE User \/ Others \/ Refuse \/ \E k \in Handle : Silence(k)
    BY <1>3, <1>10, UserMutates, OthersMove
       DEF Mutate, OtherClient, Refuse, Silence
<1>11. CASE UNCHANGED vars
    BY <1>3, <1>11 DEF vars
<1> QED BY <1>4, <1>5, <1>6, <1>7, <1>8, <1>9, <1>10, <1>11 DEF Next, Run, Fault

(* A move that can still land finds the body the user last saved on the    *)
(* server, whatever the edit before it met on its way: a refusal, a lost   *)
(* outcome, a crash between the two runs (sync.rs, merge: "the move must   *)
(* not go without the edit"). A version that is a server-side copy is only *)
(* known to have been asked for with that body. Immutable content has no   *)
(* revision a precondition could name, and no edits.                       *)
THEOREM MovesCarryEdits == Mutable /\ Cautious /\ Spec => []MoveCarriesEdit
<1> SUFFICES ASSUME Mutable PROVE Cautious /\ Spec => []MoveCarriesEdit
    OBVIOUS
<1>1. Init => MoveInv
    BY InitInv DEF Init, NoRun, None4All, MoveInv, RemovalOK, Owed
<1>2. Inv /\ SpineInv /\ MoveInv => MoveCarriesEdit
    <2> SUFFICES ASSUME Inv, SpineInv, MoveInv, NEW h \in Handle,
                        Owed(h) # None, Owed(h).kind = "Remove",
                        Owed(h).to # None, items[h] # None,
                        ~Stale(h, Owed(h).if_match), local[h].object # None
                 PROVE  local[h].object \in {items[h].body, items[h].asked}
        BY DEF MoveCarriesEdit
    <2>1. /\ local[h] # None /\ local[h].base # None
          /\ Owed(h).if_match = local[h].base.revision
          /\ ~StagedEdit(local[h])
        BY DEF MoveInv, RemovalOK
    <2>2. local[h].base.object = local[h].object
        BY <2>1 DEF StagedEdit
    <2>3. local[h].base.revision = items[h].rev /\ local[h].base.revision # None
        BY <2>1, SentinelAssumption DEF Stale, Inv, TypeOK, ServerItem
    <2> QED BY <2>1, <2>2, <2>3 DEF SpineInv, RowsInv, RowOK, Based
<1> QED BY <1>1, <1>2, MoveNext, SpineHolds, PTL DEF Spec

================================================================================
