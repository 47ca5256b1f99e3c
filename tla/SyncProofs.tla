------------------------------- MODULE SyncProofs -------------------------------
(***************************************************************************)
(* Type correctness of the sync and the one-change-per-handle discipline,  *)
(* for every set of handles, flags, bodies, options and every chunk size.  *)
(***************************************************************************)
EXTENDS Sync, MergeProofs, FiniteSetTheorems, WellFoundedInduction

USE DEF Opt, Revision

(* What the place of the coroutine says of what it holds. *)
Phases ==
    /\ pc # "Idle" => opts \in ReplicaSyncOptions
    /\ pc \in {"Joining", "Merging", "PendingPush", "PendingWrite"} =>
          snap \in ReplicaRemoteSnapshot
    /\ pc \in {"Idle", "PendingEnumerate"} =>
          \A h \in Handle : pushes[h] = None
    /\ pc # "PendingPush" => \A h \in Handle : in_flight[h] = None
    /\ \A h \in unserved : in_flight[h] \in ReplicaChange
    /\ \A h \in todo : pushes[h] = None

(* The inductive invariant. *)
Inv == TypeOK /\ Phases /\ OnePushPerHandle

(* A non-empty set of naturals has a least element. *)
LEMMA LeastIn ==
    ASSUME NEW S \in SUBSET Nat, S # {}
    PROVE  Least(S) \in S /\ \A y \in S : Least(S) <= y
<1> DEFINE less == {ss \in Nat \X Nat : ss[1] < ss[2]}
<1>1. IsWellFoundedOn(less, Nat)
    BY NatLessThanWellFounded, Zenon DEF OpToRel
<1> HIDE DEF less
<1>2. \E x \in S : \A y \in S : ~(<<y, x>> \in less)
    BY <1>1, WFMin
<1>3. \A x, y \in Nat : x < y => <<x, y>> \in less
    BY DEF less
<1>4. PICK x \in S : \A y \in S : ~(y < x)
    BY <1>2, <1>3
<1>5. \A y \in S : x <= y
    BY <1>4
<1> QED BY <1>5 DEF Least

--------------------------------------------------------------------------------
(* Typing of what the actions are built from.                              *)

LEMMA HandleFacts ==
    /\ Handle \subseteq Nat /\ IsFiniteSet(Handle)
    /\ ServerHandle \subseteq Handle /\ Seeded \subseteq Handle
    /\ Foreign \subseteq Body /\ SeedBody \in Body
    /\ Hint \in [ServerHandle -> LinkId] /\ Authored \subseteq LinkId
    /\ Options \subseteq ReplicaSyncOptions
    /\ None4All \in [Handle -> {None}]
BY RemoteAssumption, SyncAssumption DEF None4All, SeedBody

(* A member made, and one given a body. *)
LEMMA MemberFacts ==
    ASSUME NEW link \in LinkId, NEW flags \in ReplicaFlags, NEW body \in Body,
           NEW n \in Nat
    PROVE  LET m == Member(link, flags, body, n)
           IN  /\ m \in ServerItem
               /\ m.link = link /\ m.flags = flags
               /\ m.body = body /\ m.asked = body /\ m.seq = n /\ m.rev = n
BY DEF Member, ServerItem, Revision

LEMMA RewrittenFacts ==
    ASSUME NEW item \in ServerItem, NEW body \in Body, NEW n \in Nat
    PROVE  LET m == Rewritten(item, body, n)
           IN  /\ m \in ServerItem
               /\ m.link = item.link /\ m.flags = item.flags
               /\ m.body = body /\ m.asked = body /\ m.seq = n /\ m.rev = n
BY DEF Rewritten, ServerItem, Revision

LEMMA SnapshotType ==
    ASSUME TypeOK, NEW cursor \in Opt(Nat)
    PROVE  Snapshot(cursor) \in ReplicaRemoteSnapshot
<1>1. ASSUME NEW h \in Handle, items[h] # None
      PROVE  [flags |-> items[h].flags, revision |-> RevisionOf(items[h].rev)]
                \in ReplicaRemoteItem
    BY <1>1 DEF TypeOK, ServerItem, RevisionOf, ReplicaRemoteItem
<1> QED BY <1>1 DEF Snapshot, ReplicaRemoteSnapshot, TypeOK

LEMMA AnswerTypes ==
    /\ Rejected \in PushResult
    /\ \A assigned \in Opt(Handle), revision \in Opt(Revision) :
          Accepted(assigned, revision) \in PushResult
BY DEF Rejected, Accepted, PushResult

--------------------------------------------------------------------------------
(* Every action preserves the invariant.                                   *)

USE DEF remoteVars, stored, mergeVars, pendings, runVars

LEMMA InitInv == Init => Inv
<1> SUFFICES ASSUME Init PROVE Inv
    OBVIOUS
<1>1. Seeded \in SUBSET Handle /\ IsFiniteSet(Seeded)
    BY HandleFacts, FS_Subset
<1>2. Cardinality(Seeded) \in Nat
    BY <1>1, FS_CardinalityType
<1>3. \A h \in Handle : Cardinality({k \in Seeded : k <= h}) \in Nat
    <2> SUFFICES ASSUME NEW h \in Handle
                 PROVE  Cardinality({k \in Seeded : k <= h}) \in Nat
        OBVIOUS
    <2>1. IsFiniteSet({k \in Seeded : k <= h})
        BY <1>1, FS_Subset
    <2> QED BY <2>1, FS_CardinalityType
<1>4. items \in [Handle -> Opt(ServerItem)]
    <2>1. ASSUME NEW h \in Seeded
          PROVE  Member(Hint[h], {}, SeedBody, Cardinality({k \in Seeded : k <= h}))
                    \in ServerItem
        <3>1. h \in Handle /\ Hint[h] \in LinkId /\ {} \in ReplicaFlags
            BY <1>1, HandleFacts, RemoteAssumption DEF ReplicaFlags
        <3> QED BY <1>3, <3>1, HandleFacts, MemberFacts
    <2> QED BY <2>1 DEF Init, RemoteInit
<1>5. TypeOK
    BY <1>2, <1>4, HandleFacts DEF Init, RemoteInit, NoRun, None4All, TypeOK
<1>6. Phases
    BY DEF Init, NoRun, None4All, Phases
<1>7. OnePushPerHandle
    BY DEF Init, NoRun, None4All, OnePushPerHandle, Owed
<1> QED BY <1>5, <1>6, <1>7 DEF Inv

LEMMA BeginInv ==
    ASSUME Inv, NEW o \in Options, Begin(o)
    PROVE  Inv'
<1>1. TypeOK'
    BY HandleFacts DEF Inv, TypeOK, Begin
<1>2. Phases'
    BY HandleFacts DEF Inv, Phases, Begin
<1>3. OnePushPerHandle'
    BY DEF Inv, OnePushPerHandle, Owed, Begin
<1> QED BY <1>1, <1>2, <1>3 DEF Inv

LEMMA EnumerateInv ==
    ASSUME Inv, Enumerate
    PROVE  Inv'
<1>1. snap' \in ReplicaRemoteSnapshot
    BY SnapshotType DEF Inv, TypeOK, Enumerate
<1>2. TypeOK'
    BY <1>1 DEF Inv, TypeOK, Enumerate
<1>3. Phases'
    BY <1>1 DEF Inv, Phases, TypeOK, Enumerate
<1>4. OnePushPerHandle'
    BY DEF Inv, OnePushPerHandle, Owed, Enumerate
<1> QED BY <1>2, <1>3, <1>4 DEF Inv

(* The write of a batch. *)
LEMMA WriteBatchType ==
    ASSUME TypeOK, WriteBatch
    PROVE  /\ store' \in [Handle -> Opt(ReplicaPlacement)]
           /\ checkpoint' \in Opt(Nat)
           /\ writes' \in [Handle -> ReplicaWriteOp \cup {Keep}]
           /\ nops' \in Nat
           /\ unrecorded' \in SUBSET Handle
<1>1. \A h \in Handle : writes[h] # Keep /\ writes[h].op # "DropPlacement" =>
            writes[h].row \in ReplicaPlacement
    BY DEF TypeOK, ReplicaWriteOp
<1>2. store' \in [Handle -> Opt(ReplicaPlacement)]
    BY <1>1 DEF WriteBatch, Applied, TypeOK
<1> QED BY <1>2 DEF WriteBatch, TypeOK

LEMMA MergeWriteInv ==
    ASSUME Inv, MergeWrite
    PROVE  Inv'
<1>1. TypeOK'
    BY WriteBatchType DEF Inv, TypeOK, MergeWrite
<1>2. Phases'
    BY DEF Inv, Phases, MergeWrite
<1>3. OnePushPerHandle'
    BY DEF Inv, OnePushPerHandle, Owed, MergeWrite
<1> QED BY <1>1, <1>2, <1>3 DEF Inv

(* What a candidate's merge yields. *)
LEMMA OutcomeSound ==
    ASSUME Inv, pc = "Joining", NEW h \in todo, ~Untouched(h)
    PROVE  Sound(OutcomeOf(h))
<1>1. /\ h \in Handle /\ local[h] \in Opt(ReplicaPlacement)
      /\ opts \in ReplicaSyncOptions
    BY DEF Inv, TypeOK, Phases
<1>2. snap.items[h] \in Opt(ReplicaRemoteItem)
    BY <1>1 DEF Inv, Phases, ReplicaRemoteSnapshot
<1>3. CASE snap.complete
    BY <1>1, <1>2, <1>3, MergeCandidateSound DEF OutcomeOf
<1>4. CASE ~snap.complete
    <2>1. local[h] # None => StandIn(local[h]) \in Opt(ReplicaRemoteItem)
        BY <1>1 DEF StandIn, ReplicaPlacement, ReplicaBase, ReplicaRemoteItem
    <2>2. h \in snap.vanished \/ snap.items[h] # None \/ local[h] # None
        BY <1>4 DEF Untouched, IsCandidate
    <2>3. NarrowedItem(local[h], snap.items[h], h \in snap.vanished)
            \in Opt(ReplicaRemoteItem)
        BY <1>2, <2>1, <2>2 DEF NarrowedItem
    <2> QED BY <1>1, <1>4, <2>3, MergeCandidateSound DEF OutcomeOf
<1> QED BY <1>3, <1>4

LEMMA MergeStepInv ==
    ASSUME Inv, MergeStep
    PROVE  Inv'
<1> DEFINE h == Least(todo)
<1>1. h \in todo /\ h \in Handle
    BY LeastIn, HandleFacts DEF Inv, TypeOK, MergeStep
<1>2. pc = "Joining" /\ todo' = todo \ {h} /\ (Skip(h) \/ Merge(h))
    BY DEF MergeStep
<1> HIDE DEF h
<1>3. CASE Skip(h)
    <2>1. TypeOK'
        BY <1>2, <1>3 DEF Inv, TypeOK, MergeStep, Skip
    <2>2. Phases'
        BY <1>2, <1>3 DEF Inv, Phases, MergeStep, Skip
    <2>3. OnePushPerHandle'
        BY <1>3 DEF Inv, OnePushPerHandle, Owed, MergeStep, Skip
    <2> QED BY <2>1, <2>2, <2>3 DEF Inv
<1>4. CASE Merge(h)
    <2> DEFINE out == OutcomeOf(h)
    <2>1. out \in Outcome /\ Agrees(out)
        BY <1>1, <1>2, <1>4, OutcomeSound DEF Merge, Sound
    <2>2. /\ pushes' = IF out.push = None THEN pushes
                       ELSE [pushes EXCEPT ![h] = out.push]
          /\ pending_flag_pushes' =
                IF out.flag = None THEN pending_flag_pushes
                ELSE [pending_flag_pushes EXCEPT ![h] = out.flag]
          /\ pending_content_pushes' =
                IF out.content = None THEN pending_content_pushes
                ELSE [pending_content_pushes EXCEPT ![h] = out.content]
          /\ pending_drops' =
                IF out.drop THEN pending_drops \cup {h} ELSE pending_drops
          /\ pending_creates' =
                IF out.create = None THEN pending_creates
                ELSE [pending_creates EXCEPT ![h] = out.create]
          /\ nops' = nops + out.ops
          /\ pc' \in {"Merging", "Joining"}
        BY <1>4 DEF Merge
    <2>3. writes' \in [Handle -> ReplicaWriteOp \cup {Keep}]
        <3> DEFINE put == IF out.put = Keep THEN writes
                          ELSE [writes EXCEPT ![h] = out.put]
        <3>1. put \in [Handle -> ReplicaWriteOp \cup {Keep}]
            BY <2>1 DEF Inv, TypeOK, Outcome
        <3>2. out.dup # None => Upsert(out.dup) \in ReplicaWriteOp
            BY <2>1, OpTypes DEF Outcome
        <3>3. writes' = IF out.dup = None THEN put
                        ELSE [put EXCEPT ![Fork[<<h, local[h].object>>]] =
                                             Upsert(out.dup)]
            BY <1>4 DEF Merge
        <3> HIDE DEF put, out
        <3> QED BY <3>1, <3>2, <3>3
    <2> HIDE DEF out
    <2>4. TypeOK'
        <3>1. /\ pushes' \in [Handle -> Opt(ReplicaChange)]
              /\ pending_flag_pushes' \in [Handle -> Opt(ReplicaPlacement)]
              /\ pending_content_pushes' \in [Handle -> Opt(ReplicaPlacement)]
              /\ pending_drops' \in SUBSET Handle
              /\ pending_creates' \in [Handle -> Opt(ReplicaPlacement)]
              /\ nops' \in Nat
            BY <1>1, <2>1, <2>2 DEF Inv, TypeOK, Outcome
        <3> QED BY <1>2, <2>2, <2>3, <3>1 DEF Inv, TypeOK, MergeStep
    <2>5. Phases'
        <3>1. \A k \in todo' : pushes'[k] = None
            BY <1>2, <2>2 DEF Inv, Phases, TypeOK
        <3> QED BY <1>2, <2>2, <3>1 DEF Inv, Phases, MergeStep
    <2>6. OnePushPerHandle'
        <3>1. in_flight' = in_flight /\ \A k \in Handle : in_flight[k] = None
            BY <1>2 DEF Inv, Phases, MergeStep
        <3>2. /\ pushes[h] = None
              /\ pending_flag_pushes[h] = None /\ pending_content_pushes[h] = None
              /\ h \notin pending_drops /\ pending_creates[h] = None
            BY <1>1, <3>1 DEF Inv, Phases, OnePushPerHandle, Owed
        <3>3. ASSUME NEW k \in Handle, k # h
              PROVE  /\ pushes'[k] = pushes[k]
                     /\ pending_flag_pushes'[k] = pending_flag_pushes[k]
                     /\ pending_content_pushes'[k] = pending_content_pushes[k]
                     /\ k \in pending_drops' <=> k \in pending_drops
                     /\ pending_creates'[k] = pending_creates[k]
            BY <1>1, <2>2, <3>3 DEF Inv, TypeOK
        <3>4. /\ pushes'[h] = out.push
              /\ pending_flag_pushes'[h] = out.flag
              /\ pending_content_pushes'[h] = out.content
              /\ h \in pending_drops' <=> out.drop = TRUE
              /\ pending_creates'[h] = out.create
            BY <1>1, <2>1, <2>2, <3>2 DEF Inv, TypeOK, Outcome
        <3> QED
            BY <2>1, <3>1, <3>3, <3>4 DEF Inv, OnePushPerHandle, Owed, Agrees
    <2> QED BY <2>4, <2>5, <2>6 DEF Inv
<1> QED BY <1>2, <1>3, <1>4

(* The next chunk leaves the queue for the wire; what a handle owes stays. *)
LEMMA StepMoves ==
    ASSUME Inv, Step, \A h \in Handle : in_flight[h] = None, unserved = {}
    PROVE  /\ pc' \in {"PendingWrite", "PendingPush"}
           /\ pushes' \in [Handle -> Opt(ReplicaChange)]
           /\ in_flight' \in [Handle -> Opt(ReplicaChange)]
           /\ unserved' \in SUBSET Handle
           /\ \A h \in unserved' : in_flight'[h] \in ReplicaChange
           /\ \A h \in Handle :
                 /\ pushes'[h] = None \/ in_flight'[h] = None
                 /\ (IF pushes'[h] # None THEN pushes'[h] ELSE in_flight'[h])
                        = Owed(h)
                 /\ pushes[h] = None => pushes'[h] = None
           /\ pc' = "PendingWrite" => \A h \in Handle : in_flight'[h] = None
<1>1. NextChunk \subseteq Handle /\ \A h \in NextChunk : pushes[h] # None
    BY DEF NextChunk
<1>2. CASE pushes = None4All
    BY <1>2 DEF Inv, TypeOK, Step, Owed
<1>3. CASE pushes # None4All
    BY <1>1, <1>3 DEF Inv, TypeOK, Step, Owed
<1> QED BY <1>2, <1>3

LEMMA MergeEndInv ==
    ASSUME Inv, MergeEnd
    PROVE  Inv'
<1>1. Step /\ (\A h \in Handle : in_flight[h] = None) /\ unserved = {}
    BY MergeAssumption DEF Inv, Phases, MergeEnd, TypeOK
<1>2. snap \in ReplicaRemoteSnapshot /\ snap.checkpoint \in Nat
    BY DEF Inv, Phases, MergeEnd, ReplicaRemoteSnapshot
<1>3. TypeOK'
    BY <1>1, <1>2, StepMoves DEF Inv, TypeOK, MergeEnd
<1>4. Phases'
    BY <1>1, <1>2, StepMoves DEF Inv, TypeOK, Phases, MergeEnd
<1>5. OnePushPerHandle'
    BY <1>1, StepMoves DEF Inv, OnePushPerHandle, Owed, MergeEnd
<1> QED BY <1>3, <1>4, <1>5 DEF Inv

(* A stamp on an item of the server. *)
LEMMA StampTypes ==
    ASSUME TypeOK, NEW h \in Handle, items[h] # None, NEW n \in Nat
    PROVE  /\ \A flags \in ReplicaFlags :
                 [items EXCEPT ![h] = [@ EXCEPT !.flags = flags, !.seq = n]]
                    \in [Handle -> Opt(ServerItem)]
           /\ \A body \in Body :
                 [items EXCEPT ![h] = Rewritten(@, body, n)]
                    \in [Handle -> Opt(ServerItem)]
<1>1. items[h] \in ServerItem
    BY DEF TypeOK
<1>2. \A flags \in ReplicaFlags :
        [items[h] EXCEPT !.flags = flags, !.seq = n] \in ServerItem
    BY <1>1 DEF ServerItem
<1>3. \A body \in Body : Rewritten(items[h], body, n) \in ServerItem
    BY <1>1, RewrittenFacts
<1> QED BY <1>2, <1>3 DEF TypeOK

(* An add makes nothing, or a member at a handle nobody has had: one of    *)
(* the body and the flags it came with, unless it is a copy.               *)
LEMMA AddedFacts ==
    ASSUME TypeOK, NEW h \in Handle, NEW change \in ReplicaChange,
           PushAdd(h, change)
    PROVE  /\ change.kind = "Add" /\ gone' = gone
           /\ \/ /\ UNCHANGED <<items, seq, landed>>
                 /\ \/ Answer(h, Rejected)
                    \/ change.object = None /\ Answer(h, Accepted(None, None))
              \/ \E new \in Unassigned, m \in ServerItem :
                    /\ new \in ServerHandle /\ new \in Handle
                    /\ seq' = seq + 1
                    /\ items' = [items EXCEPT ![new] = m]
                    /\ landed' = landed \cup {m.body}
                    /\ \/ Answer(h, Accepted(new, RevisionOf(seq + 1)))
                       \/ Answer(h, Accepted(None, None))
                    /\ m.seq = seq + 1 /\ m.rev = seq + 1
                    /\ m.flags \in {change.flags} \cup SUBSET Flag
                    /\ change.object # None => m.asked = change.object
                    /\ change.origin = None =>
                          m.body = change.object /\ m.flags = change.flags
<1>1. /\ change.kind = "Add" /\ gone' = gone
      /\ change.flags \in ReplicaFlags /\ change.object \in Opt(Body)
      /\ change.link_id \in Opt(LinkId) /\ seq + 1 \in Nat
    BY DEF PushAdd, ReplicaChange, TypeOK
<1>3. CASE UNCHANGED <<items, seq, landed>>
    BY <1>1, <1>3 DEF PushAdd, TypeOK
<1>4. CASE ~ UNCHANGED <<items, seq, landed>>
    <2> DEFINE new == Least(Unassigned)
               made(flags, body) == AddedMember(change, new, flags, body)
    <2>1. PICK body \in AddedBodies(change), flags \in AddedFlags(change),
               reported \in Uidplus :
            /\ Unassigned # {} /\ seq' = seq + 1
            /\ items' = [items EXCEPT ![new] = made(flags, body)]
            /\ landed' = landed \cup {body}
            /\ Answer(h, IF reported
                         THEN Accepted(new, RevisionOf(seq + 1))
                         ELSE Accepted(None, None))
        BY <1>4 DEF PushAdd
    <2>2. new \in Unassigned /\ new \in ServerHandle /\ new \in Handle
        <3>1. Unassigned \in SUBSET Nat
            BY HandleFacts DEF Unassigned
        <3> QED BY <2>1, <3>1, LeastIn, HandleFacts DEF Unassigned
    <2>3. /\ body \in Body /\ flags \in ReplicaFlags
          /\ flags \in {change.flags} \cup SUBSET Flag
          /\ change.origin = None => body = change.object /\ flags = change.flags
        BY <1>1, HandleFacts DEF AddedBodies, AddedFlags, ReplicaFlags
    <2> DEFINE link  == IF change.origin # None \/ change.link_id = None
                        THEN Hint[new] ELSE change.link_id
               asked == IF change.object = None THEN body ELSE change.object
               plain == Member(link, flags, body, seq + 1)
               m     == [plain EXCEPT !.asked = asked]
    <2>4. link \in LinkId /\ asked \in Body
        BY <1>1, <2>2, <2>3, HandleFacts
    <2>5. m = made(flags, body)
        BY DEF AddedMember
    <2> HIDE DEF link, made, new, asked
    <2>6. /\ plain \in ServerItem /\ plain.seq = seq + 1 /\ plain.rev = seq + 1
          /\ plain.flags = flags /\ plain.body = body
        BY <1>1, <2>3, <2>4, MemberFacts
    <2> HIDE DEF plain
    <2>7. /\ m \in ServerItem /\ m.seq = seq + 1 /\ m.rev = seq + 1
          /\ m.flags = flags /\ m.body = body /\ m.asked = asked
        BY <2>4, <2>6 DEF ServerItem
    <2>8. change.object # None => m.asked = change.object
        BY <2>7 DEF asked
    <2>9. \/ Answer(h, Accepted(new, RevisionOf(seq + 1)))
          \/ Answer(h, Accepted(None, None))
        BY <2>1
    <2> HIDE DEF m
    <2>10. items' = [items EXCEPT ![new] = m] /\ landed' = landed \cup {m.body}
        BY <2>1, <2>5, <2>7
    <2> QED BY <1>1, <2>1, <2>2, <2>3, <2>7, <2>8, <2>9, <2>10
<1> QED BY <1>3, <1>4

LEMMA PushTypes ==
    ASSUME TypeOK, NEW h \in Handle, NEW change \in ReplicaChange,
           Push(h, change)
    PROVE  /\ items' \in [Handle -> Opt(ServerItem)]
           /\ gone' \in [Handle -> Nat]
           /\ seq' \in Nat
           /\ results' \in [Handle -> Opt(PushResult)]
           /\ landed' \in SUBSET Body
<1>1. seq + 1 \in Nat /\ RevisionOf(seq + 1) \in Opt(Revision)
    BY DEF TypeOK, RevisionOf
<1>2. CASE PushSetFlags(h, change)
    <2>1. change.flags \in ReplicaFlags
        BY <1>2 DEF PushSetFlags, ReplicaChange
    <2>2. items' \in [Handle -> Opt(ServerItem)]
        BY <1>1, <1>2, <2>1, StampTypes DEF PushSetFlags, TypeOK
    <2> QED
        BY <1>1, <1>2, <2>2, AnswerTypes DEF PushSetFlags, Answer, TypeOK
<1>3. CASE PushRemove(h, change)
    <2>1. CASE Stale(h, change.if_match)
        BY <1>3, <2>1, AnswerTypes DEF PushRemove, Answer, TypeOK
    <2>2. CASE ~Stale(h, change.if_match)
        <3>1. Accepted(None, None) \in PushResult
            BY AnswerTypes
        <3> QED BY <1>1, <1>3, <2>2, <3>1 DEF PushRemove, Answer, TypeOK
    <2> QED BY <2>1, <2>2
<1>4. CASE PushUpdate(h, change)
    <2>1. change.object \in Body
        BY <1>4 DEF PushUpdate, ReplicaChange
    <2>2. items' \in [Handle -> Opt(ServerItem)]
        <3>1. CASE items[h] = None \/ Stale(h, change.if_match)
            BY <1>4, <3>1 DEF PushUpdate, TypeOK
        <3>2. CASE ~(items[h] = None \/ Stale(h, change.if_match))
            <4>1. items[h] # None
                BY <3>2
            <4>2. [items EXCEPT ![h] = Rewritten(@, change.object, seq + 1)]
                     \in [Handle -> Opt(ServerItem)]
                BY <1>1, <2>1, <4>1, StampTypes
            <4>3. items' = [items EXCEPT ![h] = Rewritten(@, change.object, seq + 1)]
                BY <1>4, <3>2 DEF PushUpdate
            <4> QED BY <4>2, <4>3
        <3> QED BY <3>1, <3>2
    <2>3. results' \in [Handle -> Opt(PushResult)]
        <3>1. /\ Rejected \in PushResult
              /\ Accepted(None, RevisionOf(seq + 1)) \in PushResult
            BY <1>1, AnswerTypes
        <3> QED BY <1>4, <3>1 DEF PushUpdate, Answer, TypeOK
    <2> QED BY <1>1, <1>4, <2>1, <2>2, <2>3 DEF PushUpdate, TypeOK
<1>5. CASE PushAdd(h, change)
    <2>1. \A a \in {None} \cup Handle, r \in {None, RevisionOf(seq + 1)} :
            Answer(h, Accepted(a, r)) => results' \in [Handle -> Opt(PushResult)]
        <3>1. ASSUME NEW a \in {None} \cup Handle,
                     NEW r \in {None, RevisionOf(seq + 1)}
              PROVE  Accepted(a, r) \in PushResult
            BY <1>1, AnswerTypes
        <3>2. \A x \in PushResult :
                 Answer(h, x) => results' \in [Handle -> Opt(PushResult)]
            BY DEF Answer, TypeOK
        <3> QED BY <3>1, <3>2
    <2>2. Answer(h, Rejected) => results' \in [Handle -> Opt(PushResult)]
        BY AnswerTypes DEF Answer, TypeOK
    <2>3. CASE UNCHANGED <<items, seq, landed>>
        BY <1>1, <1>5, <2>1, <2>2, <2>3, AddedFacts DEF TypeOK
    <2>4. CASE ~ UNCHANGED <<items, seq, landed>>
        <3>1. PICK new \in Handle, m \in ServerItem :
                /\ gone' = gone /\ seq' = seq + 1
                /\ items' = [items EXCEPT ![new] = m]
                /\ landed' = landed \cup {m.body}
                /\ \/ Answer(h, Accepted(new, RevisionOf(seq + 1)))
                   \/ Answer(h, Accepted(None, None))
            BY <1>5, <2>4, AddedFacts
        <3>2. m.body \in Body
            BY DEF ServerItem
        <3> QED BY <1>1, <2>1, <3>1, <3>2 DEF TypeOK
    <2> QED BY <2>3, <2>4
<1> QED BY <1>2, <1>3, <1>4, <1>5 DEF Push

LEMMA ServeInv ==
    ASSUME Inv, Serve
    PROVE  Inv'
<1> DEFINE h == Least(unserved)
<1>1. h \in unserved /\ h \in Handle
    BY LeastIn, HandleFacts DEF Inv, TypeOK, Serve
<1>2. in_flight[h] \in ReplicaChange
    BY <1>1 DEF Inv, Phases
<1>3. /\ Push(h, in_flight[h])
      /\ unserved' = unserved \ {h} /\ unrecorded' = unrecorded \cup {h}
    BY DEF Serve
<1> HIDE DEF h
<1>4. TypeOK'
    BY <1>1, <1>2, <1>3, PushTypes DEF Inv, TypeOK, Serve
<1>5. Phases'
    BY <1>3 DEF Inv, Phases, Serve
<1>6. OnePushPerHandle'
    BY DEF Inv, OnePushPerHandle, Owed, Serve
<1> QED BY <1>4, <1>5, <1>6 DEF Inv

LEMMA PushOutcomesInv ==
    ASSUME Inv, PushOutcomes
    PROVE  Inv'
<1>1. ASSUME NEW k \in Handle, IsAccepted(k)
      PROVE  Confirmed(k) \in ReplicaWriteOp \cup {Keep}
    <2>1. results[k].revision \in Opt(Revision)
        BY <1>1 DEF Inv, TypeOK, IsAccepted, PushResult
    <2>2. pending_content_pushes[k] # None =>
            RebaseContent(pending_content_pushes[k], results[k].revision)
               \in ReplicaPlacement
        BY <2>1, RebaseContentType DEF Inv, TypeOK
    <2>3. pending_flag_pushes[k] # None =>
            Rebase(pending_flag_pushes[k], pending_flag_pushes[k].flags)
               \in ReplicaPlacement
        <3>1. SUFFICES ASSUME pending_flag_pushes[k] # None
                       PROVE  Rebase(pending_flag_pushes[k],
                                     pending_flag_pushes[k].flags)
                                 \in ReplicaPlacement
            OBVIOUS
        <3>2. /\ pending_flag_pushes[k] \in ReplicaPlacement
              /\ pending_flag_pushes[k].flags \in ReplicaFlags
            BY <3>1 DEF Inv, TypeOK, ReplicaPlacement
        <3> QED BY <3>2, FlagRewriteType
    <2>4. writes[k] \in ReplicaWriteOp \cup {Keep}
        BY DEF Inv, TypeOK
    <2>5. Drop("Superseded") \in ReplicaWriteOp /\ Drop("Deleted") \in ReplicaWriteOp
        BY OpTypes DEF DropReason
    <2> QED BY <2>2, <2>3, <2>4, <2>5, OpTypes DEF Confirmed
<1>2. ASSUME NEW k \in Handle, PlacedAt(k) # {}
      PROVE  Upsert(RekeyCreate(pending_creates[Least(PlacedAt(k))],
                                results[Least(PlacedAt(k))].revision))
                \in ReplicaWriteOp
    <2> DEFINE h == Least(PlacedAt(k))
    <2>1. h \in PlacedAt(k)
        BY <1>2, LeastIn, HandleFacts DEF PlacedAt
    <2> HIDE DEF h
    <2>2. /\ pending_creates[h] \in ReplicaPlacement
          /\ results[h].revision \in Opt(Revision)
        BY <2>1 DEF Inv, TypeOK, PlacedAt, IsAccepted, PushResult
    <2> QED BY <2>2, RekeyCreateType, OpTypes DEF h
<1>3. writes' \in [Handle -> ReplicaWriteOp \cup {Keep}]
    BY <1>1, <1>2 DEF Inv, TypeOK, PushOutcomes
<1>4. TypeOK'
    BY <1>3 DEF Inv, TypeOK, PushOutcomes, Forget, None4All
<1>5. Phases'
    BY DEF Inv, Phases, TypeOK, PushOutcomes, None4All
<1>6. OnePushPerHandle'
    <2> SUFFICES ASSUME NEW h \in Handle
                 PROVE  OnePushPerHandle!(h)'
        BY DEF OnePushPerHandle
    <2>1. /\ pushes' = pushes /\ in_flight'[h] = None
          /\ pending_flag_pushes'[h] =
                IF in_flight[h] # None THEN None ELSE pending_flag_pushes[h]
          /\ pending_content_pushes'[h] =
                IF in_flight[h] # None THEN None ELSE pending_content_pushes[h]
          /\ pending_creates'[h] =
                IF in_flight[h] # None THEN None ELSE pending_creates[h]
          /\ h \in pending_drops' <=> h \in pending_drops /\ in_flight[h] = None
        BY DEF PushOutcomes, Forget, None4All
    <2> QED BY <2>1 DEF Inv, OnePushPerHandle, Owed
<1> QED BY <1>4, <1>5, <1>6 DEF Inv

LEMMA ChunkWriteInv ==
    ASSUME Inv, ChunkWrite
    PROVE  Inv'
<1>1. Step /\ (\A h \in Handle : in_flight[h] = None) /\ unserved = {}
    BY MergeAssumption DEF Inv, Phases, ChunkWrite, TypeOK
<1>2. TypeOK'
    BY <1>1, StepMoves, WriteBatchType DEF Inv, TypeOK, ChunkWrite
<1>3. Phases'
    BY <1>1, StepMoves DEF Inv, TypeOK, Phases, ChunkWrite
<1>4. OnePushPerHandle'
    BY <1>1, StepMoves DEF Inv, OnePushPerHandle, Owed, ChunkWrite
<1> QED BY <1>2, <1>3, <1>4 DEF Inv

(* A coroutine that is dropped holds nothing. *)
LEMMA EndRunInv ==
    ASSUME EndRun
    PROVE  Phases' /\ OnePushPerHandle'
BY DEF EndRun, Phases, OnePushPerHandle, Owed, None4All

LEMMA LastWriteInv ==
    ASSUME Inv, LastWrite
    PROVE  Inv'
<1>1. TypeOK'
    BY WriteBatchType, HandleFacts DEF Inv, TypeOK, LastWrite, EndRun
<1> QED BY <1>1, EndRunInv DEF Inv, LastWrite

LEMMA SpendType ==
    ASSUME TypeOK, NEW who \in {"user", "remote", "fault"}, NEW max,
           Spend(who, max)
    PROVE  spent' \in [{"user", "remote", "fault"} -> Nat]
BY DEF Spend, TypeOK

LEMMA FaultInv ==
    ASSUME Inv, Fault
    PROVE  Inv'
<1>1. CASE Crash
    <2>1. spent' \in [{"user", "remote", "fault"} -> Nat]
        BY <1>1, SpendType DEF Inv, Crash
    <2>2. TypeOK'
        BY <1>1, <2>1, HandleFacts DEF Inv, TypeOK, Crash, EndRun
    <2> QED BY <1>1, <2>2, EndRunInv DEF Inv, Crash
<1>2. CASE Refuse
    <2> DEFINE h == Least(unserved)
    <2>1. h \in unserved /\ h \in Handle
        BY <1>2, LeastIn, HandleFacts DEF Inv, TypeOK, Refuse
    <2>2. /\ Answer(h, Rejected)
          /\ unserved' = unserved \ {h} /\ unrecorded' = unrecorded \cup {h}
        BY <1>2 DEF Refuse
    <2> HIDE DEF h
    <2>3. spent' \in [{"user", "remote", "fault"} -> Nat]
        BY <1>2, SpendType DEF Inv, Refuse
    <2>4. TypeOK'
        BY <1>2, <2>1, <2>2, <2>3, AnswerTypes DEF Inv, TypeOK, Refuse, Answer
    <2>5. Phases'
        BY <1>2, <2>2 DEF Inv, Phases, Refuse
    <2>6. OnePushPerHandle'
        BY <1>2 DEF Inv, OnePushPerHandle, Owed, Refuse
    <2> QED BY <2>4, <2>5, <2>6 DEF Inv
<1>3. ASSUME NEW h \in Handle, Silence(h) PROVE Inv'
    <2>1. spent' \in [{"user", "remote", "fault"} -> Nat]
        BY <1>3, SpendType DEF Inv, Silence
    <2>2. TypeOK'
        BY <1>3, <2>1 DEF Inv, TypeOK, Silence, Answer
    <2>3. Phases'
        BY <1>3 DEF Inv, Phases, Silence
    <2>4. OnePushPerHandle'
        BY <1>3 DEF Inv, OnePushPerHandle, Owed, Silence
    <2> QED BY <2>2, <2>3, <2>4 DEF Inv
<1> QED BY <1>1, <1>2, <1>3 DEF Fault

(* A mutation rewrites the store and nothing a run holds. *)
LEMMA MutateInv ==
    ASSUME Inv, NEW op, Mutate(op), store' \in [Handle -> Opt(ReplicaPlacement)]
    PROVE  Inv'
<1>1. spent' \in [{"user", "remote", "fault"} -> Nat]
    BY SpendType DEF Inv, Mutate
<1>2. TypeOK'
    BY <1>1 DEF Inv, TypeOK, Mutate
<1>3. Phases'
    BY DEF Inv, Phases, Mutate
<1>4. OnePushPerHandle'
    BY DEF Inv, OnePushPerHandle, Owed, Mutate
<1> QED BY <1>2, <1>3, <1>4 DEF Inv

(* Every verb of the user is a mutation, every one of the other clients a  *)
(* move of theirs.                                                         *)
LEMMA UserMutates == User => \E op : Mutate(op)
BY Zenon DEF User, UserSetFlags, UserRemove, UserEdit, UserAdd, UserMove, UserCopy

LEMMA OthersMove == Others => \E op : OtherClient(op)
BY Zenon DEF Others, OthersSeed, OthersSetFlags, OthersEdit, OthersRemove

LEMMA UserInv ==
    ASSUME Inv, User
    PROVE  Inv'
<1> DEFINE Typed == store' \in [Handle -> Opt(ReplicaPlacement)]
<1>1. store \in [Handle -> Opt(ReplicaPlacement)]
    BY DEF Inv, TypeOK
<1>2. ASSUME NEW h \in Handle, Target(h) PROVE store[h] \in ReplicaPlacement
    BY <1>1, <1>2 DEF Target
<1>3. \A S \in SUBSET Flag : S \in ReplicaFlags
    BY DEF ReplicaFlags
<1>4. FreshBodies \subseteq Body /\ (FreshBodies # {} => NewBody \in Body)
    BY DEF FreshBodies, NewBody
<1>5. PICK h \in Handle :
        \/ \E flags \in SUBSET Flag : UserSetFlags(h, flags)
        \/ UserRemove(h)
        \/ UserEdit(h)
        \/ \E link \in Authored : UserAdd(h, link)
        \/ \E destination \in Origin : UserMove(h, destination)
        \/ \E flags \in SUBSET Flag, object \in Opt(Body), origin \in Origin :
              UserCopy(h, CopySource(flags, object), origin)
    BY DEF User
<1>6. ASSUME NEW flags \in SUBSET Flag, UserSetFlags(h, flags) PROVE Inv'
    <2>1. SetFlagsMutation(store[h], flags) \in ReplicaPlacement
        BY <1>2, <1>3, <1>6
           DEF UserSetFlags, SetFlagsMutation, ReplicaPlacement, ReplicaStatus
    <2> QED BY <1>1, <1>6, <2>1, MutateInv DEF UserSetFlags
<1>7. ASSUME UserRemove(h) PROVE Inv'
    <2>1. RemoveMutation(store[h]) \in ReplicaPlacement
        BY <1>2, <1>7 DEF UserRemove, RemoveMutation, ReplicaPlacement, ReplicaStatus
    <2> QED BY <1>1, <1>7, <2>1, MutateInv DEF UserRemove
<1>8. ASSUME UserEdit(h) PROVE Inv'
    <2>1. store[h] \in ReplicaPlacement
        BY <1>2, <1>8 DEF UserEdit
    <2>2. store[h].base = None \/ store[h].base.object \in Opt(Body)
        BY <2>1 DEF ReplicaPlacement, ReplicaBase
    <2>3. PICK b \in Body, meta \in Opt(ReplicaMeta) :
            store' = [store EXCEPT ![h] = EditMutation(@, b, meta)]
        BY <1>4, <1>8, <2>2, SyncAssumption DEF UserEdit
    <2>4. EditMutation(store[h], b, meta) \in ReplicaPlacement
        BY <2>1, EditType
    <2> QED BY <1>1, <1>8, <2>3, <2>4, MutateInv DEF UserEdit
<1>9. ASSUME NEW link \in Authored, UserAdd(h, link) PROVE Inv'
    <2>1. link \in LinkId /\ NewBody \in Body
        BY <1>4, <1>9, HandleFacts DEF UserAdd
    <2>2. PICK meta \in Opt(ReplicaMeta) :
            store' = [store EXCEPT ![h] = AddMutation(link, NewBody, meta, {})]
        BY <1>9, SyncAssumption DEF UserAdd
    <2>3. AddMutation(link, NewBody, meta, {}) \in ReplicaPlacement
        BY <1>3, <2>1, CreatedType DEF AddMutation, ReplicaLevel
    <2> QED BY <1>1, <1>9, <2>2, <2>3, MutateInv DEF UserAdd
<1>10. ASSUME NEW destination \in Origin, UserMove(h, destination) PROVE Inv'
    <2>1. MoveMutation(store[h], destination) \in ReplicaPlacement
        BY <1>2, <1>10 DEF UserMove, MoveMutation, ReplicaPlacement, ReplicaStatus
    <2> QED BY <1>1, <1>10, <2>1, MutateInv DEF UserMove
<1>11. ASSUME NEW flags \in SUBSET Flag, NEW object \in Opt(Body),
              NEW origin \in Origin,
              UserCopy(h, CopySource(flags, object), origin)
       PROVE  Inv'
    <2> DEFINE source == CopySource(flags, object)
               row    == PullAdd([flags |-> flags, revision |-> None])
               level  == IF object = None THEN "Probed" ELSE "Full"
    <2>1. source \in ReplicaPlacement
        <3>1. [flags |-> flags, revision |-> None] \in ReplicaRemoteItem
            BY <1>3 DEF ReplicaRemoteItem
        <3>2. row \in ReplicaPlacement
            BY <3>1, PullAddType
        <3>3. object \in Opt(Body) /\ level \in ReplicaLevel
            BY HandleFacts DEF ReplicaLevel
        <3> HIDE DEF row, level
        <3>4. [row EXCEPT !.object = object, !.level = level] \in ReplicaPlacement
            BY <3>2, <3>3 DEF ReplicaPlacement
        <3> QED BY <3>4, Zenon DEF CopySource, row, level
    <2> HIDE DEF source, row, level
    <2>2. CopyMutation(source, origin) \in ReplicaPlacement
        BY <2>1, CreatedType DEF CopyMutation, ReplicaPlacement
    <2>3. UserCopy(h, source, origin)
        BY <1>11 DEF source
    <2> QED BY <1>1, <2>2, <2>3, MutateInv DEF UserCopy
<1> QED BY <1>5, <1>6, <1>7, <1>8, <1>9, <1>10, <1>11

LEMMA OthersInv ==
    ASSUME Inv, Others
    PROVE  Inv'
<1>1. seq + 1 \in Nat /\ TypeOK
    BY DEF Inv, TypeOK
<1>2. ASSUME NEW op, OtherClient(op),
             items' \in [Handle -> Opt(ServerItem)], gone' \in [Handle -> Nat],
             seq' = seq + 1, UNCHANGED <<results, landed>>
      PROVE  Inv'
    <2>1. spent' \in [{"user", "remote", "fault"} -> Nat]
        BY <1>2, SpendType DEF Inv, OtherClient
    <2>2. TypeOK'
        BY <1>1, <1>2, <2>1 DEF Inv, TypeOK, OtherClient
    <2>3. Phases'
        BY <1>2 DEF Inv, Phases, OtherClient
    <2>4. OnePushPerHandle'
        BY <1>2 DEF Inv, OnePushPerHandle, Owed, OtherClient
    <2> QED BY <2>2, <2>3, <2>4 DEF Inv
<1>3. ASSUME NEW h \in Handle, OthersSeed(h) PROVE Inv'
    <2>1. h \in ServerHandle =>
            Member(Hint[h], {}, SeedBody, seq + 1) \in ServerItem
        BY <1>1, HandleFacts, MemberFacts DEF ReplicaFlags
    <2> QED
        BY <1>1, <1>2, <1>3, <2>1 DEF OthersSeed, RemoteSeed, TypeOK
<1>4. ASSUME NEW h \in Handle, NEW flags \in SUBSET Flag,
             OthersSetFlags(h, flags)
      PROVE  Inv'
    <2>1. items' \in [Handle -> Opt(ServerItem)]
        BY <1>1, <1>4, StampTypes
           DEF OthersSetFlags, RemoteSetFlags, ReplicaFlags
    <2> QED BY <1>1, <1>2, <1>4, <2>1 DEF OthersSetFlags, RemoteSetFlags, TypeOK
<1>5. ASSUME NEW h \in Handle, NEW body \in Foreign, OthersEdit(h, body)
      PROVE  Inv'
    <2>1. items' \in [Handle -> Opt(ServerItem)]
        BY <1>1, <1>5, StampTypes, HandleFacts DEF OthersEdit, RemoteEdit
    <2> QED BY <1>1, <1>2, <1>5, <2>1 DEF OthersEdit, RemoteEdit, TypeOK
<1>6. ASSUME NEW h \in Handle, OthersRemove(h) PROVE Inv'
    BY <1>1, <1>2, <1>6 DEF OthersRemove, RemoteRemove, TypeOK
<1> QED BY <1>3, <1>4, <1>5, <1>6 DEF Others

--------------------------------------------------------------------------------
(* The theorems.                                                           *)

LEMMA NextInv == Inv /\ [Next]_vars => Inv'
<1> SUFFICES ASSUME Inv, [Next]_vars PROVE Inv'
    OBVIOUS
<1>1. ASSUME NEW o \in Options, Begin(o) PROVE Inv'
    BY <1>1, BeginInv
<1>2. CASE Run
    BY <1>2, EnumerateInv, MergeStepInv, MergeWriteInv, MergeEndInv, ServeInv,
       PushOutcomesInv, ChunkWriteInv, LastWriteInv DEF Run
<1>3. CASE User
    BY <1>3, UserInv
<1>4. CASE Others
    BY <1>4, OthersInv
<1>5. CASE Fault
    BY <1>5, FaultInv
<1>6. CASE UNCHANGED vars
    <2>1. TypeOK'
        BY <1>6 DEF Inv, TypeOK, vars
    <2>2. Phases'
        BY <1>6 DEF Inv, Phases, vars
    <2>3. OnePushPerHandle'
        BY <1>6 DEF Inv, OnePushPerHandle, Owed, vars
    <2> QED BY <2>1, <2>2, <2>3 DEF Inv
<1> QED BY <1>1, <1>2, <1>3, <1>4, <1>5, <1>6 DEF Next

LEMMA InvHolds == Spec => []Inv
BY InitInv, NextInv, PTL DEF Spec

(* Every placement, change, snapshot and pending entry is well-typed in    *)
(* every reachable state, whatever the remote answers, other clients do    *)
(* and runs are interrupted (sync.rs, ReplicaSync).                        *)
THEOREM TypeCorrect == Spec => []TypeOK
<1>1. Inv => TypeOK
    BY DEF Inv
<1> QED BY <1>1, InvHolds, PTL

(* A handle owes the remote at most one change and waits in the pending    *)
(* map of that change alone, for every queue length and chunk size, so     *)
(* matching a push result by its handle is sound (sync.rs, PushFlags and   *)
(* the PendingPush arm of resume).                                         *)
THEOREM OnePush == Spec => []OnePushPerHandle
<1>1. Inv => OnePushPerHandle
    BY DEF Inv
<1> QED BY <1>1, InvHolds, PTL

--------------------------------------------------------------------------------
(***************************************************************************)
(* An interrupted run replays at most one chunk of pushes, whatever the    *)
(* number of changes queued and the size of a chunk.                       *)
(***************************************************************************)
(* The changes on the wire. *)
Chunk == {h \in Handle : in_flight[h] # None}

(* What the remote served and no write recorded is of the chunk awaiting   *)
(* its outcome, or of the one whose write comes next.                      *)
ReplayInv ==
    /\ pc \in {"PendingEnumerate", "Joining", "Merging"} => unrecorded = {}
    /\ pc = "PendingPush" => /\ unrecorded \subseteq Chunk
                             /\ Cardinality(Chunk) <= PushChunk
    /\ ReplayBounded

(* A non-empty finite set of naturals has a greatest element. *)
LEMMA GreatestIn ==
    ASSUME NEW S \in SUBSET Nat, IsFiniteSet(S), S # {}
    PROVE  \E x \in S : \A y \in S : y <= x
<1> DEFINE above(x) == {y \in S : y > x}
           sizes    == {Cardinality(above(x)) : x \in S}
<1>1. \A x \in S : IsFiniteSet(above(x)) /\ Cardinality(above(x)) \in Nat
    BY FS_Subset, FS_CardinalityType
<1>2. sizes \in SUBSET Nat /\ sizes # {}
    BY <1>1
<1>3. Least(sizes) \in sizes /\ \A n \in sizes : Least(sizes) <= n
    BY <1>2, LeastIn
<1>4. PICK x \in S : \A y \in S : Cardinality(above(x)) <= Cardinality(above(y))
    BY <1>3
<1>5. ASSUME NEW y \in S, y > x PROVE FALSE
    <2>1. \A z \in S : z > y => z > x
        BY <1>5
    <2>2. above(y) \in SUBSET above(x)
        BY <2>1
    <2>3. y \in above(x) /\ y \notin above(y)
        BY <1>5
    <2> HIDE DEF above
    <2>4. Cardinality(above(y)) < Cardinality(above(x))
        BY <1>1, <2>2, <2>3, FS_Subset
    <2> QED BY <1>1, <1>4, <2>4
<1> QED BY <1>5

(* A chunk is no longer than PUSH_CHUNK: but for its last change, each one *)
(* of it precedes that one in the queue.                                   *)
LEMMA ChunkSize ==
    ASSUME Inv
    PROVE  NextChunk \subseteq Handle /\ Cardinality(NextChunk) <= PushChunk
<1> DEFINE queued    == {h \in Handle : pushes[h] # None}
           before(h) == {k \in queued : k < h}
<1>1. PushChunk \in Nat \ {0} /\ Handle \in SUBSET Nat /\ IsFiniteSet(Handle)
    BY SyncAssumption, HandleFacts
<1>2. NextChunk = {h \in queued : Cardinality(before(h)) < PushChunk}
    BY DEF NextChunk
<1>3. NextChunk \in SUBSET Handle /\ NextChunk \in SUBSET queued
    BY <1>2
<1>4. IsFiniteSet(NextChunk) /\ Cardinality(NextChunk) \in Nat
    BY <1>1, <1>3, FS_Subset, FS_CardinalityType
<1>5. CASE NextChunk = {}
    BY <1>1, <1>5, FS_EmptySet
<1>6. CASE NextChunk # {}
    <2>1. PICK m \in NextChunk : \A k \in NextChunk : k <= m
        BY <1>1, <1>3, <1>4, <1>6, GreatestIn
    <2>2. IsFiniteSet(before(m)) /\ Cardinality(before(m)) \in Nat
        BY <1>1, FS_Subset, FS_CardinalityType
    <2>3. NextChunk \ {m} \in SUBSET before(m)
        BY <1>1, <1>3, <2>1
    <2>4. Cardinality(NextChunk \ {m}) <= Cardinality(before(m))
        BY <2>2, <2>3, FS_Subset
    <2>5. Cardinality(NextChunk \ {m}) = Cardinality(NextChunk) - 1
        BY <1>4, <2>1, FS_RemoveElement
    <2>6. Cardinality(before(m)) < PushChunk
        BY <1>2, <2>1
    <2> QED BY <1>1, <1>3, <1>4, <2>2, <2>4, <2>5, <2>6
<1> QED BY <1>3, <1>5, <1>6

(* What Step puts on the wire is the next chunk. *)
LEMMA StepReplay ==
    ASSUME Inv, Step, unrecorded' = {}
    PROVE  ReplayInv'
<1>1. Cardinality({}) = 0 /\ PushChunk \in Nat
    BY FS_EmptySet, SyncAssumption
<1>2. CASE pushes = None4All
    BY <1>1, <1>2 DEF Step, ReplayInv, ReplayBounded
<1>3. CASE pushes # None4All
    <2>1. Chunk' = NextChunk
        BY <1>3, ChunkSize DEF Step, Chunk, NextChunk
    <2>2. Cardinality(Chunk') <= PushChunk
        BY <2>1, ChunkSize
    <2> QED BY <1>1, <1>3, <2>2 DEF Step, ReplayInv, ReplayBounded
<1> QED BY <1>2, <1>3

(* One more change of the chunk is answered. *)
LEMMA AnswerReplay ==
    ASSUME Inv, ReplayInv, pc = "PendingPush", unserved # {},
           UNCHANGED <<pc, in_flight>>,
           unrecorded' = unrecorded \cup {Least(unserved)}
    PROVE  ReplayInv'
<1>1. Least(unserved) \in unserved /\ unserved \subseteq Chunk
    BY LeastIn, HandleFacts, MergeAssumption DEF Inv, TypeOK, Phases, Chunk
<1>2. Chunk' = Chunk /\ unrecorded' \in SUBSET Chunk
    BY <1>1 DEF ReplayInv, Chunk
<1>3. IsFiniteSet(Chunk) /\ Cardinality(Chunk) \in Nat
    BY HandleFacts, FS_Subset, FS_CardinalityType DEF Chunk
<1>4. IsFiniteSet(unrecorded') /\ Cardinality(unrecorded') \in Nat
    BY <1>2, <1>3, FS_Subset, FS_CardinalityType
<1>5. Cardinality(unrecorded') <= Cardinality(Chunk)
    BY <1>2, <1>3, FS_Subset
<1>6. Cardinality(Chunk') <= PushChunk /\ PushChunk \in Nat
    BY <1>2, SyncAssumption DEF ReplayInv
<1>7. Cardinality(unrecorded') <= PushChunk
    BY <1>2, <1>3, <1>4, <1>5, <1>6
<1> QED BY <1>2, <1>6, <1>7 DEF ReplayInv, ReplayBounded

LEMMA ReplayNext == Inv /\ ReplayInv /\ [Next]_vars => ReplayInv'
<1> SUFFICES ASSUME Inv, ReplayInv, [Next]_vars PROVE ReplayInv'
    OBVIOUS
<1>1. Cardinality({}) = 0 /\ PushChunk \in Nat
    BY FS_EmptySet, SyncAssumption
<1>2. ASSUME unrecorded' = {}, pc' # "PendingPush" PROVE ReplayInv'
    BY <1>1, <1>2 DEF ReplayInv, ReplayBounded
<1>3. ASSUME unrecorded' = unrecorded, pc' \in {"Idle", "PendingWrite"}
      PROVE  ReplayInv'
    BY <1>3 DEF ReplayInv, ReplayBounded
<1>4. ASSUME unrecorded' = unrecorded, UNCHANGED <<pc, in_flight>>
      PROVE  ReplayInv'
    BY <1>4 DEF ReplayInv, ReplayBounded, Chunk
<1>5. ASSUME NEW o \in Options, Begin(o) PROVE ReplayInv'
    BY <1>2, <1>5 DEF Begin
<1>6. CASE Enumerate
    BY <1>2, <1>6 DEF Enumerate, ReplayInv
<1>7. CASE MergeStep
    <2>1. pc' \in {"Joining", "Merging"} /\ unrecorded' = {}
        BY <1>7 DEF MergeStep, Skip, Merge, ReplayInv
    <2> QED BY <1>2, <2>1
<1>8. CASE MergeWrite
    BY <1>2, <1>8 DEF MergeWrite, WriteBatch
<1>9. CASE MergeEnd
    BY <1>9, StepReplay DEF MergeEnd, ReplayInv
<1>10. CASE Serve
    BY <1>10, AnswerReplay DEF Serve
<1>11. CASE PushOutcomes
    BY <1>3, <1>11 DEF PushOutcomes
<1>12. CASE ChunkWrite
    BY <1>12, StepReplay DEF ChunkWrite, WriteBatch
<1>13. CASE LastWrite
    BY <1>2, <1>13 DEF LastWrite, WriteBatch, EndRun
<1>14. CASE User
    BY <1>4, <1>14, UserMutates DEF Mutate
<1>15. CASE Others
    BY <1>4, <1>15, OthersMove DEF OtherClient
<1>16. CASE Crash
    BY <1>3, <1>16 DEF Crash, EndRun
<1>17. CASE Refuse
    BY <1>17, AnswerReplay DEF Refuse
<1>18. ASSUME NEW h \in Handle, Silence(h) PROVE ReplayInv'
    BY <1>4, <1>18 DEF Silence
<1>19. CASE UNCHANGED vars
    BY <1>4, <1>19 DEF vars
<1> QED
    BY <1>5, <1>6, <1>7, <1>8, <1>9, <1>10, <1>11, <1>12, <1>13, <1>14, <1>15,
       <1>16, <1>17, <1>18, <1>19 DEF Next, Run, Fault

(* However many changes a run queues and however it is cut short, what the *)
(* remote served and no write recorded is at most one chunk: a retry       *)
(* replays no more than PUSH_CHUNK pushes (sync.rs, step and the           *)
(* PendingWrite arm of resume).                                            *)
THEOREM ReplayBound == Spec => []ReplayBounded
<1>1. Init => ReplayInv
    BY FS_EmptySet, SyncAssumption DEF Init, ReplayInv, ReplayBounded
<1>2. ReplayInv => ReplayBounded
    BY DEF ReplayInv
<1> QED BY <1>1, <1>2, InvHolds, ReplayNext, PTL DEF Spec

--------------------------------------------------------------------------------
(***************************************************************************)
(* What the merge of one candidate does to its row: the row it leaves has  *)
(* seen the revision the remote reports, pairs no revision with a body of  *)
(* another version, and the change derived goes out under that revision.   *)
(***************************************************************************)

(* The shape of a placement, wherever it comes from: a conflict knows the  *)
(* revision it is with, which its base has not reached.                    *)
Shape(p) ==
    /\ p.status = "Conflict" => p.conflict_revision # None
    /\ p.conflict_revision # None => p.status \in {"Conflict", "Tombstone"}
    /\ (p.base # None /\ p.base.revision # None /\ p.conflict_revision # None) =>
          p.base.revision < p.conflict_revision

(* What a row knows of the remote is not newer than what it reports. *)
Fits(p, item) ==
    /\ Shape(p)
    /\ p.base = None => p.object # None
    /\ p.conflict_revision # None =>
          /\ item.revision # None
          /\ p.conflict_revision <= item.revision
    /\ (p.base # None /\ p.base.revision # None /\ item.revision # None) =>
          p.base.revision <= item.revision

(* Each revision of q, and the body beside it, is one of p's, or the       *)
(* reported one beside no body.                                            *)
Sourced(q, p, item) ==
    /\ \/ /\ p # None
          /\ q.conflict_revision = p.conflict_revision
          /\ q.conflict_object = p.conflict_object
       \/ /\ q.conflict_revision \in {None, item.revision}
          /\ q.conflict_object = None
    /\ q.base # None =>
          \/ /\ p # None /\ p.base # None
             /\ q.base.revision = p.base.revision
             /\ q.base.object = p.base.object
          \/ /\ q.base.revision \in {None, item.revision}
             /\ q.base.object = None

(* A row that has a base or a conflict, and has observed the revision. *)
Saw(p, revision) ==
    /\ p.base # None \/ p.conflict_revision # None
    /\ KnownRevision(p) = revision

(* The row a candidate's outcome leaves. *)
After(p, out) ==
    IF out.put = Keep THEN p
    ELSE IF out.put.op = "DropPlacement" THEN None
    ELSE out.put.row

--------------------------------------------------------------------------------
(* Rewrites.                                                               *)

(* The flag axis touches neither revision nor body. *)
SameVersion(q, p) ==
    /\ q.conflict_revision = p.conflict_revision
    /\ q.conflict_object = p.conflict_object
    /\ p.base # None => /\ q.base # None
                        /\ q.base.revision = p.base.revision
                        /\ q.base.object = p.base.object
    /\ (p.base = None /\ q.base # None) =>
          q.base.revision = None /\ q.base.object = None

LEMMA FlagRewriteFacts ==
    ASSUME NEW p \in ReplicaPlacement, NEW flags \in ReplicaFlags,
           Shape(p), p.status # "Tombstone",
           NEW q \in {PullFlags(p, flags), Rebase(p, flags)}
    PROVE  /\ q \in ReplicaPlacement /\ q.base # None
           /\ SameVersion(q, p) /\ Shape(q) /\ q.status # "Tombstone"
<1>1. q \in ReplicaPlacement
    BY FlagRewriteType
<1>2. FlagBase(p, flags) \in ReplicaBase /\ FlagBase(p, flags) # None
    BY FlagBaseType, SentinelAssumption
<1>3. /\ q.conflict_revision = p.conflict_revision
      /\ q.conflict_object = p.conflict_object
      /\ q.status = FlagStatus(p) /\ q.base = FlagBase(p, flags)
    BY DEF PullFlags, Rebase, ReplicaPlacement
<1>4. /\ p.base # None => /\ q.base.revision = p.base.revision
                          /\ q.base.object = p.base.object
      /\ p.base = None => q.base.revision = None /\ q.base.object = None
    BY <1>3 DEF FlagBase
<1>5. SameVersion(q, p)
    BY <1>2, <1>3, <1>4 DEF SameVersion
<1>6. Shape(q) /\ q.status # "Tombstone"
    BY <1>3, <1>4 DEF Shape, FlagStatus
<1> QED BY <1>1, <1>2, <1>3, <1>5, <1>6

LEMMA FlagsUpdateFacts ==
    ASSUME NEW p \in ReplicaPlacement, NEW flags \in ReplicaFlags, Shape(p)
    PROVE  LET q == [p EXCEPT !.flags = flags]
           IN  /\ q \in ReplicaPlacement /\ (q.base = None <=> p.base = None)
               /\ SameVersion(q, p) /\ Shape(q) /\ q.status = p.status
BY DEF ReplicaPlacement, SameVersion, Shape

(* A new row, and one whose content is pulled. *)
LEMMA PullFacts ==
    ASSUME NEW item \in ReplicaRemoteItem
    PROVE  /\ LET q == PullAdd(item)
              IN  /\ q \in ReplicaPlacement /\ q.base # None /\ Shape(q)
                  /\ q.conflict_revision = None /\ q.conflict_object = None
                  /\ q.base.revision = item.revision /\ q.base.object = None
           /\ \A p \in ReplicaPlacement :
                (p.base # None /\ Shape(p) /\ p.conflict_revision = None
                    /\ p.status # "Tombstone") =>
                   LET q == PullContent(p, item)
                   IN  /\ q \in ReplicaPlacement /\ q.base # None /\ Shape(q)
                       /\ q.status # "Tombstone"
                       /\ q.conflict_revision = None
                       /\ q.conflict_object = p.conflict_object
                       /\ q.base.revision = item.revision
                       /\ q.base.object = None
<1>1. PullAdd(item) \in ReplicaPlacement
    BY PullAddType
<1>2. PullAdd(item).base # None /\ Shape(PullAdd(item))
    <2>1. PullAdd(item).base \in ReplicaBase
        BY DEF PullAdd, ReplicaBase, ReplicaRemoteItem
    <2> QED BY <2>1, SentinelAssumption DEF PullAdd, Shape
<1>3. ASSUME NEW p \in ReplicaPlacement, p.base # None, Shape(p),
             p.conflict_revision = None, p.status # "Tombstone",
             NEW q, q = PullContent(p, item)
      PROVE  /\ q \in ReplicaPlacement /\ q.base # None /\ Shape(q)
             /\ q.status # "Tombstone"
             /\ q.conflict_revision = None
             /\ q.conflict_object = p.conflict_object
             /\ q.base.revision = item.revision
             /\ q.base.object = None
    <2>1. q \in ReplicaPlacement
        BY <1>3, PullContentType
    <2> DEFINE b == [p.base EXCEPT !.revision = item.revision, !.object = None]
    <2>2. p.base \in ReplicaBase
        BY <1>3 DEF ReplicaPlacement
    <2>3. b \in ReplicaBase /\ b.revision = item.revision /\ b.object = None
        BY <2>2 DEF ReplicaBase, ReplicaRemoteItem
    <2>4. /\ q.base = b /\ q.status = p.status
          /\ q.conflict_revision = p.conflict_revision
          /\ q.conflict_object = p.conflict_object
        BY <1>3 DEF PullContent, ReplicaPlacement
    <2> HIDE DEF b
    <2> QED BY <1>3, <2>1, <2>3, <2>4, SentinelAssumption DEF Shape
<1> QED BY <1>1, <1>2, <1>3 DEF PullAdd

--------------------------------------------------------------------------------
(* The content axis.                                                       *)

(* The row it hands over is the one it wrote, if any; it has seen the      *)
(* reported revision unless the local side is pushed over it; a push names *)
(* the loaded row under that revision.                                     *)
ContentFacts(c, p, item, options) ==
    /\ c.row \in ReplicaPlacement /\ c.row.status # "Tombstone"
    /\ c.row.base = None <=> p.base = None
    /\ Shape(c.row) /\ Sourced(c.row, p, item)
    /\ \/ c.out.put = Keep /\ c.row = p
       \/ c.out.put = Upsert(c.row)
    /\ item.revision # None =>
          \/ Saw(c.row, item.revision)
          \/ /\ options.conflict = "PreferLocal" /\ p.base # None
             /\ c.out.push # None /\ c.row = p
    /\ c.out.flag = None /\ c.out.create = None /\ c.out.drop = FALSE
    /\ c.out.push # None =>
          /\ c.out.push.kind = "Update" /\ c.out.push.object = p.object
          /\ item.revision # None => c.out.push.if_match = item.revision
          /\ c.out.content = p
          /\ p.conflict_revision = None /\ p.base # None
    /\ c.out.dup # None => p.base # None /\ p.object # None /\ c.out.dup = ConflictDup(p)

(* Nothing to settle, or nothing this source may push. *)
LEMMA UntouchedFacts ==
    ASSUME NEW p \in ReplicaPlacement, NEW item \in ReplicaRemoteItem, NEW options,
           Shape(p), p.status # "Tombstone",
           item.revision # None => Saw(p, item.revision)
    PROVE  ContentFacts(Continue(p, Nothing), p, item, options)
BY SentinelAssumption DEF ContentFacts, Continue, Nothing, Sourced

LEMMA MarkFacts ==
    ASSUME NEW p \in ReplicaPlacement, NEW item \in ReplicaRemoteItem, NEW options,
           Fits(p, item), p.status # "Tombstone", item.revision # None,
           p.base # None => item.revision # p.base.revision,
           NEW c \in {MarkConflict(p, item)}
                       \cup (IF p.status = "Conflict" THEN {TrackConflict(p, item)}
                             ELSE {})
    PROVE  ContentFacts(c, p, item, options)
<1> DEFINE q == c.row
<1>0. \/ q = [p EXCEPT !.status            = "Conflict",
                       !.conflict_revision = item.revision,
                       !.conflict_object   = None]
      \/ /\ q = [p EXCEPT !.conflict_revision = item.revision,
                          !.conflict_object   = None]
         /\ p.status = "Conflict"
    BY DEF MarkConflict, TrackConflict, Continue
<1>1. q \in ReplicaPlacement /\ c.out = Write(Nothing, Upsert(q))
    <2>1. q \in ReplicaPlacement
        BY <1>0 DEF ReplicaPlacement, ReplicaRemoteItem, ReplicaStatus
    <2>2. c.out = Write(Nothing, Upsert(q))
        BY DEF MarkConflict, TrackConflict, Continue
    <2> QED BY <2>1, <2>2
<1>2. /\ q.status = "Conflict" /\ q.conflict_revision = item.revision
      /\ q.conflict_object = None /\ q.base = p.base
    <2> HIDE DEF q
    <2> QED BY <1>0 DEF ReplicaPlacement
<1> HIDE DEF q
<1>3. Shape(q)
    <2>1. (p.base # None /\ p.base.revision # None) =>
             p.base.revision < item.revision
        BY DEF Fits, ReplicaPlacement, ReplicaBase, ReplicaRemoteItem
    <2> QED BY <1>2, <2>1 DEF Shape
<1>4. Sourced(q, p, item)
    BY <1>2, SentinelAssumption DEF Sourced
<1>5. Saw(q, item.revision)
    BY <1>2 DEF KnownRevision, Saw
<1>6. /\ c.out.put = Upsert(q) /\ c.out.push = None /\ c.out.flag = None
      /\ c.out.create = None /\ c.out.drop = FALSE /\ c.out.dup = None
    BY <1>1 DEF Write, Nothing
<1> QED BY <1>1, <1>2, <1>3, <1>4, <1>5, <1>6 DEF ContentFacts, q

(* A write adds its op and keeps the rest. *)
LEMMA WriteKeeps ==
    ASSUME NEW out \in Outcome, NEW op
    PROVE  LET w == Write(out, op)
           IN  /\ w.put = op /\ w.dup = out.dup /\ w.push = out.push
               /\ w.flag = out.flag /\ w.content = out.content
               /\ w.drop = out.drop /\ w.create = out.create
BY DEF Write, Outcome

(* The remote side pulled, with or without a fork of the local one.        *)
LEMMA PullRemoteFacts ==
    ASSUME NEW p \in ReplicaPlacement, NEW item \in ReplicaRemoteItem, NEW options,
           Shape(p), p.base # None, p.status \notin {"Conflict", "Tombstone"},
           NEW out \in {Nothing}
                   \cup (IF p.object = None THEN {}
                         ELSE {[Nothing EXCEPT !.dup = ConflictDup(p), !.ops = 1]})
    PROVE  ContentFacts(PullRemote(p, item, out), p, item, options)
<1> DEFINE q == PullContent(p, item)
<1>1. p.conflict_revision = None
    BY DEF Shape
<1>2. /\ q \in ReplicaPlacement /\ q.base # None /\ Shape(q)
      /\ q.status # "Tombstone" /\ q.conflict_revision = None
      /\ q.conflict_object = p.conflict_object
      /\ q.base.revision = item.revision /\ q.base.object = None
    BY <1>1, PullFacts
<1>3. /\ PullRemote(p, item, out).row = q
      /\ PullRemote(p, item, out).out = Write(out, Upsert(q))
    BY DEF PullRemote, Continue
<1> HIDE DEF q
<1>4. Sourced(q, p, item)
    BY <1>1, <1>2, SentinelAssumption DEF Sourced
<1>5. Saw(q, item.revision)
    BY <1>2 DEF KnownRevision, Saw
<1>6. /\ Write(out, Upsert(q)).put = Upsert(q)
      /\ Write(out, Upsert(q)).push = None /\ Write(out, Upsert(q)).flag = None
      /\ Write(out, Upsert(q)).create = None
      /\ Write(out, Upsert(q)).drop = FALSE
      /\ \/ Write(out, Upsert(q)).dup = None
         \/ p.object # None /\ Write(out, Upsert(q)).dup = ConflictDup(p)
    <2>1. /\ out \in Outcome /\ out.push = None /\ out.flag = None
          /\ out.create = None /\ out.drop = FALSE
          /\ out.dup = None \/ (p.object # None /\ out.dup = ConflictDup(p))
        <3>1. CASE out = Nothing
            BY <3>1, NothingSound DEF Sound, Nothing
        <3>2. CASE out # Nothing
            <4>1. PICK d \in ReplicaPlacement : d = ConflictDup(p) /\ p.object # None
                BY <3>2, ConflictDupType
            <4>2. out = [Nothing EXCEPT !.dup = d, !.ops = 1]
                BY <3>2, <4>1
            <4> QED BY <4>1, <4>2, NothingSound DEF Sound, Nothing, Outcome
        <3> QED BY <3>1, <3>2
    <2>2. LET w == Write(out, Upsert(q))
          IN  /\ w.put = Upsert(q) /\ w.dup = out.dup /\ w.push = out.push
              /\ w.flag = out.flag /\ w.create = out.create /\ w.drop = out.drop
        BY <2>1, WriteKeeps
    <2> QED BY <2>1, <2>2
<1> QED BY <1>2, <1>3, <1>4, <1>5, <1>6 DEF ContentFacts

LEMMA PushLocalFacts ==
    ASSUME NEW p \in ReplicaPlacement, NEW item \in ReplicaRemoteItem, NEW options,
           Shape(p), p.base # None, p.status \notin {"Conflict", "Tombstone"},
           p.object # None, NEW if_match \in Opt(Revision),
           item.revision # None => if_match = item.revision,
           options.conflict = "PreferLocal" \/ if_match = p.base.revision
    PROVE  ContentFacts(PushLocal(p, if_match), p, item, options)
<1> DEFINE c == PushLocal(p, if_match)
<1>1. p.conflict_revision = None
    BY DEF Shape
<1>2. /\ c.row = p /\ c.out.put = Keep /\ c.out.push = Update(p, if_match)
      /\ c.out.flag = None /\ c.out.create = None /\ c.out.drop = FALSE
      /\ c.out.content = p /\ c.out.dup = None
    BY DEF PushLocal, Continue, Nothing
<1>3. Sourced(p, p, item)
    BY SentinelAssumption DEF Sourced
<1>4. /\ Update(p, if_match) # None
      /\ Update(p, if_match).kind = "Update"
      /\ Update(p, if_match).object = p.object
      /\ Update(p, if_match).if_match = if_match
    BY MergeAssumption DEF Update, ReplicaChange, ReplicaPlacement
<1> HIDE DEF c
<1> QED BY <1>1, <1>2, <1>3, <1>4 DEF ContentFacts, KnownRevision, Saw, c

(* reconcile_content, whatever the policy. *)
LEMMA ReconcileContentFacts ==
    ASSUME NEW p \in ReplicaPlacement, NEW item \in ReplicaRemoteItem,
           NEW options \in ReplicaSyncOptions, Fits(p, item), p.status # "Tombstone"
    PROVE  ContentFacts(ReconcileContent(p, item, options), p, item, options)
<1>1. Shape(p) /\ item.revision \in Opt(Revision)
    BY DEF Fits, ReplicaRemoteItem
<1>2. CASE p.base = None
    <2>1. p.object # None
        BY <1>2 DEF Fits
    <2>2. CASE item.revision # None
        BY <1>2, <2>1, <2>2, MarkFacts DEF ReconcileContent
    <2>3. CASE item.revision = None
        BY <1>1, <1>2, <2>3, UntouchedFacts DEF ReconcileContent
    <2> QED BY <2>2, <2>3
<1>3. CASE p.base # None /\ p.status = "Conflict"
    <2>1. p.conflict_revision # None /\ item.revision # None
        BY <1>1, <1>3 DEF Shape, Fits
    <2>2. item.revision # p.base.revision
        BY <1>1, <1>3, <2>1 DEF Shape, Fits, ReplicaPlacement, ReplicaBase
    <2>3. CASE item.revision # p.conflict_revision
        BY <1>3, <2>1, <2>2, <2>3, MarkFacts DEF ReconcileContent, Diverges
    <2>4. CASE item.revision = p.conflict_revision
        <3>1. ReconcileContent(p, item, options) = Continue(p, Nothing)
            BY <1>3, <2>4 DEF ReconcileContent, Diverges
        <3>2. Saw(p, item.revision)
            BY <2>1, <2>4 DEF KnownRevision, Saw
        <3> QED BY <1>1, <3>1, <3>2, UntouchedFacts
    <2> QED BY <2>3, <2>4
<1>4. CASE p.base # None /\ p.status # "Conflict"
    <2> DEFINE local_changed  == p.status = "Dirty" /\ p.object # None
                                                    /\ p.object # p.base.object
               remote_changed == Diverges(item, p.base.revision)
    <2>1. p.conflict_revision = None /\ p.base.revision \in Opt(Revision)
        BY <1>1, <1>4 DEF Shape, ReplicaPlacement, ReplicaBase
    <2>2. ~remote_changed => (item.revision # None => Saw(p, item.revision))
        BY <1>4, <2>1 DEF Diverges, KnownRevision, Saw
    <2>3. ~remote_changed => (item.revision # None => p.base.revision = item.revision)
        BY DEF Diverges
    <2>4. remote_changed => item.revision # None /\ item.revision # p.base.revision
        BY DEF Diverges
    <2>5. ReconcileContent(p, item, options) =
            IF local_changed
            THEN IF remote_changed THEN ResolveConflict(p, item, options)
                 ELSE IF May(options, "content")
                      THEN PushLocal(p, p.base.revision)
                      ELSE Continue(p, Nothing)
            ELSE IF remote_changed THEN PullRemote(p, item, Nothing)
                 ELSE Continue(p, Nothing)
        BY <1>4 DEF ReconcileContent
    <2>6. ASSUME local_changed, remote_changed
          PROVE  ContentFacts(ResolveConflict(p, item, options), p, item, options)
        <3>1. p.object # None
            BY <2>6
        <3>2. options.conflict \in {"Manual", "PreferLocal", "PreferRemote", "KeepBoth"}
            BY DEF ReplicaSyncOptions
        <3>3. ContentFacts(MarkConflict(p, item), p, item, options)
            BY <2>4, <2>6, MarkFacts
        <3>4. ContentFacts(PullRemote(p, item, Nothing), p, item, options)
            BY <1>1, <1>4, PullRemoteFacts
        <3>5. ContentFacts(PullRemote(p, item,
                              [Nothing EXCEPT !.dup = ConflictDup(p), !.ops = 1]),
                           p, item, options)
            BY <1>1, <1>4, <3>1, PullRemoteFacts
        <3>6. options.conflict = "PreferLocal" =>
                ContentFacts(PushLocal(p, item.revision), p, item, options)
            BY <1>1, <1>4, <3>1, PushLocalFacts
        <3> QED BY <3>2, <3>3, <3>4, <3>5, <3>6 DEF ResolveConflict
    <2>7. ASSUME local_changed, ~remote_changed
          PROVE  ContentFacts(PushLocal(p, p.base.revision), p, item, options)
        <3>1. p.object # None
            BY <2>7
        <3> QED BY <1>1, <1>4, <2>1, <2>3, <2>7, <3>1, PushLocalFacts
    <2>8. ~remote_changed => ContentFacts(Continue(p, Nothing), p, item, options)
        BY <1>1, <2>2, UntouchedFacts
    <2>9. ContentFacts(PullRemote(p, item, Nothing), p, item, options)
        BY <1>1, <1>4, PullRemoteFacts
    <2> HIDE DEF local_changed, remote_changed
    <2> QED BY <2>5, <2>6, <2>7, <2>8, <2>9
<1> QED BY <1>2, <1>3, <1>4

--------------------------------------------------------------------------------
(* The candidate as a whole.                                               *)

(* What the remote reports: the row left has a base and has seen the       *)
(* reported revision, unless the local side is pushed over it.             *)
Present(out, p, item, options) ==
    LET q == After(p, out)
    IN  /\ q \in ReplicaPlacement /\ q.base # None
        /\ Shape(q) /\ Sourced(q, p, item)
        /\ item.revision # None =>
              \/ KnownRevision(q) = item.revision
              \/ /\ options.conflict = "PreferLocal"
                 /\ p # None /\ p.base # None
                 /\ KnownRevision(q) = KnownRevision(p)
                 /\ out.push # None /\ out.push.kind = "Update"
        /\ out.push # None =>
              /\ out.push.kind # "Add"
              /\ (out.push.kind \in {"Update", "Remove"} /\ item.revision # None) =>
                    out.push.if_match = item.revision
        /\ out.content # None =>
              /\ p # None /\ out.content = p /\ out.push.object = p.object
              /\ p.base # None /\ p.conflict_revision = None
        /\ out.flag # None =>
              /\ out.flag.base # None /\ out.flag.status # "Tombstone"
              /\ Shape(out.flag) /\ Sourced(out.flag, p, item)
        /\ out.dup # None =>
              p # None /\ p.base # None /\ p.object # None /\ out.dup = ConflictDup(p)

(* What it does not: no base is left, and only an Add goes out. *)
Absent(out, p) ==
    LET q == After(p, out)
    IN  /\ q # None =>
              \/ q = p /\ p.base = None
              \/ /\ q.base = None /\ q.conflict_revision = None
                 /\ q.conflict_object = None /\ q.object # None /\ Shape(q)
        /\ out.push # None =>
              /\ out.push.kind = "Add" /\ out.create # None
              /\ out.create.status = "Created" /\ out.push.object = out.create.object
              /\ \/ out.create = p /\ p.base = None
                 \/ /\ out.create.base = None /\ out.create.conflict_revision = None
                    /\ out.create.conflict_object = None
                    /\ out.create.object # None
        /\ out.dup = None

(* q is r with its flag half moved. *)
Reflagged(q, r) ==
    /\ q \in ReplicaPlacement /\ SameVersion(q, r) /\ Shape(q)
    /\ q.base # None /\ q.status # "Tombstone"

(* The flag axis writes the row it was handed but for its flag half, and   *)
(* derives a change only where the content axis derived none.              *)
LEMMA ReconcileFlagsFacts ==
    ASSUME NEW r \in ReplicaPlacement, NEW item \in ReplicaRemoteItem,
           NEW options, NEW out, Sound(out),
           Shape(r), r.status # "Tombstone",
           NEW new, new = ReconcileFlags(r, item, out, options)
    PROVE  /\ \/ new.put = out.put /\ Reflagged(r, r)
              \/ \E q : Reflagged(q, r) /\ new.put = Upsert(q)
           /\ new.content = out.content /\ new.drop = out.drop
           /\ new.create = out.create /\ new.dup = out.dup
           /\ \/ new.push = out.push /\ new.flag = out.flag
              \/ /\ out.push = None /\ new.push.kind = "SetFlags"
                 /\ Reflagged(new.flag, r)
<1> DEFINE merged  == MergeFlags(r.base.flags, r.flags, item.flags)
           updated == [r EXCEPT !.flags = merged]
           folded  == IF merged # r.flags THEN Write(out, Upsert(updated))
                      ELSE out
           Same(w) == /\ w.content = out.content /\ w.drop = out.drop
                      /\ w.create = out.create /\ w.dup = out.dup
                      /\ w.push = out.push /\ w.flag = out.flag
<1>1. r.flags \in ReplicaFlags /\ item.flags \in ReplicaFlags /\ out \in Outcome
    BY DEF ReplicaPlacement, ReplicaRemoteItem, Sound
<1>2. ASSUME NEW flags \in ReplicaFlags
      PROVE  Reflagged(PullFlags(r, flags), r) /\ Reflagged(Rebase(r, flags), r)
    BY FlagRewriteFacts DEF Reflagged
<1>3. ASSUME NEW op PROVE Write(out, op).put = op /\ Same(Write(out, op))
    BY <1>1, WriteKeeps
<1>4. CASE r.base = None
    <2>1. new = Write(out, Upsert(PullFlags(r, item.flags)))
        BY <1>4 DEF ReconcileFlags
    <2> QED BY <1>1, <1>2, <1>3, <2>1
<1>5. CASE r.base # None
    <2>1. merged \in ReplicaFlags
        BY <1>1, <1>5, MergeFlagsType DEF ReplicaPlacement, ReplicaBase
    <2>2. Reflagged(r, r)
        BY <1>5 DEF Reflagged, SameVersion
    <2> HIDE DEF merged
    <2>3. Reflagged(updated, r)
        BY <1>5, <2>1, FlagsUpdateFacts DEF Reflagged
    <2>4. folded \in Outcome /\ Same(folded)
          /\ (folded.put = out.put \/ folded.put = Upsert(updated))
        BY <1>1, <1>3, <2>3, WriteSound, OpTypes DEF Sound, Reflagged
    <2> HIDE DEF updated, folded
    <2>5. CASE merged # item.flags
        <3>1. CASE new = folded
            BY <2>2, <2>3, <2>4, <3>1
        <3>2. CASE new # folded
            <4>1. /\ out.push = None
                  /\ new = [folded EXCEPT !.push = SetFlags(merged),
                                          !.flag = updated]
                BY <1>5, <2>5, <3>2 DEF ReconcileFlags, merged, updated, folded
            <4>2. /\ new.put = folded.put /\ new.content = folded.content
                  /\ new.drop = folded.drop /\ new.create = folded.create
                  /\ new.dup = folded.dup /\ new.push = SetFlags(merged)
                  /\ new.flag = updated
                BY <2>4, <4>1 DEF Outcome
            <4>3. SetFlags(merged).kind = "SetFlags"
                BY DEF SetFlags
            <4> QED BY <2>2, <2>3, <2>4, <4>1, <4>2, <4>3
        <3> QED BY <3>1, <3>2
    <2>6. CASE merged = item.flags
        <3>1. \/ new = out
              \/ new = Write(out, Upsert(PullFlags(r, merged)))
              \/ new = Write(out, Upsert(Rebase(r, merged)))
            BY <1>5, <2>6 DEF ReconcileFlags, merged
        <3> QED BY <1>2, <1>3, <2>1, <2>2, <3>1
    <2> QED BY <2>5, <2>6
<1> QED BY <1>4, <1>5

(* What is reflagged is sourced as it was, and has seen what it had. *)
LEMMA ReflaggedSame ==
    ASSUME NEW q, NEW r, NEW p, NEW item, Reflagged(q, r), Sourced(r, p, item)
    PROVE  /\ Sourced(q, p, item)
           /\ (r.base # None \/ r.conflict_revision # None) =>
                 KnownRevision(q) = KnownRevision(r)
BY DEF Reflagged, SameVersion, Sourced, KnownRevision

LEMMA MergeBothFacts ==
    ASSUME NEW p \in ReplicaPlacement, NEW item \in ReplicaRemoteItem,
           NEW options \in ReplicaSyncOptions, Fits(p, item), p.status # "Tombstone"
    PROVE  Present(MergeBoth(p, item, options), p, item, options)
<1> DEFINE c   == ReconcileContent(p, item, options)
           new == MergeBoth(p, item, options)
           q   == After(p, new)
<1>1. ContentFacts(c, p, item, options) /\ Sound(c.out)
    BY ReconcileContentFacts, ReconcileContentSound DEF SoundContent
<1>2. new = ReconcileFlags(c.row, item, c.out, options)
    BY DEF MergeBoth
<1> HIDE DEF c, new
<1>3. /\ c.row \in ReplicaPlacement /\ Shape(c.row) /\ c.row.status # "Tombstone"
      /\ Sourced(c.row, p, item) /\ p # None
    BY <1>1, SentinelAssumption DEF ContentFacts
<1>4. /\ \/ new.put = c.out.put /\ Reflagged(c.row, c.row)
         \/ \E row : Reflagged(row, c.row) /\ new.put = Upsert(row)
      /\ new.content = c.out.content /\ new.drop = c.out.drop
      /\ new.create = c.out.create /\ new.dup = c.out.dup
      /\ \/ new.push = c.out.push /\ new.flag = c.out.flag
         \/ /\ c.out.push = None /\ new.push.kind = "SetFlags"
            /\ Reflagged(new.flag, c.row)
    BY <1>1, <1>2, <1>3, ReconcileFlagsFacts
<1>5. ASSUME NEW row \in ReplicaPlacement
      PROVE  /\ Upsert(row) # Keep /\ Upsert(row).row = row
             /\ Upsert(row).op = "UpsertPlacement"
    BY OpTypes, MergeAssumption DEF Upsert
<1>6. Reflagged(q, c.row)
    BY <1>1, <1>3, <1>4, <1>5 DEF After, ContentFacts, Reflagged
<1> HIDE DEF q
<1>7. Sourced(q, p, item)
    BY <1>3, <1>6, ReflaggedSame
<1>8. item.revision # None =>
        \/ KnownRevision(q) = item.revision
        \/ /\ options.conflict = "PreferLocal" /\ p.base # None
           /\ KnownRevision(q) = KnownRevision(p)
           /\ new.push # None /\ new.push.kind = "Update"
    <2> SUFFICES ASSUME item.revision # None
                 PROVE  \/ KnownRevision(q) = item.revision
                        \/ /\ options.conflict = "PreferLocal" /\ p.base # None
                           /\ KnownRevision(q) = KnownRevision(p)
                           /\ new.push # None /\ new.push.kind = "Update"
        OBVIOUS
    <2>1. CASE Saw(c.row, item.revision)
        BY <1>3, <1>6, <2>1, ReflaggedSame DEF Saw
    <2>2. CASE ~Saw(c.row, item.revision)
        <3>1. /\ options.conflict = "PreferLocal" /\ p.base # None
              /\ c.out.push # None /\ c.row = p /\ c.out.push.kind = "Update"
            BY <1>1, <2>2 DEF ContentFacts
        <3> QED BY <1>3, <1>4, <1>6, <3>1, ReflaggedSame
    <2> QED BY <2>1, <2>2
<1>9. new.flag # None =>
        /\ new.flag.base # None /\ new.flag.status # "Tombstone"
        /\ Shape(new.flag) /\ Sourced(new.flag, p, item)
    <2>1. c.out.flag = None
        BY <1>1 DEF ContentFacts
    <2> QED BY <1>3, <1>4, <2>1, ReflaggedSame DEF Reflagged
<1>10. new.push # None =>
        /\ new.push.kind # "Add"
        /\ (new.push.kind \in {"Update", "Remove"} /\ item.revision # None) =>
              new.push.if_match = item.revision
    BY <1>1, <1>4 DEF ContentFacts
<1>11. new.content # None =>
        /\ new.content = p /\ new.push.object = p.object
        /\ p.base # None /\ p.conflict_revision = None
    <2>1. c.out.content # None => c.out.push # None
        BY <1>1 DEF Sound, Agrees
    <2> QED BY <1>1, <1>4, <2>1 DEF ContentFacts
<1>12. new.dup # None =>
        p.base # None /\ p.object # None /\ new.dup = ConflictDup(p)
    BY <1>1, <1>4 DEF ContentFacts
<1>13. q \in ReplicaPlacement /\ q.base # None /\ Shape(q)
    BY <1>6 DEF Reflagged
<1> QED
    BY <1>3, <1>7, <1>8, <1>9, <1>10, <1>11, <1>12, <1>13 DEF Present, q, new

(* An outcome that writes a row and derives nothing. *)
LEMMA WrittenFacts ==
    ASSUME NEW p, NEW q \in ReplicaPlacement,
           NEW out, out = Write(Nothing, Upsert(q))
    PROVE  /\ After(p, out) = q
           /\ out.push = None /\ out.flag = None /\ out.content = None
           /\ out.create = None /\ out.dup = None
<1>1. /\ Upsert(q) # Keep /\ Upsert(q).row = q
      /\ Upsert(q).op = "UpsertPlacement"
    BY OpTypes, MergeAssumption DEF Upsert
<1>2. Nothing \in Outcome
    BY NothingSound DEF Sound
<1>3. /\ out.put = Upsert(q) /\ out.push = None /\ out.flag = None
      /\ out.content = None /\ out.create = None /\ out.dup = None
    BY <1>2, WriteKeeps DEF Nothing
<1> QED BY <1>1, <1>3 DEF After

LEMMA PullAddFacts ==
    ASSUME NEW p, NEW item \in ReplicaRemoteItem, NEW options
    PROVE  Present(Write(Nothing, Upsert(PullAdd(item))), p, item, options)
<1> DEFINE q == PullAdd(item)
<1>1. /\ q \in ReplicaPlacement /\ q.base # None /\ Shape(q)
      /\ q.conflict_revision = None /\ q.conflict_object = None
      /\ q.base.revision = item.revision /\ q.base.object = None
    BY PullFacts
<1> HIDE DEF q
<1>2. Sourced(q, p, item) /\ KnownRevision(q) = item.revision
    BY <1>1 DEF Sourced, KnownRevision
<1> QED BY <1>1, <1>2, WrittenFacts DEF Present, q

LEMMA MergeTombstoneFacts ==
    ASSUME NEW p \in ReplicaPlacement, NEW item \in ReplicaRemoteItem,
           NEW options, Fits(p, item), p.status = "Tombstone", p.base # None
    PROVE  Present(MergeTombstone(p, item, options), p, item, options)
<1>1. CASE Diverges(item, p.base.revision)
    BY <1>1, PullAddFacts DEF MergeTombstone
<1>2. CASE ~Diverges(item, p.base.revision)
    <2>1. item.revision # None => item.revision = p.base.revision
        BY <1>2 DEF Diverges
    <2>2. p.conflict_revision = None
        BY <2>1 DEF Fits, Shape, ReplicaPlacement, ReplicaBase, ReplicaRemoteItem
    <2>3. /\ Shape(p) /\ Sourced(p, p, item) /\ p # None
          /\ item.revision # None => KnownRevision(p) = item.revision
        BY <2>1, <2>2, SentinelAssumption DEF Fits, Sourced, KnownRevision
    <2>4. ASSUME NEW out, out.put = Keep, out.flag = None, out.dup = None,
                 \/ out.push = None /\ out.content = None
                 \/ /\ out.push = Update(p, p.base.revision) /\ out.content = p
                 \/ /\ out.push = Remove(p, p.base.revision)
                    /\ out.content = None
          PROVE  Present(out, p, item, options)
        <3>1. After(p, out) = p
            BY <2>4 DEF After
        <3>2. /\ Update(p, p.base.revision).kind = "Update"
              /\ Update(p, p.base.revision).object = p.object
              /\ Update(p, p.base.revision).if_match = p.base.revision
              /\ Remove(p, p.base.revision).kind = "Remove"
              /\ Remove(p, p.base.revision).if_match = p.base.revision
            BY DEF Update, Remove
        <3> QED BY <2>1, <2>2, <2>3, <2>4, <3>1, <3>2 DEF Present
    <2>5. Present(RefuseDelete(p, options), p, item, options)
        <3> DEFINE q == [p EXCEPT !.status = "Clean"]
        <3>1. /\ q \in ReplicaPlacement /\ q.base = p.base
              /\ q.conflict_revision = p.conflict_revision
              /\ q.conflict_object = p.conflict_object /\ q.status = "Clean"
            BY DEF ReplicaPlacement, ReplicaStatus
        <3> HIDE DEF q
        <3>2. /\ Shape(q) /\ Sourced(q, p, item)
              /\ item.revision # None => KnownRevision(q) = item.revision
            BY <2>2, <2>3, <3>1 DEF Shape, Sourced, KnownRevision
        <3>3. Present(Write(Nothing, Upsert(q)), p, item, options)
            BY <3>1, <3>2, WrittenFacts DEF Present
        <3>4. Present(Nothing, p, item, options)
            BY <2>4 DEF Nothing
        <3> QED BY <3>3, <3>4 DEF RefuseDelete, q
    <2>6. Present([Nothing EXCEPT !.push    = Update(p, p.base.revision),
                                  !.content = p], p, item, options)
        BY <2>4 DEF Nothing
    <2>7. Present([Nothing EXCEPT !.push = Remove(p, p.base.revision),
                                  !.drop = TRUE], p, item, options)
        BY <2>4 DEF Nothing
    <2> QED BY <1>2, <2>5, <2>6, <2>7 DEF MergeTombstone
<1> QED BY <1>1, <1>2

(* ReplicaSync::merge of a member the remote reports: its row is left with *)
(* a base that has seen the reported revision, unless the local side is    *)
(* pushed over it; no revision is paired with another version's body; an   *)
(* edit or a delete goes out under the reported revision, not the stale    *)
(* base (sync.rs, merge, reconcile_content, resolve_conflict).             *)
THEOREM CandidatePresent ==
    ASSUME NEW p \in Opt(ReplicaPlacement), NEW item \in ReplicaRemoteItem,
           NEW options \in ReplicaSyncOptions, p # None => Fits(p, item)
    PROVE  Present(MergeCandidate(p, item, options), p, item, options)
<1>1. item # None
    BY MergeAssumption
<1>2. CASE p = None \/ (p.status = "Tombstone" /\ p.base = None)
    BY <1>1, <1>2, PullAddFacts DEF MergeCandidate
<1>3. CASE p # None /\ p.status = "Tombstone" /\ p.base # None
    BY <1>1, <1>3, MergeTombstoneFacts DEF MergeCandidate
<1>4. CASE p # None /\ p.status # "Tombstone"
    BY <1>1, <1>4, MergeBothFacts DEF MergeCandidate
<1> QED BY <1>2, <1>3, <1>4

(* ReplicaSync::merge of a member the remote does not report: no row keeps *)
(* a base there, a staged edit lives on as a create with its body, and     *)
(* only creates are pushed (sync.rs, merge).                               *)
THEOREM CandidateAbsent ==
    ASSUME NEW p \in Opt(ReplicaPlacement), NEW options, p # None => Shape(p)
    PROVE  Absent(MergeCandidate(p, None, options), p)
<1>1. Nothing.put = Keep /\ Nothing.push = None /\ Nothing.dup = None
    BY DEF Nothing
<1>2. Absent(Write(Nothing, Drop("Deleted")), p)
    <2>1. Drop("Deleted") # Keep /\ Drop("Deleted").op = "DropPlacement"
        BY OpTypes, MergeAssumption DEF Drop, DropReason
    <2>2. Nothing \in Outcome
        BY NothingSound DEF Sound
    <2> QED BY <1>1, <2>1, <2>2, WriteKeeps DEF Absent, After
<1>3. p = None \/ p.base = None => Absent(Nothing, p)
    BY <1>1 DEF Absent, After
<1>4. ASSUME p # None, p.base = None PROVE Absent(MergeCreated(p, options), p)
    <2> DEFINE out == [Nothing EXCEPT !.push = Add(p), !.create = p]
    <2>1. /\ out.put = Keep /\ out.push = Add(p) /\ out.create = p /\ out.dup = None
        BY DEF Nothing
    <2>2. Add(p).kind = "Add" /\ Add(p).object = p.object
        BY DEF Add
    <2> HIDE DEF out
    <2>3. p.status = "Created" => Absent(out, p)
        BY <1>4, <2>1, <2>2 DEF Absent, After
    <2> QED BY <1>3, <1>4, <2>3 DEF MergeCreated, out
<1>5. ASSUME p # None, p.base # None PROVE Absent(MergeVanished(p, options), p)
    <2> DEFINE q   == Resurrect(p)
               put == Write(Nothing, Upsert(q))
               out == [put EXCEPT !.push = Add(q), !.create = q]
    <2>1. q \in ReplicaPlacement /\ p \in ReplicaPlacement
        BY <1>5, ResurrectType
    <2>2. /\ q.base = None /\ q.conflict_revision = None
          /\ q.conflict_object = None /\ q.object = p.object
          /\ q.status = "Created"
        BY <2>1 DEF Resurrect, ReplicaPlacement
    <2> HIDE DEF q
    <2>3. Shape(q)
        BY <2>2 DEF Shape
    <2>4. /\ After(p, put) = q /\ put.push = None /\ put.dup = None
        BY <2>1, WrittenFacts
    <2>5. put \in Outcome
        BY <2>1, WriteSound, NothingSound, OpTypes DEF Sound
    <2> HIDE DEF put
    <2>6. /\ out.put = put.put /\ out.dup = put.dup /\ out.push = Add(q)
          /\ out.create = q
        BY <2>5 DEF Outcome
    <2>7. After(p, out) = q
        BY <2>4, <2>6 DEF After
    <2>8. Add(q).kind = "Add" /\ Add(q).object = q.object
        BY DEF Add
    <2> HIDE DEF out
    <2>9. q # None /\ p # None
        BY <2>1, SentinelAssumption
    <2>10. q.object # None => Absent(put, p) /\ Absent(out, p)
        BY <2>2, <2>3, <2>4, <2>6, <2>7, <2>8, <2>9 DEF Absent
    <2>11. StagedEdit(p) => q.object # None
        BY <2>2 DEF StagedEdit
    <2> QED BY <1>2, <2>10, <2>11 DEF MergeVanished, q, put, out
<1> QED BY <1>2, <1>3, <1>4, <1>5 DEF MergeCandidate

================================================================================
