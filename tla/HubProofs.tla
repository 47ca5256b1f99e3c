-------------------------------- MODULE HubProofs --------------------------------
(***************************************************************************)
(* The hub: every reachable state is well typed, a delete spreads to the   *)
(* other sources only when somebody deleted that item, and no source       *)
(* diverges from a body it folded in itself, for any number of sources,    *)
(* handles and identities, whatever each server reports.                   *)
(***************************************************************************)
EXTENDS Hub, MergeProofs, FiniteSetTheorems, WellFoundedInduction

USE DEF Opt, Revision

--------------------------------------------------------------------------------
(* Absorbing a batch.                                                      *)

(* A non-empty set of naturals has a least element. *)
LEMMA LeastNat ==
    ASSUME NEW S \in SUBSET Nat, S # {}
    PROVE  Least(S) \in S /\ \A y \in S : Least(S) <= y
<1> DEFINE less == {ss \in Nat \X Nat : ss[1] < ss[2]}
<1>1. IsWellFoundedOn(less, Nat)
    BY NatLessThanWellFounded, Zenon DEF OpToRel
<1> HIDE DEF less
<1>2. \E x \in S : \A y \in S : ~(<<y, x>> \in less)
    BY <1>1, WFMin
<1>3. \A x, y \in Nat : x < y => <<x, y>> \in less
    BY DEF less
<1>4. PICK x \in S : \A y \in S : ~(y < x)
    BY <1>2, <1>3
<1>5. \A y \in S : x <= y
    BY <1>4
<1> QED BY <1>5 DEF Least

(* A non-empty set of handles has a greatest. *)
LEMMA GreatestIn ==
    ASSUME NEW S \in SUBSET Handle, S # {}
    PROVE  Greatest(S) \in S
<1> DEFINE Bad == {n \in Nat : \E T \in SUBSET Handle :
                      /\ T # {} /\ Cardinality(T) = n
                      /\ ~ \E x \in T : \A y \in T : x >= y}
<1>1. Bad = {}
    <2> SUFFICES ASSUME Bad # {} PROVE FALSE
        OBVIOUS
    <2>1. Least(Bad) \in Bad /\ \A n \in Bad : Least(Bad) <= n
        BY LeastNat
    <2>2. PICK T \in SUBSET Handle :
             /\ T # {} /\ Cardinality(T) = Least(Bad)
             /\ ~ \E x \in T : \A y \in T : x >= y
        BY <2>1
    <2>3. PICK x \in T : TRUE
        BY <2>2
    <2>4. T \subseteq Nat /\ IsFiniteSet(T)
        BY HubAssumption, FS_Subset
    <2> DEFINE U == T \ {x}
    <2>5. IsFiniteSet(U) /\ Cardinality(U) = Cardinality(T) - 1
        BY <2>3, <2>4, FS_RemoveElement
    <2>6. U # {}
        BY <2>2, <2>3, <2>4
    <2>7. Cardinality(U) \in Nat /\ Cardinality(T) \in Nat
        BY <2>4, <2>5, FS_CardinalityType
    <2>8. Cardinality(U) \notin Bad
        <3> HIDE DEF Bad, U
        <3> QED BY <2>1, <2>2, <2>5, <2>7
    <2>9. PICK z \in U : \A y \in U : z >= y
        BY <2>6, <2>7, <2>8
    <2>10. x \in Nat /\ z \in Nat /\ \A y \in T : y \in U \/ y = x
        BY <2>3, <2>4
    <2>11. CASE z >= x
        BY <2>2, <2>9, <2>10, <2>11
    <2>12. CASE ~(z >= x)
        <3>1. \A y \in T : x >= y
            BY <2>4, <2>9, <2>10, <2>12
        <3> QED BY <2>2, <2>3, <3>1
    <2> QED BY <2>11, <2>12
<1>2. IsFiniteSet(S)
    BY HubAssumption, FS_Subset
<1>3. \E x \in S : \A y \in S : x >= y
    BY <1>1, <1>2, FS_CardinalityType
<1> QED BY <1>3 DEF Greatest

(* What is absorbed once the ops of a set of handles are. *)
Absorbs(after, st, s, ops) ==
    /\ Absorb(st, s, ops) = after[DOMAIN ops]
    /\ after[{}] = st
    /\ \A S \in SUBSET DOMAIN ops : S # {} =>
          /\ Greatest(S) \in S
          /\ after[S] = AbsorbOps(after[S \ {Greatest(S)}], s,
                                  Greatest(S), ops[Greatest(S)])

(* The function that Absorb folds with is one. *)
LEMMA AbsorbSteps ==
    ASSUME NEW st, NEW s, NEW ops, DOMAIN ops \subseteq Handle
    PROVE  \E after : Absorbs(after, st, s, ops)
<1> DEFINE D == DOMAIN ops
           Step(x, S) == The({AbsorbOps(before, s, Greatest(S), ops[Greatest(S)]) :
                                 before \in {x}})
           Upto(n) == {S \in SUBSET D : Cardinality(S) <= n}
           Good(n) == \E f : f = [S \in Upto(n) |->
                                    IF S = {} THEN st
                                    ELSE Step(f[S \ {Greatest(S)}], S)]
           Bad == {n \in Nat : ~Good(n)}
<1>1. \A S \in SUBSET D : IsFiniteSet(S) /\ Cardinality(S) \in Nat
    BY HubAssumption, FS_Subset, FS_CardinalityType
<1>2. \A S \in SUBSET D : S # {} =>
         /\ Greatest(S) \in S
         /\ S \ {Greatest(S)} \in SUBSET D
         /\ Cardinality(S \ {Greatest(S)}) = Cardinality(S) - 1
    BY <1>1, GreatestIn, FS_RemoveElement
<1>3. Bad = {}
    <2> HIDE DEF Step
    <2> SUFFICES ASSUME Bad # {} PROVE FALSE
        OBVIOUS
    <2> DEFINE n == Least(Bad)
    <2>1. n \in Bad /\ \A k \in Bad : n <= k
        BY LeastNat
    <2> HIDE DEF n
    <2>2. n \in Nat /\ ~Good(n)
        BY <2>1
    <2>3. CASE n = 0
        <3>1. \A S \in Upto(0) : S = {}
            BY <1>1, FS_EmptySet
        <3>2. [S \in Upto(0) |-> st] =
                 [S \in Upto(0) |-> IF S = {} THEN st
                    ELSE Step([T \in Upto(0) |-> st][S \ {Greatest(S)}], S)]
            BY <3>1
        <3> QED BY <2>2, <2>3, <3>2
    <2>4. CASE n # 0
        <3>1. n - 1 \in Nat /\ n - 1 \notin Bad
            <4> HIDE DEF Bad
            <4> QED BY <2>1, <2>2, <2>4
        <3>2. PICK f : f = [S \in Upto(n - 1) |->
                              IF S = {} THEN st ELSE Step(f[S \ {Greatest(S)}], S)]
            BY <3>1
        <3> DEFINE g == [S \in Upto(n) |->
                           IF S = {} THEN st ELSE Step(f[S \ {Greatest(S)}], S)]
        <3>3. \A S \in Upto(n) : S # {} => S \ {Greatest(S)} \in Upto(n - 1)
            BY <1>1, <1>2, <2>2
        <3>4. \A S \in Upto(n - 1) : S \in Upto(n)
            BY <1>1, <2>2
        <3>5. \A S \in Upto(n - 1) : f[S] = g[S]
            BY <3>2, <3>4
        <3>6. \A S \in Upto(n) : S # {} =>
                 f[S \ {Greatest(S)}] = g[S \ {Greatest(S)}]
            BY <3>3, <3>5
        <3>7. g = [S \in Upto(n) |->
                     IF S = {} THEN st ELSE Step(g[S \ {Greatest(S)}], S)]
            BY <3>6
        <3> QED BY <2>2, <3>7
    <2> QED BY <2>3, <2>4
<1> DEFINE after == CHOOSE f : f = [S \in SUBSET D |->
                                      IF S = {} THEN st
                                      ELSE Step(f[S \ {Greatest(S)}], S)]
<1>4. Upto(Cardinality(D)) = SUBSET D
    <2>1. \A S \in SUBSET D : Cardinality(S) <= Cardinality(D)
        BY <1>1, FS_Subset
    <2> QED BY <2>1
<1>5. \E f : f = [S \in SUBSET D |->
                    IF S = {} THEN st ELSE Step(f[S \ {Greatest(S)}], S)]
    <2>1. Good(Cardinality(D))
        BY <1>1, <1>3
    <2> HIDE DEF Step
    <2> QED BY <1>4, <2>1
<1>6. after = [S \in SUBSET D |->
                 IF S = {} THEN st ELSE Step(after[S \ {Greatest(S)}], S)]
    <2> HIDE DEF Step
    <2> QED BY <1>5
<1>7. \A x, S : Step(x, S) = AbsorbOps(x, s, Greatest(S), ops[Greatest(S)])
    BY DEF The
<1>8. Absorb(st, s, ops) = after[D]
    BY Zenon DEF Absorb
<1> HIDE DEF after, Step
<1>9. after[{}] = st
    BY <1>6
<1>10. \A S \in SUBSET D : S # {} => after[S] = Step(after[S \ {Greatest(S)}], S)
    BY <1>6
<1> QED BY <1>2, <1>7, <1>8, <1>9, <1>10 DEF Absorbs

(* What each op keeps, whatever came before it, the batch keeps. (A set of *)
(* pairs stands for the property: of what is absorbed, and the store.)     *)
LEMMA AbsorbKeeps ==
    ASSUME NEW st, NEW s, NEW ops, DOMAIN ops \subseteq Handle, NEW P,
           <<{}, st>> \in P,
           \A S \in SUBSET DOMAIN ops, h \in DOMAIN ops : \A x :
              (h \notin S /\ <<S, x>> \in P) =>
                 <<S \cup {h}, AbsorbOps(x, s, h, ops[h])>> \in P
    PROVE  <<DOMAIN ops, Absorb(st, s, ops)>> \in P
<1>1. PICK after : Absorbs(after, st, s, ops)
    BY AbsorbSteps
<1> DEFINE D == DOMAIN ops
<1> DEFINE Bad == {n \in Nat : \E S \in SUBSET D :
                      Cardinality(S) = n /\ <<S, after[S]>> \notin P}
<1>2. Bad = {}
    <2> SUFFICES ASSUME Bad # {} PROVE FALSE
        OBVIOUS
    <2>1. Least(Bad) \in Bad /\ \A k \in Bad : Least(Bad) <= k
        BY LeastNat
    <2>2. PICK S \in SUBSET D : Cardinality(S) = Least(Bad) /\ <<S, after[S]>> \notin P
        BY <2>1
    <2>3. S # {}
        BY <1>1, <2>2 DEF Absorbs
    <2> DEFINE h == Greatest(S)
               T == S \ {h}
    <2>4. h \in S /\ after[S] = AbsorbOps(after[T], s, h, ops[h])
        BY <1>1, <2>3 DEF Absorbs
    <2> HIDE DEF h
    <2>5. IsFiniteSet(S) /\ IsFiniteSet(T) /\ Cardinality(T) = Cardinality(S) - 1
        BY <2>4, HubAssumption, FS_Subset, FS_RemoveElement
    <2>6. Cardinality(S) \in Nat /\ Cardinality(T) \in Nat
        BY <2>5, FS_CardinalityType
    <2>7. Cardinality(T) \notin Bad
        <3> HIDE DEF Bad, T
        <3> QED BY <2>1, <2>2, <2>5, <2>6
    <2>9. <<T, after[T]>> \in P
        BY <2>6, <2>7
    <2>8. S = T \cup {h} /\ h \notin T /\ h \in D /\ T \in SUBSET D
        BY <2>4
    <2> QED BY <2>2, <2>4, <2>8, <2>9
<1>3. Cardinality(D) \in Nat
    BY HubAssumption, FS_Subset, FS_CardinalityType
<1> QED BY <1>1, <1>2, <1>3 DEF Absorbs

--------------------------------------------------------------------------------
(* The inductive invariant.                                                *)

(* The identities a server's member goes by. *)
Names(s, h) ==
    IF servers[s][h] = None THEN {}
    ELSE {servers[s][h].link, Mint[<<servers[s][h].link, h>>]}

(* No other item is, or will ever be, under the handle. *)
Named(s, h, link) ==
    /\ h \in ServerHandle => h \in used[s]
    /\ servers[s][h] # None => link \in Names(s, h)

(* The item is under the handle, unless somebody deleted it. *)
Mourned(s, h, link, gone) ==
    Named(s, h, link) /\ (servers[s][h] = None => link \in gone)

(* A row the source pulled and nobody has identified. *)
Loose(p) == p.link_id = None /\ p.status = "Clean" /\ p.base # None

LooseInv(s, rows) ==
    \A h \in Handle : rows[h] # None => Loose(rows[h]) /\ h \in used[s]

(* A source knows an item by its base or its conflict where it was. *)
ItemFits(link, item, gone) ==
    item # None =>
        /\ item.deleted => link \in gone
        /\ \A s \in Source :
              LET binding == item.sources[s]
              IN  binding # None =>
                    /\ Named(s, binding.handle, link)
                    /\ (binding.base # None \/ binding.conflicted) =>
                          Mourned(s, binding.handle, link, gone)

ItemsInv(items, gone) == \A link \in LinkId : ItemFits(link, items[link], gone)

OneBound(items) ==
    \A s \in Source, h \in Handle : \A i, j \in BoundAt(items, s, h) : i = j

HubStore == [items    : [LinkId -> Opt(ReplicaHubItem)],
             residual : [Handle -> Opt(ReplicaPlacement)]]

(* What the source's store must be before, between and after its ops. *)
Kept(st, s, gone) ==
    /\ st \in HubStore
    /\ ItemsInv(st.items, gone) /\ OneBound(st.items) /\ LooseInv(s, st.residual)

(* A row to be absorbed. *)
RowFits(items, s, h, p, gone) ==
    IF p.link_id = None THEN Loose(p) /\ h \in used[s]
    ELSE /\ BoundAt(items, s, h) \subseteq {p.link_id}
         /\ Named(s, h, p.link_id)
         /\ (p.base # None \/ p.status = "Conflict") =>
               Mourned(s, h, p.link_id, gone)
         /\ p.status = "Tombstone" => p.link_id \in gone

OpFits(items, s, h, op, gone) ==
    op # Keep =>
        /\ op.op = "UpsertPlacement" => RowFits(items, s, h, op.row, gone)
        /\ (op.op = "DropPlacement" /\ op.reason = "Deleted") =>
              BoundAt(items, s, h) \subseteq gone

(* The identity an op binds its handle to. *)
OpLinks(op) ==
    IF op # Keep /\ op.op = "UpsertPlacement" THEN {op.row.link_id} \ {None}
    ELSE {}

--------------------------------------------------------------------------------
(* What one op makes of the items.                                         *)

LEMMA ReconcileSharedType ==
    ASSUME NEW item \in ReplicaHubItem, NEW s \in Source, NEW p \in ReplicaPlacement
    PROVE  LET new == ReconcileShared(item, s, p)
           IN  /\ new \in ReplicaHubItem /\ new.sources = item.sources
               /\ new.deleted = item.deleted
<1> DEFINE settled(body) == [item EXCEPT !.object = body, !.conflicted = FALSE,
                                         !.conflict_object = None]
           split == [item EXCEPT !.conflicted = TRUE, !.conflict_object = p.object]
<1>1. p.object \in Opt(Body) /\ item.object \in Opt(Body)
    BY DEF ReplicaPlacement, ReplicaHubItem
<1>2. \A body \in Opt(Body) : /\ settled(body) \in ReplicaHubItem
                              /\ settled(body).sources = item.sources
                              /\ settled(body).deleted = item.deleted
    BY DEF ReplicaHubItem
<1>3. /\ split \in ReplicaHubItem
      /\ split.sources = item.sources /\ split.deleted = item.deleted
    BY <1>1 DEF ReplicaHubItem
<1>4. \/ ReconcileShared(item, s, p) = split
      \/ ReconcileShared(item, s, p) = settled(p.object)
      \/ ReconcileShared(item, s, p) = settled(item.object)
      \/ ReconcileShared(item, s, p) = item
    BY Zenon, HubAssumption DEF ReconcileShared, ReplicaHubConflict
<1> HIDE DEF settled, split
<1> QED BY <1>1, <1>2, <1>3, <1>4

LEMMA BindingOfType ==
    ASSUME NEW h \in Handle, NEW p \in ReplicaPlacement, NEW body \in Opt(Body)
    PROVE  LET b == BindingOf(h, p, body)
           IN  /\ b \in ReplicaSourceBinding /\ b # None
               /\ b.handle = h /\ b.base = p.base
               /\ b.conflicted = (p.status = "Conflict")
<1> DEFINE b == BindingOf(h, p, body)
           conflicted == p.status = "Conflict"
           revision == IF conflicted THEN p.conflict_revision ELSE None
           object == IF conflicted THEN p.conflict_object ELSE None
<1>1. b = [handle |-> h, base |-> p.base, conflicted |-> conflicted,
           conflict_revision |-> revision, conflict_object |-> object,
           shared_object |-> body]
    BY DEF BindingOf
<1>2. /\ conflicted \in BOOLEAN /\ revision \in Opt(Revision)
      /\ object \in Opt(Body) /\ p.base \in Opt(ReplicaBase)
    BY DEF ReplicaPlacement
<1> HIDE DEF b, revision, object, conflicted
<1>3. b \in ReplicaSourceBinding
    BY <1>1, <1>2 DEF ReplicaSourceBinding
<1>4. b # None
    BY <1>3, HubAssumption
<1>5. b.handle = h /\ b.base = p.base /\ b.conflicted = conflicted
    BY <1>1
<1> QED BY <1>3, <1>4, <1>5, Zenon DEF b, conflicted

(* The binding a source has in the item of an identity it is given. *)
LEMMA UpsertCases ==
    ASSUME NEW items \in [LinkId -> Opt(ReplicaHubItem)], NEW s \in Source,
           NEW h \in Handle, NEW p \in ReplicaPlacement, p.link_id # None
    PROVE  LET new  == AbsorbUpsert(items, s, h, p)
               item == new[p.link_id]
               b    == item.sources[s]
           IN  /\ p.link_id \in LinkId
               /\ new \in [LinkId -> Opt(ReplicaHubItem)]
               /\ \A link \in LinkId : link # p.link_id => new[link] = items[link]
               /\ item # None
               /\ item.deleted = (p.status = "Tombstone")
               /\ b # None /\ b.handle = h /\ b.base = p.base
               /\ b.conflicted = (p.status = "Conflict")
               /\ \A t \in Source : t # s =>
                     item.sources[t] = IF items[p.link_id] = None THEN None
                                       ELSE items[p.link_id].sources[t]
<1> DEFINE link == p.link_id
           old  == IF items[link] = None THEN NewItem(p) ELSE items[link]
           item == IF p.status = "Tombstone" THEN AbsorbTombstone(old, s, h, p)
                   ELSE AbsorbLive(old, s, h, p)
<1>1. link \in LinkId
    BY DEF ReplicaPlacement
<1>2. NewItem(p) \in ReplicaHubItem
    BY HubAssumption DEF NewItem, ReplicaHubItem, ReplicaPlacement
<1>3. old \in ReplicaHubItem
    BY <1>1, <1>2
<1>4. \A t \in Source : old.sources[t] = IF items[link] = None THEN None
                                         ELSE items[link].sources[t]
    BY DEF NewItem
<1>5. AbsorbUpsert(items, s, h, p) = [items EXCEPT ![link] = item]
    BY DEF AbsorbUpsert
<1> HIDE DEF old, link
<1> DEFINE Made(new) ==
        /\ new \in ReplicaHubItem
        /\ new.deleted = (p.status = "Tombstone")
        /\ new.sources[s] # None /\ new.sources[s].handle = h
        /\ new.sources[s].base = p.base
        /\ new.sources[s].conflicted = (p.status = "Conflict")
        /\ \A t \in Source : t # s => new.sources[t] = old.sources[t]
<1>6. ASSUME NEW q \in ReplicaHubItem, NEW body \in Opt(Body), NEW level \in ReplicaLevel,
             q.sources = old.sources, q.deleted = (p.status = "Tombstone")
      PROVE  Made([q EXCEPT !.level = level, !.sources[s] = BindingOf(h, p, body)])
    <2> DEFINE b == BindingOf(h, p, body)
               new == [q EXCEPT !.level = level, !.sources[s] = b]
    <2>1. /\ b \in ReplicaSourceBinding /\ b # None
          /\ b.handle = h /\ b.base = p.base
          /\ b.conflicted = (p.status = "Conflict")
        BY BindingOfType
    <2> HIDE DEF b
    <2>2. /\ new \in ReplicaHubItem /\ new.deleted = q.deleted
          /\ new.sources = [q.sources EXCEPT ![s] = b]
        BY <1>6, <2>1 DEF ReplicaHubItem
    <2>3. q.sources \in [Source -> Opt(ReplicaSourceBinding)]
        BY <1>6 DEF ReplicaHubItem
    <2> HIDE DEF new
    <2>4. Made(new)
        BY <1>6, <2>1, <2>2, <2>3
    <2> QED BY <2>4 DEF new, b
<1> HIDE DEF Made
<1>7. ASSUME p.status = "Tombstone"
      PROVE  Made(AbsorbTombstone(old, s, h, p))
    <2> DEFINE agreed == IF old.sources[s] = None THEN None
                         ELSE old.sources[s].shared_object
               q == [old EXCEPT !.deleted = TRUE]
    <2>1. agreed \in Opt(Body)
        BY <1>3 DEF ReplicaHubItem, ReplicaSourceBinding
    <2>2. q \in ReplicaHubItem /\ q.sources = old.sources /\ q.deleted = TRUE
             /\ q.level \in ReplicaLevel
        BY <1>3 DEF ReplicaHubItem
    <2>3. Made([q EXCEPT !.level = q.level, !.sources[s] = BindingOf(h, p, agreed)])
        BY <1>6, <1>7, <2>1, <2>2
    <2>4. [q EXCEPT !.level = q.level, !.sources[s] = BindingOf(h, p, agreed)]
             = AbsorbTombstone(old, s, h, p)
        BY <1>3 DEF AbsorbTombstone, ReplicaHubItem
    <2> QED BY <2>3, <2>4
<1>8. ASSUME p.status # "Tombstone"
      PROVE  Made(AbsorbLive(old, s, h, p))
    <2> DEFINE flags == IF p.flags = Unknown THEN old.flags ELSE p.flags
               meta  == IF p.meta = None THEN old.meta ELSE p.meta
               level == IF Level(p.level) > Level(old.level) THEN p.level
                        ELSE old.level
               live  == [old EXCEPT !.deleted = FALSE, !.flags = flags,
                                    !.meta = meta, !.level = level]
               merged == ReconcileShared(live, s, p)
    <2>1. /\ flags \in ReplicaFlags /\ meta \in Opt(ReplicaMeta)
          /\ level \in ReplicaLevel
        BY <1>3 DEF ReplicaPlacement, ReplicaHubItem
    <2> HIDE DEF flags, meta, level
    <2>2. /\ live \in ReplicaHubItem /\ live.sources = old.sources
          /\ live.deleted = FALSE
        BY <1>3, <2>1 DEF ReplicaHubItem
    <2>3. AbsorbLive(old, s, h, p) =
             [merged EXCEPT !.level = StoredLevel(merged),
                            !.sources[s] = BindingOf(h, p, merged.object)]
        BY DEF AbsorbLive, flags, meta, level
    <2> HIDE DEF live
    <2>4. /\ merged \in ReplicaHubItem /\ merged.sources = old.sources
          /\ merged.deleted = FALSE
        BY <2>2, ReconcileSharedType
    <2> HIDE DEF merged
    <2>5. merged.object \in Opt(Body) /\ StoredLevel(merged) \in ReplicaLevel
        BY <2>4 DEF StoredLevel, ReplicaHubItem, ReplicaLevel
    <2>6. merged.deleted = (p.status = "Tombstone")
        BY <1>8, <2>4
    <2>7. Made([merged EXCEPT !.level = StoredLevel(merged),
                              !.sources[s] = BindingOf(h, p, merged.object)])
        BY <1>6, <2>4, <2>5, <2>6
    <2> QED BY <2>3, <2>7
<1>9. Made(item)
    BY <1>7, <1>8
<1> HIDE DEF item
<1>10. item # None
    BY <1>9, HubAssumption DEF Made
<1> QED BY <1>1, <1>4, <1>5, <1>9, <1>10 DEF link, Made

(* What a drop leaves of an item its source held. *)
Cut(old, new, s, reason) ==
    /\ old # None /\ new # None
    /\ new.deleted = (old.deleted \/ reason = "Deleted")
    /\ new.sources = [old.sources EXCEPT ![s] = None]
    /\ new.object = old.object /\ new.conflicted = old.conflicted

LEMMA DropCases ==
    ASSUME NEW items \in [LinkId -> Opt(ReplicaHubItem)], NEW s \in Source,
           NEW h \in Handle, NEW reason
    PROVE  LET new == AbsorbDrop(items, s, h, reason)
           IN  /\ new \in [LinkId -> Opt(ReplicaHubItem)]
               /\ \A link \in LinkId \ BoundAt(items, s, h) :
                     new[link] = items[link]
               /\ \A link \in BoundAt(items, s, h) :
                     Cut(items[link], new[link], s, reason)
<1> DEFINE cut(link) == [items[link] EXCEPT
                           !.deleted    = items[link].deleted \/ reason = "Deleted",
                           !.sources[s] = None]
<1>1. \A link \in BoundAt(items, s, h) :
         items[link] \in ReplicaHubItem /\ items[link] # None
    BY DEF BoundAt
<1>2. \A link \in BoundAt(items, s, h) :
         /\ cut(link) \in ReplicaHubItem
         /\ cut(link).deleted = (items[link].deleted \/ reason = "Deleted")
         /\ cut(link).sources = [items[link].sources EXCEPT ![s] = None]
         /\ cut(link).object = items[link].object
         /\ cut(link).conflicted = items[link].conflicted
    BY <1>1 DEF ReplicaHubItem
<1>3. AbsorbDrop(items, s, h, reason) =
         [link \in LinkId |-> IF link \in BoundAt(items, s, h) THEN cut(link)
                              ELSE items[link]]
    BY DEF AbsorbDrop
<1> HIDE DEF cut
<1> DEFINE new == AbsorbDrop(items, s, h, reason)
<1>4. new = [link \in LinkId |-> IF link \in BoundAt(items, s, h) THEN cut(link)
                                ELSE items[link]]
    BY <1>3
<1> HIDE DEF new
<1>5. new \in [LinkId -> Opt(ReplicaHubItem)]
    BY <1>2, <1>4
<1>6. ASSUME NEW link \in LinkId, link \notin BoundAt(items, s, h)
      PROVE  new[link] = items[link]
    BY <1>4, <1>6
<1>7. ASSUME NEW link \in BoundAt(items, s, h)
      PROVE  link \in LinkId /\ new[link] = cut(link) /\ new[link] # None
    <2>1. link \in LinkId
        BY DEF BoundAt
    <2> QED BY <1>2, <1>4, <2>1, HubAssumption
<1>8. ASSUME NEW link \in BoundAt(items, s, h)
      PROVE  Cut(items[link], new[link], s, reason)
    BY <1>1, <1>2, <1>7, Zenon DEF Cut
<1> QED BY <1>5, <1>6, <1>8, Zenon DEF new

(* An op binds its own handle alone, to its own identity. *)
LEMMA UpsertBounds ==
    ASSUME NEW items \in [LinkId -> Opt(ReplicaHubItem)], NEW s \in Source,
           NEW h \in Handle, NEW p \in ReplicaPlacement, p.link_id # None,
           NEW t \in Source, NEW k \in Handle
    PROVE  BoundAt(AbsorbUpsert(items, s, h, p), t, k) \subseteq
              BoundAt(items, t, k) \cup (IF t = s /\ k = h THEN {p.link_id} ELSE {})
<1> DEFINE new == AbsorbUpsert(items, s, h, p)
<1> SUFFICES ASSUME NEW link \in BoundAt(new, t, k), link \notin BoundAt(items, t, k)
             PROVE  t = s /\ k = h /\ link = p.link_id
    OBVIOUS
<1>1. /\ link \in LinkId /\ new[link] # None
      /\ new[link].sources[t] # None /\ new[link].sources[t].handle = k
    BY DEF BoundAt
<1>2. new[link] # items[link]
    BY <1>1 DEF BoundAt
<1> HIDE DEF new
<1>3. /\ link = p.link_id
      /\ new[link].sources[s].handle = h
      /\ t # s => new[link].sources[t] = IF items[link] = None THEN None
                                         ELSE items[link].sources[t]
    BY <1>1, <1>2, UpsertCases DEF new
<1>4. t = s
    BY <1>1, <1>3 DEF BoundAt
<1> QED BY <1>1, <1>3, <1>4

LEMMA DropBounds ==
    ASSUME NEW items \in [LinkId -> Opt(ReplicaHubItem)], NEW s \in Source,
           NEW h \in Handle, NEW reason, NEW t \in Source, NEW k \in Handle
    PROVE  BoundAt(AbsorbDrop(items, s, h, reason), t, k) \subseteq
              BoundAt(items, t, k)
<1> DEFINE new == AbsorbDrop(items, s, h, reason)
<1> SUFFICES ASSUME NEW link \in BoundAt(new, t, k)
             PROVE  link \in BoundAt(items, t, k)
    OBVIOUS
<1>1. /\ link \in LinkId /\ new[link] # None
      /\ new[link].sources[t] # None /\ new[link].sources[t].handle = k
    BY DEF BoundAt
<1> HIDE DEF new
<1>2. CASE link \notin BoundAt(items, s, h)
    <2>1. link \in LinkId \ BoundAt(items, s, h)
        BY <1>1, <1>2
    <2>2. new[link] = items[link]
        BY <2>1, DropCases DEF new
    <2> QED BY <1>1, <2>2 DEF BoundAt
<1>3. CASE link \in BoundAt(items, s, h)
    <2>3. Cut(items[link], new[link], s, reason)
        BY <1>3, DropCases, Zenon DEF new
    <2>1. /\ items[link] # None
          /\ new[link].sources = [items[link].sources EXCEPT ![s] = None]
        BY <2>3, Zenon DEF Cut
    <2>2. items[link].sources \in [Source -> Opt(ReplicaSourceBinding)]
        BY <1>1, <2>1 DEF ReplicaHubItem
    <2> QED BY <1>1, <2>1, <2>2 DEF BoundAt
<1> QED BY <1>2, <1>3

(* The items stay what they must be. *)
LEMMA UpsertKeeps ==
    ASSUME NEW items \in [LinkId -> Opt(ReplicaHubItem)], NEW s \in Source,
           NEW h \in Handle, NEW p \in ReplicaPlacement, p.link_id # None,
           NEW gone, ItemsInv(items, gone), OneBound(items),
           RowFits(items, s, h, p, gone)
    PROVE  LET new == AbsorbUpsert(items, s, h, p)
           IN  ItemsInv(new, gone) /\ OneBound(new)
<1> DEFINE new == AbsorbUpsert(items, s, h, p)
           link == p.link_id
<1>1. /\ BoundAt(items, s, h) \subseteq {link}
      /\ Named(s, h, link)
      /\ (p.base # None \/ p.status = "Conflict") => Mourned(s, h, link, gone)
      /\ p.status = "Tombstone" => link \in gone
    BY DEF RowFits
<1>2. OneBound(new)
    <2> SUFFICES ASSUME NEW t \in Source, NEW k \in Handle,
                        NEW i \in BoundAt(new, t, k), NEW j \in BoundAt(new, t, k)
                 PROVE  i = j
        BY DEF OneBound
    <2>1. BoundAt(new, t, k) \subseteq
             BoundAt(items, t, k) \cup (IF t = s /\ k = h THEN {link} ELSE {})
        BY UpsertBounds
    <2> QED BY <1>1, <2>1 DEF OneBound
<1>3. ASSUME NEW l \in LinkId
      PROVE  ItemFits(l, new[l], gone)
    <2>1. CASE l # link
        BY <1>3, <2>1, UpsertCases DEF ItemsInv
    <2>2. CASE l = link
        <3> DEFINE b == new[l].sources[s]
        <3>1. /\ new[l].deleted = (p.status = "Tombstone")
              /\ b # None /\ b.handle = h /\ b.base = p.base
              /\ b.conflicted = (p.status = "Conflict")
              /\ \A t \in Source : t # s =>
                    new[l].sources[t] = IF items[l] = None THEN None
                                        ELSE items[l].sources[t]
            BY <2>2, UpsertCases
        <3> HIDE DEF new
        <3>2. new[l].deleted => l \in gone
            BY <1>1, <2>2, <3>1
        <3>3. ASSUME NEW t \in Source, new[l].sources[t] # None
              PROVE  LET c == new[l].sources[t]
                     IN  /\ Named(t, c.handle, l)
                         /\ (c.base # None \/ c.conflicted) =>
                               Mourned(t, c.handle, l, gone)
            <4>1. CASE t = s
                BY <1>1, <2>2, <3>1, <4>1
            <4>2. CASE t # s
                BY <1>3, <3>1, <3>3, <4>2 DEF ItemsInv, ItemFits
            <4> QED BY <4>1, <4>2
        <3> QED BY <3>2, <3>3 DEF ItemFits
    <2> QED BY <2>1, <2>2
<1> QED BY <1>2, <1>3 DEF ItemsInv

LEMMA DropKeeps ==
    ASSUME NEW items \in [LinkId -> Opt(ReplicaHubItem)], NEW s \in Source,
           NEW h \in Handle, NEW reason, NEW gone,
           ItemsInv(items, gone), OneBound(items),
           reason = "Deleted" => BoundAt(items, s, h) \subseteq gone
    PROVE  LET new == AbsorbDrop(items, s, h, reason)
           IN  ItemsInv(new, gone) /\ OneBound(new)
<1> DEFINE new == AbsorbDrop(items, s, h, reason)
<1>1. OneBound(new)
    <2> SUFFICES ASSUME NEW t \in Source, NEW k \in Handle,
                        NEW i \in BoundAt(new, t, k), NEW j \in BoundAt(new, t, k)
                 PROVE  i = j
        BY DEF OneBound
    <2>1. i \in BoundAt(items, t, k) /\ j \in BoundAt(items, t, k)
        BY DropBounds
    <2> QED BY <2>1 DEF OneBound
<1>2. ASSUME NEW link \in LinkId
      PROVE  ItemFits(link, new[link], gone)
    <2>1. CASE link \notin BoundAt(items, s, h)
        <3>2. link \in LinkId \ BoundAt(items, s, h)
            BY <1>2, <2>1
        <3>1. new[link] = items[link]
            BY <3>2, DropCases
        <3> QED BY <1>2, <3>1, Zenon DEF ItemsInv
    <2>2. CASE link \in BoundAt(items, s, h)
        <3>7. Cut(items[link], new[link], s, reason)
            BY <2>2, DropCases, Zenon
        <3>1. /\ items[link] # None
              /\ new[link].deleted = (items[link].deleted \/ reason = "Deleted")
              /\ new[link].sources = [items[link].sources EXCEPT ![s] = None]
            BY <3>7, Zenon DEF Cut
        <3>2. items[link] \in ReplicaHubItem
            BY <1>2, <3>1
        <3>3. items[link].sources \in [Source -> Opt(ReplicaSourceBinding)]
                 /\ items[link].deleted \in BOOLEAN
            BY <3>2 DEF ReplicaHubItem
        <3> HIDE DEF new
        <3>4. ItemFits(link, items[link], gone)
            BY <1>2 DEF ItemsInv
        <3>5. new[link].deleted => link \in gone
            BY <2>2, <3>1, <3>3, <3>4 DEF ItemFits
        <3>6. \A t \in Source : new[link].sources[t] # None =>
                 new[link].sources[t] = items[link].sources[t]
            BY <3>1, <3>3
        <3> QED BY <3>1, <3>4, <3>5, <3>6 DEF ItemFits
    <2> QED BY <2>1, <2>2
<1> QED BY <1>1, <1>2 DEF ItemsInv

(* One op of a batch, in whatever store the ops before it left. *)
LEMMA OpKeeps ==
    ASSUME NEW s \in Source, NEW st, NEW gone, Kept(st, s, gone),
           NEW h \in Handle, NEW op \in ReplicaWriteOp \cup {Keep},
           OpFits(st.items, s, h, op, gone)
    PROVE  LET new == AbsorbOp(st, s, h, op)
           IN  /\ Kept(new, s, gone)
               /\ \A k \in Handle :
                     BoundAt(new.items, s, k) \subseteq
                        BoundAt(st.items, s, k) \cup
                           (IF k = h THEN OpLinks(op) ELSE {})
<1> DEFINE new == AbsorbOp(st, s, h, op)
<1>1. /\ st.items \in [LinkId -> Opt(ReplicaHubItem)]
      /\ st.residual \in [Handle -> Opt(ReplicaPlacement)]
      /\ ItemsInv(st.items, gone) /\ OneBound(st.items) /\ LooseInv(s, st.residual)
    BY DEF Kept, HubStore
<1>2. CASE op = Keep
    BY <1>2 DEF AbsorbOp
<1>3. CASE op # Keep /\ op.op = "DropPlacement"
    <2> DEFINE items == AbsorbDrop(st.items, s, h, op.reason)
               rows == [st.residual EXCEPT ![h] = None]
    <2>1. new = [items |-> items, residual |-> rows]
        BY <1>3 DEF AbsorbOp
    <2>2. op.reason = "Deleted" => BoundAt(st.items, s, h) \subseteq gone
        BY <1>3 DEF OpFits
    <2>3. /\ items \in [LinkId -> Opt(ReplicaHubItem)]
          /\ ItemsInv(items, gone) /\ OneBound(items)
        BY <1>1, <2>2, DropCases, DropKeeps
    <2>4. \A k \in Handle : BoundAt(items, s, k) \subseteq BoundAt(st.items, s, k)
        BY <1>1, DropBounds
    <2>5. rows \in [Handle -> Opt(ReplicaPlacement)] /\ LooseInv(s, rows)
        BY <1>1 DEF LooseInv
    <2> HIDE DEF items, rows, new
    <2> QED BY <2>1, <2>3, <2>4, <2>5 DEF Kept, HubStore, new
<1>4. CASE op # Keep /\ op.op # "DropPlacement"
    <2>1. op.op = "UpsertPlacement" /\ op.row \in ReplicaPlacement
        BY <1>4 DEF ReplicaWriteOp
    <2> DEFINE p == op.row
               items == AbsorbUpsert(st.items, s, h, p)
               row == IF p.link_id = None THEN p ELSE None
               rows == [st.residual EXCEPT ![h] = row]
    <2>2. new = [items |-> items, residual |-> rows]
        BY <1>4 DEF AbsorbOp
    <2>3. RowFits(st.items, s, h, p, gone)
        BY <1>4, <2>1 DEF OpFits
    <2>4. row # None => Loose(row) /\ h \in used[s]
        BY <2>3 DEF RowFits
    <2>5. rows \in [Handle -> Opt(ReplicaPlacement)]
        BY <1>1, <2>1
    <2>6. LooseInv(s, rows)
        <3> HIDE DEF row
        <3> QED BY <1>1, <2>4 DEF LooseInv
    <2>7. CASE p.link_id = None
        <3>1. items = st.items
            BY <2>7 DEF AbsorbUpsert
        <3> HIDE DEF items, rows, new
        <3> QED BY <1>1, <2>2, <2>5, <2>6, <3>1 DEF Kept, HubStore, new
    <2>8. CASE p.link_id # None
        <3>1. /\ items \in [LinkId -> Opt(ReplicaHubItem)]
              /\ ItemsInv(items, gone) /\ OneBound(items)
            BY <1>1, <2>1, <2>3, <2>8, UpsertCases, UpsertKeeps
        <3>2. \A k \in Handle :
                 BoundAt(items, s, k) \subseteq BoundAt(st.items, s, k) \cup
                    (IF k = h THEN {p.link_id} ELSE {})
            BY <1>1, <2>1, <2>8, UpsertBounds
        <3>3. OpLinks(op) = {p.link_id}
            BY <1>4, <2>1, <2>8 DEF OpLinks
        <3> HIDE DEF items, rows, new, p
        <3> QED BY <2>2, <2>5, <2>6, <3>1, <3>2, <3>3 DEF Kept, HubStore, new
    <2> QED BY <2>7, <2>8
<1> QED BY <1>2, <1>3, <1>4

--------------------------------------------------------------------------------
(* What a batch makes of the store.                                        *)

Op == ReplicaWriteOp \cup {Keep}

(* The ops of the handles in S bind identities to k. *)
Written(ops, S, k) ==
    {link \in LinkId :
        \E h \in S : \/ (h = k /\ link \in OpLinks(ops[h].here))
                    \/ (ops[h].to = k /\ link \in OpLinks(ops[h].there))}

(* A batch whose every op fits the store as it was, and that writes no     *)
(* handle twice.                                                           *)
BatchFits(items, s, ops, gone) ==
    \A h \in DOMAIN ops :
        /\ ops[h].here \in Op /\ ops[h].there \in Op /\ ops[h].to \in Handle
        /\ OpFits(items, s, h, ops[h].here, gone)
        /\ OpFits(items, s, ops[h].to, ops[h].there, gone)
        /\ ops[h].there # Keep =>
              /\ ops[h].to \notin DOMAIN ops
              /\ \A k \in DOMAIN ops :
                    (k # h /\ ops[k].there # Keep) => ops[k].to # ops[h].to

(* An op that fits a store fits one where its handle holds no more. *)
LEMMA OpStillFits ==
    ASSUME NEW items, NEW rest, NEW s, NEW h, NEW op, NEW gone,
           OpFits(items, s, h, op, gone),
           BoundAt(rest, s, h) \subseteq BoundAt(items, s, h)
    PROVE  OpFits(rest, s, h, op, gone)
BY DEF OpFits, RowFits

LEMMA KeepLinks == OpLinks(Keep) = {}
BY DEF OpLinks

LEMMA BatchKeeps ==
    ASSUME NEW s \in Source, NEW st, NEW gone, Kept(st, s, gone),
           NEW ops, DOMAIN ops \subseteq Handle, BatchFits(st.items, s, ops, gone)
    PROVE  /\ Kept(Absorb(st, s, ops), s, gone)
           /\ \A k \in Handle :
                 BoundAt(Absorb(st, s, ops).items, s, k) \subseteq
                    BoundAt(st.items, s, k) \cup Written(ops, DOMAIN ops, k)
<1> DEFINE D == DOMAIN ops
           Holds(S, x) ==
              /\ Kept(x, s, gone)
              /\ \A k \in Handle :
                    BoundAt(x.items, s, k) \subseteq
                       BoundAt(st.items, s, k) \cup Written(ops, S, k)
           P == {pair \in (SUBSET D) \X HubStore : Holds(pair[1], pair[2])}
<1>1. \A S \in SUBSET D : \A x : <<S, x>> \in P <=> Holds(S, x)
    BY DEF Kept
<1>2. Holds({}, st)
    OBVIOUS
<1>3. ASSUME NEW S \in SUBSET D, NEW h \in D, NEW x, h \notin S, Holds(S, x)
      PROVE  Holds(S \cup {h}, AbsorbOps(x, s, h, ops[h]))
    <2> DEFINE here == ops[h].here
               there == ops[h].there
               to == ops[h].to
               y == AbsorbOp(x, s, h, here)
               z == AbsorbOp(y, s, to, there)
    <2>1. /\ here \in Op /\ there \in Op /\ to \in Handle /\ h \in Handle
          /\ OpFits(st.items, s, h, here, gone)
          /\ OpFits(st.items, s, to, there, gone)
        BY DEF BatchFits
    <2>2. Written(ops, S, h) = {}
        <3> SUFFICES ASSUME NEW link \in Written(ops, S, h) PROVE FALSE
            OBVIOUS
        <3>1. PICK k \in S : ops[k].to = h /\ link \in OpLinks(ops[k].there)
            BY <1>3 DEF Written
        <3>2. ops[k].there # Keep
            BY <3>1, KeepLinks
        <3> QED BY <3>1, <3>2 DEF BatchFits
    <2>3. OpFits(x.items, s, h, here, gone)
        BY <1>3, <2>1, <2>2, OpStillFits
    <2>4. /\ Kept(y, s, gone)
          /\ \A k \in Handle : BoundAt(y.items, s, k) \subseteq
                BoundAt(x.items, s, k) \cup (IF k = h THEN OpLinks(here) ELSE {})
        BY <1>3, <2>1, <2>3, OpKeeps DEF Op
    <2>5. /\ Kept(z, s, gone)
          /\ \A k \in Handle : BoundAt(z.items, s, k) \subseteq
                BoundAt(y.items, s, k) \cup (IF k = to THEN OpLinks(there) ELSE {})
        <3>1. CASE there = Keep
            BY <2>4, <3>1 DEF AbsorbOp
        <3>2. CASE there # Keep
            <4>1. Written(ops, S, to) = {}
                <5> SUFFICES ASSUME NEW link \in Written(ops, S, to) PROVE FALSE
                    OBVIOUS
                <5>1. to \notin D
                    BY <3>2 DEF BatchFits
                <5>2. PICK k \in S : ops[k].to = to /\ link \in OpLinks(ops[k].there)
                    BY <5>1 DEF Written
                <5>3. ops[k].there # Keep
                    BY <5>2, KeepLinks
                <5> QED BY <1>3, <3>2, <5>2, <5>3 DEF BatchFits
            <4>2. to # h
                BY <3>2 DEF BatchFits
            <4>3. BoundAt(y.items, s, to) \subseteq BoundAt(st.items, s, to)
                BY <1>3, <2>1, <2>4, <4>1, <4>2
            <4>4. OpFits(y.items, s, to, there, gone)
                BY <2>1, <4>3, OpStillFits
            <4> QED BY <2>1, <2>4, <4>4, OpKeeps DEF Op
        <3> QED BY <3>1, <3>2
    <2> HIDE DEF y, z
    <2>6. ASSUME NEW k \in Handle
          PROVE  BoundAt(z.items, s, k) \subseteq
                    BoundAt(st.items, s, k) \cup Written(ops, S \cup {h}, k)
        <3> SUFFICES ASSUME NEW link \in BoundAt(z.items, s, k),
                            link \notin BoundAt(st.items, s, k)
                     PROVE  link \in Written(ops, S \cup {h}, k)
            OBVIOUS
        <3>1. link \in LinkId
            BY DEF BoundAt
        <3>2. \/ link \in Written(ops, S, k)
              \/ (k = h /\ link \in OpLinks(here))
              \/ (k = to /\ link \in OpLinks(there))
            BY <1>3, <2>4, <2>5
        <3> QED BY <3>1, <3>2 DEF Written
    <2>7. AbsorbOps(x, s, h, ops[h]) = z
        BY DEF AbsorbOps, y, z
    <2> HIDE DEF here, there, to
    <2> QED BY <2>5, <2>6, <2>7
<1> HIDE DEF Holds, P
<1>4. \A S \in SUBSET D, h \in D : \A x :
         (h \notin S /\ <<S, x>> \in P) =>
            <<S \cup {h}, AbsorbOps(x, s, h, ops[h])>> \in P
    BY <1>1, <1>3
<1>5. <<{}, st>> \in P
    BY <1>1, <1>2
<1>6. <<D, Absorb(st, s, ops)>> \in P
    BY <1>4, <1>5, AbsorbKeeps
<1>7. Holds(D, Absorb(st, s, ops))
    BY <1>1, <1>6
<1> QED BY <1>7 DEF Holds

--------------------------------------------------------------------------------
(* What a source loads.                                                    *)

ServersInv ==
    \A s \in Source, h \in Handle : servers[s][h] # None => h \in used[s]

StoreInv ==
    /\ ItemsInv(hub, removed) /\ OneBound(hub)
    /\ \A s \in Source : LooseInv(s, residual[s])
    /\ ServersInv

LEMMA StoreKept ==
    ASSUME TypeOK, StoreInv, NEW s \in Source
    PROVE  Kept(Store(s), s, removed)
BY DEF TypeOK, StoreInv, Kept, HubStore, Store

(* No server's member is under a placeholder. *)
LEMMA PlaceholderNamed ==
    ASSUME TypeOK, StoreInv, NEW s \in Source, NEW h \in Handle \ ServerHandle
    PROVE  servers[s][h] = None /\ \A link : Named(s, h, link)
<1>1. used[s] \subseteq ServerHandle
    BY DEF TypeOK
<1>2. servers[s][h] = None
    BY <1>1 DEF StoreInv, ServersInv
<1> QED BY <1>2 DEF Named

(* A row as its source loads it. *)
LoadedFits(s, h, p) ==
    /\ RowFits(hub, s, h, p, removed)
    /\ p.link_id = None => BoundAt(hub, s, h) = {}
    /\ p.status = "Created" => p.object # None

(* The shared half with the source's own. *)
Dressed(link, item, status, revision, body, base) ==
    [Shared(link, item) EXCEPT !.status = status, !.conflict_revision = revision,
                               !.conflict_object = body, !.base = base]

LEMMA SharedType ==
    ASSUME NEW link \in LinkId, NEW item \in ReplicaHubItem
    PROVE  Shared(link, item) \in ReplicaPlacement
<1>1. StoredLevel(item) \in ReplicaLevel
    BY DEF StoredLevel, ReplicaHubItem, ReplicaLevel
<1>2. item.object \in Opt(Body) /\ item.meta \in Opt(ReplicaMeta)
         /\ item.flags \in ReplicaFlags
    BY DEF ReplicaHubItem
<1> QED BY <1>1, <1>2 DEF Shared, ReplicaPlacement, ReplicaStatus

LEMMA LoadFits ==
    ASSUME TypeOK, StoreInv, NEW s \in Source, NEW h \in Handle
    PROVE  LET p == Loaded(s)[h]
           IN  /\ p \in Opt(ReplicaPlacement)
               /\ p = None => BoundAt(hub, s, h) = {}
               /\ p # None => LoadedFits(s, h, p)
<1> DEFINE p == Loaded(s)[h]
           Goal(q) == /\ q \in Opt(ReplicaPlacement)
                      /\ q = None => BoundAt(hub, s, h) = {}
                      /\ q # None => LoadedFits(s, h, q)
<1>1. CASE BoundAt(hub, s, h) # {}
    <2> DEFINE link == The(BoundAt(hub, s, h))
               item == hub[link]
               b    == item.sources[s]
    <2>1. link \in BoundAt(hub, s, h)
        BY <1>1 DEF The
    <2>2. /\ link \in LinkId /\ item # None /\ b # None /\ b.handle = h
        BY <2>1 DEF BoundAt
    <2>3. BoundAt(hub, s, h) \subseteq {link}
        BY <2>1 DEF StoreInv, OneBound
    <2>4. p = IF item.deleted THEN TombstonePlacement(link, item, b)
              ELSE BoundPlacement(link, item, b)
        BY <1>1 DEF Loaded
    <2> HIDE DEF p, link
    <2>5. item \in ReplicaHubItem
        BY <2>2 DEF TypeOK
    <2>6. b \in ReplicaSourceBinding
        BY <2>2, <2>5 DEF ReplicaHubItem
    <2>7. ItemFits(link, item, removed)
        BY <2>2 DEF StoreInv, ItemsInv
    <2>8. /\ item.deleted => link \in removed
          /\ Named(s, h, link)
          /\ (b.base # None \/ b.conflicted) => Mourned(s, h, link, removed)
        BY <2>2, <2>7 DEF ItemFits
    <2>9. /\ b.conflicted \in BOOLEAN /\ b.base \in Opt(ReplicaBase)
          /\ b.conflict_revision \in Opt(Revision)
          /\ b.conflict_object \in Opt(Body)
        BY <2>6 DEF ReplicaSourceBinding
    <2>10. ASSUME NEW q \in ReplicaPlacement, q.link_id = link, q.base = b.base,
                  q.status = "Conflict" => b.conflicted,
                  q.status = "Tombstone" => link \in removed,
                  q.status = "Created" => q.object # None
           PROVE  Goal(q)
        BY <2>2, <2>3, <2>8, <2>10, SentinelAssumption DEF LoadedFits, RowFits
    <2>11. CASE item.deleted
        <3> DEFINE q == TombstonePlacement(link, item, b)
                   r == Shared(link, item)
        <3>1. q = [r EXCEPT !.status = "Tombstone", !.base = b.base]
            BY DEF TombstonePlacement
        <3>2. r \in ReplicaPlacement /\ r.link_id = link
            BY <2>2, <2>5, SharedType DEF Shared
        <3> HIDE DEF q, r
        <3>3. /\ q \in ReplicaPlacement /\ q.link_id = link /\ q.base = b.base
              /\ q.status = "Tombstone"
            BY <2>9, <3>1, <3>2 DEF ReplicaPlacement, ReplicaStatus
        <3>4. Goal(q)
            BY <2>8, <2>10, <2>11, <3>3
        <3>5. p = q
            BY <2>4, <2>11 DEF q
        <3> QED BY <3>4, <3>5 DEF p
    <2>12. CASE ~item.deleted
        <3> DEFINE in_sync == /\ b.base # None /\ b.base.flags = item.flags
                              /\ b.base.object = item.object
                   status == IF b.conflicted THEN "Conflict"
                             ELSE IF b.base = None /\ item.object # None
                             THEN "Created"
                             ELSE IF in_sync THEN "Clean" ELSE "Dirty"
                   q == Dressed(link, item, status, b.conflict_revision,
                                b.conflict_object, b.base)
        <3>1. p = q
            BY <2>4, <2>12 DEF BoundPlacement, Dressed
        <3>2. /\ status \in ReplicaStatus /\ status # "Tombstone"
              /\ status = "Conflict" => b.conflicted
              /\ status = "Created" => item.object # None
            BY DEF ReplicaStatus
        <3> HIDE DEF status
        <3>3. /\ q \in ReplicaPlacement /\ q.link_id = link
              /\ q.object = item.object /\ q.status = status /\ q.base = b.base
            <4> DEFINE r == Shared(link, item)
            <4>1. r \in ReplicaPlacement /\ r.link_id = link /\ r.object = item.object
                BY <2>2, <2>5, SharedType DEF Shared
            <4>2. /\ b.conflict_revision \in Opt(Revision)
                  /\ b.conflict_object \in Opt(Body) /\ b.base \in Opt(ReplicaBase)
                  /\ status \in ReplicaStatus
                BY <2>9, <3>2
            <4>3. q = [r EXCEPT !.status = status,
                                !.conflict_revision = b.conflict_revision,
                                !.conflict_object = b.conflict_object,
                                !.base = b.base]
                BY DEF Dressed
            <4> HIDE DEF item, b, r, q
            <4> QED BY <4>1, <4>2, <4>3 DEF ReplicaPlacement
        <3> HIDE DEF q
        <3>4. Goal(q)
            BY <2>10, <3>2, <3>3
        <3> QED BY <3>1, <3>4 DEF p
    <2> QED BY <2>11, <2>12
<1>2. CASE BoundAt(hub, s, h) = {} /\ OfferedAt(hub, s, h) # {}
    <2> DEFINE link == The(OfferedAt(hub, s, h))
               item == hub[link]
               r    == Shared(link, item)
               q    == [r EXCEPT !.status = "Created", !.level = "Full"]
    <2>1. link \in OfferedAt(hub, s, h)
        BY <1>2 DEF The
    <2>2. /\ link \in LinkId /\ item # None /\ item.object # None
          /\ HubHandle[link] = h
        BY <2>1 DEF OfferedAt
    <2>3. p = q
        BY <1>2 DEF Loaded, OfferedPlacement
    <2> HIDE DEF p, link
    <2>4. item \in ReplicaHubItem
        BY <2>2 DEF TypeOK
    <2>5. r \in ReplicaPlacement /\ r.link_id = link /\ r.object = item.object
             /\ r.base = None
        BY <2>2, <2>4, SharedType DEF Shared
    <2> HIDE DEF r
    <2>6. /\ q \in ReplicaPlacement /\ q.link_id = link /\ q.object = item.object
          /\ q.base = None /\ q.status = "Created"
        BY <2>5 DEF ReplicaPlacement, ReplicaStatus, ReplicaLevel
    <2> HIDE DEF q
    <2>7. h \in Handle \ ServerHandle
        BY <2>2, HubAssumption
    <2>8. Named(s, h, link)
        BY <2>7, PlaceholderNamed
    <2>9. Goal(q)
        BY <1>2, <2>2, <2>6, <2>8, SentinelAssumption DEF LoadedFits, RowFits
    <2> QED BY <2>3, <2>9 DEF p
<1>3. CASE BoundAt(hub, s, h) = {} /\ OfferedAt(hub, s, h) = {}
    <2>1. p = residual[s][h]
        BY <1>3 DEF Loaded
    <2> HIDE DEF p
    <2>2. p \in Opt(ReplicaPlacement)
        BY <2>1 DEF TypeOK
    <2>3. p # None => Loose(p) /\ h \in used[s]
        BY <2>1 DEF StoreInv, LooseInv
    <2> QED BY <1>3, <2>2, <2>3 DEF LoadedFits, RowFits, Loose, p
<1> QED BY <1>1, <1>2, <1>3

--------------------------------------------------------------------------------
(* What a sync makes of a row.                                             *)

(* A row made of p goes by its identity and is no staged delete. *)
Of(q, p) ==
    /\ q \in ReplicaPlacement
    /\ q.link_id = p.link_id /\ q.status # "Tombstone"
    /\ q.object \in {None, p.object}
    /\ Loose(p) => Loose(q)

(* The outcome of a row of a member both sides hold. *)
BothShape(out, p) ==
    /\ out.put # Keep => out.put.op = "UpsertPlacement" /\ Of(out.put.row, p)
    /\ out.flag # None => Of(out.flag, p)
    /\ out.content # None => out.content = p /\ ~Loose(p) /\ p.status # "Tombstone"
    /\ out.create = None /\ out.drop = FALSE

LEMMA NothingShape ==
    ASSUME NEW p
    PROVE  BothShape(Nothing, p)
BY DEF BothShape, Nothing

LEMMA WriteShape ==
    ASSUME NEW p, NEW out \in Outcome, BothShape(out, p), NEW q, Of(q, p)
    PROVE  BothShape(Write(out, Upsert(q)), p)
<1> DEFINE new == Write(out, Upsert(q))
<1>1. /\ new.put = Upsert(q) /\ new.flag = out.flag /\ new.content = out.content
      /\ new.create = out.create /\ new.drop = out.drop
    BY DEF Write, Outcome
<1>2. Upsert(q).op = "UpsertPlacement" /\ Upsert(q).row = q
    BY DEF Upsert
<1> HIDE DEF new
<1> QED BY <1>1, <1>2 DEF BothShape, new

(* The rewrites of a live row. *)
LEMMA RewritesOf ==
    ASSUME NEW p \in ReplicaPlacement, p.status # "Tombstone",
           NEW item \in ReplicaRemoteItem
    PROVE  /\ Of(p, p) /\ Of(PullContent(p, item), p)
           /\ ~Loose(p) => Of(MarkConflict(p, item).row, p)
           /\ (p.status = "Conflict") => Of(TrackConflict(p, item).row, p)
           /\ \A flags \in ReplicaFlags :
                 /\ Of(PullFlags(p, flags), p) /\ Of(Rebase(p, flags), p)
                 /\ Of([p EXCEPT !.flags = flags], p)
<1>1. Of(p, p)
    BY DEF Of
<1>2. Of(PullContent(p, item), p)
    <2> DEFINE q == PullContent(p, item)
               base == IF p.base = None THEN None
                       ELSE [p.base EXCEPT !.revision = item.revision,
                                           !.object   = None]
    <2>1. q \in ReplicaPlacement
        BY PullContentType
    <2>2. /\ q.link_id = p.link_id /\ q.status = p.status /\ q.base = base
          /\ q.object = None
        BY DEF PullContent, ReplicaPlacement
    <2>3. p.base # None => base # None
        <3>1. p.base # None => base \in ReplicaBase
            BY DEF ReplicaPlacement, ReplicaBase, ReplicaRemoteItem
        <3> QED BY <3>1, SentinelAssumption
    <2> HIDE DEF q, base
    <2>4. Of(q, p)
        BY <2>1, <2>2, <2>3 DEF Of, Loose
    <2> QED BY <2>4 DEF q
<1>3. ~Loose(p) => Of(MarkConflict(p, item).row, p)
    <2>1. MarkConflict(p, item).row \in ReplicaPlacement
        BY MarkSound DEF SoundContent
    <2>2. /\ MarkConflict(p, item).row.link_id = p.link_id
          /\ MarkConflict(p, item).row.status = "Conflict"
          /\ MarkConflict(p, item).row.object = p.object
        BY DEF MarkConflict, Continue, ReplicaPlacement
    <2> QED BY <2>1, <2>2 DEF Of
<1>4. (p.status = "Conflict") => Of(TrackConflict(p, item).row, p)
    <2>1. TrackConflict(p, item).row \in ReplicaPlacement
        BY MarkSound DEF SoundContent
    <2>2. /\ TrackConflict(p, item).row.link_id = p.link_id
          /\ TrackConflict(p, item).row.status = p.status
          /\ TrackConflict(p, item).row.object = p.object
        BY DEF TrackConflict, Continue, ReplicaPlacement
    <2> QED BY <2>1, <2>2 DEF Of, Loose
<1>5. ASSUME NEW flags \in ReplicaFlags
      PROVE  /\ Of(PullFlags(p, flags), p) /\ Of(Rebase(p, flags), p)
             /\ Of([p EXCEPT !.flags = flags], p)
    <2>1. PullFlags(p, flags) \in ReplicaPlacement /\ Rebase(p, flags) \in ReplicaPlacement
        BY FlagRewriteType
    <2>2. /\ PullFlags(p, flags).link_id = p.link_id
          /\ PullFlags(p, flags).status = FlagStatus(p)
          /\ PullFlags(p, flags).base = FlagBase(p, flags)
          /\ PullFlags(p, flags).object = p.object
          /\ Rebase(p, flags).link_id = p.link_id
          /\ Rebase(p, flags).status = FlagStatus(p)
          /\ Rebase(p, flags).base = FlagBase(p, flags)
          /\ Rebase(p, flags).object = p.object
        BY DEF PullFlags, Rebase, ReplicaPlacement
    <2>3. FlagBase(p, flags) # None
        BY FlagBaseType, SentinelAssumption
    <2>4. FlagStatus(p) # "Tombstone" /\ (p.status = "Clean" => FlagStatus(p) = "Clean")
        BY DEF FlagStatus
    <2>5. Of(PullFlags(p, flags), p) /\ Of(Rebase(p, flags), p)
        BY <2>1, <2>2, <2>3, <2>4 DEF Of, Loose
    <2>6. Of([p EXCEPT !.flags = flags], p)
        BY DEF Of, Loose, ReplicaPlacement
    <2> QED BY <2>5, <2>6
<1> QED BY <1>1, <1>2, <1>3, <1>4, <1>5

ContentShape(c, p) == SoundContent(c) /\ Of(c.row, p) /\ BothShape(c.out, p)

LEMMA ReconcileContentShape ==
    ASSUME NEW p \in ReplicaPlacement, p.status # "Tombstone",
           NEW item \in ReplicaRemoteItem, NEW opts \in ReplicaSyncOptions
    PROVE  ContentShape(ReconcileContent(p, item, opts), p)
<1> DEFINE c == ReconcileContent(p, item, opts)
<1>1. ContentShape(Continue(p, Nothing), p)
    BY RewritesOf, NothingShape, NothingSound DEF ContentShape, SoundContent, Continue
<1>2. ASSUME NEW out, Sound(out), BothShape(out, p)
      PROVE  ContentShape(PullRemote(p, item, out), p)
    <2>1. BothShape(Write(out, Upsert(PullContent(p, item))), p)
        BY <1>2, RewritesOf, WriteShape DEF Sound
    <2> QED BY <1>2, <2>1, RewritesOf, PullRemoteSound
            DEF ContentShape, PullRemote, Continue
<1>3. ContentShape(PullRemote(p, item, Nothing), p)
    BY <1>2, NothingShape, NothingSound
<1>4. ~Loose(p) => ContentShape(MarkConflict(p, item), p)
    <2> SUFFICES ASSUME ~Loose(p) PROVE ContentShape(MarkConflict(p, item), p)
        OBVIOUS
    <2> DEFINE marked == MarkConflict(p, item).row
    <2>1. MarkConflict(p, item) = Continue(marked, Write(Nothing, Upsert(marked)))
        BY DEF MarkConflict, Continue
    <2>2. Of(marked, p)
        BY RewritesOf
    <2> HIDE DEF marked
    <2>3. BothShape(Write(Nothing, Upsert(marked)), p)
        BY <2>2, NothingShape, NothingSound, WriteShape DEF Sound
    <2> QED BY <2>1, <2>2, <2>3, MarkSound DEF ContentShape, Continue
<1>5. p.status = "Conflict" => ContentShape(TrackConflict(p, item), p)
    <2> SUFFICES ASSUME p.status = "Conflict"
                 PROVE  ContentShape(TrackConflict(p, item), p)
        OBVIOUS
    <2> DEFINE tracked == TrackConflict(p, item).row
    <2>1. TrackConflict(p, item) = Continue(tracked, Write(Nothing, Upsert(tracked)))
        BY DEF TrackConflict, Continue
    <2>2. Of(tracked, p)
        BY RewritesOf
    <2> HIDE DEF tracked
    <2>3. BothShape(Write(Nothing, Upsert(tracked)), p)
        BY <2>2, NothingShape, NothingSound, WriteShape DEF Sound
    <2> QED BY <2>1, <2>2, <2>3, MarkSound DEF ContentShape, Continue
<1>6. ASSUME NEW if_match \in Opt(Revision), p.object # None, ~Loose(p)
      PROVE  ContentShape(PushLocal(p, if_match), p)
    <2> DEFINE out == [Nothing EXCEPT !.push = Update(p, if_match), !.content = p]
    <2>1. /\ out.put = Keep /\ out.content = p /\ out.flag = None
          /\ out.create = None /\ out.drop = FALSE
        BY DEF Nothing
    <2>2. PushLocal(p, if_match) = Continue(p, out)
        BY DEF PushLocal
    <2> HIDE DEF out
    <2>3. BothShape(out, p)
        BY <1>6, <2>1 DEF BothShape
    <2> QED BY <1>6, <2>2, <2>3, RewritesOf, PushLocalSound
            DEF ContentShape, Continue
<1>7. CASE p.base = None
    <2>1. ~Loose(p)
        BY <1>7 DEF Loose
    <2> QED BY <1>1, <1>4, <1>7, <2>1 DEF ReconcileContent
<1>8. CASE p.base # None /\ p.status = "Conflict"
    BY <1>1, <1>5, <1>8 DEF ReconcileContent
<1>9. CASE p.base # None /\ p.status # "Conflict"
    <2>1. p.base.revision \in Opt(Revision) /\ item.revision \in Opt(Revision)
        BY <1>9 DEF ReplicaPlacement, ReplicaBase, ReplicaRemoteItem
    <2>2. ASSUME p.object # None, ~Loose(p)
          PROVE  ContentShape(ResolveConflict(p, item, opts), p)
        <3> DEFINE forked == [Nothing EXCEPT !.dup = ConflictDup(p), !.ops = 1]
        <3>1. Sound(forked)
            BY ConflictDupType, NothingSound, <2>2 DEF Sound, Agrees, Nothing, Outcome
        <3>2. /\ forked.put = Keep /\ forked.content = None /\ forked.flag = None
              /\ forked.create = None /\ forked.drop = FALSE
            BY DEF Nothing
        <3> HIDE DEF forked
        <3>3. BothShape(forked, p)
            BY <3>2 DEF BothShape
        <3>4. ContentShape(PullRemote(p, item, forked), p)
            BY <1>2, <3>1, <3>3
        <3>5. opts.conflict \in {"Manual", "PreferLocal", "PreferRemote", "KeepBoth"}
            BY DEF ReplicaSyncOptions
        <3> QED BY <1>3, <1>4, <1>6, <2>1, <2>2, <3>4, <3>5 DEF ResolveConflict, forked
    <2>3. p.status = "Dirty" => ~Loose(p)
        BY DEF Loose
    <2> QED BY <1>1, <1>3, <1>6, <1>9, <2>1, <2>2, <2>3 DEF ReconcileContent
<1> QED BY <1>7, <1>8, <1>9

LEMMA OfTransitive ==
    ASSUME NEW p, NEW q, NEW r, Of(q, p), Of(r, q)
    PROVE  Of(r, p)
BY DEF Of

LEMMA ReconcileFlagsShape ==
    ASSUME NEW p, NEW q, Of(q, p), NEW item \in ReplicaRemoteItem,
           NEW opts \in ReplicaSyncOptions, NEW out, Sound(out), BothShape(out, p)
    PROVE  BothShape(ReconcileFlags(q, item, out, opts), p)
<1> DEFINE merged  == MergeFlags(q.base.flags, q.flags, item.flags)
           updated == [q EXCEPT !.flags = merged]
           rewrote  == IF merged # q.flags THEN Write(out, Upsert(updated))
                      ELSE out
<1>1. q \in ReplicaPlacement /\ q.flags \in ReplicaFlags /\ item.flags \in ReplicaFlags
         /\ q.status # "Tombstone"
    BY DEF Of, ReplicaPlacement, ReplicaRemoteItem
<1>2. ASSUME NEW flags \in ReplicaFlags
      PROVE  /\ Of(PullFlags(q, flags), p) /\ Of(Rebase(q, flags), p)
             /\ Of([q EXCEPT !.flags = flags], p)
    BY <1>1, RewritesOf, OfTransitive
<1>3. out \in Outcome
    BY DEF Sound
<1>4. CASE q.base = None
    <2>1. BothShape(Write(out, Upsert(PullFlags(q, item.flags))), p)
        BY <1>1, <1>2, <1>3, WriteShape
    <2> QED BY <1>4, <2>1 DEF ReconcileFlags
<1>5. CASE q.base # None
    <2>1. merged \in ReplicaFlags
        BY <1>1, <1>5, MergeFlagsType DEF ReplicaPlacement, ReplicaBase
    <2> HIDE DEF merged
    <2>2. Of(updated, p)
        BY <1>2, <2>1
    <2> HIDE DEF updated
    <2>3. BothShape(rewrote, p) /\ rewrote \in Outcome
        <3>1. Sound(rewrote)
            BY <2>2, OpTypes, WriteSound DEF Of
        <3>2. BothShape(Write(out, Upsert(updated)), p)
            BY <1>3, <2>2, WriteShape
        <3> QED BY <3>1, <3>2 DEF Sound
    <2> HIDE DEF rewrote
    <2>4. /\ BothShape(Write(out, Upsert(PullFlags(q, merged))), p)
          /\ BothShape(Write(out, Upsert(Rebase(q, merged))), p)
        BY <1>2, <1>3, <2>1, WriteShape
    <2> DEFINE pushed == [rewrote EXCEPT !.push = SetFlags(merged), !.flag = updated]
    <2>5. BothShape(pushed, p)
        <3>1. /\ pushed.put = rewrote.put /\ pushed.flag = updated
              /\ pushed.content = rewrote.content /\ pushed.create = rewrote.create
              /\ pushed.drop = rewrote.drop
            BY <2>3 DEF Outcome
        <3> HIDE DEF pushed
        <3> QED BY <2>2, <2>3, <3>1 DEF BothShape
    <2>6. ReconcileFlags(q, item, out, opts) \in
             {out, rewrote, pushed, Write(out, Upsert(PullFlags(q, merged))),
              Write(out, Upsert(Rebase(q, merged)))}
        BY <1>5 DEF ReconcileFlags, merged, updated, rewrote
    <2> HIDE DEF pushed
    <2> QED BY <2>3, <2>4, <2>5, <2>6
<1> QED BY <1>4, <1>5

(* The outcome of any handle: what it writes and what it leaves pending is *)
(* of the row loaded, or is a member pulled afresh; only a row the remote  *)
(* no longer reports is dropped or created again.                          *)
Shape(out, p, item) ==
    /\ out.put # Keep =>
          \/ /\ out.put.op = "DropPlacement" /\ item = None /\ p # None
             /\ p.status = "Tombstone" \/ p.base # None
          \/ /\ out.put.op = "UpsertPlacement" /\ item # None
             /\ Loose(out.put.row) /\ out.put.row.object = None
             /\ out.flag = None /\ out.content = None
          \/ /\ out.put.op = "UpsertPlacement" /\ p # None
             /\ Of(out.put.row, p)
             /\ item = None => /\ ~Loose(p) /\ out.put.row.base = None
                               /\ out.put.row.status = "Created"
    /\ out.flag # None => p # None /\ item # None /\ Of(out.flag, p)
    /\ out.content # None =>
          /\ p # None /\ item # None /\ out.content = p /\ ~Loose(p)
          /\ p.status = "Tombstone" => p.origin # None
    /\ out.drop => /\ p # None /\ p.status = "Tombstone" /\ out.put = Keep
                   /\ item # None
    /\ out.create # None =>
          /\ p # None /\ item = None /\ ~Loose(p)
          /\ out.create.link_id = p.link_id /\ out.create.object # None
          /\ out.create.object = p.object /\ out.create.status # "Tombstone"
          /\ out.push = Add(out.create)

LEMMA BothShapeFits ==
    ASSUME NEW p, p # None, NEW item, item # None, NEW out, BothShape(out, p)
    PROVE  Shape(out, p, item)
BY DEF BothShape, Shape

LEMMA PullAddShape ==
    ASSUME NEW p, NEW item \in ReplicaRemoteItem, item # None
    PROVE  Shape(Write(Nothing, Upsert(PullAdd(item))), p, item)
<1> DEFINE row == PullAdd(item)
           new == Write(Nothing, Upsert(row))
<1>1. Loose(row) /\ row.object = None
    <2>1. [flags |-> item.flags, revision |-> item.revision, object |-> None]
             \in ReplicaBase
        BY DEF ReplicaRemoteItem, ReplicaBase
    <2> QED BY <2>1, SentinelAssumption DEF Loose, PullAdd
<1> HIDE DEF row
<1>2. /\ new.put.op = "UpsertPlacement" /\ new.put.row = row
      /\ new.flag = None /\ new.content = None /\ new.create = None
      /\ new.drop = FALSE
    BY DEF Write, Nothing, Upsert
<1> HIDE DEF new
<1> QED BY <1>1, <1>2 DEF Shape, new, row

LEMMA DropShape ==
    ASSUME NEW p, p # None, p.status = "Tombstone" \/ p.base # None
    PROVE  Shape(Write(Nothing, Drop("Deleted")), p, None)
<1> DEFINE new == Write(Nothing, Drop("Deleted"))
<1>1. /\ new.put.op = "DropPlacement"
      /\ new.flag = None /\ new.content = None /\ new.create = None
      /\ new.drop = FALSE
    BY DEF Write, Nothing, Drop
<1> HIDE DEF new
<1>2. Shape(new, p, None)
    BY <1>1 DEF Shape
<1> QED BY <1>2 DEF new

LEMMA TombstoneShape ==
    ASSUME NEW p \in ReplicaPlacement, p # None, p.status = "Tombstone",
           NEW item \in ReplicaRemoteItem, item # None, NEW opts
    PROVE  Shape(MergeTombstone(p, item, opts), p, item)
<1> DEFINE pushed == [Nothing EXCEPT !.push = Update(p, p.base.revision), !.content = p]
           removing == [Nothing EXCEPT !.push = Remove(p, p.base.revision), !.drop = TRUE]
           reverted == [p EXCEPT !.status = "Clean"]
<1>1. Shape(Write(Nothing, Upsert(PullAdd(item))), p, item)
    BY PullAddShape
<1>2. ~Loose(p)
    BY DEF Loose
<1>3. p.origin # None => Shape(pushed, p, item)
    <2>1. /\ pushed.put = Keep /\ pushed.flag = None /\ pushed.content = p
          /\ pushed.create = None /\ pushed.drop = FALSE
        BY DEF Nothing
    <2> HIDE DEF pushed
    <2> QED BY <1>2, <2>1 DEF Shape
<1>4. Shape(removing, p, item)
    <2>1. /\ removing.put = Keep /\ removing.flag = None /\ removing.content = None
          /\ removing.create = None
        BY DEF Nothing
    <2> HIDE DEF removing
    <2> QED BY <2>1 DEF Shape
<1>5. Shape(Nothing, p, item)
    BY NothingShape, BothShapeFits
<1>6. Shape(Write(Nothing, Upsert(reverted)), p, item)
    <2>1. Of(reverted, p)
        BY <1>2 DEF Of, ReplicaPlacement, ReplicaStatus
    <2> HIDE DEF reverted
    <2>2. BothShape(Write(Nothing, Upsert(reverted)), p)
        BY <2>1, NothingShape, NothingSound, WriteShape DEF Sound
    <2> QED BY <2>2, BothShapeFits
<1>7. \/ MergeTombstone(p, item, opts) \in
            {Write(Nothing, Upsert(PullAdd(item))), removing, Nothing,
             Write(Nothing, Upsert(reverted))}
      \/ p.origin # None /\ MergeTombstone(p, item, opts) = pushed
    BY DEF MergeTombstone, RefuseDelete
<1> HIDE DEF pushed, removing, reverted
<1> QED BY <1>1, <1>3, <1>4, <1>5, <1>6, <1>7

LEMMA VanishedShape ==
    ASSUME NEW p \in ReplicaPlacement, p # None, p.base # None,
           p.status # "Tombstone", NEW opts
    PROVE  Shape(MergeVanished(p, opts), p, None)
<1> DEFINE revived == Resurrect(p)
           staged == Write(Nothing, Upsert(revived))
           pushed == [staged EXCEPT !.push = Add(revived), !.create = revived]
<1>1. CASE ~(p.status \in {"Dirty", "Conflict"} /\ StagedEdit(p))
    BY <1>1, DropShape DEF MergeVanished
<1>2. CASE p.status \in {"Dirty", "Conflict"} /\ StagedEdit(p)
    <2>1. ~Loose(p) /\ p.object # None
        BY <1>2 DEF Loose, StagedEdit
    <2>2. /\ revived \in ReplicaPlacement /\ revived.link_id = p.link_id
          /\ revived.status = "Created" /\ revived.base = None
          /\ revived.object = p.object
        BY ResurrectType DEF Resurrect, ReplicaPlacement
    <2>3. MergeVanished(p, opts) \in {staged, pushed}
        BY <1>2 DEF MergeVanished
    <2> HIDE DEF revived
    <2>4. Of(revived, p)
        BY <2>1, <2>2 DEF Of
    <2>5. /\ staged.put.op = "UpsertPlacement" /\ staged.put.row = revived
          /\ staged.flag = None /\ staged.content = None /\ staged.create = None
          /\ staged.drop = FALSE
        BY DEF Write, Nothing, Upsert
    <2>6. /\ pushed.put.op = "UpsertPlacement" /\ pushed.put.row = revived
          /\ pushed.flag = None /\ pushed.content = None
          /\ pushed.create = revived /\ pushed.push = Add(revived)
          /\ pushed.drop = FALSE
        BY DEF Write, Nothing, Upsert
    <2> HIDE DEF staged, pushed
    <2>7. Shape(staged, p, None)
        BY <2>1, <2>2, <2>4, <2>5 DEF Shape
    <2>8. Shape(pushed, p, None)
        BY <2>1, <2>2, <2>4, <2>6 DEF Shape
    <2> QED BY <2>3, <2>7, <2>8 DEF staged, pushed, revived
<1> QED BY <1>1, <1>2

LEMMA CandidateShape ==
    ASSUME NEW p \in Opt(ReplicaPlacement), NEW item \in Opt(ReplicaRemoteItem),
           NEW opts \in ReplicaSyncOptions,
           (p # None /\ p.status = "Created") => p.object # None
    PROVE  Shape(MergeCandidate(p, item, opts), p, item)
<1>1. (p = None \/ p \in ReplicaPlacement) /\ (item = None \/ item \in ReplicaRemoteItem)
    OBVIOUS
<1>2. Shape(Nothing, p, item)
    BY DEF Shape, Nothing
<1>3. item # None => Shape(Write(Nothing, Upsert(PullAdd(item))), p, item)
    BY <1>1, PullAddShape
<1>4. CASE p = None
    BY <1>2, <1>3, <1>4 DEF MergeCandidate
<1>5. CASE p # None /\ p.status = "Tombstone"
    <2>1. item # None => Shape(MergeTombstone(p, item, opts), p, item)
        BY <1>1, <1>5, TombstoneShape
    <2>2. item = None => Shape(Write(Nothing, Drop("Deleted")), p, item)
        BY <1>5, DropShape
    <2> QED BY <1>2, <1>3, <1>5, <2>1, <2>2 DEF MergeCandidate
<1>6. CASE p # None /\ p.status # "Tombstone"
    <2>1. item # None => Shape(MergeBoth(p, item, opts), p, item)
        <3> SUFFICES ASSUME item # None PROVE Shape(MergeBoth(p, item, opts), p, item)
            OBVIOUS
        <3> DEFINE c == ReconcileContent(p, item, opts)
        <3>1. ContentShape(c, p)
            BY <1>1, <1>6, ReconcileContentShape
        <3> HIDE DEF c
        <3>2. BothShape(ReconcileFlags(c.row, item, c.out, opts), p)
            BY <1>1, <3>1, ReconcileFlagsShape DEF ContentShape, SoundContent
        <3> QED BY <1>6, <3>2, BothShapeFits DEF MergeBoth, c
    <2>2. (item = None /\ p.base # None) => Shape(MergeVanished(p, opts), p, item)
        BY <1>1, <1>6, VanishedShape
    <2>3. (item = None /\ p.base = None) => Shape(MergeCreated(p, opts), p, item)
        <3> SUFFICES ASSUME item = None, p.base = None
                     PROVE  Shape(MergeCreated(p, opts), p, item)
            OBVIOUS
        <3> DEFINE new == [Nothing EXCEPT !.push = Add(p), !.create = p]
        <3>1. /\ new.put = Keep /\ new.flag = None /\ new.content = None
              /\ new.create = p /\ new.drop = FALSE /\ new.push = Add(p)
            BY DEF Nothing
        <3> HIDE DEF new
        <3>2. ~Loose(p)
            BY DEF Loose
        <3>3. p.status = "Created" => Shape(new, p, item)
            BY <1>6, <3>1, <3>2 DEF Shape
        <3> QED BY <1>2, <3>3 DEF MergeCreated, new
    <2> QED BY <1>2, <1>6, <2>1, <2>2, <2>3 DEF MergeCandidate
<1> QED BY <1>4, <1>5, <1>6

--------------------------------------------------------------------------------
(* The sync under way.                                                     *)

(* A row that goes on as the known side of its item. *)
RowLasts(s, h, p) ==
    IF p.link_id = None THEN Loose(p) /\ h \in used[s]
    ELSE /\ BoundAt(hub, s, h) \subseteq {p.link_id}
         /\ Mourned(s, h, p.link_id, removed)
         /\ p.status = "Tombstone" => p.link_id \in removed

OutFits(s, h, out) ==
    LET put == KeyBack(s, h, out.put)
    IN  /\ Sound(out)
        /\ put \in Op /\ OpFits(hub, s, h, put, removed)
        /\ out.flag # None =>
              /\ RowLasts(s, h, out.flag)
              /\ OpLinks(put) \subseteq {out.flag.link_id}
        /\ out.content # None =>
              /\ RowLasts(s, h, out.content) /\ out.content.link_id # None
              /\ OpLinks(put) \subseteq {out.content.link_id}
        /\ out.drop => BoundAt(hub, s, h) \subseteq removed /\ out.put = Keep
        /\ out.create # None =>
              /\ out.create.link_id # None /\ out.create.object # None
              /\ out.push = Add(out.create)

(* A handle a server assigned during the run is the new item's alone. *)
ResultFits(s, h) ==
    run.results[h] # None =>
        /\ h \in DOMAIN run.outs /\ h \notin run.unserved
        /\ run.outs[h].push # None
        /\ run.results[h].assigned # None =>
              LET new == run.results[h].assigned
              IN  /\ run.results[h].accepted = TRUE /\ run.outs[h].create # None
                  /\ new \in ServerHandle /\ new \notin DOMAIN run.outs
                  /\ BoundAt(hub, s, new) = {}
                  /\ Mourned(s, new, run.outs[h].create.link_id, removed)

(* No two outcomes were assigned one handle. *)
Assigned(h) == run.results[h] # None /\ run.results[h].assigned # None

RunInv ==
    run # None =>
        /\ run = [source |-> run.source, outs |-> run.outs,
                  unserved |-> run.unserved, results |-> run.results]
        /\ DOMAIN run.outs \subseteq Handle
        /\ \A h \in DOMAIN run.outs :
              /\ h \in ServerHandle => h \in used[run.source]
              /\ OutFits(run.source, h, run.outs[h])
        /\ \A h \in run.unserved : run.outs[h].push # None
        /\ \A h \in Handle : ResultFits(run.source, h)
        /\ \A h, k \in Handle :
              (h # k /\ Assigned(h) /\ Assigned(k)) =>
                 run.results[h].assigned # run.results[k].assigned

HubInv == TypeOK /\ StoreInv /\ RunInv

(* What an upsert is keyed back to. *)
LEMMA KeyBackUpsert ==
    ASSUME NEW s, NEW h, NEW op \in ReplicaWriteOp, op.op = "UpsertPlacement"
    PROVE  LET key == KeyBack(s, h, op)
               link == IF op.row.link_id = None /\ BoundAt(hub, s, h) # {}
                       THEN The(BoundAt(hub, s, h)) ELSE op.row.link_id
           IN  /\ key \in ReplicaWriteOp /\ key.op = "UpsertPlacement"
               /\ key.row.link_id = link
               /\ key.row.base = op.row.base /\ key.row.status = op.row.status
               /\ key.row.object = op.row.object
<1>1. op.row \in ReplicaPlacement /\ op = [op |-> "UpsertPlacement", row |-> op.row]
         /\ op # Keep
    BY MergeAssumption DEF ReplicaWriteOp
<1>2. CASE op.row.link_id = None /\ BoundAt(hub, s, h) # {}
    <2> DEFINE link == The(BoundAt(hub, s, h))
               row == [op.row EXCEPT !.link_id = link]
    <2>1. link \in LinkId
        BY <1>2 DEF The, BoundAt
    <2> HIDE DEF link
    <2>2. row \in ReplicaPlacement /\ row.link_id = link
             /\ row.base = op.row.base /\ row.status = op.row.status
             /\ row.object = op.row.object
        BY <1>1, <2>1 DEF ReplicaPlacement
    <2>3. KeyBack(s, h, op) = [op |-> "UpsertPlacement", row |-> row]
        BY <1>1, <1>2 DEF KeyBack, link
    <2> HIDE DEF row
    <2>4. [op |-> "UpsertPlacement", row |-> row] \in ReplicaWriteOp
        BY <2>2 DEF ReplicaWriteOp
    <2> QED BY <1>2, <2>2, <2>3, <2>4 DEF link
<1>3. CASE ~(op.row.link_id = None /\ BoundAt(hub, s, h) # {})
    BY <1>1, <1>3 DEF KeyBack
<1> QED BY <1>2, <1>3

(* A row written fits, keyed back or not. *)
LEMMA UpsertFits ==
    ASSUME TypeOK, StoreInv, NEW s \in Source, NEW h \in Handle,
           NEW op \in ReplicaWriteOp, op.op = "UpsertPlacement",
           \/ Loose(op.row) /\ servers[s][h] # None
           \/ op.row.link_id = None /\ Loose(op.row) /\ h \in used[s]
                 /\ BoundAt(hub, s, h) = {}
           \/ op.row.link_id # None /\ RowFits(hub, s, h, op.row, removed)
    PROVE  LET key == KeyBack(s, h, op)
           IN  key \in Op /\ OpFits(hub, s, h, key, removed)
<1> DEFINE key == KeyBack(s, h, op)
           bound == BoundAt(hub, s, h)
<1>1. /\ key \in ReplicaWriteOp /\ key.op = "UpsertPlacement"
      /\ key.row.link_id = IF op.row.link_id = None /\ bound # {}
                           THEN The(bound) ELSE op.row.link_id
      /\ key.row.base = op.row.base /\ key.row.status = op.row.status
    BY KeyBackUpsert
<1> HIDE DEF key
<1>2. RowFits(hub, s, h, key.row, removed)
    <2>1. CASE op.row.link_id # None
        BY <1>1, <2>1 DEF RowFits, Loose
    <2>2. CASE op.row.link_id = None /\ bound = {}
        <3>1. Loose(op.row) /\ h \in used[s]
            BY <2>2 DEF StoreInv, ServersInv
        <3> QED BY <1>1, <2>2, <3>1 DEF RowFits, Loose
    <2>3. CASE op.row.link_id = None /\ bound # {}
        <3> DEFINE link == The(bound)
        <3>1. link \in bound
            BY <2>3 DEF The
        <3>2. bound \subseteq {link}
            BY <3>1 DEF StoreInv, OneBound
        <3>3. Loose(op.row) /\ servers[s][h] # None
            BY <2>3
        <3>4. link \in LinkId /\ Named(s, h, link)
            BY <3>1 DEF BoundAt, StoreInv, ItemsInv, ItemFits
        <3>5. link # None
            BY <3>4, SentinelAssumption
        <3>6. key.row.link_id = link /\ key.row.status = "Clean"
            BY <1>1, <2>3, <3>3 DEF Loose
        <3> HIDE DEF link
        <3> QED BY <3>2, <3>3, <3>4, <3>5, <3>6 DEF RowFits, Mourned
    <2> QED BY <2>1, <2>2, <2>3
<1>3. OpFits(hub, s, h, key, removed) /\ key \in Op
    BY <1>1, <1>2 DEF OpFits, Op
<1> QED BY <1>3 DEF key

LEMMA ReportedType ==
    ASSUME TypeOK, NEW s \in Source, NEW h \in Handle
    PROVE  /\ Reported(s, h) \in Opt(ReplicaRemoteItem)
           /\ Reported(s, h) = None <=> servers[s][h] = None
<1>1. CASE servers[s][h] = None
    BY <1>1 DEF Reported
<1>2. CASE servers[s][h] # None
    <2>1. servers[s][h] \in ServerItem
        BY <1>2 DEF TypeOK
    <2>2. Reported(s, h) \in ReplicaRemoteItem
        BY <1>2, <2>1 DEF Reported, ServerItem, ReplicaRemoteItem
    <2> QED BY <1>2, <2>2, MergeAssumption
<1> QED BY <1>1, <1>2

(* What a loaded row tells of the items bound under its handle. *)
LEMMA LoadedLinks ==
    ASSUME NEW s, NEW h, NEW p, LoadedFits(s, h, p)
    PROVE  /\ BoundAt(hub, s, h) \subseteq {p.link_id}
           /\ p.link_id = None => Loose(p) /\ h \in used[s] /\ BoundAt(hub, s, h) = {}
           /\ (servers[s][h] = None /\ p.base # None) =>
                 BoundAt(hub, s, h) \subseteq removed
           /\ p.status = "Tombstone" => BoundAt(hub, s, h) \subseteq removed
           /\ h \in ServerHandle => h \in used[s]
BY DEF LoadedFits, RowFits, Mourned, Named, Loose

(* A live row of a member the server holds, made of the one loaded. *)
LEMMA OfLasts ==
    ASSUME NEW s, NEW h, NEW p, LoadedFits(s, h, p), NEW q, Of(q, p),
           servers[s][h] # None
    PROVE  /\ RowLasts(s, h, q)
           /\ q.link_id # None => RowFits(hub, s, h, q, removed)
BY DEF LoadedFits, RowFits, RowLasts, Of, Mourned, Loose

LEMMA OutcomeFits ==
    ASSUME TypeOK, StoreInv, NEW s \in Source, NEW h \in Handle
    PROVE  /\ OutFits(s, h, OutcomeAt(s, h))
           /\ (OutcomeAt(s, h) # Nothing /\ h \in ServerHandle) => h \in used[s]
<1> DEFINE p == Loaded(s)[h]
           item == Reported(s, h)
           out == OutcomeAt(s, h)
           put == KeyBack(s, h, out.put)
           bound == BoundAt(hub, s, h)
<1>1. /\ p \in Opt(ReplicaPlacement) /\ (p = None => bound = {})
      /\ p # None => LoadedFits(s, h, p)
    BY LoadFits
<1>2. item \in Opt(ReplicaRemoteItem) /\ (item = None <=> servers[s][h] = None)
    BY ReportedType
<1>3. Options[s] \in ReplicaSyncOptions
    BY HubAssumption
<1>4. out = MergeCandidate(p, item, Options[s])
    BY DEF OutcomeAt
<1>5. p # None =>
         /\ bound \subseteq {p.link_id}
         /\ p.link_id = None => Loose(p) /\ h \in used[s] /\ bound = {}
         /\ (item = None /\ p.base # None) => bound \subseteq removed
         /\ p.status = "Tombstone" => bound \subseteq removed
         /\ h \in ServerHandle => h \in used[s]
    BY <1>1, <1>2, LoadedLinks
<1> HIDE DEF p, item, out
<1>6. Sound(out) /\ Shape(out, p, item)
    <2>1. (p # None /\ p.status = "Created") => p.object # None
        BY <1>1 DEF LoadedFits
    <2> QED BY <1>1, <1>2, <1>3, <1>4, <2>1, CandidateShape, MergeCandidateSound
<1>7. out.put \in ReplicaWriteOp \cup {Keep}
    BY <1>6 DEF Sound, Outcome
<1>8. /\ put \in Op /\ OpFits(hub, s, h, put, removed)
      /\ (out.flag # None \/ out.content # None) => OpLinks(put) \subseteq {p.link_id}
    <2>1. CASE out.put = Keep
        BY <2>1 DEF KeyBack, Op, OpFits, OpLinks
    <2>2. CASE /\ out.put # Keep /\ out.put.op = "DropPlacement" /\ item = None
               /\ p # None /\ (p.status = "Tombstone" \/ p.base # None)
        <3>1. bound \subseteq removed
            BY <1>5, <2>2
        <3>2. put = out.put
            BY <2>2 DEF KeyBack
        <3> HIDE DEF put, bound
        <3>3. OpFits(hub, s, h, put, removed) /\ OpLinks(put) = {}
            BY <2>2, <3>1, <3>2 DEF OpFits, OpLinks, bound
        <3> QED BY <1>7, <3>2, <3>3 DEF Op
    <2>3. CASE /\ out.put # Keep /\ out.put.op = "UpsertPlacement" /\ item # None
               /\ Loose(out.put.row) /\ out.flag = None /\ out.content = None
        BY <1>2, <1>7, <2>3, UpsertFits
    <2>4. CASE /\ out.put # Keep /\ out.put.op = "UpsertPlacement" /\ p # None
               /\ Of(out.put.row, p)
               /\ item = None => /\ ~Loose(p) /\ out.put.row.base = None
                                 /\ out.put.row.status = "Created"
        <3> DEFINE row == out.put.row
        <3>1. out.put \in ReplicaWriteOp /\ out.put.op = "UpsertPlacement"
            BY <1>7, <2>4
        <3>2. LoadedFits(s, h, p) /\ row.link_id = p.link_id
            BY <1>1, <2>4 DEF Of
        <3>3. CASE p.link_id = None
            <4>1. /\ row.link_id = None /\ Loose(row) /\ h \in used[s]
                  /\ BoundAt(hub, s, h) = {}
                BY <1>5, <2>4, <3>2, <3>3 DEF Of
            <4>2. put \in Op /\ OpFits(hub, s, h, put, removed)
                BY <3>1, <4>1, UpsertFits
            <4>3. put = out.put
                BY <4>1 DEF KeyBack
            <4>4. OpLinks(put) = {}
                BY <3>2, <3>3, <4>3 DEF OpLinks
            <4> QED BY <4>2, <4>4
        <3>4. CASE p.link_id # None
            <4>1. RowFits(hub, s, h, row, removed)
                <5>1. CASE item # None
                    BY <1>2, <2>4, <3>2, <3>4, <5>1, OfLasts
                <5>2. CASE item = None
                    <6>1. row.base = None /\ row.status = "Created"
                        BY <2>4, <5>2
                    <6> HIDE DEF row
                    <6> QED BY <3>2, <3>4, <6>1 DEF RowFits, LoadedFits
                <5> QED BY <5>1, <5>2
            <4>2. put \in Op /\ OpFits(hub, s, h, put, removed)
                BY <3>1, <3>2, <3>4, <4>1, UpsertFits
            <4>3. put = out.put
                BY <3>2, <3>4 DEF KeyBack
            <4>4. OpLinks(put) \subseteq {p.link_id}
                BY <3>2, <4>3 DEF OpLinks
            <4> QED BY <4>2, <4>4
        <3> QED BY <3>3, <3>4
    <2> QED BY <1>6, <2>1, <2>2, <2>3, <2>4 DEF Shape
<1> HIDE DEF put
<1>9. out.flag # None =>
         RowLasts(s, h, out.flag) /\ OpLinks(put) \subseteq {out.flag.link_id}
    <2> SUFFICES ASSUME out.flag # None
                 PROVE  RowLasts(s, h, out.flag)
                          /\ OpLinks(put) \subseteq {out.flag.link_id}
        OBVIOUS
    <2>1. p # None /\ item # None /\ Of(out.flag, p)
        BY <1>6 DEF Shape
    <2>2. out.flag.link_id = p.link_id
        BY <2>1 DEF Of
    <2> QED BY <1>1, <1>2, <1>8, <2>1, <2>2, OfLasts
<1>10. out.content # None =>
          /\ RowLasts(s, h, out.content) /\ out.content.link_id # None
          /\ OpLinks(put) \subseteq {out.content.link_id}
    <2> SUFFICES ASSUME out.content # None
                 PROVE  /\ RowLasts(s, h, p) /\ p.link_id # None
                        /\ OpLinks(put) \subseteq {p.link_id}
        BY <1>6 DEF Shape
    <2>1. p # None /\ item # None /\ ~Loose(p)
        BY <1>6 DEF Shape
    <2>2. p.link_id # None /\ LoadedFits(s, h, p) /\ servers[s][h] # None
        BY <1>1, <1>2, <1>5, <2>1
    <2>3. RowLasts(s, h, p)
        BY <2>2 DEF RowLasts, LoadedFits, RowFits, Mourned
    <2> QED BY <1>8, <2>2, <2>3
<1>11. out.drop => bound \subseteq removed /\ out.put = Keep
    BY <1>5, <1>6 DEF Shape
<1>12. out.create # None =>
          /\ out.create.link_id # None /\ out.create.object # None
          /\ out.push = Add(out.create)
    BY <1>5, <1>6 DEF Shape
<1>13. (out # Nothing /\ h \in ServerHandle) => h \in used[s]
    <2>1. CASE p # None
        BY <1>5, <2>1
    <2>2. CASE item # None
        BY <1>2, <2>2 DEF StoreInv, ServersInv
    <2>3. CASE p = None /\ item = None
        BY <1>4, <2>3 DEF MergeCandidate
    <2> QED BY <2>1, <2>2, <2>3
<1>14. OutFits(s, h, out)
    BY <1>6, <1>8, <1>9, <1>10, <1>11, <1>12 DEF OutFits, put
<1> QED BY <1>13, <1>14 DEF out

--------------------------------------------------------------------------------
(* A member of one server moves.                                           *)

ServerMoves(s0, h0) ==
    /\ \A s \in Source : used[s] \subseteq used'[s]
    /\ \A s \in Source, h \in Handle :
          (s # s0 \/ h # h0) => servers'[s][h] = servers[s][h]
    /\ \/ servers'[s0][h0] = None
       \/ /\ servers[s0][h0] # None /\ servers'[s0][h0] # None
          /\ servers'[s0][h0].link = servers[s0][h0].link
       \/ servers[s0][h0] = None /\ h0 \in ServerHandle /\ h0 \notin used[s0]

LEMMA NamedStays ==
    ASSUME NEW s0, NEW h0, ServerMoves(s0, h0),
           NEW s \in Source, NEW h \in Handle, NEW link, Named(s, h, link)
    PROVE  Named(s, h, link)'
<1>1. h \in ServerHandle => h \in used[s] /\ h \in used'[s]
    BY DEF ServerMoves, Named
<1>2. CASE servers'[s][h] = None
    BY <1>1, <1>2 DEF Named
<1>3. CASE servers'[s][h] # None
    <2>1. servers[s][h] # None /\ servers'[s][h].link = servers[s][h].link
        BY <1>1, <1>3 DEF ServerMoves
    <2>2. link \in Names(s, h)
        BY <2>1 DEF Named
    <2>3. (link \in Names(s, h))'
        BY <1>3, <2>1, <2>2 DEF Names
    <2> QED BY <1>1, <2>3 DEF Named
<1> QED BY <1>2, <1>3

LEMMA MournedStays ==
    ASSUME NEW s0, NEW h0, ServerMoves(s0, h0), removed \subseteq removed',
           NEW s \in Source, NEW h \in Handle, NEW link,
           Mourned(s, h, link, removed),
           (s = s0 /\ h = h0 /\ servers'[s][h] = None) => link \in removed'
    PROVE  Mourned(s, h, link, removed)'
<1>1. Named(s, h, link)'
    BY NamedStays DEF Mourned
<1>2. servers'[s][h] = None => link \in removed'
    BY DEF Mourned, ServerMoves
<1> QED BY <1>1, <1>2 DEF Mourned

(* The items stay what they must be, those of a member that is gone having *)
(* been deleted.                                                           *)
LEMMA ItemsStay ==
    ASSUME TypeOK, StoreInv, NEW s0, NEW h0, ServerMoves(s0, h0), hub' = hub,
           residual' = residual, removed \subseteq removed',
           \A link \in BoundAt(hub, s0, h0) :
              (Mourned(s0, h0, link, removed) /\ servers'[s0][h0] = None) =>
                 link \in removed',
           ServersInv'
    PROVE  StoreInv'
<1>1. ASSUME NEW link \in LinkId, hub'[link] # None
      PROVE  ItemFits(link, hub[link], removed)'
    <2>0. PICK item : item = hub[link]
        OBVIOUS
    <2>1. ItemFits(link, item, removed)
        BY <2>0 DEF StoreInv, ItemsInv
    <2>2. item # None /\ item \in ReplicaHubItem
        BY <1>1, <2>0 DEF TypeOK
    <2>3. item.deleted => link \in removed'
        BY <2>1, <2>2 DEF ItemFits
    <2>4. ASSUME NEW s \in Source, item.sources[s] # None
          PROVE  LET b == item.sources[s]
                 IN  /\ Named(s, b.handle, link)'
                     /\ (b.base # None \/ b.conflicted) =>
                            Mourned(s, b.handle, link, removed)'
        <3> DEFINE b == item.sources[s]
                   h == b.handle
        <3>1. h \in Handle
            BY <2>2, <2>4 DEF ReplicaHubItem, ReplicaSourceBinding
        <3>2. /\ Named(s, h, link)
              /\ (b.base # None \/ b.conflicted) => Mourned(s, h, link, removed)
            BY <2>1, <2>2, <2>4 DEF ItemFits
        <3>3. link \in BoundAt(hub, s, h)
            BY <2>0, <2>2, <2>4 DEF BoundAt
        <3>4. Named(s, h, link)'
            BY <3>1, <3>2, NamedStays
        <3>5. Mourned(s, h, link, removed) => Mourned(s, h, link, removed)'
            BY <3>1, <3>3, MournedStays
        <3> QED BY <3>2, <3>4, <3>5
    <2>5. hub'[link] = item
        BY <2>0
    <2> QED BY <2>3, <2>4, <2>5 DEF ItemFits
<1>2. ItemsInv(hub, removed)'
    BY <1>1 DEF ItemsInv, ItemFits
<1>3. OneBound(hub)'
    BY DEF StoreInv, OneBound, BoundAt
<1>4. \A s \in Source : LooseInv(s, residual[s])'
    BY DEF StoreInv, LooseInv, ServerMoves
<1> QED BY <1>2, <1>3, <1>4 DEF StoreInv

LEMMA RowStays ==
    ASSUME NEW s0, NEW h0, ServerMoves(s0, h0), hub' = hub,
           removed \subseteq removed', NEW s \in Source, NEW h \in Handle,
           \A link : (/\ s = s0 /\ h = h0 /\ servers'[s][h] = None
                      /\ Mourned(s, h, link, removed)) => link \in removed',
           NEW p
    PROVE  /\ RowFits(hub, s, h, p, removed) => RowFits(hub, s, h, p, removed)'
           /\ RowLasts(s, h, p) => RowLasts(s, h, p)'
<1>1. \A link : Named(s, h, link) => Named(s, h, link)'
    BY NamedStays
<1>2. \A link : Mourned(s, h, link, removed) => Mourned(s, h, link, removed)'
    BY MournedStays
<1>3. BoundAt(hub, s, h)' = BoundAt(hub, s, h)
    BY DEF BoundAt
<1>4. used[s] \subseteq used'[s]
    BY DEF ServerMoves
<1>5. RowFits(hub, s, h, p, removed) => RowFits(hub, s, h, p, removed)'
    BY <1>1, <1>2, <1>3, <1>4 DEF RowFits
<1>6. RowLasts(s, h, p) => RowLasts(s, h, p)'
    BY <1>2, <1>3, <1>4 DEF RowLasts
<1> QED BY <1>5, <1>6

LEMMA OutStays ==
    ASSUME NEW s0, NEW h0, ServerMoves(s0, h0), hub' = hub,
           removed \subseteq removed', NEW s \in Source, NEW h \in Handle,
           NEW out, OutFits(s, h, out),
           \/ \A link : (/\ s = s0 /\ h = h0 /\ servers'[s][h] = None
                         /\ Mourned(s, h, link, removed)) => link \in removed'
           \/ out.drop /\ out.flag = None /\ out.content = None
    PROVE  OutFits(s, h, out)'
<1>0. PICK put : put = KeyBack(s, h, out.put)
    OBVIOUS
<1>1. BoundAt(hub, s, h)' = BoundAt(hub, s, h)
    BY DEF BoundAt
<1>2. KeyBack(s, h, out.put)' = put
    BY <1>0, <1>1 DEF KeyBack
<1>3. CASE out.drop /\ out.flag = None /\ out.content = None
    <2>1. put = Keep
        BY <1>0, <1>3 DEF OutFits, KeyBack
    <2> QED BY <1>0, <1>1, <1>2, <1>3, <2>1 DEF OutFits, OpFits
<1>4. CASE \A link : (/\ s = s0 /\ h = h0 /\ servers'[s][h] = None
                      /\ Mourned(s, h, link, removed)) => link \in removed'
    <2>1. ASSUME NEW p
          PROVE  /\ RowFits(hub, s, h, p, removed) => RowFits(hub, s, h, p, removed)'
                 /\ RowLasts(s, h, p) => RowLasts(s, h, p)'
        BY <1>4, RowStays
    <2>2. OpFits(hub, s, h, put, removed) => OpFits(hub, s, h, put, removed)'
        BY <1>1, <2>1 DEF OpFits
    <2> QED BY <1>0, <1>1, <1>2, <2>1, <2>2 DEF OutFits
<1> QED BY <1>3, <1>4

--------------------------------------------------------------------------------
(* A write.                                                                *)

LEMMA RetainedKeeps ==
    ASSUME NEW items \in [LinkId -> Opt(ReplicaHubItem)], NEW gone,
           ItemsInv(items, gone), OneBound(items)
    PROVE  LET kept == Retained(items)
           IN  /\ kept \in [LinkId -> Opt(ReplicaHubItem)]
               /\ ItemsInv(kept, gone) /\ OneBound(kept)
<1> DEFINE kept == Retained(items)
<1>1. kept \in [LinkId -> Opt(ReplicaHubItem)]
    BY DEF Retained
<1>2. \A link \in LinkId : kept[link] = None \/ kept[link] = items[link]
    BY DEF Retained
<1> HIDE DEF kept
<1>3. ItemsInv(kept, gone)
    <2> SUFFICES ASSUME NEW link \in LinkId PROVE ItemFits(link, kept[link], gone)
        BY DEF ItemsInv
    <2>1. CASE kept[link] = None
        BY <2>1 DEF ItemFits
    <2>2. CASE kept[link] = items[link]
        BY <2>2 DEF ItemsInv
    <2> QED BY <1>2, <2>1, <2>2
<1>4. OneBound(kept)
    BY <1>2 DEF OneBound, BoundAt
<1> QED BY <1>1, <1>3, <1>4 DEF kept

LEMMA WriteBackKeeps ==
    ASSUME TypeOK, StoreInv, NEW s \in Source, NEW st, Kept(st, s, removed'),
           WriteBack(s, st), UNCHANGED remotes,
           removed \subseteq removed', removed' \subseteq LinkId
    PROVE  /\ hub' \in [LinkId -> Opt(ReplicaHubItem)]
           /\ residual' \in [Source -> [Handle -> Opt(ReplicaPlacement)]]
           /\ folded' \in [LinkId -> [by : Opt(Source), rival : Opt(Source)]]
           /\ StoreInv'
<1>1. /\ hub' = Retained(st.items)
      /\ residual' = [residual EXCEPT ![s] = st.residual]
      /\ servers' = servers /\ used' = used
    BY DEF WriteBack, remotes
<1>2. /\ st.items \in [LinkId -> Opt(ReplicaHubItem)]
      /\ st.residual \in [Handle -> Opt(ReplicaPlacement)]
      /\ ItemsInv(st.items, removed') /\ OneBound(st.items)
      /\ LooseInv(s, st.residual)
    BY DEF Kept, HubStore
<1>3. PICK gone : gone = removed'
    OBVIOUS
<1>4. PICK new : new = Retained(st.items)
    OBVIOUS
<1>5. /\ new \in [LinkId -> Opt(ReplicaHubItem)]
      /\ ItemsInv(new, gone) /\ OneBound(new)
    BY <1>2, <1>3, <1>4, RetainedKeeps
<1>6. hub' = new
    BY <1>1, <1>4
<1>7. residual' \in [Source -> [Handle -> Opt(ReplicaPlacement)]]
    BY <1>1, <1>2 DEF TypeOK
<1>8. folded' \in [LinkId -> [by : Opt(Source), rival : Opt(Source)]]
    <2> DEFINE F(link) ==
            IF hub'[link] = None THEN [by |-> None, rival |-> None]
            ELSE [by    |-> IF hub[link] # None /\ hub[link].object = hub'[link].object
                            THEN folded[link].by ELSE s,
                  rival |-> IF ~hub'[link].conflicted THEN None
                            ELSE IF hub[link] # None /\ hub[link].conflicted
                            THEN folded[link].rival ELSE s]
    <2>1. folded' = [link \in LinkId |-> F(link)]
        BY Zenon DEF WriteBack
    <2>2. \A link \in LinkId : folded[link] \in [by : Opt(Source), rival : Opt(Source)]
        BY DEF TypeOK
    <2>3. \A link \in LinkId : F(link) \in [by : Opt(Source), rival : Opt(Source)]
        BY <2>2
    <2> HIDE DEF F
    <2> QED BY <2>1, <2>3
<1>9. \A k \in Source, h \in Handle : \A link :
         /\ Named(k, h, link)' <=> Named(k, h, link)
         /\ Mourned(k, h, link, gone)' <=> Mourned(k, h, link, gone)
    BY <1>1 DEF Named, Mourned, Names
<1>10. ItemsInv(hub, removed)'
    <2> SUFFICES ASSUME NEW link \in LinkId, new[link] # None
                 PROVE  ItemFits(link, new[link], gone)'
        BY <1>3, <1>6 DEF ItemsInv, ItemFits, Mourned
    <2>1. ItemFits(link, new[link], gone)
        BY <1>5 DEF ItemsInv
    <2>2. \A k \in Source : new[link].sources[k] # None =>
             new[link].sources[k].handle \in Handle
        BY <1>5 DEF ReplicaHubItem, ReplicaSourceBinding
    <2> QED BY <1>9, <2>1, <2>2 DEF ItemFits
<1>11. OneBound(hub)'
    BY <1>5, <1>6 DEF OneBound, BoundAt
<1>12. \A k \in Source : LooseInv(k, residual[k])'
    BY <1>1, <1>2 DEF StoreInv, LooseInv, TypeOK
<1>13. ServersInv'
    BY <1>1 DEF StoreInv, ServersInv
<1> QED BY <1>5, <1>6, <1>7, <1>8, <1>10, <1>11, <1>12, <1>13 DEF StoreInv

LEMMA AbsorbBatchKeeps ==
    ASSUME TypeOK, StoreInv, NEW s \in Source, NEW batch,
           DOMAIN batch \subseteq Handle,
           \A h \in DOMAIN batch : batch[h] # Keep =>
              /\ KeyBack(s, h, batch[h]) \in Op
              /\ OpFits(hub, s, h, KeyBack(s, h, batch[h]), removed)
    PROVE  LET st == AbsorbBatch(Store(s), s, batch)
           IN  /\ Kept(st, s, removed)
               /\ \A k \in Handle : BoundAt(st.items, s, k) \subseteq
                     BoundAt(hub, s, k) \cup
                        (IF k \in DOMAIN batch /\ batch[k] # Keep
                         THEN OpLinks(KeyBack(s, k, batch[k])) ELSE {})
<1> DEFINE D == {k \in DOMAIN batch : batch[k] # Keep}
           ops == [h \in D |-> Ops(KeyBack(s, h, batch[h]), h, Keep)]
           st == Absorb(Store(s), s, ops)
<1>1. AbsorbBatch(Store(s), s, batch) = st
    BY Zenon DEF AbsorbBatch
<1>2. \A h \in D : /\ ops[h].here = KeyBack(s, h, batch[h])
                    /\ ops[h].to = h /\ ops[h].there = Keep
    BY DEF Ops
<1>3. DOMAIN ops = D /\ D \subseteq Handle
    OBVIOUS
<1>4. Kept(Store(s), s, removed) /\ Store(s).items = hub
    BY StoreKept DEF Store
<1>5. \A k, gone : OpFits(hub, s, k, Keep, gone)
    BY DEF OpFits
<1> HIDE DEF ops
<1>6. BatchFits(Store(s).items, s, ops, removed)
    BY <1>2, <1>3, <1>4, <1>5 DEF BatchFits, Op
<1>7. /\ Kept(st, s, removed)
      /\ \A k \in Handle : BoundAt(st.items, s, k) \subseteq
            BoundAt(hub, s, k) \cup Written(ops, D, k)
    BY <1>3, <1>4, <1>6, BatchKeeps
<1>8. ASSUME NEW k \in Handle
      PROVE  Written(ops, D, k) \subseteq
                IF k \in DOMAIN batch /\ batch[k] # Keep
                THEN OpLinks(KeyBack(s, k, batch[k])) ELSE {}
    BY <1>2, KeepLinks DEF Written
<1> HIDE DEF st, D
<1> QED BY <1>1, <1>7, <1>8

(* What an answered outcome adds fits the store its merge left. *)
LEMMA OutcomeOpsFit ==
    ASSUME TypeOK, StoreInv, RunInv, run # None, NEW h \in Answered,
           NEW items,
           \A k \in Handle : BoundAt(items, run.source, k) \subseteq
              BoundAt(hub, run.source, k) \cup
                 (IF k \in DOMAIN run.outs
                  THEN OpLinks(KeyBack(run.source, k, run.outs[k].put)) ELSE {})
    PROVE  LET ops == OutcomeOps(h)
           IN  /\ ops.here \in Op /\ ops.there \in Op /\ ops.to \in Handle
               /\ OpFits(items, run.source, h, ops.here, removed)
               /\ OpFits(items, run.source, ops.to, ops.there, removed)
               /\ ops.there # Keep => Assigned(h) /\ ops.to = run.results[h].assigned
<1> DEFINE s == run.source
           out == run.outs[h]
           result == run.results[h]
           put == KeyBack(s, h, out.put)
           Fits(ops) == /\ ops.here \in Op /\ ops.there \in Op /\ ops.to \in Handle
                        /\ OpFits(items, s, h, ops.here, removed)
                        /\ OpFits(items, s, ops.to, ops.there, removed)
                        /\ ops.there # Keep => Assigned(h) /\ ops.to = result.assigned
<1>1. /\ h \in Handle /\ result # None /\ h \in DOMAIN run.outs
      /\ out.push # None /\ OutFits(s, h, out) /\ ResultFits(s, h)
    BY DEF Answered, RunInv, ResultFits
<1>2. result \in PushResult
    BY <1>1 DEF TypeOK
<1>3. BoundAt(items, s, h) \subseteq BoundAt(hub, s, h) \cup OpLinks(put)
    BY <1>1
<1>4. /\ result.accepted \in BOOLEAN /\ result.revision \in Opt(Revision)
      /\ result.assigned \in Opt(Handle)
    BY <1>2 DEF PushResult
<1>5. Sound(out) /\ out \in Outcome
    BY <1>1 DEF OutFits, Sound
<1>6. /\ out.push \in ReplicaChange
      /\ out.push.kind \in {"SetFlags", "Update", "Remove", "Add"}
      /\ out.flag \in Opt(ReplicaPlacement) /\ out.content \in Opt(ReplicaPlacement)
      /\ out.create \in Opt(ReplicaPlacement) /\ out.drop \in BOOLEAN
    BY <1>1, <1>5 DEF Outcome, ReplicaChange
<1>7. /\ out.flag # None <=> out.push.kind = "SetFlags"
      /\ out.content # None <=> out.push.kind = "Update"
      /\ out.drop = TRUE <=> out.push.kind = "Remove"
      /\ out.create # None <=> out.push.kind = "Add"
    BY <1>1, <1>5 DEF Sound, Agrees
<1>8. OutcomeOps(h) =
         CASE ~result.accepted -> Ops(Keep, h, Keep)
           [] result.accepted /\ out.flag # None ->
                 Ops(Upsert(Rebase(out.flag, out.flag.flags)), h, Keep)
           [] result.accepted /\ out.content # None ->
                 Ops(Upsert(RebaseContent(out.content, result.revision)), h, Keep)
           [] result.accepted /\ out.drop -> Ops(Drop("Deleted"), h, Keep)
           [] result.accepted /\ out.create # None ->
                 IF result.assigned = None THEN Ops(Drop("Superseded"), h, Keep)
                 ELSE Ops(Drop("Superseded"), result.assigned,
                          Upsert(RekeyCreate(out.create, result.revision)))
    BY DEF OutcomeOps
<1> HIDE DEF s, out, result, put
<1>9. \A ops : /\ ops.there = Keep /\ ops.to = h /\ ops.here \in Op
               /\ OpFits(items, s, h, ops.here, removed)
               => Fits(ops)
    BY <1>1 DEF OpFits, Op
<1>10. \A here, to, there : LET ops == Ops(here, to, there)
                            IN  /\ ops.here = here /\ ops.to = to
                                /\ ops.there = there
    BY DEF Ops
<1>11. \A here \in Op : OpFits(items, s, h, here, removed) =>
          Fits(Ops(here, h, Keep))
    BY <1>9, <1>10
<1>12. Fits(Ops(Keep, h, Keep))
    BY <1>11 DEF Op, OpFits
<1>13. ASSUME out.flag # None
       PROVE  Fits(Ops(Upsert(Rebase(out.flag, out.flag.flags)), h, Keep))
    <2> DEFINE p == out.flag
               row == Rebase(p, p.flags)
    <2>1. p \in ReplicaPlacement /\ RowLasts(s, h, p)
             /\ OpLinks(put) \subseteq {p.link_id}
        BY <1>1, <1>6, <1>13 DEF OutFits, put
    <2>2. row \in ReplicaPlacement
        BY <2>1, FlagRewriteType DEF ReplicaPlacement
    <2>3. row.link_id = p.link_id /\ row.status = FlagStatus(p)
             /\ row.base = FlagBase(p, p.flags)
        BY <2>1 DEF Rebase, ReplicaPlacement
    <2>4. FlagBase(p, p.flags) # None
        BY <2>1, FlagBaseType, SentinelAssumption DEF ReplicaPlacement
    <2> HIDE DEF p, row
    <2>5. RowFits(items, s, h, row, removed)
        BY <1>3, <2>1, <2>3, <2>4 DEF RowFits, RowLasts, Mourned, Loose, FlagStatus
    <2>6. Upsert(row) \in Op /\ OpFits(items, s, h, Upsert(row), removed)
        BY <2>2, <2>5, OpTypes DEF Op, OpFits, Upsert
    <2> QED BY <1>11, <2>6 DEF p, row
<1>14. ASSUME out.content # None
       PROVE  Fits(Ops(Upsert(RebaseContent(out.content, result.revision)), h, Keep))
    <2> DEFINE p == out.content
               row == RebaseContent(p, result.revision)
    <2>1. p \in ReplicaPlacement /\ RowLasts(s, h, p) /\ p.link_id # None
             /\ OpLinks(put) \subseteq {p.link_id}
        BY <1>1, <1>6, <1>14 DEF OutFits, put
    <2>2. row \in ReplicaPlacement
        BY <1>4, <2>1, RebaseContentType
    <2>3. row.link_id = p.link_id /\ (row.status = "Tombstone" => p.status = "Tombstone")
        BY <2>1 DEF RebaseContent, ReplicaPlacement
    <2> HIDE DEF p, row
    <2>4. RowFits(items, s, h, row, removed)
        BY <1>3, <2>1, <2>3 DEF RowFits, RowLasts, Mourned
    <2>5. Upsert(row) \in Op /\ OpFits(items, s, h, Upsert(row), removed)
        BY <2>2, <2>4, OpTypes DEF Op, OpFits, Upsert
    <2> QED BY <1>11, <2>5 DEF p, row
<1>15. ASSUME out.drop
       PROVE  Fits(Ops(Drop("Deleted"), h, Keep))
    <2>1. BoundAt(hub, s, h) \subseteq removed /\ out.put = Keep
        BY <1>1, <1>15 DEF OutFits
    <2>2. OpLinks(put) = {}
        BY <2>1 DEF put, KeyBack, OpLinks
    <2>3. Drop("Deleted") \in Op /\ OpFits(items, s, h, Drop("Deleted"), removed)
        BY <1>3, <2>1, <2>2, OpTypes DEF Op, OpFits, Drop, DropReason
    <2> QED BY <1>11, <2>3
<1>16. Drop("Superseded") \in Op /\ OpFits(items, s, h, Drop("Superseded"), removed)
    BY OpTypes DEF Op, OpFits, Drop, DropReason
<1>17. Fits(Ops(Drop("Superseded"), h, Keep))
    BY <1>11, <1>16
<1>18. ASSUME out.create # None, result.assigned # None
       PROVE  Fits(Ops(Drop("Superseded"), result.assigned,
                       Upsert(RekeyCreate(out.create, result.revision))))
    <2> DEFINE p == out.create
               row == RekeyCreate(p, result.revision)
               new == result.assigned
    <2>1. p \in ReplicaPlacement /\ p.link_id # None
        BY <1>1, <1>6, <1>18 DEF OutFits
    <2>2. row \in ReplicaPlacement
        BY <1>4, <2>1, RekeyCreateType
    <2>3. row.link_id = p.link_id /\ row.status = "Clean"
        BY <2>1 DEF RekeyCreate, ReplicaPlacement
    <2>4. /\ new \in ServerHandle /\ new \notin DOMAIN run.outs
          /\ BoundAt(hub, s, new) = {} /\ Mourned(s, new, p.link_id, removed)
        BY <1>1, <1>18 DEF ResultFits, s, out, result
    <2>5. new \in Handle
        BY <1>4, <1>18
    <2>6. BoundAt(items, s, new) = {}
        BY <2>4, <2>5 DEF s
    <2>7. Assigned(h)
        BY <1>1, <1>18 DEF Assigned, result
    <2> HIDE DEF p, row, new
    <2>8. RowFits(items, s, new, row, removed)
        BY <2>1, <2>3, <2>4, <2>6 DEF RowFits, Mourned
    <2>9. Upsert(row) \in Op /\ OpFits(items, s, new, Upsert(row), removed)
        BY <2>2, <2>8, OpTypes DEF Op, OpFits, Upsert
    <2>10. Fits(Ops(Drop("Superseded"), new, Upsert(row)))
        BY <1>10, <1>16, <2>5, <2>7, <2>9 DEF new
    <2> QED BY <2>10 DEF p, row, new
<1>19. Fits(OutcomeOps(h))
    <2> HIDE DEF Fits
    <2>1. CASE ~result.accepted
        BY <1>4, <1>8, <1>12, <2>1
    <2>2. CASE result.accepted /\ out.push.kind = "SetFlags"
        BY <1>7, <1>8, <1>13, <2>2
    <2>3. CASE result.accepted /\ out.push.kind = "Update"
        BY <1>7, <1>8, <1>14, <2>3
    <2>4. CASE result.accepted /\ out.push.kind = "Remove"
        BY <1>6, <1>7, <1>8, <1>15, <2>4
    <2>5. CASE result.accepted /\ out.push.kind = "Add"
        BY <1>6, <1>7, <1>8, <1>17, <1>18, <2>5
    <2> QED BY <1>4, <1>6, <2>1, <2>2, <2>3, <2>4, <2>5
<1> QED BY <1>19 DEF s, result

--------------------------------------------------------------------------------
(* The steps.                                                              *)

LEMMA WriteStep ==
    ASSUME HubInv, HubWrite
    PROVE  HubInv'
<1> DEFINE s == run.source
           batch == [h \in DOMAIN run.outs |-> run.outs[h].put]
           merged == AbsorbBatch(Store(s), s, batch)
           ops == [h \in Answered |-> OutcomeOps(h)]
           st == Absorb(merged, s, ops)
<1>1. /\ run # None /\ run' = None /\ UNCHANGED <<remotes, removed, spent>>
      /\ WriteBack(s, st)
    BY DEF HubWrite
<1>2. TypeOK /\ StoreInv /\ RunInv /\ s \in Source
    BY <1>1 DEF HubInv, TypeOK
<1>3. /\ DOMAIN batch = DOMAIN run.outs /\ DOMAIN run.outs \subseteq Handle
      /\ \A h \in DOMAIN batch :
            batch[h] = run.outs[h].put /\ OutFits(s, h, run.outs[h])
    BY <1>1, <1>2 DEF RunInv
<1>4. \A h \in DOMAIN batch : batch[h] # Keep =>
         /\ KeyBack(s, h, batch[h]) \in Op
         /\ OpFits(hub, s, h, KeyBack(s, h, batch[h]), removed)
    BY <1>3 DEF OutFits
<1> HIDE DEF batch
<1>6. /\ Kept(merged, s, removed)
      /\ \A k \in Handle : BoundAt(merged.items, s, k) \subseteq
            BoundAt(hub, s, k) \cup
               (IF k \in DOMAIN batch /\ batch[k] # Keep
                THEN OpLinks(KeyBack(s, k, batch[k])) ELSE {})
    BY <1>2, <1>3, <1>4, AbsorbBatchKeeps
<1> HIDE DEF merged
<1>7. \A k \in Handle : BoundAt(merged.items, s, k) \subseteq
         BoundAt(hub, s, k) \cup
            (IF k \in DOMAIN run.outs
             THEN OpLinks(KeyBack(s, k, run.outs[k].put)) ELSE {})
    BY <1>3, <1>6
<1>8. ASSUME NEW h \in Answered
      PROVE  /\ OutcomeOps(h).here \in Op /\ OutcomeOps(h).there \in Op
             /\ OutcomeOps(h).to \in Handle
             /\ OpFits(merged.items, s, h, OutcomeOps(h).here, removed)
             /\ OpFits(merged.items, s, OutcomeOps(h).to, OutcomeOps(h).there, removed)
             /\ OutcomeOps(h).there # Keep =>
                   Assigned(h) /\ OutcomeOps(h).to = run.results[h].assigned
    BY <1>1, <1>2, <1>7, OutcomeOpsFit
<1>9. DOMAIN ops = Answered /\ \A h \in Answered : ops[h] = OutcomeOps(h)
    OBVIOUS
<1> HIDE DEF ops
<1>10. Answered \subseteq DOMAIN run.outs
    BY <1>1, <1>2 DEF Answered, RunInv, ResultFits
<1>11. BatchFits(merged.items, s, ops, removed)
    <2> SUFFICES ASSUME NEW h \in Answered
                 PROVE  /\ ops[h].here \in Op /\ ops[h].there \in Op
                        /\ ops[h].to \in Handle
                        /\ OpFits(merged.items, s, h, ops[h].here, removed)
                        /\ OpFits(merged.items, s, ops[h].to, ops[h].there, removed)
                        /\ ops[h].there # Keep =>
                              /\ ops[h].to \notin DOMAIN ops
                              /\ \A k \in DOMAIN ops :
                                    (k # h /\ ops[k].there # Keep) =>
                                       ops[k].to # ops[h].to
        BY <1>9 DEF BatchFits
    <2>1. ops[h].there # Keep => ops[h].to \notin Answered
        <3> SUFFICES ASSUME ops[h].there # Keep PROVE ops[h].to \notin Answered
            OBVIOUS
        <3>1. Assigned(h) /\ ops[h].to = run.results[h].assigned
            BY <1>8, <1>9
        <3>2. ResultFits(s, h)
            BY <1>1, <1>2 DEF RunInv, Answered
        <3>3. run.results[h].assigned \notin DOMAIN run.outs
            BY <3>1, <3>2 DEF ResultFits, Assigned
        <3> QED BY <1>10, <3>1, <3>3
    <2>2. ASSUME NEW k \in Answered, k # h, ops[k].there # Keep, ops[h].there # Keep
          PROVE  ops[k].to # ops[h].to
        <3>1. /\ Assigned(h) /\ ops[h].to = run.results[h].assigned
              /\ Assigned(k) /\ ops[k].to = run.results[k].assigned
            BY <1>8, <1>9, <2>2
        <3> QED BY <1>1, <1>2, <2>2, <3>1 DEF RunInv, Answered
    <2> QED BY <1>8, <1>9, <2>1, <2>2
<1>12. Kept(st, s, removed)
    BY <1>2, <1>3, <1>6, <1>9, <1>10, <1>11, BatchKeeps
<1> HIDE DEF st
<1>13. removed' = removed /\ UNCHANGED remotes /\ removed' \subseteq LinkId
    BY <1>1, <1>2 DEF TypeOK
<1>14. Kept(st, s, removed')
    BY <1>12, <1>13
<1>15. /\ hub' \in [LinkId -> Opt(ReplicaHubItem)]
       /\ residual' \in [Source -> [Handle -> Opt(ReplicaPlacement)]]
       /\ folded' \in [LinkId -> [by : Opt(Source), rival : Opt(Source)]]
       /\ StoreInv'
    BY <1>1, <1>2, <1>13, <1>14, WriteBackKeeps
<1>16. TypeOK'
    BY <1>1, <1>2, <1>13, <1>15 DEF TypeOK, remotes
<1>17. RunInv'
    BY <1>1 DEF RunInv
<1> QED BY <1>15, <1>16, <1>17 DEF HubInv

(* A step that moves nothing a row depends on. *)
LEMMA NothingMoves ==
    ASSUME NEW s \in Source, NEW h \in Handle,
           UNCHANGED <<hub, servers, used, removed>>
    PROVE  /\ ServerMoves(s, h)
           /\ \A link : (Mourned(s, h, link, removed) /\ servers'[s][h] = None) =>
                 link \in removed'
BY DEF ServerMoves, Mourned

(* The sync a load, an enumerate and a merge start. *)
LEMMA BeginRun ==
    ASSUME NEW s \in Source, BeginSync(s)
    PROVE  \E outs :
              /\ outs = [h \in {k \in Handle : OutcomeAt(s, k) # Nothing} |->
                           OutcomeAt(s, h)]
              /\ run' = [source   |-> s,
                         outs     |-> outs,
                         unserved |-> {h \in DOMAIN outs : outs[h].push # None},
                         results  |-> [h \in Handle |-> None]]
<1>1. PICK all \in {[h \in Handle |-> OutcomeAt(s, h)]} :
         LET outs == [h \in {k \in Handle : all[k] # Nothing} |-> all[h]]
         IN  run' = [source   |-> s,
                     outs     |-> outs,
                     unserved |-> {h \in DOMAIN outs : outs[h].push # None},
                     results  |-> [h \in Handle |-> None]]
    BY Zenon DEF BeginSync
<1> DEFINE outs == [h \in {k \in Handle : all[k] # Nothing} |-> all[h]]
<1>2. outs = [h \in {k \in Handle : OutcomeAt(s, k) # Nothing} |-> OutcomeAt(s, h)]
    OBVIOUS
<1>3. run' = [source   |-> s,
              outs     |-> outs,
              unserved |-> {h \in DOMAIN outs : outs[h].push # None},
              results  |-> [h \in Handle |-> None]]
    BY <1>1
<1> HIDE DEF outs
<1> QED BY <1>2, <1>3

LEMMA BeginStep ==
    ASSUME HubInv, NEW s \in Source, BeginSync(s)
    PROVE  HubInv'
<1>1. PICK outs :
         /\ outs = [h \in {k \in Handle : OutcomeAt(s, k) # Nothing} |->
                      OutcomeAt(s, h)]
         /\ run' = [source   |-> s,
                    outs     |-> outs,
                    unserved |-> {h \in DOMAIN outs : outs[h].push # None},
                    results  |-> [h \in Handle |-> None]]
    BY BeginRun
<1>2. TypeOK /\ StoreInv /\ UNCHANGED <<hub, residual, remotes, removed, folded, spent>>
    BY DEF HubInv, BeginSync
<1>3. \A h \in DOMAIN outs :
         /\ h \in Handle /\ outs[h] = OutcomeAt(s, h)
         /\ OutFits(s, h, outs[h])
         /\ h \in ServerHandle => h \in used[s]
    <2>1. ASSUME NEW h \in DOMAIN outs
          PROVE  /\ h \in Handle /\ outs[h] = OutcomeAt(s, h)
                 /\ OutcomeAt(s, h) # Nothing
        BY <1>1
    <2> QED BY <1>2, <2>1, OutcomeFits
<1>4. /\ run'.source = s /\ run'.outs = outs
      /\ run'.unserved = {h \in DOMAIN outs : outs[h].push # None}
      /\ run'.results = [h \in Handle |-> None]
    BY <1>1
<1>5. \A h \in DOMAIN outs : outs[h] \in Outcome
    BY <1>3 DEF OutFits, Sound
<1>6. TypeOK'
    BY <1>2, <1>4, <1>5 DEF TypeOK, remotes
<1>7. UNCHANGED <<hub, servers, used, removed, residual>>
    BY <1>2 DEF remotes
<1>8. StoreInv'
    <2>1. PICK h \in Handle : TRUE
        BY HubAssumption
    <2>2. ServersInv'
        BY <1>2, <1>7 DEF StoreInv, ServersInv
    <2> QED BY <1>2, <1>7, <2>1, <2>2, NothingMoves, ItemsStay
<1>9. ASSUME NEW h \in DOMAIN outs
      PROVE  OutFits(s, h, outs[h])' /\ (h \in ServerHandle => h \in used'[s])
    BY <1>3, <1>7, <1>9, NothingMoves, OutStays
<1>10. RunInv'
    <2> DEFINE Goal(r) ==
                  /\ r = [source |-> r.source, outs |-> r.outs,
                          unserved |-> r.unserved, results |-> r.results]
                  /\ DOMAIN r.outs \subseteq Handle
                  /\ \A h \in r.unserved : r.outs[h].push # None
    <2>1. Goal(run')
        BY <1>1, <1>3
    <2>2. \A h \in Handle : run'.results[h] = None
        BY <1>4
    <2>3. \A h \in DOMAIN run'.outs :
             /\ h \in ServerHandle => h \in used'[run'.source]
             /\ OutFits(run.source, h, run.outs[h])'
        BY <1>4, <1>9
    <2> QED BY <2>1, <2>2, <2>3 DEF RunInv, ResultFits, Assigned
<1> QED BY <1>6, <1>8, <1>10 DEF HubInv

(* What a server makes of one change: at most one member moves. *)
ServesTo(s, h, out, served, k, member) ==
    /\ served.result \in PushResult
    /\ served.members = [servers[s] EXCEPT ![k] = member]
    /\ \/ /\ k = h /\ member = servers[s][h] /\ served.result.assigned = None
       \/ /\ k = h /\ servers[s][h] # None /\ member # None
          /\ member.link = servers[s][h].link /\ served.result.assigned = None
       \/ /\ k = h /\ member = None /\ out.drop = TRUE
          /\ served.result.assigned = None
       \/ /\ k \in Free(s) /\ member # None /\ out.create # None
          /\ member.link = out.create.link_id
          /\ served.result.accepted = TRUE
          /\ served.result.assigned \in {None, k}

LEMMA ServeCases ==
    ASSUME TypeOK, NEW s \in Source, NEW h \in Handle, NEW out,
           OutFits(s, h, out), out.push # None
    PROVE  \E k \in Handle, member \in Opt(ServerItem) :
              ServesTo(s, h, out, Serve(s, h, out.push), k, member)
<1> DEFINE change == out.push
           held == servers[s][h]
           rev == clock + 1
           stale == held # None /\ held.rev # change.if_match
           refused == [members |-> servers[s],
                       result |-> [accepted |-> FALSE, assigned |-> None,
                                   revision |-> None]]
           served == Serve(s, h, change)
<1>1. /\ held \in Opt(ServerItem) /\ rev \in Nat
      /\ servers[s] \in [Handle -> Opt(ServerItem)]
    BY DEF TypeOK
<1>2. /\ Sound(out) /\ change \in ReplicaChange
      /\ change.kind \in {"SetFlags", "Update", "Remove", "Add"}
    BY DEF OutFits, Sound, Outcome, ReplicaChange
<1>3. /\ out.drop = TRUE <=> change.kind = "Remove"
      /\ out.create # None <=> change.kind = "Add"
    BY <1>2 DEF Sound, Agrees
<1>4. None \notin ServerItem
    BY HubAssumption
<1>5. /\ [servers[s] EXCEPT ![h] = held] = servers[s]
      /\ \A a \in Opt(Handle), r \in Opt(Revision), ok \in BOOLEAN :
            [accepted |-> ok, assigned |-> a, revision |-> r] \in PushResult
    BY <1>1 DEF PushResult
<1>6. ServesTo(s, h, out, refused, h, held)
    BY <1>5 DEF ServesTo
<1>7. CASE change.kind = "SetFlags"
    <2> DEFINE member == [held EXCEPT !.flags = change.flags]
               ok(m) == [members |-> m,
                         result |-> [accepted |-> TRUE, assigned |-> None,
                                     revision |-> None]]
    <2>1. served = ok(IF held = None THEN servers[s]
                      ELSE [servers[s] EXCEPT ![h].flags = change.flags])
        BY <1>7 DEF Serve
    <2>2. CASE held = None
        <3>1. ServesTo(s, h, out, ok(servers[s]), h, held)
            BY <1>5 DEF ServesTo
        <3> QED BY <1>1, <2>1, <2>2, <3>1
    <2>3. CASE held # None
        <3>1. change.flags \in ReplicaFlags
            BY <1>2, <1>7 DEF ReplicaChange
        <3>2. member \in ServerItem /\ member.link = held.link
            BY <1>1, <2>3, <3>1 DEF ServerItem
        <3>3. [servers[s] EXCEPT ![h].flags = change.flags]
                 = [servers[s] EXCEPT ![h] = member]
            BY <1>1
        <3> HIDE DEF member
        <3>4. ServesTo(s, h, out, ok([servers[s] EXCEPT ![h] = member]), h, member)
            BY <1>4, <1>5, <2>3, <3>2 DEF ServesTo
        <3> QED BY <2>1, <2>3, <3>2, <3>3, <3>4
    <2> QED BY <2>2, <2>3
<1>8. CASE change.kind = "Remove"
    <2> DEFINE gone == [members |-> [servers[s] EXCEPT ![h] = None],
                        result |-> [accepted |-> TRUE, assigned |-> None,
                                    revision |-> None]]
    <2>1. served \in {refused, gone}
        BY <1>8 DEF Serve
    <2>2. ServesTo(s, h, out, gone, h, None)
        BY <1>3, <1>5, <1>8 DEF ServesTo
    <2> HIDE DEF gone, refused, served
    <2> QED BY <1>1, <1>6, <2>1, <2>2 DEF served
<1>9. CASE change.kind = "Update"
    <2> DEFINE member == [held EXCEPT !.body = change.object, !.rev = rev]
               taken == [members |-> [servers[s] EXCEPT ![h] = member],
                         result |-> [accepted |-> TRUE, assigned |-> None,
                                     revision |-> rev]]
    <2>1. served = IF held = None \/ stale THEN refused
                   ELSE [members |-> [servers[s] EXCEPT ![h].body = change.object,
                                                        ![h].rev  = rev],
                         result |-> [accepted |-> TRUE, assigned |-> None,
                                     revision |-> rev]]
        BY <1>9 DEF Serve
    <2>2. CASE held = None \/ stale
        BY <1>1, <1>6, <2>1, <2>2
    <2>3. CASE ~(held = None \/ stale)
        <3>1. change.object \in Body
            BY <1>2, <1>9 DEF ReplicaChange
        <3>2. member \in ServerItem /\ member.link = held.link
            BY <1>1, <2>3, <3>1 DEF ServerItem
        <3>3. [servers[s] EXCEPT ![h].body = change.object, ![h].rev = rev]
                 = [servers[s] EXCEPT ![h] = member]
            BY <1>1
        <3>4. served = taken
            BY <2>1, <2>3, <3>3
        <3> HIDE DEF member, served
        <3>5. ServesTo(s, h, out, taken, h, member)
            BY <1>1, <1>4, <1>5, <2>3, <3>2 DEF ServesTo
        <3> QED BY <3>2, <3>4, <3>5 DEF served
    <2> QED BY <2>2, <2>3
<1>10. CASE change.kind = "Add"
    <2> DEFINE new == Least(Free(s))
               member == [link |-> change.link_id, flags |-> change.flags,
                          body |-> change.object, rev |-> rev]
               taken == [members |-> [servers[s] EXCEPT ![new] = member],
                         result |-> [accepted |-> TRUE,
                                     assigned |-> IF Uidplus[s] THEN new ELSE None,
                                     revision |-> rev]]
    <2>1. served = IF Free(s) = {} THEN refused ELSE taken
        BY <1>10 DEF Serve
    <2>2. CASE Free(s) = {}
        BY <1>1, <1>6, <2>1, <2>2
    <2>3. CASE Free(s) # {}
        <3>1. Free(s) \subseteq Handle /\ Free(s) \in SUBSET Nat
            BY HubAssumption DEF Free
        <3>2. new \in Free(s) /\ new \in Handle
            BY <2>3, <3>1, LeastNat
        <3> HIDE DEF new
        <3>3. /\ out.create # None /\ change = Add(out.create)
              /\ out.create.link_id # None /\ out.create.object # None
            BY <1>3, <1>10 DEF OutFits
        <3>4. out.create \in ReplicaPlacement
            BY <1>2, <3>3 DEF Sound, Outcome
        <3>5. /\ change.link_id = out.create.link_id /\ change.link_id \in LinkId
              /\ change.flags \in ReplicaFlags /\ change.object \in Body
            BY <3>3, <3>4 DEF Add, ReplicaPlacement
        <3>6. member \in ServerItem /\ member.link = out.create.link_id
            BY <1>1, <3>5 DEF ServerItem
        <3> HIDE DEF member
        <3>7. ServesTo(s, h, out, taken, new, member)
            BY <1>1, <1>4, <1>5, <3>2, <3>3, <3>6 DEF ServesTo
        <3> QED BY <2>1, <2>3, <3>2, <3>6, <3>7
    <2> QED BY <2>2, <2>3
<1> QED BY <1>2, <1>7, <1>8, <1>9, <1>10

LEMMA ServeStep ==
    ASSUME HubInv, HubServe
    PROVE  HubInv'
<1>1. TypeOK /\ StoreInv /\ RunInv /\ run # None /\ run.unserved # {}
    BY DEF HubInv, HubServe
<1>2. PICK s, outs : s = run.source /\ outs = run.outs
    OBVIOUS
<1>3. PICK h : h = Least(run.unserved)
    OBVIOUS
<1>4. /\ s \in Source /\ run.unserved \subseteq DOMAIN outs
      /\ DOMAIN outs \subseteq Handle
    BY <1>1, <1>2 DEF TypeOK, RunInv
<1>5. h \in run.unserved /\ h \in DOMAIN outs /\ h \in Handle
    <2>1. run.unserved \in SUBSET Nat
        BY <1>4, HubAssumption
    <2> QED BY <1>1, <1>3, <1>4, <2>1, LeastNat
<1>6. PICK out : out = outs[h]
    OBVIOUS
<1>7. /\ OutFits(s, h, out) /\ out.push # None
    BY <1>1, <1>2, <1>5, <1>6 DEF RunInv
<1>8. PICK served : served = Serve(s, h, out.push)
    OBVIOUS
<1>9. PICK k \in Handle, member \in Opt(ServerItem) :
         ServesTo(s, h, out, served, k, member)
    BY <1>1, <1>4, <1>5, <1>7, <1>8, ServeCases
<1>10. /\ servers' = [servers EXCEPT ![s] = served.members]
       /\ used' = [used EXCEPT ![s] = @ \cup Members(served.members)]
       /\ clock' = IF served.result.revision = None THEN clock
                   ELSE served.result.revision
       /\ landed' = landed \cup Bodies(served.members)
       /\ run' = [run EXCEPT !.unserved = @ \ {h}, !.results[h] = served.result]
       /\ UNCHANGED <<hub, residual, removed, folded, spent>>
    BY <1>2, <1>3, <1>6, <1>8 DEF HubServe
<1>11. /\ servers \in [Source -> [Handle -> Opt(ServerItem)]]
       /\ used \in [Source -> SUBSET ServerHandle]
       /\ run.results \in [Handle -> Opt(PushResult)]
    BY <1>1 DEF TypeOK
<1>12. /\ served.result \in PushResult /\ served.result # None
       /\ served.members = [servers[s] EXCEPT ![k] = member]
    BY <1>9, HubAssumption DEF ServesTo
<1>13. /\ servers'[s] = served.members /\ served.members[k] = member
       /\ \A j \in Handle : j # k => served.members[j] = servers[s][j]
       /\ \A t \in Source : t # s => servers'[t] = servers[t] /\ used'[t] = used[t]
       /\ used'[s] = used[s] \cup Members(served.members)
       /\ served.members \in [Handle -> Opt(ServerItem)]
    <2>1. served.members \in [Handle -> Opt(ServerItem)]
        BY <1>4, <1>11, <1>12
    <2>2. /\ served.members[k] = member
          /\ \A j \in Handle : j # k => served.members[j] = servers[s][j]
        BY <1>4, <1>11, <1>12
    <2>3. PICK m : m = served.members
        OBVIOUS
    <2>4. PICK n : n = Members(served.members)
        OBVIOUS
    <2>5. /\ servers'[s] = m
          /\ \A t \in Source : t # s => servers'[t] = servers[t]
        BY <1>4, <1>10, <1>11, <2>3
    <2>6. /\ used'[s] = used[s] \cup n
          /\ \A t \in Source : t # s => used'[t] = used[t]
        BY <1>4, <1>10, <1>11, <2>4
    <2> QED BY <2>1, <2>2, <2>3, <2>4, <2>5, <2>6
<1>14. /\ k = h \/ (k \in ServerHandle /\ k \notin used[s] /\ member # None)
       /\ (k = h /\ member # None) => servers[s][k] # None
       /\ (k = h /\ member # None) => member.link = servers[s][k].link
       /\ (member = None /\ servers[s][k] # None) => k = h /\ out.drop = TRUE
       /\ served.result.assigned # None =>
             /\ served.result.assigned = k /\ k \in ServerHandle /\ k \notin used[s]
             /\ out.create # None /\ member # None
             /\ member.link = out.create.link_id /\ served.result.accepted = TRUE
    <2>1. h \in ServerHandle => h \in used[s]
        BY <1>1, <1>2, <1>5 DEF RunInv
    <2> QED BY <1>5, <1>9, <2>1 DEF ServesTo, Free
<1>15. servers[s][k] # None => k \in used[s]
    BY <1>1, <1>4, <1>9 DEF StoreInv, ServersInv
<1>16. ServerMoves(s, k)
    <2>1. \/ servers'[s][k] = None
          \/ /\ servers[s][k] # None /\ servers'[s][k] # None
             /\ servers'[s][k].link = servers[s][k].link
          \/ servers[s][k] = None /\ k \in ServerHandle /\ k \notin used[s]
        BY <1>13, <1>14, <1>15
    <2>2. \A t \in Source : used[t] \subseteq used'[t]
        BY <1>13
    <2>3. \A t \in Source, j \in Handle :
             (t # s \/ j # k) => servers'[t][j] = servers[t][j]
        BY <1>13
    <2> QED BY <2>1, <2>2, <2>3 DEF ServerMoves
<1>17. Members(served.members) \subseteq ServerHandle
    <2> SUFFICES ASSUME NEW j \in Handle, served.members[j] # None
                 PROVE  j \in ServerHandle
        BY DEF Members
    <2>1. servers[s][j] # None => j \in used[s]
        BY <1>1, <1>4 DEF StoreInv, ServersInv
    <2> QED BY <1>4, <1>11, <1>13, <1>14, <2>1
<1>18. Bodies(served.members) \subseteq Body
    BY <1>13 DEF Bodies, ServerItem
<1>19. ServersInv'
    BY <1>1, <1>13 DEF StoreInv, ServersInv, Members
<1>20. StoreInv'
    <2>1. \A link \in BoundAt(hub, s, k) :
             (Mourned(s, k, link, removed) /\ servers'[s][k] = None) => link \in removed'
        <3> SUFFICES ASSUME NEW link \in BoundAt(hub, s, k),
                            Mourned(s, k, link, removed), servers'[s][k] = None
                     PROVE  link \in removed
            BY <1>10
        <3>1. CASE servers[s][k] = None
            BY <3>1 DEF Mourned
        <3>2. CASE servers[s][k] # None
            BY <1>7, <1>13, <1>14, <3>2 DEF OutFits
        <3> QED BY <3>1, <3>2
    <2> QED BY <1>1, <1>10, <1>16, <1>19, <2>1, ItemsStay
<1>21. ASSUME NEW j \in DOMAIN outs
       PROVE  OutFits(s, j, outs[j])' /\ (j \in ServerHandle => j \in used'[s])
    <2>1. OutFits(s, j, outs[j]) /\ (j \in ServerHandle => j \in used[s])
        BY <1>1, <1>2 DEF RunInv
    <2>2. \/ \A link : (/\ j = k /\ servers'[s][j] = None
                        /\ Mourned(s, j, link, removed)) => link \in removed'
          \/ outs[j].drop /\ outs[j].flag = None /\ outs[j].content = None
        <3>1. CASE j = k /\ member = None /\ servers[s][k] # None
            <4>1. j = h /\ out.drop = TRUE
                BY <1>14, <3>1
            <4>2. Sound(out)
                BY <1>7 DEF OutFits
            <4>3. out.flag = None /\ out.content = None
                BY <4>1, <4>2 DEF Sound, Agrees
            <4> QED BY <1>6, <4>1, <4>3
        <3>2. CASE ~(j = k /\ member = None /\ servers[s][k] # None)
            BY <1>10, <1>13, <3>2 DEF Mourned
        <3> QED BY <3>1, <3>2
    <2>3. j \in Handle
        BY <1>4
    <2>4. OutFits(s, j, outs[j])'
        BY <1>4, <1>10, <1>16, <2>1, <2>2, <2>3, OutStays
    <2> QED BY <1>13, <2>1, <2>4
<1>22. /\ run'.source = s /\ run'.outs = outs
       /\ run'.unserved = run.unserved \ {h}
       /\ run'.results = [run.results EXCEPT ![h] = served.result]
       /\ run' = [source |-> run'.source, outs |-> run'.outs,
                  unserved |-> run'.unserved, results |-> run'.results]
    <2>1. run = [source |-> s, outs |-> outs, unserved |-> run.unserved,
                 results |-> run.results]
        BY <1>1, <1>2 DEF RunInv
    <2>2. PICK u, r : u = run.unserved /\ r = run.results
        OBVIOUS
    <2>3. run = [source |-> s, outs |-> outs, unserved |-> u, results |-> r]
        BY <2>1, <2>2
    <2>4. run' = [source |-> s, outs |-> outs, unserved |-> u \ {h},
                  results |-> [r EXCEPT ![h] = served.result]]
        BY <1>10, <2>3
    <2> QED BY <2>2, <2>4
<1>23. /\ run'.results[h] = served.result
       /\ \A j \in Handle : j # h => run'.results[j] = run.results[j]
       /\ run'.results \in [Handle -> Opt(PushResult)]
    BY <1>5, <1>11, <1>12, <1>22
<1>24. TypeOK'
    <2>1. servers' \in [Source -> [Handle -> Opt(ServerItem)]]
        BY <1>10, <1>11, <1>13
    <2>2. used' \in [Source -> SUBSET ServerHandle]
        BY <1>10, <1>11, <1>17
    <2>3. clock' \in Nat
        <3>1. served.result.revision \in Opt(Nat)
            BY <1>12 DEF PushResult, Revision
        <3> QED BY <1>1, <1>10, <3>1 DEF TypeOK
    <2>4. landed' \subseteq Body
        BY <1>1, <1>10, <1>18 DEF TypeOK
    <2>5. \A j \in DOMAIN run'.outs : run'.outs[j] \in Outcome
        BY <1>1, <1>2, <1>22 DEF TypeOK
    <2>6. run'.source \in Source /\ run'.unserved \subseteq DOMAIN run'.outs
        BY <1>4, <1>22
    <2> QED BY <1>1, <1>10, <1>23, <2>1, <2>2, <2>3, <2>4, <2>5, <2>6 DEF TypeOK
(* A handle assigned now was nobody's. *)
<1>25. ASSUME served.result.assigned # None
       PROVE  /\ k \in ServerHandle /\ k \notin used[s] /\ k \notin DOMAIN outs
              /\ served.result.assigned = k /\ served.result.accepted = TRUE
              /\ out.create # None
              /\ BoundAt(hub, s, k) = {}
              /\ Mourned(s, k, out.create.link_id, removed)'
    <2>1. /\ k \in ServerHandle /\ k \notin used[s]
          /\ member # None /\ member.link = out.create.link_id
          /\ served.result.assigned = k /\ served.result.accepted = TRUE
          /\ out.create # None
        BY <1>14, <1>25
    <2>2. k \notin DOMAIN outs
        BY <1>1, <1>2, <2>1 DEF RunInv
    <2>3. BoundAt(hub, s, k) = {}
        <3> SUFFICES ASSUME NEW link \in BoundAt(hub, s, k) PROVE FALSE
            OBVIOUS
        <3>1. ItemFits(link, hub[link], removed)
            BY <1>1 DEF StoreInv, ItemsInv, BoundAt
        <3>2. Named(s, k, link)
            BY <1>4, <3>1 DEF ItemFits, BoundAt
        <3> QED BY <2>1, <3>2 DEF Named
    <2>4. k \in used'[s]
        BY <1>13, <2>1 DEF Members
    <2>5. servers'[s][k] = member
        BY <1>13
    <2>6. Mourned(s, k, out.create.link_id, removed)'
        BY <2>1, <2>4, <2>5 DEF Mourned, Named, Names
    <2> QED BY <2>1, <2>2, <2>3, <2>6
<1>26. ASSUME NEW j \in Handle
       PROVE  ResultFits(s, j)'
    <2>1. CASE j = h
        <3>1. /\ run'.results[j] = served.result /\ run'.outs = outs
              /\ j \in DOMAIN run'.outs /\ j \notin run'.unserved
              /\ run'.outs[j].push # None
            BY <1>5, <1>6, <1>7, <1>22, <1>23, <2>1
        <3>2. run'.outs[j].create = out.create /\ hub' = hub
            BY <1>6, <1>10, <1>22, <2>1
        <3>3. PICK r, link : r = served.result /\ link = out.create.link_id
            OBVIOUS
        <3>4. r.assigned # None =>
                 /\ r.accepted = TRUE /\ out.create # None
                 /\ r.assigned \in ServerHandle /\ r.assigned \notin DOMAIN outs
                 /\ BoundAt(hub, s, r.assigned)' = {}
                 /\ Mourned(s, r.assigned, link, removed)'
            BY <1>10, <1>25, <3>3 DEF BoundAt
        <3> QED BY <3>1, <3>2, <3>3, <3>4 DEF ResultFits
    <2>2. CASE j # h /\ run.results[j] # None
        <3>1. run'.results[j] = run.results[j] /\ run'.outs[j] = outs[j] /\ hub' = hub
            BY <1>10, <1>22, <1>23, <2>2
        <3>2. ResultFits(s, j)
            BY <1>1, <1>2 DEF RunInv
        <3>3. /\ j \in DOMAIN outs /\ j \notin run'.unserved /\ outs[j].push # None
            BY <1>2, <1>22, <2>2, <3>2 DEF ResultFits
        <3>4. PICK a, link : a = run.results[j].assigned /\ link = outs[j].create.link_id
            OBVIOUS
        <3>5. ASSUME a # None
              PROVE  /\ run.results[j].accepted = TRUE /\ outs[j].create # None
                     /\ a \in ServerHandle /\ a \notin DOMAIN outs
                     /\ BoundAt(hub, s, a) = {}
                     /\ Mourned(s, a, link, removed)'
            <4>1. /\ run.results[j].accepted = TRUE /\ outs[j].create # None
                  /\ a \in ServerHandle /\ a \notin DOMAIN outs
                  /\ BoundAt(hub, s, a) = {}
                  /\ Mourned(s, a, link, removed)
                BY <1>2, <2>2, <3>2, <3>4, <3>5 DEF ResultFits
            <4>2. a \in Handle
                BY <4>1, HubAssumption
            <4>3. ~(a = k /\ servers'[s][a] = None)
                BY <1>5, <1>13, <1>14, <4>1
            <4>4. Mourned(s, a, link, removed)'
                BY <1>4, <1>10, <1>16, <4>1, <4>2, <4>3, MournedStays
            <4> QED BY <4>1, <4>4
        <3> QED BY <1>22, <3>1, <3>3, <3>4, <3>5 DEF ResultFits, BoundAt
    <2>3. CASE j # h /\ run.results[j] = None
        BY <1>23, <2>3 DEF ResultFits
    <2> QED BY <2>1, <2>2, <2>3
(* What was assigned earlier is used. *)
<1>27. ASSUME NEW i \in Handle, NEW j \in Handle, i # j, Assigned(i)', Assigned(j)'
       PROVE  run'.results[i].assigned # run'.results[j].assigned
    <2>1. ASSUME NEW l \in Handle, l # h, Assigned(l)'
          PROVE  /\ Assigned(l) /\ run'.results[l] = run.results[l]
                 /\ run.results[l].assigned \in used[s]
        <3>1. run'.results[l] = run.results[l]
            BY <1>23, <2>1
        <3>2. Assigned(l)
            BY <2>1, <3>1 DEF Assigned
        <3>3. ResultFits(s, l)
            BY <1>1, <1>2 DEF RunInv
        <3> QED BY <3>1, <3>2, <3>3 DEF Assigned, ResultFits, Mourned, Named
    <2>2. Assigned(h)' => run'.results[h].assigned \notin used[s]
        BY <1>23, <1>25 DEF Assigned
    <2>3. CASE i # h /\ j # h
        BY <1>1, <1>27, <2>1, <2>3 DEF RunInv
    <2>4. CASE i = h
        BY <1>27, <2>1, <2>2, <2>4
    <2>5. CASE j = h
        BY <1>27, <2>1, <2>2, <2>5
    <2> QED BY <2>3, <2>4, <2>5
<1>28. RunInv'
    <2>1. /\ run' = [source |-> run'.source, outs |-> run'.outs,
                     unserved |-> run'.unserved, results |-> run'.results]
          /\ DOMAIN run'.outs \subseteq Handle
        BY <1>4, <1>22
    <2>2. \A j \in DOMAIN run'.outs :
             /\ j \in ServerHandle => j \in used'[run'.source]
             /\ OutFits(run.source, j, run.outs[j])'
        BY <1>21, <1>22
    <2>3. \A j \in run'.unserved : run'.outs[j].push # None
        BY <1>1, <1>2, <1>22 DEF RunInv
    <2>4. \A j \in Handle : ResultFits(run.source, j)'
        BY <1>22, <1>26
    <2>5. \A i, j \in Handle :
             (i # j /\ Assigned(i)' /\ Assigned(j)') =>
                run'.results[i].assigned # run'.results[j].assigned
        BY <1>27
    <2> QED BY <2>1, <2>2, <2>3, <2>4, <2>5 DEF RunInv
<1> QED BY <1>20, <1>24, <1>28 DEF HubInv

LEMMA CrashStep ==
    ASSUME HubInv, HubCrash
    PROVE  HubInv'
<1>1. /\ TypeOK /\ StoreInv /\ run' = None
      /\ UNCHANGED <<hub, residual, servers, used, clock, landed, removed, folded>>
    BY DEF HubInv, HubCrash, remotes
<1>2. TypeOK'
    BY <1>1 DEF TypeOK
<1>3. StoreInv'
    <2>1. PICK s \in Source, h \in Handle : TRUE
        BY HubAssumption
    <2>2. ServersInv'
        BY <1>1 DEF StoreInv, ServersInv
    <2> QED BY <1>1, <2>1, <2>2, NothingMoves, ItemsStay
<1>4. RunInv'
    BY <1>1 DEF RunInv
<1> QED BY <1>2, <1>3, <1>4 DEF HubInv

(* A write with no sync under way. *)
LEMMA IdleWrite ==
    ASSUME HubInv, NEW s \in Source, NEW st, Kept(st, s, removed'), WriteBack(s, st),
           UNCHANGED remotes, run = None, run' = None,
           removed \subseteq removed', removed' \subseteq LinkId
    PROVE  HubInv'
<1>1. TypeOK /\ StoreInv
    BY DEF HubInv
<1>2. /\ hub' \in [LinkId -> Opt(ReplicaHubItem)]
      /\ residual' \in [Source -> [Handle -> Opt(ReplicaPlacement)]]
      /\ folded' \in [LinkId -> [by : Opt(Source), rival : Opt(Source)]]
      /\ StoreInv'
    BY <1>1, WriteBackKeeps
<1>3. TypeOK'
    BY <1>1, <1>2 DEF TypeOK, remotes
<1>4. RunInv'
    BY DEF RunInv
<1> QED BY <1>2, <1>3, <1>4 DEF HubInv

(* What an upgrade makes of a row. *)
LEMMA HydratedShape ==
    ASSUME NEW p \in ReplicaPlacement, NEW item \in ReplicaFetchedItem
    PROVE  LET q == Hydrated(p, item, "Full")
           IN  /\ q \in ReplicaPlacement
               /\ q.link_id = p.link_id /\ q.status = p.status
               /\ q.base = None <=> p.base = None
<1>1. /\ "summary" \in Opt(ReplicaMeta) /\ "Full" \in ReplicaLevel
      /\ item.body \in Opt(Body) /\ item.revision \in Opt(Nat)
    BY DEF ReplicaMeta, ReplicaLevel, ReplicaFetchedItem, Revision
<1>2. PICK base :
         base = IF p.base = None THEN None
                ELSE [p.base EXCEPT !.revision = item.revision, !.object = item.body]
    OBVIOUS
<1>3. base \in Opt(ReplicaBase) /\ (base = None <=> p.base = None)
    <2>1. CASE p.base = None
        BY <1>2, <2>1
    <2>2. CASE p.base # None
        <3>1. base \in ReplicaBase
            BY <1>1, <1>2, <2>2 DEF ReplicaPlacement, ReplicaBase, Revision
        <3> QED BY <2>2, <3>1, SentinelAssumption
    <2> QED BY <2>1, <2>2
<1>4. CASE IsConflicted(p)
    <2>1. Hydrated(p, item, "Full") = [p EXCEPT !.conflict_object = item.body]
        BY <1>4 DEF Hydrated
    <2> QED BY <1>1, <2>1 DEF ReplicaPlacement
<1>5. CASE ~IsConflicted(p)
    <2>1. Hydrated(p, item, "Full")
             = [p EXCEPT !.meta = "summary", !.object = item.body,
                         !.level = "Full", !.base = base]
        BY <1>2, <1>5 DEF Hydrated
    <2> QED BY <1>1, <1>3, <2>1 DEF ReplicaPlacement
<1> QED BY <1>4, <1>5

LEMMA IdentifyShape ==
    ASSUME TypeOK, NEW p \in ReplicaPlacement, NEW s \in Source, NEW h \in Handle,
           servers[s][h] # None, NEW item \in ReplicaFetchedItem,
           item.link_id = servers[s][h].link, NEW claimed
    PROVE  LET q == Identify(p, item, h, claimed)
           IN  /\ q \in ReplicaPlacement
               /\ q.base = p.base /\ q.status = p.status
               /\ q.link_id = p.link_id
                     \/ (p.link_id = None /\ q.link_id \in Names(s, h))
<1>1. CASE p.link_id # None
    BY <1>1 DEF Identify
<1>2. CASE p.link_id = None
    <2> DEFINE link == IF item.link_id \in claimed THEN MintLink(item.link_id, h)
                       ELSE item.link_id
    <2>1. link \in LinkId
        BY HubAssumption DEF ReplicaFetchedItem, MintLink
    <2>2. link \in Names(s, h)
        BY DEF Names, MintLink
    <2>3. Identify(p, item, h, claimed) = [p EXCEPT !.link_id = link]
        BY <1>2 DEF Identify
    <2> HIDE DEF link
    <2> QED BY <1>2, <2>1, <2>2, <2>3 DEF ReplicaPlacement
<1> QED BY <1>1, <1>2

LEMMA UpgradedFits ==
    ASSUME TypeOK, StoreInv, NEW s \in Source,
           NEW h \in DOMAIN UpgradedRows(Loaded(s), servers[s])
    PROVE  LET q == UpgradedRows(Loaded(s), servers[s])[h]
           IN  /\ h \in Handle /\ q \in ReplicaPlacement /\ q.link_id # None
               /\ RowFits(hub, s, h, q, removed)
               /\ q.status = "Tombstone" =>
                     LET p == Loaded(s)[h]
                     IN  /\ p # None /\ p.status = "Tombstone"
                         /\ p.link_id = q.link_id
<1>1. PICK local, members : local = Loaded(s) /\ members = servers[s]
    OBVIOUS
<1>2. DOMAIN local = Handle
    BY <1>1 DEF Loaded
<1> DEFINE claimed == {local[k].link_id : k \in {j \in Handle : local[j] # None}}
           fetched == {k \in PendingHandles(local, Handle, "Full") :
                          members[k] # None}
           item(k) == [link_id  |-> members[k].link,
                       body     |-> members[k].body,
                       revision |-> members[k].rev]
           taken(k) == claimed \cup {members[i].link : i \in {j \in fetched : j < k}}
           row(k) == IF IsConflicted(local[k]) THEN local[k]
                     ELSE Identify(local[k], item(k), k, taken(k))
<1>3. UpgradedRows(local, members) = [k \in fetched |-> Hydrated(row(k), item(k), "Full")]
    BY <1>2 DEF UpgradedRows
<1>4. h \in fetched /\ UpgradedRows(local, members)[h] = Hydrated(row(h), item(h), "Full")
    BY <1>1, <1>3
<1>5. h \in Handle /\ local[h] # None /\ members[h] # None
    BY <1>4 DEF PendingHandles
<1>6. PICK p : p = local[h]
    OBVIOUS
<1>7. p \in ReplicaPlacement /\ LoadedFits(s, h, p)
    BY <1>1, <1>5, <1>6, LoadFits
<1>8. members[h] \in ServerItem /\ servers[s][h] = members[h] /\ servers[s][h] # None
    BY <1>1, <1>5 DEF TypeOK
<1>9. PICK it, T : it = item(h) /\ T = taken(h)
    OBVIOUS
<1>10. it \in ReplicaFetchedItem /\ it.link_id = servers[s][h].link
    BY <1>8, <1>9 DEF ServerItem, ReplicaFetchedItem, Revision
<1>11. PICK r : r = row(h)
    OBVIOUS
<1> HIDE DEF fetched, claimed
<1>12. r = IF IsConflicted(p) THEN p ELSE Identify(p, it, h, T)
    BY <1>6, <1>9, <1>11
<1>13. /\ r \in ReplicaPlacement /\ r.base = p.base /\ r.status = p.status
       /\ r.link_id = p.link_id \/ (p.link_id = None /\ r.link_id \in Names(s, h))
    BY <1>5, <1>7, <1>8, <1>10, <1>12, IdentifyShape
<1>14. r.link_id # None
    <2>1. CASE p.link_id # None
        BY <1>13, <2>1
    <2>2. CASE p.link_id = None
        <3>1. Loose(p)
            BY <1>7, <2>2 DEF LoadedFits, RowFits
        <3>2. ~IsConflicted(p)
            BY <3>1 DEF Loose, IsConflicted
        <3>3. r = Identify(p, it, h, T)
            BY <1>12, <3>2
        <3>4. it.link_id \in LinkId /\ MintLink(it.link_id, h) \in LinkId
            BY <1>5, <1>10, HubAssumption DEF ReplicaFetchedItem, MintLink
        <3>5. r.link_id \in LinkId
            BY <1>7, <2>2, <3>3, <3>4 DEF Identify, ReplicaPlacement
        <3> QED BY <3>5, SentinelAssumption
    <2> QED BY <2>1, <2>2
<1>15. RowFits(hub, s, h, r, removed)
    <2>1. CASE p.link_id # None
        BY <1>7, <1>13, <2>1 DEF LoadedFits, RowFits
    <2>2. CASE p.link_id = None
        <3>1. Loose(p) /\ h \in used[s] /\ BoundAt(hub, s, h) = {}
            BY <1>7, <2>2 DEF LoadedFits, RowFits
        <3>2. Mourned(s, h, r.link_id, removed)
            BY <1>8, <1>13, <1>14, <2>2, <3>1 DEF Mourned, Named
        <3> QED BY <1>13, <1>14, <3>1, <3>2 DEF RowFits, Mourned, Loose
    <2> QED BY <2>1, <2>2
<1>16. PICK q : q = Hydrated(r, it, "Full")
    OBVIOUS
<1>17. /\ q \in ReplicaPlacement /\ q.link_id = r.link_id /\ q.status = r.status
       /\ q.base = None <=> r.base = None
    BY <1>10, <1>13, <1>16, HydratedShape
<1>18. RowFits(hub, s, h, q, removed)
    BY <1>14, <1>15, <1>17 DEF RowFits
<1>19. UpgradedRows(local, members)[h] = q
    BY <1>4, <1>9, <1>11, <1>16
<1>20. q.status = "Tombstone" =>
          p # None /\ p.status = "Tombstone" /\ p.link_id = q.link_id
    <2>1. p.link_id = None => p.status = "Clean"
        BY <1>7 DEF LoadedFits, RowFits, Loose
    <2> QED BY <1>5, <1>6, <1>13, <1>17, <2>1
<1> QED BY <1>1, <1>5, <1>6, <1>14, <1>17, <1>18, <1>19, <1>20

LEMMA UpgradeStep ==
    ASSUME HubInv, NEW s \in Source, HubUpgrade(s)
    PROVE  HubInv'
<1>1. TypeOK /\ StoreInv
    BY DEF HubInv
<1>2. PICK rows :
         /\ rows = UpgradedRows(Loaded(s), servers[s])
         /\ WriteBack(s, AbsorbBatch(Store(s), s, [h \in DOMAIN rows |->
                                                      Upsert(rows[h])]))
    BY Zenon DEF HubUpgrade
<1>3. run = None /\ run' = None /\ removed' = removed /\ UNCHANGED remotes
    BY DEF HubUpgrade
<1> DEFINE batch == [h \in DOMAIN rows |-> Upsert(rows[h])]
           st == AbsorbBatch(Store(s), s, batch)
<1>4. \A h \in DOMAIN rows :
         /\ h \in Handle /\ rows[h] \in ReplicaPlacement /\ rows[h].link_id # None
         /\ RowFits(hub, s, h, rows[h], removed)
    BY <1>1, <1>2, UpgradedFits
<1>5. ASSUME NEW h \in DOMAIN rows
      PROVE  /\ KeyBack(s, h, batch[h]) \in Op
             /\ OpFits(hub, s, h, KeyBack(s, h, batch[h]), removed)
    <2>1. PICK op : op = Upsert(rows[h])
        OBVIOUS
    <2>2. op \in ReplicaWriteOp /\ op.op = "UpsertPlacement" /\ op.row = rows[h]
        BY <1>4, <2>1 DEF Upsert, ReplicaWriteOp
    <2>3. h \in Handle /\ op.row.link_id # None /\ RowFits(hub, s, h, op.row, removed)
        BY <1>4, <2>2
    <2>4. KeyBack(s, h, op) \in Op /\ OpFits(hub, s, h, KeyBack(s, h, op), removed)
        BY <1>1, <2>2, <2>3, UpsertFits
    <2> QED BY <2>1, <2>4
<1>6. DOMAIN batch = DOMAIN rows /\ DOMAIN batch \subseteq Handle
    BY <1>4
<1> HIDE DEF batch
<1>7. Kept(st, s, removed)
    BY <1>1, <1>5, <1>6, AbsorbBatchKeeps
<1>8. WriteBack(s, st)
    BY <1>2 DEF batch
<1> HIDE DEF st
<1>9. Kept(st, s, removed') /\ removed' \subseteq LinkId
    BY <1>1, <1>3, <1>7 DEF TypeOK
<1> QED BY <1>3, <1>8, <1>9, IdleWrite

(* A mutation of a row that fits the store.                                *)
LEMMA MutateStep ==
    ASSUME HubInv, NEW s \in Source, NEW h \in Handle, NEW p \in ReplicaPlacement,
           run = None, Mutate(s, h, p), p.link_id # None,
           RowFits(hub, s, h, p, removed'),
           removed \subseteq removed', removed' \subseteq LinkId
    PROVE  HubInv'
<1> DEFINE st == AbsorbOp(Store(s), s, h, Upsert(p))
<1>1. PICK gone : gone = removed'
    OBVIOUS
<1>2. /\ WriteBack(s, st) /\ UNCHANGED remotes /\ run' = None
    BY DEF Mutate
<1>3. TypeOK /\ StoreInv
    BY DEF HubInv
<1>4. Kept(Store(s), s, removed) /\ Store(s).items = hub
    BY <1>3, StoreKept DEF Store
<1>5. ItemsInv(hub, gone)
    <2> SUFFICES ASSUME NEW link \in LinkId PROVE ItemFits(link, hub[link], gone)
        BY DEF ItemsInv
    <2>1. ItemFits(link, hub[link], removed)
        BY <1>3 DEF StoreInv, ItemsInv
    <2> QED BY <1>1, <2>1 DEF ItemFits, Mourned
<1>6. Kept(Store(s), s, gone)
    BY <1>4, <1>5 DEF Kept
<1>7. /\ Upsert(p) \in ReplicaWriteOp /\ Upsert(p).op = "UpsertPlacement"
      /\ Upsert(p).row = p
    BY DEF Upsert, ReplicaWriteOp
<1>8. OpFits(Store(s).items, s, h, Upsert(p), gone)
    BY <1>1, <1>4, <1>7 DEF OpFits
<1>9. Kept(st, s, gone)
    BY <1>6, <1>7, <1>8, OpKeeps
<1> HIDE DEF st
<1>10. Kept(st, s, removed')
    BY <1>1, <1>9
<1> QED BY <1>2, <1>10, IdleWrite

LEMMA LiveRow ==
    ASSUME HubInv, NEW s \in Source, NEW h \in Handle, Live(s, h)
    PROVE  LET p == Loaded(s)[h]
           IN  /\ p \in ReplicaPlacement /\ p.link_id # None
               /\ p.status # "Tombstone" /\ RowFits(hub, s, h, p, removed)
<1>1. PICK p : p = Loaded(s)[h]
    OBVIOUS
<1>2. p # None /\ p.status # "Tombstone" /\ p.link_id # None
    BY <1>1 DEF Live
<1>3. p \in Opt(ReplicaPlacement) /\ LoadedFits(s, h, p)
    BY <1>1, <1>2, LoadFits DEF HubInv
<1> QED BY <1>1, <1>2, <1>3 DEF LoadedFits

LEMMA EditShape ==
    ASSUME NEW p \in ReplicaPlacement, NEW b \in Body, p.status # "Tombstone"
    PROVE  LET q == EditMutation(p, b, None)
           IN  /\ q \in ReplicaPlacement /\ q.link_id = p.link_id
               /\ q.status # "Tombstone"
               /\ (q.base # None \/ q.status = "Conflict") =>
                     (p.base # None \/ p.status = "Conflict")
<1> DEFINE resolving == p.status = "Conflict"
           settled   == [flags    |-> IF p.base = None THEN p.flags
                                      ELSE p.base.flags,
                         revision |-> p.conflict_revision,
                         object   |-> p.conflict_object]
           base      == IF resolving THEN settled ELSE p.base
           staged    == IF base = None THEN TRUE ELSE base.object # b
           revision  == IF resolving THEN None ELSE p.conflict_revision
           body      == IF resolving THEN None ELSE p.conflict_object
           status    == IF p.status # "Created" /\ (staged \/ resolving)
                        THEN "Dirty" ELSE p.status
<1>1. EditMutation(p, b, None)
         = [p EXCEPT !.object            = b,
                     !.level             = "Full",
                     !.meta              = p.meta,
                     !.base              = base,
                     !.conflict_revision = revision,
                     !.conflict_object   = body,
                     !.status            = status]
    BY DEF EditMutation
<1>2. settled \in ReplicaBase
    BY DEF ReplicaPlacement, ReplicaBase
<1> HIDE DEF settled
<1>3. base \in Opt(ReplicaBase)
    BY <1>2 DEF ReplicaPlacement
<1>4. base # None => (p.base # None \/ p.status = "Conflict")
    OBVIOUS
<1> HIDE DEF base
<1>5. /\ status \in ReplicaStatus /\ status # "Tombstone"
      /\ status = "Conflict" => p.status = "Conflict"
    BY DEF ReplicaPlacement, ReplicaStatus
<1>6. revision \in Opt(Revision) /\ body \in Opt(Body)
    BY DEF ReplicaPlacement
<1> HIDE DEF status, revision, body
<1>7. PICK q : q = [p EXCEPT !.object            = b,
                             !.level             = "Full",
                             !.meta              = p.meta,
                             !.base              = base,
                             !.conflict_revision = revision,
                             !.conflict_object   = body,
                             !.status            = status]
    OBVIOUS
<1>8. /\ q \in ReplicaPlacement /\ q.link_id = p.link_id
      /\ q.base = base /\ q.status = status
    BY <1>3, <1>5, <1>6, <1>7 DEF ReplicaPlacement, ReplicaLevel
<1> QED BY <1>1, <1>4, <1>5, <1>7, <1>8

LEMMA EditStep ==
    ASSUME HubInv, NEW s \in Source, NEW h \in Handle, UserEdit(s, h)
    PROVE  HubInv'
<1>1. PICK p : p = Loaded(s)[h]
    OBVIOUS
<1>2. /\ p \in ReplicaPlacement /\ p.link_id # None
      /\ p.status # "Tombstone" /\ RowFits(hub, s, h, p, removed)
    BY <1>1, LiveRow DEF UserEdit
<1>3. PICK b \in NewBodies \cup
                    (IF p.base = None THEN {} ELSE {p.base.object} \ {None}) :
         Mutate(s, h, EditMutation(p, b, None))
    BY <1>1, Zenon DEF UserEdit
<1>4. b \in Body
    BY <1>2, <1>3 DEF NewBodies, FreshBodies, The, ReplicaPlacement, ReplicaBase
<1>5. PICK q : q = EditMutation(p, b, None)
    OBVIOUS
<1>6. /\ q \in ReplicaPlacement /\ q.link_id = p.link_id /\ q.status # "Tombstone"
      /\ (q.base # None \/ q.status = "Conflict") =>
            (p.base # None \/ p.status = "Conflict")
    BY <1>2, <1>4, <1>5, EditShape
<1>7. removed' = removed /\ run = None /\ removed' \subseteq LinkId
    BY DEF UserEdit, MayMutate, HubInv, TypeOK
<1>8. RowFits(hub, s, h, q, removed')
    BY <1>2, <1>6, <1>7 DEF RowFits
<1> QED BY <1>2, <1>3, <1>5, <1>6, <1>7, <1>8, MutateStep

LEMMA SetFlagsStep ==
    ASSUME HubInv, NEW s \in Source, NEW h \in Handle, NEW flags \in SUBSET Flag,
           UserSetFlags(s, h, flags)
    PROVE  HubInv'
<1>1. PICK p : p = Loaded(s)[h]
    OBVIOUS
<1>2. /\ p \in ReplicaPlacement /\ p.link_id # None
      /\ p.status # "Tombstone" /\ RowFits(hub, s, h, p, removed)
    BY <1>1, LiveRow DEF UserSetFlags
<1>3. PICK q : q = SetFlagsMutation(p, flags)
    OBVIOUS
<1>4. /\ q \in ReplicaPlacement /\ q.link_id = p.link_id /\ q.base = p.base
      /\ q.status # "Tombstone" /\ (q.status = "Conflict" => p.status = "Conflict")
    BY <1>2, <1>3 DEF SetFlagsMutation, ReplicaPlacement, ReplicaStatus, ReplicaFlags
<1>5. removed' = removed /\ run = None /\ removed' \subseteq LinkId
    BY DEF UserSetFlags, MayMutate, HubInv, TypeOK
<1>6. RowFits(hub, s, h, q, removed')
    BY <1>2, <1>4, <1>5 DEF RowFits
<1>7. Mutate(s, h, q)
    BY <1>1, <1>3 DEF UserSetFlags
<1> QED BY <1>2, <1>4, <1>5, <1>6, <1>7, MutateStep

(* What is deleted under a handle is a set of identities. *)
LEMMA IdentitiesType ==
    ASSUME HubInv, NEW s \in Source, NEW h \in Handle
    PROVE  /\ Identities(s, h) \subseteq LinkId
           /\ Names(s, h) \subseteq Identities(s, h)
<1>1. servers[s][h] # None => Names(s, h) \subseteq LinkId
    <2>1. servers[s][h] # None => servers[s][h].link \in LinkId
        BY DEF HubInv, TypeOK, ServerItem
    <2> QED BY <2>1, HubAssumption DEF Names
<1>2. Loaded(s)[h] # None => {Loaded(s)[h].link_id} \ {None} \subseteq LinkId
    <2>1. Loaded(s)[h] \in Opt(ReplicaPlacement)
        BY LoadFits DEF HubInv
    <2> QED BY <2>1 DEF ReplicaPlacement
<1> QED BY <1>1, <1>2 DEF Identities, Names

LEMMA RemoveStep ==
    ASSUME HubInv, NEW s \in Source, NEW h \in Handle, UserRemove(s, h)
    PROVE  HubInv'
<1>1. PICK p : p = Loaded(s)[h]
    OBVIOUS
<1>2. /\ p \in ReplicaPlacement /\ p # None /\ p.link_id # None
      /\ p.status # "Tombstone" /\ RowFits(hub, s, h, p, removed)
    BY <1>1, LiveRow DEF UserRemove, Live
<1>3. PICK q : q = RemoveMutation(p)
    OBVIOUS
<1>4. /\ q \in ReplicaPlacement /\ q.link_id = p.link_id /\ q.base = p.base
      /\ q.status = "Tombstone"
    BY <1>2, <1>3 DEF RemoveMutation, ReplicaPlacement, ReplicaStatus
<1>5. removed' = removed \cup Identities(s, h) /\ run = None
    BY DEF UserRemove, MayMutate
<1>6. p.link_id \in Identities(s, h)
    BY <1>1, <1>2 DEF Identities
<1>7. removed' \subseteq LinkId
    BY <1>5, IdentitiesType DEF HubInv, TypeOK
<1>8. RowFits(hub, s, h, q, removed')
    BY <1>2, <1>4, <1>5, <1>6 DEF RowFits, Mourned
<1>9. Mutate(s, h, q)
    BY <1>1, <1>3 DEF UserRemove
<1> QED BY <1>2, <1>4, <1>5, <1>7, <1>8, <1>9, MutateStep

LEMMA AddStep ==
    ASSUME HubInv, NEW s \in Source, UserAdd(s)
    PROVE  HubInv'
<1>1. PICK b \in NewBodies :
         Mutate(s, Provisional, AddMutation(Authored, b, None, {}))
    BY DEF UserAdd
<1>2. /\ Loaded(s)[Provisional] = None /\ run = None /\ removed' = removed
      /\ TypeOK /\ StoreInv
    BY DEF UserAdd, MayMutate, HubInv
<1>3. b \in Body
    BY <1>1 DEF NewBodies, FreshBodies, The
<1>4. /\ Provisional \in Handle \ ServerHandle
      /\ Authored \in LinkId /\ Authored # None
    BY HubAssumption, SentinelAssumption
<1>5. PICK q : q = AddMutation(Authored, b, None, {})
    OBVIOUS
<1>6. /\ q \in ReplicaPlacement /\ q.link_id = Authored /\ q.base = None
      /\ q.status = "Created"
    BY <1>3, <1>4, <1>5 DEF AddMutation, CreatedPlacement, ReplicaPlacement,
                            ReplicaStatus, ReplicaLevel, ReplicaFlags
<1>7. BoundAt(hub, s, Provisional) = {}
    BY <1>2, <1>4, LoadFits
<1>8. Named(s, Provisional, Authored)
    BY <1>2, <1>4, PlaceholderNamed
<1>9. RowFits(hub, s, Provisional, q, removed')
    BY <1>2, <1>4, <1>6, <1>7, <1>8 DEF RowFits
<1> QED BY <1>1, <1>2, <1>4, <1>5, <1>6, <1>9, MutateStep DEF TypeOK

(* The sync under way stays what it must be while another actor moves a    *)
(* member, one that is gone having been deleted.                           *)
LEMMA RunStays ==
    ASSUME HubInv, NEW s \in Source, NEW h \in Handle, ServerMoves(s, h),
           \A link : (Mourned(s, h, link, removed) /\ servers'[s][h] = None) =>
              link \in removed',
           removed \subseteq removed', UNCHANGED <<hub, run>>
    PROVE  RunInv'
<1>0. TypeOK /\ RunInv
    BY DEF HubInv
<1> SUFFICES ASSUME run # None PROVE RunInv'
    BY DEF RunInv
<1>1. PICK t, outs, results :
         t = run.source /\ outs = run.outs /\ results = run.results
    OBVIOUS
<1>2. /\ t \in Source /\ DOMAIN outs \subseteq Handle
      /\ run'.source = t /\ run'.outs = outs /\ run'.results = results
      /\ run'.unserved = run.unserved
    BY <1>0, <1>1 DEF RunInv, TypeOK
<1>3. ASSUME NEW j \in DOMAIN outs
      PROVE  /\ OutFits(t, j, outs[j])'
             /\ (j \in ServerHandle => j \in used'[t])
    <2>1. OutFits(t, j, outs[j]) /\ (j \in ServerHandle => j \in used[t])
        BY <1>0, <1>1 DEF RunInv
    <2>2. j \in Handle
        BY <1>2
    <2>3. OutFits(t, j, outs[j])'
        BY <1>2, <2>1, <2>2, OutStays
    <2> QED BY <1>2, <2>1, <2>3 DEF ServerMoves
<1>4. ASSUME NEW j \in Handle
      PROVE  ResultFits(t, j)'
    <2>1. CASE results[j] = None
        BY <1>2, <2>1 DEF ResultFits
    <2>2. CASE results[j] # None
        <3>1. ResultFits(t, j)
            BY <1>0, <1>1 DEF RunInv
        <3>2. PICK r, link : r = results[j] /\ link = outs[j].create.link_id
            OBVIOUS
        <3>3. /\ j \in DOMAIN outs /\ j \notin run.unserved /\ outs[j].push # None
              /\ r.assigned # None =>
                    /\ r.accepted = TRUE /\ outs[j].create # None
                    /\ r.assigned \in ServerHandle /\ r.assigned \notin DOMAIN outs
                    /\ BoundAt(hub, t, r.assigned) = {}
                    /\ Mourned(t, r.assigned, link, removed)
            BY <1>1, <2>2, <3>1, <3>2 DEF ResultFits
        <3>4. r.assigned # None => Mourned(t, r.assigned, link, removed)'
            <4> SUFFICES ASSUME r.assigned # None
                         PROVE  Mourned(t, r.assigned, link, removed)'
                OBVIOUS
            <4>1. PICK a : a = r.assigned
                OBVIOUS
            <4>2. a \in Handle /\ Mourned(t, a, link, removed)
                BY <3>3, <4>1, HubAssumption
            <4>3. Mourned(t, a, link, removed)'
                BY <1>2, <4>2, MournedStays
            <4> QED BY <4>1, <4>3
        <3>5. /\ run'.results[j] = r /\ run'.outs[j] = outs[j] /\ hub' = hub
              /\ DOMAIN run'.outs = DOMAIN outs
            BY <1>2, <3>2
        <3> QED BY <1>2, <3>2, <3>3, <3>4, <3>5 DEF ResultFits, BoundAt
    <2> QED BY <2>1, <2>2
<1>5. /\ run' = [source |-> run'.source, outs |-> run'.outs,
                 unserved |-> run'.unserved, results |-> run'.results]
      /\ DOMAIN run'.outs \subseteq Handle
      /\ \A j \in run'.unserved : run'.outs[j].push # None
      /\ \A i, j \in Handle :
            (i # j /\ Assigned(i)' /\ Assigned(j)') =>
               run'.results[i].assigned # run'.results[j].assigned
    BY <1>0 DEF RunInv, Assigned
<1>6. \A j \in DOMAIN run'.outs :
         /\ j \in ServerHandle => j \in used'[run'.source]
         /\ OutFits(run.source, j, run.outs[j])'
    BY <1>2, <1>3
<1>7. \A j \in Handle : ResultFits(run.source, j)'
    BY <1>2, <1>4
<1> QED BY <1>5, <1>6, <1>7 DEF RunInv

(* Another client moves a member, or deletes it. *)
LEMMA OtherStep ==
    ASSUME HubInv, NEW s \in Source, NEW h \in Handle, servers[s][h] # None,
           NEW member \in Opt(ServerItem), OtherClient(s, h, member),
           member # None => member.link = servers[s][h].link,
           member = None => Names(s, h) \subseteq removed',
           removed \subseteq removed', removed' \subseteq LinkId
    PROVE  HubInv'
<1>1. TypeOK /\ StoreInv /\ RunInv
    BY DEF HubInv
<1>2. /\ clock' = clock + 1
      /\ servers' = [servers EXCEPT ![s][h] = member]
      /\ landed' = landed \cup Bodies(servers'[s])
      /\ UNCHANGED <<hub, residual, used, run, folded>>
    BY DEF OtherClient
<1>3. /\ servers' \in [Source -> [Handle -> Opt(ServerItem)]]
      /\ servers'[s][h] = member
      /\ \A t \in Source, j \in Handle :
            (t # s \/ j # h) => servers'[t][j] = servers[t][j]
    BY <1>1, <1>2 DEF TypeOK
<1>4. ServerMoves(s, h)
    <2>1. \/ servers'[s][h] = None
          \/ /\ servers[s][h] # None /\ servers'[s][h] # None
             /\ servers'[s][h].link = servers[s][h].link
        BY <1>3
    <2>2. \A t \in Source : used[t] \subseteq used'[t]
        BY <1>2
    <2> QED BY <1>3, <2>1, <2>2 DEF ServerMoves
(* Whatever is known under the handle goes by a name of its member.        *)
<1>5. ASSUME NEW link, Mourned(s, h, link, removed), servers'[s][h] = None
      PROVE  link \in removed'
    BY <1>3, <1>5 DEF Mourned, Named
<1>6. ServersInv'
    BY <1>1, <1>2, <1>3 DEF StoreInv, ServersInv
<1>7. StoreInv'
    BY <1>1, <1>2, <1>4, <1>5, <1>6, ItemsStay
<1>8. TypeOK'
    <2>1. Bodies(servers'[s]) \subseteq Body
        BY <1>3 DEF Bodies, ServerItem
    <2>2. clock \in Nat /\ landed \subseteq Body
        BY <1>1 DEF TypeOK
    <2>3. clock' \in Nat
        BY <1>2, <2>2
    <2>4. landed' \subseteq Body
        BY <1>2, <2>1, <2>2
    <2> QED BY <1>1, <1>2, <1>3, <2>3, <2>4 DEF TypeOK
<1>9. RunInv'
    BY <1>2, <1>4, <1>5, RunStays
<1> QED BY <1>7, <1>8, <1>9 DEF HubInv

LEMMA OthersStep ==
    ASSUME HubInv, NEW s \in Source, NEW h \in ServerHandle,
           \/ OthersEdit(s, h)
           \/ OthersRemove(s, h)
           \/ \E flags \in SUBSET Flag : OthersSetFlags(s, h, flags)
    PROVE  HubInv'
<1>1. h \in Handle /\ removed \subseteq LinkId
    BY HubAssumption DEF HubInv, TypeOK
<1>2. servers[s][h] # None /\ servers[s][h] \in ServerItem /\ clock + 1 \in Nat
    <2>1. servers[s][h] # None
        BY DEF OthersEdit, OthersRemove, OthersSetFlags, MayAct
    <2>2. servers[s][h] \in Opt(ServerItem) /\ clock \in Nat
        BY <1>1 DEF HubInv, TypeOK
    <2> QED BY <2>1, <2>2
<1>3. PICK held : held = servers[s][h]
    OBVIOUS
<1>4. CASE OthersEdit(s, h)
    <2>1. PICK b \in NewBodies :
             OtherClient(s, h, [servers[s][h] EXCEPT !.body = b, !.rev = clock + 1])
        BY <1>4 DEF OthersEdit
    <2>2. PICK member : member = [held EXCEPT !.body = b, !.rev = clock + 1]
        OBVIOUS
    <2>3. b \in Body
        BY <2>1 DEF NewBodies, FreshBodies, The
    <2>4. member \in ServerItem /\ member.link = servers[s][h].link
        BY <1>2, <1>3, <2>2, <2>3 DEF ServerItem
    <2>5. removed' = removed /\ member # None
        BY <1>4, <2>4, HubAssumption DEF OthersEdit
    <2> QED BY <1>1, <1>2, <1>3, <2>1, <2>2, <2>4, <2>5, OtherStep
<1>5. CASE OthersRemove(s, h)
    <2>1. OtherClient(s, h, None) /\ removed' = removed \cup Identities(s, h)
        BY <1>5 DEF OthersRemove
    <2>2. Identities(s, h) \subseteq LinkId /\ Names(s, h) \subseteq Identities(s, h)
        BY <1>1, IdentitiesType
    <2> QED BY <1>1, <1>2, <2>1, <2>2, OtherStep
<1>6. ASSUME NEW flags \in SUBSET Flag, OthersSetFlags(s, h, flags)
      PROVE  HubInv'
    <2>1. OtherClient(s, h, [servers[s][h] EXCEPT !.flags = flags])
        BY <1>6 DEF OthersSetFlags
    <2>2. PICK member : member = [held EXCEPT !.flags = flags]
        OBVIOUS
    <2>3. member \in ServerItem /\ member.link = servers[s][h].link
        BY <1>2, <1>3, <2>2 DEF ServerItem, ReplicaFlags
    <2>4. removed' = removed /\ member # None
        BY <1>6, <2>3, HubAssumption DEF OthersSetFlags
    <2> QED BY <1>1, <1>2, <1>3, <2>1, <2>2, <2>3, <2>4, OtherStep
<1> QED BY <1>4, <1>5, <1>6

LEMMA HubInit == Init => HubInv
<1> SUFFICES ASSUME Init PROVE HubInv
    OBVIOUS
<1>1. /\ Seeded[1] \in Source /\ Seeded[2] \in ServerHandle
      /\ Seeded = <<Seeded[1], Seeded[2]>>
      /\ SeedLink \in LinkId /\ SeedBody \in Body
      /\ ServerHandle \subseteq Handle
    BY HubAssumption
<1>2. \A s \in Source, h \in Handle :
         <<s, h>> = Seeded <=> (s = Seeded[1] /\ h = Seeded[2])
    BY <1>1
<1>3. [link |-> SeedLink, flags |-> {}, body |-> SeedBody, rev |-> 1] \in ServerItem
    BY <1>1 DEF ServerItem, ReplicaFlags, Revision
<1>4. TypeOK
    <2>1. hub \in [LinkId -> Opt(ReplicaHubItem)]
        BY DEF Init
    <2>2. residual \in [Source -> [Handle -> Opt(ReplicaPlacement)]]
        BY DEF Init
    <2>3. servers \in [Source -> [Handle -> Opt(ServerItem)]]
        BY <1>3 DEF Init
    <2>4. used \in [Source -> SUBSET ServerHandle]
        BY <1>1 DEF Init
    <2>5. clock \in Nat /\ run = None /\ landed \subseteq Body /\ removed \subseteq LinkId
        BY <1>1 DEF Init
    <2>6. folded \in [LinkId -> [by : Opt(Source), rival : Opt(Source)]]
        BY DEF Init
    <2> QED BY <2>1, <2>2, <2>3, <2>4, <2>5, <2>6 DEF TypeOK
<1>5. StoreInv
    <2>1. \A link \in LinkId : hub[link] = None
        BY DEF Init
    <2>2. ItemsInv(hub, removed) /\ OneBound(hub)
        BY <2>1 DEF ItemsInv, ItemFits, OneBound, BoundAt
    <2>3. \A s \in Source : LooseInv(s, residual[s])
        BY DEF Init, LooseInv
    <2>4. ServersInv
        <3> SUFFICES ASSUME NEW s \in Source, NEW h \in Handle, servers[s][h] # None
                     PROVE  h \in used[s]
            BY DEF ServersInv
        <3>1. <<s, h>> = Seeded
            BY DEF Init
        <3> QED BY <1>2, <3>1 DEF Init
    <2> QED BY <2>2, <2>3, <2>4 DEF StoreInv
<1>6. RunInv
    BY DEF Init, RunInv
<1> QED BY <1>4, <1>5, <1>6 DEF HubInv

LEMMA HubNext == HubInv /\ [Next]_hubVars => HubInv'
<1> SUFFICES ASSUME HubInv, [Next]_hubVars PROVE HubInv'
    OBVIOUS
<1>1. CASE UNCHANGED hubVars
    <2>1. /\ TypeOK /\ StoreInv /\ RunInv
          /\ UNCHANGED <<hub, residual, servers, used, clock, run, landed, removed, folded>>
        BY <1>1 DEF HubInv, hubVars
    <2>2. TypeOK'
        BY <2>1 DEF TypeOK
    <2>3. StoreInv'
        <3>1. PICK s \in Source, h \in Handle : TRUE
            BY HubAssumption
        <3>2. ServersInv'
            BY <2>1 DEF StoreInv, ServersInv
        <3> QED BY <2>1, <3>1, <3>2, NothingMoves, ItemsStay
    <2>4. RunInv'
        <3>1. PICK s \in Source, h \in Handle : TRUE
            BY HubAssumption
        <3> QED BY <2>1, <3>1, NothingMoves, RunStays
    <2> QED BY <2>2, <2>3, <2>4 DEF HubInv
<1>2. ASSUME NEW s \in Source, BeginSync(s) PROVE HubInv'
    BY <1>2, BeginStep
<1>3. ASSUME NEW s \in Source, HubUpgrade(s) PROVE HubInv'
    BY <1>3, UpgradeStep
<1>4. CASE Run
    BY <1>4, ServeStep, WriteStep DEF Run
<1>5. CASE HubCrash
    BY <1>5, CrashStep
<1>6. CASE User
    BY <1>6, EditStep, RemoveStep, SetFlagsStep, AddStep DEF User
<1>7. CASE Others
    BY <1>7, OthersStep DEF Others
<1> QED BY <1>1, <1>2, <1>3, <1>4, <1>5, <1>6, <1>7 DEF Next

(* Types, in every state, for every set of sources, handles and bodies and *)
(* any bound on what the user, the other clients and the crashes do: what  *)
(* a load projects, a sync derives and a server answers absorbs into a hub *)
(* and rows of the declared shape.                                         *)
THEOREM HubTypeCorrect == Spec => []TypeOK
<1>1. HubInv => TypeOK
    BY DEF HubInv
<1> QED BY <1>1, HubInit, HubNext, PTL DEF Spec

(* A delete nobody asked for never spreads: however syncs, upgrades,       *)
(* mutations, crashes and other clients interleave, whichever servers      *)
(* report the handles they assign, and whatever conflict policy the hub    *)
(* has, an item is marked deleted only once a user or a client of some     *)
(* server deleted that very item (hub.rs, absorb_drop and                  *)
(* absorb_upsert).                                                         *)
THEOREM DeletesWereAsked == Spec => []DeletesAsked
<1>1. HubInv => DeletesAsked
    BY DEF HubInv, StoreInv, ItemsInv, ItemFits, DeletesAsked
<1> QED BY <1>1, HubInit, HubNext, PTL DEF Spec

--------------------------------------------------------------------------------
(* A source and the body it folded in itself.                              *)

(* The source has in hand the body the item shares. *)
Agreed(item, s) ==
    item.sources[s] # None =>
        item.object = None \/ item.sources[s].shared_object = item.object

(* A row that restates the body its item shares, or none. *)
Restates(s, h, p) ==
    /\ p.status # "Tombstone"
    /\ IF p.link_id = None THEN p.object = None \/ BoundAt(hub, s, h) = {}
       ELSE hub[p.link_id] # None => p.object \in {None, hub[p.link_id].object}

(* Nothing a sync derives is of a body but the shared one: it never        *)
(* fetches, and no mutation runs beside it.                                *)
OutRestates(s, h, out) ==
    /\ (out.put # Keep /\ out.put.op = "UpsertPlacement") =>
          Restates(s, h, out.put.row)
    /\ out.flag # None => Restates(s, h, out.flag)
    /\ out.content # None => Restates(s, h, out.content)
    /\ out.create # None => Restates(s, h, out.create)

(* The source whose body is shared agrees with it, and so does the sync    *)
(* under way.                                                              *)
SelfInv ==
    /\ \A link \in LinkId : hub[link] # None =>
          folded[link].by \in Source /\ Agreed(hub[link], folded[link].by)
    /\ run # None =>
          \A h \in DOMAIN run.outs : OutRestates(run.source, h, run.outs[h])

(* The items while the ops of a source are absorbed: the others' bindings  *)
(* stay, the source agrees with what it folded in, and where it is the one *)
(* whose body was shared, no divergence came up.                           *)
Folding(items, s) ==
    /\ items \in [LinkId -> Opt(ReplicaHubItem)]
    /\ \A link \in LinkId :
          /\ hub[link] # None =>
                /\ items[link] # None
                /\ \A t \in Source : t # s =>
                      items[link].sources[t] = hub[link].sources[t]
                /\ (/\ folded[link].by = s /\ hub[link].sources[s] # None
                    /\ ~hub[link].conflicted) => ~items[link].conflicted
          /\ items[link] # None =>
                \/ Agreed(items[link], s)
                \/ /\ hub[link] # None /\ folded[link].by # s
                   /\ items[link].object = hub[link].object

(* No binding of the source went. *)
StillBound(items, s) ==
    \A link \in LinkId :
        (hub[link] # None /\ items[link] # None /\ hub[link].sources[s] # None) =>
            items[link].sources[s] # None

(* Every item shares the body it did, or none. *)
SameBodies(items) ==
    \A link \in LinkId : (hub[link] # None /\ items[link] # None) =>
        items[link].object \in {None, hub[link].object}

(* What a live upsert makes of the body an item shares. *)
LEMMA LiveUpsert ==
    ASSUME NEW items \in [LinkId -> Opt(ReplicaHubItem)], NEW s \in Source,
           NEW h \in Handle, NEW p \in ReplicaPlacement, p.link_id # None,
           p.status # "Tombstone"
    PROVE  LET old == items[p.link_id]
               new == AbsorbUpsert(items, s, h, p)[p.link_id]
           IN  /\ new.sources[s] # None /\ new.sources[s].shared_object = new.object
               /\ old # None =>
                     /\ new.object \in {p.object, old.object}
                     /\ new.conflicted =>
                           \/ old.conflicted
                           \/ /\ p.object # None /\ old.object # None
                              /\ p.object # old.object
                              /\ ~(old.sources[s] # None /\ Agreed(old, s))
<1> DEFINE link == p.link_id
           old  == IF items[link] = None THEN NewItem(p) ELSE items[link]
           flags == IF p.flags = Unknown THEN old.flags ELSE p.flags
           meta  == IF p.meta = None THEN old.meta ELSE p.meta
           level == IF Level(p.level) > Level(old.level) THEN p.level ELSE old.level
           live  == [old EXCEPT !.deleted = FALSE, !.flags = flags,
                                !.meta = meta, !.level = level]
           merged == ReconcileShared(live, s, p)
           b == BindingOf(h, p, merged.object)
           new == [merged EXCEPT !.level = StoredLevel(merged), !.sources[s] = b]
<1>1. link \in LinkId
    BY DEF ReplicaPlacement
<1>2. NewItem(p) \in ReplicaHubItem
    BY HubAssumption DEF NewItem, ReplicaHubItem, ReplicaPlacement
<1>3. old \in ReplicaHubItem
    BY <1>1, <1>2
<1>4. AbsorbUpsert(items, s, h, p)[link] = new
    BY <1>1 DEF AbsorbUpsert, AbsorbLive
<1>5. flags \in ReplicaFlags /\ meta \in Opt(ReplicaMeta) /\ level \in ReplicaLevel
    BY <1>3 DEF ReplicaPlacement, ReplicaHubItem
<1>6. items[link] # None => old = items[link]
    OBVIOUS
<1> HIDE DEF old, flags, meta, level, link
<1>7. /\ live \in ReplicaHubItem /\ live.sources = old.sources
      /\ live.object = old.object /\ live.conflicted = old.conflicted
    BY <1>3, <1>5 DEF ReplicaHubItem
<1> HIDE DEF live
<1> DEFINE prev     == IF live.sources[s] = None \/ live.sources[s].base = None
                       THEN None ELSE live.sources[s].base.object
           agreed   == IF live.sources[s] = None \/ live.sources[s].shared_object = None
                       THEN prev ELSE live.sources[s].shared_object
           diverged == /\ live.object # agreed /\ p.object # live.object
                       /\ p.object # None /\ live.object # None
           settled(body) == [live EXCEPT !.object          = body,
                                         !.conflicted      = FALSE,
                                         !.conflict_object = None]
           split == [live EXCEPT !.conflicted = TRUE, !.conflict_object = p.object]
<1>8. /\ merged \in ReplicaHubItem /\ merged.sources = live.sources
    BY <1>7, ReconcileSharedType
<1>9. \/ merged = live \/ merged = settled(p.object) \/ merged = settled(live.object)
      \/ merged = split /\ diverged
    BY Zenon, HubAssumption DEF ReconcileShared, ReplicaHubConflict
<1>10. /\ split.object = live.object
       /\ \A body : settled(body).object = body /\ settled(body).conflicted = FALSE
    BY <1>7 DEF ReplicaHubItem
<1> HIDE DEF merged
<1>11. diverged => ~(old.sources[s] # None /\ Agreed(old, s))
    BY <1>7 DEF Agreed
<1> HIDE DEF settled, split
<1>12. /\ merged.object \in {p.object, old.object}
       /\ merged.conflicted => old.conflicted \/ diverged
    BY <1>7, <1>9, <1>10
<1>13. b # None /\ b.shared_object = merged.object
    <2>1. merged.object \in Opt(Body)
        BY <1>8 DEF ReplicaHubItem
    <2>2. b # None
        BY <2>1, BindingOfType
    <2> QED BY <2>2 DEF BindingOf
<1> HIDE DEF b
<1>14. /\ new.sources[s] = b /\ new.object = merged.object
       /\ new.conflicted = merged.conflicted
    BY <1>8 DEF ReplicaHubItem
<1> HIDE DEF new
<1> QED BY <1>4, <1>6, <1>7, <1>11, <1>12, <1>13, <1>14 DEF link

(* A tombstone leaves the body and the divergence alone, and its source    *)
(* with what it had in hand.                                               *)
LEMMA TombstoneUpsert ==
    ASSUME NEW items \in [LinkId -> Opt(ReplicaHubItem)], NEW s \in Source,
           NEW h \in Handle, NEW p \in ReplicaPlacement, p.link_id # None,
           p.status = "Tombstone", items[p.link_id] # None
    PROVE  LET old == items[p.link_id]
               new == AbsorbUpsert(items, s, h, p)[p.link_id]
           IN  /\ new.object = old.object /\ new.conflicted = old.conflicted
               /\ old.sources[s] # None => (Agreed(old, s) => Agreed(new, s))
<1> DEFINE old == items[p.link_id]
           agreed == IF old.sources[s] = None THEN None
                     ELSE old.sources[s].shared_object
           new == [old EXCEPT !.deleted = TRUE,
                              !.sources[s] = BindingOf(h, p, agreed)]
<1>1. p.link_id \in LinkId
    BY DEF ReplicaPlacement
<1>2. AbsorbUpsert(items, s, h, p)[p.link_id] = new
    BY <1>1 DEF AbsorbUpsert, AbsorbTombstone
<1>3. old \in ReplicaHubItem
    BY <1>1
<1>4. /\ new.object = old.object /\ new.conflicted = old.conflicted
      /\ new.sources[s] = BindingOf(h, p, agreed)
    BY <1>3 DEF ReplicaHubItem
<1>5. BindingOf(h, p, agreed).shared_object = agreed
    BY DEF BindingOf
<1> HIDE DEF new
<1> QED BY <1>2, <1>4, <1>5 DEF Agreed

(* The store while a source's ops are absorbed: those of a sync restate    *)
(* bodies, those of an upgrade or a mutation drop nothing.                 *)
FoldStore(st, s, fetching) ==
    /\ st \in HubStore
    /\ Folding(st.items, s)
    /\ IF fetching THEN StillBound(st.items, s) ELSE SameBodies(st.items)

FoldRow(p, s, fetching) ==
    p.link_id # None =>
        IF fetching
        THEN p.status = "Tombstone" =>
                hub[p.link_id] # None /\ hub[p.link_id].sources[s] # None
        ELSE /\ p.status # "Tombstone"
             /\ hub[p.link_id] # None => p.object \in {None, hub[p.link_id].object}

FoldOp(op, s, fetching) ==
    op # Keep =>
        IF op.op = "DropPlacement" THEN ~fetching ELSE FoldRow(op.row, s, fetching)

LEMMA FoldUpsert ==
    ASSUME NEW s \in Source, NEW h \in Handle, NEW fetching, NEW items,
           Folding(items, s),
           IF fetching THEN StillBound(items, s) ELSE SameBodies(items),
           NEW p \in ReplicaPlacement, p.link_id # None, FoldRow(p, s, fetching)
    PROVE  LET new == AbsorbUpsert(items, s, h, p)
           IN  /\ Folding(new, s)
               /\ IF fetching THEN StillBound(new, s) ELSE SameBodies(new)
<1> DEFINE new == AbsorbUpsert(items, s, h, p)
<1>1. PICK link : link = p.link_id
    OBVIOUS
<1>2. items \in [LinkId -> Opt(ReplicaHubItem)]
    BY DEF Folding
<1>3. /\ link \in LinkId
      /\ new \in [LinkId -> Opt(ReplicaHubItem)]
      /\ \A k \in LinkId : k # link => new[k] = items[k]
      /\ new[link] # None /\ new[link].sources[s] # None
      /\ \A t \in Source : t # s =>
            new[link].sources[t] = IF items[link] = None THEN None
                                   ELSE items[link].sources[t]
    BY <1>1, <1>2, UpsertCases
<1>4. ASSUME p.status # "Tombstone"
      PROVE  /\ new[link].sources[s].shared_object = new[link].object
             /\ items[link] # None =>
                   /\ new[link].object \in {p.object, items[link].object}
                   /\ new[link].conflicted =>
                         \/ items[link].conflicted
                         \/ /\ p.object # None /\ items[link].object # None
                            /\ p.object # items[link].object
                            /\ ~(/\ items[link].sources[s] # None
                                 /\ Agreed(items[link], s))
    BY <1>1, <1>2, <1>4, LiveUpsert
<1>5. ASSUME p.status = "Tombstone"
      PROVE  /\ fetching /\ hub[link] # None /\ items[link] # None
             /\ items[link].sources[s] # None
             /\ new[link].object = items[link].object
             /\ new[link].conflicted = items[link].conflicted
             /\ Agreed(items[link], s) => Agreed(new[link], s)
    <2>1. fetching /\ hub[link] # None /\ hub[link].sources[s] # None
        BY <1>1, <1>5 DEF FoldRow
    <2>2. items[link] # None
        BY <1>3, <2>1 DEF Folding
    <2>3. items[link].sources[s] # None
        BY <1>3, <2>1, <2>2 DEF StillBound
    <2> QED BY <1>1, <1>2, <1>5, <2>1, <2>2, <2>3, TombstoneUpsert
<1>6. PICK y : y = new
    OBVIOUS
<1> HIDE DEF new
<1>7. ASSUME hub[link] # None
      PROVE  /\ items[link] # None
             /\ \A t \in Source : t # s =>
                   y[link].sources[t] = hub[link].sources[t]
             /\ (/\ folded[link].by = s /\ hub[link].sources[s] # None
                 /\ ~hub[link].conflicted) => ~y[link].conflicted
    <2>1. /\ items[link] # None
          /\ \A t \in Source : t # s =>
                y[link].sources[t] = hub[link].sources[t]
        BY <1>3, <1>6, <1>7 DEF Folding
    <2>2. ASSUME folded[link].by = s, hub[link].sources[s] # None,
                 ~hub[link].conflicted
          PROVE  ~y[link].conflicted
        <3>1. ~items[link].conflicted /\ Agreed(items[link], s)
            BY <1>3, <1>7, <2>1, <2>2 DEF Folding
        <3>2. CASE p.status = "Tombstone"
            BY <1>5, <1>6, <3>1, <3>2
        <3>3. CASE p.status # "Tombstone" /\ fetching
            <4>1. items[link].sources[s] # None
                BY <1>3, <1>7, <2>1, <2>2, <3>3 DEF StillBound
            <4> QED BY <1>4, <1>6, <2>1, <3>1, <3>3, <4>1
        <3>4. CASE p.status # "Tombstone" /\ ~fetching
            <4>1. p.object \in {None, hub[link].object}
                BY <1>1, <1>7, <3>4 DEF FoldRow
            <4>2. items[link].object \in {None, hub[link].object}
                BY <1>3, <1>7, <2>1, <3>4 DEF SameBodies
            <4> QED BY <1>4, <1>6, <2>1, <3>1, <3>4, <4>1, <4>2
        <3> QED BY <3>2, <3>3, <3>4
    <2> QED BY <2>1, <2>2
<1>8. \/ Agreed(y[link], s)
      \/ /\ hub[link] # None /\ folded[link].by # s
         /\ y[link].object = hub[link].object
    <2>1. CASE p.status # "Tombstone"
        BY <1>4, <1>6, <2>1 DEF Agreed
    <2>2. CASE p.status = "Tombstone"
        BY <1>3, <1>5, <1>6, <2>2 DEF Folding
    <2> QED BY <2>1, <2>2
<1>9. Folding(y, s)
    <2>1. ASSUME NEW k \in LinkId, k # link
          PROVE  y[k] = items[k]
        BY <1>3, <1>6, <2>1
    <2> QED BY <1>2, <1>3, <1>6, <1>7, <1>8, <2>1 DEF Folding
<1>10. fetching => StillBound(y, s)
    BY <1>3, <1>6 DEF StillBound
<1>11. ~fetching => SameBodies(y)
    <2> SUFFICES ASSUME ~fetching, NEW k \in LinkId, hub[k] # None, y[k] # None
                 PROVE  y[k].object \in {None, hub[k].object}
        BY DEF SameBodies
    <2>1. CASE k # link
        BY <1>3, <1>6, <2>1 DEF SameBodies
    <2>2. CASE k = link
        <3>1. items[link] # None /\ p.status # "Tombstone"
                 /\ p.object \in {None, hub[link].object}
            BY <1>1, <1>7, <2>2 DEF FoldRow
        <3>2. items[link].object \in {None, hub[link].object}
            BY <1>3, <2>2, <3>1 DEF SameBodies
        <3> QED BY <1>4, <1>6, <2>2, <3>1, <3>2
    <2> QED BY <2>1, <2>2
<1>12. IF fetching THEN StillBound(y, s) ELSE SameBodies(y)
    <2>1. CASE fetching
        BY <1>10, <2>1
    <2>2. CASE ~fetching
        BY <1>11, <2>2
    <2> QED BY <2>1, <2>2
<1> QED BY <1>6, <1>9, <1>12 DEF new

LEMMA FoldDrop ==
    ASSUME NEW s \in Source, NEW h \in Handle, NEW reason, NEW items,
           Folding(items, s), SameBodies(items), reason \in {"Deleted", "Superseded"}
    PROVE  LET new == AbsorbDrop(items, s, h, reason)
           IN  Folding(new, s) /\ SameBodies(new)
<1>1. PICK new : new = AbsorbDrop(items, s, h, reason)
    OBVIOUS
<1>2. items \in [LinkId -> Opt(ReplicaHubItem)]
    BY DEF Folding
<1>3. new \in [LinkId -> Opt(ReplicaHubItem)]
    BY <1>1, <1>2, DropCases
<1>4. ASSUME NEW k \in LinkId
      PROVE  \/ new[k] = items[k]
             \/ /\ items[k] # None /\ new[k] # None
                /\ new[k].object = items[k].object
                /\ new[k].conflicted = items[k].conflicted
                /\ new[k].sources[s] = None
                /\ \A t \in Source : t # s => new[k].sources[t] = items[k].sources[t]
    <2>1. CASE k \notin BoundAt(items, s, h)
        BY <1>1, <2>1 DEF AbsorbDrop
    <2>2. CASE k \in BoundAt(items, s, h)
        <3>1. items[k] # None /\ items[k].sources \in [Source -> Opt(ReplicaSourceBinding)]
            BY <1>2, <2>2 DEF BoundAt, ReplicaHubItem
        <3>2. Cut(items[k], new[k], s, reason)
            BY <1>1, <1>2, <2>2, DropCases
        <3> QED BY <3>1, <3>2 DEF Cut
    <2> QED BY <2>1, <2>2
<1>5. Folding(new, s)
    <2> SUFFICES ASSUME NEW k \in LinkId
                 PROVE  /\ hub[k] # None =>
                              /\ new[k] # None
                              /\ \A t \in Source : t # s =>
                                    new[k].sources[t] = hub[k].sources[t]
                              /\ (/\ folded[k].by = s /\ hub[k].sources[s] # None
                                  /\ ~hub[k].conflicted) => ~new[k].conflicted
                        /\ new[k] # None =>
                              \/ Agreed(new[k], s)
                              \/ /\ hub[k] # None /\ folded[k].by # s
                                 /\ new[k].object = hub[k].object
        BY <1>3 DEF Folding
    <2> QED BY <1>4 DEF Folding, Agreed
<1>6. SameBodies(new)
    BY <1>4 DEF SameBodies
<1> QED BY <1>1, <1>5, <1>6

LEMMA FoldOpKeeps ==
    ASSUME NEW s \in Source, NEW h \in Handle, NEW fetching, NEW st,
           FoldStore(st, s, fetching), NEW op \in Op, FoldOp(op, s, fetching)
    PROVE  FoldStore(AbsorbOp(st, s, h, op), s, fetching)
<1>1. /\ st.items \in [LinkId -> Opt(ReplicaHubItem)]
      /\ st.residual \in [Handle -> Opt(ReplicaPlacement)]
      /\ Folding(st.items, s)
      /\ IF fetching THEN StillBound(st.items, s) ELSE SameBodies(st.items)
    BY DEF FoldStore, HubStore
<1>2. CASE op = Keep
    BY <1>2 DEF AbsorbOp
<1>3. CASE op # Keep /\ op.op = "DropPlacement"
    <2> DEFINE items == AbsorbDrop(st.items, s, h, op.reason)
               rows == [st.residual EXCEPT ![h] = None]
    <2>1. AbsorbOp(st, s, h, op) = [items |-> items, residual |-> rows]
        BY <1>3 DEF AbsorbOp
    <2>2. ~fetching /\ op.reason \in {"Deleted", "Superseded"}
        BY <1>3 DEF FoldOp, Op, ReplicaWriteOp, DropReason
    <2>3. Folding(items, s) /\ SameBodies(items)
        BY <1>1, <2>2, FoldDrop
    <2>4. rows \in [Handle -> Opt(ReplicaPlacement)]
        BY <1>1
    <2> HIDE DEF items, rows
    <2> QED BY <2>1, <2>2, <2>3, <2>4 DEF FoldStore, HubStore, Folding
<1>4. CASE op # Keep /\ op.op # "DropPlacement"
    <2> DEFINE p == op.row
               items == AbsorbUpsert(st.items, s, h, p)
               row == IF p.link_id = None THEN p ELSE None
               rows == [st.residual EXCEPT ![h] = row]
    <2>1. p \in ReplicaPlacement /\ FoldRow(p, s, fetching)
        BY <1>4 DEF Op, ReplicaWriteOp, FoldOp
    <2>2. AbsorbOp(st, s, h, op) = [items |-> items, residual |-> rows]
        BY <1>4 DEF AbsorbOp
    <2>3. rows \in [Handle -> Opt(ReplicaPlacement)]
        BY <1>1, <2>1
    <2>4. /\ Folding(items, s)
          /\ IF fetching THEN StillBound(items, s) ELSE SameBodies(items)
        <3>1. CASE p.link_id = None
            <4>1. items = st.items
                BY <3>1 DEF AbsorbUpsert
            <4> HIDE DEF items
            <4> QED BY <1>1, <4>1
        <3>2. CASE p.link_id # None
            BY <1>1, <2>1, <3>2, FoldUpsert
        <3> QED BY <3>1, <3>2
    <2> HIDE DEF items, rows
    <2> QED BY <2>2, <2>3, <2>4 DEF FoldStore, HubStore, Folding
<1> QED BY <1>2, <1>3, <1>4

LEMMA FoldBatch ==
    ASSUME NEW s \in Source, NEW fetching, NEW st, FoldStore(st, s, fetching),
           NEW ops, DOMAIN ops \subseteq Handle,
           \A h \in DOMAIN ops :
              /\ ops[h].here \in Op /\ ops[h].there \in Op /\ ops[h].to \in Handle
              /\ FoldOp(ops[h].here, s, fetching) /\ FoldOp(ops[h].there, s, fetching)
    PROVE  FoldStore(Absorb(st, s, ops), s, fetching)
<1> DEFINE D == DOMAIN ops
           P == {pair \in (SUBSET D) \X HubStore : FoldStore(pair[2], s, fetching)}
<1>1. \A S \in SUBSET D : \A x : <<S, x>> \in P <=> FoldStore(x, s, fetching)
    BY DEF FoldStore
<1>2. ASSUME NEW h \in D, NEW x, FoldStore(x, s, fetching)
      PROVE  FoldStore(AbsorbOps(x, s, h, ops[h]), s, fetching)
    <2>1. FoldStore(AbsorbOp(x, s, h, ops[h].here), s, fetching)
        BY <1>2, FoldOpKeeps
    <2> QED BY <2>1, FoldOpKeeps DEF AbsorbOps
<1>3. <<{}, st>> \in P
    BY <1>1
<1>4. ASSUME NEW S \in SUBSET D, NEW h \in D, NEW x, <<S, x>> \in P
      PROVE  <<S \cup {h}, AbsorbOps(x, s, h, ops[h])>> \in P
    BY <1>1, <1>2, <1>4
<1> HIDE DEF P
<1>5. <<D, Absorb(st, s, ops)>> \in P
    BY <1>3, <1>4, AbsorbKeeps
<1> QED BY <1>1, <1>5

(* A store no op of the source has touched. *)
LEMMA FoldStart ==
    ASSUME TypeOK, SelfInv, NEW s \in Source, NEW fetching
    PROVE  FoldStore(Store(s), s, fetching)
<1>1. Store(s).items = hub /\ Store(s) \in HubStore
    BY DEF Store, HubStore, TypeOK
<1>2. Folding(hub, s)
    BY DEF Folding, SelfInv, TypeOK
<1>3. StillBound(hub, s) /\ SameBodies(hub)
    BY DEF StillBound, SameBodies
<1> QED BY <1>1, <1>2, <1>3 DEF FoldStore

(* The step a write makes, whatever the ops were. *)
SelfDiverges(link) ==
    /\ hub[link] # None /\ hub'[link] # None
    /\ ~hub[link].conflicted /\ hub'[link].conflicted
    /\ hub[link].sources[folded'[link].rival] # None
    /\ folded'[link].rival = folded[link].by

LEMMA FoldWrite ==
    ASSUME TypeOK, SelfInv, NEW s \in Source, NEW fetching, NEW st,
           FoldStore(st, s, fetching), WriteBack(s, st), run' = None
    PROVE  SelfInv' /\ \A link \in LinkId : ~SelfDiverges(link)
<1>1. st.items \in [LinkId -> Opt(ReplicaHubItem)] /\ Folding(st.items, s)
    BY DEF FoldStore, HubStore
<1>2. PICK items : items = st.items
    OBVIOUS
<1>3. \A link \in LinkId : hub'[link] \in {None, items[link]}
    <2>1. hub' = Retained(items)
        BY <1>2 DEF WriteBack
    <2> QED BY <2>1 DEF Retained
<1>4. ASSUME NEW link \in LinkId, hub'[link] # None
      PROVE  /\ folded'[link].by =
                   IF hub[link] # None /\ hub[link].object = hub'[link].object
                   THEN folded[link].by ELSE s
             /\ folded'[link].rival =
                   IF ~hub'[link].conflicted THEN None
                   ELSE IF hub[link] # None /\ hub[link].conflicted
                   THEN folded[link].rival ELSE s
    <2> DEFINE By == IF hub[link] # None /\ hub[link].object = hub'[link].object
                     THEN folded[link].by ELSE s
               Rival == IF ~hub'[link].conflicted THEN None
                        ELSE IF hub[link] # None /\ hub[link].conflicted
                        THEN folded[link].rival ELSE s
    <2>1. folded'[link] = [by |-> By, rival |-> Rival]
        BY <1>4, Zenon DEF WriteBack
    <2> HIDE DEF By, Rival
    <2>2. folded'[link].by = By /\ folded'[link].rival = Rival
        BY <2>1
    <2> QED BY <2>2 DEF By, Rival
<1>5. ASSUME NEW link \in LinkId, hub'[link] # None
      PROVE  folded'[link].by \in Source /\ Agreed(hub'[link], folded'[link].by)
    <2>1. PICK item : item = items[link] /\ item # None /\ hub'[link] = item
        BY <1>3, <1>5
    <2>2. folded'[link].by = IF hub[link] # None /\ hub[link].object = item.object
                             THEN folded[link].by ELSE s
        BY <1>4, <1>5, <2>1
    <2>3. /\ hub[link] # None => \A t \in Source : t # s =>
                item.sources[t] = hub[link].sources[t]
          /\ \/ Agreed(item, s)
             \/ /\ hub[link] # None /\ folded[link].by # s
                /\ item.object = hub[link].object
        BY <1>1, <1>2, <2>1 DEF Folding
    <2>4. hub[link] # None =>
             folded[link].by \in Source /\ Agreed(hub[link], folded[link].by)
        BY DEF SelfInv
    <2>5. CASE hub[link] # None /\ hub[link].object = item.object
                 /\ folded[link].by # s
        BY <2>1, <2>2, <2>3, <2>4, <2>5 DEF Agreed
    <2>6. CASE hub[link] # None /\ hub[link].object = item.object
                 /\ folded[link].by = s
        BY <2>1, <2>2, <2>3, <2>6
    <2>7. CASE ~(hub[link] # None /\ hub[link].object = item.object)
        BY <2>1, <2>2, <2>3, <2>7
    <2> QED BY <2>5, <2>6, <2>7
<1>6. SelfInv'
    BY <1>5 DEF SelfInv, Agreed
<1>7. ASSUME NEW link \in LinkId, SelfDiverges(link)
      PROVE  FALSE
    <2>1. /\ hub[link] # None /\ hub'[link] # None
          /\ ~hub[link].conflicted /\ hub'[link].conflicted
          /\ hub[link].sources[folded'[link].rival] # None
          /\ folded'[link].rival = folded[link].by
        BY <1>7 DEF SelfDiverges
    <2>2. folded'[link].rival = s
        BY <1>4, <2>1
    <2>3. items[link].conflicted
        BY <1>3, <2>1
    <2> QED BY <1>1, <1>2, <2>1, <2>2, <2>3 DEF Folding
<1> QED BY <1>6, <1>7

(* A write of some rows, each under its handle. *)
LEMMA FoldRows ==
    ASSUME TypeOK, SelfInv, NEW s \in Source, NEW fetching, NEW batch,
           DOMAIN batch \subseteq Handle,
           \A h \in DOMAIN batch : batch[h] # Keep =>
              /\ KeyBack(s, h, batch[h]) \in Op
              /\ FoldOp(KeyBack(s, h, batch[h]), s, fetching)
    PROVE  FoldStore(AbsorbBatch(Store(s), s, batch), s, fetching)
<1> DEFINE D == {k \in DOMAIN batch : batch[k] # Keep}
           ops == [h \in D |-> Ops(KeyBack(s, h, batch[h]), h, Keep)]
<1>1. AbsorbBatch(Store(s), s, batch) = Absorb(Store(s), s, ops)
    BY Zenon DEF AbsorbBatch
<1>2. \A h \in D : /\ ops[h].here = KeyBack(s, h, batch[h])
                    /\ ops[h].to = h /\ ops[h].there = Keep
    BY DEF Ops
<1>3. DOMAIN ops = D /\ D \subseteq Handle
    OBVIOUS
<1> HIDE DEF ops
<1>4. \A h \in DOMAIN ops :
         /\ ops[h].here \in Op /\ ops[h].there \in Op /\ ops[h].to \in Handle
         /\ FoldOp(ops[h].here, s, fetching) /\ FoldOp(ops[h].there, s, fetching)
    BY <1>2, <1>3 DEF Op, FoldOp
<1>5. FoldStore(Absorb(Store(s), s, ops), s, fetching)
    BY <1>3, <1>4, FoldStart, FoldBatch
<1> QED BY <1>1, <1>5

(* What a source loads restates the bodies its items share, and a delete   *)
(* staged elsewhere is no move.                                            *)
LEMMA LoadedShares ==
    ASSUME TypeOK, StoreInv, NEW s \in Source, NEW h \in Handle
    PROVE  LET p == Loaded(s)[h]
           IN  (p # None /\ p.link_id # None) =>
                  /\ hub[p.link_id] # None /\ p.object = hub[p.link_id].object
                  /\ p.status = "Tombstone" =>
                        p.origin = None /\ hub[p.link_id].sources[s] # None
<1> DEFINE p == Loaded(s)[h]
           Goal(q) == /\ hub[q.link_id] # None /\ q.object = hub[q.link_id].object
                      /\ q.status = "Tombstone" =>
                            q.origin = None /\ hub[q.link_id].sources[s] # None
<1>1. CASE BoundAt(hub, s, h) # {}
    <2> DEFINE link == The(BoundAt(hub, s, h))
    <2>1. link \in BoundAt(hub, s, h)
        BY <1>1 DEF The
    <2>2. p = IF hub[link].deleted
              THEN TombstonePlacement(link, hub[link], hub[link].sources[s])
              ELSE BoundPlacement(link, hub[link], hub[link].sources[s])
        BY <1>1 DEF Loaded
    <2> HIDE DEF p, link
    <2>3. link \in LinkId /\ hub[link] # None /\ hub[link].sources[s] # None
        BY <2>1 DEF BoundAt
    <2>4. CASE hub[link].deleted
        BY <2>2, <2>3, <2>4 DEF TombstonePlacement, Shared, p
    <2>5. CASE ~hub[link].deleted
        <3> DEFINE item == hub[link]
                   binding == hub[link].sources[s]
                   sync == /\ binding.base # None
                           /\ binding.base.flags = item.flags
                           /\ binding.base.object = item.object
                   status == IF binding.conflicted THEN "Conflict"
                             ELSE IF binding.base = None /\ item.object # None
                             THEN "Created"
                             ELSE IF sync THEN "Clean" ELSE "Dirty"
        <3>1. p = Dressed(link, item, status, binding.conflict_revision,
                          binding.conflict_object, binding.base)
            BY <2>2, <2>5 DEF BoundPlacement, Dressed
        <3>2. status # "Tombstone"
            OBVIOUS
        <3> HIDE DEF status
        <3>3. p.link_id = link /\ p.object = item.object /\ p.status = status
            BY <3>1 DEF Dressed, Shared
        <3>4. Goal(p)
            BY <2>3, <3>2, <3>3
        <3> QED BY <3>4 DEF p
    <2> QED BY <2>4, <2>5
<1>2. CASE BoundAt(hub, s, h) = {} /\ OfferedAt(hub, s, h) # {}
    <2> DEFINE link == The(OfferedAt(hub, s, h))
    <2>1. link \in OfferedAt(hub, s, h)
        BY <1>2 DEF The
    <2>2. p = OfferedPlacement(link, hub[link])
        BY <1>2 DEF Loaded
    <2> HIDE DEF p, link
    <2>3. p.link_id = link /\ p.object = hub[link].object /\ p.status = "Created"
        BY <2>2 DEF OfferedPlacement, Shared
    <2>4. Goal(p)
        BY <2>1, <2>3 DEF OfferedAt
    <2> QED BY <2>4 DEF p
<1>3. CASE BoundAt(hub, s, h) = {} /\ OfferedAt(hub, s, h) = {}
    <2>1. p = residual[s][h]
        BY <1>3 DEF Loaded
    <2>2. residual[s][h] # None => residual[s][h].link_id = None
        BY DEF StoreInv, LooseInv, Loose
    <2> QED BY <2>1, <2>2 DEF p
<1> QED BY <1>1, <1>2, <1>3

(* What a sync derives of a row is of the body the row's item shares.      *)
LEMMA OutcomeEchoes ==
    ASSUME TypeOK, StoreInv, NEW s \in Source, NEW h \in Handle
    PROVE  OutRestates(s, h, OutcomeAt(s, h))
<1> DEFINE p == Loaded(s)[h]
           item == Reported(s, h)
           out == OutcomeAt(s, h)
<1>1. /\ p \in Opt(ReplicaPlacement)
      /\ p # None => LoadedFits(s, h, p)
    BY LoadFits
<1>2. item \in Opt(ReplicaRemoteItem) /\ Options[s] \in ReplicaSyncOptions
    BY HubAssumption, ReportedType
<1>3. out = MergeCandidate(p, item, Options[s])
    BY DEF OutcomeAt
<1>4. (p # None /\ p.link_id # None) =>
         /\ hub[p.link_id] # None /\ p.object = hub[p.link_id].object
         /\ p.status = "Tombstone" => p.origin = None
    BY LoadedShares
<1>5. (p # None /\ p.link_id = None) => Loose(p) /\ BoundAt(hub, s, h) = {}
    BY <1>1, LoadedLinks
<1> HIDE DEF p, item, out
<1>6. Shape(out, p, item)
    <2>1. (p # None /\ p.status = "Created") => p.object # None
        BY <1>1 DEF LoadedFits
    <2> QED BY <1>1, <1>2, <1>3, <2>1, CandidateShape
<1>7. ASSUME NEW q, p # None, Of(q, p)
      PROVE  Restates(s, h, q)
    BY <1>4, <1>5, <1>7 DEF Of, Restates
<1>8. ASSUME NEW q, Loose(q), q.object = None
      PROVE  Restates(s, h, q)
    BY <1>8 DEF Loose, Restates
<1>9. (out.put # Keep /\ out.put.op = "UpsertPlacement") => Restates(s, h, out.put.row)
    BY <1>6, <1>7, <1>8 DEF Shape
<1>10. out.flag # None => Restates(s, h, out.flag)
    BY <1>6, <1>7 DEF Shape
<1>11. out.content # None => Restates(s, h, out.content)
    BY <1>4, <1>5, <1>6 DEF Shape, Restates, Loose
<1>12. out.create # None => Restates(s, h, out.create)
    BY <1>4, <1>5, <1>6 DEF Shape, Restates
<1>13. OutRestates(s, h, out)
    BY <1>9, <1>10, <1>11, <1>12 DEF OutRestates
<1> QED BY <1>13 DEF out

(* A row a sync writes, keyed back or not, restates its item's body.       *)
LEMMA KeyBackFolds ==
    ASSUME NEW s \in Source, NEW h \in Handle, NEW op \in Op,
           (op # Keep /\ op.op = "UpsertPlacement") => Restates(s, h, op.row)
    PROVE  KeyBack(s, h, op) \in Op /\ FoldOp(KeyBack(s, h, op), s, FALSE)
<1>1. CASE op = Keep
    BY <1>1 DEF KeyBack, FoldOp
<1>2. CASE op # Keep /\ op.op = "DropPlacement"
    BY <1>2 DEF KeyBack, FoldOp
<1>3. CASE op # Keep /\ op.op = "UpsertPlacement"
    <2> DEFINE key == KeyBack(s, h, op)
               link == IF op.row.link_id = None /\ BoundAt(hub, s, h) # {}
                       THEN The(BoundAt(hub, s, h)) ELSE op.row.link_id
    <2>1. op \in ReplicaWriteOp /\ Restates(s, h, op.row)
        BY <1>3 DEF Op
    <2>2. /\ key \in ReplicaWriteOp /\ key.op = "UpsertPlacement"
          /\ key.row.link_id = link
          /\ key.row.status = op.row.status /\ key.row.object = op.row.object
        BY <1>3, <2>1, KeyBackUpsert
    <2> HIDE DEF key
    <2>3. FoldRow(key.row, s, FALSE)
        BY <2>1, <2>2 DEF FoldRow, Restates
    <2> QED BY <2>2, <2>3 DEF Op, FoldOp, key
<1> QED BY <1>1, <1>2, <1>3 DEF Op, ReplicaWriteOp

(* What an answered outcome adds to the batch restates its item's body too. *)
LEMMA OutcomeOpsFold ==
    ASSUME TypeOK, RunInv, SelfInv, run # None, NEW h \in Answered
    PROVE  /\ OutcomeOps(h).here \in Op /\ OutcomeOps(h).there \in Op
           /\ OutcomeOps(h).to \in Handle
           /\ FoldOp(OutcomeOps(h).here, run.source, FALSE)
           /\ FoldOp(OutcomeOps(h).there, run.source, FALSE)
<1> DEFINE s == run.source
           out == run.outs[h]
           result == run.results[h]
           Folds(ops) == /\ ops.here \in Op /\ ops.there \in Op /\ ops.to \in Handle
                         /\ FoldOp(ops.here, s, FALSE) /\ FoldOp(ops.there, s, FALSE)
           FoldsOp(op) == op \in Op /\ FoldOp(op, s, FALSE)
<1>1. /\ h \in Handle /\ result # None /\ h \in DOMAIN run.outs
      /\ OutFits(s, h, out) /\ OutRestates(s, h, out) /\ out.push # None
    BY DEF Answered, RunInv, ResultFits, SelfInv
<1>2. /\ result \in PushResult /\ Sound(out) /\ out \in Outcome
    BY <1>1 DEF TypeOK, OutFits, Sound
<1>3. /\ result.accepted \in BOOLEAN /\ result.revision \in Opt(Revision)
      /\ result.assigned \in Opt(Handle)
      /\ out.flag \in Opt(ReplicaPlacement) /\ out.content \in Opt(ReplicaPlacement)
      /\ out.create \in Opt(ReplicaPlacement) /\ out.drop \in BOOLEAN
      /\ out.push \in ReplicaChange
      /\ out.push.kind \in {"SetFlags", "Update", "Remove", "Add"}
    BY <1>1, <1>2 DEF Outcome, PushResult, ReplicaChange
<1>4. /\ out.flag # None <=> out.push.kind = "SetFlags"
      /\ out.content # None <=> out.push.kind = "Update"
      /\ out.drop = TRUE <=> out.push.kind = "Remove"
      /\ out.create # None <=> out.push.kind = "Add"
    BY <1>1, <1>2 DEF Sound, Agrees
<1>5. OutcomeOps(h) =
         CASE ~result.accepted -> Ops(Keep, h, Keep)
           [] result.accepted /\ out.flag # None ->
                 Ops(Upsert(Rebase(out.flag, out.flag.flags)), h, Keep)
           [] result.accepted /\ out.content # None ->
                 Ops(Upsert(RebaseContent(out.content, result.revision)), h, Keep)
           [] result.accepted /\ out.drop -> Ops(Drop("Deleted"), h, Keep)
           [] result.accepted /\ out.create # None ->
                 IF result.assigned = None THEN Ops(Drop("Superseded"), h, Keep)
                 ELSE Ops(Drop("Superseded"), result.assigned,
                          Upsert(RekeyCreate(out.create, result.revision)))
    BY DEF OutcomeOps
<1> HIDE DEF s, out, result
<1>6. \A here, to, there : (FoldsOp(here) /\ to \in Handle /\ FoldsOp(there)) =>
         Folds(Ops(here, to, there))
    BY DEF Ops
<1>7. FoldsOp(Keep)
    BY DEF Op, FoldOp
<1>8. FoldsOp(Drop("Deleted")) /\ FoldsOp(Drop("Superseded"))
    BY OpTypes DEF Op, FoldOp, Drop, DropReason
<1>9. ASSUME NEW p, NEW q \in ReplicaPlacement, Restates(s, h, p),
             q.link_id = p.link_id, q.object = p.object, q.status # "Tombstone"
      PROVE  FoldsOp(Upsert(q))
    <2>1. FoldRow(q, s, FALSE)
        BY <1>9 DEF FoldRow, Restates
    <2>2. Upsert(q) \in ReplicaWriteOp /\ Upsert(q).row = q
        BY <1>9 DEF Upsert, ReplicaWriteOp
    <2> QED BY <2>1, <2>2, MergeAssumption DEF Op, FoldOp, Upsert
<1>10. out.flag # None => FoldsOp(Upsert(Rebase(out.flag, out.flag.flags)))
    <2> SUFFICES ASSUME out.flag # None
                 PROVE  FoldsOp(Upsert(Rebase(out.flag, out.flag.flags)))
        OBVIOUS
    <2>1. PICK p : p = out.flag
        OBVIOUS
    <2>2. p \in ReplicaPlacement /\ Restates(s, h, p)
        BY <1>1, <1>3, <2>1 DEF OutRestates
    <2>3. PICK q : q = Rebase(p, p.flags)
        OBVIOUS
    <2>4. q \in ReplicaPlacement
        BY <2>2, <2>3, FlagRewriteType DEF ReplicaPlacement
    <2>5. q.link_id = p.link_id /\ q.object = p.object /\ q.status # "Tombstone"
        BY <2>2, <2>3 DEF Rebase, FlagStatus, ReplicaPlacement
    <2>6. FoldsOp(Upsert(q))
        BY <1>9, <2>2, <2>4, <2>5
    <2> QED BY <2>1, <2>3, <2>6
<1>11. out.content # None =>
          FoldsOp(Upsert(RebaseContent(out.content, result.revision)))
    <2> SUFFICES ASSUME out.content # None
                 PROVE  FoldsOp(Upsert(RebaseContent(out.content, result.revision)))
        OBVIOUS
    <2>1. PICK p : p = out.content
        OBVIOUS
    <2>2. p \in ReplicaPlacement /\ Restates(s, h, p)
        BY <1>1, <1>3, <2>1 DEF OutRestates
    <2>3. PICK q : q = RebaseContent(p, result.revision)
        OBVIOUS
    <2>4. q \in ReplicaPlacement
        BY <1>3, <2>2, <2>3, RebaseContentType
    <2>5. q.link_id = p.link_id /\ q.object = p.object /\ q.status # "Tombstone"
        BY <2>2, <2>3 DEF RebaseContent, Restates, ReplicaPlacement
    <2>6. FoldsOp(Upsert(q))
        BY <1>9, <2>2, <2>4, <2>5
    <2> QED BY <2>1, <2>3, <2>6
<1>12. out.create # None =>
          FoldsOp(Upsert(RekeyCreate(out.create, result.revision)))
    <2> SUFFICES ASSUME out.create # None
                 PROVE  FoldsOp(Upsert(RekeyCreate(out.create, result.revision)))
        OBVIOUS
    <2>1. PICK p : p = out.create
        OBVIOUS
    <2>2. p \in ReplicaPlacement /\ Restates(s, h, p)
        BY <1>1, <1>3, <2>1 DEF OutRestates
    <2>3. PICK q : q = RekeyCreate(p, result.revision)
        OBVIOUS
    <2>4. q \in ReplicaPlacement
        BY <1>3, <2>2, <2>3, RekeyCreateType
    <2>5. q.link_id = p.link_id /\ q.object = p.object /\ q.status # "Tombstone"
        BY <2>2, <2>3 DEF RekeyCreate, ReplicaPlacement
    <2>6. FoldsOp(Upsert(q))
        BY <1>9, <2>2, <2>4, <2>5
    <2> QED BY <2>1, <2>3, <2>6
<1>13. Folds(OutcomeOps(h))
    <2> HIDE DEF Folds, FoldsOp
    <2>1. CASE ~result.accepted
        <3>1. OutcomeOps(h) = Ops(Keep, h, Keep)
            BY <1>3, <1>5, <2>1
        <3> QED BY <1>1, <1>6, <1>7, <3>1
    <2>2. CASE result.accepted /\ out.push.kind = "SetFlags"
        <3>1. OutcomeOps(h) = Ops(Upsert(Rebase(out.flag, out.flag.flags)), h, Keep)
            BY <1>4, <1>5, <2>2
        <3> QED BY <1>1, <1>4, <1>6, <1>7, <1>10, <2>2, <3>1
    <2>3. CASE result.accepted /\ out.push.kind = "Update"
        <3>1. OutcomeOps(h)
                 = Ops(Upsert(RebaseContent(out.content, result.revision)), h, Keep)
            BY <1>4, <1>5, <2>3
        <3> QED BY <1>1, <1>4, <1>6, <1>7, <1>11, <2>3, <3>1
    <2>4. CASE result.accepted /\ out.push.kind = "Remove"
        <3>1. OutcomeOps(h) = Ops(Drop("Deleted"), h, Keep)
            BY <1>3, <1>4, <1>5, <2>4
        <3> QED BY <1>1, <1>6, <1>7, <1>8, <3>1
    <2>5. CASE result.accepted /\ out.push.kind = "Add"
        <3>1. OutcomeOps(h) =
                 IF result.assigned = None THEN Ops(Drop("Superseded"), h, Keep)
                 ELSE Ops(Drop("Superseded"), result.assigned,
                          Upsert(RekeyCreate(out.create, result.revision)))
            BY <1>3, <1>4, <1>5, <2>5
        <3>2. CASE result.assigned = None
            BY <1>1, <1>6, <1>7, <1>8, <3>1, <3>2
        <3>3. CASE result.assigned # None
            BY <1>3, <1>4, <1>6, <1>8, <1>12, <2>5, <3>1, <3>3
        <3> QED BY <3>2, <3>3
    <2> QED BY <1>3, <2>1, <2>2, <2>3, <2>4, <2>5
<1> QED BY <1>13 DEF s

LEMMA WriteFolds ==
    ASSUME HubInv, SelfInv, HubWrite
    PROVE  SelfInv' /\ \A link \in LinkId : ~SelfDiverges(link)
<1> DEFINE s == run.source
           batch == [h \in DOMAIN run.outs |-> run.outs[h].put]
           merged == AbsorbBatch(Store(s), s, batch)
           ops == [h \in Answered |-> OutcomeOps(h)]
           st == Absorb(merged, s, ops)
<1>1. run # None /\ run' = None /\ WriteBack(s, st)
    BY DEF HubWrite
<1>2. TypeOK /\ StoreInv /\ RunInv /\ s \in Source
    BY <1>1 DEF HubInv, TypeOK
<1>3. /\ DOMAIN batch = DOMAIN run.outs /\ DOMAIN run.outs \subseteq Handle
      /\ \A h \in DOMAIN batch :
            /\ batch[h] = run.outs[h].put
            /\ run.outs[h] \in Outcome /\ OutRestates(s, h, run.outs[h])
    BY <1>1, <1>2 DEF RunInv, TypeOK, SelfInv
<1> HIDE DEF batch
<1>4. ASSUME NEW h \in DOMAIN batch
      PROVE  /\ KeyBack(s, h, batch[h]) \in Op
             /\ FoldOp(KeyBack(s, h, batch[h]), s, FALSE)
    <2>1. batch[h] \in Op /\ h \in Handle
        BY <1>3 DEF Outcome, Op
    <2>2. (batch[h] # Keep /\ batch[h].op = "UpsertPlacement") =>
             Restates(s, h, batch[h].row)
        BY <1>3 DEF OutRestates
    <2> QED BY <1>2, <2>1, <2>2, KeyBackFolds
<1>5. FoldStore(merged, s, FALSE)
    BY <1>2, <1>3, <1>4, FoldRows
<1> HIDE DEF merged
<1>6. DOMAIN ops = Answered /\ \A h \in Answered : ops[h] = OutcomeOps(h)
    OBVIOUS
<1>7. Answered \subseteq Handle
    BY DEF Answered
<1> HIDE DEF ops
<1>8. \A h \in DOMAIN ops :
         /\ ops[h].here \in Op /\ ops[h].there \in Op /\ ops[h].to \in Handle
         /\ FoldOp(ops[h].here, s, FALSE) /\ FoldOp(ops[h].there, s, FALSE)
    BY <1>1, <1>2, <1>6, OutcomeOpsFold
<1>9. FoldStore(st, s, FALSE)
    BY <1>2, <1>5, <1>6, <1>7, <1>8, FoldBatch
<1> HIDE DEF st
<1> QED BY <1>1, <1>2, <1>9, FoldWrite

(* A step that writes nothing leaves no item diverged. *)
LEMMA NothingDiverges ==
    ASSUME hub' = hub
    PROVE  \A link \in LinkId : ~SelfDiverges(link)
BY DEF SelfDiverges

LEMMA BeginFolds ==
    ASSUME HubInv, SelfInv, NEW s \in Source, BeginSync(s)
    PROVE  SelfInv' /\ \A link \in LinkId : ~SelfDiverges(link)
<1>1. PICK outs :
         /\ outs = [h \in {k \in Handle : OutcomeAt(s, k) # Nothing} |->
                      OutcomeAt(s, h)]
         /\ run' = [source   |-> s,
                    outs     |-> outs,
                    unserved |-> {h \in DOMAIN outs : outs[h].push # None},
                    results  |-> [h \in Handle |-> None]]
    BY BeginRun
<1>2. hub' = hub /\ folded' = folded
    BY DEF BeginSync
<1>3. \A h \in DOMAIN outs : OutRestates(s, h, outs[h])
    BY <1>1, OutcomeEchoes DEF HubInv
<1>4. run'.source = s /\ run'.outs = outs
    BY <1>1
<1>5. \A h \in DOMAIN outs : OutRestates(s, h, outs[h])'
    BY <1>2, <1>3 DEF OutRestates, Restates, BoundAt
<1>6. SelfInv'
    BY <1>2, <1>4, <1>5 DEF SelfInv
<1> QED BY <1>2, <1>6, NothingDiverges

(* The sync under way derives what it did while its hub is not written.    *)
LEMMA OutsRestate ==
    ASSUME SelfInv, hub' = hub, folded' = folded,
           run' # None =>
              run # None /\ run'.source = run.source /\ run'.outs = run.outs
    PROVE  SelfInv' /\ \A link \in LinkId : ~SelfDiverges(link)
<1>1. ASSUME run' # None, NEW h \in DOMAIN run'.outs
      PROVE  OutRestates(run.source, h, run.outs[h])'
    <2>1. OutRestates(run.source, h, run.outs[h])
        BY <1>1 DEF SelfInv
    <2>2. PICK t, out : t = run.source /\ out = run.outs[h]
        OBVIOUS
    <2>3. OutRestates(t, h, out)'
        BY <2>1, <2>2 DEF OutRestates, Restates, BoundAt
    <2> QED BY <1>1, <2>2, <2>3
<1>2. SelfInv'
    BY <1>1 DEF SelfInv
<1> QED BY <1>2, NothingDiverges

LEMMA UpgradeFolds ==
    ASSUME HubInv, SelfInv, NEW s \in Source, HubUpgrade(s)
    PROVE  SelfInv' /\ \A link \in LinkId : ~SelfDiverges(link)
<1>1. TypeOK /\ StoreInv
    BY DEF HubInv
<1>2. PICK rows :
         /\ rows = UpgradedRows(Loaded(s), servers[s])
         /\ WriteBack(s, AbsorbBatch(Store(s), s, [h \in DOMAIN rows |->
                                                      Upsert(rows[h])]))
    BY Zenon DEF HubUpgrade
<1>3. run' = None
    BY DEF HubUpgrade
<1> DEFINE batch == [h \in DOMAIN rows |-> Upsert(rows[h])]
           st == AbsorbBatch(Store(s), s, batch)
<1>4. ASSUME NEW h \in DOMAIN rows
      PROVE  /\ h \in Handle /\ KeyBack(s, h, batch[h]) \in Op
             /\ FoldOp(KeyBack(s, h, batch[h]), s, TRUE)
    <2>1. PICK q : q = rows[h]
        OBVIOUS
    <2>2. /\ h \in Handle /\ q \in ReplicaPlacement /\ q.link_id # None
          /\ q.status = "Tombstone" =>
                LET p == Loaded(s)[h]
                IN  p # None /\ p.status = "Tombstone" /\ p.link_id = q.link_id
        BY <1>1, <1>2, <2>1, UpgradedFits
    <2>3. FoldRow(q, s, TRUE)
        BY <1>1, <2>2, LoadedShares DEF FoldRow
    <2>4. PICK op : op = Upsert(q)
        OBVIOUS
    <2>5. op \in ReplicaWriteOp /\ op.row = q
        BY <2>2, <2>4 DEF Upsert, ReplicaWriteOp
    <2>6. op.op = "UpsertPlacement" /\ KeyBack(s, h, op) = op
        BY <2>2, <2>4, <2>5 DEF KeyBack, Upsert
    <2>7. KeyBack(s, h, op) \in Op /\ FoldOp(KeyBack(s, h, op), s, TRUE)
        BY <2>3, <2>5, <2>6 DEF Op, FoldOp
    <2> QED BY <2>1, <2>2, <2>4, <2>7
<1>5. DOMAIN batch = DOMAIN rows /\ DOMAIN batch \subseteq Handle
    BY <1>4
<1> HIDE DEF batch
<1>6. FoldStore(st, s, TRUE)
    BY <1>1, <1>4, <1>5, FoldRows
<1>7. WriteBack(s, st)
    BY <1>2 DEF batch
<1> HIDE DEF st
<1> QED BY <1>1, <1>3, <1>6, <1>7, FoldWrite

LEMMA MutateFolds ==
    ASSUME HubInv, SelfInv, NEW s \in Source, NEW h \in Handle,
           NEW p \in ReplicaPlacement, run = None, Mutate(s, h, p),
           FoldRow(p, s, TRUE)
    PROVE  SelfInv' /\ \A link \in LinkId : ~SelfDiverges(link)
<1> DEFINE st == AbsorbOp(Store(s), s, h, Upsert(p))
<1>1. WriteBack(s, st) /\ run' = None
    BY DEF Mutate
<1>2. TypeOK
    BY DEF HubInv
<1>3. PICK op : op = Upsert(p)
    OBVIOUS
<1>4. op \in ReplicaWriteOp /\ op.op = "UpsertPlacement" /\ op.row = p
    BY <1>3 DEF Upsert, ReplicaWriteOp
<1>5. op \in Op /\ FoldOp(op, s, TRUE)
    BY <1>4 DEF Op, FoldOp
<1>6. FoldStore(Store(s), s, TRUE)
    BY <1>2, FoldStart
<1>7. FoldStore(AbsorbOp(Store(s), s, h, op), s, TRUE)
    BY <1>5, <1>6, FoldOpKeeps
<1>8. FoldStore(st, s, TRUE)
    BY <1>3, <1>7
<1> HIDE DEF st
<1> QED BY <1>1, <1>2, <1>8, FoldWrite

(* The user removes what its source holds, never what it is merely         *)
(* offered.                                                                *)
HeldRemove ==
    \A s \in Source, h \in Handle : UserRemove(s, h) => BoundAt(hub, s, h) # {}

LEMMA UserFolds ==
    ASSUME HubInv, SelfInv, User, HeldRemove
    PROVE  SelfInv' /\ \A link \in LinkId : ~SelfDiverges(link)
<1>1. ASSUME NEW s \in Source, NEW h \in Handle, Live(s, h)
      PROVE  /\ Loaded(s)[h] \in ReplicaPlacement
             /\ Loaded(s)[h].link_id # None /\ Loaded(s)[h].status # "Tombstone"
             /\ BoundAt(hub, s, h) \subseteq {Loaded(s)[h].link_id}
    BY <1>1, LiveRow DEF RowFits
<1>2. ASSUME NEW s \in Source, NEW h \in Handle, UserEdit(s, h)
      PROVE  SelfInv' /\ \A link \in LinkId : ~SelfDiverges(link)
    <2>1. PICK p : p = Loaded(s)[h]
        OBVIOUS
    <2>2. p \in ReplicaPlacement /\ p.status # "Tombstone"
        BY <1>1, <1>2, <2>1 DEF UserEdit
    <2>3. PICK b \in NewBodies \cup
                        (IF p.base = None THEN {} ELSE {p.base.object} \ {None}) :
             Mutate(s, h, EditMutation(p, b, None))
        BY <1>2, <2>1, Zenon DEF UserEdit
    <2>4. b \in Body
        BY <2>2, <2>3 DEF NewBodies, FreshBodies, The, ReplicaPlacement, ReplicaBase
    <2>5. PICK q : q = EditMutation(p, b, None)
        OBVIOUS
    <2>6. q \in ReplicaPlacement /\ q.status # "Tombstone"
        BY <2>2, <2>4, <2>5, EditShape
    <2>7. FoldRow(q, s, TRUE) /\ run = None
        BY <1>2, <2>6 DEF FoldRow, UserEdit, MayMutate
    <2> QED BY <2>3, <2>5, <2>6, <2>7, MutateFolds
<1>3. ASSUME NEW s \in Source, NEW h \in Handle, UserRemove(s, h)
      PROVE  SelfInv' /\ \A link \in LinkId : ~SelfDiverges(link)
    <2>1. PICK p : p = Loaded(s)[h]
        OBVIOUS
    <2>2. p \in ReplicaPlacement /\ BoundAt(hub, s, h) \subseteq {p.link_id}
        BY <1>1, <1>3, <2>1 DEF UserRemove
    <2>3. hub[p.link_id] # None /\ hub[p.link_id].sources[s] # None
        <3>1. BoundAt(hub, s, h) # {}
            BY <1>3 DEF HeldRemove
        <3> QED BY <2>2, <3>1 DEF BoundAt
    <2>4. PICK q : q = RemoveMutation(p)
        OBVIOUS
    <2>5. q \in ReplicaPlacement /\ q.link_id = p.link_id
        BY <2>2, <2>4 DEF RemoveMutation, ReplicaPlacement, ReplicaStatus
    <2>6. FoldRow(q, s, TRUE) /\ run = None
        BY <1>3, <2>3, <2>5 DEF FoldRow, UserRemove, MayMutate
    <2>7. Mutate(s, h, q)
        BY <1>3, <2>1, <2>4 DEF UserRemove
    <2> QED BY <2>5, <2>6, <2>7, MutateFolds
<1>4. ASSUME NEW s \in Source, NEW h \in Handle, NEW flags \in SUBSET Flag,
             UserSetFlags(s, h, flags)
      PROVE  SelfInv' /\ \A link \in LinkId : ~SelfDiverges(link)
    <2>1. PICK p : p = Loaded(s)[h]
        OBVIOUS
    <2>2. p \in ReplicaPlacement /\ p.status # "Tombstone"
        BY <1>1, <1>4, <2>1 DEF UserSetFlags
    <2>3. PICK q : q = SetFlagsMutation(p, flags)
        OBVIOUS
    <2>4. q \in ReplicaPlacement /\ q.status # "Tombstone"
        <3>1. PICK status : status = IF p.status = "Clean" THEN "Dirty" ELSE p.status
            OBVIOUS
        <3>2. status \in ReplicaStatus /\ status # "Tombstone"
            BY <2>2, <3>1 DEF ReplicaPlacement, ReplicaStatus
        <3>3. q = [p EXCEPT !.flags = flags, !.status = status]
            BY <2>3, <3>1 DEF SetFlagsMutation
        <3>4. flags \in ReplicaFlags
            BY DEF ReplicaFlags
        <3> QED BY <2>2, <3>2, <3>3, <3>4 DEF ReplicaPlacement
    <2>5. FoldRow(q, s, TRUE) /\ run = None
        BY <1>4, <2>4 DEF FoldRow, UserSetFlags, MayMutate
    <2>6. Mutate(s, h, q)
        BY <1>4, <2>1, <2>3 DEF UserSetFlags
    <2> QED BY <2>4, <2>5, <2>6, MutateFolds
<1>5. ASSUME NEW s \in Source, UserAdd(s)
      PROVE  SelfInv' /\ \A link \in LinkId : ~SelfDiverges(link)
    <2>1. PICK b \in NewBodies :
             Mutate(s, Provisional, AddMutation(Authored, b, None, {}))
        BY <1>5 DEF UserAdd
    <2>2. b \in Body /\ Provisional \in Handle /\ Authored \in LinkId
        BY <2>1, HubAssumption DEF NewBodies, FreshBodies, The
    <2>3. PICK q : q = AddMutation(Authored, b, None, {})
        OBVIOUS
    <2>4. q \in ReplicaPlacement /\ q.status = "Created"
        BY <2>2, <2>3 DEF AddMutation, CreatedPlacement, ReplicaPlacement,
                          ReplicaStatus, ReplicaLevel, ReplicaFlags
    <2>5. FoldRow(q, s, TRUE) /\ run = None
        BY <1>5, <2>4 DEF FoldRow, UserAdd, MayMutate
    <2> QED BY <2>1, <2>2, <2>3, <2>4, <2>5, MutateFolds
<1> QED BY <1>2, <1>3, <1>4, <1>5 DEF User

LEMMA SelfInit == Init => SelfInv
BY DEF Init, SelfInv

LEMMA SelfNext ==
    HubInv /\ SelfInv /\ [Next]_hubVars /\ [HeldRemove]_hubVars =>
        SelfInv' /\ \A link \in LinkId : ~SelfDiverges(link)
<1> SUFFICES ASSUME HubInv, SelfInv, [Next]_hubVars, [HeldRemove]_hubVars
             PROVE  SelfInv' /\ \A link \in LinkId : ~SelfDiverges(link)
    OBVIOUS
<1>1. CASE UNCHANGED hubVars
    BY <1>1, OutsRestate DEF hubVars
<1>2. ASSUME NEW s \in Source, BeginSync(s)
      PROVE  SelfInv' /\ \A link \in LinkId : ~SelfDiverges(link)
    BY <1>2, BeginFolds
<1>3. ASSUME NEW s \in Source, HubUpgrade(s)
      PROVE  SelfInv' /\ \A link \in LinkId : ~SelfDiverges(link)
    BY <1>3, UpgradeFolds
<1>4. CASE HubServe
    <2>1. PICK result, h : run' = [run EXCEPT !.unserved = @ \ {h},
                                              !.results[h] = result]
        BY <1>4 DEF HubServe
    <2>2. run # None
             /\ run = [source |-> run.source, outs |-> run.outs,
                       unserved |-> run.unserved, results |-> run.results]
        BY <1>4 DEF HubServe, HubInv, RunInv
    <2>3. run'.source = run.source /\ run'.outs = run.outs
        BY <2>1, <2>2
    <2> QED BY <1>4, <2>2, <2>3, OutsRestate DEF HubServe
<1>5. CASE HubWrite
    BY <1>5, WriteFolds
<1>6. CASE HubCrash
    BY <1>6, OutsRestate DEF HubCrash
<1>7. CASE User /\ ~UNCHANGED hubVars
    BY <1>7, UserFolds
<1>8. CASE Others
    <2>1. hub' = hub /\ folded' = folded /\ run' = run
        BY <1>8 DEF Others, OthersEdit, OthersRemove, OthersSetFlags, OtherClient
    <2> QED BY <2>1, OutsRestate
<1> QED BY <1>1, <1>2, <1>3, <1>4, <1>5, <1>6, <1>7, <1>8 DEF Next, Run

(* A source never diverges from itself, whatever the policies and rights,  *)
(* however syncs, upgrades, edits, crashes and other clients interleave:   *)
(* an item turns conflicted through a source that held it only over a body *)
(* another source folded in (hub.rs, reconcile_content and binding_of:     *)
(* "never in conflict with a body it folded in itself"), provided the user *)
(* never removes a row its source is merely offered. A tombstone of such a *)
(* row is bound with no shared body (hub.rs, absorb_upsert), and once the  *)
(* delete is reverted the source forgets what it had folded in.            *)
THEOREM NeverItsOwnRival ==
    Spec /\ [][HeldRemove]_hubVars => NoSelfDivergence
<1>1. Init => HubInv /\ SelfInv
    BY HubInit, SelfInit
<1>2. HubInv /\ SelfInv /\ [Next]_hubVars /\ [HeldRemove]_hubVars =>
         HubInv' /\ SelfInv'
    BY HubNext, SelfNext
<1>3. HubInv /\ SelfInv /\ [Next]_hubVars /\ [HeldRemove]_hubVars =>
         [\A link \in LinkId :
            (/\ hub[link] # None /\ hub'[link] # None
             /\ ~hub[link].conflicted /\ hub'[link].conflicted
             /\ hub[link].sources[folded'[link].rival] # None) =>
                folded'[link].rival # folded[link].by]_hubVars
    BY SelfNext DEF SelfDiverges
<1> QED BY <1>1, <1>2, <1>3, PTL DEF Spec, NoSelfDivergence

================================================================================
