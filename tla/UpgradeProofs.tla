----------------------------- MODULE UpgradeProofs -----------------------------
(***************************************************************************)
(* Upgrades and rebuilds beside syncs and mutations. No version is ever    *)
(* held beside another's body, the cursor stays honest, and no locally     *)
(* authored body is hydrated over, for every set of handles, bodies,       *)
(* batches and tiers, wherever other clients move between an upgrade's     *)
(* yields. After the source renumbered its handle space, one verb runs at  *)
(* a time and no locally authored body is lost, however the two handle     *)
(* spaces overlap and wherever other clients move between the enumerate,   *)
(* the fetch and the write.                                                *)
(***************************************************************************)
EXTENDS Rekey, SpineProofs

USE DEF Opt, Revision, remoteVars, stored, mergeVars, pendings, runVars

(* The instances the theorems are about: every edit and create comes with  *)
(* a summary. A row edited without one is lowered by the next Meta upgrade *)
(* and hydrated over by the next Full one: see the README.                 *)
Careful == Cautious /\ None \notin Summaries

--------------------------------------------------------------------------------
(* The inductive invariant, part by part.                                  *)

(* Where an upgrade has got to: nothing else of this replica runs beside   *)
(* it, the rows it loaded are the rows stored, and it fetches and writes   *)
(* those alone that lacked what it is for.                                 *)
Loaded(h) ==
    LET p == upgrade.placements[h]
    IN  /\ p # None => p = store[h]
        /\ (h \in upgrade.handles \/ upgrade.fetched[h] # None) =>
              p # None /\ Needs(p, upgrade.tier)
        /\ upgrade.ops[h] # Keep =>
              p # None /\ upgrade.ops[h].op = "UpsertPlacement"

Staged ==
    upgrade # None =>
        /\ pc = "Idle"
        /\ upgrade.state = "PendingLookup" =>
              /\ upgrade.tier = "Full"
              /\ \A h \in Handle : upgrade.ops[h] = Keep
        /\ upgrade.state \in {"PendingLookup", "PendingFetch"} =>
              upgrade.fetched = None4All
        /\ upgrade.state \in {"PendingLinkCheck", "Applying"} =>
              upgrade.fetched # None4All
        /\ \A h \in Handle : Loaded(h)

UpInv == Inv /\ upgrade \in Opt(ReplicaUpgrade) /\ Staged

(* A row whose body no upgrade is to replace says so: a conflict holds one *)
(* of its own, and a body never synced reads as reached at every tier the  *)
(* server can be asked for.                                                *)
Whole(p, server) ==
    p # None =>
        /\ p.conflict_revision # None => StagedEdit(p)
        /\ StagedEdit(p) => /\ p.level = "Full"
                            /\ server => p.meta # None

WholeRow(h, p) == Whole(p, h \in ServerHandle)

WholeInv ==
    \A h \in Handle :
        /\ WholeRow(h, store[h]) /\ WholeRow(h, Row(h)) /\ WholeRow(h, local[h])
        /\ WholeRow(h, pending_flag_pushes[h])
        /\ WholeRow(h, pending_content_pushes[h])
        /\ WholeRow(h, pending_creates[h])

(* What is fetched for a row is one version of its member, whatever became *)
(* of the member since: the revision goes with the body, the conflict's    *)
(* revision too if it is that one, and the cursor claims no later version. *)
FetchOK(h, p, item) ==
    /\ h \in ServerHandle
    /\ Past(h, item.revision)
    /\ Paired(h, item.revision, item.body)
    /\ Paired(h, p.conflict_revision, item.body)
    /\ (/\ Mutable /\ checkpoint # None
        /\ items[h] # None /\ items[h].seq <= checkpoint) =>
          item.revision = items[h].rev

(* What an upgrade does to a row: the body it brings is the other side of  *)
(* a conflict, or the row had none of its own.                             *)
Raises(q, p) ==
    /\ q.status = p.status
    /\ StagedEdit(p) => q.object = p.object /\ q.base = p.base

(* The row an upgrade writes is sound, and the one it loaded, raised. *)
RaisedOK(h, p, q) ==
    /\ Raises(q, p) /\ RowOK(h, q) /\ WholeRow(h, q)
    /\ checkpoint # None => Covers(h, q, checkpoint)

HydrateInv ==
    upgrade # None =>
        \A h \in Handle :
            /\ upgrade.fetched[h] # None =>
                  FetchOK(h, upgrade.placements[h], upgrade.fetched[h])
            /\ upgrade.ops[h] # Keep =>
                  RaisedOK(h, upgrade.placements[h], upgrade.ops[h].row)

(* The inductive invariant of an upgrade beside the syncs. *)
BesideInv == UpInv /\ SpineInv /\ WholeInv /\ HydrateInv

--------------------------------------------------------------------------------
(* Types.                                                                  *)

(* A placement that lacks what the tier is for, hydrated or linked.        *)
LEMMA HydratedType ==
    ASSUME NEW p \in ReplicaPlacement, NEW item \in ReplicaFetchedItem, NEW tier
    PROVE  Hydrated(p, item, tier) \in ReplicaPlacement
<1>1. /\ "summary" \in Opt(ReplicaMeta) /\ {"Full", "Meta"} \subseteq ReplicaLevel
      /\ item.body \in Opt(Body) /\ item.revision \in Opt(Nat)
    BY DEF ReplicaMeta, ReplicaLevel, ReplicaFetchedItem
<1>2. p.base # None => [p.base EXCEPT !.revision = item.revision,
                                      !.object = item.body] \in ReplicaBase
    BY <1>1 DEF ReplicaPlacement, ReplicaBase
<1>3. CASE tier = "Full" /\ IsConflicted(p)
    BY <1>1, <1>3 DEF Hydrated, ReplicaPlacement
<1>4. CASE tier = "Full" /\ ~IsConflicted(p)
    BY <1>1, <1>2, <1>4 DEF Hydrated, ReplicaPlacement
<1>5. CASE tier # "Full"
    BY <1>1, <1>5 DEF Hydrated, ReplicaPlacement
<1> QED BY <1>3, <1>4, <1>5

LEMMA IdentifyType ==
    ASSUME NEW p \in ReplicaPlacement, NEW item \in ReplicaFetchedItem,
           NEW h \in Handle, NEW claimed
    PROVE  Identify(p, item, h, claimed) \in ReplicaPlacement
<1>1. item.link_id \in LinkId /\ MintLink(item.link_id, h) \in LinkId
    BY UpgradeAssumption DEF ReplicaFetchedItem, MintLink
<1> QED BY <1>1 DEF Identify, ReplicaPlacement

LEMMA LinkFromStoreType ==
    ASSUME NEW p \in ReplicaPlacement, NEW hash \in Body
    PROVE  LinkFromStore(p, hash) \in ReplicaPlacement
<1>1. p.base # None => [p.base EXCEPT !.object = hash] \in ReplicaBase
    BY DEF ReplicaPlacement, ReplicaBase
<1> QED BY <1>1 DEF LinkFromStore, ReplicaPlacement, ReplicaLevel

LEMMA FetchedType ==
    ASSUME TypeOK, NEW h \in Handle, NEW tier
    PROVE  FetchedItem(h, tier) \in Opt(ReplicaFetchedItem)
<1>1. items[h] # None => items[h] \in ServerItem
    BY DEF TypeOK
<1>2. CASE items[h] # None
    <2>1. /\ items[h].link \in LinkId /\ items[h].body \in Opt(Body)
          /\ RevisionOf(items[h].rev) \in Opt(Nat)
        BY <1>1, <1>2 DEF ServerItem, RevisionOf
    <2> QED BY <1>2, <2>1 DEF FetchedItem, ReplicaFetchedItem
<1> QED BY <1>2 DEF FetchedItem

(* What the lookup serves a row with is a body. *)
LEMMA HitsType ==
    ASSUME TypeOK, NEW p
    PROVE  Hits(p) \subseteq Opt(Body)
<1>1. SeedBody \in Body
    BY HandleFacts
<1>2. \A k \in Handle : store[k] # None => store[k].object \in Opt(Body)
    BY DEF TypeOK, ReplicaPlacement
<1> QED BY <1>1, <1>2 DEF Hits, KnownObjects

(* An upgrade that leaves the rest alone, or writes its rows, leaves the   *)
(* sync its invariant.                                                     *)
LEMMA VarsInv ==
    ASSUME Inv, UNCHANGED vars
    PROVE  Inv'
BY NextInv DEF vars

LEMMA IdleInv ==
    ASSUME Inv, pc = "Idle", store' \in [Handle -> Opt(ReplicaPlacement)],
           UNCHANGED <<remoteVars, checkpoint, runVars, spent>>
    PROVE  Inv'
<1>1. TypeOK'
    BY DEF Inv, TypeOK
<1>2. Phases'
    BY DEF Inv, Phases
<1>3. OnePushPerHandle'
    BY DEF Inv, OnePushPerHandle, Owed
<1> QED BY <1>1, <1>2, <1>3 DEF Inv

LEMMA BeginUp ==
    ASSUME UpInv, NEW batch \in Batches, NEW tier \in Tiers,
           BeginUpgrade(batch, tier)
    PROVE  UpInv'
<1> DEFINE loaded  == [h \in Handle |-> IF h \in batch THEN store[h] ELSE None]
           pending == PendingHandles(loaded, batch, tier)
           phase   == IF tier = "Full" /\ \E h \in pending : Linkable(loaded[h])
                      THEN "PendingLookup" ELSE "PendingFetch"
<1>1. /\ pc = "Idle" /\ UNCHANGED vars
      /\ upgrade' = [state |-> phase, tier |-> tier, handles |-> pending,
                     placements |-> loaded, fetched |-> None4All,
                     claimed |-> {}, ops |-> [h \in Handle |-> Keep]]
    BY Zenon DEF BeginUpgrade
<1>2. loaded \in [Handle -> Opt(ReplicaPlacement)]
    BY DEF UpInv, Inv, TypeOK
<1>3. /\ pending \subseteq Handle
      /\ \A h \in pending : loaded[h] # None /\ Needs(loaded[h], tier)
    BY UpgradeAssumption DEF PendingHandles
<1>4. \A h \in Handle : loaded[h] # None => loaded[h] = store[h]
    OBVIOUS
<1>5. tier \in ReplicaTier /\ (phase = "PendingLookup" => tier = "Full")
      /\ phase \in {"PendingLookup", "PendingFetch"}
    BY UpgradeAssumption
<1> HIDE DEF loaded, pending, phase
<1>6. upgrade' \in Opt(ReplicaUpgrade)
    BY <1>1, <1>2, <1>3, <1>5 DEF ReplicaUpgrade, None4All
<1>7. Staged'
    BY <1>1, <1>3, <1>4, <1>5 DEF Staged, Loaded, None4All, vars
<1> QED BY <1>1, <1>6, <1>7, VarsInv DEF UpInv

(* An upgrade under way, its variables typed. *)
LEMMA UpgradeFacts ==
    ASSUME UpInv, upgrade # None
    PROVE  /\ pc = "Idle" /\ TypeOK
           /\ upgrade \in ReplicaUpgrade
           /\ \A h \in Handle :
                 /\ Loaded(h)
                 /\ upgrade.placements[h] \in Opt(ReplicaPlacement)
                 /\ upgrade.fetched[h] \in Opt(ReplicaFetchedItem)
                 /\ upgrade.ops[h] \in ReplicaWriteOp \cup {Keep}
BY DEF UpInv, Inv, Staged, ReplicaUpgrade

(* Writing a placement is no placeholder for an op. *)
LEMMA UpsertFacts ==
    ASSUME NEW q \in ReplicaPlacement
    PROVE  /\ Upsert(q) \in ReplicaWriteOp /\ Upsert(q) # Keep
           /\ Upsert(q).op = "UpsertPlacement" /\ Upsert(q).row = q
BY OpTypes, MergeAssumption DEF Upsert

LEMMA LookupUp ==
    ASSUME UpInv, UpgradeLookup
    PROVE  UpInv'
<1> DEFINE p(h) == upgrade.placements[h]
<1>1. upgrade # None /\ upgrade.state = "PendingLookup" /\ UNCHANGED vars
    BY DEF UpgradeLookup
<1>2. PICK known \in [upgrade.handles -> Opt(Body)] :
        LET rest == {h \in upgrade.handles : known[h] = None}
        IN  /\ \A h \in upgrade.handles : known[h] \in Hits(p(h))
            /\ upgrade' =
                  [upgrade EXCEPT
                      !.state   = IF rest = {} THEN "PendingWrite"
                                  ELSE "PendingFetch",
                      !.handles = rest,
                      !.ops     = [h \in Handle |->
                          IF h \in upgrade.handles \ rest
                          THEN Upsert(LinkFromStore(p(h), known[h]))
                          ELSE Keep]]
    BY Zenon DEF UpgradeLookup
<1> DEFINE rest  == {h \in upgrade.handles : known[h] = None}
           ops   == [h \in Handle |-> IF h \in upgrade.handles \ rest
                                      THEN Upsert(LinkFromStore(p(h), known[h]))
                                      ELSE Keep]
           phase == IF rest = {} THEN "PendingWrite" ELSE "PendingFetch"
<1>3. upgrade' = [upgrade EXCEPT !.state = phase, !.handles = rest, !.ops = ops]
    BY <1>2
<1>4. /\ upgrade \in ReplicaUpgrade /\ pc = "Idle" /\ rest \subseteq upgrade.handles
      /\ phase \in {"PendingWrite", "PendingFetch"}
      /\ \A h \in Handle : Loaded(h) /\ p(h) \in Opt(ReplicaPlacement)
    BY <1>1, UpgradeFacts
<1>5. ASSUME NEW h \in Handle
      PROVE  /\ ops[h] \in ReplicaWriteOp \cup {Keep}
             /\ ops[h] # Keep => /\ h \in upgrade.handles /\ p(h) # None
                                 /\ ops[h].op = "UpsertPlacement"
    <2>1. CASE h \in upgrade.handles \ rest
        <3>1. p(h) \in ReplicaPlacement /\ known[h] \in Body
            BY <1>2, <1>4, <2>1 DEF Loaded
        <3>2. LinkFromStore(p(h), known[h]) \in ReplicaPlacement
            BY <3>1, LinkFromStoreType
        <3>3. ops[h] = Upsert(LinkFromStore(p(h), known[h]))
            BY <2>1
        <3> HIDE DEF ops
        <3> QED BY <2>1, <3>1, <3>2, <3>3, UpsertFacts, SentinelAssumption
    <2>2. CASE h \notin upgrade.handles \ rest
        BY <2>2
    <2> QED BY <2>1, <2>2
<1>6. ops \in [Handle -> ReplicaWriteOp \cup {Keep}]
    BY <1>5
<1> HIDE DEF rest, ops, phase
<1>7. upgrade' \in Opt(ReplicaUpgrade)
    BY <1>3, <1>4, <1>6 DEF ReplicaUpgrade
<1>8. /\ upgrade'.state = phase /\ upgrade'.tier = upgrade.tier
      /\ upgrade'.handles = rest /\ upgrade'.placements = upgrade.placements
      /\ upgrade'.fetched = upgrade.fetched /\ upgrade'.ops = ops
    BY <1>3, <1>4 DEF ReplicaUpgrade
<1>9. upgrade.fetched = None4All
    BY <1>1 DEF UpInv, Staged
<1>10. ASSUME NEW h \in Handle PROVE Loaded(h)'
    BY <1>1, <1>4, <1>5, <1>8 DEF Loaded, vars
<1>11. Staged'
    BY <1>1, <1>4, <1>8, <1>9, <1>10 DEF Staged, None4All, vars
<1> QED BY <1>1, <1>7, <1>11, VarsInv DEF UpInv

LEMMA FetchUp ==
    ASSUME UpInv, UpgradeFetch
    PROVE  UpInv'
<1> DEFINE answer == [h \in Handle |-> IF h \in upgrade.handles
                                       THEN FetchedItem(h, upgrade.tier) ELSE None]
<1>1. /\ upgrade # None /\ upgrade.state = "PendingFetch" /\ UNCHANGED vars
      /\ \E phase \in {"PendingLinkCheck", "PendingWrite", "Applying"} :
            /\ phase # "PendingWrite" => answer # None4All
            /\ upgrade' = [upgrade EXCEPT !.fetched = answer,
                                          !.claimed = Links(upgrade.placements),
                                          !.state   = phase]
    <2> DEFINE fresh == \E h \in Handle :
                  answer[h] # None /\ upgrade.placements[h].link_id = None
               phase == IF fresh THEN "PendingLinkCheck"
                        ELSE IF answer = None4All
                             THEN "PendingWrite" ELSE "Applying"
    <2>1. /\ upgrade # None /\ upgrade.state = "PendingFetch" /\ UNCHANGED vars
          /\ upgrade' = [upgrade EXCEPT !.fetched = answer,
                                        !.claimed = Links(upgrade.placements),
                                        !.state   = phase]
        BY Zenon DEF UpgradeFetch
    <2>2. fresh => answer # None4All
        BY DEF None4All
    <2>3. /\ phase \in {"PendingLinkCheck", "PendingWrite", "Applying"}
          /\ phase # "PendingWrite" => answer # None4All
        BY <2>2
    <2> HIDE DEF phase, answer
    <2> QED BY <2>1, <2>3
<1>2. PICK phase \in {"PendingLinkCheck", "PendingWrite", "Applying"} :
        /\ phase # "PendingWrite" => answer # None4All
        /\ upgrade' = [upgrade EXCEPT !.fetched = answer,
                                      !.claimed = Links(upgrade.placements),
                                      !.state   = phase]
    BY <1>1
<1>3. /\ upgrade \in ReplicaUpgrade /\ pc = "Idle" /\ TypeOK
      /\ \A h \in Handle : Loaded(h) /\ upgrade.placements[h] \in Opt(ReplicaPlacement)
    BY <1>1, UpgradeFacts
<1>4. answer \in [Handle -> Opt(ReplicaFetchedItem)]
    BY <1>3, FetchedType
<1>5. \A h \in Handle : answer[h] # None => h \in upgrade.handles
    OBVIOUS
<1>6. Links(upgrade.placements) \subseteq LinkId
    BY <1>3 DEF Links, ReplicaPlacement
<1> HIDE DEF answer
<1>7. upgrade' \in Opt(ReplicaUpgrade)
    BY <1>2, <1>3, <1>4, <1>6 DEF ReplicaUpgrade
<1>8. /\ upgrade'.state = phase /\ upgrade'.tier = upgrade.tier
      /\ upgrade'.handles = upgrade.handles
      /\ upgrade'.placements = upgrade.placements
      /\ upgrade'.fetched = answer /\ upgrade'.ops = upgrade.ops
    BY <1>2, <1>3 DEF ReplicaUpgrade
<1>9. ASSUME NEW h \in Handle PROVE Loaded(h)'
    BY <1>1, <1>3, <1>5, <1>8 DEF Loaded, vars
<1>10. Staged'
    BY <1>1, <1>2, <1>3, <1>8, <1>9 DEF Staged, None4All, vars
<1> QED BY <1>1, <1>7, <1>10, VarsInv DEF UpInv

LEMMA LinkCheckUp ==
    ASSUME UpInv, UpgradeLinkCheck
    PROVE  UpInv'
<1> DEFINE fresh == {upgrade.fetched[h].link_id : h \in {k \in Handle :
                        /\ upgrade.fetched[k] # None
                        /\ upgrade.placements[k].link_id = None}}
           known == [h \in Handle |->
                        IF upgrade.placements[h] = None /\ h \in Holders(fresh)
                        THEN store[h] ELSE upgrade.placements[h]]
<1>1. /\ upgrade # None /\ upgrade.state = "PendingLinkCheck" /\ UNCHANGED vars
      /\ upgrade' = [upgrade EXCEPT !.state = "Applying", !.placements = known,
                                    !.claimed = Links(known)]
    BY Zenon DEF UpgradeLinkCheck
<1>2. /\ upgrade \in ReplicaUpgrade /\ pc = "Idle" /\ TypeOK
      /\ \A h \in Handle : Loaded(h) /\ upgrade.placements[h] \in Opt(ReplicaPlacement)
    BY <1>1, UpgradeFacts
<1>3. known \in [Handle -> Opt(ReplicaPlacement)]
    BY <1>2 DEF TypeOK
<1>4. \A h \in Handle : /\ known[h] # None => known[h] = store[h]
                        /\ upgrade.placements[h] # None =>
                              known[h] = upgrade.placements[h]
    BY <1>2 DEF Loaded
<1>5. Links(known) \subseteq LinkId
    BY <1>3 DEF Links, ReplicaPlacement
<1> HIDE DEF known
<1>6. upgrade' \in Opt(ReplicaUpgrade)
    BY <1>1, <1>2, <1>3, <1>5 DEF ReplicaUpgrade
<1>7. /\ upgrade'.state = "Applying" /\ upgrade'.tier = upgrade.tier
      /\ upgrade'.handles = upgrade.handles /\ upgrade'.placements = known
      /\ upgrade'.fetched = upgrade.fetched /\ upgrade'.ops = upgrade.ops
    BY <1>1, <1>2 DEF ReplicaUpgrade
<1>8. ASSUME NEW h \in Handle PROVE Loaded(h)'
    BY <1>1, <1>2, <1>4, <1>7 DEF Loaded, vars
<1>9. upgrade.fetched # None4All
    BY <1>1 DEF UpInv, Staged
<1>10. Staged'
    BY <1>1, <1>2, <1>7, <1>8, <1>9 DEF Staged, None4All, vars
<1> QED BY <1>1, <1>6, <1>10, VarsInv DEF UpInv

(* The next fetched item to be written, and the row it makes. *)
LEMMA AppliedNext ==
    ASSUME UpInv, ApplyFetched
    PROVE  \E h \in Handle, q \in ReplicaPlacement, claimed \in SUBSET LinkId :
              LET item == upgrade.fetched[h]
                  p    == upgrade.placements[h]
                  rest == [upgrade.fetched EXCEPT ![h] = None]
              IN  /\ item \in ReplicaFetchedItem /\ item # None
                  /\ p \in ReplicaPlacement
                  /\ \E row \in ReplicaPlacement :
                        /\ row \in {p} \cup {[p EXCEPT !.link_id = link] :
                                                link \in LinkId}
                        /\ q = Hydrated(row, item, upgrade.tier)
                  /\ upgrade' = [upgrade EXCEPT
                        !.fetched = rest,
                        !.claimed = claimed,
                        !.ops     = [@ EXCEPT ![h] = Upsert(q)],
                        !.state   = IF rest = None4All THEN "PendingWrite"
                                    ELSE "Applying"]
<1>1. upgrade # None /\ upgrade.state = "Applying"
    BY DEF ApplyFetched
<1>2. /\ upgrade \in ReplicaUpgrade
      /\ \A h \in Handle : Loaded(h) /\ upgrade.fetched[h] \in Opt(ReplicaFetchedItem)
                           /\ upgrade.placements[h] \in Opt(ReplicaPlacement)
    BY <1>1, UpgradeFacts
<1>3. \E h \in Handle : upgrade.fetched[h] # None
    BY <1>1, <1>2 DEF UpInv, Staged, None4All, ReplicaUpgrade
<1>4. PICK h \in ClaimNext(upgrade.fetched) :
        LET item == upgrade.fetched[h]
            p    == upgrade.placements[h]
            row  == IF upgrade.tier = "Full" /\ IsConflicted(p) THEN p
                    ELSE Identify(p, item, h, upgrade.claimed)
            rest == [upgrade.fetched EXCEPT ![h] = None]
        IN  upgrade' = [upgrade EXCEPT
                !.fetched = rest,
                !.claimed = @ \cup ({row.link_id} \ {None}),
                !.ops     = [@ EXCEPT ![h] =
                                Upsert(Hydrated(row, item, upgrade.tier))],
                !.state   = IF rest = None4All THEN "PendingWrite"
                            ELSE "Applying"]
    BY Zenon DEF ApplyFetched
<1>5. h \in Handle /\ upgrade.fetched[h] # None
    <2> DEFINE S == {k \in Handle : upgrade.fetched[k] # None}
    <2>1. S # {} /\ S \subseteq Nat
        BY <1>3, HandleFacts
    <2>2. h = Least(S)
        BY <1>4 DEF ClaimNext
    <2> HIDE DEF S
    <2>3. h \in S
        BY <2>1, <2>2, LeastIn
    <2> QED BY <2>3 DEF S
<1> DEFINE item == upgrade.fetched[h]
           p    == upgrade.placements[h]
           row  == IF upgrade.tier = "Full" /\ IsConflicted(p) THEN p
                   ELSE Identify(p, item, h, upgrade.claimed)
           q    == Hydrated(row, item, upgrade.tier)
           claimed == upgrade.claimed \cup ({row.link_id} \ {None})
<1>6. item \in ReplicaFetchedItem /\ p \in ReplicaPlacement
    BY <1>2, <1>5 DEF Loaded
<1>7. /\ row \in ReplicaPlacement
      /\ row \in {p} \cup {[p EXCEPT !.link_id = link] : link \in LinkId}
    <2>1. item.link_id \in LinkId /\ MintLink(item.link_id, h) \in LinkId
        BY <1>5, <1>6, UpgradeAssumption DEF ReplicaFetchedItem, MintLink
    <2>2. Identify(p, item, h, upgrade.claimed) \in ReplicaPlacement
        BY <1>5, <1>6, IdentifyType
    <2> QED BY <1>6, <2>1, <2>2 DEF Identify
<1> HIDE DEF row
<1>8. q \in ReplicaPlacement
    BY <1>6, <1>7, HydratedType
<1>9. claimed \in SUBSET LinkId
    BY <1>2, <1>7 DEF ReplicaUpgrade, ReplicaPlacement
<1>10. upgrade' = [upgrade EXCEPT
            !.fetched = [upgrade.fetched EXCEPT ![h] = None],
            !.claimed = claimed,
            !.ops     = [@ EXCEPT ![h] = Upsert(q)],
            !.state   = IF [upgrade.fetched EXCEPT ![h] = None] = None4All
                        THEN "PendingWrite" ELSE "Applying"]
    BY <1>4, Zenon DEF row, q, claimed, item, p
<1> HIDE DEF q, claimed
<1>11. \E r \in ReplicaPlacement :
        /\ r \in {p} \cup {[p EXCEPT !.link_id = link] : link \in LinkId}
        /\ q = Hydrated(r, item, upgrade.tier)
    BY <1>7 DEF q
<1> QED BY <1>5, <1>6, <1>8, <1>9, <1>10, <1>11

LEMMA ApplyUp ==
    ASSUME UpInv, ApplyFetched
    PROVE  UpInv'
<1>1. /\ upgrade # None /\ upgrade.state = "Applying" /\ UNCHANGED vars
    BY DEF ApplyFetched
<1>2. PICK h \in Handle, q \in ReplicaPlacement, claimed \in SUBSET LinkId :
        /\ upgrade.fetched[h] # None
        /\ upgrade' = [upgrade EXCEPT
              !.fetched = [upgrade.fetched EXCEPT ![h] = None],
              !.claimed = claimed,
              !.ops     = [@ EXCEPT ![h] = Upsert(q)],
              !.state   = IF [upgrade.fetched EXCEPT ![h] = None] = None4All
                          THEN "PendingWrite" ELSE "Applying"]
    BY AppliedNext
<1> DEFINE rest  == [upgrade.fetched EXCEPT ![h] = None]
           ops   == [upgrade.ops EXCEPT ![h] = Upsert(q)]
           phase == IF rest = None4All THEN "PendingWrite" ELSE "Applying"
<1>3. upgrade' = [upgrade EXCEPT !.fetched = rest, !.claimed = claimed,
                                 !.ops = ops, !.state = phase]
    BY <1>2
<1>4. /\ upgrade \in ReplicaUpgrade /\ pc = "Idle" /\ TypeOK
      /\ \A k \in Handle : Loaded(k)
    BY <1>1, UpgradeFacts
<1>5. /\ rest \in [Handle -> Opt(ReplicaFetchedItem)]
      /\ \A k \in Handle : rest[k] # None => upgrade.fetched[k] # None
    BY <1>4 DEF ReplicaUpgrade
<1>6. /\ ops \in [Handle -> ReplicaWriteOp \cup {Keep}]
      /\ ops[h].op = "UpsertPlacement"
      /\ \A k \in Handle \ {h} : ops[k] = upgrade.ops[k]
    BY <1>4, UpsertFacts DEF ReplicaUpgrade
<1>7. /\ phase \in {"PendingWrite", "Applying"}
      /\ phase = "Applying" => rest # None4All
    OBVIOUS
<1> HIDE DEF rest, ops, phase
<1>8. upgrade' \in Opt(ReplicaUpgrade)
    BY <1>3, <1>4, <1>5, <1>6, <1>7 DEF ReplicaUpgrade
<1>9. /\ upgrade'.state = phase /\ upgrade'.tier = upgrade.tier
      /\ upgrade'.handles = upgrade.handles
      /\ upgrade'.placements = upgrade.placements
      /\ upgrade'.fetched = rest /\ upgrade'.ops = ops
    BY <1>3, <1>4 DEF ReplicaUpgrade
<1>10. ASSUME NEW k \in Handle PROVE Loaded(k)'
    BY <1>1, <1>2, <1>4, <1>5, <1>6, <1>9 DEF Loaded, vars
<1>11. Staged'
    BY <1>1, <1>4, <1>7, <1>9, <1>10 DEF Staged, None4All, vars
<1> QED BY <1>1, <1>8, <1>11, VarsInv DEF UpInv

LEMMA WriteUp ==
    ASSUME UpInv, UpgradeWrite
    PROVE  UpInv'
<1>1. /\ upgrade # None /\ upgrade' = None /\ store' = Applied(store, upgrade.ops)
      /\ UNCHANGED <<remoteVars, checkpoint, runVars, spent>>
    BY DEF UpgradeWrite
<1>2. /\ pc = "Idle" /\ TypeOK /\ Inv
      /\ \A h \in Handle : Loaded(h) /\ upgrade.ops[h] \in ReplicaWriteOp \cup {Keep}
    BY <1>1, UpgradeFacts DEF UpInv
<1>3. \A h \in Handle : upgrade.ops[h] # Keep => upgrade.ops[h].row \in ReplicaPlacement
    BY <1>2 DEF Loaded, ReplicaWriteOp
<1>4. store' \in [Handle -> Opt(ReplicaPlacement)]
    BY <1>1, <1>2, <1>3 DEF Applied, Loaded, TypeOK
<1>5. Inv'
    BY <1>1, <1>2, <1>4, IdleInv
<1> QED BY <1>1, <1>5 DEF UpInv, Staged

(* A step of the sync's own, or of other clients beside an upgrade. *)
LEMMA BesideUp ==
    ASSUME UpInv, SyncBeside
    PROVE  UpInv'
<1>1. CASE upgrade = None /\ Next /\ upgrade' = upgrade
    BY <1>1, NextInv DEF UpInv, Staged
<1>2. CASE upgrade # None /\ Others /\ upgrade' = upgrade
    <2>1. UNCHANGED <<stored, runVars>>
        BY <1>2, OthersMove DEF OtherClient
    <2>2. Staged'
        BY <1>2, <2>1 DEF UpInv, Staged, Loaded, None4All
    <2> QED BY <1>2, <2>2, OthersInv DEF UpInv
<1> QED BY <1>1, <1>2 DEF SyncBeside

LEMMA CrashUp ==
    ASSUME UpInv, UpgradeCrash
    PROVE  UpInv'
<1>1. /\ upgrade' = None /\ UNCHANGED <<remoteVars, stored, runVars>>
      /\ Spend("fault", MaxFault)
    BY DEF UpgradeCrash
<1>2. spent' \in [{"user", "remote", "fault"} -> Nat]
    BY <1>1, SpendType DEF UpInv, Inv
<1>3. TypeOK'
    BY <1>1, <1>2 DEF UpInv, Inv, TypeOK
<1>4. Phases'
    BY <1>1 DEF UpInv, Inv, Phases
<1>5. OnePushPerHandle'
    BY <1>1 DEF UpInv, Inv, OnePushPerHandle, Owed
<1> QED BY <1>1, <1>3, <1>4, <1>5 DEF UpInv, Inv, Staged

LEMMA UpNext == UpInv /\ [UpgradeNext]_upgradeVars => UpInv'
<1> SUFFICES ASSUME UpInv, [UpgradeNext]_upgradeVars PROVE UpInv'
    OBVIOUS
<1>1. CASE SyncBeside
    BY <1>1, BesideUp
<1>2. ASSUME NEW batch \in Batches, NEW tier \in Tiers, BeginUpgrade(batch, tier)
      PROVE  UpInv'
    BY <1>2, BeginUp
<1>3. CASE UpgradeRun
    BY <1>3, LookupUp, FetchUp, LinkCheckUp, ApplyUp, WriteUp DEF UpgradeRun
<1>4. CASE UpgradeCrash
    BY <1>4, CrashUp
<1>5. CASE UNCHANGED upgradeVars
    <2>1. UNCHANGED vars /\ upgrade' = upgrade
        BY <1>5 DEF upgradeVars
    <2>2. Staged'
        BY <2>1 DEF UpInv, Staged, Loaded, None4All, vars
    <2> QED BY <2>1, <2>2, VarsInv DEF UpInv
<1> QED BY <1>1, <1>2, <1>3, <1>4, <1>5 DEF UpgradeNext

(* The coroutine is always in one of its states, beside an idle sync: a    *)
(* batch is loaded, looked up, fetched, checked and written with the rows  *)
(* it loaded still the rows stored (upgrade.rs, resume; client.rs, the     *)
(* single writer between a load and its write).                            *)
THEOREM UpgradeTypeCorrect == UpgradeSpec => []UpgradeTypeOK
<1>1. UpgradeInit => UpInv
    BY InitInv DEF UpgradeInit, UpInv, Staged
<1>2. UpInv => UpgradeTypeOK
    BY DEF UpInv, Inv, TypeOK, Staged, UpgradeTypeOK
<1> QED BY <1>1, <1>2, UpNext, PTL DEF UpgradeSpec

--------------------------------------------------------------------------------
(* The merge keeps rows whole.                                             *)

(* Rows with the same body, base and summary are whole together. *)
LEMMA SameBody ==
    ASSUME NEW p \in ReplicaPlacement, NEW q \in ReplicaPlacement, NEW s,
           Whole(p, s), StagedEdit(q) <=> StagedEdit(p),
           q.level = p.level, q.meta = p.meta,
           q.conflict_revision # None =>
               p.conflict_revision # None \/ StagedEdit(p)
    PROVE  Whole(q, s)
<1>1. p # None
    BY SentinelAssumption
<1> QED BY <1>1 DEF Whole

(* What the merge of one candidate writes and notes is whole. *)
WholeOut(out, s) ==
    /\ (out.put # Keep /\ out.put.op = "UpsertPlacement") => Whole(out.put.row, s)
    /\ Whole(out.flag, s) /\ Whole(out.content, s) /\ Whole(out.create, s)
    /\ Whole(out.dup, FALSE)

LEMMA NothingWhole == \A s : WholeOut(Nothing, s)
BY DEF WholeOut, Nothing, Whole

LEMMA WriteWhole ==
    ASSUME NEW s, NEW out, Sound(out), WholeOut(out, s)
    PROVE  /\ \A q \in ReplicaPlacement : Whole(q, s) =>
                 WholeOut(Write(out, Upsert(q)), s)
           /\ \A why \in DropReason : WholeOut(Write(out, Drop(why)), s)
<1>1. out \in Outcome
    BY DEF Sound
<1>2. ASSUME NEW op
      PROVE  LET new == Write(out, op)
             IN  /\ new.put = op /\ new.flag = out.flag /\ new.dup = out.dup
                 /\ new.content = out.content /\ new.create = out.create
    BY <1>1 DEF Write, Outcome
<1>3. ASSUME NEW op, op.op = "UpsertPlacement" => Whole(op.row, s)
      PROVE  WholeOut(Write(out, op), s)
    <2> DEFINE new == Write(out, op)
    <2>1. /\ new.put = op /\ new.flag = out.flag /\ new.dup = out.dup
          /\ new.content = out.content /\ new.create = out.create
        BY <1>2
    <2> HIDE DEF new
    <2>2. WholeOut(new, s)
        BY <1>3, <2>1 DEF WholeOut
    <2> QED BY <2>2 DEF new
<1>4. \A q : Upsert(q).row = q
    BY DEF Upsert
<1>5. \A why : Drop(why).op # "UpsertPlacement"
    BY DEF Drop
<1> QED BY <1>3, <1>4, <1>5

(* A row with no body of its own is whole, whatever became of the rest. *)
LEMMA BodilessWhole ==
    ASSUME NEW q, q.object = None, q.conflict_revision = None, NEW s
    PROVE  Whole(q, s)
BY DEF Whole, StagedEdit

(* The flag axis. *)
LEMMA FlagsWhole ==
    ASSUME NEW q \in ReplicaPlacement, NEW s, Whole(q, s),
           NEW flags \in ReplicaFlags
    PROVE  /\ Whole(PullFlags(q, flags), s) /\ Whole(Rebase(q, flags), s)
           /\ Whole([q EXCEPT !.flags = flags], s)
<1>1. /\ PullFlags(q, flags) \in ReplicaPlacement
      /\ Rebase(q, flags) \in ReplicaPlacement
      /\ [q EXCEPT !.flags = flags] \in ReplicaPlacement
    BY FlagRewriteType DEF ReplicaPlacement
<1>2. ASSUME NEW r \in {PullFlags(q, flags), Rebase(q, flags)}
      PROVE  /\ r.base = FlagBase(q, flags) /\ r.object = q.object
             /\ r.level = q.level /\ r.meta = q.meta
             /\ r.conflict_revision = q.conflict_revision
    BY <1>2 DEF PullFlags, Rebase, ReplicaPlacement
<1>3. /\ FlagBase(q, flags) # None
      /\ FlagBase(q, flags).object = IF q.base = None THEN None ELSE q.base.object
    <2>1. FlagBase(q, flags) \in ReplicaBase
        BY DEF FlagBase, ReplicaPlacement, ReplicaBase
    <2> QED BY <2>1, SentinelAssumption DEF FlagBase
<1>4. ASSUME NEW r \in {PullFlags(q, flags), Rebase(q, flags)}
      PROVE  StagedEdit(r) <=> StagedEdit(q)
    BY <1>2, <1>3 DEF StagedEdit
<1>5. LET r == [q EXCEPT !.flags = flags]
      IN  /\ r.base = q.base /\ r.object = q.object /\ r.level = q.level
          /\ r.meta = q.meta /\ r.conflict_revision = q.conflict_revision
    BY DEF ReplicaPlacement
<1>6. Whole([q EXCEPT !.flags = flags], s)
    BY <1>1, <1>5, SameBody DEF StagedEdit
<1> QED BY <1>1, <1>2, <1>4, <1>6, SameBody

(* The content axis. *)
WholeContent(c, s) == SoundContent(c) /\ Whole(c.row, s) /\ WholeOut(c.out, s)

LEMMA PullRemoteWhole ==
    ASSUME NEW p \in ReplicaPlacement, p.conflict_revision = None,
           NEW item \in ReplicaRemoteItem, NEW s,
           NEW out, Sound(out), WholeOut(out, s)
    PROVE  WholeContent(PullRemote(p, item, out), s)
<1>1. PullContent(p, item) \in ReplicaPlacement
    BY PullContentType
<1>2. Whole(PullContent(p, item), s)
    BY BodilessWhole DEF PullContent, ReplicaPlacement
<1>3. WholeOut(Write(out, Upsert(PullContent(p, item))), s)
    BY <1>1, <1>2, WriteWhole
<1> QED BY <1>2, <1>3, PullRemoteSound DEF WholeContent, PullRemote, Continue

(* Only a staged body makes a conflict. *)
LEMMA MarkWhole ==
    ASSUME NEW p \in ReplicaPlacement, NEW item \in ReplicaRemoteItem, NEW s,
           Whole(p, s), StagedEdit(p)
    PROVE  /\ WholeContent(MarkConflict(p, item), s)
           /\ WholeContent(TrackConflict(p, item), s)
<1> DEFINE marked  == MarkConflict(p, item).row
           tracked == TrackConflict(p, item).row
<1>1. /\ MarkConflict(p, item) = Continue(marked, Write(Nothing, Upsert(marked)))
      /\ TrackConflict(p, item) = Continue(tracked, Write(Nothing, Upsert(tracked)))
    BY DEF MarkConflict, TrackConflict, Continue
<1>2. marked \in ReplicaPlacement /\ tracked \in ReplicaPlacement
    BY MarkSound DEF SoundContent
<1>3. /\ marked.object = p.object /\ marked.base = p.base
      /\ marked.level = p.level /\ marked.meta = p.meta
      /\ tracked.object = p.object /\ tracked.base = p.base
      /\ tracked.level = p.level /\ tracked.meta = p.meta
    BY DEF MarkConflict, TrackConflict, Continue, ReplicaPlacement
<1> HIDE DEF marked, tracked
<1>4. Whole(marked, s) /\ Whole(tracked, s)
    BY <1>2, <1>3, SameBody DEF StagedEdit
<1>5. /\ WholeOut(Write(Nothing, Upsert(marked)), s)
      /\ WholeOut(Write(Nothing, Upsert(tracked)), s)
    BY <1>2, <1>4, NothingSound, NothingWhole, WriteWhole
<1> QED BY <1>1, <1>4, <1>5, MarkSound DEF WholeContent, Continue

LEMMA PushLocalWhole ==
    ASSUME NEW p \in ReplicaPlacement, p.object # None,
           NEW if_match \in Opt(Revision), NEW s, Whole(p, s)
    PROVE  WholeContent(PushLocal(p, if_match), s)
<1> DEFINE out == [Nothing EXCEPT !.push = Update(p, if_match), !.content = p]
<1>1. /\ out.put = Keep /\ out.content = p /\ out.dup = None
      /\ out.flag = None /\ out.create = None
    BY DEF Nothing, Update
<1> HIDE DEF out
<1>2. WholeOut(out, s)
    BY <1>1 DEF WholeOut, Whole
<1> QED BY <1>2, PushLocalSound DEF WholeContent, PushLocal, Continue, out

LEMMA ReconcileContentWhole ==
    ASSUME NEW p \in ReplicaPlacement, p.status # "Tombstone", Shape(p),
           NEW item \in ReplicaRemoteItem, NEW options \in ReplicaSyncOptions,
           NEW s, Whole(p, s)
    PROVE  WholeContent(ReconcileContent(p, item, options), s)
<1>1. WholeContent(Continue(p, Nothing), s)
    BY NothingSound, NothingWhole DEF WholeContent, SoundContent, Continue
<1>2. p # None
    BY SentinelAssumption
<1>3. CASE p.base = None
    <2>1. p.object # None => StagedEdit(p)
        BY <1>3 DEF StagedEdit
    <2> QED BY <1>1, <1>3, <2>1, MarkWhole DEF ReconcileContent
<1>4. CASE p.base # None /\ p.status = "Conflict"
    <2>1. StagedEdit(p)
        BY <1>2, <1>4 DEF Shape, Whole
    <2> QED BY <1>1, <1>4, <2>1, MarkWhole DEF ReconcileContent
<1>5. CASE p.base # None /\ p.status # "Conflict"
    <2>1. p.base.revision \in Opt(Revision) /\ item.revision \in Opt(Revision)
        BY <1>5 DEF ReplicaPlacement, ReplicaBase, ReplicaRemoteItem
    <2>2. p.conflict_revision = None
        BY <1>5 DEF Shape
    <2>3. WholeContent(PullRemote(p, item, Nothing), s)
        BY <2>2, NothingSound, NothingWhole, PullRemoteWhole
    <2>4. ASSUME p.object # None, p.object # p.base.object
          PROVE  WholeContent(ResolveConflict(p, item, options), s)
        <3> DEFINE forked == [Nothing EXCEPT !.dup = ConflictDup(p), !.ops = 1]
        <3>1. StagedEdit(p)
            BY <2>4 DEF StagedEdit
        <3>2. Sound(forked)
            BY ConflictDupType, NothingSound, <2>4 DEF Sound, Agrees, Nothing, Outcome
        <3>3. /\ forked.put = Keep /\ forked.content = None
              /\ forked.flag = None /\ forked.create = None
              /\ forked.dup = ConflictDup(p)
            BY DEF Nothing
        <3>4. Whole(ConflictDup(p), FALSE)
            BY DEF Whole, ConflictDup, CreatedPlacement
        <3> HIDE DEF forked
        <3>5. WholeOut(forked, s)
            BY <3>3, <3>4 DEF WholeOut, Whole
        <3>6. WholeContent(PullRemote(p, item, forked), s)
            BY <2>2, <3>2, <3>5, PullRemoteWhole
        <3>7. options.conflict \in {"Manual", "PreferLocal", "PreferRemote", "KeepBoth"}
            BY DEF ReplicaSyncOptions
        <3> QED BY <2>1, <2>3, <2>4, <3>1, <3>6, <3>7, MarkWhole, PushLocalWhole
                DEF ResolveConflict, forked
    <2> QED BY <1>1, <1>5, <2>1, <2>3, <2>4, PushLocalWhole DEF ReconcileContent
<1> QED BY <1>3, <1>4, <1>5

LEMMA ReconcileFlagsWhole ==
    ASSUME NEW q \in ReplicaPlacement, NEW item \in ReplicaRemoteItem,
           NEW options \in ReplicaSyncOptions, NEW s, NEW out, Sound(out),
           Whole(q, s), WholeOut(out, s)
    PROVE  WholeOut(ReconcileFlags(q, item, out, options), s)
<1> DEFINE merged  == MergeFlags(q.base.flags, q.flags, item.flags)
           updated == [q EXCEPT !.flags = merged]
           folded  == IF merged # q.flags THEN Write(out, Upsert(updated))
                      ELSE out
<1>1. q.flags \in ReplicaFlags /\ item.flags \in ReplicaFlags
    BY DEF ReplicaPlacement, ReplicaRemoteItem
<1>2. ASSUME NEW flags \in ReplicaFlags
      PROVE  /\ PullFlags(q, flags) \in ReplicaPlacement
             /\ Rebase(q, flags) \in ReplicaPlacement
             /\ Whole(PullFlags(q, flags), s)
             /\ Whole(Rebase(q, flags), s)
    BY FlagsWhole, FlagRewriteType
<1>3. CASE q.base = None
    BY <1>1, <1>2, <1>3, WriteWhole DEF ReconcileFlags
<1>4. CASE q.base # None
    <2>1. q.base.flags \in ReplicaFlags
        BY <1>4 DEF ReplicaPlacement, ReplicaBase
    <2>2. merged \in ReplicaFlags
        BY <1>1, <2>1, MergeFlagsType
    <2> HIDE DEF merged
    <2>3. updated \in ReplicaPlacement /\ Whole(updated, s)
        BY <2>2, FlagsWhole DEF ReplicaPlacement
    <2> HIDE DEF updated
    <2>4. Sound(folded) /\ WholeOut(folded, s)
        BY <2>3, OpTypes, WriteSound, WriteWhole
    <2> HIDE DEF folded
    <2>5. CASE merged # item.flags
        <3> DEFINE pushed == [folded EXCEPT !.push = SetFlags(merged),
                                            !.flag = updated]
        <3>1. /\ pushed.flag = updated /\ pushed.dup = folded.dup
              /\ pushed.put = folded.put /\ pushed.content = folded.content
              /\ pushed.create = folded.create
            BY <2>4 DEF Sound, Outcome, SetFlags
        <3> HIDE DEF pushed
        <3>2. WholeOut(pushed, s)
            BY <2>3, <2>4, <3>1 DEF WholeOut
        <3> QED
            BY <1>4, <2>4, <2>5, <3>2
               DEF ReconcileFlags, merged, updated, folded, pushed
    <2>6. CASE merged = item.flags
        <3>1. /\ WholeOut(Write(out, Upsert(PullFlags(q, merged))), s)
              /\ WholeOut(Write(out, Upsert(Rebase(q, merged))), s)
            BY <1>2, <2>2, WriteWhole
        <3> QED BY <1>4, <2>6, <3>1 DEF ReconcileFlags, merged
    <2> QED BY <2>5, <2>6
<1> QED BY <1>3, <1>4

LEMMA PullAddWhole ==
    ASSUME NEW item \in ReplicaRemoteItem, NEW s
    PROVE  WholeOut(Write(Nothing, Upsert(PullAdd(item))), s)
<1>1. Whole(PullAdd(item), s)
    BY BodilessWhole DEF PullAdd
<1> QED BY <1>1, PullAddType, NothingSound, NothingWhole, WriteWhole

LEMMA MergeTombstoneWhole ==
    ASSUME NEW p \in ReplicaPlacement, p.base # None,
           NEW item \in ReplicaRemoteItem, NEW options, NEW s, Whole(p, s)
    PROVE  WholeOut(MergeTombstone(p, item, options), s)
<1> DEFINE revision == p.base.revision
           removed  == [Nothing EXCEPT !.push = Remove(p, revision), !.drop = TRUE]
           pushed   == [Nothing EXCEPT !.push    = Update(p, revision),
                                       !.content = p]
           reverted == [p EXCEPT !.status = "Clean"]
<1>1. WholeOut(RefuseDelete(p, options), s)
    <2>1. /\ reverted \in ReplicaPlacement /\ reverted.object = p.object
          /\ reverted.base = p.base /\ reverted.level = p.level
          /\ reverted.meta = p.meta
          /\ reverted.conflict_revision = p.conflict_revision
        BY DEF ReplicaPlacement, ReplicaStatus
    <2>2. Whole(reverted, s)
        BY <2>1, SameBody DEF StagedEdit
    <2> QED BY <2>1, <2>2, NothingSound, NothingWhole, WriteWhole DEF RefuseDelete
<1>2. WholeOut(pushed, s) /\ WholeOut(removed, s)
    BY DEF WholeOut, Whole, Nothing
<1> QED BY <1>1, <1>2, PullAddWhole DEF MergeTombstone

(* A merge makes no row one an upgrade could empty of an unsynced body.    *)
LEMMA CandidateWhole ==
    ASSUME NEW p \in Opt(ReplicaPlacement), p # None => Shape(p),
           NEW item \in Opt(ReplicaRemoteItem), NEW options \in ReplicaSyncOptions,
           NEW s, Whole(p, s)
    PROVE  WholeOut(MergeCandidate(p, item, options), s)
<1>1. (p = None \/ p \in ReplicaPlacement) /\ (item = None \/ item \in ReplicaRemoteItem)
    OBVIOUS
<1>2. WholeOut(Nothing, s) /\ WholeOut(Write(Nothing, Drop("Deleted")), s)
    BY NothingSound, NothingWhole, WriteWhole DEF DropReason
<1>3. item # None => WholeOut(Write(Nothing, Upsert(PullAdd(item))), s)
    BY <1>1, PullAddWhole
<1>4. CASE p = None
    BY <1>2, <1>3, <1>4 DEF MergeCandidate
<1>5. CASE p # None /\ p.status = "Tombstone"
    <2>1. (p.base # None /\ item # None) => WholeOut(MergeTombstone(p, item, options), s)
        BY <1>1, <1>5, MergeTombstoneWhole
    <2> QED BY <1>2, <1>3, <1>5, <2>1 DEF MergeCandidate
<1>6. CASE p # None /\ p.status # "Tombstone"
    <2>1. WholeOut(MergeVanished(p, options), s)
        <3> DEFINE revived == Resurrect(p)
                   staged  == Write(Nothing, Upsert(revived))
                   edited  == p.status \in {"Dirty", "Conflict"} /\ StagedEdit(p)
        <3>1. /\ revived \in ReplicaPlacement
              /\ revived.conflict_revision = None
              /\ revived.level = p.level /\ revived.meta = p.meta
            BY <1>1, <1>6, ResurrectType DEF Resurrect, ReplicaPlacement
        <3> HIDE DEF revived
        <3>2. edited => Whole(revived, s)
            BY <1>6, <3>1 DEF Whole
        <3>3. edited => Sound(staged) /\ WholeOut(staged, s)
            BY <3>1, <3>2, OpTypes, NothingSound, NothingWhole, WriteSound, WriteWhole
        <3> HIDE DEF staged
        <3> DEFINE new == [staged EXCEPT !.push = Add(revived), !.create = revived]
        <3>4. edited => /\ new.create = revived /\ new.dup = staged.dup
                        /\ new.put = staged.put /\ new.flag = staged.flag
                        /\ new.content = staged.content
            BY <3>3 DEF Sound, Outcome, Add
        <3> HIDE DEF new
        <3>5. edited => WholeOut(new, s)
            BY <3>2, <3>3, <3>4 DEF WholeOut
        <3> HIDE DEF edited
        <3> QED BY <1>2, <3>3, <3>5 DEF MergeVanished, revived, staged, new, edited
    <2>2. WholeOut(MergeCreated(p, options), s)
        BY <1>2 DEF MergeCreated, WholeOut, Whole, Nothing
    <2>3. item # None => WholeOut(MergeBoth(p, item, options), s)
        BY <1>1, <1>6, ReconcileContentWhole, ReconcileFlagsWhole
           DEF MergeBoth, WholeContent, SoundContent
    <2> QED BY <1>2, <1>6, <2>1, <2>2, <2>3 DEF MergeCandidate
<1> QED BY <1>4, <1>5, <1>6

(* The rows a step leaves, or writes, as they are. *)
LEMMA WholeStays ==
    ASSUME WholeInv,
           \A h \in Handle :
               /\ store'[h] \in {store[h], Row(h)} /\ Row(h)' = Row(h)
               /\ local'[h] \in {None, store[h], local[h]}
               /\ pending_flag_pushes'[h] \in {None, pending_flag_pushes[h]}
               /\ pending_content_pushes'[h] \in {None, pending_content_pushes[h]}
               /\ pending_creates'[h] \in {None, pending_creates[h]}
    PROVE  WholeInv'
<1> SUFFICES ASSUME NEW h \in Handle PROVE WholeInv!(h)'
    BY DEF WholeInv
<1>1. /\ WholeRow(h, store[h]) /\ WholeRow(h, Row(h)) /\ WholeRow(h, local[h])
      /\ WholeRow(h, pending_flag_pushes[h])
      /\ WholeRow(h, pending_content_pushes[h])
      /\ WholeRow(h, pending_creates[h])
      /\ WholeRow(h, None)
    BY DEF WholeInv, WholeRow, Whole
<1>2. \A p, q : q = p /\ WholeRow(h, p) => WholeRow(h, q)
    OBVIOUS
<1> HIDE DEF WholeRow
<1> QED BY <1>1, <1>2

(* A batch is written as it stands. *)
LEMMA WholeKept ==
    ASSUME WholeInv, store' = store, writes' = writes,
           \A h \in Handle :
               /\ local'[h] \in {None, store[h], local[h]}
               /\ pending_flag_pushes'[h] \in {None, pending_flag_pushes[h]}
               /\ pending_content_pushes'[h] \in {None, pending_content_pushes[h]}
               /\ pending_creates'[h] \in {None, pending_creates[h]}
    PROVE  WholeInv'
<1>1. \A h \in Handle : Row(h)' = Row(h)
    BY DEF Row
<1> QED BY <1>1, WholeStays

LEMMA MergeWhole ==
    ASSUME Inv, SpineInv, WholeInv, pc = "Joining", NEW h \in todo, Merge(h),
           UNCHANGED <<store, local, in_flight>>
    PROVE  WholeInv'
<1> DEFINE s == h \in ServerHandle
           f == Fork[<<h, local[h].object>>]
<1>1. /\ h \in Handle /\ local[h] \in Opt(ReplicaPlacement)
      /\ opts \in ReplicaSyncOptions /\ RowOK(h, local[h]) /\ ~Untouched(h)
    BY AheadFacts DEF Merge
<1>2. Item(h) \in Opt(ReplicaRemoteItem)
    BY <1>1, ItemOK
<1>3. local[h] # None => Shape(local[h])
    BY <1>1 DEF RowOK
<1>4. Whole(local[h], s)
    BY <1>1 DEF WholeInv, WholeRow
<1>5. WholeOut(MergeCandidate(local[h], Item(h), opts), s)
    BY <1>1, <1>2, <1>3, <1>4, CandidateWhole
<1>6. PICK out \in Outcome : out = OutcomeOf(h) /\ WholeOut(out, s)
    BY <1>5, OutcomeSound DEF OutcomeOf, Item, Merge, Sound
<1>7. out.dup # None => /\ f \notin ServerHandle /\ out.dup \in ReplicaPlacement
    <2>1. MergedOK(h, OutcomeOf(h))
        BY <1>1, MergedAbsent, MergedPresent
    <2>2. ASSUME out.dup # None
          PROVE  /\ h \in ServerHandle /\ local[h] \in ReplicaPlacement
                 /\ local[h].object # None
        BY <1>1, <1>6, <2>1, <2>2 DEF MergedOK
    <2>3. ASSUME out.dup # None PROVE local[h].object \in Body
        BY <2>2, <2>3 DEF ReplicaPlacement
    <2>4. out.dup # None => out.dup \in ReplicaPlacement
        BY DEF Outcome
    <2> QED BY <2>2, <2>3, <2>4, SyncAssumption
<1> DEFINE put == IF out.put = Keep THEN writes ELSE [writes EXCEPT ![h] = out.put]
<1>8. writes' = IF out.dup = None THEN put
                ELSE [put EXCEPT ![f] = Upsert(out.dup)]
    BY <1>6 DEF Merge
<1>9. /\ out.put \in ReplicaWriteOp \cup {Keep}
      /\ writes \in [Handle -> ReplicaWriteOp \cup {Keep}]
    BY DEF Outcome, Inv, TypeOK
<1>10. /\ put \in [Handle -> ReplicaWriteOp \cup {Keep}]
       /\ put[h] = IF out.put = Keep THEN writes[h] ELSE out.put
       /\ \A k \in Handle \ {h} : put[k] = writes[k]
    BY <1>1, <1>9
<1> HIDE DEF put, f
<1>11. \A k \in Handle : writes'[k] = IF out.dup # None /\ k = f
                                      THEN Upsert(out.dup) ELSE put[k]
    BY <1>8, <1>10
<1>12. ASSUME NEW k \in Handle PROVE WholeRow(k, Row(k)')
    <2>1. WholeRow(k, Row(k))
        BY DEF WholeInv
    <2>2. CASE out.dup # None /\ k = f
        <3>1. Row(k)' = out.dup
            BY <1>7, <1>11, <2>2, OpRow
        <3>2. Whole(out.dup, FALSE) /\ k \notin ServerHandle
            BY <1>6, <1>7, <2>2 DEF WholeOut
        <3> QED BY <3>1, <3>2 DEF Whole, WholeRow
    <2>3. CASE ~(out.dup # None /\ k = f) /\ (k # h \/ out.put = Keep)
        <3>1. writes'[k] = writes[k]
            BY <1>10, <1>11, <2>3
        <3>2. Row(k)' = Row(k)
            BY <3>1, OpRow
        <3> QED BY <2>1, <3>2
    <2>4. CASE ~(out.dup # None /\ k = f) /\ k = h /\ out.put # Keep
        <3>1. writes'[k] = out.put
            BY <1>10, <1>11, <2>4
        <3>2. Row(k)' = IF out.put.op = "DropPlacement" THEN None ELSE out.put.row
            BY <2>4, <3>1 DEF Row, Applied
        <3>3. out.put.op \in {"DropPlacement", "UpsertPlacement"}
            BY <1>9, <2>4 DEF ReplicaWriteOp
        <3>4. Whole(None, s)
            BY DEF Whole
        <3> QED BY <1>6, <2>4, <3>2, <3>3, <3>4 DEF WholeOut, WholeRow
    <2> QED BY <2>2, <2>3, <2>4
<1>13. /\ pending_flag_pushes'[h] = out.flag
       /\ pending_content_pushes'[h] = out.content
       /\ pending_creates'[h] = out.create
       /\ \A k \in Handle \ {h} :
            /\ pending_flag_pushes'[k] = pending_flag_pushes[k]
            /\ pending_content_pushes'[k] = pending_content_pushes[k]
            /\ pending_creates'[k] = pending_creates[k]
    BY <1>6, MergeOwes
<1> SUFFICES ASSUME NEW k \in Handle PROVE WholeInv!(k)'
    BY DEF WholeInv
<1>14. CASE k = h
    <2>1. WholeRow(h, out.flag) /\ WholeRow(h, out.content) /\ WholeRow(h, out.create)
        BY <1>6 DEF WholeOut, WholeRow
    <2>2. WholeRow(h, store[h]) /\ WholeRow(h, local[h])
        BY <1>1 DEF WholeInv
    <2> HIDE DEF WholeRow
    <2> QED BY <1>12, <1>13, <1>14, <2>1, <2>2
<1>15. CASE k # h
    <2>1. /\ WholeRow(k, store[k]) /\ WholeRow(k, local[k])
          /\ WholeRow(k, pending_flag_pushes[k])
          /\ WholeRow(k, pending_content_pushes[k])
          /\ WholeRow(k, pending_creates[k])
        BY DEF WholeInv
    <2> HIDE DEF WholeRow
    <2> QED BY <1>12, <1>13, <1>15, <2>1
<1> QED BY <1>14, <1>15

(* An accepted change leaves the body it pushed as the synced one. *)
LEMMA SyncedWhole ==
    ASSUME NEW q \in ReplicaPlacement, q.conflict_revision = None,
           q.base # None, q.base.object = q.object, NEW s
    PROVE  Whole(q, s)
BY DEF Whole, StagedEdit

LEMMA ConfirmedBase ==
    ASSUME NEW p \in ReplicaPlacement, NEW r \in Opt(Nat)
    PROVE  LET q == RebaseContent(p, r)
           IN  /\ q.base # None /\ q.base.object = q.object
               /\ q.conflict_revision = p.conflict_revision
<1> DEFINE flags == IF p.base = None THEN {} ELSE p.base.flags
           b     == [flags |-> flags, revision |-> r, object |-> p.object]
<1>1. flags \in ReplicaFlags
    BY DEF ReplicaPlacement, ReplicaBase, ReplicaFlags
<1>2. b \in ReplicaBase
    BY <1>1 DEF ReplicaBase, ReplicaPlacement
<1>3. b # None /\ b.object = p.object
    BY <1>2, SentinelAssumption
<1> HIDE DEF b
<1>4. LET q == RebaseContent(p, r)
      IN  /\ q.base = b /\ q.object = p.object
          /\ q.conflict_revision = p.conflict_revision
    BY DEF RebaseContent, ReplicaPlacement, b
<1> QED BY <1>3, <1>4

LEMMA PlacedWhole ==
    ASSUME Inv, SpineInv, PushOutcomes, NEW k \in Handle, PlacedAt(k) # {}
    PROVE  WholeRow(k, Row(k)')
<1>1. PICK h \in PlacedAt(k) : h = Least(PlacedAt(k))
    BY LeastIn, HandleFacts DEF PlacedAt
<1> DEFINE p == pending_creates[h]
           r == results[h].revision
           q == RekeyCreate(p, r)
<1>2. h \in Handle /\ IsAccepted(h) /\ p # None /\ pc = "PendingPush"
    BY <1>1 DEF PlacedAt, PushOutcomes
<1>3. in_flight[h].kind = "Add" /\ OwedOK(h) /\ Owed(h) = in_flight[h] /\ r \in Opt(Nat)
    BY <1>2, AcceptedFacts
<1>4. p \in ReplicaPlacement /\ RowOK(h, p) /\ p.status = "Created"
    BY <1>2, <1>3 DEF Inv, TypeOK, SpineInv, RowsInv, OwedOK, IsAccepted
<1>5. p.conflict_revision = None
    BY <1>2, <1>4 DEF RowOK, Shape
<1>6. q \in ReplicaPlacement
    BY <1>3, <1>4, RekeyCreateType
<1>7. /\ q.conflict_revision = None /\ q.object = p.object
      /\ q.base = [flags |-> p.flags, revision |-> r, object |-> p.object]
    BY <1>4, <1>5 DEF RekeyCreate, ReplicaPlacement
<1>8. q.base # None /\ q.base.object = q.object
    <2>1. q.base \in ReplicaBase
        BY <1>3, <1>4, <1>7 DEF ReplicaBase, ReplicaPlacement
    <2> QED BY <1>7, <2>1, SentinelAssumption
<1>9. writes'[k] = Upsert(q)
    BY <1>1 DEF PushOutcomes
<1> HIDE DEF q
<1> QED BY <1>6, <1>7, <1>8, <1>9, OpRow, SyncedWhole DEF WholeRow

LEMMA ConfirmedWhole ==
    ASSUME Inv, SpineInv, WholeInv, pc = "PendingPush", NEW k \in Handle,
           IsAccepted(k), writes'[k] = Confirmed(k)
    PROVE  WholeRow(k, Row(k)')
<1>1. /\ Owed(k) = in_flight[k] /\ OwedOK(k)
      /\ pending_creates[k] # None <=> in_flight[k].kind = "Add"
      /\ k \in pending_drops <=> in_flight[k].kind = "Remove"
      /\ pending_content_pushes[k] # None <=> in_flight[k].kind = "Update"
      /\ pending_flag_pushes[k] # None <=> in_flight[k].kind = "SetFlags"
      /\ in_flight[k].kind \in {"SetFlags", "Remove", "Update", "Add"}
      /\ results[k].revision \in Opt(Nat) /\ in_flight[k] # None
    BY AcceptedFacts DEF IsAccepted
<1>2. WholeRow(k, None) /\ {"Superseded", "Deleted"} \subseteq DropReason
    BY DEF WholeRow, Whole, DropReason
<1>3. CASE in_flight[k].kind \in {"Add", "Remove"}
    <2>1. \E why \in DropReason : Confirmed(k) = Drop(why)
        BY <1>1, <1>2, <1>3 DEF Confirmed
    <2> QED BY <1>2, <2>1, OpRow
<1>4. CASE in_flight[k].kind = "Update"
    <2> DEFINE p == pending_content_pushes[k]
               q == RebaseContent(p, results[k].revision)
    <2>1. p \in ReplicaPlacement /\ p.conflict_revision = None
        BY <1>1, <1>4 DEF OwedOK, Inv, TypeOK
    <2>2. q \in ReplicaPlacement
        BY <1>1, <2>1, RebaseContentType
    <2>3. /\ q.conflict_revision = None /\ q.base # None
          /\ q.base.object = q.object
        BY <1>1, <2>1, ConfirmedBase
    <2>4. writes'[k] = Upsert(q)
        BY <1>1, <1>4 DEF Confirmed
    <2> HIDE DEF q
    <2> QED BY <2>2, <2>3, <2>4, OpRow, SyncedWhole DEF WholeRow
<1>5. CASE in_flight[k].kind = "SetFlags"
    <2> DEFINE p == pending_flag_pushes[k]
               q == Rebase(p, p.flags)
    <2>1. p \in ReplicaPlacement /\ p.flags \in ReplicaFlags
        BY <1>1, <1>5 DEF Inv, TypeOK, ReplicaPlacement
    <2>2. WholeRow(k, p)
        BY DEF WholeInv
    <2>3. q \in ReplicaPlacement /\ WholeRow(k, q)
        BY <2>1, <2>2, FlagRewriteType, FlagsWhole DEF WholeRow
    <2>4. writes'[k] = Upsert(q)
        BY <1>1, <1>5 DEF Confirmed
    <2> HIDE DEF q
    <2> QED BY <2>3, <2>4, OpRow
<1> QED BY <1>1, <1>3, <1>4, <1>5

LEMMA OutcomesWhole ==
    ASSUME Inv, SpineInv, WholeInv, PushOutcomes
    PROVE  WholeInv'
<1>1. pc = "PendingPush" /\ UNCHANGED <<store, local>>
    BY DEF PushOutcomes
<1>2. ASSUME NEW k \in Handle PROVE WholeRow(k, Row(k)')
    <2>1. CASE PlacedAt(k) # {}
        BY <2>1, PlacedWhole
    <2>2. CASE PlacedAt(k) = {} /\ IsAccepted(k)
        BY <1>1, <2>2, ConfirmedWhole DEF PushOutcomes
    <2>3. CASE PlacedAt(k) = {} /\ ~IsAccepted(k)
        <3>1. writes'[k] = writes[k]
            BY <2>3 DEF PushOutcomes
        <3> QED BY <1>1, <3>1, OpRow DEF WholeInv
    <2> QED BY <2>1, <2>2, <2>3
<1> SUFFICES ASSUME NEW k \in Handle PROVE WholeInv!(k)'
    BY DEF WholeInv
<1>3. /\ pending_flag_pushes'[k] \in {None, pending_flag_pushes[k]}
      /\ pending_content_pushes'[k] \in {None, pending_content_pushes[k]}
      /\ pending_creates'[k] \in {None, pending_creates[k]}
    BY DEF PushOutcomes, Forget
<1>4. /\ WholeRow(k, store[k]) /\ WholeRow(k, local[k])
      /\ WholeRow(k, pending_flag_pushes[k])
      /\ WholeRow(k, pending_content_pushes[k])
      /\ WholeRow(k, pending_creates[k]) /\ WholeRow(k, None)
    BY DEF WholeInv, WholeRow, Whole
<1> HIDE DEF WholeRow
<1> QED BY <1>1, <1>2, <1>3, <1>4

(* The user's mutations. *)
LEMMA MutateWhole ==
    ASSUME Inv, SpineInv, WholeInv, NEW op, Mutate(op), NEW h \in Handle, NEW q,
           store' = [store EXCEPT ![h] = q], WholeRow(h, q)
    PROVE  WholeInv'
<1>1. /\ pc = "Idle" /\ UNCHANGED <<local, pendings, writes>>
      /\ store \in [Handle -> Opt(ReplicaPlacement)]
    BY DEF Mutate, Inv, TypeOK
<1>2. \A k \in Handle : /\ store'[k] = IF k = h THEN q ELSE store[k]
                        /\ Row(k)' = store'[k]
    BY <1>1 DEF SpineInv, PlaceInv, Enumerated, Row, Applied
<1> HIDE DEF WholeRow
<1> SUFFICES ASSUME NEW k \in Handle PROVE WholeInv!(k)'
    BY DEF WholeInv
<1>3. WholeRow(k, store'[k]) /\ WholeRow(k, Row(k)')
    BY <1>2 DEF WholeInv
<1> QED BY <1>1, <1>3 DEF WholeInv

LEMMA UserWhole ==
    ASSUME Careful, Inv, SpineInv, WholeInv, User
    PROVE  WholeInv'
<1>1. ASSUME NEW h \in Handle, Target(h)
      PROVE  /\ store[h] \in ReplicaPlacement /\ store[h] # None
             /\ WholeRow(h, store[h]) /\ RowOK(h, store[h])
    BY <1>1 DEF Inv, TypeOK, Target, WholeInv, SpineInv, RowsInv
<1>2. PICK h \in Handle :
        \/ \E flags \in SUBSET Flag : UserSetFlags(h, flags)
        \/ UserRemove(h)
        \/ UserEdit(h)
        \/ \E link \in Authored : UserAdd(h, link)
        \/ \E destination \in Origin : UserMove(h, destination)
        \/ \E flags \in SUBSET Flag, object \in Opt(Body), origin \in Origin :
              UserCopy(h, CopySource(flags, object), origin)
    BY DEF User
<1> DEFINE p == store[h]
<1>3. ASSUME NEW op, Mutate(op), Target(h), NEW q,
             store' = [store EXCEPT ![h] = q],
             q = SetFlagsMutation(p, q.flags) \/ q = RemoveMutation(p)
                \/ q = MoveMutation(p, q.origin)
      PROVE  WholeInv'
    <2>1. /\ q.object = p.object /\ q.base = p.base /\ q.level = p.level
          /\ q.meta = p.meta /\ q.conflict_revision = p.conflict_revision
        BY <1>1, <1>3
           DEF SetFlagsMutation, RemoveMutation, MoveMutation, ReplicaPlacement
    <2>2. WholeRow(h, q)
        BY <1>1, <1>3, <2>1 DEF WholeRow, Whole, StagedEdit
    <2> QED BY <1>3, <2>2, MutateWhole
<1>4. ASSUME NEW flags \in SUBSET Flag, UserSetFlags(h, flags) PROVE WholeInv'
    <2> DEFINE q == SetFlagsMutation(p, flags)
    <2>1. Mutate("SetFlags") /\ Target(h) /\ store' = [store EXCEPT ![h] = q]
        BY <1>4 DEF UserSetFlags
    <2>2. q.flags = flags
        BY <1>1, <2>1 DEF SetFlagsMutation, ReplicaPlacement
    <2>3. q = SetFlagsMutation(p, q.flags)
        BY <2>2
    <2> HIDE DEF q
    <2> QED BY <1>3, <2>1, <2>3
<1>5. ASSUME UserRemove(h) PROVE WholeInv'
    BY <1>3, <1>5 DEF UserRemove
<1>6. ASSUME NEW destination \in Origin, UserMove(h, destination) PROVE WholeInv'
    <2> DEFINE q == MoveMutation(p, destination)
    <2>1. Mutate("Move") /\ Target(h) /\ store' = [store EXCEPT ![h] = q]
        BY <1>6 DEF UserMove
    <2>2. q.origin = destination
        BY <1>1, <2>1 DEF MoveMutation, ReplicaPlacement
    <2>3. q = MoveMutation(p, q.origin)
        BY <2>2
    <2> HIDE DEF q
    <2> QED BY <1>3, <2>1, <2>3
<1>7. ASSUME UserEdit(h) PROVE WholeInv'
    <2>1. /\ p \in ReplicaPlacement /\ RowOK(h, p) /\ p # None /\ Target(h)
          /\ Mutate("Edit")
        BY <1>1, <1>7 DEF UserEdit
    <2>2. p.status # "Tombstone"
        BY <2>1 DEF SpineInv, Cautious, Target, Mutate
    <2>3. PICK b, meta :
            /\ meta \in Summaries
            /\ store' = [store EXCEPT ![h] = EditMutation(@, b, meta)]
        BY <1>7 DEF UserEdit
    <2> DEFINE q == EditMutation(p, b, meta)
    <2>4. meta # None
        BY <2>3 DEF Careful
    <2>5. /\ q.level = "Full" /\ q.meta = meta
          /\ q.conflict_revision = IF p.status = "Conflict" THEN None
                                   ELSE p.conflict_revision
        BY <2>1, <2>4 DEF EditMutation, ReplicaPlacement
    <2>6. q.conflict_revision = None
        BY <2>1, <2>2, <2>5 DEF RowOK, Shape
    <2>7. store' = [store EXCEPT ![h] = q]
        BY <2>3
    <2> HIDE DEF q
    <2>8. WholeRow(h, q)
        BY <2>4, <2>5, <2>6 DEF WholeRow, Whole
    <2> QED BY <2>1, <2>7, <2>8, MutateWhole
<1>8. h \in Provisional => h \notin ServerHandle
    BY SyncAssumption
<1>9. ASSUME NEW link \in Authored, UserAdd(h, link) PROVE WholeInv'
    <2>1. PICK meta : store' = [store EXCEPT ![h] =
                                    AddMutation(link, NewBody, meta, {})]
        BY <1>9 DEF UserAdd
    <2> DEFINE q == AddMutation(link, NewBody, meta, {})
    <2>2. q.level = "Full" /\ q.conflict_revision = None
        BY DEF AddMutation, CreatedPlacement
    <2>3. Mutate("Add") /\ h \in Provisional /\ store' = [store EXCEPT ![h] = q]
        BY <1>9, <2>1 DEF UserAdd
    <2> HIDE DEF q
    <2>4. WholeRow(h, q)
        BY <1>8, <2>2, <2>3 DEF WholeRow, Whole
    <2> QED BY <2>3, <2>4, MutateWhole
<1>10. ASSUME NEW flags \in SUBSET Flag, NEW object \in Opt(Body),
              NEW origin \in Origin,
              UserCopy(h, CopySource(flags, object), origin)
       PROVE  WholeInv'
    <2> DEFINE source == CopySource(flags, object)
               q      == CopyMutation(source, origin)
    <2>1. /\ q.object = source.object /\ q.level = source.level
          /\ q.conflict_revision = None /\ q.base = None
        BY DEF CopyMutation, CreatedPlacement
    <2>2. source.object = object /\ (object # None => source.level = "Full")
        BY DEF CopySource, PullAdd
    <2>3. Mutate("Copy") /\ h \in Provisional /\ store' = [store EXCEPT ![h] = q]
        BY <1>10 DEF UserCopy
    <2> HIDE DEF q, source
    <2>4. WholeRow(h, q)
        BY <1>8, <2>1, <2>2, <2>3 DEF WholeRow, Whole, StagedEdit
    <2> QED BY <2>3, <2>4, MutateWhole
<1> QED BY <1>2, <1>4, <1>5, <1>6, <1>7, <1>9, <1>10

LEMMA WholeNext ==
    Careful /\ Inv /\ Inv' /\ SpineInv /\ WholeInv /\ [Next]_vars => WholeInv'
<1> SUFFICES ASSUME Careful, Inv, Inv', SpineInv, WholeInv, [Next]_vars
             PROVE  WholeInv'
    OBVIOUS
<1>1. ASSUME UNCHANGED <<store, writes>>,
             local' \in {local, store, None4All},
             UNCHANGED pendings \/ (/\ pending_flag_pushes' = None4All
                                    /\ pending_content_pushes' = None4All
                                    /\ pending_creates' = None4All)
      PROVE  WholeInv'
    BY <1>1, WholeKept DEF None4All
<1>2. ASSUME NEW o \in Options, Begin(o) PROVE WholeInv'
    BY <1>1, <1>2 DEF Begin
<1>3. CASE Enumerate \/ Serve
    BY <1>1, <1>3 DEF Enumerate, Serve
<1>4. CASE MergeStep
    <2>1. PICK k \in todo : Skip(k) \/ Merge(k)
        BY <1>4, LeastIn, HandleFacts DEF Inv, TypeOK, MergeStep
    <2>2. pc = "Joining" /\ UNCHANGED <<store, local, in_flight>>
        BY <1>4 DEF MergeStep
    <2>3. CASE Skip(k)
        BY <1>1, <2>2, <2>3 DEF Skip
    <2> QED BY <2>1, <2>2, <2>3, MergeWhole
<1>5. CASE MergeWrite \/ ChunkWrite
    <2>1. WriteBatch /\ UNCHANGED <<local, pendings>>
        BY <1>5 DEF MergeWrite, ChunkWrite
    <2> QED BY <2>1, WriteRows, WholeStays
<1>6. CASE MergeEnd
    BY <1>1, <1>6 DEF MergeEnd
<1>7. CASE PushOutcomes
    BY <1>7, OutcomesWhole
<1>8. CASE LastWrite
    <2>1. WriteBatch /\ EndRun
        BY <1>8 DEF LastWrite
    <2>2. \A h \in Handle : /\ local'[h] = None
                            /\ pending_flag_pushes'[h] = None
                            /\ pending_content_pushes'[h] = None
                            /\ pending_creates'[h] = None
        BY <2>1 DEF EndRun, None4All
    <2> QED BY <2>1, <2>2, WriteRows, WholeStays
<1>9. CASE Crash
    <2>1. EndRun /\ store' = store /\ writes' = [h \in Handle |-> Keep]
        BY <1>9 DEF Crash
    <2>2. \A h \in Handle : /\ local'[h] = None
                            /\ pending_flag_pushes'[h] = None
                            /\ pending_content_pushes'[h] = None
                            /\ pending_creates'[h] = None
        BY <2>1 DEF EndRun, None4All
    <2>3. \A h \in Handle : Row(h)' = store[h]
        BY <2>1 DEF Row, Applied
    <2> SUFFICES ASSUME NEW h \in Handle PROVE WholeInv!(h)'
        BY DEF WholeInv
    <2>4. WholeRow(h, store[h]) /\ WholeRow(h, None)
        BY DEF WholeInv, WholeRow, Whole
    <2> HIDE DEF WholeRow
    <2> QED BY <2>1, <2>2, <2>3, <2>4
<1>10. CASE User
    BY <1>10, UserWhole
<1>11. CASE Others \/ Refuse \/ \E k \in Handle : Silence(k)
    BY <1>1, <1>11, OthersMove DEF OtherClient, Refuse, Silence
<1>12. CASE UNCHANGED vars
    BY <1>1, <1>12 DEF vars
<1> QED BY <1>2, <1>3, <1>4, <1>5, <1>6, <1>7, <1>8, <1>9, <1>10, <1>11, <1>12
        DEF Next, Run, Fault

--------------------------------------------------------------------------------
(* The rows an upgrade writes.                                             *)

(* What the invariant says of the row an upgrade raises. *)
LEMMA TargetFacts ==
    ASSUME UpInv, SpineInv, WholeInv, upgrade # None, NEW h \in Handle,
           upgrade.placements[h] # None
    PROVE  LET p == upgrade.placements[h]
           IN  /\ p \in ReplicaPlacement /\ p = store[h] /\ RowOK(h, p)
               /\ WholeRow(h, p)
               /\ checkpoint # None => Covers(h, p, checkpoint)
               /\ p.status = "Conflict" =>
                     p.conflict_revision # None
<1>1. Loaded(h) /\ upgrade.placements[h] \in ReplicaPlacement
    BY UpgradeFacts
<1>2. upgrade.placements[h] = store[h]
    BY <1>1 DEF Loaded
<1>3. /\ RowOK(h, store[h]) /\ WholeRow(h, store[h])
      /\ checkpoint # None => Covers(h, store[h], checkpoint)
    BY DEF SpineInv, RowsInv, CursorInv, WholeInv
<1>4. store[h].status = "Conflict" => store[h].conflict_revision # None
    BY <1>2, <1>3 DEF RowOK, Shape
<1> QED BY <1>1, <1>2, <1>3, <1>4

(* A row the object store serves had no body: the version its base names,  *)
(* if it names one, is the one body its item has.                          *)
LEMMA LinkedOK ==
    ASSUME NEW h \in Handle, NEW p \in ReplicaPlacement, RowOK(h, p),
           WholeRow(h, p), Needs(p, "Full"), Linkable(p), NEW hash \in Body,
           checkpoint # None => Covers(h, p, checkpoint)
    PROVE  RaisedOK(h, p, LinkFromStore(p, hash))
<1> DEFINE q == LinkFromStore(p, hash)
<1>1. p # None /\ hash # None
    BY SentinelAssumption
<1>2. ~StagedEdit(p) /\ p.conflict_revision = None /\ ~IsConflicted(p)
    <2>1. ~IsConflicted(p) /\ (p.level # "Full" \/ p.object = None)
        BY DEF Linkable, Needs
    <2>2. ~StagedEdit(p)
        BY <1>1, <2>1 DEF WholeRow, Whole, StagedEdit
    <2> QED BY <1>1, <2>1, <2>2 DEF WholeRow, Whole
<1>3. p.base # None => /\ p.base.revision = None
                       /\ [p.base EXCEPT !.object = hash] # None
                       /\ [p.base EXCEPT !.object = hash].revision = None
                       /\ [p.base EXCEPT !.object = hash].object = hash
    <2>1. p.base # None => /\ p.base \in ReplicaBase
                           /\ [p.base EXCEPT !.object = hash] \in ReplicaBase
        BY DEF ReplicaPlacement, ReplicaBase
    <2> QED BY <2>1, SentinelAssumption DEF Linkable, IsMutable, ReplicaBase
<1>4. /\ q \in ReplicaPlacement /\ q.object = hash /\ q.level = "Full"
      /\ q.base = IF p.base = None THEN None ELSE [p.base EXCEPT !.object = hash]
      /\ q.status = p.status /\ q.conflict_revision = p.conflict_revision
      /\ q.conflict_object = p.conflict_object
    BY LinkFromStoreType DEF LinkFromStore, ReplicaPlacement
<1> HIDE DEF q
<1>5. q # None
    BY <1>4, SentinelAssumption
<1>6. p.base = None => h \notin ServerHandle
    BY <1>1, <1>2 DEF RowOK, StagedEdit
<1>7. RowOK(h, q)
    <2>1. Shape(q)
        BY <1>1, <1>2, <1>4 DEF RowOK, Shape
    <2>2. /\ Past(h, q.conflict_revision)
          /\ Paired(h, q.conflict_revision, q.conflict_object)
        BY <1>2, <1>4 DEF Past, Paired
    <2>3. q.base # None => /\ h \in ServerHandle
                           /\ Past(h, q.base.revision)
                           /\ Based(h, q.base.revision, q.base.object)
        BY <1>1, <1>3, <1>4 DEF RowOK, Past, Based
    <2> QED BY <1>1, <1>2, <1>4, <2>1, <2>2, <2>3 DEF RowOK
<1>8. WholeRow(h, q)
    BY <1>2, <1>3, <1>4, <1>6 DEF WholeRow, Whole, StagedEdit
<1>9. checkpoint # None => Covers(h, q, checkpoint)
    BY <1>1, <1>2, <1>3, <1>4, <1>5 DEF Covers, KnownRevision
<1>10. Raises(q, p)
    BY <1>2, <1>4 DEF Raises
<1> QED BY <1>7, <1>8, <1>9, <1>10 DEF RaisedOK, q

(* What the remote answers with is one version of its member. *)
LEMMA AnswerOK ==
    ASSUME TypeOK, SpineInv, NEW h \in Handle, NEW p, NEW tier,
           FetchedItem(h, tier) # None
    PROVE  FetchOK(h, p, FetchedItem(h, tier))
<1> DEFINE item == FetchedItem(h, tier)
<1>1. items[h] # None /\ h \in ServerHandle
    BY DEF FetchedItem, SpineInv, ServerInv
<1>2. /\ item.revision = RevisionOf(items[h].rev)
      /\ item.body \in {None, items[h].body}
    BY <1>1 DEF FetchedItem
<1> HIDE DEF item
<1>3. items[h].rev \in Nat /\ items[h].seq \in Nat /\ seq \in Nat
      /\ items[h].rev <= items[h].seq /\ items[h].seq <= seq
    BY <1>1, ItemFacts DEF SpineInv, ServerInv
<1>4. Past(h, item.revision)
    BY <1>1, <1>2, <1>3 DEF Past, RevisionOf
<1>5. \A r : Paired(h, r, item.body)
    BY <1>2 DEF Paired
<1>6. Mutable => item.revision = items[h].rev
    BY <1>2 DEF RevisionOf
<1> QED BY <1>1, <1>4, <1>5, <1>6 DEF FetchOK, item

(* A row hydrated, or told of the remote side of its conflict. *)
LEMMA HydratedOK ==
    ASSUME NEW h \in Handle, NEW p \in ReplicaPlacement, RowOK(h, p),
           WholeRow(h, p), NEW tier \in ReplicaTier, Needs(p, tier),
           checkpoint # None => Covers(h, p, checkpoint),
           NEW item \in ReplicaFetchedItem, FetchOK(h, p, item),
           NEW row \in ReplicaPlacement,
           row \in {p} \cup {[p EXCEPT !.link_id = link] : link \in LinkId}
    PROVE  RaisedOK(h, p, Hydrated(row, item, tier))
<1> DEFINE q == Hydrated(row, item, tier)
<1>1. /\ row.object = p.object /\ row.level = p.level /\ row.meta = p.meta
      /\ row.base = p.base /\ row.status = p.status
      /\ row.conflict_revision = p.conflict_revision
      /\ row.conflict_object = p.conflict_object
    BY DEF ReplicaPlacement
<1>2. q \in ReplicaPlacement /\ q # None /\ p # None /\ h \in ServerHandle
    BY HydratedType, SentinelAssumption DEF FetchOK
<1>3. CASE tier = "Full" /\ IsConflicted(p)
    <2>1. /\ q.object = p.object /\ q.level = p.level /\ q.meta = p.meta
          /\ q.base = p.base /\ q.status = p.status
          /\ q.conflict_revision = p.conflict_revision
          /\ q.conflict_object = item.body
        BY <1>1, <1>3 DEF Hydrated, IsConflicted, ReplicaPlacement
    <2> HIDE DEF q
    <2>2. RowOK(h, q)
        BY <1>2, <2>1 DEF RowOK, Shape, FetchOK
    <2>3. WholeRow(h, q)
        BY <1>2, <2>1 DEF WholeRow, Whole, StagedEdit
    <2>4. checkpoint # None => Covers(h, q, checkpoint)
        BY <1>2, <2>1 DEF Covers, KnownRevision
    <2> QED BY <2>1, <2>2, <2>3, <2>4 DEF RaisedOK, Raises, q
<1>4. ASSUME ~(tier = "Full" /\ IsConflicted(p))
      PROVE  ~StagedEdit(p) /\ p.conflict_revision = None /\ p.base # None
    <2>1. \/ tier = "Full" /\ (p.level # "Full" \/ p.object = None)
          \/ tier = "Meta" /\ (p.level = "Probed" \/ p.meta = None)
        BY <1>4 DEF Needs, ReplicaTier
    <2>2. ~StagedEdit(p)
        BY <1>2, <2>1 DEF WholeRow, Whole, StagedEdit
    <2> QED BY <1>2, <2>2 DEF WholeRow, Whole, RowOK, StagedEdit
<1>5. CASE tier = "Full" /\ ~IsConflicted(p)
    <2> DEFINE b == [p.base EXCEPT !.revision = item.revision,
                                   !.object   = item.body]
    <2>1. p.base \in ReplicaBase
        BY <1>4, <1>5 DEF ReplicaPlacement
    <2>2. b \in ReplicaBase /\ b.revision = item.revision /\ b.object = item.body
        BY <2>1 DEF ReplicaBase, ReplicaFetchedItem
    <2>3. /\ q.object = item.body /\ q.level = "Full" /\ q.base = b
          /\ q.status = p.status
          /\ q.conflict_revision = p.conflict_revision
          /\ q.conflict_object = p.conflict_object
        BY <1>1, <1>4, <1>5 DEF Hydrated, IsConflicted, ReplicaPlacement
    <2>4. b # None
        BY <2>2, SentinelAssumption
    <2> HIDE DEF b, q
    <2>5. RowOK(h, q)
        BY <1>2, <1>4, <1>5, <2>2, <2>3, <2>4
           DEF RowOK, Shape, FetchOK, Past, Paired, Based
    <2>6. WholeRow(h, q)
        BY <1>4, <1>5, <2>2, <2>3, <2>4 DEF WholeRow, Whole, StagedEdit
    <2>7. checkpoint # None => Covers(h, q, checkpoint)
        BY <1>2, <1>4, <1>5, <2>2, <2>3, <2>4 DEF Covers, KnownRevision, FetchOK
    <2> QED BY <1>4, <1>5, <2>3, <2>5, <2>6, <2>7 DEF RaisedOK, Raises, q
<1>6. CASE tier # "Full"
    <2>1. /\ q.object = p.object /\ q.base = p.base /\ q.status = p.status
          /\ q.conflict_revision = p.conflict_revision
          /\ q.conflict_object = p.conflict_object
        BY <1>1, <1>6 DEF Hydrated, ReplicaPlacement
    <2> HIDE DEF q
    <2>2. RowOK(h, q)
        BY <1>2, <2>1 DEF RowOK, Shape
    <2>3. WholeRow(h, q)
        BY <1>4, <1>6, <2>1 DEF WholeRow, Whole, StagedEdit
    <2>4. checkpoint # None => Covers(h, q, checkpoint)
        BY <1>2, <2>1 DEF Covers, KnownRevision
    <2> QED BY <2>1, <2>2, <2>3, <2>4 DEF RaisedOK, Raises, q
<1> QED BY <1>3, <1>5, <1>6

--------------------------------------------------------------------------------
(* The steps of an upgrade.                                                *)

(* A step of the coroutine's own, nothing else moving. *)
LEMMA StillBeside ==
    ASSUME BesideInv, Careful, UpInv', UNCHANGED vars, HydrateInv'
    PROVE  BesideInv'
<1>1. Inv /\ Inv' /\ SpineInv /\ WholeInv
    BY DEF BesideInv, UpInv
<1>2. SpineInv' /\ WholeInv'
    BY <1>1, SpineNext, WholeNext
<1> QED BY <1>2 DEF BesideInv

LEMMA StillOK ==
    ASSUME UNCHANGED <<items, gone, seq, checkpoint>>, NEW h \in Handle
    PROVE  /\ \A p, item : FetchOK(h, p, item)' <=> FetchOK(h, p, item)
           /\ \A p, q : RaisedOK(h, p, q)' <=> RaisedOK(h, p, q)
BY DEF FetchOK, RaisedOK, RowOK, Past, Paired, Based, Covers

LEMMA BeginHydrates ==
    ASSUME NEW batch \in Batches, NEW tier \in Tiers, BeginUpgrade(batch, tier)
    PROVE  HydrateInv'
<1>1. \E phase, placements, handles :
        upgrade' = [state |-> phase, tier |-> tier, handles |-> handles,
                    placements |-> placements, fetched |-> None4All,
                    claimed |-> {}, ops |-> [h \in Handle |-> Keep]]
    BY Zenon DEF BeginUpgrade
<1>2. upgrade'.fetched = None4All /\ upgrade'.ops = [h \in Handle |-> Keep]
    BY <1>1
<1> QED BY <1>2 DEF HydrateInv, None4All

LEMMA LookupHydrates ==
    ASSUME BesideInv, UpgradeLookup
    PROVE  HydrateInv'
<1>1. UpInv /\ SpineInv /\ WholeInv /\ HydrateInv
    BY DEF BesideInv
<1>2. /\ upgrade # None /\ upgrade.state = "PendingLookup" /\ UNCHANGED vars
      /\ upgrade \in ReplicaUpgrade /\ upgrade.tier = "Full"
      /\ upgrade.fetched = None4All /\ TypeOK
      /\ \A h \in Handle : Loaded(h)
    BY <1>1, UpgradeFacts DEF UpgradeLookup, UpInv, Staged
<1>3. PICK known \in [upgrade.handles -> Opt(Body)] :
        LET rest == {h \in upgrade.handles : known[h] = None}
        IN  /\ \A h \in upgrade.handles : known[h] \in Hits(upgrade.placements[h])
            /\ upgrade' =
                  [upgrade EXCEPT
                      !.state   = IF rest = {} THEN "PendingWrite"
                                  ELSE "PendingFetch",
                      !.handles = rest,
                      !.ops     = [h \in Handle |->
                          IF h \in upgrade.handles \ rest
                          THEN Upsert(LinkFromStore(upgrade.placements[h],
                                                    known[h]))
                          ELSE Keep]]
    BY Zenon DEF UpgradeLookup
<1> DEFINE linked == {h \in upgrade.handles : known[h] # None}
           ops    == [h \in Handle |->
                         IF h \in linked
                         THEN Upsert(LinkFromStore(upgrade.placements[h], known[h]))
                         ELSE Keep]
<1>4. /\ upgrade'.ops = ops /\ upgrade'.placements = upgrade.placements
      /\ upgrade'.fetched = None4All
    BY <1>2, <1>3 DEF ReplicaUpgrade
<1>5. ASSUME NEW h \in Handle, ops[h] # Keep
      PROVE  RaisedOK(h, upgrade.placements[h], ops[h].row)
    <2> DEFINE p == upgrade.placements[h]
    <2>1. /\ h \in upgrade.handles /\ known[h] \in Body
          /\ known[h] \in Hits(p) /\ known[h] # None
        BY <1>3, <1>5
    <2>2. Linkable(p)
        BY <2>1 DEF Hits
    <2>3. p # None /\ Needs(p, "Full")
        BY <1>2, <2>1 DEF Loaded
    <2>4. /\ p \in ReplicaPlacement /\ RowOK(h, p) /\ WholeRow(h, p)
          /\ checkpoint # None => Covers(h, p, checkpoint)
        BY <1>1, <1>2, <2>3, TargetFacts
    <2>5. RaisedOK(h, p, LinkFromStore(p, known[h]))
        BY <2>1, <2>2, <2>3, <2>4, LinkedOK
    <2>6. ops[h].row = LinkFromStore(p, known[h])
        BY <2>1 DEF Upsert
    <2> QED BY <2>5, <2>6
<1> HIDE DEF ops
<1>6. \A h \in Handle : \A p, q : RaisedOK(h, p, q) => RaisedOK(h, p, q)'
    BY <1>2, StillOK DEF vars
<1>7. ASSUME NEW h \in Handle, upgrade'.ops[h] # Keep
      PROVE  RaisedOK(h, upgrade.placements[h], upgrade.ops[h].row)'
    <2>1. PICK p, q : /\ p = upgrade.placements[h] /\ q = ops[h].row
                      /\ RaisedOK(h, p, q)
        BY <1>4, <1>5, <1>7
    <2>2. RaisedOK(h, p, q)'
        BY <1>6, <2>1
    <2>3. upgrade'.placements[h] = p /\ upgrade'.ops[h].row = q
        BY <1>4, <2>1
    <2> QED BY <2>2, <2>3
<1> QED BY <1>4, <1>7 DEF HydrateInv, None4All

LEMMA FetchHydrates ==
    ASSUME BesideInv, UpgradeFetch
    PROVE  HydrateInv'
<1>1. /\ upgrade # None /\ UNCHANGED vars /\ TypeOK /\ SpineInv /\ HydrateInv
      /\ upgrade \in ReplicaUpgrade
    BY UpgradeFacts DEF BesideInv, UpgradeFetch
<1> DEFINE answer == [h \in Handle |-> IF h \in upgrade.handles
                                       THEN FetchedItem(h, upgrade.tier) ELSE None]
<1>2. PICK phase : upgrade' = [upgrade EXCEPT
                                  !.fetched = answer,
                                  !.claimed = Links(upgrade.placements),
                                  !.state   = phase]
    BY Zenon DEF UpgradeFetch
<1>3. /\ upgrade'.fetched = answer /\ upgrade'.placements = upgrade.placements
      /\ upgrade'.ops = upgrade.ops
    BY <1>1, <1>2 DEF ReplicaUpgrade
<1> SUFFICES ASSUME NEW h \in Handle
             PROVE  /\ upgrade'.fetched[h] # None =>
                          FetchOK(h, upgrade.placements[h], upgrade.fetched[h])'
                    /\ upgrade'.ops[h] # Keep =>
                          RaisedOK(h, upgrade.placements[h], upgrade.ops[h].row)'
    BY DEF HydrateInv
<1>4. /\ \A p, item : FetchOK(h, p, item) => FetchOK(h, p, item)'
      /\ \A p, q : RaisedOK(h, p, q) => RaisedOK(h, p, q)'
    BY <1>1, StillOK DEF vars
<1>5. ASSUME upgrade'.fetched[h] # None
      PROVE  FetchOK(h, upgrade.placements[h], upgrade.fetched[h])'
    <2>1. PICK p, item : /\ p = upgrade.placements[h]
                         /\ item = FetchedItem(h, upgrade.tier)
        OBVIOUS
    <2>2. item # None /\ upgrade'.fetched[h] = item
        BY <1>3, <1>5, <2>1
    <2>3. FetchOK(h, p, item)
        BY <1>1, <2>1, <2>2, AnswerOK
    <2>4. FetchOK(h, p, item)'
        BY <1>4, <2>3
    <2> QED BY <1>3, <2>1, <2>2, <2>4
<1>6. ASSUME upgrade'.ops[h] # Keep
      PROVE  RaisedOK(h, upgrade.placements[h], upgrade.ops[h].row)'
    BY <1>1, <1>3, <1>4, <1>6 DEF HydrateInv
<1> QED BY <1>5, <1>6

LEMMA LinkCheckHydrates ==
    ASSUME BesideInv, UpgradeLinkCheck
    PROVE  HydrateInv'
<1>1. /\ upgrade # None /\ UNCHANGED vars /\ HydrateInv
      /\ upgrade \in ReplicaUpgrade /\ \A h \in Handle : Loaded(h)
    BY UpgradeFacts DEF BesideInv, UpgradeLinkCheck
<1> DEFINE fresh == {upgrade.fetched[h].link_id : h \in {k \in Handle :
                        /\ upgrade.fetched[k] # None
                        /\ upgrade.placements[k].link_id = None}}
           known == [h \in Handle |->
                        IF upgrade.placements[h] = None /\ h \in Holders(fresh)
                        THEN store[h] ELSE upgrade.placements[h]]
<1>2. upgrade' = [upgrade EXCEPT !.state = "Applying", !.placements = known,
                                 !.claimed = Links(known)]
    BY Zenon DEF UpgradeLinkCheck
<1>3. /\ upgrade'.fetched = upgrade.fetched /\ upgrade'.ops = upgrade.ops
      /\ upgrade'.placements = known
    BY <1>1, <1>2 DEF ReplicaUpgrade
<1>4. \A h \in Handle : upgrade.placements[h] # None =>
                            known[h] = upgrade.placements[h]
    OBVIOUS
<1> HIDE DEF known
<1>5. \A h \in Handle :
        /\ \A p, item : FetchOK(h, p, item) => FetchOK(h, p, item)'
        /\ \A p, q : RaisedOK(h, p, q) => RaisedOK(h, p, q)'
    BY <1>1, StillOK DEF vars
<1>6. \A h \in Handle :
        (upgrade.fetched[h] # None \/ upgrade.ops[h] # Keep) =>
            upgrade'.placements[h] = upgrade.placements[h]
    BY <1>1, <1>3, <1>4 DEF Loaded
<1> QED BY <1>1, <1>3, <1>5, <1>6 DEF HydrateInv

LEMMA ApplyHydrates ==
    ASSUME BesideInv, ApplyFetched
    PROVE  HydrateInv'
<1>1. /\ upgrade # None /\ UNCHANGED vars /\ HydrateInv
      /\ UpInv /\ SpineInv /\ WholeInv
      /\ upgrade \in ReplicaUpgrade /\ \A h \in Handle : Loaded(h)
    BY UpgradeFacts DEF BesideInv, ApplyFetched
<1>2. PICK h \in Handle, q \in ReplicaPlacement, claimed \in SUBSET LinkId :
        LET item == upgrade.fetched[h]
            p    == upgrade.placements[h]
            rest == [upgrade.fetched EXCEPT ![h] = None]
        IN  /\ item \in ReplicaFetchedItem /\ item # None
            /\ p \in ReplicaPlacement
            /\ \E row \in ReplicaPlacement :
                  /\ row \in {p} \cup {[p EXCEPT !.link_id = link] :
                                          link \in LinkId}
                  /\ q = Hydrated(row, item, upgrade.tier)
            /\ upgrade' = [upgrade EXCEPT
                  !.fetched = rest,
                  !.claimed = claimed,
                  !.ops     = [@ EXCEPT ![h] = Upsert(q)],
                  !.state   = IF rest = None4All THEN "PendingWrite"
                              ELSE "Applying"]
    BY <1>1, AppliedNext
<1>3. PICK p \in ReplicaPlacement, item \in ReplicaFetchedItem,
           row \in ReplicaPlacement :
        /\ item = upgrade.fetched[h] /\ item # None
        /\ p = upgrade.placements[h]
        /\ row \in {p} \cup {[p EXCEPT !.link_id = link] : link \in LinkId}
        /\ q = Hydrated(row, item, upgrade.tier)
    BY <1>2
<1>4. p # None /\ Needs(p, upgrade.tier) /\ upgrade.tier \in ReplicaTier
    BY <1>1, <1>3 DEF Loaded, ReplicaUpgrade
<1>5. /\ RowOK(h, p) /\ WholeRow(h, p)
      /\ checkpoint # None => Covers(h, p, checkpoint)
    BY <1>1, <1>3, <1>4, TargetFacts
<1>6. FetchOK(h, p, item)
    BY <1>1, <1>3 DEF HydrateInv
<1>7. RaisedOK(h, p, q)
    BY <1>3, <1>4, <1>5, <1>6, HydratedOK
<1>8. /\ upgrade'.placements = upgrade.placements
      /\ upgrade'.fetched = [upgrade.fetched EXCEPT ![h] = None]
      /\ upgrade'.ops = [upgrade.ops EXCEPT ![h] = Upsert(q)]
    BY <1>1, <1>2 DEF ReplicaUpgrade
<1>9. /\ \A k \in Handle : upgrade'.fetched[k] # None =>
                              upgrade'.fetched[k] = upgrade.fetched[k]
      /\ upgrade'.ops[h].row = q
      /\ \A k \in Handle \ {h} : upgrade'.ops[k] = upgrade.ops[k]
    BY <1>1, <1>8, UpsertFacts DEF ReplicaUpgrade
<1>10. \A k \in Handle :
        /\ \A r, new : FetchOK(k, r, new) => FetchOK(k, r, new)'
        /\ \A r, new : RaisedOK(k, r, new) => RaisedOK(k, r, new)'
    BY <1>1, StillOK DEF vars
<1>11. RaisedOK(h, p, q)'
    BY <1>7, <1>10
<1> SUFFICES ASSUME NEW k \in Handle
             PROVE  /\ upgrade'.fetched[k] # None =>
                          FetchOK(k, upgrade.placements[k], upgrade.fetched[k])'
                    /\ upgrade'.ops[k] # Keep =>
                          RaisedOK(k, upgrade.placements[k], upgrade.ops[k].row)'
    BY DEF HydrateInv
<1>12. upgrade'.fetched[k] # None =>
            FetchOK(k, upgrade.placements[k], upgrade.fetched[k])'
    BY <1>1, <1>8, <1>9, <1>10 DEF HydrateInv
<1>13. CASE k = h
    BY <1>3, <1>8, <1>9, <1>11, <1>12, <1>13
<1>14. CASE k # h
    <2>1. upgrade'.ops[k] # Keep =>
            RaisedOK(k, upgrade.placements[k], upgrade.ops[k].row)'
        BY <1>1, <1>8, <1>9, <1>10, <1>14 DEF HydrateInv
    <2> QED BY <1>12, <2>1
<1> QED BY <1>13, <1>14

(* Other clients move the server on: what was fetched stays one of the     *)
(* versions its member has had.                                            *)
LEMMA OthersHydrate ==
    ASSUME BesideInv, Inv', upgrade # None, Others, upgrade' = upgrade
    PROVE  HydrateInv'
<1>1. /\ HydrateInv /\ UpInv /\ SpineInv /\ WholeInv /\ ServerInv
      /\ TypeOK /\ TypeOK' /\ upgrade \in ReplicaUpgrade
      /\ \A h \in Handle :
            /\ Loaded(h)
            /\ upgrade.fetched[h] \in Opt(ReplicaFetchedItem)
            /\ upgrade.ops[h] \in ReplicaWriteOp \cup {Keep}
    BY UpgradeFacts DEF BesideInv, UpInv, Inv, SpineInv
<1>2. RemoteStep
    BY <1>1, OthersRemote
<1>3. UNCHANGED stored
    BY OthersMove DEF OtherClient
<1>4. checkpoint # None => checkpoint \in Nat /\ checkpoint <= seq
    BY <1>1 DEF TypeOK, ServerInv
<1>5. ASSUME NEW h \in Handle, upgrade.fetched[h] # None
      PROVE  FetchOK(h, upgrade.placements[h], upgrade.fetched[h])'
    <2> DEFINE p    == upgrade.placements[h]
               item == upgrade.fetched[h]
    <2>1. p # None /\ item \in ReplicaFetchedItem /\ FetchOK(h, p, item)
        BY <1>1, <1>5 DEF Loaded, HydrateInv
    <2>2. p \in ReplicaPlacement /\ RowOK(h, p)
        BY <1>1, <2>1, TargetFacts
    <2>3. item.revision \in Opt(Nat) /\ p.conflict_revision \in Opt(Nat)
        BY <2>1, <2>2, PlacementFacts DEF ReplicaFetchedItem
    <2>4. /\ Past(h, item.revision)' /\ Paired(h, item.revision, item.body)'
          /\ Paired(h, p.conflict_revision, item.body)'
        <3>1. PICK r, o, c : /\ r = item.revision /\ o = item.body
                             /\ c = p.conflict_revision
            OBVIOUS
        <3>2. /\ Past(h, r) /\ Paired(h, r, o) /\ Past(h, c) /\ Paired(h, c, o)
            BY <2>1, <2>2, <3>1, PlacementFacts DEF FetchOK, RowOK
        <3>3. Past(h, r)' /\ Paired(h, r, o)' /\ Paired(h, c, o)'
            BY <1>1, <1>2, <2>3, <3>1, <3>2, PastSurvives
        <3> QED BY <3>1, <3>3
    <2>5. (/\ Mutable /\ checkpoint # None
           /\ items'[h] # None /\ items'[h].seq <= checkpoint) =>
              item.revision = items'[h].rev
        BY <1>1, <1>2, <1>4, <2>1, ItemFacts DEF FetchOK, RemoteStep
    <2> QED BY <1>3, <2>1, <2>4, <2>5 DEF FetchOK
<1>6. ASSUME NEW h \in Handle, upgrade.ops[h] # Keep
      PROVE  RaisedOK(h, upgrade.placements[h], upgrade.ops[h].row)'
    <2>1. PICK p, q : p = upgrade.placements[h] /\ q = upgrade.ops[h].row
        OBVIOUS
    <2>2. q \in ReplicaPlacement /\ RaisedOK(h, p, q)
        BY <1>1, <1>6, <2>1 DEF Loaded, HydrateInv, ReplicaWriteOp
    <2>3. RowOK(h, q)'
        BY <1>1, <1>2, <2>2, RowSurvives DEF RaisedOK
    <2>4. checkpoint # None => Covers(h, q, checkpoint)'
        BY <1>1, <1>2, <1>3, <1>4, <2>2, CoverSurvives DEF RaisedOK
    <2>5. RaisedOK(h, p, q)'
        BY <1>3, <2>2, <2>3, <2>4 DEF RaisedOK
    <2> QED BY <2>1, <2>5
<1> QED BY <1>5, <1>6 DEF HydrateInv

(* Between runs, sound rows written leave all sound. *)
LEMMA IdleRows ==
    ASSUME SpineInv, WholeInv, TypeOK, pc = "Idle",
           UNCHANGED <<remoteVars, checkpoint, runVars>>,
           \A h \in Handle :
               /\ RowOK(h, store'[h]) /\ WholeRow(h, store'[h])
               /\ checkpoint # None => Covers(h, store'[h], checkpoint)
    PROVE  SpineInv' /\ WholeInv'
<1>1. \A k \in Handle : Row(k)' = store'[k]
    BY DEF SpineInv, PlaceInv, Enumerated, Row, Applied
<1>2. RowsInv'
    BY <1>1, StillServer DEF SpineInv, RowsInv
<1>3. CursorInv'
    BY <1>1, StillServer DEF CursorInv
<1>4. ServerInv' /\ Cautious'
    BY DEF SpineInv, ServerInv, Cautious
<1>5. PlaceInv' /\ ~Enumerated'
    BY DEF SpineInv, PlaceInv, Enumerated
<1>6. WholeInv'
    <2> SUFFICES ASSUME NEW h \in Handle PROVE WholeInv!(h)'
        BY DEF WholeInv
    <2> HIDE DEF WholeRow
    <2> QED BY <1>1 DEF WholeInv
<1> QED BY <1>2, <1>3, <1>4, <1>5, <1>6 DEF SpineInv

(* What the write of an upgrade makes of each row. *)
LEMMA WriteRaises ==
    ASSUME BesideInv, UpgradeWrite, NEW h \in Handle
    PROVE  \/ store'[h] = store[h]
           \/ /\ store[h] # None /\ store'[h] # None
              /\ RaisedOK(h, store[h], store'[h])
<1>1. /\ upgrade # None /\ store' = Applied(store, upgrade.ops) /\ HydrateInv
      /\ Loaded(h) /\ upgrade.ops[h] \in ReplicaWriteOp \cup {Keep}
    BY UpgradeFacts DEF BesideInv, UpgradeWrite
<1>2. CASE upgrade.ops[h] = Keep
    BY <1>1, <1>2 DEF Applied
<1>3. CASE upgrade.ops[h] # Keep
    <2>1. /\ upgrade.ops[h].op = "UpsertPlacement"
          /\ upgrade.placements[h] # None
          /\ upgrade.placements[h] = store[h]
          /\ upgrade.ops[h].row \in ReplicaPlacement
        BY <1>1, <1>3 DEF Loaded, ReplicaWriteOp
    <2>2. store'[h] = upgrade.ops[h].row /\ store'[h] # None
        BY <1>1, <1>3, <2>1, SentinelAssumption DEF Applied
    <2>3. RaisedOK(h, upgrade.placements[h], upgrade.ops[h].row)
        BY <1>1, <1>3 DEF HydrateInv
    <2> QED BY <2>1, <2>2, <2>3
<1> QED BY <1>2, <1>3

LEMMA WriteBeside ==
    ASSUME BesideInv, UpgradeWrite
    PROVE  BesideInv'
<1>1. /\ upgrade' = None /\ pc = "Idle" /\ TypeOK
      /\ UNCHANGED <<remoteVars, checkpoint, runVars>>
      /\ UpInv /\ SpineInv /\ WholeInv
    BY UpgradeFacts DEF BesideInv, UpgradeWrite
<1>2. ASSUME NEW h \in Handle
      PROVE  /\ RowOK(h, store'[h]) /\ WholeRow(h, store'[h])
             /\ checkpoint # None => Covers(h, store'[h], checkpoint)
    <2>1. /\ RowOK(h, store[h]) /\ WholeRow(h, store[h])
          /\ checkpoint # None => Covers(h, store[h], checkpoint)
        BY <1>1 DEF SpineInv, RowsInv, CursorInv, WholeInv
    <2>2. store'[h] = store[h] \/ RaisedOK(h, store[h], store'[h])
        BY WriteRaises
    <2> HIDE DEF WholeRow
    <2> QED BY <2>1, <2>2 DEF RaisedOK
<1>3. SpineInv' /\ WholeInv'
    BY <1>1, <1>2, IdleRows
<1>4. UpInv'
    BY <1>1, WriteUp
<1> QED BY <1>1, <1>3, <1>4 DEF BesideInv, HydrateInv

LEMMA CrashBeside ==
    ASSUME BesideInv, UpgradeCrash
    PROVE  BesideInv'
<1>1. /\ upgrade' = None /\ pc = "Idle" /\ TypeOK
      /\ UNCHANGED <<remoteVars, stored, runVars>>
      /\ UpInv /\ SpineInv /\ WholeInv
    BY UpgradeFacts DEF BesideInv, UpgradeCrash
<1>2. \A h \in Handle :
        /\ RowOK(h, store'[h]) /\ WholeRow(h, store'[h])
        /\ checkpoint # None => Covers(h, store'[h], checkpoint)
    BY <1>1 DEF SpineInv, RowsInv, CursorInv, WholeInv
<1>3. SpineInv' /\ WholeInv'
    BY <1>1, <1>2, IdleRows
<1>4. UpInv'
    BY <1>1, CrashUp
<1> QED BY <1>1, <1>3, <1>4 DEF BesideInv, HydrateInv

LEMMA BesideNext ==
    Careful /\ BesideInv /\ [UpgradeNext]_upgradeVars => BesideInv'
<1> SUFFICES ASSUME Careful, BesideInv, [UpgradeNext]_upgradeVars
             PROVE  BesideInv'
    OBVIOUS
<1>1. UpInv' /\ Inv' /\ UpInv /\ Inv /\ SpineInv /\ WholeInv /\ HydrateInv
    BY UpNext DEF BesideInv, UpInv
<1>2. ASSUME [Next]_vars PROVE SpineInv' /\ WholeInv'
    BY <1>1, <1>2, SpineNext, WholeNext
<1>3. CASE SyncBeside
    <2>1. CASE upgrade = None /\ Next /\ upgrade' = upgrade
        BY <1>1, <1>2, <2>1 DEF BesideInv, HydrateInv
    <2>2. CASE upgrade # None /\ Others /\ upgrade' = upgrade
        <3>1. Next
            BY <2>2 DEF Next
        <3> QED BY <1>1, <1>2, <2>2, <3>1, OthersHydrate DEF BesideInv
    <2> QED BY <1>3, <2>1, <2>2 DEF SyncBeside
<1>4. ASSUME NEW batch \in Batches, NEW tier \in Tiers, BeginUpgrade(batch, tier)
      PROVE  BesideInv'
    <2>1. UNCHANGED vars
        BY <1>4 DEF BeginUpgrade
    <2> QED BY <1>1, <1>4, <2>1, BeginHydrates, StillBeside
<1>5. CASE UpgradeLookup \/ UpgradeFetch \/ UpgradeLinkCheck \/ ApplyFetched
    <2>1. UNCHANGED vars
        BY <1>5 DEF UpgradeLookup, UpgradeFetch, UpgradeLinkCheck, ApplyFetched
    <2> QED BY <1>1, <1>5, <2>1, LookupHydrates, FetchHydrates,
               LinkCheckHydrates, ApplyHydrates, StillBeside
<1>6. CASE UpgradeWrite \/ UpgradeCrash
    BY <1>6, WriteBeside, CrashBeside
<1>7. CASE UNCHANGED upgradeVars
    <2>1. UNCHANGED vars /\ upgrade' = upgrade
        BY <1>7 DEF upgradeVars
    <2>2. HydrateInv'
        BY <1>1, <2>1, StillOK DEF HydrateInv, vars
    <2> QED BY <1>1, <2>1, <2>2, StillBeside
<1> QED BY <1>3, <1>4, <1>5, <1>6, <1>7 DEF UpgradeNext, UpgradeRun

LEMMA BesideInit == Careful /\ UpgradeInit => BesideInv
<1> SUFFICES ASSUME Careful, UpgradeInit PROVE BesideInv
    OBVIOUS
<1>1. Init /\ upgrade = None /\ Cautious
    BY DEF UpgradeInit, Careful
<1>2. Inv /\ SpineInv
    BY <1>1, InitInv, InitSpine
<1>3. WholeInv
    BY <1>1 DEF Init, NoRun, None4All, Row, Applied, WholeInv, WholeRow, Whole
<1> QED BY <1>1, <1>2, <1>3 DEF BesideInv, UpInv, Staged, HydrateInv

LEMMA BesideHolds == Careful /\ UpgradeSpec => []BesideInv
<1> SUFFICES ASSUME Careful PROVE UpgradeSpec => []BesideInv
    OBVIOUS
<1>1. UpgradeInit => BesideInv
    BY BesideInit
<1>2. BesideInv /\ [UpgradeNext]_upgradeVars => BesideInv'
    BY BesideNext
<1> QED BY <1>1, <1>2, PTL DEF UpgradeSpec

--------------------------------------------------------------------------------
(* The theorems.                                                           *)

(* Whatever other clients do between an upgrade's load, fetch and write,   *)
(* no row ends up with the body of one version under the revision of       *)
(* another, as its base or as the other side of a conflict: the body and   *)
(* the revision are those of one fetched item, and a body linked from the  *)
(* store goes to a base that names no revision (upgrade.rs, write_fetched, *)
(* link_from_store). A base may hold the body a copy was staged with       *)
(* instead of the one the server copied, as BasePairsBody says; the other  *)
(* side of a conflict never does.                                          *)
THEOREM VersionsStayPaired == Careful /\ UpgradeSpec => []VersionsPaired
<1>1. BesideInv => VersionsPaired
    <2> SUFFICES ASSUME BesideInv PROVE VersionsPaired
        OBVIOUS
    <2>1. \A h \in Handle : RowOK(h, store[h])
        BY DEF BesideInv, SpineInv, RowsInv
    <2>2. BasePairsBody
        BY <2>1 DEF RowOK, Based, BasePairsBody
    <2>3. \A h \in Handle : items[h] # None => items[h].rev # None
        BY SentinelAssumption, ItemFacts DEF BesideInv, UpInv, Inv
    <2> QED BY <2>1, <2>2, <2>3 DEF RowOK, Paired, VersionsPaired
<1> QED BY <1>1, BesideHolds, PTL

(* The cursor claims nothing the rows do not hold, upgrades running        *)
(* between the syncs: a hydration pins a revision no older than the one    *)
(* the cursor covers (upgrade.rs, write_fetched: the base takes the        *)
(* fetched revision).                                                      *)
THEOREM CursorHonestBeside == Careful /\ UpgradeSpec => []SpineComplete
<1>1. BesideInv => SpineComplete
    BY DEF BesideInv, SpineInv, CursorInv, Covers, SpineComplete
<1> QED BY <1>1, BesideHolds, PTL

(* No upgrade, from its start to its write, gives up a locally authored    *)
(* body: a row that holds one reads as hydrated at every tier a server's   *)
(* member can be asked for, and a conflict takes the remote body beside    *)
(* its own (upgrade.rs, pending_handles, is_conflicted).                   *)
THEOREM UpgradesKeepEdits == Careful /\ UpgradeSpec => UpgradeKeepsEdits
<1> DEFINE Keeps == upgrade # None => PendingBodies(store) \subseteq PendingBodies(store')
<1>1. BesideInv /\ [UpgradeNext]_upgradeVars => [Keeps]_upgradeVars
    <2> SUFFICES ASSUME BesideInv, UpgradeNext, upgrade # None
                 PROVE  PendingBodies(store) \subseteq PendingBodies(store')
        OBVIOUS
    <2>1. CASE store' = store
        BY <2>1
    <2>2. CASE UpgradeWrite
        <3>1. ASSUME NEW h \in Handle
              PROVE  \/ store'[h] = store[h]
                     \/ /\ store[h] # None /\ store'[h] # None
                        /\ Raises(store'[h], store[h])
            BY <2>2, WriteRaises DEF RaisedOK
        <3> QED BY <3>1 DEF PendingBodies, Raises, StagedEdit
    <2>3. UpgradeWrite \/ store' = store
        BY OthersMove
           DEF UpgradeNext, SyncBeside, OtherClient, BeginUpgrade, UpgradeRun,
               UpgradeLookup, UpgradeFetch, UpgradeLinkCheck, ApplyFetched,
               UpgradeCrash, vars
    <2> QED BY <2>1, <2>2, <2>3
<1> QED BY <1>1, BesideHolds, PTL DEF UpgradeSpec, UpgradeKeepsEdits

--------------------------------------------------------------------------------
(* What a rebuild makes of the rows.                                       *)

(* A row of the spine: pending creates are local staging. *)
Spined(all, h) == all[h] # None /\ all[h].status # "Created"

(* The member k is carried from the row h: the first of the members under  *)
(* its link, the last of the rows.                                         *)
CarriedFrom(all, snapshot, links, k, h) ==
    /\ snapshot.items[k] # None /\ links[k] # None
    /\ \A j \in Handle : (snapshot.items[j] # None /\ j < k) => links[j] # links[k]
    /\ Spined(all, h) /\ all[h].link_id = links[k]
    /\ \A j \in Handle : (Spined(all, j) /\ all[j].link_id = links[k]) => j <= h

(* The edit of h comes back as a create of its own. *)
Revives(all, snapshot, links, h) ==
    /\ Spined(all, h) /\ Survives(all[h])
    /\ \A k \in Handle : ~CarriedFrom(all, snapshot, links, k, h)

LEMMA RebuildCases ==
    ASSUME NEW all \in [Handle -> Opt(ReplicaPlacement)], NEW snapshot,
           NEW links, NEW h \in Handle
    PROVE  LET op == Rebuild(all, snapshot, links)[h]
           IN  \/ /\ Revives(all, snapshot, links, h)
                  /\ op = Upsert(Resurrect(all[h]))
               \/ /\ ~Revives(all, snapshot, links, h) /\ snapshot.items[h] # None
                  /\ \E j \in Handle :
                        /\ CarriedFrom(all, snapshot, links, h, j)
                        /\ op = Upsert(Carry(all[j], snapshot.items[h]))
               \/ /\ ~Revives(all, snapshot, links, h) /\ snapshot.items[h] # None
                  /\ \A j \in Handle : ~CarriedFrom(all, snapshot, links, h, j)
                  /\ op = Upsert(Fresh(snapshot.items[h], links[h]))
               \/ /\ ~Revives(all, snapshot, links, h) /\ snapshot.items[h] = None
                  /\ Spined(all, h) /\ op = Drop("Superseded")
               \/ /\ snapshot.items[h] = None /\ ~Spined(all, h) /\ op = Keep
<1> DEFINE old == [k \in Handle |->
                     IF all[k] # None /\ all[k].status = "Created"
                     THEN None ELSE all[k]]
           members    == {k \in Handle : snapshot.items[k] # None}
           holding(l) == {k \in Handle : old[k] # None /\ old[k].link_id = l}
           carried(k) == IF links[k] = None
                            \/ \E j \in members : j < k /\ links[j] = links[k]
                         THEN {}
                         ELSE {j \in holding(links[k]) :
                                  \A i \in holding(links[k]) : i <= j}
           matched    == UNION {carried(k) : k \in members}
           row(k)     == IF carried(k) = {}
                         THEN Fresh(snapshot.items[k], links[k])
                         ELSE Carry(old[CHOOSE j \in carried(k) : TRUE],
                                    snapshot.items[k])
<1>1. Rebuild(all, snapshot, links)[h] =
         IF old[h] # None /\ h \notin matched /\ Survives(old[h])
         THEN Upsert(Resurrect(old[h]))
         ELSE IF h \in members THEN Upsert(row(h))
         ELSE IF old[h] # None THEN Drop("Superseded")
         ELSE Keep
    BY DEF Rebuild
<1>2. \A k \in Handle : /\ old[k] # None <=> Spined(all, k)
                        /\ Spined(all, k) => old[k] = all[k]
    BY DEF Spined
<1>3. \A k \in members, j \in Handle :
         j \in carried(k) <=> CarriedFrom(all, snapshot, links, k, j)
    <2> SUFFICES ASSUME NEW k \in members, NEW j \in Handle
                 PROVE  j \in carried(k) <=> CarriedFrom(all, snapshot, links, k, j)
        OBVIOUS
    <2>1. \A i \in Handle : i \in holding(links[k]) <=>
             Spined(all, i) /\ all[i].link_id = links[k]
        BY <1>2
    <2>2. holding(links[k]) \subseteq Handle
        OBVIOUS
    <2> HIDE DEF old, holding
    <2> QED BY <2>1, <2>2 DEF CarriedFrom
<1>4. \A k \in members : carried(k) \subseteq Handle
    OBVIOUS
<1>5. h \in matched <=> \E k \in Handle : CarriedFrom(all, snapshot, links, k, h)
    <2>1. \A k \in Handle : CarriedFrom(all, snapshot, links, k, h) => k \in members
        BY DEF CarriedFrom
    <2> HIDE DEF carried, old
    <2> QED BY <1>3, <2>1
<1> HIDE DEF carried, old, holding
<1>6. (old[h] # None /\ h \notin matched /\ Survives(old[h])) <=>
         Revives(all, snapshot, links, h)
    BY <1>2, <1>5 DEF Revives
<1> HIDE DEF matched
<1>7. CASE Revives(all, snapshot, links, h)
    BY <1>1, <1>2, <1>6, <1>7 DEF Revives
<1>8. CASE ~Revives(all, snapshot, links, h) /\ h \in members
    <2>1. Rebuild(all, snapshot, links)[h] = Upsert(row(h))
        BY <1>1, <1>6, <1>8
    <2>2. CASE carried(h) = {}
        BY <1>3, <1>8, <2>1, <2>2
    <2>3. CASE carried(h) # {}
        <3>1. PICK j \in carried(h) : j = CHOOSE i \in carried(h) : TRUE
            BY <2>3
        <3>2. j \in Handle /\ CarriedFrom(all, snapshot, links, h, j)
            BY <1>3, <1>4, <1>8
        <3>3. row(h) = Carry(all[j], snapshot.items[h])
            BY <1>2, <2>3, <3>1, <3>2 DEF CarriedFrom
        <3> QED BY <1>8, <2>1, <3>2, <3>3
    <2> QED BY <2>2, <2>3
<1>9. CASE ~Revives(all, snapshot, links, h) /\ h \notin members
    BY <1>1, <1>2, <1>6, <1>9
<1> QED BY <1>7, <1>8, <1>9

LEMMA CarryType ==
    ASSUME NEW p \in ReplicaPlacement, NEW item \in ReplicaRemoteItem
    PROVE  Carry(p, item) \in ReplicaPlacement
<1> DEFINE base_flags == IF p.base = None THEN {} ELSE p.base.flags
           flags      == MergeFlags(base_flags, p.flags, item.flags)
           base       == [flags |-> item.flags, revision |-> item.revision,
                          object |-> IF p.base = None THEN None ELSE p.base.object]
<1>1. item.flags \in ReplicaFlags /\ item.revision \in Opt(Revision)
    BY DEF ReplicaRemoteItem
<1>2. p.base # None => p.base \in ReplicaBase
    BY DEF ReplicaPlacement
<1>3. base_flags \in ReplicaFlags /\ p.flags \in ReplicaFlags
    BY <1>2 DEF ReplicaBase, ReplicaFlags, ReplicaPlacement
<1>4. flags \in ReplicaFlags
    BY <1>1, <1>3, MergeFlagsType
<1>5. base \in ReplicaBase
    BY <1>1, <1>2 DEF ReplicaBase
<1> HIDE DEF flags, base
<1>6. PICK status \in ReplicaStatus, revision \in Opt(Revision),
           object \in Opt(Body) :
         Carry(p, item) = [p EXCEPT !.meta = "summary", !.flags = flags,
                              !.status = status, !.conflict_revision = revision,
                              !.conflict_object = object, !.base = base]
    <2> DEFINE edit == p.status = "Dirty" /\ StagedEdit(p)
               s == IF p.status \in {"Tombstone", "Conflict"} THEN p.status
                    ELSE IF edit \/ flags # item.flags THEN "Dirty" ELSE "Clean"
               r == IF s = "Conflict" THEN item.revision ELSE None
               o == IF r = p.conflict_revision THEN p.conflict_object ELSE None
    <2>1. s \in ReplicaStatus
        BY DEF ReplicaStatus
    <2>2. r \in Opt(Revision) /\ o \in Opt(Body)
        BY <1>1 DEF ReplicaPlacement
    <2>3. Carry(p, item) = [p EXCEPT !.meta = "summary", !.flags = flags,
                               !.status = s, !.conflict_revision = r,
                               !.conflict_object = o, !.base = base]
        BY Zenon DEF Carry, flags, base
    <2> HIDE DEF s, r, o
    <2> QED BY <2>1, <2>2, <2>3
<1> QED BY <1>4, <1>5, <1>6 DEF ReplicaPlacement, ReplicaMeta

LEMMA FreshType ==
    ASSUME NEW item \in ReplicaRemoteItem, NEW link \in Opt(LinkId)
    PROVE  Fresh(item, link) \in ReplicaPlacement
BY PullAddType DEF Fresh, ReplicaPlacement, ReplicaLevel, ReplicaMeta

(* The row of h once the rebuild is written. *)
RebuiltRow(all, snapshot, links, h, q) ==
    \/ Revives(all, snapshot, links, h) /\ q = Resurrect(all[h])
    \/ /\ ~Revives(all, snapshot, links, h) /\ snapshot.items[h] # None
       /\ \/ \E j \in Handle : /\ CarriedFrom(all, snapshot, links, h, j)
                               /\ q = Carry(all[j], snapshot.items[h])
          \/ /\ \A j \in Handle : ~CarriedFrom(all, snapshot, links, h, j)
             /\ q = Fresh(snapshot.items[h], links[h])
    \/ /\ ~Revives(all, snapshot, links, h) /\ snapshot.items[h] = None
       /\ Spined(all, h) /\ q = None
    \/ snapshot.items[h] = None /\ ~Spined(all, h) /\ q = all[h]

LEMMA RebuildRows ==
    ASSUME NEW all \in [Handle -> Opt(ReplicaPlacement)],
           NEW snapshot \in ReplicaRemoteSnapshot,
           NEW links \in [Handle -> Opt(LinkId)], NEW h \in Handle
    PROVE  LET q == Applied(all, Rebuild(all, snapshot, links))[h]
           IN  RebuiltRow(all, snapshot, links, h, q) /\ q \in Opt(ReplicaPlacement)
<1> DEFINE op == Rebuild(all, snapshot, links)[h]
           q  == Applied(all, Rebuild(all, snapshot, links))[h]
<1>1. q = IF op = Keep THEN all[h]
          ELSE IF op.op = "DropPlacement" THEN None ELSE op.row
    BY DEF Applied
<1>2. \A p \in ReplicaPlacement :
         /\ Upsert(p) # Keep /\ Upsert(p).op # "DropPlacement"
         /\ Upsert(p).row = p
    BY UpsertFacts
<1>3. Drop("Superseded") # Keep /\ Drop("Superseded").op = "DropPlacement"
    BY OpTypes, MergeAssumption DEF Drop, DropReason
<1>4. snapshot.items[h] \in Opt(ReplicaRemoteItem) /\ links[h] \in Opt(LinkId)
    BY DEF ReplicaRemoteSnapshot
<1>5. /\ Spined(all, h) => Resurrect(all[h]) \in ReplicaPlacement
      /\ snapshot.items[h] # None =>
            /\ Fresh(snapshot.items[h], links[h]) \in ReplicaPlacement
            /\ \A j \in Handle : Spined(all, j) =>
                  Carry(all[j], snapshot.items[h]) \in ReplicaPlacement
    BY <1>4, ResurrectType, FreshType, CarryType DEF Spined
<1> HIDE DEF op, q
<1> QED BY <1>1, <1>2, <1>3, <1>5, RebuildCases
        DEF RebuiltRow, Revives, CarriedFrom, op, q

--------------------------------------------------------------------------------
(* One verb at a time.                                                     *)

(* No edit is staged under a handle of the space the rows are not yet in,  *)
(* nor under one the rebuild enumerated there.                             *)
SpacedInv ==
    ~ReuseEdited =>
        \A h \in Handle :
            store[h] # None =>
                /\ Void /\ items[h] # None => ~StagedEdit(store[h])
                /\ (rekey # None /\ rekey.state # "PendingEnumerate"
                        /\ rekey.snap.items[h] # None)
                      => ~StagedEdit(store[h])

(* On a void space nothing of the replica runs but the rebuild, over the   *)
(* rows it loaded.                                                         *)
RekeyInv ==
    /\ UpInv
    /\ epoch \in Nat /\ synced_epoch \in Nat /\ synced_epoch <= epoch
    /\ rekey \in Opt(ReplicaRekey)
    /\ Void => pc = "Idle" /\ upgrade = None
    /\ rekey # None =>
          /\ Void /\ rekey.old = store
          /\ rekey.state # "PendingEnumerate" => rekey.snap \in ReplicaRemoteSnapshot
    /\ SpacedInv

(* A step of other clients or of the user's leaves an idle sync idle. *)
LEMMA VoidStep ==
    ASSUME UpInv, upgrade = None, pc = "Idle", User \/ Others, UNCHANGED upgrade
    PROVE  UpInv' /\ UNCHANGED runVars /\ (Others => UNCHANGED stored)
<1>1. SyncBeside
    BY DEF SyncBeside, Next
<1>2. UpInv'
    BY <1>1, BesideUp
<1>3. UNCHANGED runVars /\ (Others => UNCHANGED stored)
    BY UserMutates, OthersMove DEF Mutate, OtherClient
<1> QED BY <1>2, <1>3

LEMMA RenumberUp ==
    ASSUME UpInv, OthersRenumber
    PROVE  UpInv'
<1> DEFINE members == {h \in Handle : items[h] # None}
<1>1. PICK moved \in [members -> ServerHandle] : Renumber(moved)
    BY DEF OthersRenumber
<1> DEFINE at(k) == {h \in members : moved[h] = k}
<1>2. /\ items' = [k \in Handle |->
                      IF at(k) = {} THEN None
                      ELSE [items[CHOOSE h \in at(k) : TRUE]
                              EXCEPT !.seq = seq + 1]]
      /\ gone' = [h \in Handle |->
                      IF h \in members /\ at(h) = {} THEN seq + 1 ELSE gone[h]]
      /\ seq' = seq + 1
      /\ UNCHANGED <<results, landed>>
    BY <1>1 DEF Renumber
<1>3. /\ pc = "Idle" /\ upgrade = None /\ upgrade' = upgrade
      /\ UNCHANGED <<stored, runVars, spent>>
    BY DEF OthersRenumber
<1>4. TypeOK /\ seq + 1 \in Nat
    BY DEF UpInv, Inv, TypeOK
<1>5. ASSUME NEW k \in Handle, at(k) # {}
      PROVE  [items[CHOOSE h \in at(k) : TRUE] EXCEPT !.seq = seq + 1] \in ServerItem
    <2>1. PICK h \in at(k) : h = CHOOSE i \in at(k) : TRUE
        BY <1>5
    <2>2. items[h] \in ServerItem
        BY <1>4, <2>1 DEF TypeOK
    <2>3. [items[h] EXCEPT !.seq = seq + 1] \in ServerItem
        BY <1>4, <2>2 DEF ServerItem
    <2> QED BY <2>1, <2>3
<1> HIDE DEF at
<1>6. items' \in [Handle -> Opt(ServerItem)]
    BY <1>2, <1>5
<1>7. gone' \in [Handle -> Nat]
    BY <1>2, <1>4 DEF TypeOK
<1>8. TypeOK'
    BY <1>2, <1>3, <1>4, <1>6, <1>7 DEF TypeOK
<1>9. Phases' /\ OnePushPerHandle'
    BY <1>2, <1>3 DEF UpInv, Inv, Phases, OnePushPerHandle, Owed
<1> QED BY <1>3, <1>8, <1>9 DEF UpInv, Inv, Staged

LEMMA VerbsRekey ==
    ASSUME RekeyInv, Verbs
    PROVE  RekeyInv'
<1>1. UNCHANGED <<rekey, epoch, synced_epoch>>
    BY DEF Verbs
<1>2. CASE rekey = None /\ ~Void /\ UpgradeNext
    <2>1. UpInv'
        BY <1>2, UpNext DEF RekeyInv
    <2> QED BY <1>1, <1>2, <2>1 DEF RekeyInv, SpacedInv, Void
<1>3. CASE rekey = None /\ Void /\ (User \/ Others) /\ Apart /\ UNCHANGED upgrade
    <2>1. /\ UpInv' /\ UNCHANGED runVars
        BY <1>3, VoidStep DEF RekeyInv
    <2>2. SpacedInv'
        BY <1>1, <1>3 DEF SpacedInv, Apart
    <2> QED BY <1>1, <1>3, <2>1, <2>2 DEF RekeyInv, Void
<1>4. CASE rekey # None /\ Others /\ Apart /\ UNCHANGED upgrade
    <2>1. UpInv' /\ UNCHANGED <<stored, runVars>>
        BY <1>4, VoidStep DEF RekeyInv
    <2>2. SpacedInv'
        BY <1>1, <1>4, <2>1 DEF RekeyInv, SpacedInv, Apart, Void
    <2> QED BY <1>1, <1>4, <2>1, <2>2 DEF RekeyInv, Void
<1> QED BY <1>2, <1>3, <1>4 DEF Verbs

LEMMA RenumberRekey ==
    ASSUME RekeyInv, OthersRenumber
    PROVE  RekeyInv'
<1>1. /\ pc' = "Idle" /\ upgrade' = None /\ rekey' = None /\ epoch' = epoch + 1
      /\ synced_epoch' = synced_epoch /\ Apart
    BY DEF OthersRenumber
<1>2. SpacedInv'
    BY <1>1 DEF SpacedInv, Apart
<1> QED BY <1>1, <1>2, RenumberUp DEF RekeyInv, Void

LEMMA BeginRekeys ==
    ASSUME RekeyInv, BeginRekey
    PROVE  RekeyInv'
<1>1. /\ UNCHANGED <<upgradeVars, epoch, synced_epoch>> /\ Void
      /\ rekey' = [state |-> "PendingEnumerate", old |-> store,
                   snap |-> None, links |-> None4All]
    BY DEF BeginRekey
<1>2. UpInv'
    BY <1>1, UpNext DEF RekeyInv
<1>3. UNCHANGED vars /\ upgrade' = upgrade
    BY <1>1 DEF upgradeVars
<1>4. rekey' \in ReplicaRekey
    BY <1>1 DEF ReplicaRekey, RekeyInv, UpInv, Inv, TypeOK, None4All
<1>5. SpacedInv'
    BY <1>1, <1>3 DEF RekeyInv, SpacedInv, Void, vars
<1> QED BY <1>1, <1>2, <1>3, <1>4, <1>5 DEF RekeyInv, Void, vars

LEMMA EnumerateRekeys ==
    ASSUME RekeyInv, RekeyEnumerate
    PROVE  RekeyInv'
<1>1. /\ UNCHANGED <<upgradeVars, epoch, synced_epoch>> /\ rekey # None
      /\ \E state \in {"PendingWrite", "PendingFetch"} :
            rekey' = [rekey EXCEPT !.snap = Snapshot(None), !.state = state]
    BY DEF RekeyEnumerate
<1>2. UpInv'
    BY <1>1, UpNext DEF RekeyInv
<1>3. UNCHANGED vars /\ upgrade' = upgrade
    BY <1>1 DEF upgradeVars
<1>4. Snapshot(None) \in ReplicaRemoteSnapshot
    BY SnapshotType DEF RekeyInv, UpInv, Inv
<1>6. /\ rekey \in ReplicaRekey /\ rekey' \in ReplicaRekey
      /\ rekey'.snap = Snapshot(None) /\ rekey'.old = rekey.old
    BY <1>1, <1>4 DEF RekeyInv, ReplicaRekey
<1>7. \A h \in Handle : Snapshot(None).items[h] # None => items[h] # None
    BY DEF Snapshot
<1>8. SpacedInv'
    BY <1>1, <1>3, <1>6, <1>7 DEF RekeyInv, SpacedInv, Void, vars
<1> QED BY <1>1, <1>2, <1>3, <1>4, <1>6, <1>8 DEF RekeyInv, Void, vars

LEMMA FetchRekeys ==
    ASSUME RekeyInv, RekeyFetch
    PROVE  RekeyInv'
<1> DEFINE links == [h \in Handle |->
                        IF rekey.snap.items[h] # None /\ items[h] # None
                        THEN items[h].link ELSE None]
<1>1. /\ UNCHANGED <<upgradeVars, epoch, synced_epoch>> /\ rekey # None
      /\ rekey' = [rekey EXCEPT !.state = "PendingWrite", !.links = links]
      /\ rekey.state = "PendingFetch"
    BY DEF RekeyFetch
<1>2. UpInv'
    BY <1>1, UpNext DEF RekeyInv
<1>3. UNCHANGED vars /\ upgrade' = upgrade
    BY <1>1 DEF upgradeVars
<1>4. links \in [Handle -> Opt(LinkId)]
    BY DEF RekeyInv, UpInv, Inv, TypeOK, ServerItem
<1> HIDE DEF links
<1>5. /\ rekey \in ReplicaRekey /\ rekey' \in ReplicaRekey
      /\ rekey'.snap = rekey.snap /\ rekey'.old = rekey.old
      /\ rekey.snap \in ReplicaRemoteSnapshot /\ rekey'.state = "PendingWrite"
    BY <1>1, <1>4 DEF RekeyInv, ReplicaRekey
<1>6. SpacedInv'
    BY <1>1, <1>3, <1>5 DEF RekeyInv, SpacedInv, Void, vars
<1> QED BY <1>1, <1>2, <1>3, <1>5, <1>6 DEF RekeyInv, Void, vars

LEMMA WriteRekeys ==
    ASSUME RekeyInv, RekeyWrite
    PROVE  RekeyInv'
<1>1. /\ rekey # None /\ rekey.state = "PendingWrite"
      /\ store' = Applied(store, Rebuild(rekey.old, rekey.snap, rekey.links))
      /\ checkpoint' = rekey.snap.checkpoint
      /\ rekey' = None /\ synced_epoch' = epoch /\ epoch' = epoch
      /\ UNCHANGED <<remoteVars, runVars, spent, upgrade>>
    BY DEF RekeyWrite
<1>2. /\ rekey.old = store /\ rekey.snap \in ReplicaRemoteSnapshot
      /\ rekey.links \in [Handle -> Opt(LinkId)]
      /\ store \in [Handle -> Opt(ReplicaPlacement)]
      /\ pc = "Idle" /\ upgrade = None
    BY <1>1 DEF RekeyInv, ReplicaRekey, UpInv, Inv, TypeOK
<1>3. store' \in [Handle -> Opt(ReplicaPlacement)]
    <2>1. \A h \in Handle : store'[h] \in Opt(ReplicaPlacement)
        BY <1>1, <1>2, RebuildRows
    <2>2. DOMAIN store' = Handle /\ store' = [h \in DOMAIN store' |-> store'[h]]
        BY <1>1 DEF Applied
    <2> QED BY <2>1, <2>2
<1>4. checkpoint' \in Opt(Nat)
    BY <1>1, <1>2 DEF ReplicaRemoteSnapshot
<1>5. TypeOK'
    BY <1>1, <1>3, <1>4 DEF RekeyInv, UpInv, Inv, TypeOK
<1>6. Phases' /\ OnePushPerHandle'
    BY <1>1 DEF RekeyInv, UpInv, Inv, Phases, OnePushPerHandle, Owed
<1>7. UpInv'
    BY <1>1, <1>2, <1>5, <1>6 DEF UpInv, Inv, Staged
<1> QED BY <1>1, <1>7 DEF RekeyInv, SpacedInv, Void

LEMMA CrashRekeys ==
    ASSUME RekeyInv, RekeyCrash
    PROVE  RekeyInv'
<1>1. /\ rekey' = None /\ UNCHANGED <<remoteVars, stored, runVars, upgrade>>
      /\ UNCHANGED <<epoch, synced_epoch>> /\ rekey # None
      /\ Spend("fault", MaxFault)
    BY DEF RekeyCrash
<1>2. spent' \in [{"user", "remote", "fault"} -> Nat]
    BY <1>1, SpendType DEF RekeyInv, UpInv, Inv
<1>3. TypeOK'
    BY <1>1, <1>2 DEF RekeyInv, UpInv, Inv, TypeOK
<1>4. Phases' /\ OnePushPerHandle'
    BY <1>1 DEF RekeyInv, UpInv, Inv, Phases, OnePushPerHandle, Owed
<1>5. UpInv' /\ upgrade = None
    BY <1>1, <1>3, <1>4 DEF RekeyInv, UpInv, Inv, Staged
<1>6. SpacedInv'
    BY <1>1 DEF RekeyInv, SpacedInv, Void
<1> QED BY <1>1, <1>5, <1>6 DEF RekeyInv, Void

LEMMA RekeyNext == RekeyInv /\ [ReplicaNext]_replicaVars => RekeyInv'
<1> SUFFICES ASSUME RekeyInv, [ReplicaNext]_replicaVars PROVE RekeyInv'
    OBVIOUS
<1>1. CASE UNCHANGED replicaVars
    <2>1. /\ UNCHANGED upgradeVars /\ rekey' = rekey /\ epoch' = epoch
          /\ synced_epoch' = synced_epoch
        BY <1>1 DEF replicaVars
    <2>2. UpInv' /\ UNCHANGED vars /\ upgrade' = upgrade
        BY <2>1, UpNext DEF RekeyInv, upgradeVars
    <2> QED BY <2>1, <2>2 DEF RekeyInv, SpacedInv, Void, vars
<1> QED BY <1>1, VerbsRekey, RenumberRekey, BeginRekeys, EnumerateRekeys,
           FetchRekeys, WriteRekeys, CrashRekeys DEF ReplicaNext, RekeyRun

LEMMA InitRekey == ReplicaInit => RekeyInv
BY InitInv DEF ReplicaInit, UpgradeInit, UpInv, Staged, RekeyInv, SpacedInv, Void

(* The coroutine is always in one of its states, alone with the rows it    *)
(* loaded (rekey.rs, resume: the rows are loaded once, and written with    *)
(* the new cursor and epoch in one batch).                                 *)
THEOREM RekeyTypeCorrect == ReplicaSpec => []RekeyTypeOK
<1>1. RekeyInv => RekeyTypeOK
    BY DEF RekeyInv, RekeyTypeOK, UpInv, Inv, TypeOK, Staged, UpgradeTypeOK
<1> QED BY <1>1, InitRekey, RekeyNext, PTL DEF ReplicaSpec

--------------------------------------------------------------------------------
(* No authored body is lost.                                               *)

(* The row p owes the remote its body, or holds it for its conflict. *)
Pends(p) ==
    /\ p # None /\ p.status \in {"Dirty", "Conflict", "Created"} /\ StagedEdit(p)

LEMMA CarryFields ==
    ASSUME NEW p \in ReplicaPlacement, NEW item
    PROVE  LET q == Carry(p, item)
           IN  /\ q.object = p.object /\ q.link_id = p.link_id
               /\ q.level = p.level /\ q.meta = "summary"
               /\ q.flags = MergeFlags(IF p.base = None THEN {} ELSE p.base.flags,
                                       p.flags, item.flags)
               /\ q.base = [flags |-> item.flags, revision |-> item.revision,
                            object |-> IF p.base = None THEN None ELSE p.base.object]
               /\ p.status \in {"Tombstone", "Conflict"} => q.status = p.status
               /\ p.status \notin {"Tombstone", "Conflict"} =>
                     q.status \in {"Clean", "Dirty"}
               /\ (p.status = "Dirty" /\ StagedEdit(p)) => q.status = "Dirty"
               /\ q.conflict_revision =
                     IF q.status = "Conflict" THEN item.revision ELSE None
               /\ q.conflict_object =
                     IF q.conflict_revision = p.conflict_revision
                     THEN p.conflict_object ELSE None
BY DEF Carry, ReplicaPlacement

LEMMA CarryPends ==
    ASSUME NEW p \in ReplicaPlacement, NEW item \in ReplicaRemoteItem,
           p.status \in {"Dirty", "Conflict"}, StagedEdit(p)
    PROVE  Pends(Carry(p, item)) /\ Carry(p, item).object = p.object
<1> DEFINE q == Carry(p, item)
<1>1. q # None
    BY CarryType, SentinelAssumption
<1> DEFINE object == IF p.base = None THEN None ELSE p.base.object
<1>2. /\ q.object = p.object /\ q.status \in {"Dirty", "Conflict"}
      /\ q.base = [flags |-> item.flags, revision |-> item.revision,
                   object |-> object]
    BY CarryFields
<1>4. q.base.object = object
    BY <1>2
<1> HIDE DEF q
<1>3. StagedEdit(q)
    BY <1>2, <1>4 DEF StagedEdit
<1> QED BY <1>1, <1>2, <1>3 DEF Pends, q

LEMMA RebuildKeeps ==
    ASSUME NEW all \in [Handle -> Opt(ReplicaPlacement)],
           NEW snapshot \in ReplicaRemoteSnapshot,
           NEW links \in [Handle -> Opt(LinkId)], NEW h \in Handle, Pends(all[h]),
           \A k \in Handle : (all[k] # None /\ snapshot.items[k] # None) =>
                                ~StagedEdit(all[k])
    PROVE  \E k \in Handle :
              LET q == Applied(all, Rebuild(all, snapshot, links))[k]
              IN  Pends(q) /\ q.object = all[h].object
<1> DEFINE q(k) == Applied(all, Rebuild(all, snapshot, links))[k]
<1>1. \A k \in Handle : /\ RebuiltRow(all, snapshot, links, k, q(k))
                        /\ q(k) \in Opt(ReplicaPlacement)
    BY RebuildRows
<1> SUFFICES \E k \in Handle : Pends(q(k)) /\ q(k).object = all[h].object
    OBVIOUS
<1> HIDE DEF q
<1>2. all[h] # None /\ all[h] \in ReplicaPlacement /\ snapshot.items[h] = None
    BY DEF Pends
<1>3. CASE ~Spined(all, h)
    BY <1>1, <1>2, <1>3 DEF RebuiltRow, Revives
<1>4. CASE Revives(all, snapshot, links, h)
    <2>1. q(h) = Resurrect(all[h])
        BY <1>1, <1>4 DEF RebuiltRow, Revives
    <2>2. Resurrect(all[h]) # None
        BY <1>2, ResurrectType, SentinelAssumption
    <2>3. /\ Resurrect(all[h]).status = "Created" /\ Resurrect(all[h]).base = None
          /\ Resurrect(all[h]).object = all[h].object
        BY <1>2 DEF Resurrect, ReplicaPlacement
    <2> QED BY <2>1, <2>2, <2>3 DEF Pends, StagedEdit
<1>5. CASE Spined(all, h) /\ ~Revives(all, snapshot, links, h)
    <2>1. Survives(all[h]) /\ all[h].status \in {"Dirty", "Conflict"}
        BY <1>5 DEF Pends, Survives, Spined
    <2>2. PICK k \in Handle : CarriedFrom(all, snapshot, links, k, h)
        BY <1>5, <2>1 DEF Revives
    <2>3. snapshot.items[k] \in ReplicaRemoteItem
        BY <2>2 DEF CarriedFrom, ReplicaRemoteSnapshot
    <2>4. ~Revives(all, snapshot, links, k)
        BY <2>2 DEF CarriedFrom, Revives, Spined, Survives
    <2>5. PICK j \in Handle : /\ CarriedFrom(all, snapshot, links, k, j)
                              /\ q(k) = Carry(all[j], snapshot.items[k])
        BY <1>1, <2>2, <2>4 DEF RebuiltRow, CarriedFrom
    <2>6. j = h
        BY <2>2, <2>5, HandleFacts DEF CarriedFrom
    <2> QED BY <1>2, <2>1, <2>3, <2>5, <2>6, CarryPends DEF Pends
<1> QED BY <1>3, <1>4, <1>5

(* RekeyKeepsEdits: where no edit is staged under a handle the new space   *)
(* reuses, a rebuild keeps every locally authored body pending, with its   *)
(* item or as a create of its own (rekey.rs, rebuild).                     *)
THEOREM RekeysKeepEdits == ~ReuseEdited /\ ReplicaSpec => RekeyKeepsEdits
<1> DEFINE I     == ~ReuseEdited /\ RekeyInv
           Keeps == rekey # None => PendingBodies(store) \subseteq PendingBodies(store')
<1>1. ~ReuseEdited /\ ReplicaInit => I
    BY InitRekey
<1>2. I /\ [ReplicaNext]_replicaVars => I'
    BY RekeyNext
<1>3. I /\ [ReplicaNext]_replicaVars => [Keeps]_replicaVars
    <2> SUFFICES ASSUME ~ReuseEdited, RekeyInv, ReplicaNext, rekey # None
                 PROVE  PendingBodies(store) \subseteq PendingBodies(store')
        OBVIOUS
    <2>1. CASE RekeyWrite
        <3>1. /\ store' = Applied(store, Rebuild(store, rekey.snap, rekey.links))
              /\ rekey.snap \in ReplicaRemoteSnapshot
              /\ rekey.links \in [Handle -> Opt(LinkId)]
              /\ store \in [Handle -> Opt(ReplicaPlacement)]
              /\ \A k \in Handle : (store[k] # None /\ rekey.snap.items[k] # None) =>
                                      ~StagedEdit(store[k])
            BY <2>1 DEF RekeyWrite, RekeyInv, SpacedInv, ReplicaRekey, UpInv, Inv, TypeOK
        <3>2. ASSUME NEW h \in Handle, Pends(store[h])
              PROVE  \E k \in Handle : Pends(store'[k])
                                          /\ store'[k].object = store[h].object
            BY <3>1, <3>2, RebuildKeeps
        <3> QED BY <3>2 DEF PendingBodies, Pends
    <2>2. CASE Verbs
        <3>1. UNCHANGED stored
            BY <2>2, VoidStep DEF Verbs, RekeyInv
        <3> QED BY <3>1 DEF PendingBodies
    <2>3. CASE BeginRekey \/ RekeyEnumerate \/ RekeyFetch \/ RekeyCrash \/ OthersRenumber
        <3>1. store' = store
            BY <2>3 DEF BeginRekey, RekeyEnumerate, RekeyFetch, RekeyCrash,
                        OthersRenumber, upgradeVars, vars
        <3> QED BY <3>1 DEF PendingBodies
    <2> QED BY <2>1, <2>2, <2>3 DEF ReplicaNext, RekeyRun
<1> QED BY <1>1, <1>2, <1>3, PTL DEF ReplicaSpec, RekeyKeepsEdits

================================================================================
