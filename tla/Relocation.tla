------------------------------- MODULE Relocation -------------------------------
(***************************************************************************)
(* A move between two collections of one server. It is staged as two       *)
(* halves, a create in the target and a tombstone in the source (mutate.rs, *)
(* Move), each pushed by its own collection's sync, in whichever order and *)
(* interleaving the consumer runs them; either half delivers the item on   *)
(* its own, and the two must not both deliver (change.rs,                  *)
(* ReplicaChangeKind: "A move is two halves that must not both deliver").  *)
(*                                                                         *)
(* A sync enumerates in full, and pushes and writes in one chunk: deltas   *)
(* and chunks are Sync's matter. The server is the one of the tests        *)
(* (tests/common/mod.rs, MemRemote), content mutable.                      *)
(***************************************************************************)
EXTENDS Merge, Mutation, Detail, FiniteSets

CONSTANTS
    Collection,     \* the collections of the account
    Handle,         \* every handle: a subset of Nat
    ServerHandle,   \* the handles the server may come to assign
    Copied, Moved,  \* the handle a copy, and a relocation, of a member gets
    Placeholder,    \* the placeholders the user stages creates under
    Seeded,         \* the collection and handle of the one item at first
    SeedLink,       \* its identity
    SeedBody,       \* and body
    Options,        \* the sync options
    UserOps,        \* the mutations the user makes
    RemoteOps,      \* what other clients do
    MaxMove, MaxUser, MaxRemote, MaxFault   \* bounds: how many of each

VARIABLES
    stores,         \* the placements: [Collection -> [Handle -> row or None]]
    servers,        \* the members: [Collection -> [Handle -> item or None]]
    runs,           \* the sync under way in each collection, or None
    landed,         \* history: every body the server has held
    carried,        \* history: the edited bodies moves were staged with
    deleted,        \* history: whether a user or a client deleted the item
    spent           \* how much of each bound is used

movVars == <<stores, servers, runs, landed, carried, deleted, spent>>

ServerItem == [link : LinkId, flags : ReplicaFlags, body : Body, rev : Revision]

PushResult == [accepted : BOOLEAN, assigned : Opt(Handle), revision : Opt(Revision)]

ASSUME RelocationAssumption ==
    /\ None \notin ServerItem /\ None \notin PushResult
    /\ Handle \subseteq Nat /\ None \notin Handle
    /\ ServerHandle \subseteq Handle /\ Placeholder \subseteq Handle
    /\ Origin = Collection \X Handle
    /\ Placeholder \cap ServerHandle = {}
    /\ Copied \in [ServerHandle -> Nat] /\ Moved \in [ServerHandle -> Nat]
    /\ \A h \in ServerHandle : Copied[h] # h
    /\ Seeded \in Collection \X ServerHandle
    /\ SeedLink \in LinkId /\ SeedBody \in Body
    /\ Mint \in [LinkId \X Handle -> LinkId]
    /\ Options \in ReplicaSyncOptions
    /\ Options.full /\ Options.conflict # "KeepBoth"
    /\ MaxMove \in Nat /\ MaxUser \in Nat /\ MaxRemote \in Nat /\ MaxFault \in Nat

Spend(who, max) ==
    /\ spent[who] < max
    /\ spent' = [spent EXCEPT ![who] = @ + 1]

--------------------------------------------------------------------------------
(* A sync of one collection.                                               *)

Reported(c, h) ==
    IF servers[c][h] = None THEN None
    ELSE [flags |-> servers[c][h].flags, revision |-> servers[c][h].rev]

OutcomeAt(c, h) == MergeCandidate(stores[c][h], Reported(c, h), Options)

(* The load, the enumerate and the merge. *)
BeginSync(c) ==
    /\ runs[c] = None
    /\ \E all \in {[h \in Handle |-> OutcomeAt(c, h)]} :
          LET outs == [h \in {k \in Handle : all[k] # Nothing} |-> all[h]]
          IN  /\ DOMAIN outs # {}
              /\ runs' = [runs EXCEPT ![c] =
                    [outs     |-> outs,
                     unserved |-> {h \in DOMAIN outs : outs[h].push # None},
                     results  |-> [h \in DOMAIN outs |-> None]]]
    /\ UNCHANGED <<stores, servers, landed, carried, deleted, spent>>

(* link_holder: a member of a collection holding an identity, but for one. *)
HoldsLink(c, link, except) ==
    /\ link # None
    /\ \E h \in ServerHandle \ {except} :
          servers[c][h] # None /\ servers[c][h].link = link

(* MemRemote::push: what the server holds after a change, and its answer.  *)
Serve(c, h, change) ==
    LET held  == servers[c][h]
        stale == held # None /\ held.rev # change.if_match
        answer(members, accepted, assigned, revision) ==
            [members |-> members,
             result  |-> [accepted |-> accepted, assigned |-> assigned,
                          revision |-> revision]]
        refused == answer(servers, FALSE, None, None)
        gone    == [servers EXCEPT ![c][h] = None]
        copy    == Copied[change.origin[2]]
        origin  == servers[change.origin[1]][change.origin[2]]
    IN  CASE change.kind = "SetFlags" ->
               answer(IF held = None THEN servers
                      ELSE [servers EXCEPT ![c][h].flags = change.flags],
                      TRUE, None, None)
          [] change.kind = "Update" ->
               IF held = None \/ stale THEN refused
               ELSE answer([servers EXCEPT ![c][h].body = change.object,
                                           ![c][h].rev  = @ + 1],
                           TRUE, None, held.rev + 1)
          [] change.kind = "Remove" ->
               IF stale THEN refused
               ELSE IF \/ held = None
                       \/ change.to = None
                       \/ HoldsLink(change.to[1], change.link_id, h)
               THEN answer(gone, TRUE, None, None)
               ELSE answer([gone EXCEPT ![change.to[1]][Moved[h]] = held],
                           TRUE, None, None)
          [] change.kind = "Add" ->
               IF \/ change.origin = None
                  \/ change.origin[2] \notin ServerHandle
                  \/ origin = None
               THEN refused
               ELSE answer([servers EXCEPT ![c][copy] = origin],
                           TRUE, copy, origin.rev)

(* A relocation or a copy past the handles of the instance is out of bound. *)
Bounded(h, change) ==
    /\ (change.kind = "Remove" /\ h \in ServerHandle) =>
          Moved[h] \in ServerHandle
    /\ (change.kind = "Add" /\ change.origin # None
           /\ change.origin[2] \in ServerHandle) =>
          Copied[change.origin[2]] \in ServerHandle

(* The server services one change of a sync; the other collection's sync   *)
(* and the other clients come in between.                                  *)
ServePush(c) ==
    /\ runs[c] # None
    /\ \E h \in runs[c].unserved :
          LET change == runs[c].outs[h].push
              served == Serve(c, h, change)
          IN  /\ \A k \in runs[c].unserved : h <= k
              /\ Bounded(h, change)
              /\ servers' = served.members
              /\ landed' = IF change.kind = "Update" /\ served.result.accepted
                           THEN landed \cup {change.object} ELSE landed
              /\ runs' = [runs EXCEPT ![c].unserved = @ \ {h},
                                      ![c].results[h] = served.result]
    /\ UNCHANGED <<stores, carried, deleted, spent>>

Apply(p, op) ==
    CASE op = Keep -> p
      [] op # Keep /\ op.op = "UpsertPlacement" -> op.row
      [] OTHER -> None

(* A row after the write: what the merge decided of it, then what the push *)
(* confirmed, a create moving to the handle it was assigned.               *)
Recorded(c, h) ==
    LET run    == runs[c]
        took(k) == /\ k \in DOMAIN run.outs
                   /\ run.results[k] # None
                   /\ run.results[k].accepted
        made   == {k \in DOMAIN run.outs :
                      /\ took(k)
                      /\ run.outs[k].create # None
                      /\ run.results[k].assigned = h}
        merged == IF h \in DOMAIN run.outs
                  THEN Apply(stores[c][h], run.outs[h].put) ELSE stores[c][h]
        out    == run.outs[h]
    IN  IF made # {}
        THEN LET k == CHOOSE k \in made : TRUE
             IN  RekeyCreate(run.outs[k].create, run.results[k].revision)
        ELSE IF ~took(h) THEN merged
        ELSE IF out.flag # None THEN Rebase(out.flag, out.flag.flags)
        ELSE IF out.content # None
             THEN RebaseContent(out.content, run.results[h].revision)
        ELSE None

WriteSync(c) ==
    /\ runs[c] # None
    /\ runs[c].unserved = {}
    /\ stores' = [stores EXCEPT ![c] = [h \in Handle |-> Recorded(c, h)]]
    /\ runs' = [runs EXCEPT ![c] = None]
    /\ UNCHANGED <<servers, landed, carried, deleted, spent>>

(* A run ends anywhere, its pushes unrecorded. *)
Crash(c) ==
    /\ runs[c] # None
    /\ Spend("fault", MaxFault)
    /\ runs' = [runs EXCEPT ![c] = None]
    /\ UNCHANGED <<stores, servers, landed, carried, deleted>>

(* An upgrade of every row of a collection to Full. *)
UpgradeAll(c) ==
    /\ runs[c] = None
    /\ \E rows \in {UpgradedRows(stores[c], servers[c])} :
          /\ DOMAIN rows # {}
          /\ stores' = [stores EXCEPT ![c] = [h \in Handle |->
                           IF h \in DOMAIN rows THEN rows[h] ELSE stores[c][h]]]
    /\ UNCHANGED <<servers, runs, landed, carried, deleted, spent>>

--------------------------------------------------------------------------------
(* The user.                                                               *)

MayMutate(op, c, h) ==
    /\ op \in UserOps
    /\ runs[c] = None
    /\ stores[c][h] # None
    /\ stores[c][h].status # "Tombstone"

(* The bodies nobody has authored yet; which one comes next does not       *)
(* matter.                                                                 *)
NewBodies ==
    LET held  == {stores[c][h] : c \in Collection, h \in Handle} \ {None}
        fresh == Body \ (landed \cup {p.object : p \in held})
    IN  {b \in fresh : \A k \in fresh : b <= k}

UserEdit(c, h) ==
    /\ MayMutate("Edit", c, h)
    /\ Spend("user", MaxUser)
    /\ \E b \in NewBodies :
          stores' = [stores EXCEPT ![c][h] = EditMutation(@, b, None)]
    /\ UNCHANGED <<servers, runs, landed, carried, deleted>>

UserRemove(c, h) ==
    /\ MayMutate("Remove", c, h)
    /\ Spend("user", MaxUser)
    /\ stores' = [stores EXCEPT ![c][h] = RemoveMutation(@)]
    /\ deleted' = TRUE
    /\ UNCHANGED <<servers, runs, landed, carried>>

(* Move: an item whose identity is unresolved stages the source half only, *)
(* neither half being able to recognise what the other did.                *)
UserMove(c, h, target) ==
    LET p == stores[c][h]
    IN  /\ target # c /\ runs[target] = None
        /\ MayMutate("Move", c, h)
        /\ Spend("move", MaxMove)
        /\ \E tmp \in Placeholder :
              /\ \A d \in Collection : stores[d][tmp] = None
              /\ \A k \in Placeholder : k < tmp =>
                    \E d \in Collection : stores[d][k] # None
              /\ stores' = [stores EXCEPT
                    ![c][h]        = MoveMutation(p, <<target, h>>),
                    ![target][tmp] = IF p.link_id = None THEN @
                                     ELSE CopyMutation(p, <<c, h>>)]
        /\ carried' = IF p.base # None /\ StagedEdit(p)
                      THEN carried \cup {p.object} ELSE carried
        /\ UNCHANGED <<servers, runs, landed, deleted>>

--------------------------------------------------------------------------------
(* Other clients.                                                          *)

OthersEdit(c, h) ==
    /\ "Edit" \in RemoteOps
    /\ servers[c][h] # None
    /\ Spend("remote", MaxRemote)
    /\ \E b \in NewBodies :
          /\ servers' = [servers EXCEPT ![c][h].body = b, ![c][h].rev = @ + 1]
          /\ landed' = landed \cup {b}
    /\ UNCHANGED <<stores, runs, carried, deleted>>

OthersRemove(c, h) ==
    /\ "Remove" \in RemoteOps
    /\ servers[c][h] # None
    /\ Spend("remote", MaxRemote)
    /\ servers' = [servers EXCEPT ![c][h] = None]
    /\ deleted' = TRUE
    /\ UNCHANGED <<stores, runs, landed, carried>>

--------------------------------------------------------------------------------
Init ==
    /\ stores = [c \in Collection |-> [h \in Handle |-> None]]
    /\ servers = [c \in Collection |-> [h \in Handle |->
                    IF <<c, h>> = Seeded
                    THEN [link |-> SeedLink, flags |-> {}, body |-> SeedBody,
                          rev |-> 1]
                    ELSE None]]
    /\ runs = [c \in Collection |-> None]
    /\ landed = {SeedBody}
    /\ carried = {}
    /\ deleted = FALSE
    /\ spent = [who \in {"move", "user", "remote", "fault"} |-> 0]

Next ==
    \/ \E c \in Collection :
          BeginSync(c) \/ ServePush(c) \/ WriteSync(c) \/ Crash(c) \/ UpgradeAll(c)
    \/ \E c \in Collection, h \in Handle :
          \/ UserEdit(c, h)
          \/ UserRemove(c, h)
          \/ \E target \in Collection : UserMove(c, h, target)
    \/ \E c \in Collection, h \in ServerHandle :
          OthersEdit(c, h) \/ OthersRemove(c, h)

Spec == Init /\ [][Next]_movVars

--------------------------------------------------------------------------------
(* Properties.                                                             *)

(* Types: every variable holds what its declaration says.                  *)
TypeOK ==
    /\ stores \in [Collection -> [Handle -> Opt(ReplicaPlacement)]]
    /\ servers \in [Collection -> [Handle -> Opt(ServerItem)]]
    /\ \A c \in Collection : runs[c] # None =>
          /\ \A h \in DOMAIN runs[c].outs : runs[c].outs[h] \in Outcome
          /\ runs[c].unserved \subseteq DOMAIN runs[c].outs
          /\ \A h \in DOMAIN runs[c].outs :
                runs[c].results[h] \in Opt(PushResult)
    /\ landed \subseteq Body
    /\ carried \subseteq Body
    /\ deleted \in BOOLEAN

(* The members holding the item. *)
Copies(c) == {h \in Handle : servers[c][h] # None}

(* The two halves of a move never both deliver: no collection ever holds   *)
(* two copies of the item moved, whichever half reaches the server first,  *)
(* with their syncs interleaved, retried after a crash, and the item       *)
(* edited or deleted on the way (mutate.rs, Move: "the second half         *)
(* recognises what the first did instead of delivering a second copy").    *)
(* A second move of the same item may be keyed by the identity its copy    *)
(* was minted, which the server does not hold: there it can deliver twice. *)
DeliveredOnce ==
    spent["move"] <= 1 =>
        \A c \in Collection : Cardinality(Copies(c)) <= 1

(* A move never loses the item: until somebody deletes it the server holds *)
(* it in some collection (change.rs, ReplicaChangeKind: "the source being  *)
(* relocated rather than deleted out from under a copy that never ran").   *)
NeverLost == deleted \/ \E c \in Collection : Copies(c) # {}

(* Nothing staged, nothing under way. *)
Settled ==
    \A c \in Collection :
        /\ runs[c] = None
        /\ \A h \in Handle :
              stores[c][h] # None => stores[c][h].status # "Tombstone"

(* A move is a move: once every staged remove is confirmed one copy of the *)
(* item is left in all, whatever a crash made the halves push again, where *)
(* nothing but the move happened to it (an edit of the source, the user's  *)
(* own included when its push went unrecorded, wins over the remove and    *)
(* leaves a second one).                                                   *)
MovesSettle ==
    (Settled /\ spent["move"] <= 1 /\ spent["user"] = 0 /\ spent["remote"] = 0) =>
        \A c, d \in Collection : \A h \in Copies(c), k \in Copies(d) :
            c = d /\ h = k

(* A move carries the edit staged before it: with no other client about,   *)
(* no run cut short and nothing else done to the item, once the staged     *)
(* remove is confirmed the server holds the edited body (sync.rs, merge:   *)
(* "a staged content edit rides ahead of a move, so the relocated member   *)
(* carries the edited body").                                              *)
MovedEditArrives ==
    (Settled /\ spent["user"] <= 1 /\ spent["remote"] = 0 /\ spent["fault"] = 0) =>
        \A b \in carried : \E c \in Collection, h \in Handle :
            servers[c][h] # None /\ servers[c][h].body = b

================================================================================
