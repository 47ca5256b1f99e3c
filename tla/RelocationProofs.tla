---------------------------- MODULE RelocationProofs ----------------------------
(***************************************************************************)
(* The types of Relocation, and its moves: a move neither loses the item   *)
(* nor delivers it twice, for every set of collections and handles,        *)
(* whatever the syncs may push and however they, crashes, edits and other  *)
(* clients' changes interleave.                                            *)
(***************************************************************************)
EXTENDS Relocation, MergeProofs, FiniteSetTheorems

USE DEF Opt, Revision

--------------------------------------------------------------------------------
(* The inductive invariant.                                                *)

(* What the server holds: no member under a handle it does not assign. *)
Members ==
    {m \in [Collection -> [Handle -> Opt(ServerItem)]] :
        \A c \in Collection : \A h \in Handle \ ServerHandle : m[c][h] = None}

Holds(m) == \E c \in Collection : \E h \in Handle : m[c][h] # None

(* A staged delete is half of a move: it names where the item goes. *)
MovesOn(p) == (p # None /\ p.status = "Tombstone") => p.origin # None

Untouched(h, p, out) ==
    (h \notin ServerHandle /\ p # None /\ p.base = None) =>
        /\ out.put # Keep => out.put.op # "UpsertPlacement"
        /\ out.flag = None /\ out.content = None

RunOf(D) ==
    [outs : [D -> Outcome], unserved : SUBSET D, results : [D -> Opt(PushResult)]]

(* A run holds what the merge derived of the rows it loaded, which are     *)
(* still as loaded, and rewrites no row the server never had.              *)
RunOK(c) ==
    runs[c] # None =>
        \E D \in SUBSET Handle :
            /\ runs[c] \in RunOf(D)
            /\ \A h \in runs[c].unserved : runs[c].outs[h].push # None
            /\ \A h \in D :
                  /\ Sound(runs[c].outs[h])
                  /\ Derives(runs[c].outs[h], stores[c][h], Options)
                  /\ Untouched(h, stores[c][h], runs[c].outs[h])

Typed ==
    /\ stores \in [Collection -> [Handle -> Opt(ReplicaPlacement)]]
    /\ servers \in Members
    /\ runs = [c \in Collection |-> runs[c]]
    /\ \A c \in Collection : RunOK(c)
    /\ landed \subseteq Body /\ carried \subseteq Body /\ deleted \in BOOLEAN

Undeleted ==
    /\ \A c \in Collection : \A h \in Handle : MovesOn(stores[c][h])
    /\ Holds(servers)

KeptInv == Typed /\ (~deleted => Undeleted)

--------------------------------------------------------------------------------
(* What the actions are built from.                                        *)

LEMMA Constants ==
    /\ None \notin ServerItem /\ None \notin PushResult
    /\ Handle \subseteq Nat /\ ServerHandle \subseteq Handle
    /\ Origin = Collection \X Handle
    /\ Options \in ReplicaSyncOptions
    /\ SeedLink \in LinkId /\ SeedBody \in Body
    /\ Seeded \in Collection \X ServerHandle
    /\ Mint \in [LinkId \X Handle -> LinkId]
BY RelocationAssumption

(* One member set, added or removed. *)
LEMMA MemberSet ==
    ASSUME NEW m \in Members, NEW c \in Collection, NEW h \in Handle,
           NEW v \in Opt(ServerItem), v # None => h \in ServerHandle
    PROVE  /\ [m EXCEPT ![c][h] = v] \in Members
           /\ \A d \in Collection : \A k \in Handle :
                 [m EXCEPT ![c][h] = v][d][k] =
                    IF d = c /\ k = h THEN v ELSE m[d][k]
<1> DEFINE new == [m EXCEPT ![c][h] = v]
<1>1. m \in [Collection -> [Handle -> Opt(ServerItem)]]
    BY DEF Members
<1>2. new \in [Collection -> [Handle -> Opt(ServerItem)]]
    BY <1>1
<1>3. \A d \in Collection : \A k \in Handle :
         new[d][k] = IF d = c /\ k = h THEN v ELSE m[d][k]
    BY <1>1
<1> HIDE DEF new
<1>4. new \in Members
    BY <1>2, <1>3 DEF Members
<1> QED BY <1>3, <1>4 DEF new

(* A member present is under a handle the server assigns. *)
LEMMA MemberFacts ==
    ASSUME NEW m \in Members, NEW c \in Collection, NEW h \in Handle
    PROVE  /\ m[c][h] \in Opt(ServerItem)
           /\ m[c][h] # None => h \in ServerHandle /\ m[c][h] \in ServerItem
BY DEF Members

(* A change served leaves a well-typed server; it loses no copy unless it  *)
(* deletes one, a relocation going on in its destination.                  *)
Served(m, served, change) ==
    /\ served.members \in Members /\ served.result \in PushResult
    /\ Holds(m) /\ (change.kind = "Remove" => change.to # None) =>
          Holds(served.members)

(* Replacing a member by another keeps one. *)
LEMMA MemberKept ==
    ASSUME NEW m \in Members, NEW c \in Collection, NEW h \in ServerHandle,
           NEW v \in ServerItem
    PROVE  [m EXCEPT ![c][h] = v] \in Members /\ Holds([m EXCEPT ![c][h] = v])
<1>1. h \in Handle /\ v # None /\ v \in Opt(ServerItem)
    BY Constants
<1> DEFINE new == [m EXCEPT ![c][h] = v]
<1>2. /\ new \in Members
      /\ \A d \in Collection : \A k \in Handle :
            new[d][k] = IF d = c /\ k = h THEN v ELSE m[d][k]
    BY <1>1, MemberSet
<1> HIDE DEF new
<1>3. new \in Members /\ Holds(new)
    BY <1>1, <1>2 DEF Holds
<1> QED BY <1>3 DEF new

LEMMA ServeRemove ==
    ASSUME servers \in Members, NEW c \in Collection, NEW h \in Handle,
           NEW change \in ReplicaChange, Bounded(h, change),
           change.kind = "Remove"
    PROVE  Served(servers, Serve(c, h, change), change)
<1> DEFINE held == servers[c][h]
           gone == [servers EXCEPT ![c][h] = None]
           to   == change.to[1]
           answer(members, accepted) ==
               [members |-> members,
                result  |-> [accepted |-> accepted, assigned |-> None,
                             revision |-> None]]
<1>1. change.to \in Opt(Origin)
    BY DEF ReplicaChange
<1>2. change.to # None => to \in Collection
    BY <1>1, Constants
<1>3. gone \in Members /\ \A d \in Collection : \A k \in Handle :
          gone[d][k] = IF d = c /\ k = h THEN None ELSE servers[d][k]
    BY MemberSet
<1>4. held \in Opt(ServerItem) /\ (held # None => h \in ServerHandle)
    BY MemberFacts
<1>5. held # None => Moved[h] \in ServerHandle
    BY <1>4 DEF Bounded
<1>6. \A ok \in BOOLEAN : \A members :
         /\ answer(members, ok).members = members
         /\ answer(members, ok).result \in PushResult
    BY DEF PushResult
<1> HIDE DEF held, gone, to
<1>7. ASSUME held = None PROVE Holds(servers) => Holds(gone)
    BY <1>3, <1>7 DEF Holds, held
<1>8. ASSUME change.to # None, HoldsLink(to, change.link_id, h)
      PROVE  Holds(gone)
    <2>1. PICK k \in ServerHandle \ {h} : servers[to][k] # None
        BY <1>8 DEF HoldsLink
    <2>2. k \in Handle /\ to \in Collection
        BY <1>2, <1>8, Constants
    <2> QED BY <1>3, <2>1, <2>2 DEF Holds
<1>9. ASSUME held # None, change.to # None
      PROVE  /\ [gone EXCEPT ![to][Moved[h]] = held] \in Members
             /\ Holds([gone EXCEPT ![to][Moved[h]] = held])
    BY <1>2, <1>3, <1>4, <1>5, <1>9, MemberKept
<1> DEFINE moved == [gone EXCEPT ![to][Moved[h]] = held]
<1>10. Serve(c, h, change) \in
          {answer(servers, FALSE),
           IF \/ held = None
              \/ change.to = None
              \/ HoldsLink(to, change.link_id, h)
           THEN answer(gone, TRUE) ELSE answer(moved, TRUE)}
    BY DEF Serve, held, gone, to
<1> HIDE DEF moved, answer
<1>11. CASE Serve(c, h, change) = answer(servers, FALSE)
    BY <1>6, <1>11 DEF Served
<1>12. CASE /\ Serve(c, h, change) = answer(gone, TRUE)
            /\ \/ held = None
               \/ change.to = None
               \/ HoldsLink(to, change.link_id, h)
    BY <1>3, <1>6, <1>7, <1>8, <1>12 DEF Served
<1>13. CASE /\ Serve(c, h, change) = answer(moved, TRUE)
            /\ held # None /\ change.to # None
    BY <1>6, <1>9, <1>13 DEF Served, moved
<1> QED BY <1>10, <1>11, <1>12, <1>13

LEMMA ServeOther ==
    ASSUME servers \in Members, NEW c \in Collection, NEW h \in Handle,
           NEW change \in ReplicaChange, Bounded(h, change),
           change.kind # "Remove"
    PROVE  Served(servers, Serve(c, h, change), change)
<1> DEFINE held == servers[c][h]
           refused == [members |-> servers,
                       result  |-> [accepted |-> FALSE, assigned |-> None,
                                    revision |-> None]]
<1>1. held \in Opt(ServerItem) /\ (held # None => h \in ServerHandle)
    BY MemberFacts
<1>2. Served(servers, refused, change)
    BY DEF Served, PushResult
<1> HIDE DEF refused
<1> DEFINE done(assigned, revision) ==
               [accepted |-> TRUE, assigned |-> assigned, revision |-> revision]
<1>3. \A assigned \in Opt(Handle), revision \in Opt(Revision) :
          done(assigned, revision) \in PushResult
    BY DEF PushResult
<1> HIDE DEF done
<1>4. ASSUME NEW m, m \in Members /\ Holds(m), NEW answer, answer \in PushResult
      PROVE  Served(servers, [members |-> m, result |-> answer], change)
    BY <1>4 DEF Served
<1>5. CASE change.kind = "SetFlags"
    <2> DEFINE new == [held EXCEPT !.flags = change.flags]
    <2>1. held # None => new \in ServerItem
        <3>1. change.flags \in ReplicaFlags
            BY <1>5 DEF ReplicaChange
        <3> QED BY <1>1, <3>1 DEF ServerItem
    <2>2. [servers EXCEPT ![c][h].flags = change.flags]
              = [servers EXCEPT ![c][h] = new]
        OBVIOUS
    <2> HIDE DEF new
    <2>3. held # None => /\ [servers EXCEPT ![c][h] = new] \in Members
                         /\ Holds([servers EXCEPT ![c][h] = new])
        BY <1>1, <2>1, MemberKept
    <2>4. Serve(c, h, change) =
            [members |-> IF held = None THEN servers
                         ELSE [servers EXCEPT ![c][h] = new],
             result  |-> done(None, None)]
        BY <1>5, <2>2 DEF Serve, done
    <2>5. CASE held = None
        BY <1>3, <2>4, <2>5 DEF Served
    <2>6. CASE held # None
        BY <1>3, <1>4, <2>3, <2>4, <2>6
    <2> QED BY <2>5, <2>6
<1>6. CASE change.kind = "Update"
    <2> DEFINE new == [held EXCEPT !.body = change.object, !.rev = @ + 1]
    <2>1. held # None => new \in ServerItem /\ held.rev + 1 \in Nat
        <3>1. change.object \in Body
            BY <1>6 DEF ReplicaChange
        <3>2. held # None => held.rev + 1 \in Nat
            BY <1>1 DEF ServerItem
        <3> QED BY <1>1, <3>1, <3>2 DEF ServerItem
    <2>2. [servers EXCEPT ![c][h].body = change.object, ![c][h].rev = @ + 1]
              = [servers EXCEPT ![c][h] = new]
        BY <1>1 DEF Members
    <2> HIDE DEF new
    <2>3. held # None => /\ [servers EXCEPT ![c][h] = new] \in Members
                         /\ Holds([servers EXCEPT ![c][h] = new])
        BY <1>1, <2>1, MemberKept
    <2>4. \/ Serve(c, h, change) = refused
          \/ /\ held # None
             /\ Serve(c, h, change) =
                  [members |-> [servers EXCEPT ![c][h] = new],
                   result  |-> done(None, held.rev + 1)]
        BY <1>6, <2>2 DEF Serve, refused, done
    <2> QED BY <1>2, <1>3, <1>4, <2>1, <2>3, <2>4
<1>7. CASE change.kind = "Add"
    <2> DEFINE from == servers[change.origin[1]][change.origin[2]]
               copy == Copied[change.origin[2]]
    <2>1. \/ Serve(c, h, change) = refused
          \/ /\ change.origin # None /\ change.origin[2] \in ServerHandle
             /\ from # None
             /\ Serve(c, h, change) =
                  [members |-> [servers EXCEPT ![c][copy] = from],
                   result  |-> done(copy, from.rev)]
        BY <1>7 DEF Serve, refused, done
    <2>2. change.origin \in Opt(Origin)
        BY <1>7 DEF ReplicaChange
    <2>3. ASSUME change.origin # None, change.origin[2] \in ServerHandle,
                 from # None
          PROVE  /\ copy \in ServerHandle /\ copy \in Handle
                 /\ from \in ServerItem /\ from.rev \in Nat
        <3>1. copy \in ServerHandle
            BY <1>7, <2>3 DEF Bounded
        <3>2. change.origin[1] \in Collection /\ change.origin[2] \in Handle
            BY <2>2, <2>3, Constants
        <3>3. from \in ServerItem
            BY <2>3, <3>2, MemberFacts
        <3> QED BY <3>1, <3>3, Constants DEF ServerItem
    <2> HIDE DEF from, copy
    <2>4. ASSUME copy \in ServerHandle, from \in ServerItem
          PROVE  /\ [servers EXCEPT ![c][copy] = from] \in Members
                 /\ Holds([servers EXCEPT ![c][copy] = from])
        BY <2>4, MemberKept
    <2> QED BY <1>2, <1>3, <1>4, <2>1, <2>3, <2>4
<1> QED BY <1>5, <1>6, <1>7 DEF ReplicaChange

(* MemRemote::push. *)
LEMMA ServeKeeps ==
    ASSUME servers \in Members, NEW c \in Collection, NEW h \in Handle,
           NEW change \in ReplicaChange, Bounded(h, change)
    PROVE  Served(servers, Serve(c, h, change), change)
BY ServeRemove, ServeOther

--------------------------------------------------------------------------------
(* The rows a run writes and the user rewrites.                            *)

(* What a run derives of a row it loaded. *)
LEMMA OutcomeFacts ==
    ASSUME Typed, NEW c \in Collection, NEW h \in Handle
    PROVE  /\ Sound(OutcomeAt(c, h))
           /\ Derives(OutcomeAt(c, h), stores[c][h], Options)
           /\ Untouched(h, stores[c][h], OutcomeAt(c, h))
<1> DEFINE p    == stores[c][h]
           item == Reported(c, h)
           out  == MergeCandidate(p, item, Options)
<1>1. p \in Opt(ReplicaPlacement)
    BY DEF Typed
<1>2. item \in Opt(ReplicaRemoteItem) /\ (h \notin ServerHandle => item = None)
    <2>1. servers[c][h] = None \/ (servers[c][h] \in ServerItem /\ h \in ServerHandle)
        BY MemberFacts DEF Typed
    <2> QED BY <2>1 DEF Reported, ServerItem, ReplicaRemoteItem
<1>3. OutcomeAt(c, h) = out
    BY DEF OutcomeAt
<1> HIDE DEF p, item
<1>4. Sound(out) /\ Derives(out, p, Options)
    BY <1>1, <1>2, Constants, MergeCandidateSound, MergeCandidateDerives
<1>5. Untouched(h, p, out)
    BY <1>1, <1>2, BaselessCandidate DEF Untouched
<1> HIDE DEF out
<1> QED BY <1>3, <1>4, <1>5 DEF p

(* A row made of p adds nothing the user stages: neither a delete nor a    *)
(* half of a move, nor an identity.                                        *)
Descends(q, p) ==
    q # None =>
        /\ q.status = "Tombstone" =>
              p # None /\ p.status = "Tombstone" /\ q.origin = p.origin
        /\ q.link_id # None => p # None /\ q.link_id = p.link_id
        /\ q.origin # None =>
              /\ p # None /\ q.origin = p.origin /\ q.link_id = p.link_id
              /\ q.status = "Created" => p.status = "Created"

(* The server placed a create of the run. *)
Placed(c) ==
    \E k \in DOMAIN runs[c].outs :
        /\ runs[c].results[k] # None /\ runs[c].results[k].accepted
        /\ runs[c].outs[k].push # None /\ runs[c].outs[k].push.kind = "Add"

(* A run records well-typed rows: creates at their new handles, and rows   *)
(* descending from the loaded ones.                                        *)
LEMMA RecordedFacts ==
    ASSUME Typed, NEW c \in Collection, runs[c] # None, NEW h \in Handle
    PROVE  LET q == Recorded(c, h)
               p == stores[c][h]
           IN  /\ q \in Opt(ReplicaPlacement)
               /\ \/ Placed(c) /\ q.status = "Clean" /\ q.origin = None
                  \/ /\ Descends(q, p)
                     /\ h \notin DOMAIN runs[c].outs => q = p
                     /\ (h \notin ServerHandle /\ p # None /\ p.base = None) =>
                           q \in {None, p}
<1> DEFINE run == runs[c]
           p   == stores[c][h]
           took(k) == /\ k \in DOMAIN run.outs
                      /\ run.results[k] # None
                      /\ run.results[k].accepted
           made   == {k \in DOMAIN run.outs :
                         /\ took(k)
                         /\ run.outs[k].create # None
                         /\ run.results[k].assigned = h}
           merged == IF h \in DOMAIN run.outs
                     THEN Apply(p, run.outs[h].put) ELSE p
           out    == run.outs[h]
           rekeyed(q) == Placed(c) /\ q.status = "Clean" /\ q.origin = None
           fresh  == h \notin ServerHandle /\ p # None /\ p.base = None
           Fine(q) == /\ q \in Opt(ReplicaPlacement)
                      /\ \/ rekeyed(q)
                         \/ /\ Descends(q, p)
                            /\ h \notin DOMAIN run.outs => q = p
                            /\ fresh => q \in {None, p}
<1>1. PICK D \in SUBSET Handle :
         /\ run \in RunOf(D)
         /\ \A k \in D : /\ Sound(run.outs[k])
                         /\ Derives(run.outs[k], stores[c][k], Options)
                         /\ Untouched(k, stores[c][k], run.outs[k])
    BY DEF Typed, RunOK
<1>2. DOMAIN run.outs = D
    BY <1>1 DEF RunOf
<1>3. p \in Opt(ReplicaPlacement)
    BY DEF Typed
<1>4. \A k \in D : took(k) => run.results[k] \in PushResult
    BY <1>1 DEF RunOf
<1>5. \A k \in D : run.outs[k] \in Outcome /\ Agrees(run.outs[k])
    BY <1>1 DEF Sound
<1>6. \A k \in D : took(k) => run.results[k].revision \in Opt(Revision)
    BY <1>4 DEF PushResult
<1>7. Recorded(c, h) =
        IF made # {}
        THEN LET k == CHOOSE k \in made : TRUE
             IN  RekeyCreate(run.outs[k].create, run.results[k].revision)
        ELSE IF ~took(h) THEN merged
        ELSE IF out.flag # None THEN Rebase(out.flag, out.flag.flags)
        ELSE IF out.content # None
             THEN RebaseContent(out.content, run.results[h].revision)
        ELSE None
    BY DEF Recorded
<1>8. h \in D => /\ Derives(out, p, Options)
                 /\ fresh => /\ out.put # Keep => out.put.op # "UpsertPlacement"
                             /\ out.flag = None /\ out.content = None
    BY <1>1 DEF Untouched
<1>9. \A k \in made : Placed(c)
    BY <1>2, <1>5 DEF Placed, Agrees
<1> HIDE DEF run, p, took
<1>10. ASSUME NEW k \in made
       PROVE  Fine(RekeyCreate(run.outs[k].create, run.results[k].revision))
    <2>1. k \in D /\ took(k) /\ run.outs[k].create # None
        BY <1>2
    <2>2. run.outs[k].create \in ReplicaPlacement
        BY <1>5, <2>1 DEF Outcome
    <2> DEFINE new == RekeyCreate(run.outs[k].create, run.results[k].revision)
    <2>3. new \in ReplicaPlacement
        BY <1>6, <2>1, <2>2, RekeyCreateType
    <2>4. new.status = "Clean" /\ new.origin = None
        BY <2>2 DEF RekeyCreate, ReplicaPlacement
    <2> HIDE DEF new
    <2>5. Fine(new)
        BY <1>9, <2>3, <2>4
    <2> QED BY <2>5 DEF new
<1>11. Fine(p) /\ (h \in D => Fine(None))
    BY <1>2, <1>3 DEF Descends
<1>12. h \in D => Fine(merged)
    <2> SUFFICES ASSUME h \in D PROVE Fine(Apply(p, out.put))
        BY <1>2
    <2>1. out.put = Keep \/ out.put \in ReplicaWriteOp
        BY <1>5 DEF Outcome
    <2>2. out.put # Keep /\ out.put.op = "UpsertPlacement" =>
             out.put.row \in ReplicaPlacement /\ Heir(out.put.row, p)
        BY <1>8, <2>1 DEF Derives, ReplicaWriteOp
    <2>3. \/ Apply(p, out.put) \in {p, None}
          \/ /\ out.put # Keep /\ out.put.op = "UpsertPlacement"
             /\ Apply(p, out.put) = out.put.row
        BY DEF Apply
    <2>4. ASSUME out.put # Keep, out.put.op = "UpsertPlacement"
          PROVE  Fine(out.put.row)
        BY <1>2, <1>8, <2>2, <2>4 DEF Heir, Descends
    <2> HIDE DEF Fine
    <2> QED BY <1>11, <2>3, <2>4
<1>13. h \notin D => Fine(merged)
    BY <1>2, <1>11
<1>14. ASSUME took(h), out.flag # None
       PROVE  Fine(Rebase(out.flag, out.flag.flags))
    <2>1. h \in D
        BY <1>2, <1>14 DEF took
    <2>2. out.flag \in ReplicaPlacement /\ out.flag.flags \in ReplicaFlags
        BY <1>5, <1>14, <2>1 DEF Outcome, ReplicaPlacement
    <2> DEFINE new == Rebase(out.flag, out.flag.flags)
    <2>3. new \in ReplicaPlacement
        BY <2>2, FlagRewriteType
    <2>4. /\ new.status \in {"Conflict", "Clean"}
          /\ new.origin = out.flag.origin /\ new.link_id = out.flag.link_id
        BY <2>2 DEF Rebase, FlagStatus, ReplicaPlacement
    <2>5. Heir(out.flag, p) /\ ~fresh
        BY <1>8, <1>14, <2>1 DEF Derives
    <2> HIDE DEF new
    <2>6. Descends(new, p)
        BY <1>14, <2>4, <2>5 DEF Heir, Descends
    <2>7. Fine(new)
        BY <1>2, <2>1, <2>3, <2>5, <2>6
    <2> QED BY <2>7 DEF new
<1>15. ASSUME took(h), out.content # None
       PROVE  Fine(RebaseContent(out.content, run.results[h].revision))
    <2>1. h \in D
        BY <1>2, <1>15 DEF took
    <2>2. out.content \in ReplicaPlacement
        BY <1>5, <1>15, <2>1 DEF Outcome
    <2> DEFINE new == RebaseContent(out.content, run.results[h].revision)
    <2>3. new \in ReplicaPlacement
        BY <1>6, <1>15, <2>1, <2>2, RebaseContentType
    <2>4. /\ new.status = "Tombstone" => out.content.status = "Tombstone"
          /\ new.status # "Created"
          /\ new.origin = out.content.origin
          /\ new.link_id = out.content.link_id
        BY <2>2 DEF RebaseContent, ReplicaPlacement
    <2>5. out.content = p /\ ~fresh
        BY <1>8, <1>15, <2>1 DEF Derives
    <2> HIDE DEF new
    <2>6. Descends(new, p)
        BY <1>15, <2>4, <2>5 DEF Descends
    <2>7. Fine(new)
        BY <1>2, <2>1, <2>3, <2>5, <2>6
    <2> QED BY <2>7 DEF new
<1>16. took(h) => Fine(None)
    BY <1>2, <1>11 DEF took
<1> HIDE DEF Fine, made, merged, out
<1>17. Fine(Recorded(c, h))
    BY <1>7, <1>10, <1>12, <1>13, <1>14, <1>15, <1>16
<1> QED BY <1>17 DEF Fine, run, p

(* Alone in its collection: the identity of its member is its to take. *)
Alone(c, h) == \A k \in Handle : stores[c][k] # None => k = h

(* What an upgrade makes of a row: a staged delete stays one and keeps its *)
(* destination, an identity is only ever gained.                           *)
Upgraded(c, h, q) ==
    LET p == stores[c][h]
    IN  /\ q \in ReplicaPlacement /\ p # None /\ servers[c][h] # None
        /\ q.status = p.status /\ q.origin = p.origin
        /\ p.link_id # None => q.link_id = p.link_id
        /\ (p.link_id = None /\ Alone(c, h)) =>
              q.link_id \in {None, servers[c][h].link}

LEMMA UpgradedFacts ==
    ASSUME Typed, NEW c \in Collection
    PROVE  LET rows == UpgradedRows(stores[c], servers[c])
           IN  \A h \in DOMAIN rows : h \in Handle /\ Upgraded(c, h, rows[h])
<1> DEFINE local   == stores[c]
           members == servers[c]
           claimed == {local[k].link_id : k \in {j \in DOMAIN local : local[j] # None}}
           fetched == {k \in PendingHandles(local, DOMAIN local, "Full") :
                          members[k] # None}
           item(k) == [link_id  |-> members[k].link,
                       body     |-> members[k].body,
                       revision |-> members[k].rev]
           taken(k) == claimed \cup {members[j].link : j \in {i \in fetched : i < k}}
           row(k)   == IF IsConflicted(local[k]) THEN local[k]
                       ELSE Identify(local[k], item(k), k, taken(k))
           rows     == UpgradedRows(local, members)
<1>1. rows = [k \in fetched |-> Hydrated(row(k), item(k), "Full")]
    BY DEF UpgradedRows
<1>2. local \in [Handle -> Opt(ReplicaPlacement)]
    BY DEF Typed
<1>3. SUFFICES ASSUME NEW h \in fetched
               PROVE  /\ h \in Handle
                      /\ Upgraded(c, h, Hydrated(row(h), item(h), "Full"))
    BY <1>1
<1>4. h \in Handle /\ local[h] \in ReplicaPlacement /\ members[h] # None
    BY <1>2 DEF PendingHandles
<1>5. members[h] \in ServerItem
    BY <1>4, MemberFacts DEF Typed
<1> DEFINE q == row(h)
           i == item(h)
<1>6. i.link_id \in LinkId /\ i.body \in Body /\ i.revision \in Nat
    BY <1>5 DEF ServerItem
<1>12. Alone(c, h) /\ local[h].link_id = None => i.link_id \notin taken(h)
    <2> SUFFICES ASSUME Alone(c, h), local[h].link_id = None
                 PROVE  taken(h) \subseteq {None}
        BY <1>6, SentinelAssumption
    <2>1. claimed \subseteq {None}
        BY <1>2 DEF Alone
    <2>2. \A j \in fetched : j = h
        BY <1>2 DEF Alone, PendingHandles
    <2>3. ~(h < h)
        BY <1>4, Constants
    <2> QED BY <2>1, <2>2, <2>3
<1> HIDE DEF i, taken, rows
<1>7. /\ q \in ReplicaPlacement
      /\ q.status = local[h].status /\ q.origin = local[h].origin
      /\ local[h].link_id # None => q.link_id = local[h].link_id
      /\ (local[h].link_id = None /\ Alone(c, h)) =>
            q.link_id \in {None, i.link_id}
    <2>1. MintLink(i.link_id, h) \in LinkId
        BY <1>4, <1>6, Constants DEF MintLink
    <2>2. \A link \in LinkId : [local[h] EXCEPT !.link_id = link] \in ReplicaPlacement
        BY <1>4 DEF ReplicaPlacement
    <2>3. \A link : /\ [local[h] EXCEPT !.link_id = link].status = local[h].status
                    /\ [local[h] EXCEPT !.link_id = link].origin = local[h].origin
        BY <1>4 DEF ReplicaPlacement
    <2>4. q \in {local[h]} \cup {[local[h] EXCEPT !.link_id = link] : link \in LinkId}
        BY <1>6, <2>1 DEF Identify, i
    <2>5. local[h].link_id # None => q = local[h]
        BY DEF Identify
    <2>6. (local[h].link_id = None /\ Alone(c, h)) =>
             q \in {local[h], [local[h] EXCEPT !.link_id = i.link_id]}
        BY <1>12 DEF Identify, i
    <2>7. [local[h] EXCEPT !.link_id = i.link_id].link_id = i.link_id
        BY <1>4 DEF ReplicaPlacement
    <2> HIDE DEF q
    <2>8. /\ q \in ReplicaPlacement
          /\ q.status = local[h].status /\ q.origin = local[h].origin
        BY <1>4, <2>2, <2>3, <2>4
    <2> QED BY <2>5, <2>6, <2>7, <2>8
<1> HIDE DEF q
<1> DEFINE base == IF q.base = None THEN None
                   ELSE [q.base EXCEPT !.revision = i.revision, !.object = i.body]
           full == [q EXCEPT !.meta = "summary", !.object = i.body,
                             !.level = "Full", !.base = base]
           both == [q EXCEPT !.conflict_object = i.body]
<1>8. base \in Opt(ReplicaBase)
    BY <1>6, <1>7 DEF ReplicaPlacement, ReplicaBase
<1>9. Hydrated(q, i, "Full") = IF IsConflicted(q) THEN both ELSE full
    BY <1>7 DEF Hydrated, ReplicaPlacement
<1> HIDE DEF base
<1>10. /\ full \in ReplicaPlacement /\ full.status = q.status
       /\ full.origin = q.origin /\ full.link_id = q.link_id
    BY <1>6, <1>7, <1>8 DEF ReplicaPlacement, ReplicaMeta, ReplicaLevel
<1>11. /\ both \in ReplicaPlacement /\ both.status = q.status
       /\ both.origin = q.origin /\ both.link_id = q.link_id
    BY <1>6, <1>7 DEF ReplicaPlacement
<1>13. i.link_id = servers[c][h].link /\ local[h] # None
    BY <1>4, SentinelAssumption DEF i
<1> HIDE DEF i
<1> QED BY <1>4, <1>7, <1>9, <1>10, <1>11, <1>13 DEF Upgraded, q, i

--------------------------------------------------------------------------------
(* The actions.                                                            *)

LEMMA InitKept == Init => KeptInv
<1> SUFFICES ASSUME Init PROVE KeptInv
    OBVIOUS
<1> DEFINE seed == [link |-> SeedLink, flags |-> {}, body |-> SeedBody, rev |-> 1]
<1>1. seed \in ServerItem /\ seed # None
    BY Constants DEF ServerItem, ReplicaFlags
<1>2. servers = [c \in Collection |-> [h \in Handle |->
                    IF <<c, h>> = Seeded THEN seed ELSE None]]
    BY DEF Init
<1> HIDE DEF seed
<1>3. PICK c \in Collection, h \in ServerHandle : Seeded = <<c, h>>
    <2>1. /\ Seeded[1] \in Collection /\ Seeded[2] \in ServerHandle
          /\ Seeded = <<Seeded[1], Seeded[2]>>
        BY Constants
    <2> QED BY <2>1
<1>4. h \in Handle
    BY Constants
<1>5. servers \in Members
    BY <1>1, <1>2, <1>3 DEF Members
<1>6. Holds(servers)
    BY <1>1, <1>2, <1>3, <1>4 DEF Holds
<1>7. Typed
    <2>1. \A d \in Collection : runs[d] = None /\ RunOK(d)
        BY DEF Init, RunOK
    <2> QED BY <1>5, <2>1, Constants DEF Init, Typed
<1>8. Undeleted
    BY <1>6 DEF Init, Undeleted, MovesOn
<1> QED BY <1>7, <1>8 DEF KeptInv

(* A run whose rows are still as loaded. *)
LEMMA RunStays ==
    ASSUME NEW d \in Collection, RunOK(d),
           runs'[d] = runs[d], stores'[d] = stores[d]
    PROVE  RunOK(d)'
BY DEF RunOK

(* The run a load begins, from what the merge makes of every handle. *)
RunFor(all) ==
    LET outs == [h \in {k \in Handle : all[k] # Nothing} |-> all[h]]
    IN  [outs     |-> outs,
         unserved |-> {h \in DOMAIN outs : outs[h].push # None},
         results  |-> [h \in DOMAIN outs |-> None]]

LEMMA BeginSyncKeeps ==
    ASSUME KeptInv, NEW c \in Collection, BeginSync(c)
    PROVE  KeptInv'
<1> DEFINE all  == [h \in Handle |-> OutcomeAt(c, h)]
           D    == {k \in Handle : all[k] # Nothing}
           outs == [h \in D |-> all[h]]
           run  == RunFor(all)
<1>1. UNCHANGED <<stores, servers, landed, carried, deleted>>
    BY DEF BeginSync
<1>2. runs' = [runs EXCEPT ![c] = run]
    <2>1. \E f \in {all} : runs' = [runs EXCEPT ![c] = RunFor(f)]
        BY Zenon DEF BeginSync, RunFor
    <2> HIDE DEF all
    <2> QED BY <2>1
<1>3. D \subseteq Handle /\ run.outs = outs /\ DOMAIN outs = D
    BY DEF RunFor
<1>4. \A h \in Handle :
         /\ Sound(all[h]) /\ all[h] \in Outcome
         /\ Derives(all[h], stores[c][h], Options)
         /\ Untouched(h, stores[c][h], all[h])
    <2> SUFFICES ASSUME NEW h \in Handle
                 PROVE  /\ Sound(all[h]) /\ all[h] \in Outcome
                        /\ Derives(all[h], stores[c][h], Options)
                        /\ Untouched(h, stores[c][h], all[h])
        OBVIOUS
    <2>1. all[h] = OutcomeAt(c, h)
        OBVIOUS
    <2> QED BY <2>1, OutcomeFacts DEF KeptInv, Sound
<1> HIDE DEF all
<1>5. run \in RunOf(D)
    BY <1>4 DEF RunOf, RunFor
<1>6. \A h \in run.unserved : run.outs[h].push # None
    BY <1>3 DEF RunFor
<1>7. runs = [d \in Collection |-> runs[d]]
    BY DEF KeptInv, Typed
<1>8. /\ runs' = [d \in Collection |-> runs'[d]]
      /\ \A d \in Collection : runs'[d] = IF d = c THEN run ELSE runs[d]
    BY <1>2, <1>7
<1>9. \A h \in D : /\ Sound(run.outs[h])
                   /\ Derives(run.outs[h], stores[c][h], Options)
                   /\ Untouched(h, stores[c][h], run.outs[h])
    BY <1>3, <1>4
<1> HIDE DEF D, outs, run
<1>10. RunOK(c)'
    BY <1>1, <1>3, <1>5, <1>6, <1>8, <1>9 DEF RunOK
<1>11. \A d \in Collection : RunOK(d)'
    BY <1>1, <1>8, <1>10, RunStays DEF KeptInv, Typed
<1>12. Typed'
    BY <1>1, <1>8, <1>11 DEF KeptInv, Typed
<1> QED BY <1>1, <1>12 DEF KeptInv, Undeleted

(* What a step of the server finds: a change the run derived of its row. *)
LEMMA ServedChange ==
    ASSUME KeptInv, NEW c \in Collection, runs[c] # None,
           NEW h \in runs[c].unserved
    PROVE  /\ h \in Handle /\ h \in DOMAIN runs[c].outs
           /\ runs[c].outs[h].push \in ReplicaChange
           /\ Derives(runs[c].outs[h], stores[c][h], Options)
           /\ runs[c].outs[h].push # None
<1>1. PICK D \in SUBSET Handle :
         /\ runs[c] \in RunOf(D)
         /\ \A k \in runs[c].unserved : runs[c].outs[k].push # None
         /\ \A k \in D : Derives(runs[c].outs[k], stores[c][k], Options)
    BY DEF KeptInv, Typed, RunOK
<1>2. h \in D /\ D = DOMAIN runs[c].outs
    BY <1>1 DEF RunOf
<1>3. runs[c].outs[h] \in Outcome
    BY <1>1, <1>2 DEF RunOf
<1> QED BY <1>1, <1>2, <1>3 DEF Outcome

LEMMA ServePushKeeps ==
    ASSUME KeptInv, NEW c \in Collection, ServePush(c)
    PROVE  KeptInv'
<1> DEFINE run == runs[c]
<1>1. PICK h \in run.unserved :
         /\ Bounded(h, run.outs[h].push)
         /\ servers' = Serve(c, h, run.outs[h].push).members
         /\ landed' = IF /\ run.outs[h].push.kind = "Update"
                         /\ Serve(c, h, run.outs[h].push).result.accepted
                      THEN landed \cup {run.outs[h].push.object} ELSE landed
         /\ runs' = [runs EXCEPT ![c].unserved = @ \ {h},
                                 ![c].results[h] =
                                    Serve(c, h, run.outs[h].push).result]
    BY DEF ServePush
<1>2. run # None /\ UNCHANGED <<stores, carried, deleted>>
    BY DEF ServePush
<1>3. PICK D \in SUBSET Handle :
         /\ run \in RunOf(D)
         /\ \A k \in run.unserved : run.outs[k].push # None
         /\ \A k \in D : /\ Sound(run.outs[k])
                         /\ Derives(run.outs[k], stores[c][k], Options)
                         /\ Untouched(k, stores[c][k], run.outs[k])
    BY <1>2 DEF KeptInv, Typed, RunOK
<1> DEFINE change == run.outs[h].push
           served == Serve(c, h, change)
<1>4. h \in D /\ h \in Handle
    BY <1>3 DEF RunOf
<1>5. /\ change \in ReplicaChange /\ change # None
      /\ Derives(run.outs[h], stores[c][h], Options)
    BY <1>1, <1>2, ServedChange
<1>6. Served(servers, served, change)
    BY <1>1, <1>4, <1>5, ServeKeeps DEF KeptInv, Typed
<1> DEFINE new == [run EXCEPT !.unserved = @ \ {h}, !.results[h] = served.result]
<1>7. runs' = [runs EXCEPT ![c] = new]
    BY <1>1, <1>3 DEF KeptInv, Typed, RunOf
<1>8. served.result \in PushResult
    BY <1>6 DEF Served
<1> HIDE DEF served, run
<1>9. new \in RunOf(D) /\ new.outs = run.outs /\ new.unserved \subseteq run.unserved
    BY <1>3, <1>4, <1>8 DEF RunOf
<1> HIDE DEF new
<1>10. runs = [d \in Collection |-> runs[d]]
    BY DEF KeptInv, Typed
<1>11. /\ runs' = [d \in Collection |-> runs'[d]]
       /\ \A d \in Collection : runs'[d] = IF d = c THEN new ELSE runs[d]
    BY <1>7, <1>10
<1>12. RunOK(c)'
    BY <1>2, <1>3, <1>9, <1>11 DEF RunOK
<1>13. \A d \in Collection : RunOK(d)'
    BY <1>2, <1>11, <1>12, RunStays DEF KeptInv, Typed
<1>14. landed' \subseteq Body
    <2>1. change.kind = "Update" => change.object \in Body
        BY <1>5 DEF ReplicaChange
    <2> QED BY <1>1, <2>1 DEF KeptInv, Typed, served, run
<1>15. servers' \in Members
    BY <1>1, <1>6 DEF Served, served, run
<1>16. Typed'
    BY <1>2, <1>11, <1>13, <1>14, <1>15 DEF KeptInv, Typed
<1>17. ASSUME ~deleted PROVE Undeleted'
    <2>1. Undeleted
        BY <1>17 DEF KeptInv
    <2>2. change.kind = "Remove" => change.to # None
        BY <1>4, <1>5, <2>1 DEF Derives, Undeleted, MovesOn
    <2>3. Holds(servers')
        BY <1>1, <1>6, <2>1, <2>2 DEF Undeleted, Served, served, run
    <2> QED BY <1>2, <2>1, <2>3 DEF Undeleted
<1> QED BY <1>2, <1>16, <1>17 DEF KeptInv

LEMMA WriteSyncKeeps ==
    ASSUME KeptInv, NEW c \in Collection, WriteSync(c)
    PROVE  KeptInv'
<1>1. /\ runs[c] # None /\ UNCHANGED <<servers, landed, carried, deleted>>
      /\ stores' = [stores EXCEPT ![c] = [h \in Handle |-> Recorded(c, h)]]
      /\ runs' = [runs EXCEPT ![c] = None]
    BY DEF WriteSync
<1>2. ASSUME NEW h \in Handle
      PROVE  /\ Recorded(c, h) \in Opt(ReplicaPlacement)
             /\ MovesOn(stores[c][h]) => MovesOn(Recorded(c, h))
    <2> DEFINE q == Recorded(c, h)
    <2>1. /\ q \in Opt(ReplicaPlacement)
          /\ q.status = "Clean" \/ Descends(q, stores[c][h])
        BY <1>1, RecordedFacts DEF KeptInv
    <2> HIDE DEF q
    <2>2. MovesOn(stores[c][h]) => MovesOn(q)
        BY <2>1 DEF Descends, MovesOn
    <2> QED BY <2>1, <2>2 DEF q
<1>3. runs = [d \in Collection |-> runs[d]]
    BY DEF KeptInv, Typed
<1>4. /\ runs' = [d \in Collection |-> runs'[d]]
      /\ \A d \in Collection : runs'[d] = IF d = c THEN None ELSE runs[d]
    BY <1>1, <1>3
<1>5. /\ stores' \in [Collection -> [Handle -> Opt(ReplicaPlacement)]]
      /\ \A d \in Collection : \A h \in Handle :
            stores'[d][h] = IF d = c THEN Recorded(c, h) ELSE stores[d][h]
      /\ \A d \in Collection \ {c} : stores'[d] = stores[d]
    BY <1>1, <1>2 DEF KeptInv, Typed
<1>6. \A d \in Collection : RunOK(d)'
    BY <1>4, <1>5, RunStays DEF KeptInv, Typed, RunOK
<1>7. Typed'
    BY <1>1, <1>4, <1>5, <1>6 DEF KeptInv, Typed
<1>8. ~deleted => Undeleted'
    BY <1>1, <1>2, <1>5 DEF KeptInv, Undeleted
<1> QED BY <1>1, <1>7, <1>8 DEF KeptInv

LEMMA CrashKeeps ==
    ASSUME KeptInv, NEW c \in Collection, Crash(c)
    PROVE  KeptInv'
<1>1. /\ UNCHANGED <<stores, servers, landed, carried, deleted>>
      /\ runs' = [runs EXCEPT ![c] = None]
    BY DEF Crash
<1>2. runs = [d \in Collection |-> runs[d]]
    BY DEF KeptInv, Typed
<1>3. /\ runs' = [d \in Collection |-> runs'[d]]
      /\ \A d \in Collection : runs'[d] = IF d = c THEN None ELSE runs[d]
    BY <1>1, <1>2
<1>4. \A d \in Collection : RunOK(d)'
    BY <1>1, <1>3, RunStays DEF KeptInv, Typed, RunOK
<1>5. Typed'
    BY <1>1, <1>3, <1>4 DEF KeptInv, Typed
<1> QED BY <1>1, <1>5 DEF KeptInv, Undeleted

(* What leaves the runs alone, and the rows under them. *)
LEMMA RowsOnly ==
    ASSUME KeptInv, UNCHANGED runs,
           \A d \in Collection : runs[d] = None \/ stores'[d] = stores[d]
    PROVE  /\ runs' = [d \in Collection |-> runs'[d]]
           /\ \A d \in Collection : RunOK(d)'
<1>1. runs = [d \in Collection |-> runs[d]]
    BY DEF KeptInv, Typed
<1>2. ASSUME NEW d \in Collection PROVE RunOK(d)'
    BY RunStays DEF KeptInv, Typed, RunOK
<1> QED BY <1>1, <1>2

LEMMA UpgradeAllKeeps ==
    ASSUME KeptInv, NEW c \in Collection, UpgradeAll(c)
    PROVE  KeptInv'
<1> DEFINE rows == UpgradedRows(stores[c], servers[c])
           row(h) == IF h \in DOMAIN rows THEN rows[h] ELSE stores[c][h]
<1>1. UNCHANGED <<servers, runs, landed, carried, deleted>> /\ runs[c] = None
    BY DEF UpgradeAll
<1>2. stores' = [stores EXCEPT ![c] = [h \in Handle |-> row(h)]]
    <2>1. \E f \in {rows} :
             stores' = [stores EXCEPT ![c] = [h \in Handle |->
                           IF h \in DOMAIN f THEN f[h] ELSE stores[c][h]]]
        BY Zenon DEF UpgradeAll
    <2> HIDE DEF rows
    <2> QED BY <2>1
<1>3. \A h \in DOMAIN rows :
         /\ rows[h] \in ReplicaPlacement /\ rows[h].status = stores[c][h].status
         /\ rows[h].origin = stores[c][h].origin
    BY UpgradedFacts DEF KeptInv, Upgraded
<1>4. \A h \in DOMAIN rows : stores[c][h] # None
    BY DEF UpgradedRows, PendingHandles
<1> HIDE DEF rows
<1>5. \A h \in Handle : /\ row(h) \in Opt(ReplicaPlacement)
                        /\ MovesOn(stores[c][h]) => MovesOn(row(h))
    BY <1>3, <1>4 DEF KeptInv, Typed, MovesOn
<1> HIDE DEF row
<1>6. /\ stores' \in [Collection -> [Handle -> Opt(ReplicaPlacement)]]
      /\ \A d \in Collection : \A h \in Handle :
            stores'[d][h] = IF d = c THEN row(h) ELSE stores[d][h]
      /\ \A d \in Collection \ {c} : stores'[d] = stores[d]
    BY <1>2, <1>5 DEF KeptInv, Typed
<1>9. /\ runs' = [d \in Collection |-> runs'[d]]
      /\ \A d \in Collection : RunOK(d)'
    BY <1>1, <1>6, RowsOnly
<1>7. Typed'
    BY <1>1, <1>6, <1>9 DEF KeptInv, Typed
<1>8. ~deleted => Undeleted'
    BY <1>1, <1>5, <1>6 DEF KeptInv, Undeleted
<1> QED BY <1>1, <1>7, <1>8 DEF KeptInv

(* The user's mutations rewrite one row, or for a move two. *)
LEMMA RowSet ==
    ASSUME Typed, NEW c \in Collection, NEW h \in Handle,
           NEW q \in Opt(ReplicaPlacement)
    PROVE  /\ [stores EXCEPT ![c][h] = q]
                 \in [Collection -> [Handle -> Opt(ReplicaPlacement)]]
           /\ \A d \in Collection : \A k \in Handle :
                 [stores EXCEPT ![c][h] = q][d][k] =
                    IF d = c /\ k = h THEN q ELSE stores[d][k]
           /\ \A d \in Collection \ {c} :
                 [stores EXCEPT ![c][h] = q][d] = stores[d]
<1>1. stores \in [Collection -> [Handle -> Opt(ReplicaPlacement)]]
    BY DEF Typed
<1> QED BY <1>1

LEMMA UserEditKeeps ==
    ASSUME KeptInv, NEW c \in Collection, NEW h \in Handle, UserEdit(c, h)
    PROVE  KeptInv'
<1>1. PICK b \in NewBodies :
         stores' = [stores EXCEPT ![c][h] = EditMutation(@, b, None)]
    BY DEF UserEdit
<1>2. /\ UNCHANGED <<servers, runs, landed, carried, deleted>>
      /\ runs[c] = None /\ stores[c][h] # None /\ stores[c][h].status # "Tombstone"
    BY DEF UserEdit, MayMutate
<1> DEFINE p == stores[c][h]
           q == EditMutation(p, b, None)
<1>3. p \in ReplicaPlacement
    BY <1>2 DEF KeptInv, Typed
<1>4. b \in Body
    BY DEF NewBodies
<1>5. q \in ReplicaPlacement
    BY <1>3, <1>4, EditType
<1>6. q.status # "Tombstone"
    BY <1>2, <1>3 DEF EditMutation, ReplicaPlacement
<1>7. stores' = [stores EXCEPT ![c][h] = q]
    BY <1>1
<1> HIDE DEF q
<1>8. /\ stores' \in [Collection -> [Handle -> Opt(ReplicaPlacement)]]
      /\ \A d \in Collection : \A k \in Handle :
            stores'[d][k] = IF d = c /\ k = h THEN q ELSE stores[d][k]
      /\ \A d \in Collection \ {c} : stores'[d] = stores[d]
    BY <1>5, <1>7, RowSet DEF KeptInv
<1>11. /\ runs' = [d \in Collection |-> runs'[d]]
       /\ \A d \in Collection : RunOK(d)'
    BY <1>2, <1>8, RowsOnly
<1>9. Typed'
    BY <1>2, <1>8, <1>11 DEF KeptInv, Typed
<1>10. ~deleted => Undeleted'
    BY <1>2, <1>6, <1>8 DEF KeptInv, Undeleted, MovesOn
<1> QED BY <1>2, <1>9, <1>10 DEF KeptInv

LEMMA UserRemoveKeeps ==
    ASSUME KeptInv, NEW c \in Collection, NEW h \in Handle, UserRemove(c, h)
    PROVE  KeptInv'
<1>1. /\ UNCHANGED <<servers, runs, landed, carried>> /\ deleted' = TRUE
      /\ stores' = [stores EXCEPT ![c][h] = RemoveMutation(@)]
      /\ stores[c][h] # None /\ runs[c] = None
    BY DEF UserRemove, MayMutate
<1>2. stores[c][h] \in ReplicaPlacement
    BY <1>1 DEF KeptInv, Typed
<1>3. RemoveMutation(stores[c][h]) \in ReplicaPlacement
    BY <1>2 DEF RemoveMutation, ReplicaPlacement, ReplicaStatus
<1>4. /\ stores' \in [Collection -> [Handle -> Opt(ReplicaPlacement)]]
      /\ \A d \in Collection \ {c} : stores'[d] = stores[d]
    BY <1>1, <1>3, RowSet DEF KeptInv
<1>6. /\ runs' = [d \in Collection |-> runs'[d]]
      /\ \A d \in Collection : RunOK(d)'
    BY <1>1, <1>4, RowsOnly
<1>5. Typed'
    BY <1>1, <1>4, <1>6 DEF KeptInv, Typed
<1> QED BY <1>1, <1>5 DEF KeptInv

LEMMA UserMoveKeeps ==
    ASSUME KeptInv, NEW c \in Collection, NEW h \in Handle,
           NEW target \in Collection, UserMove(c, h, target)
    PROVE  KeptInv'
<1> DEFINE p    == stores[c][h]
           half == MoveMutation(p, <<target, h>>)
           copy == CopyMutation(p, <<c, h>>)
<1>1. /\ UNCHANGED <<servers, runs, landed, deleted>>
      /\ target # c /\ p # None /\ runs[c] = None /\ runs[target] = None
      /\ carried' = IF p.base # None /\ StagedEdit(p)
                    THEN carried \cup {p.object} ELSE carried
    BY DEF UserMove, MayMutate
<1>2. PICK tmp \in Placeholder :
         stores' = [stores EXCEPT
                       ![c][h]        = half,
                       ![target][tmp] = IF p.link_id = None THEN @ ELSE copy]
    BY DEF UserMove
<1>3. tmp \in Handle
    BY RelocationAssumption
<1>4. p \in ReplicaPlacement
    BY <1>1 DEF KeptInv, Typed
<1>5. <<target, h>> \in Origin /\ <<c, h>> \in Origin
    BY Constants
<1>6. half \in ReplicaPlacement /\ half.origin # None
    <2>1. \A origin \in Origin :
             MoveMutation(p, origin) \in ReplicaPlacement
                /\ MoveMutation(p, origin).origin = origin
        BY <1>4 DEF MoveMutation, ReplicaPlacement, ReplicaStatus
    <2> HIDE DEF p
    <2> QED BY <1>5, <2>1, SentinelAssumption
<1>7. copy \in ReplicaPlacement /\ copy.status = "Created"
    <2>1. /\ p.link_id \in Opt(LinkId) /\ p.object \in Opt(Body)
          /\ p.level \in ReplicaLevel /\ p.meta \in Opt(ReplicaMeta)
          /\ p.flags \in ReplicaFlags
        BY <1>4 DEF ReplicaPlacement
    <2> QED BY <1>5, <2>1, CreatedType DEF CopyMutation, CreatedPlacement
<1> HIDE DEF half, copy
<1>8. /\ stores' \in [Collection -> [Handle -> Opt(ReplicaPlacement)]]
      /\ \A d \in Collection : \A k \in Handle :
            stores'[d][k] \in {stores[d][k], half, copy}
      /\ \A d \in Collection \ {c, target} : stores'[d] = stores[d]
    <2>1. stores \in [Collection -> [Handle -> Opt(ReplicaPlacement)]]
        BY DEF KeptInv, Typed
    <2> DEFINE one == [stores EXCEPT ![c][h] = half]
               two == IF p.link_id = None THEN stores[target][tmp] ELSE copy
    <2>2. /\ one \in [Collection -> [Handle -> Opt(ReplicaPlacement)]]
          /\ \A d \in Collection : \A k \in Handle :
                one[d][k] \in {stores[d][k], half}
          /\ \A d \in Collection \ {c} : one[d] = stores[d]
        BY <1>6, <2>1
    <2>3. stores' = [one EXCEPT ![target][tmp] = two]
        BY <1>1, <1>2, <1>3, <2>1
    <2>4. two \in Opt(ReplicaPlacement) /\ two \in {stores[target][tmp], copy}
        BY <1>3, <1>7, <2>1
    <2> HIDE DEF one, two
    <2> QED BY <1>3, <2>2, <2>3, <2>4
<1>9. carried' \subseteq Body
    BY <1>1, <1>4 DEF KeptInv, Typed, StagedEdit, ReplicaPlacement
<1>12. /\ runs' = [d \in Collection |-> runs'[d]]
       /\ \A d \in Collection : RunOK(d)'
    BY <1>1, <1>8, RowsOnly
<1>10. Typed'
    BY <1>1, <1>8, <1>9, <1>12 DEF KeptInv, Typed
<1>11. ~deleted => Undeleted'
    BY <1>1, <1>6, <1>7, <1>8 DEF KeptInv, Undeleted, MovesOn
<1> QED BY <1>1, <1>10, <1>11 DEF KeptInv

LEMMA OthersKeep ==
    ASSUME KeptInv, NEW c \in Collection, NEW h \in ServerHandle,
           OthersEdit(c, h) \/ OthersRemove(c, h)
    PROVE  KeptInv'
<1>1. h \in Handle /\ servers \in Members
    BY Constants DEF KeptInv, Typed
<1>2. CASE OthersEdit(c, h)
    <2>1. PICK b \in NewBodies :
             /\ servers' = [servers EXCEPT ![c][h].body = b, ![c][h].rev = @ + 1]
             /\ landed' = landed \cup {b}
        BY <1>2 DEF OthersEdit
    <2>2. servers[c][h] # None /\ UNCHANGED <<stores, runs, carried, deleted>>
        BY <1>2 DEF OthersEdit
    <2>3. b \in Body
        BY DEF NewBodies
    <2> DEFINE new == [servers[c][h] EXCEPT !.body = b, !.rev = @ + 1]
    <2>4. servers[c][h] \in ServerItem
        BY <1>1, <2>2, MemberFacts
    <2>5. new \in ServerItem
        <3>1. servers[c][h].rev + 1 \in Nat
            BY <2>4 DEF ServerItem
        <3> QED BY <2>3, <2>4, <3>1 DEF ServerItem
    <2>6. servers' = [servers EXCEPT ![c][h] = new]
        BY <1>1, <2>1, <2>4 DEF Members, ServerItem
    <2> HIDE DEF new
    <2>7. servers' \in Members /\ Holds(servers')
        BY <1>1, <2>5, <2>6, MemberKept
    <2>8. Typed'
        BY <2>1, <2>2, <2>3, <2>7, RunStays DEF KeptInv, Typed
    <2> QED BY <2>2, <2>7, <2>8 DEF KeptInv, Undeleted
<1>3. CASE OthersRemove(c, h)
    <2>1. /\ servers' = [servers EXCEPT ![c][h] = None] /\ deleted' = TRUE
          /\ UNCHANGED <<stores, runs, landed, carried>>
        BY <1>3 DEF OthersRemove
    <2>2. servers' \in Members
        BY <1>1, <2>1, MemberSet
    <2>3. Typed'
        BY <2>1, <2>2, RunStays DEF KeptInv, Typed
    <2> QED BY <2>1, <2>3 DEF KeptInv
<1> QED BY <1>2, <1>3

LEMMA NextKeeps == KeptInv /\ [Next]_movVars => KeptInv'
<1> SUFFICES ASSUME KeptInv, [Next]_movVars PROVE KeptInv'
    OBVIOUS
<1>1. CASE \E c \in Collection :
              BeginSync(c) \/ ServePush(c) \/ WriteSync(c) \/ Crash(c) \/ UpgradeAll(c)
    BY <1>1, BeginSyncKeeps, ServePushKeeps, WriteSyncKeeps, CrashKeeps,
       UpgradeAllKeeps
<1>2. CASE \E c \in Collection, h \in Handle :
              \/ UserEdit(c, h)
              \/ UserRemove(c, h)
              \/ \E target \in Collection : UserMove(c, h, target)
    BY <1>2, UserEditKeeps, UserRemoveKeeps, UserMoveKeeps
<1>3. CASE \E c \in Collection, h \in ServerHandle :
              OthersEdit(c, h) \/ OthersRemove(c, h)
    BY <1>3, OthersKeep
<1>4. CASE UNCHANGED movVars
    BY <1>4 DEF movVars, KeptInv, Typed, Undeleted, RunOK
<1> QED BY <1>1, <1>2, <1>3, <1>4 DEF Next

LEMMA KeptHolds == Spec => []KeptInv
BY InitKept, NextKeeps, PTL DEF Spec

(* Every reachable state of the two collections' syncs, their server and   *)
(* the user is well-typed.                                                 *)
THEOREM RelocationTypeCorrect == Spec => []TypeOK
<1>1. KeptInv => TypeOK
    <2> SUFFICES ASSUME KeptInv PROVE TypeOK
        OBVIOUS
    <2>1. servers \in [Collection -> [Handle -> Opt(ServerItem)]]
        BY DEF KeptInv, Typed, Members
    <2>2. ASSUME NEW c \in Collection, runs[c] # None
          PROVE  /\ \A h \in DOMAIN runs[c].outs : runs[c].outs[h] \in Outcome
                 /\ runs[c].unserved \subseteq DOMAIN runs[c].outs
                 /\ \A h \in DOMAIN runs[c].outs :
                       runs[c].results[h] \in Opt(PushResult)
        BY <2>2 DEF KeptInv, Typed, RunOK, RunOf
    <2> QED BY <2>1, <2>2 DEF KeptInv, Typed, TypeOK
<1> QED BY <1>1, KeptHolds, PTL

(* Until the user or another client deletes it, the item is somewhere on   *)
(* the server: whichever half of a move reaches it first, whatever a crash *)
(* makes the other push again, and whoever edits or moves it meanwhile     *)
(* (change.rs, ReplicaChangeKind: "the source being relocated rather than  *)
(* deleted out from under a copy that never ran").                         *)
THEOREM MovesNeverLose == Spec => []NeverLost
<1>1. KeptInv => NeverLost
    BY DEF KeptInv, Undeleted, Holds, NeverLost, Copies
<1> QED BY <1>1, KeptHolds, PTL

--------------------------------------------------------------------------------
(* One copy. The invariant has a case for the time before the one move and *)
(* one for the time after it.                                              *)

Home == Seeded[1]
Item == Seeded[2]

(* Before the move there is the one item, and nothing staged but on it. *)
Unmoved ==
    /\ \A c \in Collection : \A h \in Handle :
          <<c, h>> # Seeded => stores[c][h] = None /\ servers[c][h] = None
    /\ servers[Home][Item] # None => servers[Home][Item].link = SeedLink
    /\ stores[Home][Item] # None =>
          /\ stores[Home][Item].origin = None
          /\ stores[Home][Item].link_id \in {None, SeedLink}
    /\ \A c \in Collection : runs[c] # None =>
          ~Placed(c) /\ \A h \in DOMAIN runs[c].outs : <<c, h>> = Seeded

(* A row that can still deliver is a half of the move: the tombstone, or   *)
(* what became of it, at home, or the create the user staged in t.         *)
HalfOf(t, c, h, p) ==
    \/ /\ <<c, h>> = Seeded /\ p.origin = <<t, Item>> /\ p.status # "Created"
    \/ /\ c = t /\ h \notin ServerHandle /\ p.base = None
       /\ p.status \in {"Created", "Tombstone"} /\ p.origin = <<Home, Item>>

(* The create has delivered its copy, or still can. *)
Copying(t) ==
    \/ servers[Home][Item] # None /\ \E h \in Handle : servers[t][h] # None
    \/ \E h \in Handle : stores[t][h] # None /\ stores[t][h].origin # None

(* After a move to t: the members are the item and at most one copy in t,  *)
(* beside the item only that of the create; and then the remove is keyed   *)
(* by the identity the server knows the copy by. *)
MovedTo(t) ==
    /\ \A c \in Collection : \A h \in Handle : servers[c][h] # None =>
          servers[c][h].link = SeedLink /\ (c = t \/ <<c, h>> = Seeded)
    /\ \A h, k \in Handle : servers[t][h] # None /\ servers[t][k] # None => h = k
    /\ servers[Home][Item] # None =>
          \A h \in Handle : servers[t][h] # None => h = Copied[Item]
    /\ \A c \in Collection : \A h \in Handle :
          (stores[c][h] # None /\ stores[c][h].origin # None) =>
              HalfOf(t, c, h, stores[c][h])
    /\ (/\ Copying(t)
        /\ stores[Home][Item] # None /\ stores[Home][Item].origin # None) =>
           stores[Home][Item].link_id = SeedLink

OnceInv ==
    /\ spent \in [{"move", "user", "remote", "fault"} -> Nat]
    /\ spent["move"] = 0 => Unmoved
    /\ spent["move"] = 1 => \E t \in Collection \ {Home} : MovedTo(t)

(* What serving a change can do to the members: nothing, a rewrite or a    *)
(* removal of the one it names, a relocation of it past every member the   *)
(* destination holds under its key, or a copy of another.                  *)
Effect(c, h, change, new) ==
    LET held == servers[c][h]
        gone == [servers EXCEPT ![c][h] = None]
    IN  \/ new = servers
        \/ /\ held # None
           /\ \E v \in ServerItem :
                 v.link = held.link /\ new = [servers EXCEPT ![c][h] = v]
        \/ new = gone
        \/ /\ change.kind = "Remove" /\ change.to # None
           /\ held # None /\ Moved[h] \in ServerHandle
           /\ ~HoldsLink(change.to[1], change.link_id, h)
           /\ new = [gone EXCEPT ![change.to[1]][Moved[h]] = held]
        \/ /\ change.kind = "Add" /\ change.origin # None
           /\ change.origin[2] \in ServerHandle
           /\ Copied[change.origin[2]] \in ServerHandle
           /\ servers[change.origin[1]][change.origin[2]] # None
           /\ new = [servers EXCEPT ![c][Copied[change.origin[2]]] =
                        servers[change.origin[1]][change.origin[2]]]

LEMMA ServeEffect ==
    ASSUME servers \in Members, NEW c \in Collection, NEW h \in Handle,
           NEW change \in ReplicaChange, Bounded(h, change)
    PROVE  LET served == Serve(c, h, change)
           IN  /\ Effect(c, h, change, served.members)
               /\ (change.kind = "Add" /\ served.result.accepted) =>
                     change.origin # None
<1> DEFINE served == Serve(c, h, change)
           new    == served.members
           held   == servers[c][h]
           gone   == [servers EXCEPT ![c][h] = None]
<1>1. held \in Opt(ServerItem) /\ (held # None => h \in ServerHandle)
    BY MemberFacts
<1>2. change.kind \in {"SetFlags", "Update", "Remove", "Add"}
    BY DEF ReplicaChange
<1>3. CASE change.kind = "SetFlags"
    <2> DEFINE v == [held EXCEPT !.flags = change.flags]
    <2>1. held # None => v \in ServerItem /\ v.link = held.link
        <3>1. change.flags \in ReplicaFlags
            BY <1>3 DEF ReplicaChange
        <3> QED BY <1>1, <3>1 DEF ServerItem
    <2>2. new = servers \/ (held # None /\ new = [servers EXCEPT ![c][h] = v])
        BY <1>3 DEF Serve
    <2> HIDE DEF v, new, held
    <2> QED BY <1>3, <2>1, <2>2 DEF Effect, new, held
<1>4. CASE change.kind = "Update"
    <2> DEFINE v == [held EXCEPT !.body = change.object, !.rev = @ + 1]
    <2>1. held # None => v \in ServerItem /\ v.link = held.link
        <3>1. change.object \in Body
            BY <1>4 DEF ReplicaChange
        <3>2. held # None => held.rev + 1 \in Nat
            BY <1>1 DEF ServerItem
        <3> QED BY <1>1, <3>1, <3>2 DEF ServerItem
    <2>2. [servers EXCEPT ![c][h].body = change.object, ![c][h].rev = @ + 1]
              = [servers EXCEPT ![c][h] = v]
        BY <1>1 DEF Members
    <2>3. new = servers \/ (held # None /\ new = [servers EXCEPT ![c][h] = v])
        BY <1>4, <2>2 DEF Serve
    <2> HIDE DEF v, new, held
    <2> QED BY <1>4, <2>1, <2>3 DEF Effect, new, held
<1>5. CASE change.kind = "Remove"
    <2>1. held # None => Moved[h] \in ServerHandle
        BY <1>1, <1>5 DEF Bounded
    <2>2. \/ new = servers
          \/ new = gone
          \/ /\ change.to # None /\ held # None
             /\ ~HoldsLink(change.to[1], change.link_id, h)
             /\ new = [gone EXCEPT ![change.to[1]][Moved[h]] = held]
        BY <1>5 DEF Serve
    <2> HIDE DEF new, held, gone
    <2> QED BY <1>5, <2>1, <2>2 DEF Effect, new, held, gone
<1>6. CASE change.kind = "Add"
    <2> DEFINE copy == Copied[change.origin[2]]
               from == servers[change.origin[1]][change.origin[2]]
    <2>1. \/ new = servers /\ ~served.result.accepted
          \/ /\ change.origin # None /\ change.origin[2] \in ServerHandle
             /\ from # None /\ new = [servers EXCEPT ![c][copy] = from]
        BY <1>6 DEF Serve
    <2>2. change.origin # None /\ change.origin[2] \in ServerHandle =>
             copy \in ServerHandle
        BY <1>6 DEF Bounded
    <2> HIDE DEF new, served
    <2> QED BY <1>6, <2>1, <2>2 DEF Effect, new, served
<1> QED BY <1>2, <1>3, <1>4, <1>5, <1>6

(* The steps of a run, as far as members, outcomes and results go. *)
LEMMA BeginStep ==
    ASSUME KeptInv, NEW c \in Collection, BeginSync(c)
    PROVE  /\ \A d \in Collection \ {c} : runs'[d] = runs[d]
           /\ \A h \in DOMAIN runs'[c].outs :
                 /\ h \in Handle /\ OutcomeAt(c, h) # Nothing
                 /\ runs'[c].results[h] = None
<1> DEFINE all == [h \in Handle |-> OutcomeAt(c, h)]
<1>1. runs' = [runs EXCEPT ![c] = RunFor(all)]
    <2>1. \E f \in {all} : runs' = [runs EXCEPT ![c] = RunFor(f)]
        BY Zenon DEF BeginSync, RunFor
    <2> HIDE DEF all
    <2> QED BY <2>1
<1>2. runs = [d \in Collection |-> runs[d]]
    BY DEF KeptInv, Typed
<1>3. runs'[c] = RunFor(all) /\ \A d \in Collection \ {c} : runs'[d] = runs[d]
    BY <1>1, <1>2
<1>4. \A h \in Handle : all[h] = OutcomeAt(c, h)
    OBVIOUS
<1> HIDE DEF all
<1>5. /\ DOMAIN RunFor(all).outs = {h \in Handle : all[h] # Nothing}
      /\ \A h \in DOMAIN RunFor(all).outs : RunFor(all).results[h] = None
    BY DEF RunFor
<1> QED BY <1>3, <1>4, <1>5

LEMMA ServeStep ==
    ASSUME KeptInv, NEW c \in Collection, ServePush(c)
    PROVE  \E h \in Handle : \E change \in ReplicaChange :
              /\ h \in DOMAIN runs[c].outs /\ runs[c].outs[h].push = change
              /\ change # None
              /\ Derives(runs[c].outs[h], stores[c][h], Options)
              /\ Effect(c, h, change, servers')
              /\ runs'[c].outs = runs[c].outs
              /\ \A k \in DOMAIN runs[c].outs \ {h} :
                    runs'[c].results[k] = runs[c].results[k]
              /\ (change.kind = "Add" /\ runs'[c].results[h].accepted) =>
                    change.origin # None
              /\ \A d \in Collection \ {c} : runs'[d] = runs[d]
<1>1. PICK h \in runs[c].unserved :
         /\ Bounded(h, runs[c].outs[h].push)
         /\ servers' = Serve(c, h, runs[c].outs[h].push).members
         /\ runs' = [runs EXCEPT ![c].unserved = @ \ {h},
                                 ![c].results[h] =
                                    Serve(c, h, runs[c].outs[h].push).result]
    BY DEF ServePush
<1>2. runs[c] # None
    BY DEF ServePush
<1> DEFINE change == runs[c].outs[h].push
           served == Serve(c, h, change)
<1>3. /\ h \in Handle /\ h \in DOMAIN runs[c].outs /\ change \in ReplicaChange
      /\ change # None /\ Derives(runs[c].outs[h], stores[c][h], Options)
    BY <1>2, ServedChange
<1>4. /\ Effect(c, h, change, served.members)
      /\ (change.kind = "Add" /\ served.result.accepted) => change.origin # None
    BY <1>1, <1>3, ServeEffect DEF KeptInv, Typed
<1>5. PICK D \in SUBSET Handle : runs[c] \in RunOf(D)
    BY <1>2 DEF KeptInv, Typed, RunOK
<1>6. runs = [d \in Collection |-> runs[d]]
    BY DEF KeptInv, Typed
<1> HIDE DEF served
<1>7. /\ runs'[c] = [runs[c] EXCEPT !.unserved = @ \ {h}, !.results[h] = served.result]
      /\ \A d \in Collection \ {c} : runs'[d] = runs[d]
    BY <1>1, <1>5, <1>6 DEF RunOf, served
<1>8. /\ runs'[c].outs = runs[c].outs
      /\ runs'[c].results[h] = served.result
      /\ \A k \in DOMAIN runs[c].outs \ {h} :
            runs'[c].results[k] = runs[c].results[k]
    BY <1>3, <1>5, <1>7 DEF RunOf
<1> HIDE DEF change
<1> QED BY <1>1, <1>3, <1>4, <1>7, <1>8 DEF change, served

LEMMA SeedFacts ==
    /\ Home \in Collection /\ Item \in ServerHandle /\ Item \in Handle
    /\ \A c, h : <<c, h>> = Seeded <=> c = Home /\ h = Item
    /\ Copied[Item] # Item
<1>1. /\ Seeded[1] \in Collection /\ Seeded[2] \in ServerHandle
      /\ Seeded = <<Seeded[1], Seeded[2]>>
    BY Constants
<1>2. \A h \in ServerHandle : h \in Handle /\ Copied[h] # h
    BY RelocationAssumption
<1>3. Home = Seeded[1] /\ Item = Seeded[2]
    BY DEF Home, Item
<1>4. \A c, h : <<c, h>> = Seeded <=> c = Home /\ h = Item
    BY <1>1, <1>3
<1> QED BY <1>1, <1>2, <1>3, <1>4

--------------------------------------------------------------------------------
(* Steps after the move.                                                   *)

(* What no step but a move does to a row: stage a half of one, forget the  *)
(* key of one, or bring one that delivered back.                           *)
Trails(q, p, h) ==
    (q # None /\ q.origin # None) =>
        /\ p # None /\ q.origin = p.origin
        /\ p.link_id # None => q.link_id = p.link_id
        /\ q.status = "Created" => p.status = "Created"
        /\ (/\ h \notin ServerHandle /\ p.base = None
            /\ p.status \in {"Created", "Tombstone"}) =>
              q.base = None /\ q.status \in {"Created", "Tombstone"}

(* Rows step, members stay. *)
LEMMA MovedRows ==
    ASSUME NEW t, MovedTo(t), t \in Collection, UNCHANGED servers,
           \A c \in Collection : \A h \in Handle :
               Trails(stores'[c][h], stores[c][h], h)
    PROVE  MovedTo(t)'
<1>1. ASSUME NEW c \in Collection, NEW h \in Handle,
             stores'[c][h] # None, stores'[c][h].origin # None
      PROVE  HalfOf(t, c, h, stores'[c][h])
    <2> DEFINE p == stores[c][h]
               q == stores'[c][h]
    <2>1. Trails(q, p, h)
        OBVIOUS
    <2>2. p # None /\ p.origin # None => HalfOf(t, c, h, p)
        BY DEF MovedTo
    <2> HIDE DEF p, q
    <2>3. q # None /\ q.origin # None => HalfOf(t, c, h, q)
        BY <2>1, <2>2 DEF Trails, HalfOf
    <2> QED BY <1>1, <2>3 DEF q
<1>2. Copying(t)' => Copying(t)
    BY DEF Copying, Trails
<1>3. SeedLink # None
    BY Constants, SentinelAssumption
<1>4. ASSUME Copying(t)', stores'[Home][Item] # None,
             stores'[Home][Item].origin # None
      PROVE  stores'[Home][Item].link_id = SeedLink
    <2>1. Trails(stores'[Home][Item], stores[Home][Item], Item)
        BY SeedFacts
    <2> DEFINE p == stores[Home][Item]
               q == stores'[Home][Item]
    <2>2. p # None /\ p.origin # None => p.link_id = SeedLink
        BY <1>2, <1>4 DEF MovedTo
    <2> HIDE DEF p, q
    <2>3. q # None /\ q.origin # None => q.link_id = SeedLink
        BY <1>3, <2>1, <2>2 DEF Trails, p, q
    <2> QED BY <1>4, <2>3 DEF q
<1> QED BY <1>1, <1>4 DEF MovedTo

(* Members rewritten or removed, rows stay. *)
LEMMA MovedMembers ==
    ASSUME NEW t, MovedTo(t), t \in Collection, UNCHANGED stores,
           \A c \in Collection : \A h \in Handle :
               servers'[c][h] # None =>
                   servers[c][h] # None /\ servers'[c][h].link = servers[c][h].link
    PROVE  MovedTo(t)'
<1>1. Copying(t)' => Copying(t)
    BY SeedFacts DEF Copying
<1> QED BY <1>1, SeedFacts DEF MovedTo

(* A change served after the move: the remove relocates the item only where *)
(* no copy is, and the create copies only onto the copy's own handle.       *)
LEMMA MovedServe ==
    ASSUME KeptInv, NEW t \in Collection \ {Home}, MovedTo(t),
           NEW c \in Collection, ServePush(c)
    PROVE  MovedTo(t)'
<1>1. UNCHANGED stores
    BY DEF ServePush
<1>2. PICK h \in Handle, change \in ReplicaChange :
         /\ runs[c].outs[h].push = change /\ change # None
         /\ Derives(runs[c].outs[h], stores[c][h], Options)
         /\ Effect(c, h, change, servers')
    BY ServeStep
<1> DEFINE p    == stores[c][h]
           held == servers[c][h]
           gone == [servers EXCEPT ![c][h] = None]
<1>3. servers \in Members
    BY DEF KeptInv, Typed
<1>4. SeedLink # None
    BY Constants, SentinelAssumption
<1>5. CASE servers' = servers
    BY <1>1, <1>5, MovedMembers
<1>6. CASE /\ held # None
           /\ \E v \in ServerItem :
                 v.link = held.link /\ servers' = [servers EXCEPT ![c][h] = v]
    <2>1. PICK v \in ServerItem :
             v.link = held.link /\ servers' = [servers EXCEPT ![c][h] = v]
        BY <1>6
    <2>2. h \in ServerHandle
        BY <1>3, <1>6, MemberFacts
    <2>3. \A d \in Collection : \A k \in Handle :
             servers'[d][k] = IF d = c /\ k = h THEN v ELSE servers[d][k]
        BY <1>3, <2>1, <2>2, MemberSet
    <2>4. ASSUME NEW d \in Collection, NEW k \in Handle, servers'[d][k] # None
          PROVE  servers[d][k] # None /\ servers'[d][k].link = servers[d][k].link
        <3>1. CASE d = c /\ k = h
            BY <1>6, <2>1, <2>3, <3>1
        <3>2. CASE ~(d = c /\ k = h)
            <4>1. servers'[d][k] = servers[d][k]
                BY <2>3, <3>2
            <4> QED BY <2>4, <4>1
        <3> QED BY <3>1, <3>2
    <2> QED BY <1>1, <2>4, MovedMembers
<1>7. gone \in Members /\ \A d \in Collection : \A k \in Handle :
         gone[d][k] = IF d = c /\ k = h THEN None ELSE servers[d][k]
    BY <1>3, MemberSet
<1>8. CASE servers' = gone
    BY <1>1, <1>7, <1>8, MovedMembers
<1>9. CASE /\ change.kind = "Remove" /\ change.to # None
           /\ held # None /\ Moved[h] \in ServerHandle
           /\ ~HoldsLink(change.to[1], change.link_id, h)
           /\ servers' = [gone EXCEPT ![change.to[1]][Moved[h]] = held]
    <2>1. p # None /\ change.to = p.origin /\ change.link_id = p.link_id
        BY <1>2, <1>9 DEF Derives
    <2>2. h \in ServerHandle
        BY <1>3, <1>9, MemberFacts
    <2>3. c = Home /\ h = Item /\ change.to = <<t, Item>>
        <3>1. HalfOf(t, c, h, p)
            BY <1>9, <2>1 DEF MovedTo
        <3> QED BY <2>1, <2>2, <3>1, SeedFacts DEF HalfOf
    <2>4. change.to[1] = t
        BY <2>3
    <2>5. \A k \in Handle : servers[t][k] = None
        <3> SUFFICES ASSUME NEW k \in Handle, servers[t][k] # None PROVE FALSE
            OBVIOUS
        <3>1. servers[t][k].link = SeedLink /\ k = Copied[Item]
            BY <1>9, <2>3 DEF MovedTo
        <3>2. Copying(t)
            BY <1>9, <2>3 DEF Copying
        <3>3. change.link_id = SeedLink
            BY <1>9, <2>1, <2>3, <3>2 DEF MovedTo
        <3>4. k \in ServerHandle \ {h}
            BY <1>3, <2>3, <3>1, MemberFacts, SeedFacts
        <3> QED BY <1>4, <1>9, <2>4, <3>1, <3>3, <3>4 DEF HoldsLink
    <2>6. held \in ServerItem /\ held.link = SeedLink
        BY <1>3, <1>9, MemberFacts DEF MovedTo
    <2>7. Moved[h] \in Handle
        BY <1>9, Constants
    <2> HIDE DEF gone, held
    <2>8. \A d \in Collection : \A k \in Handle :
             servers'[d][k] = IF d = t /\ k = Moved[h] THEN held ELSE gone[d][k]
        BY <1>7, <1>9, <2>4, <2>6, <2>7, MemberSet
    <2>9. servers'[Home][Item] = None
        BY <1>7, <2>3, <2>8, SeedFacts
    <2>10. \A k \in Handle : servers'[t][k] # None => k = Moved[h]
        BY <1>7, <2>3, <2>5, <2>8
    <2>11. \A d \in Collection : \A k \in Handle : servers'[d][k] # None =>
              servers'[d][k].link = SeedLink /\ (d = t \/ <<d, k>> = Seeded)
        BY <1>7, <2>6, <2>8 DEF MovedTo
    <2>12. Copying(t)' => Copying(t)
        BY <1>1, <2>9 DEF Copying
    <2> QED BY <1>1, <2>9, <2>10, <2>11, <2>12 DEF MovedTo
<1>10. CASE /\ change.kind = "Add" /\ change.origin # None
            /\ change.origin[2] \in ServerHandle
            /\ Copied[change.origin[2]] \in ServerHandle
            /\ servers[change.origin[1]][change.origin[2]] # None
            /\ servers' = [servers EXCEPT ![c][Copied[change.origin[2]]] =
                              servers[change.origin[1]][change.origin[2]]]
    <2>1. p # None /\ p.status = "Created" /\ change.origin = p.origin
        BY <1>2, <1>10 DEF Derives
    <2>2. c = t /\ change.origin = <<Home, Item>>
        <3>1. HalfOf(t, c, h, p)
            BY <1>10, <2>1 DEF MovedTo
        <3> QED BY <2>1, <3>1 DEF HalfOf
    <2>3. change.origin[1] = Home /\ change.origin[2] = Item
        BY <2>2
    <2> DEFINE item == servers[Home][Item]
               copy == Copied[Item]
    <2>4. item # None /\ item \in ServerItem /\ item.link = SeedLink
        BY <1>3, <1>10, <2>3, MemberFacts, SeedFacts DEF MovedTo
    <2>5. copy \in ServerHandle /\ copy \in Handle
        BY <1>10, <2>3, Constants
    <2>6. servers' = [servers EXCEPT ![t][copy] = item]
        BY <1>10, <2>2, <2>3
    <2> HIDE DEF item, copy
    <2>7. \A d \in Collection : \A k \in Handle :
             servers'[d][k] = IF d = t /\ k = copy THEN item ELSE servers[d][k]
        BY <1>3, <2>4, <2>5, <2>6, MemberSet
    <2>8. \A k \in Handle : servers'[t][k] # None => k = copy
        BY <2>4, <2>7 DEF MovedTo, item, copy
    <2>9. \A d \in Collection : \A k \in Handle : servers'[d][k] # None =>
             servers'[d][k].link = SeedLink /\ (d = t \/ <<d, k>> = Seeded)
        BY <2>4, <2>7 DEF MovedTo
    <2>10. Copying(t)
        BY <2>1, <2>2, <1>10 DEF Copying
    <2> QED BY <1>1, <2>8, <2>9, <2>10 DEF MovedTo, copy
<1> QED BY <1>2, <1>5, <1>6, <1>8, <1>9, <1>10 DEF Effect

--------------------------------------------------------------------------------
(* The rows each action rewrites.                                          *)

(* An action that touches row c, h alone. *)
OneRow(c, h, q) ==
    \A d \in Collection : \A k \in Handle :
        stores'[d][k] = IF d = c /\ k = h THEN q ELSE stores[d][k]

LEMMA UpgradeStep ==
    ASSUME KeptInv, NEW c \in Collection, UpgradeAll(c),
           NEW d \in Collection, NEW h \in Handle
    PROVE  \/ stores'[d][h] = stores[d][h]
           \/ d = c /\ Upgraded(c, h, stores'[d][h])
<1> DEFINE rows == UpgradedRows(stores[c], servers[c])
           row(k) == IF k \in DOMAIN rows THEN rows[k] ELSE stores[c][k]
<1>1. stores' = [stores EXCEPT ![c] = [k \in Handle |-> row(k)]]
    <2>1. \E f \in {rows} :
             stores' = [stores EXCEPT ![c] = [k \in Handle |->
                           IF k \in DOMAIN f THEN f[k] ELSE stores[c][k]]]
        BY Zenon DEF UpgradeAll
    <2> HIDE DEF rows
    <2> QED BY <2>1
<1>2. h \in DOMAIN rows => Upgraded(c, h, rows[h])
    BY UpgradedFacts DEF KeptInv
<1> HIDE DEF rows
<1>3. stores'[d][h] = IF d = c THEN row(h) ELSE stores[d][h]
    BY <1>1 DEF KeptInv, Typed
<1> QED BY <1>2, <1>3

LEMMA EditStep ==
    ASSUME KeptInv, NEW c \in Collection, NEW h \in Handle, UserEdit(c, h)
    PROVE  \E q \in ReplicaPlacement :
              LET p == stores[c][h]
              IN  /\ OneRow(c, h, q) /\ p # None /\ p.status # "Tombstone"
                  /\ q.origin = p.origin /\ q.link_id = p.link_id
                  /\ q.status = "Created" <=> p.status = "Created"
                  /\ p.status = "Created" => q.base = p.base
<1>1. PICK b \in NewBodies :
         stores' = [stores EXCEPT ![c][h] = EditMutation(@, b, None)]
    BY DEF UserEdit
<1> DEFINE p == stores[c][h]
           q == EditMutation(p, b, None)
<1>2. p # None /\ p.status # "Tombstone"
    BY DEF UserEdit, MayMutate
<1>3. p \in ReplicaPlacement /\ b \in Body
    BY <1>2 DEF KeptInv, Typed, NewBodies
<1>4. q \in ReplicaPlacement
    BY <1>3, EditType
<1>5. /\ q.origin = p.origin /\ q.link_id = p.link_id
      /\ q.status = "Created" <=> p.status = "Created"
      /\ p.status = "Created" => q.base = p.base
    BY <1>3 DEF EditMutation, ReplicaPlacement
<1>6. stores' = [stores EXCEPT ![c][h] = q]
    BY <1>1
<1> HIDE DEF q
<1>7. OneRow(c, h, q)
    BY <1>4, <1>6, RowSet DEF KeptInv, OneRow
<1> QED BY <1>2, <1>4, <1>5, <1>7

LEMMA RemoveStep ==
    ASSUME KeptInv, NEW c \in Collection, NEW h \in Handle, UserRemove(c, h)
    PROVE  \E q \in ReplicaPlacement :
              LET p == stores[c][h]
              IN  /\ OneRow(c, h, q) /\ p # None /\ q.status = "Tombstone"
                  /\ q.origin = p.origin /\ q.link_id = p.link_id
                  /\ q.base = p.base
<1> DEFINE p == stores[c][h]
           q == RemoveMutation(p)
<1>1. p # None /\ stores' = [stores EXCEPT ![c][h] = q]
    BY DEF UserRemove, MayMutate
<1>2. p \in ReplicaPlacement
    BY <1>1 DEF KeptInv, Typed
<1>3. /\ q \in ReplicaPlacement /\ q.status = "Tombstone"
      /\ q.origin = p.origin /\ q.link_id = p.link_id /\ q.base = p.base
    BY <1>2 DEF RemoveMutation, ReplicaPlacement, ReplicaStatus
<1> HIDE DEF q
<1>4. OneRow(c, h, q)
    BY <1>1, <1>3, RowSet DEF KeptInv, OneRow
<1> QED BY <1>1, <1>3, <1>4

LEMMA WriteStep ==
    ASSUME KeptInv, NEW c \in Collection, WriteSync(c)
    PROVE  /\ \A d \in Collection : \A h \in Handle :
                 stores'[d][h] = IF d = c THEN Recorded(c, h) ELSE stores[d][h]
           /\ \A d \in Collection : runs'[d] = IF d = c THEN None ELSE runs[d]
<1>1. /\ runs[c] # None
      /\ stores' = [stores EXCEPT ![c] = [h \in Handle |-> Recorded(c, h)]]
      /\ runs' = [runs EXCEPT ![c] = None]
    BY DEF WriteSync
<1>2. runs = [d \in Collection |-> runs[d]]
    BY DEF KeptInv, Typed
<1> QED BY <1>1, <1>2 DEF KeptInv, Typed

LEMMA MoveStep ==
    ASSUME KeptInv, NEW c \in Collection, NEW h \in Handle,
           NEW target \in Collection, UserMove(c, h, target)
    PROVE  LET p == stores[c][h]
           IN  /\ target # c /\ p \in ReplicaPlacement
               /\ \E tmp \in Handle \ ServerHandle :
                  \A d \in Collection : \A k \in Handle :
                     \/ /\ d = c /\ k = h
                        /\ stores'[d][k].origin = <<target, h>>
                        /\ stores'[d][k].status = "Tombstone"
                        /\ stores'[d][k].link_id = p.link_id
                     \/ /\ d = target /\ k = tmp /\ p.link_id # None
                        /\ stores'[d][k].origin = <<c, h>>
                        /\ stores'[d][k].status = "Created"
                        /\ stores'[d][k].base = None
                     \/ /\ ~(d = c /\ k = h) /\ stores'[d][k] = stores[d][k]
<1> DEFINE p    == stores[c][h]
           half == MoveMutation(p, <<target, h>>)
           copy == CopyMutation(p, <<c, h>>)
<1>1. target # c /\ p # None
    BY DEF UserMove, MayMutate
<1>2. PICK tmp \in Placeholder :
         stores' = [stores EXCEPT
                       ![c][h]        = half,
                       ![target][tmp] = IF p.link_id = None THEN @ ELSE copy]
    BY DEF UserMove
<1>3. tmp \in Handle /\ tmp \notin ServerHandle
    BY RelocationAssumption
<1>4. p \in ReplicaPlacement
    BY <1>1 DEF KeptInv, Typed
<1>5. /\ half.origin = <<target, h>> /\ half.status = "Tombstone"
      /\ half.link_id = p.link_id
    BY <1>4 DEF MoveMutation, ReplicaPlacement
<1>6. /\ copy.origin = <<c, h>> /\ copy.status = "Created"
      /\ copy.base = None
    BY DEF CopyMutation, CreatedPlacement
<1> HIDE DEF p, half, copy
<1>7. stores \in [Collection -> [Handle -> Opt(ReplicaPlacement)]]
    BY DEF KeptInv, Typed
<1>8. \A d \in Collection : \A k \in Handle :
         stores'[d][k] = IF d = c /\ k = h THEN half
                         ELSE IF d = target /\ k = tmp /\ p.link_id # None
                         THEN copy ELSE stores[d][k]
    BY <1>1, <1>2, <1>3, <1>7
<1> QED BY <1>1, <1>3, <1>4, <1>5, <1>6, <1>8 DEF p

LEMMA OthersStep ==
    ASSUME KeptInv, NEW c \in Collection, NEW h \in ServerHandle,
           OthersEdit(c, h) \/ OthersRemove(c, h)
    PROVE  /\ UNCHANGED <<stores, runs>>
           /\ \A d \in Collection : \A k \in Handle :
                 servers'[d][k] # None =>
                     /\ servers[d][k] # None
                     /\ servers'[d][k].link = servers[d][k].link
<1>1. h \in Handle /\ servers \in [Collection -> [Handle -> Opt(ServerItem)]]
    BY Constants DEF KeptInv, Typed, Members
<1>2. CASE OthersEdit(c, h)
    <2>1. PICK b \in NewBodies :
             servers' = [servers EXCEPT ![c][h].body = b, ![c][h].rev = @ + 1]
        BY <1>2 DEF OthersEdit
    <2>2. servers[c][h] \in ServerItem /\ UNCHANGED <<stores, runs>>
        BY <1>1, <1>2 DEF OthersEdit
    <2> DEFINE v == [servers[c][h] EXCEPT !.body = b, !.rev = @ + 1]
    <2>3. v.link = servers[c][h].link
        BY <2>2 DEF ServerItem
    <2>4. servers' = [servers EXCEPT ![c][h] = v]
        BY <1>1, <2>1, <2>2 DEF ServerItem
    <2> HIDE DEF v
    <2>5. \A d \in Collection : \A k \in Handle :
             servers'[d][k] = IF d = c /\ k = h THEN v ELSE servers[d][k]
        BY <1>1, <2>4
    <2> QED BY <2>2, <2>3, <2>5, Constants
<1>3. CASE OthersRemove(c, h)
    BY <1>1, <1>3 DEF OthersRemove
<1> QED BY <1>2, <1>3

(* Every step but a move. *)
Unmoving ==
    \/ \E c \in Collection :
          BeginSync(c) \/ ServePush(c) \/ WriteSync(c) \/ Crash(c) \/ UpgradeAll(c)
    \/ \E c \in Collection, h \in Handle : UserEdit(c, h) \/ UserRemove(c, h)
    \/ \E c \in Collection, h \in ServerHandle :
          OthersEdit(c, h) \/ OthersRemove(c, h)

LEMMA MovedKeeps ==
    ASSUME KeptInv, NEW t \in Collection \ {Home}, MovedTo(t), Unmoving
    PROVE  MovedTo(t)'
<1>1. ASSUME NEW c \in Collection, BeginSync(c) \/ Crash(c)
      PROVE  MovedTo(t)'
    BY <1>1 DEF BeginSync, Crash, MovedTo, Copying
<1>2. ASSUME NEW c \in Collection, WriteSync(c) PROVE MovedTo(t)'
    <2>1. runs[c] # None /\ UNCHANGED servers
        BY <1>2 DEF WriteSync
    <2>2. ASSUME NEW d \in Collection, NEW h \in Handle
          PROVE  Trails(stores'[d][h], stores[d][h], h)
        <3> DEFINE p == stores[d][h]
                   q == Recorded(c, h)
        <3>1. Trails(p, p, h)
            BY DEF Trails
        <3>2. d = c => /\ q \in Opt(ReplicaPlacement)
                       /\ \/ q.origin = None
                          \/ /\ Descends(q, p)
                             /\ (h \notin ServerHandle /\ p # None /\ p.base = None)
                                   => q \in {None, p}
            BY <2>1, RecordedFacts DEF KeptInv
        <3>3. stores'[d][h] = IF d = c THEN q ELSE p
            BY <1>2, WriteStep
        <3> HIDE DEF p, q
        <3>4. d = c => Trails(q, p, h)
            BY <3>2 DEF Trails, Descends
        <3> QED BY <3>1, <3>3, <3>4 DEF p
    <2> QED BY <2>1, <2>2, MovedRows
<1>3. ASSUME NEW c \in Collection, UpgradeAll(c) PROVE MovedTo(t)'
    <2>1. UNCHANGED servers
        BY <1>3 DEF UpgradeAll
    <2>2. ASSUME NEW d \in Collection, NEW h \in Handle
          PROVE  Trails(stores'[d][h], stores[d][h], h)
        <3>1. servers[d][h] # None => h \in ServerHandle
            BY MemberFacts DEF KeptInv, Typed
        <3> QED BY <1>3, <3>1, UpgradeStep DEF Upgraded, Trails
    <2> QED BY <2>1, <2>2, MovedRows
<1>4. ASSUME NEW c \in Collection, NEW h \in Handle, UserEdit(c, h)
      PROVE  MovedTo(t)'
    <2>1. UNCHANGED servers
        BY <1>4 DEF UserEdit
    <2>2. \A d \in Collection : \A k \in Handle :
             Trails(stores'[d][k], stores[d][k], k)
        BY <1>4, EditStep DEF OneRow, Trails
    <2> QED BY <2>1, <2>2, MovedRows
<1>5. ASSUME NEW c \in Collection, NEW h \in Handle, UserRemove(c, h)
      PROVE  MovedTo(t)'
    <2>1. UNCHANGED servers
        BY <1>5 DEF UserRemove
    <2>2. \A d \in Collection : \A k \in Handle :
             Trails(stores'[d][k], stores[d][k], k)
        BY <1>5, RemoveStep DEF OneRow, Trails
    <2> QED BY <2>1, <2>2, MovedRows
<1>6. ASSUME NEW c \in Collection, NEW h \in ServerHandle,
             OthersEdit(c, h) \/ OthersRemove(c, h)
      PROVE  MovedTo(t)'
    BY <1>6, OthersStep, MovedMembers
<1> QED BY <1>1, <1>2, <1>3, <1>4, <1>5, <1>6, MovedServe DEF Unmoving

--------------------------------------------------------------------------------
(* Steps before the move, and the move.                                    *)

LEMMA UnmovedRows ==
    ASSUME Unmoved, UNCHANGED <<servers, runs>>,
           \A c \in Collection : \A h \in Handle : stores'[c][h] # None =>
               /\ stores[c][h] # None /\ stores'[c][h].origin = stores[c][h].origin
               /\ stores'[c][h].link_id \in {stores[c][h].link_id, SeedLink}
    PROVE  Unmoved'
BY SeedFacts DEF Unmoved, Placed

LEMMA UnmovedMembers ==
    ASSUME Unmoved, UNCHANGED stores,
           \A c \in Collection : \A h \in Handle :
               servers'[c][h] # None =>
                   servers[c][h] # None /\ servers'[c][h].link = servers[c][h].link,
           \A c \in Collection : runs'[c] # None =>
               ~Placed(c)' /\ \A h \in DOMAIN runs'[c].outs : <<c, h>> = Seeded
    PROVE  Unmoved'
BY SeedFacts DEF Unmoved

LEMMA UnmovedBegin ==
    ASSUME KeptInv, Unmoved, NEW c \in Collection, BeginSync(c)
    PROVE  Unmoved'
<1>1. UNCHANGED <<stores, servers>>
    BY DEF BeginSync
<1>2. /\ \A d \in Collection \ {c} : runs'[d] = runs[d]
      /\ \A h \in DOMAIN runs'[c].outs :
            h \in Handle /\ OutcomeAt(c, h) # Nothing /\ runs'[c].results[h] = None
    BY BeginStep
<1>3. ASSUME NEW h \in DOMAIN runs'[c].outs PROVE <<c, h>> = Seeded
    <2> SUFFICES ASSUME <<c, h>> # Seeded PROVE FALSE
        OBVIOUS
    <2>1. stores[c][h] = None /\ servers[c][h] = None
        BY <1>2 DEF Unmoved
    <2>2. OutcomeAt(c, h) = Nothing
        BY <2>1 DEF OutcomeAt, Reported, MergeCandidate
    <2> QED BY <1>2, <2>2
<1>4. ~Placed(c)'
    BY <1>2 DEF Placed
<1>5. \A d \in Collection : runs'[d] # None =>
         ~Placed(d)' /\ \A h \in DOMAIN runs'[d].outs : <<d, h>> = Seeded
    BY <1>2, <1>3, <1>4 DEF Unmoved, Placed
<1> QED BY <1>1, <1>5, UnmovedMembers

LEMMA UnmovedServe ==
    ASSUME KeptInv, Unmoved, NEW c \in Collection, ServePush(c)
    PROVE  Unmoved'
<1>1. UNCHANGED stores /\ runs[c] # None
    BY DEF ServePush
<1>2. PICK h \in Handle, change \in ReplicaChange :
         /\ h \in DOMAIN runs[c].outs /\ runs[c].outs[h].push = change
         /\ change # None
         /\ Derives(runs[c].outs[h], stores[c][h], Options)
         /\ Effect(c, h, change, servers')
         /\ runs'[c].outs = runs[c].outs
         /\ \A k \in DOMAIN runs[c].outs \ {h} :
               runs'[c].results[k] = runs[c].results[k]
         /\ (change.kind = "Add" /\ runs'[c].results[h].accepted) =>
               change.origin # None
         /\ \A d \in Collection \ {c} : runs'[d] = runs[d]
    BY ServeStep
<1>3. c = Home /\ h = Item
    BY <1>1, <1>2, SeedFacts DEF Unmoved
<1>4. stores[c][h] # None => stores[c][h].origin = None
    BY <1>3 DEF Unmoved
<1>5. /\ change.kind = "Remove" => change.to = None
      /\ change.kind = "Add" => change.origin = None
    BY <1>2, <1>4 DEF Derives
<1>6. servers \in Members
    BY DEF KeptInv, Typed
<1>7. \A d \in Collection : \A k \in Handle : servers'[d][k] # None =>
         servers[d][k] # None /\ servers'[d][k].link = servers[d][k].link
    <2>1. CASE servers' = servers
        BY <2>1
    <2>2. CASE /\ servers[c][h] # None
               /\ \E v \in ServerItem : /\ v.link = servers[c][h].link
                                        /\ servers' = [servers EXCEPT ![c][h] = v]
        <3>1. PICK v \in ServerItem : /\ v.link = servers[c][h].link
                                      /\ servers' = [servers EXCEPT ![c][h] = v]
            BY <2>2
        <3>2. h \in ServerHandle
            BY <1>6, <2>2, MemberFacts
        <3>3. \A d \in Collection : \A k \in Handle :
                 servers'[d][k] = IF d = c /\ k = h THEN v ELSE servers[d][k]
            BY <1>6, <3>1, <3>2, MemberSet
        <3> SUFFICES ASSUME NEW d \in Collection, NEW k \in Handle
                     PROVE  servers'[d][k] # None =>
                               /\ servers[d][k] # None
                               /\ servers'[d][k].link = servers[d][k].link
            OBVIOUS
        <3>4. CASE d = c /\ k = h
            BY <2>2, <3>1, <3>3, <3>4
        <3>5. CASE ~(d = c /\ k = h)
            BY <3>3, <3>5
        <3> QED BY <3>4, <3>5
    <2>3. CASE servers' = [servers EXCEPT ![c][h] = None]
        <3>1. \A d \in Collection : \A k \in Handle :
                 servers'[d][k] = IF d = c /\ k = h THEN None ELSE servers[d][k]
            BY <1>6, <2>3, MemberSet
        <3> QED BY <3>1
    <2> QED BY <1>2, <1>5, <2>1, <2>2, <2>3 DEF Effect
<1>8. ~Placed(c)'
    BY <1>1, <1>2, <1>5 DEF Unmoved, Placed
<1>9. \A d \in Collection : runs'[d] # None =>
         ~Placed(d)' /\ \A k \in DOMAIN runs'[d].outs : <<d, k>> = Seeded
    BY <1>1, <1>2, <1>8 DEF Unmoved, Placed
<1> QED BY <1>1, <1>7, <1>9, UnmovedMembers

LEMMA UnmovedWrite ==
    ASSUME KeptInv, Unmoved, NEW c \in Collection, WriteSync(c)
    PROVE  Unmoved'
<1>1. runs[c] # None /\ UNCHANGED servers
    BY DEF WriteSync
<1>2. ~Placed(c)
    BY <1>1 DEF Unmoved
<1>3. ASSUME NEW h \in Handle
      PROVE  /\ Descends(Recorded(c, h), stores[c][h])
             /\ h \notin DOMAIN runs[c].outs => Recorded(c, h) = stores[c][h]
    BY <1>1, <1>2, RecordedFacts DEF KeptInv
<1>4. \A d \in Collection : \A h \in Handle :
         /\ Descends(stores'[d][h], stores[d][h])
         /\ <<d, h>> # Seeded => stores'[d][h] = stores[d][h]
    <2> SUFFICES ASSUME NEW d \in Collection, NEW h \in Handle
                 PROVE  /\ Descends(stores'[d][h], stores[d][h])
                        /\ <<d, h>> # Seeded => stores'[d][h] = stores[d][h]
        OBVIOUS
    <2>1. Descends(stores[d][h], stores[d][h])
        BY DEF Descends
    <2>2. h \in DOMAIN runs[c].outs => <<c, h>> = Seeded
        BY <1>1 DEF Unmoved
    <2> QED BY <1>3, <2>1, <2>2, WriteStep
<1>5. \A d \in Collection : runs'[d] # None => runs'[d] = runs[d]
    BY WriteStep
<1>6. \A d \in Collection : runs'[d] # None =>
         ~Placed(d)' /\ \A h \in DOMAIN runs'[d].outs : <<d, h>> = Seeded
    BY <1>5 DEF Unmoved, Placed
<1>7. stores'[Home][Item] # None =>
         /\ stores'[Home][Item].origin = None
         /\ stores'[Home][Item].link_id \in {None, SeedLink}
    <2>1. Descends(stores'[Home][Item], stores[Home][Item])
        BY <1>4, SeedFacts
    <2> QED BY <2>1 DEF Descends, Unmoved
<1> QED BY <1>1, <1>4, <1>6, <1>7 DEF Unmoved

LEMMA UnmovedKeeps ==
    ASSUME KeptInv, Unmoved, Unmoving
    PROVE  Unmoved'
<1>1. ASSUME NEW c \in Collection, Crash(c) PROVE Unmoved'
    <2>1. UNCHANGED <<stores, servers>> /\ runs' = [runs EXCEPT ![c] = None]
        BY <1>1 DEF Crash
    <2>2. runs = [d \in Collection |-> runs[d]]
        BY DEF KeptInv, Typed
    <2>3. \A d \in Collection : runs'[d] # None => runs'[d] = runs[d]
        BY <2>1, <2>2
    <2> QED BY <2>1, <2>3 DEF Unmoved, Placed
<1>2. ASSUME NEW c \in Collection, UpgradeAll(c) PROVE Unmoved'
    <2>1. UNCHANGED <<servers, runs>>
        BY <1>2 DEF UpgradeAll
    <2>2. ASSUME NEW d \in Collection, NEW h \in Handle, stores'[d][h] # None
          PROVE  /\ stores[d][h] # None /\ stores'[d][h].origin = stores[d][h].origin
                 /\ stores'[d][h].link_id \in {stores[d][h].link_id, SeedLink}
        <3>1. CASE stores'[d][h] = stores[d][h]
            BY <2>2, <3>1
        <3>2. CASE d = c /\ Upgraded(c, h, stores'[d][h])
            <4>1. stores[d][h] # None /\ servers[d][h] # None
                BY <3>2 DEF Upgraded
            <4>2. d = Home /\ h = Item
                BY <4>1, SeedFacts DEF Unmoved
            <4>3. Alone(d, h)
                BY <4>2, SeedFacts DEF Unmoved, Alone
            <4>4. servers[d][h].link = SeedLink
                BY <4>1, <4>2 DEF Unmoved
            <4> QED BY <3>2, <4>1, <4>3, <4>4 DEF Upgraded
        <3> QED BY <1>2, <3>1, <3>2, UpgradeStep
    <2> QED BY <2>1, <2>2, UnmovedRows
<1>3. ASSUME NEW c \in Collection, NEW h \in Handle, UserEdit(c, h)
      PROVE  Unmoved'
    <2>1. UNCHANGED <<servers, runs>>
        BY <1>3 DEF UserEdit
    <2> QED BY <1>3, <2>1, EditStep, UnmovedRows DEF OneRow
<1>4. ASSUME NEW c \in Collection, NEW h \in Handle, UserRemove(c, h)
      PROVE  Unmoved'
    <2>1. UNCHANGED <<servers, runs>>
        BY <1>4 DEF UserRemove
    <2> QED BY <1>4, <2>1, RemoveStep, UnmovedRows DEF OneRow
<1>5. ASSUME NEW c \in Collection, NEW h \in ServerHandle,
             OthersEdit(c, h) \/ OthersRemove(c, h)
      PROVE  Unmoved'
    <2>1. \A d \in Collection : runs'[d] # None =>
             ~Placed(d)' /\ \A k \in DOMAIN runs'[d].outs : <<d, k>> = Seeded
        BY <1>5, OthersStep DEF Unmoved, Placed
    <2> QED BY <1>5, <2>1, OthersStep, UnmovedMembers
<1> QED BY <1>1, <1>2, <1>3, <1>4, <1>5, UnmovedBegin, UnmovedServe, UnmovedWrite
       DEF Unmoving

(* Moved before, the item has one half staged at home and one in target. *)
LEMMA MoveStarts ==
    ASSUME KeptInv, Unmoved, NEW c \in Collection, NEW h \in Handle,
           NEW target \in Collection, UserMove(c, h, target)
    PROVE  target # Home /\ MovedTo(target)'
<1> DEFINE p == stores[c][h]
<1>1. UNCHANGED servers /\ p # None
    BY DEF UserMove, MayMutate
<1>2. c = Home /\ h = Item
    BY <1>1, SeedFacts DEF Unmoved
<1>3. p.link_id \in {None, SeedLink}
    BY <1>1, <1>2 DEF Unmoved
<1>4. target # c
    BY DEF UserMove
<1>5. PICK tmp \in Handle \ ServerHandle :
         \A d \in Collection : \A k \in Handle :
            \/ /\ d = c /\ k = h
               /\ stores'[d][k].origin = <<target, h>>
               /\ stores'[d][k].status = "Tombstone"
               /\ stores'[d][k].link_id = p.link_id
            \/ /\ d = target /\ k = tmp /\ p.link_id # None
               /\ stores'[d][k].origin = <<c, h>>
               /\ stores'[d][k].status = "Created"
               /\ stores'[d][k].base = None
            \/ /\ ~(d = c /\ k = h) /\ stores'[d][k] = stores[d][k]
    BY MoveStep
<1> HIDE DEF p
<1>6. \A d \in Collection : \A k \in Handle :
         servers'[d][k] # None => /\ d = Home /\ k = Item
                                  /\ servers'[d][k].link = SeedLink
    BY <1>1, SeedFacts DEF Unmoved
<1>7. \A d \in Collection : \A k \in Handle :
         (stores'[d][k] # None /\ stores'[d][k].origin # None) =>
             HalfOf(target, d, k, stores'[d][k])
    <2> SUFFICES ASSUME NEW d \in Collection, NEW k \in Handle,
                        stores'[d][k] # None, stores'[d][k].origin # None
                 PROVE  HalfOf(target, d, k, stores'[d][k])
        OBVIOUS
    <2>1. CASE d = c /\ k = h
        BY <1>2, <1>4, <1>5, <2>1, SeedFacts DEF HalfOf
    <2>2. CASE d = target /\ k = tmp /\ p.link_id # None
        BY <1>2, <1>4, <1>5, <2>2, SeedFacts DEF HalfOf, Unmoved
    <2>3. CASE ~(d = c /\ k = h) /\ stores'[d][k] = stores[d][k]
        BY <1>2, <2>3, SeedFacts DEF Unmoved
    <2> QED BY <1>5, <2>1, <2>2, <2>3
<1>8. stores'[Home][Item].link_id = p.link_id
    BY <1>2, <1>5, SeedFacts
<1>9. Copying(target)' => p.link_id = SeedLink
    <2> SUFFICES ASSUME Copying(target)', p.link_id = None PROVE FALSE
        BY <1>3
    <2>1. PICK k \in Handle :
             stores'[target][k] # None /\ stores'[target][k].origin # None
        BY <1>2, <1>4, <1>6 DEF Copying
    <2> QED BY <1>2, <1>4, <1>5, <2>1, SeedFacts DEF Unmoved
<1> QED BY <1>2, <1>4, <1>6, <1>7, <1>8, <1>9, SeedFacts DEF MovedTo

LEMMA InitOnce == Init => OnceInv
<1> SUFFICES ASSUME Init PROVE OnceInv
    OBVIOUS
<1>1. /\ spent \in [{"move", "user", "remote", "fault"} -> Nat]
      /\ spent["move"] = 0
    BY DEF Init
<1>2. /\ \A c \in Collection : \A h \in Handle : stores[c][h] = None
      /\ \A c \in Collection : runs[c] = None
      /\ \A c \in Collection : \A h \in Handle :
            servers[c][h] =
               IF <<c, h>> = Seeded
               THEN [link |-> SeedLink, flags |-> {}, body |-> SeedBody, rev |-> 1]
               ELSE None
    BY DEF Init
<1>3. Unmoved
    BY <1>2, SeedFacts DEF Unmoved
<1> QED BY <1>1, <1>3 DEF OnceInv

(* Only a move is counted as one. *)
LEMMA SpentSteps ==
    ASSUME spent \in [{"move", "user", "remote", "fault"} -> Nat]
    PROVE  /\ Unmoving => /\ spent' \in [{"move", "user", "remote", "fault"} -> Nat]
                          /\ spent'["move"] = spent["move"]
           /\ \A c \in Collection, h \in Handle, target \in Collection :
                 UserMove(c, h, target) =>
                    /\ spent' \in [{"move", "user", "remote", "fault"} -> Nat]
                    /\ spent'["move"] = spent["move"] + 1
<1>1. ASSUME NEW who \in {"move", "user", "remote", "fault"}, NEW max,
             Spend(who, max)
      PROVE  /\ spent' \in [{"move", "user", "remote", "fault"} -> Nat]
             /\ spent'["move"] = IF who = "move" THEN spent["move"] + 1
                                 ELSE spent["move"]
    BY <1>1 DEF Spend
<1>2. ASSUME NEW c \in Collection,
             BeginSync(c) \/ ServePush(c) \/ WriteSync(c) \/ UpgradeAll(c)
      PROVE  UNCHANGED spent
    BY <1>2 DEF BeginSync, ServePush, WriteSync, UpgradeAll
<1>3. ASSUME NEW c \in Collection, Crash(c)
      PROVE  Spend("fault", MaxFault)
    BY <1>3 DEF Crash
<1>4. ASSUME NEW c \in Collection, NEW h \in Handle,
             UserEdit(c, h) \/ UserRemove(c, h)
      PROVE  Spend("user", MaxUser)
    BY <1>4 DEF UserEdit, UserRemove
<1>5. ASSUME NEW c \in Collection, NEW h \in ServerHandle,
             OthersEdit(c, h) \/ OthersRemove(c, h)
      PROVE  Spend("remote", MaxRemote)
    BY <1>5 DEF OthersEdit, OthersRemove
<1>6. ASSUME NEW c \in Collection, NEW h \in Handle, NEW target \in Collection,
             UserMove(c, h, target)
      PROVE  Spend("move", MaxMove)
    BY <1>6 DEF UserMove
<1>7. Unmoving => \/ UNCHANGED spent
                  \/ \E who \in {"user", "remote", "fault"} : \E max : Spend(who, max)
    BY <1>2, <1>3, <1>4, <1>5 DEF Unmoving
<1> QED BY <1>1, <1>6, <1>7

LEMMA NextOnce == KeptInv /\ OnceInv /\ [Next]_movVars => OnceInv'
<1> SUFFICES ASSUME KeptInv, OnceInv, [Next]_movVars PROVE OnceInv'
    OBVIOUS
<1>1. CASE Unmoving
    <2>1. /\ spent' \in [{"move", "user", "remote", "fault"} -> Nat]
          /\ spent'["move"] = spent["move"]
        BY <1>1, SpentSteps DEF OnceInv
    <2>2. spent["move"] = 0 => Unmoved'
        BY <1>1, UnmovedKeeps DEF OnceInv
    <2>3. spent["move"] = 1 => \E t \in Collection \ {Home} : MovedTo(t)'
        BY <1>1, MovedKeeps DEF OnceInv
    <2> QED BY <2>1, <2>2, <2>3 DEF OnceInv
<1>2. ASSUME NEW c \in Collection, NEW h \in Handle, NEW target \in Collection,
             UserMove(c, h, target)
      PROVE  OnceInv'
    <2>1. /\ spent' \in [{"move", "user", "remote", "fault"} -> Nat]
          /\ spent'["move"] = spent["move"] + 1 /\ spent["move"] \in Nat
        BY <1>2, SpentSteps DEF OnceInv
    <2>2. spent["move"] = 0 => \E t \in Collection \ {Home} : MovedTo(t)'
        BY <1>2, MoveStarts DEF OnceInv
    <2> QED BY <2>1, <2>2 DEF OnceInv
<1>3. CASE UNCHANGED movVars
    BY <1>3 DEF movVars, OnceInv, Unmoved, MovedTo, Copying, Placed
<1> QED BY <1>1, <1>2, <1>3 DEF Next, Unmoving

(* A move delivers the item once: no collection ever holds two copies of   *)
(* it, whichever half reaches the server first, with the two syncs, their  *)
(* crashes and retries, the user's edits and other clients' changes        *)
(* interleaved (mutate.rs, Move: "the second half recognises what the      *)
(* first did instead of delivering a second copy").                        *)
THEOREM MovesDeliverOnce == Spec => []DeliveredOnce
<1>1. OnceInv => DeliveredOnce
    <2> SUFFICES ASSUME OnceInv, spent["move"] <= 1, NEW c \in Collection
                 PROVE  Cardinality(Copies(c)) <= 1
        BY DEF DeliveredOnce
    <2>1. spent["move"] = 0 \/ spent["move"] = 1
        BY DEF OnceInv
    <2>2. \A h, k \in Copies(c) : h = k
        <3>1. CASE Unmoved
            BY <3>1, SeedFacts DEF Unmoved, Copies
        <3>2. ASSUME NEW t, MovedTo(t) PROVE \A h, k \in Copies(c) : h = k
            BY <3>2, SeedFacts DEF MovedTo, Copies
        <3> QED BY <2>1, <3>1, <3>2 DEF OnceInv
    <2>3. CASE Copies(c) = {}
        BY <2>3, FS_EmptySet
    <2>4. CASE Copies(c) # {}
        <3>1. PICK h : h \in Copies(c)
            BY <2>4
        <3>2. Copies(c) = {h}
            BY <2>2, <3>1
        <3> QED BY <3>2, FS_Singleton
    <2> QED BY <2>3, <2>4
<1>2. Spec => []OnceInv
    BY InitOnce, NextOnce, KeptHolds, PTL DEF Spec
<1> QED BY <1>1, <1>2, PTL

================================================================================
