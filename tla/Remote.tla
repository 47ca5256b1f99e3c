--------------------------------- MODULE Remote ---------------------------------
(***************************************************************************)
(* The remote seam, as the repository's own fake server implements it      *)
(* (tests/common/mod.rs, MemRemote): one collection of items, a global     *)
(* change counter every mutation bumps and stamps on what it touched, and  *)
(* delta snapshots that serve everything stamped past a cursor.            *)
(*                                                                         *)
(* MemRemote numbers each item's revisions from 0. Here a revision is the  *)
(* counter value of the item's last content change, so no two versions     *)
(* share one even when a deleted handle is used again (a WebDAV href); the *)
(* engine only compares revisions for equality.                            *)
(***************************************************************************)
EXTENDS Merge, FiniteSets

CONSTANTS
    Handle,         \* every handle, ordered: a subset of Nat
    ServerHandle,   \* the handles the server assigns
    Seeded,         \* the handles of the items it starts with
    Hint,           \* the identity of what others put at each server handle
    Foreign,        \* the bodies other clients write
    Mutable,        \* content is mutable: revisions reported and checked
    Uidplus         \* whether an accepted add reports its handle: the cases

ASSUME RemoteAssumption ==
    /\ Handle \subseteq Nat
    /\ IsFiniteSet(Handle)
    /\ ServerHandle \subseteq Handle
    /\ Seeded \subseteq ServerHandle
    /\ Hint \in [ServerHandle -> LinkId]
    /\ Foreign \subseteq Body /\ Foreign # {}
    /\ Mutable \in BOOLEAN
    /\ Uidplus \subseteq BOOLEAN
    /\ None \notin Handle

VARIABLES
    items,      \* the members: [Handle -> ServerItem or None]
    gone,       \* the counter value of each handle's last removal, 0 if none
    seq,        \* the global change counter
    results,    \* the outcomes of the chunk being pushed
    landed      \* history: every body a push of the replica's left there

remoteVars == <<items, gone, seq, results, landed>>

(* `asked` is history: the body that the change behind the item's version  *)
(* came with. Only a server-side copy takes another one.                   *)
ServerItem == [link : LinkId, flags : ReplicaFlags, body : Body, asked : Body,
               seq : Nat, rev : Revision]

(* The member made, or given the body, at the counter value n. *)
Member(link, flags, body, n) ==
    [link |-> link, flags |-> flags, body |-> body, asked |-> body,
     seq |-> n, rev |-> n]

Rewritten(item, body, n) ==
    [item EXCEPT !.body = body, !.asked = body, !.rev = n, !.seq = n]

PushResult == [outcome  : {"Accepted", "Rejected"},
               assigned : Opt(Handle),
               revision : Opt(Revision)]

(* The sentinel again. *)
ASSUME ServerAssumption == None \notin ServerItem /\ None \notin PushResult

Accepted(assigned, revision) ==
    [outcome |-> "Accepted", assigned |-> assigned, revision |-> revision]

Rejected == [outcome |-> "Rejected", assigned |-> None, revision |-> None]

Least(S) == CHOOSE x \in S : \A y \in S : x <= y

(* The revision the remote reports of an item. *)
RevisionOf(rev) == IF Mutable THEN rev ELSE None

(* The body a member starts with; which one does not matter. *)
SeedBody == CHOOSE b \in Foreign : TRUE

RemoteInit ==
    LET stamp(h) == Cardinality({k \in Seeded : k <= h})
    IN  /\ items = [h \in Handle |->
                        IF h \in Seeded
                        THEN Member(Hint[h], {}, SeedBody, stamp(h)) ELSE None]
        /\ gone = [h \in Handle |-> 0]
        /\ seq = Cardinality(Seeded)
        /\ results = [h \in Handle |-> None]
        /\ landed = {}

--------------------------------------------------------------------------------
(* enumerate: the whole set, or what changed past the cursor. *)

Snapshot(cursor) ==
    LET listed(h) == items[h] # None
                        /\ (cursor = None \/ items[h].seq > cursor)
    IN  [items      |-> [h \in Handle |->
                            IF listed(h)
                            THEN [flags    |-> items[h].flags,
                                  revision |-> RevisionOf(items[h].rev)]
                            ELSE None],
         vanished   |-> IF cursor = None THEN {}
                        ELSE {h \in Handle : items[h] = None
                                                /\ gone[h] > cursor},
         complete   |-> cursor = None,
         checkpoint |-> seq]

ReplicaRemoteSnapshot ==
    [items      : [Handle -> Opt(ReplicaRemoteItem)],
     vanished   : SUBSET Handle,
     complete   : BOOLEAN,
     checkpoint : Nat]

--------------------------------------------------------------------------------
(* push, one change at a time: a real server interleaves other clients.    *)

Answer(h, result) == results' = [results EXCEPT ![h] = result]

(* The precondition names a version the item has moved past. *)
Stale(h, if_match) ==
    Mutable /\ items[h] # None /\ items[h].rev # if_match

(* A flag push has no precondition, and a missing member is accepted. *)
PushSetFlags(h, change) ==
    /\ change.kind = "SetFlags"
    /\ seq' = seq + 1
    /\ items' = IF items[h] = None THEN items
                ELSE [items EXCEPT ![h] = [@ EXCEPT !.flags = change.flags,
                                                    !.seq   = seq + 1]]
    /\ Answer(h, Accepted(None, None))
    /\ UNCHANGED <<gone, landed>>

(* A remove of a missing member means the delete already landed. Where a   *)
(* move relocates to is another collection.                                *)
PushRemove(h, change) ==
    /\ change.kind = "Remove"
    /\ IF Stale(h, change.if_match)
       THEN /\ Answer(h, Rejected)
            /\ UNCHANGED <<items, gone, seq>>
       ELSE /\ seq' = seq + 1
            /\ items' = [items EXCEPT ![h] = None]
            /\ gone' = IF items[h] = None THEN gone
                       ELSE [gone EXCEPT ![h] = seq + 1]
            /\ Answer(h, Accepted(None, None))
    /\ UNCHANGED landed

(* An edit of a member deleted meanwhile cannot land in place. *)
PushUpdate(h, change) ==
    /\ change.kind = "Update"
    /\ IF items[h] = None \/ Stale(h, change.if_match)
       THEN /\ Answer(h, Rejected)
            /\ UNCHANGED <<items, seq, landed>>
       ELSE /\ seq' = seq + 1
            /\ items' = [items EXCEPT ![h] = Rewritten(@, change.object, seq + 1)]
            /\ landed' = landed \cup {change.object}
            /\ Answer(h, Accepted(None, RevisionOf(seq + 1)))
    /\ UNCHANGED gone

(* The handles never assigned yet. *)
Unassigned == {h \in ServerHandle : items[h] = None /\ gone[h] = 0}

(* The bodies and the flags a new member may start with. An append takes   *)
(* those it came with. A server-side copy takes the origin's own, whatever *)
(* the change carries: what other clients wrote there, or what the replica *)
(* cached if the origin has it.                                            *)
AddedBodies(change) ==
    IF change.origin = None THEN {change.object} \ {None}
    ELSE Foreign \cup ({change.object} \ {None})

AddedFlags(change) ==
    IF change.origin = None THEN {change.flags} ELSE SUBSET Flag

(* A copy keeps the origin's identity, which is nobody's choice here. *)
AddedMember(change, new, flags, body) ==
    LET link  == IF change.origin # None \/ change.link_id = None THEN Hint[new]
                 ELSE change.link_id
        asked == IF change.object = None THEN body ELSE change.object
    IN  [Member(link, flags, body, seq + 1) EXCEPT !.asked = asked]

(* A copy is refused once the origin is gone; a server out of handles (a   *)
(* bound of the model) refuses; an append of no body adds nothing.         *)
PushAdd(h, change) ==
    /\ change.kind = "Add"
    /\ \/ /\ Unassigned = {} \/ change.origin # None \/ change.object = None
          /\ Answer(h, IF change.origin = None /\ change.object = None
                       THEN Accepted(None, None) ELSE Rejected)
          /\ UNCHANGED <<items, seq, landed>>
       \/ /\ Unassigned # {}
          /\ \E body \in AddedBodies(change), flags \in AddedFlags(change),
                reported \in Uidplus :
              LET new == Least(Unassigned)
              IN  /\ seq' = seq + 1
                  /\ items' = [items EXCEPT
                                  ![new] = AddedMember(change, new, flags, body)]
                  /\ landed' = landed \cup {body}
                  /\ Answer(h, IF reported
                               THEN Accepted(new, RevisionOf(seq + 1))
                               ELSE Accepted(None, None))
    /\ UNCHANGED gone

Push(h, change) ==
    \/ PushSetFlags(h, change)
    \/ PushRemove(h, change)
    \/ PushUpdate(h, change)
    \/ PushAdd(h, change)

--------------------------------------------------------------------------------
(* What other clients do to the collection.                                *)

(* seed: a new member. Only where content is mutable is a deleted handle   *)
(* ever used again.                                                        *)
RemoteSeed(h) ==
    /\ h \in ServerHandle
    /\ items[h] = None
    /\ Mutable \/ gone[h] = 0
    /\ seq' = seq + 1
    /\ items' = [items EXCEPT ![h] = Member(Hint[h], {}, SeedBody, seq + 1)]
    /\ UNCHANGED <<gone, results, landed>>

(* set_flags *)
RemoteSetFlags(h, flags) ==
    /\ items[h] # None
    /\ flags # items[h].flags
    /\ seq' = seq + 1
    /\ items' = [items EXCEPT ![h] = [@ EXCEPT !.flags = flags,
                                               !.seq   = seq + 1]]
    /\ UNCHANGED <<gone, results, landed>>

(* edit *)
RemoteEdit(h, body) ==
    /\ Mutable
    /\ items[h] # None
    /\ seq' = seq + 1
    /\ items' = [items EXCEPT ![h] = Rewritten(@, body, seq + 1)]
    /\ UNCHANGED <<gone, results, landed>>

(* remove *)
RemoteRemove(h) ==
    /\ items[h] # None
    /\ seq' = seq + 1
    /\ items' = [items EXCEPT ![h] = None]
    /\ gone' = [gone EXCEPT ![h] = seq + 1]
    /\ UNCHANGED <<results, landed>>

================================================================================
