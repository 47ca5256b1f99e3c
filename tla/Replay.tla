--------------------------------- MODULE Replay ---------------------------------
(***************************************************************************)
(* Sync beside a consumer that records the key of every change its remote  *)
(* took, which is how change.rs (ReplicaChange) has it recognise a replay: *)
(* pushes are at-least-once, so a run cut between a served push and the    *)
(* write recording it pushes the same change again.                        *)
(***************************************************************************)
EXTENDS Sync, ChangeKey

VARIABLE applied    \* history: the keys taken for each handle since its
                    \* user or another client last changed it

replayVars == <<vars, applied>>

(* The user stages something else on h, or another client moves it. *)
Restated(h) ==
    \/ pc = "Idle" /\ pc' = "Idle" /\ store'[h] # store[h]
    \/ unserved' = unserved /\ items'[h] # items[h]

(* The remote takes the change in flight on h. *)
Taken(h) ==
    /\ h \in unserved \ unserved'
    /\ results'[h] # None
    /\ results'[h].outcome = "Accepted"

Record ==
    applied' = [h \in Handle |->
        IF Restated(h) THEN {}
        ELSE IF Taken(h)
             THEN applied[h] \cup {ReplicaChangeKey(h, in_flight[h])}
        ELSE applied[h]]

ReplayInit == Init /\ applied = [h \in Handle |-> {}]

ReplayNext == Next /\ Record

ReplaySpec == ReplayInit /\ [][ReplayNext]_replayVars

--------------------------------------------------------------------------------
(* A retry is recognised: while neither the user nor another client has    *)
(* touched the item, a change derived again for a handle whose earlier     *)
(* change of that kind the remote already took carries that change's key,  *)
(* whatever revision the replica has observed in between (change.rs,       *)
(* ReplicaChangeKind::key: "a retry of one operation is one operation").   *)
(* A key that moved would have the consumer apply the operation twice.     *)
RetryKeepsKey ==
    \A h \in Handle :
        Owed(h) # None =>
            \A key \in applied[h] :
                key[2] = Owed(h).kind => key = ReplicaChangeKey(h, Owed(h))

================================================================================
