-------------------------------- MODULE Delivery --------------------------------
(***************************************************************************)
(* What a replica promises about the bodies a user authors, stated without *)
(* its spine, its cursor or its chunks: a body is pending from the moment  *)
(* it is staged until a run records it as delivered. Only the user gives a *)
(* pending body up, and only between runs; a run sends pending bodies and  *)
(* nothing else, and takes a body off its books only after the remote took *)
(* it. A run may end anywhere, so a delivered body may stay pending, and   *)
(* be sent again.                                                          *)
(***************************************************************************)
CONSTANT Body

VARIABLES
    pending,    \* the bodies some placement owes the remote
    delivered,  \* the bodies the remote took
    running     \* whether a run is under way

deliveryVars == <<pending, delivered, running>>

Init ==
    /\ pending = {}
    /\ delivered = {}
    /\ running = FALSE

(* A mutation stages at most one body, fresh or restated, and gives up at  *)
(* most one, the one it replaces or deletes.                               *)
Mutate(b) ==
    /\ ~running
    /\ pending' \subseteq pending \cup {b}
    /\ \E c \in Body : pending \ pending' \subseteq {c}
    /\ UNCHANGED <<delivered, running>>

Start ==
    /\ ~running
    /\ running' = TRUE
    /\ UNCHANGED <<pending, delivered>>

Send(b) ==
    /\ running
    /\ b \in pending
    /\ delivered' = delivered \cup {b}
    /\ UNCHANGED <<pending, running>>

(* A write, the last one of a run or not, or the end of a run cut short. *)
Record ==
    /\ running
    /\ pending' \subseteq pending
    /\ pending \ pending' \subseteq delivered
    /\ running' \in BOOLEAN
    /\ UNCHANGED delivered

Next ==
    \/ \E b \in Body : Mutate(b) \/ Send(b)
    \/ Start
    \/ Record

Spec == Init /\ [][Next]_deliveryVars

================================================================================
