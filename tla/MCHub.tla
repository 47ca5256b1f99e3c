--------------------------------- MODULE MCHub ---------------------------------
(***************************************************************************)
(* Small instances of Hub for TLC: two sources. Server handles are 10, 20, *)
(* ..., the placeholder of a link id i is 800 + i, the user's is 91; hints *)
(* are 1 and 2, and the key minted from hint i under handle h is h + i.    *)
(***************************************************************************)
EXTENDS Hub

Hints == {1, 2}

MCLinkId == Hints \cup {h + i : h \in ServerHandle, i \in Hints}

MCMint == [ih \in LinkId \X Handle |->
              IF ih[1] \in Hints /\ ih[2] \in ServerHandle
              THEN ih[1] + ih[2] ELSE ih[1]]

MCHubHandle == [link \in LinkId |-> 800 + link]

MCHandle == ServerHandle \cup {91} \cup {800 + link : link \in LinkId}

MCSeeded == <<"a", 10>>

MCKeepBothLink == [b \in Body |-> 1]

MCOptions ==
    [s \in Source |->
        [push |-> TRUE, rights |-> {"flags", "content", "add", "remove"},
         delete |-> "Revert", conflict |-> "Manual", full |-> TRUE]]

(* Neither server takes removes: a delete is reverted. *)
RefusingOptions ==
    [s \in Source |-> [MCOptions[s] EXCEPT !.rights = @ \ {"remove"}]]

(* Source b does not report the handle of an add. *)
HalfReporting == [s \in Source |-> s = "a"]
Reporting == [s \in Source |-> TRUE]

================================================================================
