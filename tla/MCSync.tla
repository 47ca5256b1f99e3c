--------------------------------- MODULE MCSync ---------------------------------
(***************************************************************************)
(* Small instances of Sync for TLC. Server handles are 10, 20, ..., a fork *)
(* of body b under handle h is h + b (sorted right after h, as the source's *)
(* handle and separator are), and placeholders are 91, 92.                  *)
(***************************************************************************)
EXTENDS Sync, TLC

MCFork == [hb \in Handle \X Body |-> hb[1] + hb[2]]

(* A fork's link id names the body it forked: here, the body itself. Users *)
(* author the others.                                                      *)
MCKeepBothLink == [b \in Body |-> b]

MCLinkId == Body \cup {100, 101}

AllRights == {"flags", "content", "add", "remove"}

Opts(push, rights, delete, conflict, full) ==
    [push |-> push, rights |-> rights, delete |-> delete,
     conflict |-> conflict, full |-> full]

(* The default options, every conflict policy, and a full sync. *)
DefaultOptions == {Opts(TRUE, AllRights, "Revert", "Manual", FALSE)}

ConflictOptions ==
    {Opts(TRUE, AllRights, "Revert", conflict, FALSE) :
        conflict \in {"Manual", "PreferLocal", "PreferRemote", "KeepBoth"}}
        \cup {Opts(TRUE, AllRights, "Revert", "Manual", TRUE)}

(* Sources that forbid some pushes. *)
ReadOnlyOptions ==
    {Opts(FALSE, AllRights, delete, "Manual", FALSE) :
        delete \in {"Revert", "Keep"}}

RefusingOptions ==
    DefaultOptions
        \cup {Opts(TRUE, AllRights \ {refused}, "Revert", "Manual", FALSE) :
                refused \in {"add", "content", "remove"}}
        \cup {Opts(TRUE, AllRights \ {"remove"}, "Keep", "Manual", FALSE)}

(* The policies that never push over a revision the base does not hold. *)
ManualOptions ==
    {Opts(TRUE, AllRights, "Revert", conflict, full) :
        conflict \in {"Manual", "KeepBoth"}, full \in BOOLEAN}

(* One policy: the local side wins every conflict. *)
PreferLocalOptions == {Opts(TRUE, AllRights, "Revert", "PreferLocal", FALSE)}

(* One policy: a conflict keeps both sides. *)
KeepBothOptions == {Opts(TRUE, AllRights, "Revert", "KeepBoth", FALSE)}

(* A sync reads no identity off the server: one stands for all. *)
MCHint == [h \in ServerHandle |-> 100]

Live == ReplicaStatus \ {"Tombstone"}

(* Two server handles, their forks of bodies 1 and 2, a placeholder. *)
TwoHandles == {10, 20, 11, 12, 21, 22, 91}

(* No definition tells one marker from another. *)
FlagSymmetry == Permutations(Flag)

================================================================================
