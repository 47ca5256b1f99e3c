------------------------------- MODULE MCReplica -------------------------------
(***************************************************************************)
(* Small instances of Upgrade and Rekey for TLC. Server handles are 10,    *)
(* 20, ...; the placeholder is 91. Hints are 100 and 101, and the key      *)
(* minted from hint i under handle h is 100 i + h.                         *)
(***************************************************************************)
EXTENDS Rekey

Opts(conflict) ==
    [push |-> TRUE, rights |-> {"flags", "content", "add", "remove"},
     delete |-> "Revert", conflict |-> conflict, full |-> FALSE]

Hints == {100, 101}

MCLinkId == Body \cup Hints \cup {100 * i + h : i \in Hints, h \in Handle}

MCKeepBothLink == [b \in Body |-> b]

MCFork == [hb \in Handle \X Body |-> hb[1] + hb[2]]

(* A key minted from a minted key would need a copy of a pushed copy: out  *)
(* of reach of the bounds, and mapped to itself.                           *)
MCMint == [ih \in LinkId \X Handle |->
              IF ih[1] \in Hints THEN 100 * ih[1] + ih[2] ELSE ih[1]]

(* Two copies of one item, or two items. *)
TwoCopies == [h \in ServerHandle |-> 100]
TwoItems  == [h \in ServerHandle |-> IF h = 10 THEN 100 ELSE 101]

ManualOptions == {Opts("Manual")}

Live == ReplicaStatus \ {"Tombstone"}

================================================================================
