------------------------------ MODULE MCRelocation ------------------------------
(***************************************************************************)
(* Small instances of Relocation for TLC: an inbox and an archive, one     *)
(* item under handle 1. A copy of member h gets handle 10 h + 1, a         *)
(* relocation 10 h + 2; the user's placeholders are 901 and 902.           *)
(***************************************************************************)
EXTENDS Relocation

MCHandle == ServerHandle \cup Placeholder

MCOrigin == Collection \X Handle

MCCopied == [h \in ServerHandle |-> 10 * h + 1]
MCMoved  == [h \in ServerHandle |-> 10 * h + 2]

MCSeeded == <<"inbox", 1>>

(* The identity minted for a second copy under handle h is h + 1000. *)
MCLinkId == {7} \cup {h + 1000 : h \in Handle}

MCMint == [ih \in LinkId \X Handle |-> ih[2] + 1000]

MCKeepBothLink == [b \in Body |-> 7]

MCOptions ==
    [push |-> TRUE, rights |-> {"flags", "content", "add", "remove"},
     delete |-> "Revert", conflict |-> "Manual", full |-> TRUE]

================================================================================
