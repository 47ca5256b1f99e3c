-------------------------------- MODULE MCReplay --------------------------------
(***************************************************************************)
(* Small instances of Replay for TLC: those of Sync.                       *)
(***************************************************************************)
EXTENDS MCSync, Replay

================================================================================
