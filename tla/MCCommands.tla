----------------------------- MODULE MCCommands -----------------------------
(* Instances of Commands for TLC: the interactions and what they ask for.  *)
EXTENDS Commands

KickBanOther == [k |-> "kick", b |-> "ban", o |-> "other"]
=============================================================================
