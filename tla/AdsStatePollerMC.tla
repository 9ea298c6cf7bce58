--------------------------- MODULE AdsStatePollerMC -------------------------
(* Small instances of AdsStatePoller for TLC.                               *)
EXTENDS AdsStatePoller

RunOnly == {"Run"}
RunAndConfig == {"Run", "Config"}
=============================================================================
