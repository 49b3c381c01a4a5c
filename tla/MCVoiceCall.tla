---------------------------- MODULE MCVoiceCall ------------------------------
(* An instance of VoiceCall for TLC: two turns and the three parties that   *)
(* end a call; one job, its bound closer and a reaper.                      *)
EXTENDS VoiceCall
=============================================================================
