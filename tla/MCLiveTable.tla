---------------------------- MODULE MCLiveTable ----------------------------
(* Instances of LiveTable for TLC.                                         *)
EXTENDS LiveTable

TwoIds   == 1..2
ThreeIds == 1..3
=============================================================================
