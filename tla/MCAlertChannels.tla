---------------------------- MODULE MCAlertChannels ----------------------------
(* Instances of AlertChannels for TLC.                                     *)
EXTENDS AlertChannels, TLC

CONSTANTS w1, c1, c2, s1, s2

Symmetries == Permutations({s1, s2}) \cup Permutations({c1, c2})
================================================================================
