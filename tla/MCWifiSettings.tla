---------------------------- MODULE MCWifiSettings ----------------------------
(* An instance of WifiSettings: one network, every window two rounds long.   *)
EXTENDS WifiSettings

mcLoopMs == {1}
mcLags == {0, 1}
=============================================================================
