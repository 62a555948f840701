------------------------------- MODULE MCWiFi -------------------------------
(* Two threads at a time and three timers.                                 *)
EXTENDS WiFi
=============================================================================
