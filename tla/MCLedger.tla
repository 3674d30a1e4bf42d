------------------------------ MODULE MCLedger ------------------------------
(* Instances of WatcherLedger for TLC.                                     *)
EXTENDS WatcherLedger, MCWatcher
=============================================================================
