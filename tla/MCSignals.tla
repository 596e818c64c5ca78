----------------------------- MODULE MCSignals ------------------------------
(* Instances of Signals for TLC.                                            *)
EXTENDS Signals

AllModes == {"KILL", "SIGQUEUE", "SIGRT"}
BothBuilds == {"default", "CONFIRM"}
BothStarts == {"early", "ready"}
=============================================================================
