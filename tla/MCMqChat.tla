------------------------------ MODULE MCMqChat ------------------------------
(* Instances of MqChat for TLC.                                             *)
EXTENDS MqChat, TLC

CONSTANTS c1, c2

TwoClients == {c1, c2}

ClientSymmetry == Permutations(Clients)
=============================================================================
