------------------------------ MODULE MCIntake ------------------------------
(***************************************************************************)
(* Small instances of Intake for TLC.                                      *)
(***************************************************************************)
EXTENDS Intake, TLC

CONSTANTS g1, g2

Malformed == [parses |-> FALSE, good |-> 0, bad |-> 0]
Bad == [parses |-> TRUE, good |-> 0, bad |-> 1]
Mixed == [parses |-> TRUE, good |-> 2, bad |-> 1]

Bodies == {Malformed, Bad, Mixed}

GatewaySymmetry == Permutations({g1, g2})
=============================================================================
