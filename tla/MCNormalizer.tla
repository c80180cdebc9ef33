---------------------------- MODULE MCNormalizer ----------------------------
(***************************************************************************)
(* Small instances of Normalizer for TLC.                                  *)
(***************************************************************************)
EXTENDS Normalizer, TLC

CONSTANTS w1, w2, p1, p2

OneSpan == [rows |-> 1, rejects |-> 0]
Undecodable == [rows |-> 0, rejects |-> 1]
HalfBad == [rows |-> 1, rejects |-> 1]

Spans == {OneSpan}
Mixed == {Undecodable, HalfBad}

TopicOnly == {"topic"}

WorkerSymmetry == Permutations({w1, w2})
=============================================================================
