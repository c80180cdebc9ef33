----------------------------- MODULE MCArchiver -----------------------------
(***************************************************************************)
(* Small instances of Archiver for TLC.                                    *)
(***************************************************************************)
EXTENDS Archiver

AB == {"a", "b"}

(* Of one tenant, of both, of none.                                        *)
MixedPayloads == {{"a"}, {"a", "b"}, {}}
=============================================================================
