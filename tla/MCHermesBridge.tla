--------------------------- MODULE MCHermesBridge ---------------------------
(***************************************************************************)
(* Small instances of HermesBridge: two messages, one of them not allowed, *)
(* room for one id, and one more post, so that a message can come back     *)
(* while it is remembered and after the other has pushed it out.           *)
(***************************************************************************)
EXTENDS HermesBridge

CONSTANTS m1, m2

MCMessage == {m1, m2}
MCRefused == {m2}
=============================================================================
