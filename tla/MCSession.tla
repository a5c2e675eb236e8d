------------------------------ MODULE MCSession ------------------------------
(***************************************************************************)
(* Small instances of Session: the listener and one other caller of        *)
(* getApi, and so many attempts that a logout can fall between two.        *)
(***************************************************************************)
EXTENDS Session

CONSTANTS s1, s2

MCOneSender == {s1}
MCSenders == {s1, s2}
=============================================================================
