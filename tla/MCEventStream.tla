---------------------------- MODULE MCEventStream ----------------------------
(***************************************************************************)
(* Small instances of EventStream.  A ring buffer of two records and three *)
(* or four messages let a client's last record be overtaken while it is    *)
(* away.                                                                   *)
(***************************************************************************)
EXTENDS EventStream

CONSTANTS c1, c2

MCOneClient == {c1}
MCClients == {c1, c2}
=============================================================================
