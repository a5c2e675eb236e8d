---------------------------- MODULE MCPolicyGate ----------------------------
(***************************************************************************)
(* Small instances of PolicyGate: two ids, each of which may be a user or  *)
(* a group, an environment that allows one of them, and bodies of          *)
(* PUT /policy with all, some and none of the lists.                       *)
(***************************************************************************)
EXTENDS PolicyGate

CONSTANTS a, b, star, r1, r2

MCId == {a, b}
MCOneRequest == {r1}
MCRequests == {r1, r2}

MCEnvPolicy ==
  [allowedSenders |-> {a}, allowedThreads |-> {a},
   deniedSenders |-> {}, deniedThreads |-> {}]

MCPuts ==
  {[allowedSenders |-> {a, b}, allowedThreads |-> {star},
    deniedSenders |-> {b}, deniedThreads |-> {}],
   [allowedThreads |-> {b}],
   [deniedSenders |-> {star}],
   [allowedSenders |-> {star}, deniedThreads |-> {a}]}
=============================================================================
