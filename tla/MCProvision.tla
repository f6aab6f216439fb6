---------------------------- MODULE MCProvision ----------------------------
(***************************************************************************)
(* Two pulls against faults, an edit and a boot; two concurrent set-ups of *)
(* the CA beside a boot; the orders that need all of it at once are many   *)
(* and add nothing, since the CA's files and the cache's are disjoint.     *)
(***************************************************************************)
EXTENDS Boot

MCBudgets == {[pulls |-> 3, faults |-> 2, edits |-> 0, inits |-> 0],
              [pulls |-> 2, faults |-> 1, edits |-> 1, inits |-> 0],
              [pulls |-> 1, faults |-> 0, edits |-> 1, inits |-> 1]}
=============================================================================
