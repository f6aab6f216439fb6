---------------------------- MODULE MCUiSession ----------------------------
(***************************************************************************)
(* Two tabs and two forks.  Two prompts meet one fork, or one prompt meets *)
(* two forks, with one fault anywhere: a native call, the mediator, a      *)
(* panic, a failed boot, a client that goes away.                          *)
(***************************************************************************)
EXTENDS UiSession

MCBudgets == {[prompts |-> 2, forks |-> 0, faults |-> 1, ticks |-> 0],
              [prompts |-> 2, forks |-> 1, faults |-> 0, ticks |-> 0],
              [prompts |-> 1, forks |-> 1, faults |-> 2, ticks |-> 0],
              [prompts |-> 0, forks |-> 2, faults |-> 1, ticks |-> 1]}

\* One fork with nothing else going on.
MCForkBudgets == {[prompts |-> 0, forks |-> 1, faults |-> 0, ticks |-> 0]}

MCRaws == {<<>>, <<"text", "call">>, <<"call", "bad">>}
=============================================================================
