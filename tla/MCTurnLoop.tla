----------------------------- MODULE MCTurnLoop -----------------------------
(***************************************************************************)
(* Runs of up to three turns, the first with up to two tool calls, under   *)
(* bounds of which any may trip first.                                     *)
(***************************************************************************)
EXTENDS TurnLoop

MCLimits == {[turns |-> 3, tokens |-> 3, seconds |-> 1],
             [turns |-> 2, tokens |-> 2, seconds |-> 1],
             [turns |-> 1, tokens |-> 3, seconds |-> 1],
             [turns |-> 0, tokens |-> 3, seconds |-> 1]}

MCCallBound == <<2, 1, 1>>

-----------------------------------------------------------------------------
(* The run's requests, as the LiteRT-LM backend passes them on.            *)

LiteRt == INSTANCE ModelBackend

\* Session::run puts the prompt before the history it accumulates.
Prompt == [role |-> "user", turn |-> 0, call |-> 0, flagged |-> FALSE, wrapped |-> FALSE]
Request == <<Prompt>> \o messages

(***************************************************************************)
(* split_messages (litertlm-backend/src/chat.rs) preloads every message    *)
(* but the most recent user message: "every assistant/user/tool message    *)
(* *except* the most recent user message".                                 *)
(***************************************************************************)
LiteRtSeesHistory ==
    LET last == LiteRt!LastUser(Request)
    IN  step = "infer" =>
          LiteRt!SplitMessages(Request).history =
            SubSeq(Request, 1, last - 1) \o SubSeq(Request, last + 1, Len(Request))
=============================================================================
