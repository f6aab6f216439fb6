------------------------------ MODULE TurnLoop ------------------------------
(***************************************************************************)
(* Session::run (crates/inference-engine/src/turn.rs): the loop that calls *)
(* the model, dispatches its tool calls, classifies their results and      *)
(* feeds them back, under the three bounds of ADR-025.  A mediated call is *)
(* a whole session of steps in module Mediator; here it is what the loop   *)
(* sees of it: entries on the ledger, and a result or an error.            *)
(***************************************************************************)
EXTENDS Naturals, Sequences, FiniteSets

CONSTANTS
    Limits,      \* the TurnLimits a run may have: [turns, tokens, seconds]
    Usages,      \* what a backend reports per turn; no report counts as 0
    U64Max,      \* the largest value of the token counter
    CallBound,   \* bound on the tool calls of a turn, per turn
    MaxElapsed   \* bound on the clock

VARIABLES
    limits,      \* the run's TurnLimits
    v2,          \* whether the ledger's schema is v2
    turn,        \* turn_index
    step,        \* where the loop is
    end,         \* "none" while it runs; "done", the bound that tripped, or "error"
    elapsed,     \* seconds since run was entered
    tokens,      \* tokens_consumed
    svid,        \* the turn current_turn_svid was minted for, 0 for none
    response,    \* the model's last answer
    outcomes,    \* the results of this turn's calls: flagged or not
    marked,      \* the last outcome whose violation is on the ledger
    messages,    \* the history the model sees, after the user's prompt
    ledger,      \* the entries of the run
    spent        \* ghost: all the tokens the backend reported

vars == <<limits, v2, turn, step, end, elapsed, tokens, svid, response, outcomes,
          marked, messages, ledger, spent>>

ASSUME LimitsAssumption ==
    Limits \subseteq [turns : Nat, tokens : 0..U64Max, seconds : Nat]
ASSUME CallBoundAssumption ==
    \A l \in Limits : \A t \in 1..l.turns : t \in DOMAIN CallBound /\ CallBound[t] \in Nat
ASSUME UsagesAssumption == U64Max \in Nat /\ Usages \subseteq 0..U64Max

Log(type, call) == ledger' = Append(ledger, [type |-> type, turn |-> turn, call |-> call])

\* The entries only a v2 ledger gets.
LogV2(type, call) == IF v2 THEN Log(type, call) ELSE UNCHANGED ledger

\* What one step of the loop leaves alone, besides what it names itself.
Fixed == UNCHANGED <<limits, v2, elapsed>>

Init ==
    /\ limits \in Limits /\ v2 \in BOOLEAN
    /\ turn = 1 /\ step = "head" /\ end = "none"
    /\ elapsed = 0 /\ tokens = 0 /\ svid = 0 /\ spent = 0
    /\ response = [calls |-> 0, text |-> FALSE, used |-> 0]
    /\ outcomes = <<>> /\ marked = 0 /\ messages = <<>> /\ ledger = <<>>

-----------------------------------------------------------------------------
(* The head of the loop: the bounds, in the order the code tests them.     *)

Bound ==
    IF turn > limits.turns THEN "turns"
    ELSE IF elapsed >= limits.seconds THEN "wallclock"
    ELSE IF tokens >= limits.tokens THEN "tokens" ELSE "none"

\* emit_cap_and_build_err.  A loop that ran out reports max_turns as its turn.
Cap ==
    /\ step = "head" /\ Bound # "none"
    /\ ledger' = Append(ledger, [type |-> "cap", call |-> 0,
                                 turn |-> IF Bound = "turns" THEN limits.turns ELSE turn])
    /\ end' = Bound /\ step' = "stop"
    /\ Fixed
    /\ UNCHANGED <<turn, tokens, svid, response, outcomes, marked, messages, spent>>

Enter ==
    /\ step = "head" /\ Bound = "none"
    /\ step' = IF v2 THEN "svid" ELSE "infer"
    /\ Fixed
    /\ UNCHANGED <<turn, end, tokens, svid, response, outcomes, marked, messages,
                   ledger, spent>>

\* issue_turn_svid: minted before the turn_start that records its thumbprint.
IssueSvid ==
    /\ step = "svid"
    /\ svid' = turn /\ step' = "start"
    /\ Fixed
    /\ UNCHANGED <<turn, end, tokens, response, outcomes, marked, messages, ledger,
                   spent>>

TurnStart ==
    /\ step = "start"
    /\ Log("turn_start", 0) /\ step' = "infer"
    /\ Fixed
    /\ UNCHANGED <<turn, end, tokens, svid, response, outcomes, marked, messages,
                   spent>>

-----------------------------------------------------------------------------
(* run_one_turn: the model answers, its reasoning is recorded, and its     *)
(* calls are dispatched one after the other.                               *)

Infer ==
    /\ step = "infer"
    /\ \E calls \in 0..CallBound[turn], text \in BOOLEAN, used \in Usages :
          /\ response' = [calls |-> calls, text |-> text, used |-> used]
          /\ spent' = spent + used
    /\ Log("reasoning_step", 0)
    /\ outcomes' = <<>> /\ marked' = 0 /\ step' = "call"
    /\ Fixed
    /\ UNCHANGED <<turn, end, tokens, svid, messages>>

Pending == Len(outcomes) < response.calls

ToolCall ==
    /\ step = "call" /\ Pending
    /\ LogV2("tool_call", Len(outcomes) + 1) /\ step' = "dispatch"
    /\ Fixed
    /\ UNCHANGED <<turn, end, tokens, svid, response, outcomes, marked, messages,
                   spent>>

(***************************************************************************)
(* dispatch_tool_call: a success, a denial, a required approval and an     *)
(* unroutable call are all results; what tells them apart for the loop is  *)
(* what the classifier makes of them.  The mediator may or may not append. *)
(***************************************************************************)
Dispatch ==
    /\ step = "dispatch"
    /\ \E flagged \in BOOLEAN : outcomes' = Append(outcomes, flagged)
    /\ Log("mediated", Len(outcomes) + 1) \/ UNCHANGED ledger
    /\ step' = "result"
    /\ Fixed
    /\ UNCHANGED <<turn, end, tokens, svid, response, marked, messages, spent>>

ToolResult ==
    /\ step = "result"
    /\ LogV2("tool_result", Len(outcomes)) /\ step' = "call"
    /\ Fixed
    /\ UNCHANGED <<turn, end, tokens, svid, response, outcomes, marked, messages,
                   spent>>

-----------------------------------------------------------------------------
(* The results are classified, remembered, and the turn is closed.         *)

Unmarked == {i \in DOMAIN outcomes : outcomes[i] /\ i > marked}

\* write_adversarial_violation for the next flagged result.
Flag ==
    /\ step = "call" /\ ~Pending
    /\ \E i \in Unmarked :
          /\ \A j \in Unmarked : i <= j
          /\ Log("adversarial", i) /\ marked' = i
    /\ Fixed
    /\ UNCHANGED <<turn, step, end, tokens, svid, response, outcomes, messages, spent>>

\* Faulty variant: the addition wraps around.
AddTokensWraps(a, b) == (a + b) % (U64Max + 1)

\* u64::saturating_add.
AddTokens(a, b) == IF a + b > U64Max THEN U64Max ELSE a + b

\* Faulty variant: only the first flagged result of a turn is wrapped.
ToolMessageFirstOnly(i) ==
    [role |-> "tool", turn |-> turn, call |-> i, flagged |-> outcomes[i],
     wrapped |-> outcomes[i] /\ \A j \in 1..(i - 1) : ~outcomes[j]]

ToolMessage(i) ==
    [role |-> "tool", turn |-> turn, call |-> i, flagged |-> outcomes[i],
     wrapped |-> outcomes[i]]

AssistantMessages ==
    IF response.text
    THEN <<[role |-> "assistant", turn |-> turn, call |-> 0, flagged |-> FALSE,
            wrapped |-> FALSE]>>
    ELSE <<>>

\* The usage is added and the history grows; neither is seen before the next head.
Remember ==
    /\ step = "call" /\ ~Pending /\ Unmarked = {}
    /\ tokens' = AddTokens(tokens, response.used)
    /\ messages' = messages \o AssistantMessages
                     \o [i \in DOMAIN outcomes |-> ToolMessage(i)]
    /\ step' = "close"
    /\ Fixed
    /\ UNCHANGED <<turn, end, svid, response, outcomes, marked, ledger, spent>>

\* Faulty variant: the final turn returns before its turn_end is written.
CloseReturnsEarly ==
    /\ step = "close"
    /\ IF response.calls = 0
       THEN end' = "done" /\ step' = "stop" /\ UNCHANGED <<turn, svid, ledger>>
       ELSE end' = end /\ step' = "head" /\ turn' = turn + 1
            /\ LogV2("turn_end", 0) /\ svid' = 0
    /\ Fixed
    /\ UNCHANGED <<tokens, response, outcomes, marked, messages, spent>>

\* Faulty variant: a turn without calls is followed by another one.
CloseNeverDone ==
    /\ step = "close"
    /\ LogV2("turn_end", 0) /\ svid' = 0
    /\ end' = end /\ step' = "head" /\ turn' = turn + 1
    /\ Fixed
    /\ UNCHANGED <<tokens, response, outcomes, marked, messages, spent>>

Close ==
    /\ step = "close"
    /\ LogV2("turn_end", 0) /\ svid' = 0
    /\ IF response.calls = 0
       THEN end' = "done" /\ step' = "stop" /\ turn' = turn
       ELSE end' = end /\ step' = "head" /\ turn' = turn + 1
    /\ Fixed
    /\ UNCHANGED <<tokens, response, outcomes, marked, messages, spent>>

-----------------------------------------------------------------------------
(* Errors: an append, the minting of the SVID, the inference, or a mediated *)
(* call that must halt the run, which may have left its violation.  The     *)
(* turn stays open on the ledger and its SVID in the session.               *)

CanFail ==
    CASE step = "head" -> Bound # "none"
      [] step = "call" -> IF Pending THEN v2 ELSE Unmarked # {}
      [] step \in {"result", "close"} -> v2
      [] step \in {"svid", "start", "infer", "dispatch"} -> TRUE
      [] step = "stop" -> FALSE

Fail ==
    /\ CanFail
    /\ \/ step = "dispatch" /\ Log("mediated", Len(outcomes) + 1)
       \/ UNCHANGED ledger
    /\ end' = "error" /\ step' = "stop"
    /\ Fixed
    /\ UNCHANGED <<turn, tokens, svid, response, outcomes, marked, messages, spent>>

Tick ==
    /\ step # "stop" /\ elapsed < MaxElapsed
    /\ elapsed' = elapsed + 1
    /\ UNCHANGED <<limits, v2, turn, step, end, tokens, svid, response, outcomes,
                   marked, messages, ledger, spent>>

Stopped == step = "stop" /\ UNCHANGED vars

Loop == Cap \/ Enter \/ IssueSvid \/ TurnStart \/ Infer \/ ToolCall \/ Dispatch
            \/ ToolResult \/ Flag \/ Remember \/ Close

Next == Loop \/ Fail \/ Tick \/ Stopped

\* No step is fair: neither the backend nor a mediated call is given a deadline, and
\* the clock is looked at only at the head of the loop.
Spec == Init /\ [][Next]_vars

-----------------------------------------------------------------------------
(* What a run promises.                                                    *)

Messages == [role : {"assistant", "tool"}, turn : Nat, call : Nat,
             flagged : BOOLEAN, wrapped : BOOLEAN]
Entries == [type : {"turn_start", "reasoning_step", "tool_call", "mediated",
                    "tool_result", "adversarial", "turn_end", "cap"},
            turn : Nat, call : Nat]

\* The shape of the loop's state (turn.rs, Session::run).
TypeOK ==
    /\ limits \in Limits /\ v2 \in BOOLEAN
    /\ turn \in Nat \ {0} /\ turn <= limits.turns + 1
    /\ step \in {"head", "svid", "start", "infer", "call", "dispatch", "result",
                 "close", "stop"}
    /\ end \in {"none", "done", "turns", "tokens", "wallclock", "error"}
    /\ elapsed \in Nat /\ tokens \in 0..U64Max /\ svid \in 0..limits.turns
    /\ response \in [calls : Nat, text : BOOLEAN, used : 0..U64Max]
    /\ outcomes \in Seq(BOOLEAN) /\ marked \in 0..Len(outcomes)
    /\ messages \in Seq(Messages) /\ ledger \in Seq(Entries) /\ spent \in Nat

\* The turns a reader of the first i entries finds opened and not closed.
OpenTurns(i) ==
    {t \in 1..limits.turns :
        /\ \E j \in 1..i : ledger[j].type = "turn_start" /\ ledger[j].turn = t
        /\ ~\E j \in 1..i : ledger[j].type = "turn_end" /\ ledger[j].turn = t}

Outside == {"turn_start", "cap"}

\* The call a reader finds dispatched and not answered after i entries.
OpenCalls(i) ==
    {j \in 1..i : /\ ledger[j].type = "tool_call"
                  /\ ~\E k \in j..i : /\ ledger[k].type = "tool_result"
                                      /\ ledger[k].turn = ledger[j].turn
                                      /\ ledger[k].call = ledger[j].call}

(***************************************************************************)
(* A v2 ledger brackets: every entry of a turn lies between its turn_start *)
(* and turn_end, what the mediator writes lies between the tool_call and   *)
(* the tool_result of the call, a cap comes last and outside every turn,   *)
(* and only an error leaves a turn open (turn.rs, run and run_one_turn;    *)
(* the comment "the ledger always brackets the final turn", and the        *)
(* partial ledger of ADR-025).                                             *)
(***************************************************************************)
TurnsBracketed ==
    v2 =>
        /\ \A i \in DOMAIN ledger :
              /\ IF ledger[i].type \in Outside THEN OpenTurns(i - 1) = {}
                 ELSE OpenTurns(i - 1) = {ledger[i].turn}
              /\ ledger[i].type = "cap" => i = Len(ledger)
              /\ ledger[i].type = "mediated" =>
                    \E j \in OpenCalls(i - 1) : ledger[j].call = ledger[i].call
              /\ ledger[i].type \in {"tool_call", "adversarial", "turn_end"} =>
                    OpenCalls(i - 1) = {}
        /\ end \notin {"none", "error"} => OpenTurns(Len(ledger)) = {} /\ svid = 0

ToolMessages == {i \in DOMAIN messages : messages[i].role = "tool"}
ToolResults == {j \in DOMAIN ledger : ledger[j].type = "tool_result"}

\* The place of index i among the indices S.
Rank(S, i) == Cardinality({k \in S : k <= i})

\* The violation of a result is on the ledger.
Reported(t, c) ==
    \E j \in DOMAIN ledger :
        ledger[j].type = "adversarial" /\ ledger[j].turn = t /\ ledger[j].call = c

(***************************************************************************)
(* Before the model is asked again it has every result once, in the order  *)
(* of the ledger's tool_result entries: the n-th tool message is of the    *)
(* n-th entry.  One the classifier flagged is wrapped, and its violation   *)
(* is on the ledger already (the loop's classification before              *)
(* re-injection, ADR-028).                                                 *)
(***************************************************************************)
HistoryFaithful ==
    step = "infer" =>
        /\ v2 => /\ Cardinality(ToolMessages) = Cardinality(ToolResults)
                 /\ \A i \in ToolMessages, j \in ToolResults :
                       Rank(ToolMessages, i) = Rank(ToolResults, j) =>
                           /\ messages[i].turn = ledger[j].turn
                           /\ messages[i].call = ledger[j].call
        /\ \A i \in ToolMessages :
              /\ messages[i].flagged = messages[i].wrapped
              /\ messages[i].flagged <=> Reported(messages[i].turn, messages[i].call)

(***************************************************************************)
(* The model is not asked again once the backend has reported max_tokens,  *)
(* nor more than max_turns times, also at the end of the counter's range   *)
(* (the Triple-Bound Circuit Breaker of ADR-025).                          *)
(***************************************************************************)
Invocations == {i \in DOMAIN ledger : ledger[i].type = "reasoning_step"}

BudgetHolds ==
    /\ Cardinality(Invocations) <= limits.turns
    /\ step = "infer" => spent < limits.tokens /\ Cardinality(Invocations) < limits.turns

(***************************************************************************)
(* A run is capped only when the model still had work: each turn before    *)
(* the cap had calls, so that no finished answer is reported as a cap, and *)
(* a finished one ends the run even when it used up its budget.            *)
(***************************************************************************)
CapOnlyUnfinished ==
    /\ end \in {"turns", "tokens", "wallclock"} /\ Invocations # {} => response.calls > 0
    /\ end = "turns" => Cardinality(Invocations) = limits.turns
    /\ end = "tokens" => spent >= limits.tokens
=============================================================================
