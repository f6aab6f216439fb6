---------------------------- MODULE TurnLoopProof ----------------------------
(***************************************************************************)
(* Theorems about Session::run, for every limit, backend usage and number  *)
(* of tool calls.                                                          *)
(***************************************************************************)
EXTENDS TurnLoop, FiniteSetTheorems, TLAPS

Before == {"head", "svid", "start", "infer"}
During == {"call", "dispatch", "result"}

Sat(n) == IF n > U64Max THEN U64Max ELSE n

(***************************************************************************)
(* BudgetHolds speaks of the moment the model is asked.  What carries it   *)
(* there: the counter is the saturated sum of what was reported, one turn  *)
(* late while a turn runs, the ledger has one reasoning step per turn, and *)
(* the tests of the head still hold when the model is asked.               *)
(***************************************************************************)
Counter ==
    /\ step \in Before \cup {"close"} => tokens = Sat(spent)
    /\ step \in During => /\ response.used <= spent
                          /\ tokens = Sat(spent - response.used)

Tested ==
    /\ step \in (Before \ {"head"}) \cup During \cup {"close"} => turn <= limits.turns
    /\ step \in Before \ {"head"} => tokens < limits.tokens

Counted ==
    /\ step \in Before => Cardinality(Invocations) = turn - 1
    /\ step \in During \cup {"close"} => Cardinality(Invocations) = turn
    /\ Cardinality(Invocations) <= limits.turns

LoopInv == TypeOK /\ Counter /\ Tested /\ Counted

-----------------------------------------------------------------------------
(* Appending to the ledger.                                                *)

LEMMA SequenceTypes ==
    ASSUME TypeOK
    PROVE  ledger \in Seq(Entries) /\ outcomes \in Seq(BOOLEAN) /\ messages \in Seq(Messages)
BY DEF TypeOK

LEMMA InvocationsFinite ==
    ASSUME TypeOK
    PROVE  IsFiniteSet(Invocations) /\ Cardinality(Invocations) \in Nat
<1>1. Invocations \subseteq 1..Len(ledger) /\ Len(ledger) \in Nat
  BY SequenceTypes DEF Invocations
<1>2. IsFiniteSet(1..Len(ledger))
  BY <1>1, FS_Interval
<1> QED
  BY <1>1, <1>2, FS_Subset, FS_CardinalityType

LEMMA LogType ==
    ASSUME TypeOK, NEW e \in Entries, ledger' = Append(ledger, e)
    PROVE  ledger' \in Seq(Entries)
BY SequenceTypes

LEMMA LogOther ==
    ASSUME TypeOK, NEW e \in Entries, e.type # "reasoning_step",
           ledger' = Append(ledger, e)
    PROVE  Invocations' = Invocations
<1>1. /\ ledger \in Seq(Entries) /\ Len(ledger') = Len(ledger) + 1
      /\ \A i \in 1..Len(ledger) : ledger'[i] = ledger[i]
      /\ ledger'[Len(ledger) + 1] = e
  BY SequenceTypes
<1> QED
  BY <1>1, LogType DEF Invocations

LEMMA LogInvocation ==
    ASSUME TypeOK, NEW e \in Entries, e.type = "reasoning_step",
           ledger' = Append(ledger, e)
    PROVE  Cardinality(Invocations') = Cardinality(Invocations) + 1
<1>1. /\ ledger \in Seq(Entries) /\ Len(ledger') = Len(ledger) + 1
      /\ \A i \in 1..Len(ledger) : ledger'[i] = ledger[i]
      /\ ledger'[Len(ledger) + 1] = e
  BY SequenceTypes
<1>2. Invocations' = Invocations \cup {Len(ledger) + 1}
  BY <1>1, LogType DEF Invocations
<1>3. Len(ledger) + 1 \notin Invocations
  BY <1>1 DEF Invocations
<1> QED
  BY <1>2, <1>3, InvocationsFinite, FS_AddElement

LEMMA EntryType ==
    ASSUME TypeOK, NEW call \in Nat,
           NEW type \in {"turn_start", "reasoning_step", "tool_call", "mediated",
                         "tool_result", "adversarial", "turn_end", "cap"}
    PROVE  [type |-> type, turn |-> turn, call |-> call] \in Entries
BY DEF TypeOK, Entries

\* What every step but Infer does to the ledger, for the invariant.
Quiet == ledger' \in Seq(Entries) /\ Invocations' = Invocations

LEMMA NoLogQuiet ==
    ASSUME TypeOK, UNCHANGED ledger
    PROVE  Quiet
BY SequenceTypes DEF Quiet, Invocations

LEMMA LogQuiet ==
    ASSUME TypeOK, NEW call \in Nat,
           NEW type \in {"turn_start", "tool_call", "mediated", "tool_result",
                         "adversarial", "turn_end"},
           LogV2(type, call) \/ Log(type, call) \/ UNCHANGED ledger
    PROVE  Quiet
<1>1. CASE UNCHANGED ledger
  BY <1>1, NoLogQuiet
<1>2. CASE Log(type, call)
  <2>1. [type |-> type, turn |-> turn, call |-> call] \in Entries
    BY EntryType
  <2> QED
    BY <1>2, <2>1, LogType, LogOther DEF Quiet, Log
<1> QED
  BY <1>1, <1>2 DEF LogV2

LEMMA CallType == TypeOK => Len(outcomes) \in Nat
BY SequenceTypes

LEMMA LimitType ==
    ASSUME TypeOK
    PROVE  /\ limits.turns \in Nat /\ limits.tokens \in 0..U64Max
           /\ limits.seconds \in Nat /\ U64Max \in Nat
BY LimitsAssumption, UsagesAssumption DEF TypeOK

-----------------------------------------------------------------------------
(* The invariant.                                                          *)

LEMMA StutterType == TypeOK /\ UNCHANGED vars => TypeOK'
BY DEF TypeOK, vars

LEMMA FailType == ASSUME TypeOK, Fail, Quiet PROVE TypeOK'
BY DEF Fail, Fixed, TypeOK, Quiet

LEMMA LoopInit == Init => LoopInv
<1> SUFFICES ASSUME Init PROVE LoopInv
  OBVIOUS
<1>1. TypeOK
  <2>0. outcomes = <<>> /\ messages = <<>> /\ ledger = <<>> /\ marked = 0
    BY Zenon DEF Init
  <2>1. /\ outcomes \in Seq(BOOLEAN) /\ messages \in Seq(Messages)
        /\ ledger \in Seq(Entries)
    BY <2>0
  <2>2. marked \in 0..Len(outcomes)
    BY <2>0
  <2>3. limits.turns \in Nat /\ U64Max \in Nat /\ limits \in Limits
    BY LimitsAssumption, UsagesAssumption DEF Init
  <2>4. response \in [calls : Nat, text : BOOLEAN, used : 0..U64Max]
    <3>1. response = [calls |-> 0, text |-> FALSE, used |-> 0]
      BY Zenon DEF Init
    <3> QED
      BY <2>3, <3>1
  <2>5. turn = 1 /\ elapsed = 0 /\ tokens = 0 /\ svid = 0 /\ spent = 0
    BY Zenon DEF Init
  <2>6. /\ turn \in Nat \ {0} /\ turn <= limits.turns + 1 /\ elapsed \in Nat
        /\ tokens \in 0..U64Max /\ svid \in 0..limits.turns /\ spent \in Nat
    <3>1. 1 <= limits.turns + 1 /\ 0 \in 0..U64Max /\ 0 \in 0..limits.turns
      BY <2>3
    <3> QED
      BY <2>5, <3>1
  <2>7. limits \in Limits /\ step = "head" /\ end = "none" /\ v2 \in BOOLEAN
    BY Zenon DEF Init
  <2> QED
    BY <2>1, <2>2, <2>4, <2>6, <2>7 DEF TypeOK
<1>2. Cardinality(Invocations) = 0
  <2>0. ledger = <<>>
    BY Zenon DEF Init
  <2>1. DOMAIN ledger = {}
    BY <2>0
  <2>2. Invocations = {}
    BY <2>1 DEF Invocations
  <2> QED
    BY <2>2, FS_EmptySet
<1>3. step = "head" /\ turn = 1 /\ tokens = 0 /\ spent = 0
  BY DEF Init
<1> QED
  BY <1>1, <1>2, <1>3, LimitType DEF LoopInv, Counter, Tested, Counted, Before, During, Sat

(***************************************************************************)
(* Only Infer counts an invocation, and only Remember moves the counter.   *)
(***************************************************************************)
LEMMA LoopNext == LoopInv /\ [Next]_vars => LoopInv'
<1> SUFFICES ASSUME LoopInv, [Next]_vars PROVE LoopInv'
  OBVIOUS
<1>a. TypeOK /\ Counter /\ Tested /\ Counted
  BY DEF LoopInv
<1>b. /\ limits.turns \in Nat /\ limits.tokens \in 0..U64Max /\ U64Max \in Nat
      /\ turn \in Nat \ {0} /\ tokens \in 0..U64Max /\ spent \in Nat
      /\ response.used \in 0..U64Max
  BY <1>a, LimitType DEF TypeOK
<1>c. Cardinality(Invocations) \in Nat
  BY <1>a, InvocationsFinite
<1>d. 0 \in Nat /\ Len(outcomes) \in Nat /\ Len(outcomes) + 1 \in Nat
  BY <1>a, CallType
<1>1. CASE Cap
  <2> DEFINE t == IF Bound = "turns" THEN limits.turns ELSE turn
             e == [type |-> "cap", call |-> 0, turn |-> t]
  <2>1. t \in Nat /\ ledger' = Append(ledger, e)
    BY <1>1, <1>b DEF Cap
  <2>2. e \in Entries /\ e.type # "reasoning_step"
    BY <2>1 DEF Entries
  <2>3. ledger' \in Seq(Entries) /\ Invocations' = Invocations
    BY <1>a, <2>1, <2>2, LogType, LogOther
  <2>4. end' \in {"turns", "wallclock", "tokens"}
    BY <1>1 DEF Cap, Bound
  <2>5. TypeOK'
    BY <1>1, <1>a, <2>3, <2>4 DEF Cap, Fixed, TypeOK
  <2> QED
    BY <1>1, <1>a, <2>3, <2>5 DEF Cap, Fixed, LoopInv, Counter, Tested, Counted, Before, During
<1>2. CASE Enter
  <2>1. turn <= limits.turns /\ tokens < limits.tokens
    BY <1>2, <1>b DEF Enter, Bound
  <2>2. Quiet
    BY <1>2, <1>a, NoLogQuiet DEF Enter
  <2>3. TypeOK'
    BY <1>2, <1>a, <2>2 DEF Enter, Fixed, TypeOK, Quiet
  <2> QED
    BY <1>2, <1>a, <2>1, <2>2, <2>3 DEF Enter, Quiet, Fixed, LoopInv, Counter, Tested, Counted, Before, During, Sat
<1>3. CASE IssueSvid
  <2>1. Quiet
    BY <1>3, <1>a, NoLogQuiet DEF IssueSvid
  <2>2. turn <= limits.turns
    BY <1>3, <1>a DEF IssueSvid, Tested, Before
  <2>3. svid' \in 0..limits'.turns
    BY <1>3, <1>b, <2>2 DEF IssueSvid, Fixed
  <2>4. TypeOK'
    BY <1>3, <1>a, <2>1, <2>3 DEF IssueSvid, Fixed, TypeOK, Quiet
  <2> QED
    BY <1>3, <1>a, <2>1, <2>4 DEF IssueSvid, Quiet, Fixed, LoopInv, Counter, Tested, Counted, Before, During, Sat
<1>4. CASE TurnStart
  <2>1. Quiet
    BY <1>4, <1>a, <1>d, LogQuiet DEF TurnStart
  <2>2. TypeOK'
    BY <1>4, <1>a, <2>1 DEF TurnStart, Fixed, TypeOK, Quiet
  <2> QED
    BY <1>4, <1>a, <2>1, <2>2
    DEF TurnStart, Quiet, Fixed, LoopInv, Counter, Tested, Counted, Before, During, Sat
<1>5. CASE Infer
  <2>1. PICK calls \in 0..CallBound[turn], text \in BOOLEAN, used \in Usages :
           /\ response' = [calls |-> calls, text |-> text, used |-> used]
           /\ spent' = spent + used
    BY <1>5 DEF Infer
  <2>2. step = "infer" /\ turn <= limits.turns
    BY <1>5, <1>a DEF Infer, Tested, Before
  <2>3. CallBound[turn] \in Nat /\ used \in 0..U64Max
    <3>1. limits \in Limits
      BY <1>a DEF TypeOK
    <3>2. turn \in 1..limits.turns
      BY <1>b, <2>2
    <3> QED
      BY <3>1, <3>2, CallBoundAssumption, UsagesAssumption
  <2>4. /\ ledger' \in Seq(Entries)
        /\ Cardinality(Invocations') = Cardinality(Invocations) + 1
    <3>1. [type |-> "reasoning_step", turn |-> turn, call |-> 0] \in Entries
      BY <1>a, EntryType
    <3> QED
      BY <1>5, <1>a, <3>1, LogType, LogInvocation DEF Infer, Log
  <2>5. TypeOK'
    <3>1. outcomes' \in Seq(BOOLEAN) /\ Len(outcomes') = 0 /\ marked' = 0
      BY <1>5 DEF Infer
    <3>2. response' \in [calls : Nat, text : BOOLEAN, used : 0..U64Max]
      BY <2>1, <2>3
    <3>3. spent' \in Nat
      BY <2>1, <2>3, <1>b
    <3>4. marked' \in 0..Len(outcomes')
      BY <3>1
    <3>5. /\ step' = "call"
          /\ UNCHANGED <<limits, v2, elapsed, turn, end, tokens, svid, messages>>
      BY <1>5 DEF Infer, Fixed
    <3> QED
      BY <1>a, <2>4, <3>1, <3>2, <3>3, <3>4, <3>5 DEF TypeOK
  <2>6. Counter'
    <3>1. response'.used = used /\ spent' - used = spent /\ used <= spent'
      BY <2>1, <2>3, <1>b
    <3>2. tokens = Sat(spent)
      BY <1>a, <2>2 DEF Counter, Before
    <3> QED
      BY <1>5, <3>1, <3>2 DEF Infer, Counter, Before, During, Sat
  <2>7. Tested' /\ Counted'
    <3>1. Cardinality(Invocations) = turn - 1
      BY <1>a, <2>2 DEF Counted, Before
    <3> QED
      BY <1>5, <1>b, <1>c, <2>2, <2>4, <3>1 DEF Infer, Fixed, Tested, Counted, Before, During
  <2> QED
    BY <2>5, <2>6, <2>7 DEF LoopInv
<1>6. CASE ToolCall
  <2>1. Quiet
    BY <1>6, <1>a, <1>d, LogQuiet DEF ToolCall
  <2>2. TypeOK'
    BY <1>6, <1>a, <2>1 DEF ToolCall, Fixed, TypeOK, Quiet
  <2> QED
    BY <1>6, <1>a, <2>1, <2>2
    DEF ToolCall, Quiet, Fixed, LoopInv, Counter, Tested, Counted, Before, During, Sat
<1>7. CASE Dispatch
  <2>1. Quiet
    BY <1>7, <1>a, <1>d, LogQuiet DEF Dispatch
  <2>2. TypeOK'
    <3>1. outcomes' \in Seq(BOOLEAN) /\ Len(outcomes') = Len(outcomes) + 1
      BY <1>7, <1>a, SequenceTypes DEF Dispatch
    <3>2. marked' \in 0..Len(outcomes')
      <4>1. marked \in 0..Len(outcomes)
        BY <1>a DEF TypeOK
      <4> QED
        BY <1>7, <1>d, <3>1, <4>1 DEF Dispatch
    <3> QED
      BY <1>7, <1>a, <2>1, <3>1, <3>2 DEF Dispatch, Fixed, TypeOK, Quiet
  <2> QED
    BY <1>7, <1>a, <2>1, <2>2
    DEF Dispatch, Quiet, Fixed, LoopInv, Counter, Tested, Counted, Before, During, Sat
<1>8. CASE ToolResult
  <2>1. Quiet
    BY <1>8, <1>a, <1>d, LogQuiet DEF ToolResult
  <2>2. TypeOK'
    BY <1>8, <1>a, <2>1 DEF ToolResult, Fixed, TypeOK, Quiet
  <2> QED
    BY <1>8, <1>a, <2>1, <2>2
    DEF ToolResult, Quiet, Fixed, LoopInv, Counter, Tested, Counted, Before, During, Sat
<1>9. CASE Flag
  <2>1. PICK i \in Unmarked : Log("adversarial", i) /\ marked' = i
    BY <1>9 DEF Flag
  <2>2. i \in 1..Len(outcomes)
    BY <1>a, SequenceTypes DEF Unmarked
  <2>3. Quiet
    BY <1>a, <1>d, <2>1, <2>2, LogQuiet
  <2>4. TypeOK'
    <3>1. marked' \in 0..Len(outcomes) /\ outcomes' = outcomes
      BY <1>9, <1>d, <2>1, <2>2 DEF Flag
    <3> QED
      BY <1>9, <1>a, <2>3, <3>1 DEF Flag, Fixed, TypeOK, Quiet
  <2> QED
    BY <1>9, <1>a, <2>3, <2>4
    DEF Flag, Quiet, Fixed, LoopInv, Counter, Tested, Counted, Before, During, Sat
<1>10. CASE Remember
  <2>1. tokens' = Sat(spent)
    <3>1. response.used <= spent /\ tokens = Sat(spent - response.used)
      BY <1>10, <1>a DEF Remember, Counter, During
    <3> QED
      BY <1>10, <1>b, <3>1 DEF Remember, AddTokens, Sat
  <2>2. messages' \in Seq(Messages)
    <3>1. AssistantMessages \in Seq(Messages)
      <4>1. [role |-> "assistant", turn |-> turn, call |-> 0, flagged |-> FALSE,
             wrapped |-> FALSE] \in Messages
        BY <1>b DEF Messages
      <4> QED
        BY <4>1 DEF AssistantMessages
    <3>2. [i \in DOMAIN outcomes |-> ToolMessage(i)] \in Seq(Messages)
      <4>1. outcomes \in Seq(BOOLEAN) /\ DOMAIN outcomes = 1..Len(outcomes)
        BY <1>a, SequenceTypes
      <4>2. \A i \in DOMAIN outcomes : ToolMessage(i) \in Messages
        BY <1>b, <4>1 DEF ToolMessage, Messages
      <4> QED
        BY <1>d, <4>1, <4>2
    <3> QED
      BY <1>10, <1>a, <3>1, <3>2, SequenceTypes DEF Remember
  <2>3. tokens' \in 0..U64Max
    BY <1>b, <2>1 DEF Sat
  <2>4. Quiet
    BY <1>10, <1>a, NoLogQuiet DEF Remember
  <2>5. TypeOK'
    BY <1>10, <1>a, <2>2, <2>3, <2>4 DEF Remember, Fixed, TypeOK, Quiet
  <2> QED
    BY <1>10, <1>a, <2>1, <2>4, <2>5
    DEF Remember, Quiet, Fixed, LoopInv, Counter, Tested, Counted, Before, During, Sat
<1>11. CASE Close
  <2>1. Quiet
    BY <1>11, <1>a, <1>d, LogQuiet DEF Close
  <2>2. turn <= limits.turns /\ Cardinality(Invocations) = turn /\ tokens = Sat(spent)
    BY <1>11, <1>a DEF Close, Tested, Counted, Counter, Before, During
  <2>3. TypeOK'
    <3>1. svid' \in 0..limits.turns
      BY <1>11, <1>b DEF Close
    <3>2. turn' \in Nat \ {0} /\ turn' <= limits.turns + 1
      BY <1>11, <1>b, <2>2 DEF Close
    <3>3. end' = end \/ end' = "done"
      BY <1>11 DEF Close
    <3>4. step' \in {"stop", "head"}
      BY <1>11 DEF Close
    <3>5. UNCHANGED <<limits, v2, elapsed, tokens, response, outcomes, marked, messages, spent>>
      BY <1>11 DEF Close, Fixed
    <3> QED
      BY <1>a, <2>1, <3>1, <3>2, <3>3, <3>4, <3>5 DEF TypeOK, Quiet
  <2> QED
    BY <1>11, <1>a, <1>b, <2>1, <2>2, <2>3
    DEF Close, Quiet, Fixed, LoopInv, Counter, Tested, Counted, Before, During, Sat
<1>12. CASE Fail
  <2>1. Quiet
    BY <1>12, <1>a, <1>d, LogQuiet DEF Fail
  <2>2. TypeOK'
    BY <1>12, <1>a, <2>1, FailType
  <2> QED
    BY <1>12, <1>a, <2>1, <2>2
    DEF Fail, Quiet, Fixed, LoopInv, Counter, Tested, Counted, Before, During, Sat
<1>13. CASE Tick
  <2>1. Quiet
    BY <1>13, <1>a, NoLogQuiet DEF Tick
  <2>2. TypeOK'
    <3>1. elapsed \in Nat /\ elapsed' = elapsed + 1
      BY <1>13, <1>a DEF Tick, TypeOK
    <3>2. elapsed' \in Nat
      BY <3>1
    <3> QED
      BY <1>13, <1>a, <2>1, <3>2 DEF Tick, TypeOK, Quiet
  <2> QED
    BY <1>13, <1>a, <2>1, <2>2 DEF Tick, Quiet, LoopInv, Counter, Tested, Counted, Before, During, Sat
<1>14. CASE UNCHANGED vars
  <2>1. Quiet
    BY <1>14, <1>a, NoLogQuiet DEF vars
  <2>2. TypeOK'
    BY <1>14, <1>a, StutterType
  <2> QED
    BY <1>14, <1>a, <2>1, <2>2 DEF vars, Quiet, LoopInv, Counter, Tested, Counted, Before, During, Sat
<1> QED
  BY <1>1, <1>2, <1>3, <1>4, <1>5, <1>6, <1>7, <1>8, <1>9, <1>10, <1>11, <1>12, <1>13, <1>14
  DEF Next, Loop, Stopped

LEMMA LoopBudget == LoopInv => BudgetHolds
<1> SUFFICES ASSUME LoopInv PROVE BudgetHolds
  OBVIOUS
<1>1. TypeOK /\ Counter /\ Tested /\ Counted
  BY DEF LoopInv
<1>2. /\ limits.turns \in Nat /\ limits.tokens \in 0..U64Max /\ U64Max \in Nat
      /\ turn \in Nat \ {0} /\ spent \in Nat
  BY <1>1, LimitType DEF TypeOK
<1>3. ASSUME step = "infer"
      PROVE  spent < limits.tokens /\ Cardinality(Invocations) < limits.turns
  <2>1. /\ tokens = Sat(spent) /\ tokens < limits.tokens
        /\ turn <= limits.turns /\ Cardinality(Invocations) = turn - 1
    BY <1>1, <1>3 DEF Counter, Tested, Counted, Before
  <2> QED
    BY <1>2, <2>1 DEF Sat
<1> QED
  BY <1>1, <1>3 DEF BudgetHolds, Counted

-----------------------------------------------------------------------------
(* The theorems.                                                           *)

LEMMA LoopAlways == Spec => []LoopInv
BY LoopInit, LoopNext, PTL DEF Spec

\* The types of the loop's state (turn.rs, Session::run).
THEOREM LoopTypeCorrect == Spec => []TypeOK
<1>1. LoopInv => TypeOK
  BY DEF LoopInv
<1> QED
  BY <1>1, LoopAlways, PTL

(***************************************************************************)
(* The circuit breaker holds for every limit, usage and counter width: the *)
(* model is never asked beyond max_turns, nor after the backend reported   *)
(* max_tokens, although the counter saturates (turn.rs, Session::run).     *)
(***************************************************************************)
THEOREM BudgetCorrect == Spec => []BudgetHolds
BY LoopBudget, LoopAlways, PTL

-----------------------------------------------------------------------------
(***************************************************************************)
(* A cap is reported only for unfinished work: the head of a later turn is *)
(* reached because the turn before it had calls.                           *)
(***************************************************************************)
CapInv ==
    /\ step # "stop" => end = "none"
    /\ (step = "head" /\ turn > 1) => response.calls > 0
    /\ CapOnlyUnfinished

LEMMA UncappedStep ==
    ASSUME CapInv, end' \in {"none", "done", "error"}, step' # "stop" => end' = "none",
           (step' = "head" /\ turn' > 1) => response'.calls > 0
    PROVE  CapInv'
BY DEF CapInv, CapOnlyUnfinished

LEMMA CapInit == Init => CapInv
<1> SUFFICES ASSUME Init PROVE CapInv
  OBVIOUS
<1>1. step = "head" /\ end = "none" /\ turn = 1
  BY DEF Init
<1>2. ~(turn > 1)
  BY <1>1
<1> QED
  BY <1>1, <1>2 DEF CapInv, CapOnlyUnfinished

LEMMA CapNext == LoopInv /\ CapInv /\ [Next]_vars => CapInv'
<1> SUFFICES ASSUME LoopInv, CapInv, [Next]_vars PROVE CapInv'
  OBVIOUS
<1>a. TypeOK /\ Counter /\ Tested /\ Counted
  BY DEF LoopInv
<1>b. /\ limits.turns \in Nat /\ limits.tokens \in 0..U64Max /\ U64Max \in Nat
      /\ turn \in Nat \ {0} /\ turn <= limits.turns + 1 /\ spent \in Nat /\ response.calls \in Nat
  BY <1>a, LimitType DEF TypeOK
<1>1. CASE Cap
  <2>1. /\ step = "head" /\ step' = "stop" /\ end' = Bound /\ response' = response
        /\ spent' = spent /\ limits' = limits
    BY <1>1 DEF Cap, Fixed
  <2>2. Invocations' = Invocations
    <3>1. [type |-> "cap", call |-> 0, turn |-> IF Bound = "turns" THEN limits.turns ELSE turn]
            \in Entries
      BY <1>b DEF Entries
    <3> QED
      BY <1>1, <1>a, <3>1, LogOther DEF Cap
  <2>3. Cardinality(Invocations) = turn - 1 /\ tokens = Sat(spent)
    BY <1>a, <2>1 DEF Counted, Counter, Before
  <2>4. ASSUME Invocations # {} PROVE response.calls > 0
    <3>1. Cardinality(Invocations) # 0
      BY <1>a, <2>4, InvocationsFinite, FS_EmptySet
    <3>2. turn > 1
      BY <1>b, <2>3, <3>1
    <3> QED
      BY <2>1, <3>2 DEF CapInv
  <2>5. Bound = "turns" => Cardinality(Invocations) = limits.turns
    <3>1. Bound = "turns" => turn > limits.turns
      BY DEF Bound
    <3> QED
      BY <1>b, <2>3, <3>1
  <2>6. Bound = "tokens" => spent >= limits.tokens
    <3>1. Bound = "tokens" => tokens >= limits.tokens
      BY DEF Bound
    <3> QED
      BY <1>b, <2>3, <3>1 DEF Sat
  <2> QED
    BY <2>1, <2>2, <2>4, <2>5, <2>6 DEF CapInv, CapOnlyUnfinished
<1>2. CASE Enter \/ IssueSvid \/ TurnStart
  <2>1. end = "none" /\ end' = end /\ step' # "stop" /\ step' # "head"
    BY <1>2 DEF Enter, IssueSvid, TurnStart, CapInv
  <2> QED
    BY <2>1, UncappedStep
<1>3. CASE Infer \/ ToolCall \/ Dispatch \/ ToolResult \/ Flag \/ Remember
  <2>1. end = "none" /\ end' = end /\ step' # "stop" /\ step' # "head"
    BY <1>3 DEF Infer, ToolCall, Dispatch, ToolResult, Flag, Remember, CapInv
  <2> QED
    BY <2>1, UncappedStep
<1>4. CASE Close
  <2>1. end' \in {"none", "done", "error"} /\ response' = response
    BY <1>4 DEF Close, CapInv
  <2>2. step' # "stop" => end' = "none"
    BY <1>4 DEF Close, CapInv
  <2>3. step' = "head" => response'.calls > 0
    BY <1>4, <1>b, <2>1 DEF Close
  <2> QED
    BY <2>1, <2>2, <2>3, UncappedStep
<1>5. CASE Fail
  <2>1. end' = "error" /\ step' = "stop"
    BY <1>5 DEF Fail
  <2> QED
    BY <2>1, UncappedStep
<1>6. CASE Tick \/ UNCHANGED vars
  BY <1>6 DEF Tick, vars, CapInv, CapOnlyUnfinished, Invocations
<1> QED
  BY <1>1, <1>2, <1>3, <1>4, <1>5, <1>6 DEF Next, Loop, Stopped

(***************************************************************************)
(* Whatever the limits and the backend's reports: a run is capped only     *)
(* while the model still had calls to make, for turns only after max_turns *)
(* answers and for tokens only once the budget is spent (turn.rs).         *)
(***************************************************************************)
THEOREM CapCorrect == Spec => []CapOnlyUnfinished
<1>1. CapInv => CapOnlyUnfinished
  BY DEF CapInv
<1> QED
  BY CapInit, CapNext, LoopAlways, <1>1, PTL DEF Spec

-----------------------------------------------------------------------------
(***************************************************************************)
(* The brackets.  A reader of the ledger finds exactly the turn and the    *)
(* call open that the loop is in, because no entry is of a later turn and  *)
(* no turn is closed twice.                                                *)
(***************************************************************************)
Opening == {"head", "svid", "start"}
Inside == {"infer", "call", "dispatch", "result", "close"}

InOrder ==
    /\ step \in Opening => \A j \in DOMAIN ledger : ledger[j].turn < turn
    /\ step \in Inside => \A j \in DOMAIN ledger :
          /\ ledger[j].turn <= turn
          /\ ledger[j].type = "turn_end" => ledger[j].turn < turn
    /\ step # "stop" => \A j \in DOMAIN ledger : ledger[j].type # "cap"

CallOpen(c) ==
    \E j \in DOMAIN ledger :
        OpenCalls(Len(ledger)) = {j} /\ ledger[j].turn = turn /\ ledger[j].call = c

OpenNow ==
    /\ step \in Opening => OpenTurns(Len(ledger)) = {}
    /\ step \in Inside => OpenTurns(Len(ledger)) = {turn}
    /\ step \in Opening \cup {"infer", "call", "close"} => OpenCalls(Len(ledger)) = {}
    /\ step = "dispatch" => CallOpen(Len(outcomes) + 1)
    /\ step = "result" => CallOpen(Len(outcomes))

BracketInv ==
    /\ step # "stop" => end = "none"
    /\ step = "head" => svid = 0
    /\ v2 => InOrder /\ OpenNow
    /\ TurnsBracketed

\* The part of TurnsBracketed that is about entry i.
EntryBracketed(i) ==
    /\ IF ledger[i].type \in Outside THEN OpenTurns(i - 1) = {}
       ELSE OpenTurns(i - 1) = {ledger[i].turn}
    /\ ledger[i].type = "mediated" => \E j \in OpenCalls(i - 1) : ledger[j].call = ledger[i].call
    /\ ledger[i].type \in {"tool_call", "adversarial", "turn_end"} => OpenCalls(i - 1) = {}

LEMMA Appended ==
    ASSUME TypeOK, NEW e \in Entries, ledger' = Append(ledger, e), NEW n, n = Len(ledger)
    PROVE  /\ n \in Nat /\ DOMAIN ledger = 1..n /\ DOMAIN ledger' = 1..(n + 1)
           /\ Len(ledger') = n + 1
           /\ \A i \in 1..n : ledger'[i] = ledger[i]
           /\ ledger'[n + 1] = e
BY SequenceTypes

\* What a reader of the old entries found, he still finds.
LEMMA PrefixKept ==
    ASSUME TypeOK, limits' = limits, NEW e \in Entries, ledger' = Append(ledger, e),
           NEW n, n = Len(ledger), NEW i \in 0..n
    PROVE  OpenTurns(i)' = OpenTurns(i) /\ OpenCalls(i)' = OpenCalls(i)
<1>1. n \in Nat /\ \A j \in 1..n : ledger'[j] = ledger[j]
  BY Appended
<1>2. \A j \in 1..i : ledger'[j] = ledger[j]
  BY <1>1
<1>3. OpenTurns(i)' = OpenTurns(i)
  BY <1>2 DEF OpenTurns
<1>4. \A j \in 1..i : \A k \in j..i : ledger'[k] = ledger[k]
  BY <1>1
<1> QED
  BY <1>2, <1>3, <1>4 DEF OpenCalls

\* What he finds with one entry more.
LEMMA NowOpenTurns ==
    ASSUME TypeOK, limits' = limits, NEW e \in Entries, ledger' = Append(ledger, e),
           NEW n, n = Len(ledger)
    PROVE  /\ e.type \notin {"turn_start", "turn_end"} =>
                 OpenTurns(n + 1)' = OpenTurns(n)
           /\ e.type = "turn_end" => OpenTurns(n + 1)' = OpenTurns(n) \ {e.turn}
           /\ (/\ e.type = "turn_start" /\ e.turn \in 1..limits.turns
               /\ \A j \in 1..n : ledger[j].turn # e.turn) =>
                 OpenTurns(n + 1)' = OpenTurns(n) \cup {e.turn}
<1>1. /\ n \in Nat /\ \A i \in 1..n : ledger'[i] = ledger[i]
      /\ ledger'[n + 1] = e
  BY Appended
<1>2. 1..(n + 1) = (1..n) \cup {n + 1}
  BY <1>1
<1>3. ASSUME NEW T, NEW t
      PROVE  (\E j \in 1..(n + 1) : ledger'[j].type = T /\ ledger'[j].turn = t)
               <=> \/ \E j \in 1..n : ledger[j].type = T /\ ledger[j].turn = t
                   \/ e.type = T /\ e.turn = t
  BY <1>1, <1>2
<1>4. OpenTurns(n + 1)' =
        {t \in 1..limits.turns :
           /\ \/ \E j \in 1..n : ledger[j].type = "turn_start" /\ ledger[j].turn = t
              \/ e.type = "turn_start" /\ e.turn = t
           /\ ~ \/ \E j \in 1..n : ledger[j].type = "turn_end" /\ ledger[j].turn = t
                \/ e.type = "turn_end" /\ e.turn = t}
  BY <1>3 DEF OpenTurns
<1>5. CASE e.type \notin {"turn_start", "turn_end"}
  BY <1>4, <1>5 DEF OpenTurns
<1>6. CASE e.type = "turn_end"
  BY <1>4, <1>6 DEF OpenTurns
<1>7. CASE e.type = "turn_start"
  BY <1>4, <1>7 DEF OpenTurns
<1> QED
  BY <1>5, <1>6, <1>7

LEMMA NowOpenCalls ==
    ASSUME TypeOK, NEW e \in Entries, ledger' = Append(ledger, e), NEW n, n = Len(ledger)
    PROVE  /\ e.type \notin {"tool_call", "tool_result"} => OpenCalls(n + 1)' = OpenCalls(n)
           /\ e.type = "tool_call" => OpenCalls(n + 1)' = OpenCalls(n) \cup {n + 1}
           /\ e.type = "tool_result" =>
                 OpenCalls(n + 1)' = {j \in OpenCalls(n) : ~(/\ ledger[j].turn = e.turn
                                                             /\ ledger[j].call = e.call)}
<1>1. /\ n \in Nat /\ \A i \in 1..n : ledger'[i] = ledger[i]
      /\ ledger'[n + 1] = e
  BY Appended
<1>2. 1..(n + 1) = (1..n) \cup {n + 1}
  BY <1>1
<1>3. ASSUME NEW j \in 1..n
      PROVE  (\E k \in j..(n + 1) : /\ ledger'[k].type = "tool_result"
                                    /\ ledger'[k].turn = ledger'[j].turn
                                    /\ ledger'[k].call = ledger'[j].call)
               <=> \/ \E k \in j..n : /\ ledger[k].type = "tool_result"
                                      /\ ledger[k].turn = ledger[j].turn
                                      /\ ledger[k].call = ledger[j].call
                   \/ e.type = "tool_result" /\ e.turn = ledger[j].turn /\ e.call = ledger[j].call
  <2>1. j..(n + 1) = (j..n) \cup {n + 1} /\ \A k \in j..n : ledger'[k] = ledger[k]
    BY <1>1
  <2> QED
    BY <1>1, <2>1
<1>4. \A k \in (n + 1)..(n + 1) : ledger'[k] = e
  BY <1>1
<1>5. OpenCalls(n + 1)' =
         {j \in 1..n : /\ ledger[j].type = "tool_call"
                       /\ ~ \/ \E k \in j..n : /\ ledger[k].type = "tool_result"
                                               /\ ledger[k].turn = ledger[j].turn
                                               /\ ledger[k].call = ledger[j].call
                            \/ /\ e.type = "tool_result" /\ e.turn = ledger[j].turn
                               /\ e.call = ledger[j].call}
         \cup {j \in {n + 1} : e.type = "tool_call"}
  BY <1>1, <1>2, <1>3, <1>4 DEF OpenCalls
<1>6. CASE e.type \notin {"tool_call", "tool_result"}
  BY <1>5, <1>6 DEF OpenCalls
<1>7. CASE e.type = "tool_call"
  BY <1>5, <1>7 DEF OpenCalls
<1>8. CASE e.type = "tool_result"
  BY <1>5, <1>8 DEF OpenCalls
<1> QED
  BY <1>6, <1>7, <1>8

\* Old entries stay bracketed, and the new one is if the loop was where it belongs.
LEMMA BracketsGrow ==
    ASSUME TypeOK, limits' = limits, v2' = v2, v2, TurnsBracketed,
           NEW e \in Entries, ledger' = Append(ledger, e), NEW n, n = Len(ledger),
           \A j \in DOMAIN ledger : ledger[j].type # "cap",
           IF e.type \in Outside THEN OpenTurns(n) = {} ELSE OpenTurns(n) = {e.turn},
           e.type = "mediated" => \E j \in OpenCalls(n) : ledger[j].call = e.call,
           e.type \in {"tool_call", "adversarial", "turn_end"} => OpenCalls(n) = {},
           end' \notin {"none", "error"} => OpenTurns(n + 1)' = {} /\ svid' = 0
    PROVE  TurnsBracketed'
<1>1. /\ n \in Nat /\ DOMAIN ledger = 1..n /\ DOMAIN ledger' = 1..(n + 1)
      /\ Len(ledger') = n + 1 /\ \A i \in 1..n : ledger'[i] = ledger[i]
      /\ ledger'[n + 1] = e
  BY Appended
<1>2. \A i \in 0..n : OpenTurns(i)' = OpenTurns(i) /\ OpenCalls(i)' = OpenCalls(i)
  BY PrefixKept
<1>3. ASSUME NEW i \in DOMAIN ledger' PROVE EntryBracketed(i)'
  <2>0. n \in Nat /\ i \in 1..(n + 1)
    BY <1>1
  <2>1. CASE i = n + 1
    <3>1. (n + 1) - 1 = n /\ n \in 0..n
      BY <2>0
    <3>2. OpenTurns(i - 1)' = OpenTurns(n) /\ OpenCalls(i - 1)' = OpenCalls(n) /\ ledger'[i] = e
      BY <1>1, <1>2, <2>1, <3>1
    <3>3. \A j \in OpenCalls(n) : j \in 1..n
      BY DEF OpenCalls
    <3>4. \A j \in OpenCalls(n) : ledger'[j] = ledger[j]
      BY <1>1, <3>3
    <3> QED
      BY <3>2, <3>4 DEF EntryBracketed
  <2>2. CASE i # n + 1
    <3>0. i \in 1..n /\ i - 1 \in 0..n
      BY <2>0, <2>2
    <3>1. i \in 1..n /\ i - 1 \in 0..n /\ ledger'[i] = ledger[i]
      BY <1>1, <3>0
    <3>2. EntryBracketed(i)
      BY <1>1, <3>1 DEF TurnsBracketed, EntryBracketed
    <3>3. \A j \in OpenCalls(i - 1) : j \in 1..n
      <4>1. \A j \in 1..(i - 1) : j \in 1..n
        BY <2>0, <3>0
      <4> QED
        BY <4>1 DEF OpenCalls
    <3>4. OpenTurns(i - 1)' = OpenTurns(i - 1) /\ OpenCalls(i - 1)' = OpenCalls(i - 1)
      BY <1>2, <3>1
    <3>5. \A j \in OpenCalls(i - 1) : ledger'[j] = ledger[j]
      BY <1>1, <3>3
    <3> QED
      BY <3>1, <3>2, <3>4, <3>5 DEF EntryBracketed
  <2> QED
    BY <2>1, <2>2
<1>4. \A i \in DOMAIN ledger' : ledger'[i].type = "cap" => i = Len(ledger')
  <2>1. \A i \in 1..(n + 1) : i \in 1..n \/ i = n + 1
    <3>1. n \in Nat
      BY <1>1
    <3> QED
      BY <3>1
  <2> QED
    BY <1>1, <2>1
<1>5. end' \notin {"none", "error"} => OpenTurns(Len(ledger))' = {} /\ svid' = 0
  BY <1>1
<1> QED
  BY <1>3, <1>4, <1>5 DEF TurnsBracketed, EntryBracketed

LEMMA BracketsKept ==
    ASSUME UNCHANGED <<limits, v2, ledger>>, TurnsBracketed, end' \in {"none", "error"}
    PROVE  /\ TurnsBracketed'
           /\ OpenTurns(Len(ledger))' = OpenTurns(Len(ledger))
           /\ OpenCalls(Len(ledger))' = OpenCalls(Len(ledger))
<1>1. \A i : OpenTurns(i)' = OpenTurns(i) /\ OpenCalls(i)' = OpenCalls(i)
  BY DEF OpenTurns, OpenCalls
<1> QED
  BY <1>1 DEF TurnsBracketed

\* A v1 ledger has no brackets.
LEMMA UnbracketedStep ==
    ASSUME ~v2, v2' = v2, step' # "stop" => end' = "none", step' = "head" => svid' = 0
    PROVE  BracketInv'
BY DEF BracketInv, TurnsBracketed

LEMMA BracketInit == Init => BracketInv
<1> SUFFICES ASSUME Init PROVE BracketInv
  OBVIOUS
<1>1. ledger = <<>> /\ step = "head" /\ end = "none" /\ svid = 0
  BY Zenon DEF Init
<1>2. DOMAIN ledger = {} /\ Len(ledger) = 0
  BY <1>1
<1>3. OpenTurns(Len(ledger)) = {} /\ OpenCalls(Len(ledger)) = {}
  BY <1>2 DEF OpenTurns, OpenCalls
<1>4. InOrder
  BY <1>2 DEF InOrder
<1>5. OpenNow
  BY <1>1, <1>3 DEF OpenNow, Opening, Inside
<1>6. TurnsBracketed
  BY <1>1, <1>2 DEF TurnsBracketed
<1> QED
  BY <1>1, <1>4, <1>5, <1>6 DEF BracketInv

\* An entry written inside a turn.
LEMMA InsideLog ==
    ASSUME TypeOK, BracketInv, v2, step \in Inside, step' \in Inside,
           UNCHANGED <<limits, v2, turn, end>>,
           NEW e \in Entries, ledger' = Append(ledger, e), e.turn = turn,
           e.type \notin {"turn_start", "turn_end", "cap"},
           e.type = "mediated" => \E j \in OpenCalls(Len(ledger)) : ledger[j].call = e.call,
           e.type \in {"tool_call", "adversarial"} => OpenCalls(Len(ledger)) = {}
    PROVE  TurnsBracketed' /\ InOrder' /\ OpenTurns(Len(ledger))' = {turn'}
<1> PICK n : n = Len(ledger)
  OBVIOUS
<1>1. /\ n \in Nat /\ DOMAIN ledger = 1..n /\ DOMAIN ledger' = 1..(n + 1)
      /\ Len(ledger') = n + 1 /\ \A i \in 1..n : ledger'[i] = ledger[i]
      /\ ledger'[n + 1] = e
  BY Appended
<1>2. step # "stop" /\ step' # "stop" /\ step \notin Opening /\ step' \notin Opening
  BY DEF Inside, Opening
<1>3. InOrder /\ OpenTurns(n) = {turn} /\ end = "none" /\ TurnsBracketed
  BY <1>2 DEF BracketInv, OpenNow
<1>4. OpenTurns(n + 1)' = {turn}
  BY <1>3, NowOpenTurns
<1>5. TurnsBracketed'
  <2>1. \A j \in DOMAIN ledger : ledger[j].type # "cap"
    BY <1>2, <1>3 DEF InOrder
  <2>2. e.type \notin Outside /\ end' = "none"
    BY <1>3 DEF Outside
  <2> QED
    BY <1>3, <2>1, <2>2, BracketsGrow
<1>6. InOrder'
  <2>0. turn \in Nat
    BY DEF TypeOK
  <2>1. \A j \in 1..(n + 1) : j \in 1..n \/ j = n + 1
    <3>1. n \in Nat
      BY <1>1
    <3> QED
      BY <3>1
  <2>2. ASSUME NEW j \in 1..(n + 1)
        PROVE  /\ ledger'[j].turn <= turn
               /\ ledger'[j].type = "turn_end" => ledger'[j].turn < turn
               /\ ledger'[j].type # "cap"
    <3>1. CASE j \in 1..n
      BY <1>1, <1>2, <1>3, <3>1 DEF InOrder
    <3>2. CASE j = n + 1
      <4>1. ledger'[j] = e
        BY <1>1, <3>2
      <4>2. turn <= turn
        BY <2>0
      <4> QED
        BY <4>1, <4>2
    <3> QED
      BY <2>1, <3>1, <3>2
  <2> QED
    BY <1>1, <1>2, <2>2 DEF InOrder
<1> QED
  BY <1>1, <1>4, <1>5, <1>6

LEMMA BracketNext == LoopInv /\ BracketInv /\ [Next]_vars => BracketInv'
<1> SUFFICES ASSUME LoopInv, BracketInv, [Next]_vars PROVE BracketInv'
  OBVIOUS
<1>a. TypeOK /\ Tested
  BY DEF LoopInv
<1>b. limits.turns \in Nat /\ turn \in Nat \ {0} /\ Len(outcomes) \in Nat
  BY <1>a, LimitType, CallType DEF TypeOK
<1>c. TurnsBracketed /\ (step # "stop" => end = "none") /\ (step = "head" => svid = 0)
  BY DEF BracketInv
<1>d. PICK n : n = Len(ledger)
  OBVIOUS
<1>e. ASSUME NEW call \in Nat, NEW type \in {"turn_start", "reasoning_step", "tool_call", "mediated",
                         "tool_result", "adversarial", "turn_end"}, Log(type, call)
      PROVE  \E e \in Entries : /\ ledger' = Append(ledger, e)
                                 /\ e.type = type /\ e.turn = turn /\ e.call = call
  <2>1. [type |-> type, turn |-> turn, call |-> call] \in Entries
    BY <1>a, EntryType
  <2> QED
    BY <1>e, <2>1 DEF Log
<1>1. CASE Cap
  <2>1. /\ step = "head" /\ step' = "stop" /\ end' = Bound /\ svid' = svid
        /\ limits' = limits /\ v2' = v2
    BY <1>1 DEF Cap, Fixed
  <2>2. CASE ~v2
    BY <2>1, <2>2, UnbracketedStep
  <2>3. CASE v2
    <3>1. PICK e : /\ ledger' = Append(ledger, e) /\ e.type = "cap" /\ e \in Entries
      <4>1. [type |-> "cap", call |-> 0, turn |-> IF Bound = "turns" THEN limits.turns ELSE turn]
              \in Entries
        BY <1>b DEF Entries
      <4> QED
        BY <1>1, <4>1 DEF Cap
    <3>2. /\ OpenTurns(n) = {} /\ \A j \in DOMAIN ledger : ledger[j].type # "cap"
      BY <1>d, <2>1, <2>3 DEF BracketInv, InOrder, OpenNow, Opening
    <3>3. OpenTurns(n + 1)' = {}
      BY <1>a, <1>d, <2>1, <3>1, <3>2, NowOpenTurns
    <3>4. TurnsBracketed'
      BY <1>a, <1>c, <1>d, <2>1, <2>3, <3>1, <3>2, <3>3, BracketsGrow DEF Outside
    <3> QED
      BY <2>1, <3>4 DEF BracketInv, InOrder, OpenNow, Opening, Inside
  <2> QED
    BY <2>2, <2>3
<1>2. CASE Enter \/ IssueSvid
  <2>1. /\ UNCHANGED <<limits, v2, ledger, end, turn>> /\ step' # "stop" /\ step' # "head"
        /\ step \in Opening
    BY <1>2 DEF Enter, IssueSvid, Fixed, Opening
  <2>2. end' = "none"
    BY <1>c, <2>1 DEF Opening
  <2>3. CASE ~v2
    BY <2>1, <2>2, <2>3, UnbracketedStep
  <2>4. CASE v2
    <3>1. step' \in Opening
      BY <2>1, <2>4, <1>2 DEF Enter, IssueSvid, Opening
    <3>2. /\ TurnsBracketed' /\ OpenTurns(Len(ledger))' = OpenTurns(Len(ledger))
          /\ OpenCalls(Len(ledger))' = OpenCalls(Len(ledger))
      BY <1>c, <2>1, <2>2, BracketsKept
    <3>3. InOrder'
      BY <2>1, <2>4, <3>1 DEF BracketInv, InOrder, Opening, Inside
    <3>4. OpenNow'
      BY <2>1, <2>4, <3>1, <3>2 DEF BracketInv, OpenNow, Opening, Inside
    <3> QED
      BY <2>1, <2>2, <3>2, <3>3, <3>4 DEF BracketInv
  <2> QED
    BY <2>3, <2>4
<1>3. CASE TurnStart
  <2>1. /\ UNCHANGED <<limits, v2, end, turn>> /\ step = "start" /\ step' = "infer"
        /\ Log("turn_start", 0)
    BY <1>3 DEF TurnStart, Fixed
  <2>2. end' = "none"
    BY <1>c, <2>1
  <2>3. CASE ~v2
    BY <2>1, <2>2, <2>3, UnbracketedStep
  <2>4. CASE v2
    <3>1. PICK e \in Entries : /\ ledger' = Append(ledger, e)
                               /\ e.type = "turn_start" /\ e.turn = turn
      BY <1>e, <2>1
    <3>2. /\ n \in Nat /\ DOMAIN ledger = 1..n /\ DOMAIN ledger' = 1..(n + 1)
          /\ Len(ledger') = n + 1 /\ \A i \in 1..n : ledger'[i] = ledger[i]
          /\ ledger'[n + 1] = e
      BY <1>a, <1>d, <3>1, Appended
    <3>3. /\ OpenTurns(n) = {} /\ OpenCalls(n) = {}
          /\ \A j \in DOMAIN ledger : ledger[j].type # "cap" /\ ledger[j].turn < turn
      BY <1>d, <2>1, <2>4 DEF BracketInv, InOrder, OpenNow, Opening
    <3>4. turn \in 1..limits.turns
      <4>1. turn <= limits.turns
        BY <1>a, <2>1 DEF Tested, Before
      <4> QED
        BY <1>b, <4>1
    <3>5. \A j \in 1..n : ledger[j].turn # turn
      <4>1. \A j \in 1..n : ledger[j].turn < turn
        BY <3>2, <3>3
      <4> QED
        BY <1>b, <4>1
    <3>6. OpenTurns(n + 1)' = {turn}
      BY <1>a, <1>d, <2>1, <3>1, <3>3, <3>4, <3>5, NowOpenTurns
    <3>7. OpenCalls(n + 1)' = {}
      BY <1>a, <1>d, <3>1, <3>3, NowOpenCalls
    <3>8. TurnsBracketed'
      BY <1>a, <1>c, <1>d, <2>1, <2>2, <2>4, <3>1, <3>3, BracketsGrow DEF Outside
    <3>9. InOrder'
      <4>1. \A j \in 1..(n + 1) : j \in 1..n \/ j = n + 1
        <5>1. n \in Nat
          BY <3>2
        <5> QED
          BY <5>1
      <4>2. turn <= turn
        BY <1>b
      <4>3. ASSUME NEW j \in 1..(n + 1)
            PROVE  /\ ledger'[j].turn <= turn
                   /\ ledger'[j].type = "turn_end" => ledger'[j].turn < turn
                   /\ ledger'[j].type # "cap"
        <5>1. CASE j \in 1..n
          <6>1. ledger'[j] = ledger[j] /\ ledger[j].turn < turn /\ ledger[j].type # "cap"
            BY <3>2, <3>3, <5>1
          <6>2. ledger[j].turn \in Nat
            <7>1. ledger[j] \in Entries
              BY <1>a, <3>2, <5>1, SequenceTypes
            <7> QED
              BY <7>1 DEF Entries
          <6>3. ledger[j].turn <= turn
            BY <1>b, <6>1, <6>2
          <6> QED
            BY <6>1, <6>3
        <5>2. CASE j = n + 1
          <6>1. ledger'[j] = e
            BY <3>2, <5>2
          <6> QED
            BY <3>1, <4>2, <6>1
        <5> QED
          BY <4>1, <5>1, <5>2
      <4> QED
        BY <2>1, <3>2, <4>3 DEF InOrder, Opening, Inside
    <3>10. OpenNow'
      BY <2>1, <3>2, <3>6, <3>7 DEF OpenNow, Opening, Inside
    <3> QED
      BY <2>1, <2>2, <3>8, <3>9, <3>10 DEF BracketInv
  <2> QED
    BY <2>3, <2>4
<1>4. CASE Infer
  <2>1. /\ UNCHANGED <<limits, v2, end, turn>> /\ step = "infer" /\ step' = "call"
        /\ Log("reasoning_step", 0)
    BY <1>4 DEF Infer, Fixed
  <2>2. end' = "none"
    BY <1>c, <2>1
  <2>3. CASE ~v2
    BY <2>1, <2>2, <2>3, UnbracketedStep
  <2>4. CASE v2
    <3>1. PICK e \in Entries : /\ ledger' = Append(ledger, e)
                               /\ e.type = "reasoning_step" /\ e.turn = turn
      BY <1>e, <2>1
    <3>2. TurnsBracketed' /\ InOrder' /\ OpenTurns(Len(ledger))' = {turn'}
      BY <1>a, <2>1, <2>4, <3>1, InsideLog DEF Inside
    <3>3. OpenCalls(n) = {} /\ Len(ledger') = n + 1
      BY <1>a, <1>d, <2>1, <2>4, <3>1, Appended DEF BracketInv, OpenNow
    <3>4. OpenCalls(n + 1)' = {}
      BY <1>a, <1>d, <3>1, <3>3, NowOpenCalls
    <3>5. OpenNow'
      BY <2>1, <3>2, <3>3, <3>4 DEF OpenNow, Opening, Inside
    <3> QED
      BY <2>1, <2>2, <3>2, <3>5 DEF BracketInv
  <2> QED
    BY <2>3, <2>4
<1>5. CASE ToolCall
  <2>1. /\ UNCHANGED <<limits, v2, end, turn, outcomes>> /\ step = "call" /\ step' = "dispatch"
        /\ LogV2("tool_call", Len(outcomes) + 1)
    BY <1>5 DEF ToolCall, Fixed
  <2>2. end' = "none"
    BY <1>c, <2>1
  <2>3. CASE ~v2
    BY <2>1, <2>2, <2>3, UnbracketedStep
  <2>4. CASE v2
    <3>0. Log("tool_call", Len(outcomes) + 1) /\ Len(outcomes) + 1 \in Nat
      BY <1>b, <2>1, <2>4 DEF LogV2
    <3>1. PICK e \in Entries : /\ ledger' = Append(ledger, e) /\ e.type = "tool_call"
                               /\ e.turn = turn /\ e.call = Len(outcomes) + 1
      BY <1>e, <3>0
    <3>2. OpenCalls(n) = {}
      BY <1>d, <2>1, <2>4 DEF BracketInv, OpenNow
    <3>3. TurnsBracketed' /\ InOrder' /\ OpenTurns(Len(ledger))' = {turn'}
      BY <1>a, <1>d, <2>1, <2>4, <3>1, <3>2, InsideLog DEF Inside
    <3>4. /\ n \in Nat /\ DOMAIN ledger' = 1..(n + 1) /\ Len(ledger') = n + 1
          /\ ledger'[n + 1] = e
      BY <1>a, <1>d, <3>1, Appended
    <3>5. OpenCalls(n + 1)' = {n + 1}
      BY <1>a, <1>d, <3>1, <3>2, NowOpenCalls
    <3>6. n + 1 \in DOMAIN ledger'
      BY <3>4
    <3>7. CallOpen(Len(outcomes) + 1)'
      BY <2>1, <3>1, <3>4, <3>5, <3>6 DEF CallOpen
    <3>8. OpenNow'
      BY <2>1, <3>3, <3>7 DEF OpenNow, Opening, Inside
    <3> QED
      BY <2>1, <2>2, <3>3, <3>8 DEF BracketInv
  <2> QED
    BY <2>3, <2>4
<1>6. CASE Dispatch
  <2>1. /\ UNCHANGED <<limits, v2, end, turn>> /\ step = "dispatch" /\ step' = "result"
        /\ Log("mediated", Len(outcomes) + 1) \/ UNCHANGED ledger
    BY <1>6 DEF Dispatch, Fixed
  <2>2. end' = "none"
    BY <1>c, <2>1
  <2>3. CASE ~v2
    BY <2>1, <2>2, <2>3, UnbracketedStep
  <2>4. CASE v2
    <3>1. Len(outcomes') = Len(outcomes) + 1
      BY <1>6, <1>a, SequenceTypes DEF Dispatch
    <3>2. PICK j \in DOMAIN ledger : /\ OpenCalls(n) = {j} /\ ledger[j].turn = turn
                                      /\ ledger[j].call = Len(outcomes) + 1
      BY <1>d, <2>1, <2>4 DEF BracketInv, OpenNow, CallOpen
    <3>3. CASE UNCHANGED ledger
      <4>1. /\ TurnsBracketed' /\ OpenTurns(Len(ledger))' = OpenTurns(Len(ledger))
            /\ OpenCalls(Len(ledger))' = OpenCalls(Len(ledger))
        BY <1>c, <2>1, <2>2, <3>3, BracketsKept
      <4>2. InOrder'
        BY <2>1, <2>4, <3>3 DEF BracketInv, InOrder, Opening, Inside
      <4>3. CallOpen(Len(outcomes))'
        BY <1>d, <2>1, <3>1, <3>2, <3>3, <4>1 DEF CallOpen
      <4>4. OpenNow'
        BY <2>1, <2>4, <4>1, <4>3 DEF BracketInv, OpenNow, Opening, Inside
      <4> QED
        BY <2>1, <2>2, <4>1, <4>2, <4>4 DEF BracketInv
    <3>4. CASE Log("mediated", Len(outcomes) + 1)
      <4>0. Len(outcomes) + 1 \in Nat
        BY <1>b
      <4>1. PICK e \in Entries : /\ ledger' = Append(ledger, e) /\ e.type = "mediated"
                                 /\ e.turn = turn /\ e.call = Len(outcomes) + 1
        BY <1>e, <3>4, <4>0
      <4>2. TurnsBracketed' /\ InOrder' /\ OpenTurns(Len(ledger))' = {turn'}
        BY <1>a, <1>d, <2>1, <2>4, <3>2, <4>1, InsideLog DEF Inside
      <4>3. /\ n \in Nat /\ DOMAIN ledger = 1..n /\ DOMAIN ledger' = 1..(n + 1)
            /\ Len(ledger') = n + 1 /\ \A i \in 1..n : ledger'[i] = ledger[i]
        BY <1>a, <1>d, <4>1, Appended
      <4>4. OpenCalls(n + 1)' = {j}
        BY <1>a, <1>d, <3>2, <4>1, NowOpenCalls
      <4>5. j \in 1..n /\ j \in 1..(n + 1)
        BY <3>2, <4>3
      <4>6. ledger'[j] = ledger[j]
        BY <4>3, <4>5
      <4>7. CallOpen(Len(outcomes))'
        BY <2>1, <3>1, <3>2, <4>3, <4>4, <4>5, <4>6 DEF CallOpen
      <4>8. OpenNow'
        BY <2>1, <4>2, <4>7 DEF OpenNow, Opening, Inside
      <4> QED
        BY <2>1, <2>2, <4>2, <4>8 DEF BracketInv
    <3> QED
      BY <2>1, <3>3, <3>4
  <2> QED
    BY <2>3, <2>4
<1>7. CASE ToolResult
  <2>1. /\ UNCHANGED <<limits, v2, end, turn>> /\ step = "result" /\ step' = "call"
        /\ LogV2("tool_result", Len(outcomes))
    BY <1>7 DEF ToolResult, Fixed
  <2>2. end' = "none"
    BY <1>c, <2>1
  <2>3. CASE ~v2
    BY <2>1, <2>2, <2>3, UnbracketedStep
  <2>4. CASE v2
    <3>0. Log("tool_result", Len(outcomes))
      BY <2>1, <2>4 DEF LogV2
    <3>1. PICK e \in Entries : /\ ledger' = Append(ledger, e) /\ e.type = "tool_result"
                               /\ e.turn = turn /\ e.call = Len(outcomes)
      BY <1>b, <1>e, <3>0
    <3>2. PICK j \in DOMAIN ledger : /\ OpenCalls(n) = {j} /\ ledger[j].turn = turn
                                      /\ ledger[j].call = Len(outcomes)
      BY <1>d, <2>1, <2>4 DEF BracketInv, OpenNow, CallOpen
    <3>3. TurnsBracketed' /\ InOrder' /\ OpenTurns(Len(ledger))' = {turn'}
      BY <1>a, <2>1, <2>4, <3>1, InsideLog DEF Inside
    <3>4. OpenCalls(n + 1)' = {} /\ Len(ledger') = n + 1
      BY <1>a, <1>d, <3>1, <3>2, NowOpenCalls, Appended
    <3>5. OpenNow'
      BY <2>1, <3>3, <3>4 DEF OpenNow, Opening, Inside
    <3> QED
      BY <2>1, <2>2, <3>3, <3>5 DEF BracketInv
  <2> QED
    BY <2>3, <2>4
<1>8. CASE Flag
  <2>1. PICK i \in Unmarked : Log("adversarial", i)
    BY <1>8 DEF Flag
  <2>2. /\ UNCHANGED <<limits, v2, end, turn, step>> /\ step = "call" /\ end' = "none"
    BY <1>8, <1>c DEF Flag, Fixed
  <2>3. CASE ~v2
    BY <2>2, <2>3, UnbracketedStep
  <2>4. CASE v2
    <3>0. i \in Nat
      BY <1>a, SequenceTypes DEF Unmarked
    <3>1. PICK e \in Entries : /\ ledger' = Append(ledger, e) /\ e.type = "adversarial"
                               /\ e.turn = turn
      BY <1>e, <2>1, <3>0
    <3>2. OpenCalls(n) = {}
      BY <1>d, <2>2, <2>4 DEF BracketInv, OpenNow
    <3>3. TurnsBracketed' /\ InOrder' /\ OpenTurns(Len(ledger))' = {turn'}
      BY <1>a, <1>d, <2>2, <2>4, <3>1, <3>2, InsideLog DEF Inside
    <3>4. OpenCalls(n + 1)' = {} /\ Len(ledger') = n + 1
      BY <1>a, <1>d, <3>1, <3>2, NowOpenCalls, Appended
    <3>5. OpenNow'
      BY <2>2, <3>3, <3>4 DEF OpenNow, Opening, Inside
    <3> QED
      BY <2>2, <3>3, <3>5 DEF BracketInv
  <2> QED
    BY <2>3, <2>4
<1>9. CASE Remember \/ Tick \/ UNCHANGED vars
  <2>1. /\ UNCHANGED <<limits, v2, end, turn, ledger, svid, outcomes>>
        /\ \/ step = "call" /\ step' = "close"
           \/ step' = step
    BY <1>9 DEF Remember, Tick, vars, Fixed
  <2>2. \A i : OpenTurns(i)' = OpenTurns(i) /\ OpenCalls(i)' = OpenCalls(i)
    BY <2>1 DEF OpenTurns, OpenCalls
  <2>3. TurnsBracketed'
    BY <1>c, <2>1, <2>2 DEF TurnsBracketed
  <2>4. v2' => InOrder'
    BY <2>1 DEF BracketInv, InOrder, Opening, Inside
  <2>5. v2' => OpenNow'
    BY <2>1, <2>2 DEF BracketInv, OpenNow, CallOpen, Opening, Inside
  <2>6. (step' # "stop" => end' = "none") /\ (step' = "head" => svid' = 0)
    BY <1>c, <2>1
  <2> QED
    BY <2>3, <2>4, <2>5, <2>6 DEF BracketInv
<1>10. CASE Close
  <2>1. /\ UNCHANGED <<limits, v2>> /\ step = "close" /\ LogV2("turn_end", 0) /\ svid' = 0
        /\ \/ end' = "done" /\ step' = "stop"
           \/ end' = "none" /\ step' = "head" /\ turn' = turn + 1
    BY <1>10, <1>c DEF Close, Fixed
  <2>2. CASE ~v2
    BY <2>1, <2>2, UnbracketedStep
  <2>3. CASE v2
    <3>0. Log("turn_end", 0)
      BY <2>1, <2>3 DEF LogV2
    <3>1. PICK e \in Entries : /\ ledger' = Append(ledger, e) /\ e.type = "turn_end"
                               /\ e.turn = turn
      BY <1>e, <3>0
    <3>2. /\ OpenTurns(n) = {turn} /\ OpenCalls(n) = {} /\ InOrder
      BY <1>d, <2>1, <2>3 DEF BracketInv, OpenNow, Inside
    <3>3. \A j \in DOMAIN ledger : ledger[j].type # "cap" /\ ledger[j].turn <= turn
      BY <2>1, <3>2 DEF InOrder, Inside
    <3>4. OpenTurns(n + 1)' = {} /\ OpenCalls(n + 1)' = {}
      BY <1>a, <1>d, <2>1, <3>1, <3>2, NowOpenTurns, NowOpenCalls
    <3>5. TurnsBracketed'
      BY <1>a, <1>c, <1>d, <2>1, <2>3, <3>1, <3>2, <3>3, <3>4, BracketsGrow DEF Outside
    <3>6. /\ n \in Nat /\ DOMAIN ledger = 1..n /\ DOMAIN ledger' = 1..(n + 1)
          /\ Len(ledger') = n + 1 /\ \A i \in 1..n : ledger'[i] = ledger[i]
          /\ ledger'[n + 1] = e
      BY <1>a, <1>d, <3>1, Appended
    <3>7. InOrder'
      <4>1. \A j \in 1..(n + 1) : j \in 1..n \/ j = n + 1
        <5>1. n \in Nat
          BY <3>6
        <5> QED
          BY <5>1
      <4>2. ASSUME NEW j \in 1..(n + 1)
            PROVE  ledger'[j].type # "cap" /\ ledger'[j].turn < turn + 1
        <5>1. CASE j \in 1..n
          <6>1. ledger'[j] = ledger[j] /\ ledger[j].turn <= turn /\ ledger[j].type # "cap"
            BY <3>6, <3>3, <5>1
          <6>2. ledger[j].turn \in Nat
            <7>1. ledger[j] \in Entries
              BY <1>a, <3>6, <5>1, SequenceTypes
            <7> QED
              BY <7>1 DEF Entries
          <6>3. ledger[j].turn < turn + 1
            BY <1>b, <6>1, <6>2
          <6> QED
            BY <6>1, <6>3
        <5>2. CASE j = n + 1
          <6>1. ledger'[j] = e
            BY <3>6, <5>2
          <6>2. turn < turn + 1
            BY <1>b
          <6> QED
            BY <3>1, <6>1, <6>2
        <5> QED
          BY <4>1, <5>1, <5>2
      <4> QED
        BY <2>1, <3>6, <4>2 DEF InOrder, Opening, Inside
    <3>8. OpenNow'
      BY <2>1, <3>4, <3>6 DEF OpenNow, Opening, Inside
    <3> QED
      BY <2>1, <3>5, <3>7, <3>8 DEF BracketInv
  <2> QED
    BY <2>2, <2>3
<1>11. CASE Fail
  <2>1. /\ UNCHANGED <<limits, v2, turn>> /\ end' = "error" /\ step' = "stop"
        /\ \/ step = "dispatch" /\ Log("mediated", Len(outcomes) + 1)
           \/ UNCHANGED ledger
    BY <1>11 DEF Fail, Fixed
  <2>2. CASE ~v2
    BY <2>1, <2>2, UnbracketedStep
  <2>3. CASE v2 /\ UNCHANGED ledger
    <3>1. TurnsBracketed'
      BY <1>c, <2>1, <2>3, BracketsKept
    <3> QED
      BY <2>1, <3>1 DEF BracketInv, InOrder, OpenNow, Opening, Inside
  <2>4. CASE v2 /\ step = "dispatch" /\ Log("mediated", Len(outcomes) + 1)
    <3>0. Len(outcomes) + 1 \in Nat
      BY <1>b
    <3>1. PICK e \in Entries : /\ ledger' = Append(ledger, e) /\ e.type = "mediated"
                               /\ e.turn = turn /\ e.call = Len(outcomes) + 1
      BY <1>e, <2>4, <3>0
    <3>2. PICK j \in DOMAIN ledger : /\ OpenCalls(n) = {j} /\ ledger[j].turn = turn
                                      /\ ledger[j].call = Len(outcomes) + 1
      BY <1>d, <2>4 DEF BracketInv, OpenNow, CallOpen
    <3>3. OpenTurns(n) = {turn} /\ \A k \in DOMAIN ledger : ledger[k].type # "cap"
      BY <1>d, <2>4 DEF BracketInv, OpenNow, InOrder, Inside
    <3>4. TurnsBracketed'
      BY <1>a, <1>c, <1>d, <2>1, <2>4, <3>1, <3>2, <3>3, BracketsGrow DEF Outside
    <3> QED
      BY <2>1, <3>4 DEF BracketInv, InOrder, OpenNow, Opening, Inside
  <2> QED
    BY <2>1, <2>2, <2>3, <2>4
<1> QED
  BY <1>1, <1>2, <1>3, <1>4, <1>5, <1>6, <1>7, <1>8, <1>9, <1>10, <1>11
  DEF Next, Loop, Stopped

(***************************************************************************)
(* For every limit, backend and tool call: a v2 ledger brackets its turns  *)
(* and its calls, a cap comes last and outside every turn, and only an     *)
(* error leaves a turn open or a per-turn SVID behind (turn.rs).           *)
(***************************************************************************)
THEOREM BracketsCorrect == Spec => []TurnsBracketed
<1>1. BracketInv => TurnsBracketed
  BY DEF BracketInv
<1> QED
  BY BracketInit, BracketNext, LoopAlways, <1>1, PTL DEF Spec

-----------------------------------------------------------------------------
(***************************************************************************)
(* The history.  It lags behind the ledger by the results of the running   *)
(* turn, and the violations of the running turn are the flagged outcomes   *)
(* up to marked.                                                           *)
(***************************************************************************)

\* How many of the turn's results are on a v2 ledger and not yet in the history.
Ahead ==
    IF step \in {"call", "dispatch"} THEN Len(outcomes)
    ELSE IF step = "result" THEN Len(outcomes) - 1 ELSE 0

Matched ==
    /\ Cardinality(ToolResults) = Cardinality(ToolMessages) + Ahead
    /\ \A i \in ToolMessages, j \in ToolResults :
          Rank(ToolMessages, i) = Rank(ToolResults, j) =>
              messages[i].turn = ledger[j].turn /\ messages[i].call = ledger[j].call
    /\ \A j \in ToolResults : Rank(ToolResults, j) > Cardinality(ToolMessages) =>
          /\ ledger[j].turn = turn
          /\ ledger[j].call = Rank(ToolResults, j) - Cardinality(ToolMessages)

Told ==
    \A i \in ToolMessages :
        /\ messages[i].flagged = messages[i].wrapped
        /\ messages[i].flagged <=> Reported(messages[i].turn, messages[i].call)
        /\ IF step = "close" THEN messages[i].turn <= turn ELSE messages[i].turn < turn

Noted ==
    /\ \A t, c \in Nat : Reported(t, c) =>
          IF step \in During \cup {"close"} THEN t <= turn ELSE t < turn
    /\ step \in During => \A c \in Nat :
          Reported(turn, c) <=> c \in DOMAIN outcomes /\ outcomes[c] /\ c <= marked

HistoryInv ==
    step # "stop" =>
        /\ step = "result" => Len(outcomes) > 0
        /\ v2 => Matched
        /\ Told
        /\ Noted

-----------------------------------------------------------------------------
(* Ranks.                                                                  *)

LEMMA RankBound ==
    ASSUME NEW n \in Nat, NEW S \in SUBSET (1..n), NEW i
    PROVE  /\ IsFiniteSet(S) /\ Cardinality(S) \in Nat
           /\ Rank(S, i) \in Nat /\ Rank(S, i) <= Cardinality(S)
<1>1. IsFiniteSet(1..n)
  BY FS_Interval
<1>2. IsFiniteSet(S) /\ Cardinality(S) \in Nat
  BY <1>1, FS_Subset, FS_CardinalityType
<1>3. {k \in S : k <= i} \subseteq S
  OBVIOUS
<1>4. /\ IsFiniteSet({k \in S : k <= i})
      /\ Cardinality({k \in S : k <= i}) <= Cardinality(S)
  BY <1>2, <1>3, FS_Subset
<1> QED
  BY <1>2, <1>4, FS_CardinalityType DEF Rank

\* The ranks in T, which has the indices b + 1 to b + k above those of S.
RanksAbove(S, m, T, b, k) ==
    /\ Cardinality(T) = Cardinality(S) + k
    /\ \A i \in 1..m : Rank(T, i) = Rank(S, i)
    /\ \A c \in 1..k : Rank(T, b + c) = Cardinality(S) + c

LEMMA RankBlock ==
    ASSUME NEW m \in Nat, NEW b \in Nat, NEW k \in Nat, m <= b, NEW S, S \subseteq 1..m,
           NEW T, T = S \cup ((b + 1)..(b + k))
    PROVE  RanksAbove(S, m, T, b, k)
<1>1. IsFiniteSet(S) /\ Cardinality(S) \in Nat
  <2>1. S \in SUBSET (1..m)
    OBVIOUS
  <2> QED
    BY <2>1, RankBound
<1>2. ASSUME NEW c \in 0..k
      PROVE  Cardinality(S \cup ((b + 1)..(b + c))) = Cardinality(S) + c
  <2>1. IsFiniteSet((b + 1)..(b + c)) /\ Cardinality((b + 1)..(b + c)) = c
    <3>1. b + 1 \in Int /\ b + c \in Int /\ c \in Nat
      OBVIOUS
    <3>2. /\ IsFiniteSet((b + 1)..(b + c))
          /\ Cardinality((b + 1)..(b + c)) = IF b + 1 > b + c THEN 0 ELSE (b + c) - (b + 1) + 1
      BY <3>1, FS_Interval
    <3> QED
      BY <3>1, <3>2
  <2>2. S \cap ((b + 1)..(b + c)) = {}
    <3>1. \A x \in S : x \in 1..m /\ x <= b
      BY <1>1
    <3> QED
      BY <3>1
  <2>3. Cardinality(S \cap ((b + 1)..(b + c))) = 0
    BY <2>2, FS_EmptySet
  <2>4. Cardinality(S \cup ((b + 1)..(b + c))) =
            Cardinality(S) + Cardinality((b + 1)..(b + c)) - Cardinality(S \cap ((b + 1)..(b + c)))
    BY <1>1, <2>1, FS_Union
  <2>5. c \in Nat
    OBVIOUS
  <2> QED
    BY <1>1, <2>1, <2>3, <2>4, <2>5
<1>3. Cardinality(T) = Cardinality(S) + k
  <2>1. k \in 0..k
    OBVIOUS
  <2> QED
    BY <1>2, <2>1
<1>4. ASSUME NEW i \in 1..m PROVE Rank(T, i) = Rank(S, i)
  <2>1. {x \in T : x <= i} = {x \in S : x <= i}
    OBVIOUS
  <2> QED
    BY <2>1 DEF Rank
<1>5. ASSUME NEW c \in 1..k PROVE Rank(T, b + c) = Cardinality(S) + c
  <2>1. {x \in T : x <= b + c} = S \cup ((b + 1)..(b + c))
    <3>1. \A x \in S : x \in 1..m /\ x <= b + c
      OBVIOUS
    <3>2. \A x \in (b + 1)..(b + c) : x \in (b + 1)..(b + k) /\ x <= b + c
      OBVIOUS
    <3>3. \A x \in (b + 1)..(b + k) : x <= b + c => x \in (b + 1)..(b + c)
      OBVIOUS
    <3> QED
      BY <3>1, <3>2, <3>3
  <2>2. c \in 0..k
    OBVIOUS
  <2> QED
    BY <1>2, <2>1, <2>2 DEF Rank
<1> QED
  BY <1>3, <1>4, <1>5 DEF RanksAbove

LEMMA RankAdd ==
    ASSUME NEW n \in Nat, NEW S \in SUBSET (1..n), NEW T, T = S \cup {n + 1}
    PROVE  /\ Cardinality(T) = Cardinality(S) + 1
           /\ \A i \in 1..n : Rank(T, i) = Rank(S, i)
           /\ Rank(T, n + 1) = Cardinality(S) + 1
<1>1. IsFiniteSet(S) /\ n + 1 \notin S
  BY RankBound
<1>2. Cardinality(T) = Cardinality(S) + 1
  BY <1>1, FS_AddElement
<1>3. \A i \in 1..n : {k \in T : k <= i} = {k \in S : k <= i}
  OBVIOUS
<1>4. \A k \in T : k <= n + 1
  OBVIOUS
<1>5. {k \in T : k <= n + 1} = T
  BY <1>4
<1> QED
  BY <1>2, <1>3, <1>5 DEF Rank

LEMMA Indices ==
    ASSUME TypeOK, NEW n, n = Len(ledger), NEW m, m = Len(messages)
    PROVE  /\ n \in Nat /\ DOMAIN ledger = 1..n /\ ToolResults \in SUBSET (1..n)
           /\ m \in Nat /\ DOMAIN messages = 1..m /\ ToolMessages \in SUBSET (1..m)
BY SequenceTypes DEF ToolResults, ToolMessages

-----------------------------------------------------------------------------
(* Steps that write nothing the history is about.                          *)

Writes(T) ==
    \/ UNCHANGED ledger
    \/ \E e \in Entries : e.type \in T /\ e.turn = turn /\ ledger' = Append(ledger, e)

LEMMA WritesLog ==
    ASSUME TypeOK, NEW call \in Nat, NEW T,
           NEW type \in {"turn_start", "reasoning_step", "tool_call", "mediated",
                         "tool_result", "adversarial", "turn_end"}, type \in T,
           LogV2(type, call) \/ Log(type, call) \/ UNCHANGED ledger
    PROVE  Writes(T)
<1>1. [type |-> type, turn |-> turn, call |-> call] \in Entries
  BY EntryType
<1> QED
  BY <1>1 DEF LogV2, Log, Writes

LEMMA ReportedKept ==
    ASSUME TypeOK, NEW T, "adversarial" \notin T, Writes(T)
    PROVE  \A t, c : Reported(t, c)' = Reported(t, c)
<1>1. CASE UNCHANGED ledger
  BY <1>1 DEF Reported
<1>2. CASE ~UNCHANGED ledger
  <2>1. PICK e \in Entries : e.type # "adversarial" /\ ledger' = Append(ledger, e)
    BY <1>2 DEF Writes
  <2> PICK n : n = Len(ledger)
    OBVIOUS
  <2>2. /\ n \in Nat /\ DOMAIN ledger = 1..n /\ DOMAIN ledger' = 1..(n + 1)
        /\ \A i \in 1..n : ledger'[i] = ledger[i]
        /\ ledger'[n + 1] = e
    BY <2>1, Appended
  <2>3. 1..(n + 1) = (1..n) \cup {n + 1}
    BY <2>2
  <2> QED
    BY <2>1, <2>2, <2>3 DEF Reported
<1> QED
  BY <1>1, <1>2

LEMMA MatchedKept ==
    ASSUME TypeOK, Matched, UNCHANGED <<turn, messages>>, Ahead' = Ahead,
           NEW T, "tool_result" \notin T, Writes(T)
    PROVE  Matched'
<1>1. ToolMessages' = ToolMessages
  BY DEF ToolMessages
<1>2. ToolResults' = ToolResults /\ \A j \in ToolResults : ledger'[j] = ledger[j]
  <2>1. CASE UNCHANGED ledger
    BY <2>1 DEF ToolResults
  <2>2. CASE ~UNCHANGED ledger
    <3>1. PICK e \in Entries : e.type # "tool_result" /\ ledger' = Append(ledger, e)
      BY <2>2 DEF Writes
    <3> PICK n : n = Len(ledger)
      OBVIOUS
    <3>2. /\ n \in Nat /\ DOMAIN ledger = 1..n /\ DOMAIN ledger' = 1..(n + 1)
          /\ \A i \in 1..n : ledger'[i] = ledger[i]
          /\ ledger'[n + 1] = e
      BY <3>1, Appended
    <3>3. 1..(n + 1) = (1..n) \cup {n + 1}
      BY <3>2
    <3> QED
      BY <3>1, <3>2, <3>3 DEF ToolResults
  <2> QED
    BY <2>1, <2>2
<1> QED
  BY <1>1, <1>2 DEF Matched, Rank

-----------------------------------------------------------------------------
LEMMA HistoryInit == Init => HistoryInv
<1> SUFFICES ASSUME Init PROVE HistoryInv
  OBVIOUS
<1>1. ledger = <<>> /\ messages = <<>> /\ step = "head"
  BY Zenon DEF Init
<1>2. DOMAIN ledger = {} /\ DOMAIN messages = {}
  BY <1>1
<1>3. ToolResults = {} /\ ToolMessages = {} /\ \A t, c : ~Reported(t, c)
  BY <1>2 DEF ToolResults, ToolMessages, Reported
<1>4. Cardinality(ToolResults) = 0 /\ Cardinality(ToolMessages) = 0 /\ Ahead = 0
  BY <1>1, <1>3, FS_EmptySet DEF Ahead
<1>5. Matched
  BY <1>3, <1>4 DEF Matched
<1>6. Told
  BY <1>3 DEF Told
<1>7. Noted
  BY <1>1, <1>3 DEF Noted, During
<1> QED
  BY <1>1, <1>5, <1>6, <1>7 DEF HistoryInv

\* A message is of an earlier turn than the one whose results are being flagged.
LEMMA MessageTurn ==
    ASSUME TypeOK, Told, NEW i \in ToolMessages
    PROVE  /\ messages[i].turn \in Nat /\ messages[i].call \in Nat
           /\ step # "close" => messages[i].turn < turn
<1>1. messages[i] \in Messages
  BY SequenceTypes DEF ToolMessages
<1> QED
  BY <1>1 DEF Messages, Told

\* Between two turns: steps that write none of what the history is about.
LEMMA QuietHistory ==
    ASSUME TypeOK, HistoryInv, step # "stop", UNCHANGED <<v2, turn, messages>>,
           Writes({"turn_start", "reasoning_step", "tool_call", "mediated"}),
           Ahead' = Ahead, step # "close", step' # "close"
    PROVE  /\ (v2' => Matched') /\ Told'
           /\ \A t, c : Reported(t, c)' = Reported(t, c)
<1>1. (v2 => Matched) /\ Told
  BY DEF HistoryInv
<1>2. v2' => Matched'
  BY <1>1, MatchedKept
<1>3. \A t, c : Reported(t, c)' = Reported(t, c)
  BY ReportedKept
<1>4. Told'
  BY <1>1, <1>3 DEF Told, ToolMessages
<1> QED
  BY <1>2, <1>3, <1>4

LEMMA HistoryInferStep ==
    ASSUME TypeOK, HistoryInv, Infer
    PROVE  HistoryInv'
<1>1. /\ step = "infer" /\ step' = "call" /\ UNCHANGED <<v2, turn, messages>>
      /\ outcomes' = <<>> /\ marked' = 0
      /\ Log("reasoning_step", 0)
  BY DEF Infer, Fixed
<1>2. Writes({"turn_start", "reasoning_step", "tool_call", "mediated"})
  BY <1>1, WritesLog
<1>3. Len(outcomes') = 0 /\ DOMAIN outcomes' = {}
  BY <1>1
<1>4. Ahead' = Ahead
  BY <1>1, <1>3 DEF Ahead
<1>5. /\ (v2' => Matched') /\ Told'
      /\ \A t, c : Reported(t, c)' = Reported(t, c)
  BY <1>1, <1>2, <1>4, QuietHistory
<1>6. turn \in Nat
  BY DEF TypeOK
<1>7. \A t, c \in Nat : Reported(t, c) => t < turn
  BY <1>1 DEF HistoryInv, Noted, During
<1>8. \A t, c \in Nat : Reported(t, c) => t <= turn
  BY <1>6, <1>7
<1>9. \A c \in Nat : ~Reported(turn, c)
  BY <1>6, <1>7
<1>10. Noted'
  BY <1>1, <1>3, <1>5, <1>8, <1>9 DEF Noted, During
<1> QED
  BY <1>1, <1>5, <1>10 DEF HistoryInv

LEMMA HistoryDispatchStep ==
    ASSUME TypeOK, HistoryInv, Dispatch
    PROVE  HistoryInv'
<1>1. /\ step = "dispatch" /\ step' = "result" /\ UNCHANGED <<v2, turn, messages, marked>>
      /\ Log("mediated", Len(outcomes) + 1) \/ UNCHANGED ledger
  BY DEF Dispatch, Fixed
<1>2. PICK f \in BOOLEAN : outcomes' = Append(outcomes, f)
  BY DEF Dispatch
<1>3. Len(outcomes) + 1 \in Nat /\ Len(outcomes) \in Nat
  BY CallType
<1>4. Writes({"turn_start", "reasoning_step", "tool_call", "mediated"})
  BY <1>1, <1>3, WritesLog
<1>5. /\ outcomes \in Seq(BOOLEAN) /\ Len(outcomes') = Len(outcomes) + 1
      /\ DOMAIN outcomes = 1..Len(outcomes) /\ DOMAIN outcomes' = 1..(Len(outcomes) + 1)
      /\ \A i \in 1..Len(outcomes) : outcomes'[i] = outcomes[i]
  BY <1>2, SequenceTypes
<1>6. Ahead' = Ahead /\ Len(outcomes') > 0
  BY <1>1, <1>3, <1>5 DEF Ahead
<1>7. /\ (v2' => Matched') /\ Told'
      /\ \A t, c : Reported(t, c)' = Reported(t, c)
  BY <1>1, <1>4, <1>6, QuietHistory
<1>8. marked \in 0..Len(outcomes)
  BY DEF TypeOK
<1>9. ASSUME NEW c \in Nat
      PROVE  (c \in DOMAIN outcomes' /\ outcomes'[c] /\ c <= marked')
               <=> (c \in DOMAIN outcomes /\ outcomes[c] /\ c <= marked)
  <2>1. c <= marked => (c \in DOMAIN outcomes' <=> c \in DOMAIN outcomes)
    BY <1>3, <1>5, <1>8
  <2> QED
    BY <1>1, <1>5, <2>1
<1>10. Noted'
  BY <1>1, <1>7, <1>9 DEF HistoryInv, Noted, During
<1> QED
  BY <1>1, <1>6, <1>7, <1>10 DEF HistoryInv

LEMMA HistoryResultStep ==
    ASSUME TypeOK, HistoryInv, ToolResult
    PROVE  HistoryInv'
<1>1. /\ step = "result" /\ step' = "call" /\ UNCHANGED <<v2, turn, messages, marked, outcomes>>
      /\ LogV2("tool_result", Len(outcomes))
  BY DEF ToolResult, Fixed
<1>2. Len(outcomes) \in Nat /\ Len(outcomes) > 0
  BY <1>1, CallType DEF HistoryInv
<1>3. Writes({"tool_result"})
  BY <1>1, <1>2, WritesLog
<1>4. \A t, c : Reported(t, c)' = Reported(t, c)
  BY <1>3, ReportedKept
<1>5. Told' /\ Noted'
  <2>1. Told'
    BY <1>1, <1>4 DEF HistoryInv, Told, ToolMessages
  <2>2. Noted'
    BY <1>1, <1>4 DEF HistoryInv, Noted, During
  <2> QED
    BY <2>1, <2>2
<1>6. ASSUME v2 PROVE Matched'
  <2>1. PICK e \in Entries : /\ ledger' = Append(ledger, e) /\ e.type = "tool_result"
                             /\ e.turn = turn /\ e.call = Len(outcomes)
    <3>1. [type |-> "tool_result", turn |-> turn, call |-> Len(outcomes)] \in Entries
      BY <1>2, EntryType
    <3> QED
      BY <1>1, <1>6, <3>1 DEF LogV2, Log
  <2> PICK n, m : n = Len(ledger) /\ m = Len(messages)
    OBVIOUS
  <2>2. /\ n \in Nat /\ DOMAIN ledger = 1..n /\ DOMAIN ledger' = 1..(n + 1)
        /\ \A i \in 1..n : ledger'[i] = ledger[i]
        /\ ledger'[n + 1] = e
    BY <2>1, Appended
  <2>3. ToolResults \in SUBSET (1..n) /\ m \in Nat /\ ToolMessages \in SUBSET (1..m)
    BY Indices
  <2>4. 1..(n + 1) = (1..n) \cup {n + 1}
    BY <2>2
  <2>5. ToolResults' = ToolResults \cup {n + 1}
    BY <2>1, <2>2, <2>4 DEF ToolResults
  <2>6. /\ Cardinality(ToolResults') = Cardinality(ToolResults) + 1
        /\ \A i \in 1..n : Rank(ToolResults', i) = Rank(ToolResults, i)
        /\ Rank(ToolResults', n + 1) = Cardinality(ToolResults) + 1
    BY <2>2, <2>3, <2>5, RankAdd
  <2>7. ToolMessages' = ToolMessages
    BY <1>1 DEF ToolMessages
  <2>8. /\ Cardinality(ToolMessages) \in Nat
        /\ \A i : Rank(ToolMessages, i) \in Nat /\ Rank(ToolMessages, i) <= Cardinality(ToolMessages)
    BY <2>3, RankBound
  <2>9. Matched /\ Ahead = Len(outcomes) - 1 /\ Ahead' = Len(outcomes)
    BY <1>1, <1>6 DEF HistoryInv, Ahead
  <2>10. Cardinality(ToolResults) + 1 = Cardinality(ToolMessages) + Len(outcomes)
    <3>1. Cardinality(ToolResults) = Cardinality(ToolMessages) + (Len(outcomes) - 1)
      BY <2>9 DEF Matched
    <3> QED
      BY <1>2, <2>8, <3>1
  <2>11. Cardinality(ToolResults') = Cardinality(ToolMessages') + Ahead'
    BY <2>6, <2>7, <2>9, <2>10
  <2>12. ASSUME NEW i \in ToolMessages, NEW j \in ToolResults',
                Rank(ToolMessages, i) = Rank(ToolResults', j)
         PROVE  messages[i].turn = ledger'[j].turn /\ messages[i].call = ledger'[j].call
    <3>1. j # n + 1
      <4>1. Rank(ToolMessages, i) \in Nat /\ Rank(ToolMessages, i) <= Cardinality(ToolMessages)
        BY <2>8
      <4> QED
        BY <1>2, <2>6, <2>8, <2>10, <2>12, <4>1
    <3>2. j \in ToolResults /\ j \in 1..n
      BY <2>3, <2>5, <3>1
    <3>3. ledger'[j] = ledger[j] /\ Rank(ToolResults', j) = Rank(ToolResults, j)
      BY <2>2, <2>6, <3>2
    <3> QED
      BY <2>9, <2>12, <3>2, <3>3 DEF Matched
  <2>13. ASSUME NEW j \in ToolResults', Rank(ToolResults', j) > Cardinality(ToolMessages)
         PROVE  /\ ledger'[j].turn = turn
                /\ ledger'[j].call = Rank(ToolResults', j) - Cardinality(ToolMessages)
    <3>1. CASE j = n + 1
      <4>1. Rank(ToolResults', j) - Cardinality(ToolMessages) = Len(outcomes)
        BY <1>2, <2>6, <2>8, <2>10, <3>1
      <4> QED
        BY <2>1, <2>2, <3>1, <4>1
    <3>2. CASE j # n + 1
      <4>1. j \in ToolResults /\ j \in 1..n
        BY <2>3, <2>5, <3>2
      <4>2. ledger'[j] = ledger[j] /\ Rank(ToolResults', j) = Rank(ToolResults, j)
        BY <2>2, <2>6, <4>1
      <4> QED
        BY <2>9, <2>13, <4>1, <4>2 DEF Matched
    <3> QED
      BY <3>1, <3>2
  <2> QED
    BY <1>1, <2>7, <2>11, <2>12, <2>13 DEF Matched, Rank
<1> QED
  BY <1>1, <1>5, <1>6 DEF HistoryInv

LEMMA HistoryFlagStep ==
    ASSUME TypeOK, HistoryInv, Flag
    PROVE  HistoryInv'
<1>1. /\ step = "call" /\ UNCHANGED <<step, v2, turn, messages, outcomes>>
  BY DEF Flag, Fixed
<1>2. PICK i \in Unmarked : /\ \A j \in Unmarked : i <= j
                            /\ Log("adversarial", i) /\ marked' = i
  BY DEF Flag
<1>3. /\ outcomes \in Seq(BOOLEAN) /\ Len(outcomes) \in Nat
      /\ DOMAIN outcomes = 1..Len(outcomes)
  BY SequenceTypes
<1>4. i \in 1..Len(outcomes) /\ outcomes[i] /\ i > marked /\ marked \in 0..Len(outcomes)
  BY <1>3 DEF Unmarked, TypeOK
<1>5. i \in Nat /\ turn \in Nat /\ marked \in Nat
  BY <1>3, <1>4 DEF TypeOK
<1>6. PICK e \in Entries : /\ ledger' = Append(ledger, e) /\ e.type = "adversarial"
                           /\ e.turn = turn /\ e.call = i
  <2>1. [type |-> "adversarial", turn |-> turn, call |-> i] \in Entries
    BY <1>5, EntryType
  <2> QED
    BY <1>2, <2>1 DEF Log
<1>7. Writes({"adversarial"})
  BY <1>6 DEF Writes
<1>8. Ahead' = Ahead
  BY <1>1 DEF Ahead
<1>9. v2' => Matched'
  BY <1>1, <1>7, <1>8, MatchedKept DEF HistoryInv
<1>10. ASSUME NEW t, NEW c
       PROVE  Reported(t, c)' <=> Reported(t, c) \/ (t = turn /\ c = i)
  <2> PICK n : n = Len(ledger)
    OBVIOUS
  <2>1. /\ n \in Nat /\ DOMAIN ledger = 1..n /\ DOMAIN ledger' = 1..(n + 1)
        /\ \A k \in 1..n : ledger'[k] = ledger[k]
        /\ ledger'[n + 1] = e
    BY <1>6, Appended
  <2>2. 1..(n + 1) = (1..n) \cup {n + 1}
    BY <2>1
  <2> QED
    BY <1>6, <2>1, <2>2 DEF Reported
<1>11. Told'
  <2>1. ASSUME NEW k \in ToolMessages
        PROVE  Reported(messages[k].turn, messages[k].call)'
                 <=> Reported(messages[k].turn, messages[k].call)
    <3>1. messages[k].turn \in Nat /\ messages[k].turn < turn
      BY <1>1, MessageTurn DEF HistoryInv
    <3>2. messages[k].turn # turn
      BY <1>5, <3>1
    <3>3. UNCHANGED messages
      BY <1>1
    <3> QED
      BY <1>10, <3>2, <3>3
  <2>2. ToolMessages' = ToolMessages
    BY <1>1 DEF ToolMessages
  <2> QED
    BY <1>1, <2>1, <2>2 DEF HistoryInv, Told
<1>12. Noted'
  <2>1. /\ \A t, c \in Nat : Reported(t, c) => t <= turn
        /\ \A c \in Nat : Reported(turn, c) <=> c \in DOMAIN outcomes /\ outcomes[c] /\ c <= marked
    BY <1>1 DEF HistoryInv, Noted, During
  <2>2. \A t, c \in Nat : Reported(t, c)' => t <= turn
    <3>1. turn <= turn
      BY <1>5
    <3> QED
      BY <1>10, <2>1, <3>1
  <2>3. ASSUME NEW c \in Nat
        PROVE  Reported(turn, c)' <=> c \in DOMAIN outcomes /\ outcomes[c] /\ c <= i
    <3>1. UNCHANGED turn
      BY <1>1
    <3>2. Reported(turn, c)' <=> Reported(turn, c) \/ c = i
      BY <1>10, <3>1
    <3>3. CASE c = i
      <4>1. i <= i
        BY <1>5
      <4> QED
        BY <1>3, <1>4, <3>2, <3>3, <4>1
    <3>4. CASE c # i
      <4>1. c <= marked => c <= i
        BY <1>4, <1>5
      <4>2. ASSUME c \in DOMAIN outcomes, outcomes[c], c <= i PROVE c <= marked
        <5>1. ~(c > marked)
          <6>1. SUFFICES ASSUME c > marked PROVE FALSE
            OBVIOUS
          <6>2. c \in Unmarked
            BY <4>2, <6>1 DEF Unmarked
          <6>3. i <= c
            BY <1>2, <6>2
          <6> QED
            BY <1>5, <3>4, <4>2, <6>3
        <5> QED
          BY <1>5, <5>1
      <4> QED
        BY <2>1, <3>2, <3>4, <4>1, <4>2
    <3> QED
      BY <3>3, <3>4
  <2> QED
    BY <1>1, <1>2, <2>2, <2>3 DEF Noted, During
<1> QED
  BY <1>1, <1>9, <1>11, <1>12 DEF HistoryInv

LEMMA HistoryRememberStep ==
    ASSUME TypeOK, HistoryInv, Remember
    PROVE  HistoryInv'
<1>1. /\ step = "call" /\ step' = "close" /\ Unmarked = {}
      /\ UNCHANGED <<v2, turn, ledger, outcomes, marked>>
      /\ messages' = messages \o AssistantMessages \o [i \in DOMAIN outcomes |-> ToolMessage(i)]
  BY DEF Remember, Fixed
<1>2. PICK k, m, a, n : /\ k = Len(outcomes) /\ m = Len(messages)
                       /\ a = Len(AssistantMessages) /\ n = Len(ledger)
  OBVIOUS
<1>3. outcomes \in Seq(BOOLEAN) /\ k \in Nat /\ DOMAIN outcomes = 1..k /\ turn \in Nat
  BY <1>2, SequenceTypes DEF TypeOK
<1>4. /\ n \in Nat /\ DOMAIN ledger = 1..n /\ ToolResults \in SUBSET (1..n)
      /\ m \in Nat /\ DOMAIN messages = 1..m /\ ToolMessages \in SUBSET (1..m)
  BY <1>2, Indices
<1>5. /\ AssistantMessages \in Seq(Messages) /\ a \in 0..1
      /\ \A i \in 1..a : AssistantMessages[i].role = "assistant"
  <2>1. [role |-> "assistant", turn |-> turn, call |-> 0, flagged |-> FALSE,
         wrapped |-> FALSE] \in Messages
    BY <1>3 DEF Messages
  <2> QED
    BY <1>2, <2>1 DEF AssistantMessages
<1>6. PICK new : new = [i \in 1..k |-> ToolMessage(i)]
  OBVIOUS
<1>7. new \in Seq(Messages) /\ Len(new) = k /\ \A c \in 1..k : new[c] = ToolMessage(c)
  <2>1. \A i \in 1..k : ToolMessage(i) \in Messages
    BY <1>3 DEF ToolMessage, Messages
  <2> QED
    BY <1>3, <1>6, <2>1
<1>8. PICK old : old = messages \o AssistantMessages
  OBVIOUS
<1>9. /\ old \in Seq(Messages) /\ Len(old) = m + a
      /\ \A i \in 1..m : old[i] = messages[i]
      /\ \A i \in (m + 1)..(m + a) : old[i].role = "assistant"
  <2>1. messages \in Seq(Messages)
    BY SequenceTypes
  <2>2. /\ old \in Seq(Messages) /\ Len(old) = m + a
        /\ \A i \in 1..m : old[i] = messages[i]
        /\ \A i \in (m + 1)..(m + a) : old[i] = AssistantMessages[i - m]
    BY <1>2, <1>4, <1>5, <1>8, <2>1
  <2>3. \A i \in (m + 1)..(m + a) : i - m \in 1..a
    BY <1>4, <1>5
  <2> QED
    BY <1>5, <2>2, <2>3
<1>10. PICK b : b = m + a
  OBVIOUS
<1>11. b \in Nat /\ m <= b
  BY <1>4, <1>5, <1>10
<1>12. /\ messages' = old \o new /\ DOMAIN messages' = 1..(b + k)
       /\ \A i \in 1..b : messages'[i] = old[i]
       /\ \A c \in 1..k : messages'[b + c] = ToolMessage(c)
  <2>1. messages' = old \o new
    BY <1>1, <1>3, <1>6, <1>8
  <2>2. /\ DOMAIN messages' = 1..(b + k)
        /\ \A i \in 1..b : messages'[i] = old[i]
        /\ \A c \in 1..k : messages'[b + c] = new[c]
    BY <1>3, <1>7, <1>9, <1>10, <1>11, <2>1
  <2> QED
    BY <1>7, <2>1, <2>2
<1>13. \A i \in 1..m : messages'[i] = messages[i]
  <2>1. \A i \in 1..m : i \in 1..b
    BY <1>4, <1>11
  <2> QED
    BY <1>9, <1>12, <2>1
<1>14. ToolMessages' = ToolMessages \cup ((b + 1)..(b + k))
  <2>1. \A i \in 1..(b + k) : i \in 1..m \/ i \in (m + 1)..b \/ i \in (b + 1)..(b + k)
    BY <1>3, <1>4, <1>11
  <2>2. \A i \in (b + 1)..(b + k) : i - b \in 1..k /\ b + (i - b) = i /\ i \in 1..(b + k)
    BY <1>3, <1>11
  <2>3. \A i \in (b + 1)..(b + k) : messages'[i].role = "tool"
    <3>1. \A c \in 1..k : messages'[b + c].role = "tool"
      <4> SUFFICES ASSUME NEW c \in 1..k PROVE messages'[b + c].role = "tool"
        OBVIOUS
      <4>1. messages'[b + c] = ToolMessage(c)
        BY <1>12
      <4> QED
        BY <4>1 DEF ToolMessage
    <3>2. ASSUME NEW i \in (b + 1)..(b + k) PROVE messages'[i].role = "tool"
      <4>1. PICK c \in 1..k : i = b + c
        BY <2>2
      <4> QED
        BY <3>1, <4>1
    <3> QED
      BY <3>2
  <2>4. \A i \in (m + 1)..b : i \in 1..b /\ messages'[i].role = "assistant"
    BY <1>4, <1>9, <1>10, <1>11, <1>12
  <2>5. \A i \in 1..m : i \in 1..(b + k)
    BY <1>3, <1>4, <1>11
  <2> QED
    BY <1>4, <1>12, <1>13, <2>1, <2>2, <2>3, <2>4, <2>5 DEF ToolMessages
<1>15. /\ Cardinality(ToolMessages') = Cardinality(ToolMessages) + k
       /\ \A i \in 1..m : Rank(ToolMessages', i) = Rank(ToolMessages, i)
       /\ \A c \in 1..k : Rank(ToolMessages', b + c) = Cardinality(ToolMessages) + c
  <2>0. PICK S, T : S = ToolMessages /\ T = ToolMessages'
    OBVIOUS
  <2>1. S \subseteq 1..m /\ T = S \cup ((b + 1)..(b + k))
    BY <1>4, <1>14, <2>0
  <2>2. RanksAbove(S, m, T, b, k)
    <3>1. m \in Nat /\ b \in Nat /\ k \in Nat /\ m <= b
      BY <1>3, <1>4, <1>11
    <3> QED
      BY <2>1, <3>1, RankBlock, Zenon
  <2> QED
    BY <2>0, <2>2 DEF RanksAbove
<1>16. \A i \in ToolMessages' :
          \/ i \in ToolMessages /\ i \in 1..m
          \/ \E c \in 1..k : i = b + c
  <2>1. \A i \in (b + 1)..(b + k) : i - b \in 1..k /\ i = b + (i - b)
    BY <1>3, <1>11
  <2> QED
    BY <1>4, <1>14, <2>1
<1>17. Cardinality(ToolMessages) \in Nat
  BY <1>4, RankBound
<1>18. ASSUME v2 PROVE Matched'
  <2>1. Matched /\ Ahead = k /\ Ahead' = 0
    BY <1>1, <1>2, <1>18 DEF HistoryInv, Ahead
  <2>2. ToolResults' = ToolResults
    BY <1>1 DEF ToolResults
  <2>3. Cardinality(ToolResults) = Cardinality(ToolMessages) + k
    BY <2>1 DEF Matched
  <2>4. Cardinality(ToolResults') = Cardinality(ToolMessages') + Ahead'
    BY <1>3, <1>15, <1>17, <2>1, <2>2, <2>3
  <2>5. ASSUME NEW i \in ToolMessages', NEW j \in ToolResults,
               Rank(ToolMessages', i) = Rank(ToolResults, j)
        PROVE  messages'[i].turn = ledger[j].turn /\ messages'[i].call = ledger[j].call
    <3>1. CASE i \in ToolMessages /\ i \in 1..m
      BY <1>13, <1>15, <2>1, <2>5, <3>1 DEF Matched
    <3>2. CASE \E c \in 1..k : i = b + c
      <4>1. PICK c \in 1..k : i = b + c
        BY <3>2
      <4>2. Rank(ToolResults, j) = Cardinality(ToolMessages) + c
        BY <1>15, <2>5, <4>1
      <4>3. /\ Rank(ToolResults, j) > Cardinality(ToolMessages)
            /\ Rank(ToolResults, j) - Cardinality(ToolMessages) = c
        BY <1>3, <1>17, <4>2
      <4>4. ledger[j].turn = turn /\ ledger[j].call = c
        BY <2>1, <4>3 DEF Matched
      <4>5. messages'[i].turn = turn /\ messages'[i].call = c
        <5>1. messages'[i] = ToolMessage(c)
          BY <1>12, <4>1
        <5> QED
          BY <5>1 DEF ToolMessage
      <4> QED
        BY <4>4, <4>5
    <3> QED
      BY <1>16, <3>1, <3>2
  <2>6. ASSUME NEW j \in ToolResults PROVE ~(Rank(ToolResults, j) > Cardinality(ToolMessages'))
    <3>1. Rank(ToolResults, j) \in Nat /\ Rank(ToolResults, j) <= Cardinality(ToolResults)
      BY <1>4, RankBound
    <3> QED
      BY <1>3, <1>15, <1>17, <2>3, <3>1
  <2> QED
    BY <1>1, <2>2, <2>4, <2>5, <2>6 DEF Matched, Rank
<1>19. \A t, c : Reported(t, c)' = Reported(t, c)
  BY <1>1 DEF Reported
<1>20. /\ Told /\ Noted
  BY <1>1 DEF HistoryInv
<1>21. Told'
  <2> SUFFICES ASSUME NEW i \in ToolMessages'
               PROVE  /\ messages'[i].flagged = messages'[i].wrapped
                      /\ messages'[i].flagged <=> Reported(messages'[i].turn, messages'[i].call)
                      /\ messages'[i].turn <= turn
    BY <1>1, <1>19 DEF Told, Reported
  <2>1. CASE i \in ToolMessages /\ i \in 1..m
    <3>1. messages'[i] = messages[i] /\ messages[i].turn \in Nat /\ messages[i].turn < turn
      BY <1>1, <1>13, <1>20, <2>1, MessageTurn
    <3>2. messages[i].turn <= turn
      BY <1>3, <3>1
    <3> QED
      BY <1>20, <2>1, <3>1, <3>2 DEF Told
  <2>2. CASE \E c \in 1..k : i = b + c
    <3>1. PICK c \in 1..k : i = b + c
      BY <2>2
    <3>2. messages'[i] = ToolMessage(c)
      BY <1>12, <3>1
    <3>3. /\ messages'[i].turn = turn /\ messages'[i].call = c
          /\ messages'[i].flagged = outcomes[c] /\ messages'[i].wrapped = outcomes[c]
      BY <3>2 DEF ToolMessage
    <3>4. c \in DOMAIN outcomes /\ c \in Nat /\ marked \in Nat /\ turn <= turn
      BY <1>2, <1>3 DEF TypeOK
    <3>5. outcomes[c] => c <= marked
      <4>1. ~(outcomes[c] /\ c > marked)
        BY <1>1, <3>4 DEF Unmarked
      <4>2. c > marked \/ c <= marked
        BY <3>4
      <4> QED
        BY <4>1, <4>2
    <3>6. Reported(turn, c) <=> c \in DOMAIN outcomes /\ outcomes[c] /\ c <= marked
      BY <1>1, <1>20, <3>4 DEF Noted, During
    <3>7. Reported(turn, c) <=> outcomes[c]
      BY <3>4, <3>5, <3>6
    <3>8. messages'[i].flagged = messages'[i].wrapped
      BY <3>3
    <3>9. messages'[i].flagged <=> Reported(messages'[i].turn, messages'[i].call)
      BY <3>3, <3>7
    <3>10. messages'[i].turn <= turn
      BY <3>3, <3>4
    <3> QED
      BY <3>8, <3>9, <3>10
  <2> QED
    BY <1>16, <2>1, <2>2
<1>22. Noted'
  BY <1>1, <1>19, <1>20 DEF Noted, During
<1> QED
  BY <1>1, <1>18, <1>21, <1>22 DEF HistoryInv

LEMMA HistoryNext == LoopInv /\ HistoryInv /\ [Next]_vars => HistoryInv'
<1> SUFFICES ASSUME LoopInv, HistoryInv, [Next]_vars PROVE HistoryInv'
  OBVIOUS
<1>a. TypeOK
  BY DEF LoopInv
<1>b. turn \in Nat /\ Len(outcomes) \in Nat /\ Len(outcomes) + 1 \in Nat
  BY <1>a, CallType DEF TypeOK
<1>1. CASE Cap \/ Fail
  BY <1>1 DEF Cap, Fail, HistoryInv
<1>2. CASE Enter \/ IssueSvid \/ TurnStart
  <2>1. /\ step \in Opening /\ step' \in {"svid", "start", "infer"}
        /\ UNCHANGED <<v2, turn, messages>>
        /\ Log("turn_start", 0) \/ UNCHANGED ledger
    BY <1>2 DEF Enter, IssueSvid, TurnStart, Fixed, Opening
  <2>2. Writes({"turn_start", "reasoning_step", "tool_call", "mediated"})
    BY <1>a, <2>1, WritesLog
  <2>3. Ahead' = Ahead /\ step # "stop" /\ step # "close" /\ step' # "close"
    BY <2>1 DEF Ahead, Opening
  <2>4. /\ (v2' => Matched') /\ Told'
        /\ \A t, c : Reported(t, c)' = Reported(t, c)
    BY <1>a, <2>1, <2>2, <2>3, QuietHistory
  <2>5. Noted'
    BY <2>1, <2>4 DEF HistoryInv, Noted, During, Opening
  <2> QED
    BY <2>1, <2>4, <2>5 DEF HistoryInv
<1>3. CASE ToolCall
  <2>1. /\ step = "call" /\ step' = "dispatch" /\ LogV2("tool_call", Len(outcomes) + 1)
        /\ UNCHANGED <<v2, turn, messages, outcomes, marked>>
    BY <1>3 DEF ToolCall, Fixed
  <2>2. Writes({"turn_start", "reasoning_step", "tool_call", "mediated"})
    BY <1>a, <1>b, <2>1, WritesLog
  <2>3. Ahead' = Ahead
    BY <2>1 DEF Ahead
  <2>4. /\ (v2' => Matched') /\ Told'
        /\ \A t, c : Reported(t, c)' = Reported(t, c)
    BY <1>a, <2>1, <2>2, <2>3, QuietHistory
  <2>5. Noted'
    BY <2>1, <2>4 DEF HistoryInv, Noted, During
  <2> QED
    BY <2>1, <2>4, <2>5 DEF HistoryInv
<1>4. CASE Close
  <2>1. /\ step = "close" /\ UNCHANGED <<v2, messages>> /\ LogV2("turn_end", 0)
        /\ step' = "stop" \/ (step' = "head" /\ turn' = turn + 1)
    BY <1>4 DEF Close, Fixed
  <2>2. CASE step' = "stop"
    BY <2>2 DEF HistoryInv
  <2>3. CASE step' = "head" /\ turn' = turn + 1
    <3>1. Writes({"turn_end"})
      BY <1>a, <2>1, WritesLog
    <3>2. \A t, c : Reported(t, c)' = Reported(t, c)
      BY <1>a, <3>1, ReportedKept
    <3>3. (v2 => Matched) /\ Told /\ Noted
      BY <2>1 DEF HistoryInv
    <3>4. Told'
      <4>1. ASSUME NEW i \in ToolMessages PROVE messages[i].turn < turn + 1
        <5>1. messages[i].turn \in Nat
          BY <1>a, <3>3, MessageTurn
        <5>2. messages[i].turn <= turn
          BY <2>1, <3>3 DEF Told
        <5> QED
          BY <1>b, <5>1, <5>2
      <4> QED
        BY <2>1, <2>3, <3>2, <3>3, <4>1 DEF Told, ToolMessages
    <3>5. Noted'
      <4>1. \A t, c \in Nat : Reported(t, c) => t <= turn
        BY <2>1, <3>3 DEF Noted
      <4>2. \A t \in Nat : t <= turn => t < turn + 1
        BY <1>b
      <4>3. \A t, c \in Nat : Reported(t, c)' => t < turn'
        BY <2>3, <3>2, <4>1, <4>2
      <4> QED
        BY <2>3, <4>3 DEF Noted, During
    <3>6. ASSUME v2 PROVE Matched'
      <4>1. PICK e \in Entries : ledger' = Append(ledger, e) /\ e.type = "turn_end"
        <5>1. [type |-> "turn_end", turn |-> turn, call |-> 0] \in Entries
          BY <1>a, EntryType
        <5> QED
          BY <2>1, <3>6, <5>1 DEF LogV2, Log
      <4>2. PICK n, m : n = Len(ledger) /\ m = Len(messages)
        OBVIOUS
      <4>3. /\ n \in Nat /\ DOMAIN ledger = 1..n /\ DOMAIN ledger' = 1..(n + 1)
            /\ \A i \in 1..n : ledger'[i] = ledger[i]
            /\ ledger'[n + 1] = e
        BY <1>a, <4>1, <4>2, Appended
      <4>4. 1..(n + 1) = (1..n) \cup {n + 1}
        BY <4>3
      <4>5. ToolResults' = ToolResults /\ \A j \in ToolResults : ledger'[j] = ledger[j]
        BY <4>1, <4>3, <4>4 DEF ToolResults
      <4>6. ToolMessages' = ToolMessages
        BY <2>1 DEF ToolMessages
      <4>7. Matched /\ Ahead = 0 /\ Ahead' = 0
        BY <2>1, <2>3, <3>3, <3>6 DEF Ahead
      <4>8. /\ ToolResults \in SUBSET (1..n) /\ ToolMessages \in SUBSET (1..m) /\ m \in Nat
        BY <1>a, <4>2, Indices
      <4>9. Cardinality(ToolMessages) \in Nat /\ Cardinality(ToolResults) \in Nat
        BY <4>3, <4>8, RankBound
      <4>10. Cardinality(ToolResults) = Cardinality(ToolMessages)
        BY <4>7, <4>9 DEF Matched
      <4>11. ASSUME NEW j \in ToolResults
             PROVE  ~(Rank(ToolResults, j) > Cardinality(ToolMessages))
        <5>1. Rank(ToolResults, j) \in Nat /\ Rank(ToolResults, j) <= Cardinality(ToolResults)
          BY <4>3, <4>8, RankBound
        <5> QED
          BY <4>9, <4>10, <5>1
      <4>12. Cardinality(ToolResults) = Cardinality(ToolMessages) + Ahead'
        BY <4>7, <4>9, <4>10
      <4> QED
        BY <2>1, <4>5, <4>6, <4>7, <4>11, <4>12 DEF Matched, Rank
    <3> QED
      BY <2>1, <2>3, <3>4, <3>5, <3>6 DEF HistoryInv
  <2> QED
    BY <2>1, <2>2, <2>3
<1>5. CASE Tick \/ UNCHANGED vars
  <2>1. UNCHANGED <<v2, turn, step, outcomes, marked, messages, ledger>>
    BY <1>5 DEF Tick, vars
  <2> QED
    BY <2>1 DEF HistoryInv, Matched, Told, Noted, Ahead, Reported, ToolMessages, ToolResults, Rank
<1> QED
  BY <1>a, <1>1, <1>2, <1>3, <1>4, <1>5, HistoryInferStep, HistoryDispatchStep,
     HistoryResultStep, HistoryFlagStep, HistoryRememberStep
  DEF Next, Loop, Stopped

LEMMA HistoryHolds == LoopInv /\ HistoryInv => HistoryFaithful
<1> SUFFICES ASSUME LoopInv, HistoryInv, step = "infer" PROVE HistoryFaithful
  BY DEF HistoryFaithful
<1>1. (v2 => Matched) /\ Told /\ Ahead = 0
  BY DEF HistoryInv, Ahead
<1>2. ASSUME v2 PROVE Cardinality(ToolMessages) = Cardinality(ToolResults)
  <2>1. PICK n, m : n = Len(ledger) /\ m = Len(messages)
    OBVIOUS
  <2>2. m \in Nat /\ ToolMessages \in SUBSET (1..m)
    BY <2>1, Indices DEF LoopInv
  <2>3. Cardinality(ToolMessages) \in Nat
    BY <2>2, RankBound
  <2> QED
    BY <1>1, <1>2, <2>3 DEF Matched
<1> QED
  BY <1>1, <1>2 DEF HistoryFaithful, Matched, Told

(***************************************************************************)
(* However many turns and calls, and whatever the classifier flags: before *)
(* the model is asked again, the history has every recorded result once,   *)
(* in the ledger's order, and a flagged one is wrapped and reported        *)
(* (turn.rs, the classification before re-injection).                      *)
(***************************************************************************)
THEOREM HistoryCorrect == Spec => []HistoryFaithful
BY HistoryInit, HistoryNext, HistoryHolds, LoopAlways, PTL DEF Spec
=============================================================================
