------------------------------ MODULE UiSession ------------------------------
(***************************************************************************)
(* The chat surface of `aegis ui`: WebSockets that stream turns            *)
(* (crates/ui-server/src/handlers/sessions.rs), the sessions they run on   *)
(* (crates/cli/src/ui.rs), each behind a mutex and with a loaded model     *)
(* (ModelBackend), and the forks that boot a session on another model and  *)
(* swap it in while turns are running.                                     *)
(***************************************************************************)
EXTENDS ModelBackend

CONSTANTS
    Conns,        \* browser tabs, one sid and one WebSocket each
    Forks,        \* requests to POST /api/v1/sessions/fork
    Models,       \* model digests a fork may ask for
    Cached,       \* the ones the model cache has
    First,        \* the model of --model
    BackendKinds, \* --backend; "stub" without --manifest and --model
    Raws,         \* what the model may emit (see ModelBackend)
    MaxTokens,    \* bound: SessionOptions::max_tokens
    MaxChunks,    \* bound: frames the text is cut into
    Budgets       \* bounds: [prompts, forks, faults, ticks] a behaviour may have

VARIABLES
    kind,         \* the backend kind, fixed when the process starts
    sessions,     \* the sessions booted so far; a session is its index here
    ledgers,      \* the ledger files
    native,       \* the live native handles, each with its session
    active,       \* chat_backend: the session new WebSockets get, 0 for the stub
    current,      \* current_digest of the factory
    registry,     \* SessionRegistry: the sids created
    conns,        \* each WebSocket and the turn it is streaming
    forks,        \* each fork request and its blocking task
    second,       \* the clock, in seconds
    left,         \* what is left of the budget
    overlapped    \* ghost: two forks ran at once, or a fork's client went away

vars == <<kind, sessions, ledgers, native, active, current, registry, conns, forks,
          second, left, overlapped>>

ASSUME ModelsAssumption == First \in Cached /\ Cached \subseteq Models

ASSUME BackendsAssumption ==
    /\ BackendKinds \subseteq Kinds \cup {"stub"}
    /\ Raws \subseteq Seq(Pieces)

ASSUME BoundsAssumption ==
    /\ MaxTokens \in Nat /\ MaxChunks \in Nat
    /\ Budgets \subseteq [prompts : Nat, forks : Nat, faults : Nat, ticks : Nat]

\* A fork names its ledger by digest and second; --ledger or a fresh id names the first.
LedgerName(m) == <<m, second>>
FirstLedger == <<First, 0>>

Booted(m, name) ==
    [model |-> m, ledger |-> name, loaded |-> FALSE, owner |-> {}, poisoned |-> FALSE,
     log |-> <<>>]

NoConn == [at |-> "closed", session |-> 0, gone |-> FALSE, turn |-> 0, call |-> 0,
           said |-> <<>>, todo |-> <<>>, frames |-> <<>>, panicked |-> FALSE]
NoFork == [at |-> "idle", model |-> First, name |-> FirstLedger, session |-> 0, call |-> 1,
           abandoned |-> FALSE]

\* build_chat_backend: a session on --model, or the stub and no factory.
Init ==
    /\ kind \in BackendKinds
    /\ IF kind = "stub"
       THEN sessions = <<>> /\ ledgers = {} /\ native = {} /\ active = 0
       ELSE /\ sessions = <<[Booted(First, FirstLedger) EXCEPT !.loaded = TRUE]>>
            /\ ledgers = {FirstLedger} /\ active = 1
            /\ native = {<<1, h>> : h \in Resident(kind)}
    /\ current = First /\ registry = {}
    /\ conns = [c \in Conns |-> NoConn] /\ forks = [f \in Forks |-> NoFork]
    /\ second = 1 /\ left \in Budgets /\ overlapped = FALSE

Spend(what) == left[what] > 0 /\ left' = [left EXCEPT ![what] = @ - 1]

Forking == {f \in Forks : forks[f].at \in {"boot", "load", "digest", "swap"}}

\* The sessions some Arc points to; the others are dropped, their models with them.
Held(a, cs, fs) ==
    {a} \cup {cs[c].session : c \in Conns}
        \cup {fs[f].session : f \in {g \in Forks : fs[g].at \in {"load", "digest", "swap"}}}

Kept(handles, held) == {n \in handles : n[1] \in held}

-----------------------------------------------------------------------------
(* POST /api/v1/sessions, the WebSocket and its frames.                    *)

\* Everything but the WebSockets.
Server == <<kind, sessions, ledgers, native, active, current, registry, forks, second,
            overlapped>>

CreateSession(c) ==
    /\ c \notin registry
    /\ registry' = registry \cup {c}
    /\ UNCHANGED <<kind, sessions, ledgers, native, active, current, conns, forks, second,
                   left, overlapped>>

\* stream: a known sid; the backend is captured for the connection's lifetime.
Stream(c) ==
    /\ conns[c].at = "closed" /\ c \in registry
    /\ conns' = [conns EXCEPT ![c] = [NoConn EXCEPT !.at = "open", !.session = active]]
    /\ UNCHANGED <<Server, left>>

\* handle_text_frame: what is not a frame of the protocol gets an error.
Malformed(c) ==
    /\ conns[c].at = "open" /\ ~conns[c].gone
    /\ conns' = [conns EXCEPT ![c].frames = <<"error">>]
    /\ UNCHANGED <<Server, left>>

\* run_turn: turn_start, then the turn goes to a blocking thread.
UserPrompt(c) ==
    /\ conns[c].at = "open" /\ ~conns[c].gone /\ Spend("prompts")
    /\ conns' = [conns EXCEPT ![c].at = "lock", ![c].frames = <<"turn_start">>,
                              ![c].turn = left.prompts, ![c].panicked = FALSE,
                              ![c].said = <<>>]
    /\ UNCHANGED Server

Send(c) ==
    /\ conns[c].at = "reply" /\ ~conns[c].gone
    /\ conns' = [conns EXCEPT ![c].frames = Append(@, Head(conns[c].todo)),
                              ![c].todo = Tail(@),
                              ![c].at = IF Len(conns[c].todo) = 1 THEN "open" ELSE "reply"]
    /\ UNCHANGED <<Server, left>>

\* A send fails on a socket that is gone; the error is logged.
SendFails(c) ==
    /\ conns[c].at = "reply" /\ conns[c].gone
    /\ conns' = [conns EXCEPT ![c].at = "open", ![c].todo = <<>>]
    /\ UNCHANGED <<Server, left>>

Hangup(c) ==
    /\ conns[c].at # "closed" /\ ~conns[c].gone /\ Spend("faults")
    /\ conns' = [conns EXCEPT ![c].gone = TRUE]
    /\ UNCHANGED Server

\* handle_socket ends; its Arc of the backend goes.
Closed(c) ==
    /\ conns[c].at = "open" /\ conns[c].gone
    /\ conns' = [conns EXCEPT ![c] = NoConn]
    /\ native' = Kept(native, Held(active, conns', forks))
    /\ UNCHANGED <<kind, sessions, ledgers, active, current, registry, forks, second, left,
                   overlapped>>

-----------------------------------------------------------------------------
(* SessionBackend::run_turn on the blocking thread.                        *)

On(c) == conns[c].session
NoTurn == <<kind, ledgers, active, current, registry, forks, second, overlapped>>


\* What the handler sends for a failed turn, and for a finished one.
ErrorReply == <<"error", "turn_end">>

TurnReply(text, chunks, calls) ==
    (IF text THEN [i \in 1..chunks |-> "text"] ELSE <<>>)
      \o [i \in 1..(2 * calls) |-> IF i % 2 = 1 THEN "call" ELSE "result"]
      \o (IF ~text /\ calls = 0 THEN <<"text">> ELSE <<>>)
      \o <<"turn_end">>

\* The turn ends with these frames to send, and the mutex is free.
Finish(c, frames) ==
    /\ conns' = [conns EXCEPT ![c].at = "reply", ![c].todo = frames]
    /\ sessions' = [sessions EXCEPT ![On(c)].owner = @ \ {c}]

\* The guards and values of the running inference are dropped.
Unwind(c) == native' = native \ {<<On(c), h>> : h \in Transient}

\* StubBackend: an echo, with no session and no ledger.
Stub(c) ==
    /\ conns[c].at = "lock" /\ On(c) = 0
    /\ conns' = [conns EXCEPT ![c].at = "reply", ![c].todo = <<"text", "turn_end">>]
    /\ UNCHANGED <<Server, left>>

Enter(c) ==
    /\ sessions' = [sessions EXCEPT ![On(c)].owner = @ \cup {c}]
    /\ conns' = [conns EXCEPT ![c].at = "infer", ![c].call = 1]
    /\ UNCHANGED <<NoTurn, native, left>>

\* Faulty variant: turns of one session are not serialised.
LockShared(c) ==
    /\ conns[c].at = "lock" /\ On(c) # 0 /\ ~sessions[On(c)].poisoned
    /\ Enter(c)

Lock(c) ==
    /\ conns[c].at = "lock" /\ On(c) # 0 /\ ~sessions[On(c)].poisoned
    /\ sessions[On(c)].owner = {}
    /\ Enter(c)

\* lock() of a mutex whose holder panicked is an error.
LockPoisoned(c) ==
    /\ conns[c].at = "lock" /\ On(c) # 0 /\ sessions[On(c)].poisoned
    /\ sessions[On(c)].owner = {}
    /\ Finish(c, ErrorReply)
    /\ UNCHANGED <<NoTurn, native, left>>

\* LoadedModel::infer: the next native call.
Infer(c) ==
    LET calls == InferCalls(kind, MaxTokens)
        call == calls[conns[c].call]
    IN  /\ conns[c].at = "infer"
        /\ native' = (native \cup {<<On(c), h>> : h \in call.take})
                       \ {<<On(c), h>> : h \in call.give}
        /\ conns' = [conns EXCEPT
                         ![c].at = IF conns[c].call = Len(calls) THEN "parse" ELSE "infer",
                         ![c].call = @ + 1]
        /\ UNCHANGED <<NoTurn, sessions, left>>

\* The token that ends the answer before max_tokens.
EndOfAnswer(c) ==
    /\ conns[c].at = "infer" /\ kind = "llama" /\ conns[c].call \in 4..(MaxTokens + 3)
    /\ conns' = [conns EXCEPT ![c].call = MaxTokens + 4]
    /\ UNCHANGED <<NoTurn, sessions, native, left>>

\* A native call fails: the guards run, and the turn is an error.
InferFails(c) ==
    /\ conns[c].at = "infer" /\ Spend("faults")
    /\ Finish(c, ErrorReply) /\ Unwind(c)
    /\ UNCHANGED NoTurn

\* The answer is parsed and recorded as a reasoning_step.
Reason(c) ==
    /\ conns[c].at = "parse"
    /\ \E raw \in Raws :
          LET answer == Parse(kind, raw) IN
          IF answer.ok
          THEN /\ sessions' = [sessions EXCEPT ![On(c)].log =
                                  Append(@, [turn |-> conns[c].turn, type |-> "reasoning"])]
               /\ conns' = [conns EXCEPT ![c].at = "dispatch", ![c].call = 1, ![c].said = raw]
          ELSE Finish(c, ErrorReply)
    /\ UNCHANGED <<NoTurn, native, left>>

\* One tool call goes through the mediator, which records it.
Dispatch(c) ==
    /\ conns[c].at = "dispatch" /\ conns[c].call <= Parse(kind, conns[c].said).calls
    /\ sessions' = [sessions EXCEPT ![On(c)].log =
                       Append(@, [turn |-> conns[c].turn, type |-> "mediated"])]
    /\ conns' = [conns EXCEPT ![c].call = @ + 1]
    /\ UNCHANGED <<NoTurn, native, left>>

\* The outcome goes back to the handler.
Outcome(c) ==
    LET answer == Parse(kind, conns[c].said)
    IN  /\ conns[c].at = "dispatch" /\ conns[c].call > answer.calls
        /\ \E n \in 1..MaxChunks : Finish(c, TurnReply(answer.text, n, answer.calls))
        /\ UNCHANGED <<NoTurn, native, left>>

\* A halt-class error of the mediator or the ledger ends the turn, not the session.
DispatchFails(c) ==
    /\ conns[c].at = "dispatch" /\ Spend("faults")
    /\ Finish(c, ErrorReply)
    /\ UNCHANGED <<NoTurn, native>>

\* The thread panics: its values are dropped, the mutex is poisoned, no turn_end.
Panic(c) ==
    /\ conns[c].at \in {"infer", "parse", "dispatch"} /\ Spend("faults")
    /\ sessions' = [sessions EXCEPT ![On(c)].owner = @ \ {c}, ![On(c)].poisoned = TRUE]
    /\ conns' = [conns EXCEPT ![c].at = "open", ![c].panicked = TRUE]
    /\ Unwind(c)
    /\ UNCHANGED NoTurn

-----------------------------------------------------------------------------
(* POST /api/v1/sessions/fork and SessionBackendFactory::fork.             *)

NoFrame == <<kind, registry, conns, second>>
ForkGoto(f, l) == forks' = [forks EXCEPT ![f].at = l]

\* The fork failed, and what it had booted and loaded is dropped.
ForkDropped(f) ==
    /\ ForkGoto(f, "failed")
    /\ native' = Kept(native, Held(active, conns, forks'))

\* 503 without a factory; an error for a model the cache does not have.
Fork(f) ==
    /\ forks[f].at = "idle" /\ Spend("forks")
    /\ \E m \in Models :
          forks' = [forks EXCEPT ![f].model = m, ![f].name = LedgerName(m),
                       ![f].at = IF kind # "stub" /\ m \in Cached THEN "boot" ELSE "failed"]
    /\ overlapped' = (overlapped \/ Forking # {})
    /\ UNCHANGED <<NoFrame, sessions, ledgers, native, active, current>>

\* Faulty variant: an existing ledger is opened.
ForkBootReuses(f) ==
    /\ forks[f].at = "boot"
    /\ sessions' = Append(sessions, Booted(forks[f].model, forks[f].name))
    /\ ledgers' = ledgers \cup {forks[f].name}
    /\ forks' = [forks EXCEPT ![f].at = "load", ![f].session = Len(sessions')]
    /\ UNCHANGED <<NoFrame, native, active, current, left, overlapped>>

\* Session::boot creates the ledger and its session_start before the model is loaded.
ForkBoot(f) ==
    /\ forks[f].at = "boot"
    /\ IF forks[f].name \in ledgers
       THEN ForkGoto(f, "failed") /\ UNCHANGED <<sessions, ledgers>>
       ELSE /\ sessions' = Append(sessions, Booted(forks[f].model, forks[f].name))
            /\ ledgers' = ledgers \cup {forks[f].name}
            /\ forks' = [forks EXCEPT ![f].at = "load", ![f].session = Len(sessions')]
    /\ UNCHANGED <<NoFrame, native, active, current, left, overlapped>>

\* An error of the boot, or a panic of the blocking task (JoinError): a 500 either
\* way, nothing is swapped, and unwinding drops what the task held.
ForkBootFails(f) ==
    /\ forks[f].at = "boot" /\ Spend("faults")
    /\ ForkGoto(f, "failed")
    /\ UNCHANGED <<NoFrame, sessions, ledgers, native, active, current, overlapped>>

\* Backend::load: the next native call, or the process-wide backend is taken.
ForkLoad(f) ==
    LET calls == LoadCalls(kind)
        call == calls[forks[f].call]
        s == forks[f].session
        last == forks[f].call = Len(calls)
    IN  /\ forks[f].at = "load"
        /\ IF Refused(call, native)
           THEN ForkDropped(f) /\ UNCHANGED sessions
           ELSE /\ native' = (native \cup {<<s, h>> : h \in call.take})
                               \ {<<s, h>> : h \in call.give}
                /\ forks' = [forks EXCEPT ![f].call = @ + 1,
                                          ![f].at = IF last THEN "digest" ELSE "load"]
                /\ sessions' = [sessions EXCEPT ![s].loaded = last]
        /\ UNCHANGED <<NoFrame, ledgers, active, current, left, overlapped>>

\* A file that is no model, a native allocation that fails, or a panic of the task.
ForkLoadFails(f) ==
    /\ forks[f].at = "load" /\ Spend("faults")
    /\ ForkDropped(f)
    /\ UNCHANGED <<NoFrame, sessions, ledgers, active, current, overlapped>>

\* The factory notes the digest before the handler swaps.
ForkDigest(f) ==
    /\ forks[f].at = "digest"
    /\ current' = forks[f].model /\ ForkGoto(f, "swap")
    /\ UNCHANGED <<NoFrame, sessions, ledgers, native, active, left, overlapped>>

\* The handler, if its client is still there, puts the new backend in place of the old.
ForkSwap(f) ==
    /\ forks[f].at = "swap"
    /\ IF forks[f].abandoned
       THEN ForkDropped(f) /\ UNCHANGED active
       ELSE /\ ForkGoto(f, "ok") /\ active' = forks[f].session
            /\ native' = Kept(native, Held(active', conns, forks'))
    /\ UNCHANGED <<NoFrame, sessions, ledgers, current, left, overlapped>>

\* The client goes away: the handler is cancelled, the blocking task runs on.
Abandon(f) ==
    /\ f \in Forking /\ ~forks[f].abandoned /\ Spend("faults")
    /\ forks' = [forks EXCEPT ![f].abandoned = TRUE] /\ overlapped' = TRUE
    /\ UNCHANGED <<NoFrame, sessions, ledgers, native, active, current>>

Tick ==
    /\ Spend("ticks") /\ second' = second + 1
    /\ UNCHANGED <<kind, sessions, ledgers, native, active, current, registry, conns,
                   forks, overlapped>>

-----------------------------------------------------------------------------
\* A blocking thread's next step, and the handler's.
Worker(c) ==
    \/ Stub(c) \/ LockPoisoned(c) \/ Lock(c) \/ Infer(c) \/ Reason(c) \/ Dispatch(c)
    \/ Outcome(c)

Handler(c) == Send(c) \/ SendFails(c) \/ Closed(c)

ForkTask(f) ==
    \/ Fork(f) \/ ForkBoot(f) \/ ForkBootFails(f) \/ ForkLoad(f) \/ ForkLoadFails(f)
    \/ ForkDigest(f) \/ ForkSwap(f) \/ Abandon(f)

Next ==
    \/ \E c \in Conns :
          \/ CreateSession(c) \/ Stream(c) \/ Malformed(c) \/ UserPrompt(c) \/ Hangup(c)
          \/ Worker(c) \/ Handler(c) \/ EndOfAnswer(c) \/ InferFails(c) \/ DispatchFails(c)
          \/ Panic(c)
    \/ \E f \in Forks : ForkTask(f)
    \/ Tick

Spec == Init /\ [][Next]_vars

(***************************************************************************)
(* The runtime's threads go on and native calls return.  Nothing is        *)
(* assumed of clients, clocks and forks.                                   *)
(***************************************************************************)
FairSpec == Spec /\ \A c \in Conns : WF_vars(Worker(c)) /\ WF_vars(Handler(c))

-----------------------------------------------------------------------------
(***************************************************************************)
(* The frames of a turn are what the browser's state machine expects       *)
(* (sessions.rs, ServerFrame): turn_start, text, pairs of tool_call and    *)
(* tool_result, or one error, then turn_end and nothing after it; never an *)
(* empty turn; and a turn without an error shows every call of the model   *)
(* and no less than that something was malformed.  Only a panic of the     *)
(* worker or a socket that is gone leaves a turn open.                     *)
(***************************************************************************)
Count(seq, x) == Cardinality({i \in DOMAIN seq : seq[i] = x})

Ordered(f) ==
    \A i \in DOMAIN f :
        /\ f[i] = "turn_start" <=> i = 1
        /\ f[i] = "result" => f[i - 1] = "call"
        /\ f[i] = "text" => f[i - 1] \in {"turn_start", "text"}
        /\ f[i] = "error" => i = 2
        /\ f[i] = "call" => f[i - 1] \in {"turn_start", "text", "result"}
        /\ f[i] = "turn_end" =>
              i = Len(f) /\ f[i - 1] \in {"text", "result", "error"}

Complete(f) == f # <<>> /\ f[Len(f)] = "turn_end"

FramesWellFormed ==
    \A c \in Conns :
        LET f == conns[c].frames
            said == conns[c].said
        IN  f \notin {<<>>, <<"error">>} =>
              /\ Ordered(f)
              /\ (conns[c].at = "open" /\ ~conns[c].gone /\ ~conns[c].panicked) => Complete(f)
              /\ (Complete(f) /\ Count(f, "error") = 0) =>
                    /\ Count(f, "call") = Calls(said)
                    /\ Count(said, "bad") > 0 => Count(f, "text") > 0

(***************************************************************************)
(* The turns of a session do not mix on its ledger, however many tabs      *)
(* share it: what one turn records stands together (the mutex of           *)
(* SessionBackend, and a poisoned one that is never entered again).        *)
(***************************************************************************)
TurnsDoNotMix ==
    \A s \in DOMAIN sessions :
        LET log == sessions[s].log IN
        \A i, k \in DOMAIN log :
            log[i].turn = log[k].turn => \A j \in i..k : log[j].turn = log[i].turn

(***************************************************************************)
(* The sequences of native calls of load and infer fit together, over any  *)
(* number of prompts, forks, panics and hang-ups: every live handle is of  *)
(* a session somebody holds, a loaded session has exactly its model, what  *)
(* an inference takes is gone when it is over, no handle outlives the one  *)
(* it was made from, and llama.cpp has one backend in the process (both    *)
(* backends, Arc).  That the guards release on an error what was taken so  *)
(* far, once, is assumed (Unwind, Kept), not checked.                      *)
(***************************************************************************)
HandlesOwned ==
    /\ \A n \in native : n[1] \in Held(active, conns, forks) \ {0}
    /\ \A n \in native : \A p \in Parent(n[2]) : <<n[1], p>> \in native
    /\ \A s \in Held(active, conns, forks) \ {0} :
          LET busy == sessions[s].owner # {}
              has == {n[2] : n \in {m \in native : m[1] = s}}
          IN  sessions[s].loaded =>
                Resident(kind) \subseteq has /\ (~busy => has = Resident(kind))
    /\ Cardinality({n \in native : n[2] = "backend"}) <= 1

(***************************************************************************)
(* A fork is all or nothing (ChatBackendFactory: a botched fork does not   *)
(* take down the chat surface): the active session always has its model,   *)
(* its ledger is no other session's, and with one fork at a time the       *)
(* factory's digest is the active model's once the fork is over.           *)
(***************************************************************************)
ForkSound ==
    /\ active # 0 => sessions[active].loaded
    /\ \A s, t \in DOMAIN sessions : s # t => sessions[s].ledger # sessions[t].ledger
    /\ (active # 0 /\ Forking = {} /\ ~overlapped) => current = sessions[active].model


(***************************************************************************)
(* chat.rs:168-170 says the factory ships same-backend swaps, one GGUF     *)
(* model for another: a fork to a cached model with nothing going wrong    *)
(* does not fail.                                                          *)
(***************************************************************************)
ForkSwaps ==
    \A f \in Forks :
        (forks[f].at = "failed" /\ kind # "stub" /\ forks[f].model \in Cached)
            => \/ overlapped \/ \E b \in Budgets : left.faults < b.faults
               \/ \E g \in Forks \ {f} : forks[g].name = forks[f].name
=============================================================================
