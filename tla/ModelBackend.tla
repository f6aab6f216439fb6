---------------------------- MODULE ModelBackend ----------------------------
(***************************************************************************)
(* The two model backends behind the Backend and LoadedModel traits        *)
(* (crates/inference-engine/src/backend.rs): llama.cpp                     *)
(* (crates/llama-backend) and LiteRT-LM (crates/litertlm-backend).  Each   *)
(* of load and infer is a sequence of native calls.  A call takes a native *)
(* handle, gives some back, or only computes; when it fails, the guards of *)
(* the calls before it give back what this load or infer has taken.        *)
(***************************************************************************)
EXTENDS Naturals, Sequences, FiniteSets

Kinds == {"llama", "litertlm"}

\* A native call: the handle it takes (a set of at most one) and those it gives back.
Take(h) == [take |-> {h}, give |-> {}]
Give(hs) == [take |-> {}, give |-> hs]
Compute == [take |-> {}, give |-> {}]

-----------------------------------------------------------------------------
(* llama.cpp.                                                              *)

\* Backend::init, Model::load: the model owns the backend (Arc).
LlamaInit == Take("backend")
LlamaLoad == Take("model")

\* llama.cpp is initialised once per process: a live Backend refuses another.
Refused(call, handles) == "backend" \in call.take /\ \E h \in handles : h[2] = "backend"

\* The chat template, Session::new, the prompt's tokens and their decoding.
LlamaTemplate == Compute
LlamaSession == Take("context")
LlamaPrompt == Compute

(***************************************************************************)
(* The generation loop: each round samples one token, which ends the       *)
(* answer or is decoded for the next round, max_tokens rounds at most.  A  *)
(* token that is not UTF-8 or a failed decode fails the whole answer.      *)
(***************************************************************************)
LlamaGenerate(maxTokens) == [i \in 1..maxTokens |-> Compute]

\* The fresh context is dropped when infer returns.
LlamaDrop == Give({"context"})

-----------------------------------------------------------------------------
(* LiteRT-LM.                                                              *)

\* Engine::load: the settings are deleted once the engine exists.
LiteRtLoad == <<Take("settings"), Take("engine"), Give({"settings"})>>

\* split_messages, serialize_history and serialize_tools.
LiteRtSplit == <<Compute>>

\* Faulty variant: the configuration of the conversation is not deleted.
LiteRtOpenLeaks ==
    <<Take("session_config"), Take("conversation_config"), Take("conversation"),
      Give({"session_config"})>>

\* Conversation::open: the two configurations are deleted once the conversation exists.
LiteRtOpen ==
    <<Take("session_config"), Take("conversation_config"), Take("conversation"),
      Give({"conversation_config", "session_config"})>>

\* send_message, and the response's string.
LiteRtSend == <<Take("response"), Compute>>

LiteRtDrop == <<Give({"response", "conversation"})>>

-----------------------------------------------------------------------------
(* The calls of load and infer, in order.                                  *)

LoadCalls(kind) ==
    IF kind = "llama" THEN <<LlamaInit, LlamaLoad>> ELSE LiteRtLoad

InferCalls(kind, maxTokens) ==
    IF kind = "llama"
    THEN <<LlamaTemplate, LlamaSession, LlamaPrompt>> \o LlamaGenerate(maxTokens)
            \o <<LlamaDrop>>
    ELSE LiteRtSplit \o LiteRtOpen \o LiteRtSend \o LiteRtDrop

\* What a loaded model holds, and what an inference may hold besides.
Resident(kind) == IF kind = "llama" THEN {"backend", "model"} ELSE {"engine"}
Transient == {"context", "settings", "session_config", "conversation_config",
              "conversation", "response"}

\* The handle another one is made from: it must be alive as long.
Parent(h) ==
    CASE h = "model" -> {"backend"}
      [] h = "context" -> {"model"}
      [] h \in {"conversation_config", "conversation"} -> {"engine"}
      [] h = "response" -> {"conversation"}
      [] h \in {"backend", "engine", "settings", "session_config"} -> {}

-----------------------------------------------------------------------------
(***************************************************************************)
(* The answer.  What the model emitted is a sequence of pieces: "text", a  *)
(* well-formed "call" and a "bad" one (malformed or, at the end of a llama *)
(* answer, unterminated).                                                  *)
(***************************************************************************)
Pieces == {"text", "call", "bad"}
Calls(raw) == Cardinality({i \in DOMAIN raw : raw[i] = "call"})
Answer(text, calls) == [ok |-> TRUE, text |-> text, calls |-> calls]
NoAnswer == [ok |-> FALSE, text |-> FALSE, calls |-> 0]

\* parse_response: a bad block stays in the text.
LlamaParse(raw) == Answer(\E i \in DOMAIN raw : raw[i] # "call", Calls(raw))

\* Faulty variant: a bad call is skipped.
LiteRtParseSkips(raw) == Answer(\E i \in DOMAIN raw : raw[i] = "text", Calls(raw))

\* parse_conversation_response: one bad call fails the answer.
LiteRtParse(raw) ==
    IF \E i \in DOMAIN raw : raw[i] = "bad" THEN NoAnswer
    ELSE Answer(\E i \in DOMAIN raw : raw[i] = "text", Calls(raw))

Parse(kind, raw) == IF kind = "llama" THEN LlamaParse(raw) ELSE LiteRtParse(raw)

-----------------------------------------------------------------------------
(***************************************************************************)
(* What the model is shown of a request's messages (role and the rest).    *)
(* LiteRT-LM takes the system message apart, sends the last user message   *)
(* and preloads what stands before it.                                     *)
(***************************************************************************)
LastUser(messages) ==
    LET users == {i \in DOMAIN messages : messages[i].role = "user"}
    IN  IF users = {} THEN 0 ELSE CHOOSE i \in users : \A j \in users : j <= i

SplitMessages(messages) ==
    LET first == IF messages # <<>> /\ messages[1].role = "system" THEN 2 ELSE 1
        last == LastUser(messages)
    IN  [ok |-> last # 0, system |-> SubSeq(messages, 1, first - 1),
         history |-> SubSeq(messages, first, last - 1),
         latest |-> IF last = 0 THEN <<>> ELSE <<messages[last]>>]
=============================================================================
