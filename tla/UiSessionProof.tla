--------------------------- MODULE UiSessionProof ---------------------------
(***************************************************************************)
(* The safety properties of UiSession, for any number of tabs, forks,      *)
(* models and budgets, any max_tokens and answers of any length.  The      *)
(* inductive invariant has seven parts: the types; which sessions are      *)
(* loaded and what names their ledgers have; the factory's digest; the     *)
(* mutex; the turns' numbers on the ledgers; the native handles each       *)
(* session has at each native call; and the frames sent and still to send. *)
(***************************************************************************)
EXTENDS UiSession, FiniteSetTheorems, TLAPS

\* The native handles, the frames and the ledger entries there are.
Handles == {"backend", "model", "engine"} \cup Transient
FrameNames == {"turn_start", "text", "call", "result", "error", "turn_end"}
Entries == [turn : Nat, type : {"reasoning", "mediated"}]

Places == {"closed", "open", "lock", "infer", "parse", "dispatch", "reply"}
Stages == {"idle", "boot", "load", "digest", "swap", "ok", "failed"}

\* A ledger's name: the model's digest and the second.
Names == Models \X Nat

SessionRecords ==
    [model : Models, ledger : Names, loaded : BOOLEAN, owner : SUBSET Conns,
     poisoned : BOOLEAN, log : Seq(Entries)]
ConnRecords ==
    [at : Places, session : Nat,
     gone : BOOLEAN, turn : Nat, call : Nat, said : Seq(Pieces), todo : Seq(FrameNames),
     frames : Seq(FrameNames), panicked : BOOLEAN]
ForkRecords ==
    [at : Stages, model : Models,
     name : Names, session : Nat, call : Nat, abandoned : BOOLEAN]

\* The variables' types.
Types ==
    /\ kind \in BackendKinds
    /\ sessions \in Seq(SessionRecords)
    /\ ledgers \in SUBSET Names
    /\ native \in SUBSET (Nat \X Handles)
    /\ active \in Nat /\ current \in Models
    /\ conns \in [Conns -> ConnRecords]
    /\ forks \in [Forks -> ForkRecords]
    /\ second \in Nat
    /\ left \in [prompts : Nat, forks : Nat, faults : Nat, ticks : Nat]
    /\ overlapped \in BOOLEAN

\* A fork with a session of its own; a turn in a session, and one on its way to it.
Live == {"load", "digest", "swap"}
Busy == {"infer", "parse", "dispatch"}
Streaming == {"lock"} \cup Busy

(***************************************************************************)
(* Every session has a ledger file of its own; what is active or captured  *)
(* by a WebSocket is loaded; a fork's session is nobody else's, of the     *)
(* model asked for, and loaded when the last native call is done.          *)
(***************************************************************************)
SessionsInv ==
    /\ active <= Len(sessions)
    /\ active # 0 => sessions[active].loaded
    /\ \A s \in DOMAIN sessions : sessions[s].ledger \in ledgers
    /\ \A s, t \in DOMAIN sessions : s # t => sessions[s].ledger # sessions[t].ledger
    /\ \A c \in Conns : conns[c].session # 0 =>
          conns[c].session \in DOMAIN sessions /\ sessions[conns[c].session].loaded
    /\ \A f \in Forks : forks[f].at \in {"idle", "boot"} => forks[f].call = 1
    /\ \A f \in Forks : forks[f].at = "idle" => ~forks[f].abandoned
    /\ \A f \in Forks : forks[f].at \in Live =>
          /\ forks[f].session \in DOMAIN sessions
          /\ sessions[forks[f].session].model = forks[f].model
          /\ sessions[forks[f].session].loaded <=> forks[f].at # "load"
    /\ \A f \in Forks : forks[f].at = "load" => forks[f].call \in DOMAIN LoadCalls(kind)
    /\ \A f, g \in Forks :
          forks[f].at \in Live /\ forks[g].at \in Live /\ forks[f].session = forks[g].session
            => f = g

(***************************************************************************)
(* While forks have not overlapped there is at most one, and the factory's *)
(* digest is that fork's model between its digest and its swap, and the    *)
(* active session's otherwise.                                             *)
(***************************************************************************)
DigestInv ==
    ~overlapped =>
      /\ \A f, g \in Forking : f = g
      /\ \A f \in Forking : ~forks[f].abandoned
      /\ \A f \in Forks : forks[f].at = "swap" => current = forks[f].model
      /\ (active # 0 /\ \A f \in Forks : forks[f].at # "swap")
            => current = sessions[active].model

(***************************************************************************)
(* A session's mutex is held by the turn that is in it, and by one at most.*)
(***************************************************************************)
MutexInv ==
    /\ \A s \in DOMAIN sessions : \A c \in Conns :
          c \in sessions[s].owner <=> conns[c].at \in Busy /\ conns[c].session = s
    /\ \A s \in DOMAIN sessions : \A c, d \in sessions[s].owner : c = d
    /\ \A c \in Conns : conns[c].at \in Busy => conns[c].session # 0

(***************************************************************************)
(* Turns are numbered downwards by what is left of the prompts: no two     *)
(* have the same, one that has not recorded is on no ledger, and one that  *)
(* is recording is the last on its session's.                              *)
(***************************************************************************)
LogInv ==
    /\ \A s \in DOMAIN sessions : \A i \in DOMAIN sessions[s].log :
          sessions[s].log[i].turn > left.prompts
    /\ \A c \in Conns : conns[c].at \in Streaming => conns[c].turn > left.prompts
    /\ \A c, d \in Conns :
          conns[c].at \in Streaming /\ conns[d].at \in Streaming
            /\ conns[c].turn = conns[d].turn => c = d
    /\ \A c \in Conns : conns[c].at \in {"lock", "infer", "parse"} =>
          \A s \in DOMAIN sessions : \A i \in DOMAIN sessions[s].log :
             sessions[s].log[i].turn # conns[c].turn
    /\ \A c \in Conns : conns[c].at = "dispatch" =>
          LET log == sessions[conns[c].session].log
          IN  log # <<>> /\ log[Len(log)].turn = conns[c].turn

\* What an inference, or a load, holds before its native call number call.
InferHeld(k, call) ==
    IF k = "llama" THEN IF call >= 3 THEN {"context"} ELSE {}
    ELSE CASE call <= 2 -> {}
           [] call = 3 -> {"session_config"}
           [] call = 4 -> {"session_config", "conversation_config"}
           [] call = 5 -> {"session_config", "conversation_config", "conversation"}
           [] call = 6 -> {"conversation"}
           [] call >= 7 -> {"conversation", "response"}

LoadHeld(k, call) ==
    IF k = "llama" THEN IF call = 1 THEN {} ELSE {"backend"}
    ELSE CASE call = 1 -> {}
           [] call = 2 -> {"settings"}
           [] call >= 3 -> {"settings", "engine"}

(***************************************************************************)
(* The live handles are those of held sessions: exactly the model's, and   *)
(* those an inference or a load holds at its call; one "backend" at most.  *)
(***************************************************************************)
NativeInv ==
    /\ \A n \in native : n[1] \in Held(active, conns, forks) /\ n[1] # 0
    /\ \A c \in Conns : conns[c].at = "infer" =>
          /\ conns[c].call \in DOMAIN InferCalls(kind, MaxTokens)
          /\ \A h \in Handles : <<conns[c].session, h>> \in native
                <=> h \in Resident(kind) \cup InferHeld(kind, conns[c].call)
    /\ \A f \in Forks : forks[f].at = "load" =>
          \A h \in Handles :
             <<forks[f].session, h>> \in native <=> h \in LoadHeld(kind, forks[f].call)
    /\ \A s \in Held(active, conns, forks) :
          s # 0 /\ sessions[s].loaded /\ (\A c \in Conns : conns[c].at = "infer" => conns[c].session # s)
            => \A h \in Handles : <<s, h>> \in native <=> h \in Resident(kind)
    /\ \A m, n \in native : m[2] = "backend" /\ n[2] = "backend" => m = n

(***************************************************************************)
(* The frames of a turn that is over, those of one that was cut off, and   *)
(* what they are at each place of a connection: what was sent and what is  *)
(* to be sent make a whole turn.                                           *)
(***************************************************************************)
Whole(f, said) ==
    /\ Ordered(f) /\ Complete(f)
    /\ Count(f, "error") = 0 =>
          /\ Count(f, "call") = Calls(said)
          /\ Count(said, "bad") > 0 => Count(f, "text") > 0

Part(f) == f # <<>> /\ Ordered(f) /\ \A i \in DOMAIN f : f[i] # "turn_end"

FrameOk(r) ==
    /\ r.at = "closed" => r.frames = <<>> /\ r.session = 0
    /\ r.at \in Streaming => r.frames = <<"turn_start">>
    /\ r.at = "lock" => r.said = <<>>
    /\ r.at = "dispatch" => Parse(kind, r.said).ok
    /\ r.at = "reply" => r.todo # <<>> /\ r.frames # <<>> /\ Whole(r.frames \o r.todo, r.said)
    /\ r.at = "open" =>
          \/ r.frames = <<>>
          \/ r.frames = <<"error">>
          \/ Whole(r.frames, r.said)
          \/ (r.gone \/ r.panicked) /\ Part(r.frames)

FrameInv == \A c \in Conns : FrameOk(conns[c])
-----------------------------------------------------------------------------
(* What each action does to the connection, session or fork it is about,   *)
(* field by field.                                                         *)

OneConn(c) ==
    /\ conns' \in [Conns -> ConnRecords]
    /\ \A d \in Conns : d # c => conns'[d] = conns[d]

OneSession(s) ==
    /\ sessions' \in Seq(SessionRecords) /\ Len(sessions') = Len(sessions)
    /\ \A t \in DOMAIN sessions : t # s => sessions'[t] = sessions[t]
    /\ sessions'[s].model = sessions[s].model /\ sessions'[s].ledger = sessions[s].ledger

ConnIs(c, r) == conns' = [conns EXCEPT ![c] = r]
SessionIs(s, r) == sessions' = [sessions EXCEPT ![s] = r]
ForkIs(f, r) == forks' = [forks EXCEPT ![f] = r]

OneFork(f) ==
    /\ forks' \in [Forks -> ForkRecords]
    /\ \A g \in Forks : g # f => forks'[g] = forks[g]

\* A connection is replaced by another record.
LEMMA ConnReplaced ==
    ASSUME Types, NEW c \in Conns, NEW q \in ConnRecords, conns' = [conns EXCEPT ![c] = q]
    PROVE  OneConn(c) /\ conns'[c] = q
  BY DEF Types, OneConn

\* A session is replaced by another record of the same model and ledger.
LEMMA SessionReplaced ==
    ASSUME Types, NEW s \in DOMAIN sessions, NEW q \in SessionRecords,
           q.model = sessions[s].model, q.ledger = sessions[s].ledger,
           sessions' = [sessions EXCEPT ![s] = q]
    PROVE  OneSession(s) /\ sessions'[s] = q
<1>1. sessions \in Seq(SessionRecords)
  BY DEF Types
<1>2. sessions' \in Seq(SessionRecords) /\ Len(sessions') = Len(sessions)
  BY <1>1
<1>3. sessions'[s] = q /\ \A t \in DOMAIN sessions : t # s => sessions'[t] = sessions[t]
  BY <1>1
<1> QED
  BY <1>2, <1>3 DEF OneSession

\* A fork is replaced by another record.
LEMMA ForkReplaced ==
    ASSUME Types, NEW f \in Forks, NEW q \in ForkRecords, forks' = [forks EXCEPT ![f] = q]
    PROVE  OneFork(f) /\ forks'[f] = q
  BY DEF Types, OneFork

WithConnFrames(r, fr) == [r EXCEPT !.frames = fr]

\* A connection whose record changes in frames keeps the rest.
LEMMA ConnFrames ==
    ASSUME Types, NEW c \in Conns, NEW fr \in Seq(FrameNames),
           ConnIs(c, WithConnFrames(conns[c], fr))
    PROVE  /\ OneConn(c) /\ conns'[c].frames = fr /\ conns'[c].at = conns[c].at
           /\ conns'[c].session = conns[c].session /\ conns'[c].gone = conns[c].gone
           /\ conns'[c].turn = conns[c].turn /\ conns'[c].call = conns[c].call
           /\ conns'[c].said = conns[c].said /\ conns'[c].todo = conns[c].todo
           /\ conns'[c].panicked = conns[c].panicked
<1>1. PICK r \in ConnRecords : r = conns[c]
  BY DEF Types
<1>2. PICK q : q = [r EXCEPT !.frames = fr]
  OBVIOUS
<1>3. conns' = [conns EXCEPT ![c] = q]
  BY <1>1, <1>2 DEF Types, ConnIs, WithConnFrames
<1>4. /\ q \in ConnRecords /\ q.frames = fr /\ q.at = r.at /\ q.session = r.session
      /\ q.gone = r.gone /\ q.turn = r.turn /\ q.call = r.call /\ q.said = r.said
      /\ q.todo = r.todo /\ q.panicked = r.panicked
  BY <1>1, <1>2 DEF ConnRecords, Places
<1>6. OneConn(c) /\ conns'[c] = q
  BY <1>3, <1>4, ConnReplaced
<1>7. conns[c] = r /\ conns'[c] = q
  BY <1>1, <1>6
<1> QED
  BY <1>4, <1>6, <1>7

WithConnPrompt(r, a, fr, t, p, w) ==
    [r EXCEPT !.at = a, !.frames = fr, !.turn = t, !.panicked = p, !.said = w]

\* A connection whose record changes in what a prompt sets keeps the rest.
LEMMA ConnPrompt ==
    ASSUME Types, NEW c \in Conns, NEW a \in Places, NEW fr \in Seq(FrameNames), NEW t \in Nat,
           NEW p \in BOOLEAN, NEW w \in Seq(Pieces),
           ConnIs(c, WithConnPrompt(conns[c], a, fr, t, p, w))
    PROVE  /\ OneConn(c) /\ conns'[c].at = a /\ conns'[c].frames = fr /\ conns'[c].turn = t
           /\ conns'[c].panicked = p /\ conns'[c].said = w
           /\ conns'[c].session = conns[c].session /\ conns'[c].gone = conns[c].gone
           /\ conns'[c].call = conns[c].call /\ conns'[c].todo = conns[c].todo
<1>1. PICK r \in ConnRecords : r = conns[c]
  BY DEF Types
<1>2. PICK q : q = [r EXCEPT !.at = a, !.frames = fr, !.turn = t, !.panicked = p, !.said = w]
  OBVIOUS
<1>3. conns' = [conns EXCEPT ![c] = q]
  BY <1>1, <1>2 DEF Types, ConnIs, WithConnPrompt
<1>4. /\ q \in ConnRecords /\ q.at = a /\ q.frames = fr /\ q.turn = t /\ q.panicked = p
      /\ q.said = w /\ q.session = r.session /\ q.gone = r.gone /\ q.call = r.call
      /\ q.todo = r.todo
  BY <1>1, <1>2 DEF ConnRecords, Places
<1>6. OneConn(c) /\ conns'[c] = q
  BY <1>3, <1>4, ConnReplaced
<1>7. conns[c] = r /\ conns'[c] = q
  BY <1>1, <1>6
<1> QED
  BY <1>4, <1>6, <1>7

WithConnSent(r, fr, td, a) == [r EXCEPT !.frames = fr, !.todo = td, !.at = a]

\* A connection whose record changes in what a send moves keeps the rest.
LEMMA ConnSent ==
    ASSUME Types, NEW c \in Conns, NEW fr \in Seq(FrameNames), NEW td \in Seq(FrameNames),
           NEW a \in Places,
           ConnIs(c, WithConnSent(conns[c], fr, td, a))
    PROVE  /\ OneConn(c) /\ conns'[c].frames = fr /\ conns'[c].todo = td /\ conns'[c].at = a
           /\ conns'[c].session = conns[c].session /\ conns'[c].gone = conns[c].gone
           /\ conns'[c].turn = conns[c].turn /\ conns'[c].call = conns[c].call
           /\ conns'[c].said = conns[c].said /\ conns'[c].panicked = conns[c].panicked
<1>1. PICK r \in ConnRecords : r = conns[c]
  BY DEF Types
<1>2. PICK q : q = [r EXCEPT !.frames = fr, !.todo = td, !.at = a]
  OBVIOUS
<1>3. conns' = [conns EXCEPT ![c] = q]
  BY <1>1, <1>2 DEF Types, ConnIs, WithConnSent
<1>4. /\ q \in ConnRecords /\ q.frames = fr /\ q.todo = td /\ q.at = a /\ q.session = r.session
      /\ q.gone = r.gone /\ q.turn = r.turn /\ q.call = r.call /\ q.said = r.said
      /\ q.panicked = r.panicked
  BY <1>1, <1>2 DEF ConnRecords, Places
<1>6. OneConn(c) /\ conns'[c] = q
  BY <1>3, <1>4, ConnReplaced
<1>7. conns[c] = r /\ conns'[c] = q
  BY <1>1, <1>6
<1> QED
  BY <1>4, <1>6, <1>7

WithConnTodo(r, a, td) == [r EXCEPT !.at = a, !.todo = td]

\* A connection whose record changes in the frames to send keeps the rest.
LEMMA ConnTodo ==
    ASSUME Types, NEW c \in Conns, NEW a \in Places, NEW td \in Seq(FrameNames),
           ConnIs(c, WithConnTodo(conns[c], a, td))
    PROVE  /\ OneConn(c) /\ conns'[c].at = a /\ conns'[c].todo = td
           /\ conns'[c].session = conns[c].session /\ conns'[c].gone = conns[c].gone
           /\ conns'[c].turn = conns[c].turn /\ conns'[c].call = conns[c].call
           /\ conns'[c].said = conns[c].said /\ conns'[c].frames = conns[c].frames
           /\ conns'[c].panicked = conns[c].panicked
<1>1. PICK r \in ConnRecords : r = conns[c]
  BY DEF Types
<1>2. PICK q : q = [r EXCEPT !.at = a, !.todo = td]
  OBVIOUS
<1>3. conns' = [conns EXCEPT ![c] = q]
  BY <1>1, <1>2 DEF Types, ConnIs, WithConnTodo
<1>4. /\ q \in ConnRecords /\ q.at = a /\ q.todo = td /\ q.session = r.session
      /\ q.gone = r.gone /\ q.turn = r.turn /\ q.call = r.call /\ q.said = r.said
      /\ q.frames = r.frames /\ q.panicked = r.panicked
  BY <1>1, <1>2 DEF ConnRecords, Places
<1>6. OneConn(c) /\ conns'[c] = q
  BY <1>3, <1>4, ConnReplaced
<1>7. conns[c] = r /\ conns'[c] = q
  BY <1>1, <1>6
<1> QED
  BY <1>4, <1>6, <1>7

WithConnGone(r, g) == [r EXCEPT !.gone = g]

\* A connection whose record changes in the socket keeps the rest.
LEMMA ConnGone ==
    ASSUME Types, NEW c \in Conns, NEW g \in BOOLEAN,
           ConnIs(c, WithConnGone(conns[c], g))
    PROVE  /\ OneConn(c) /\ conns'[c].gone = g /\ conns'[c].at = conns[c].at
           /\ conns'[c].session = conns[c].session /\ conns'[c].turn = conns[c].turn
           /\ conns'[c].call = conns[c].call /\ conns'[c].said = conns[c].said
           /\ conns'[c].todo = conns[c].todo /\ conns'[c].frames = conns[c].frames
           /\ conns'[c].panicked = conns[c].panicked
<1>1. PICK r \in ConnRecords : r = conns[c]
  BY DEF Types
<1>2. PICK q : q = [r EXCEPT !.gone = g]
  OBVIOUS
<1>3. conns' = [conns EXCEPT ![c] = q]
  BY <1>1, <1>2 DEF Types, ConnIs, WithConnGone
<1>4. /\ q \in ConnRecords /\ q.gone = g /\ q.at = r.at /\ q.session = r.session
      /\ q.turn = r.turn /\ q.call = r.call /\ q.said = r.said /\ q.todo = r.todo
      /\ q.frames = r.frames /\ q.panicked = r.panicked
  BY <1>1, <1>2 DEF ConnRecords, Places
<1>6. OneConn(c) /\ conns'[c] = q
  BY <1>3, <1>4, ConnReplaced
<1>7. conns[c] = r /\ conns'[c] = q
  BY <1>1, <1>6
<1> QED
  BY <1>4, <1>6, <1>7

WithConnEntered(r, a, k) == [r EXCEPT !.at = a, !.call = k]

\* A connection whose record changes in the place and the call keeps the rest.
LEMMA ConnEntered ==
    ASSUME Types, NEW c \in Conns, NEW a \in Places, NEW k \in Nat,
           ConnIs(c, WithConnEntered(conns[c], a, k))
    PROVE  /\ OneConn(c) /\ conns'[c].at = a /\ conns'[c].call = k
           /\ conns'[c].session = conns[c].session /\ conns'[c].gone = conns[c].gone
           /\ conns'[c].turn = conns[c].turn /\ conns'[c].said = conns[c].said
           /\ conns'[c].todo = conns[c].todo /\ conns'[c].frames = conns[c].frames
           /\ conns'[c].panicked = conns[c].panicked
<1>1. PICK r \in ConnRecords : r = conns[c]
  BY DEF Types
<1>2. PICK q : q = [r EXCEPT !.at = a, !.call = k]
  OBVIOUS
<1>3. conns' = [conns EXCEPT ![c] = q]
  BY <1>1, <1>2 DEF Types, ConnIs, WithConnEntered
<1>4. /\ q \in ConnRecords /\ q.at = a /\ q.call = k /\ q.session = r.session
      /\ q.gone = r.gone /\ q.turn = r.turn /\ q.said = r.said /\ q.todo = r.todo
      /\ q.frames = r.frames /\ q.panicked = r.panicked
  BY <1>1, <1>2 DEF ConnRecords, Places
<1>6. OneConn(c) /\ conns'[c] = q
  BY <1>3, <1>4, ConnReplaced
<1>7. conns[c] = r /\ conns'[c] = q
  BY <1>1, <1>6
<1> QED
  BY <1>4, <1>6, <1>7

WithConnCalled(r, k) == [r EXCEPT !.call = k]

\* A connection whose record changes in the call keeps the rest.
LEMMA ConnCalled ==
    ASSUME Types, NEW c \in Conns, NEW k \in Nat,
           ConnIs(c, WithConnCalled(conns[c], k))
    PROVE  /\ OneConn(c) /\ conns'[c].call = k /\ conns'[c].at = conns[c].at
           /\ conns'[c].session = conns[c].session /\ conns'[c].gone = conns[c].gone
           /\ conns'[c].turn = conns[c].turn /\ conns'[c].said = conns[c].said
           /\ conns'[c].todo = conns[c].todo /\ conns'[c].frames = conns[c].frames
           /\ conns'[c].panicked = conns[c].panicked
<1>1. PICK r \in ConnRecords : r = conns[c]
  BY DEF Types
<1>2. PICK q : q = [r EXCEPT !.call = k]
  OBVIOUS
<1>3. conns' = [conns EXCEPT ![c] = q]
  BY <1>1, <1>2 DEF Types, ConnIs, WithConnCalled
<1>4. /\ q \in ConnRecords /\ q.call = k /\ q.at = r.at /\ q.session = r.session
      /\ q.gone = r.gone /\ q.turn = r.turn /\ q.said = r.said /\ q.todo = r.todo
      /\ q.frames = r.frames /\ q.panicked = r.panicked
  BY <1>1, <1>2 DEF ConnRecords, Places
<1>6. OneConn(c) /\ conns'[c] = q
  BY <1>3, <1>4, ConnReplaced
<1>7. conns[c] = r /\ conns'[c] = q
  BY <1>1, <1>6
<1> QED
  BY <1>4, <1>6, <1>7

WithConnSaid(r, a, k, w) == [r EXCEPT !.at = a, !.call = k, !.said = w]

\* A connection whose record changes in the answer keeps the rest.
LEMMA ConnSaid ==
    ASSUME Types, NEW c \in Conns, NEW a \in Places, NEW k \in Nat, NEW w \in Seq(Pieces),
           ConnIs(c, WithConnSaid(conns[c], a, k, w))
    PROVE  /\ OneConn(c) /\ conns'[c].at = a /\ conns'[c].call = k /\ conns'[c].said = w
           /\ conns'[c].session = conns[c].session /\ conns'[c].gone = conns[c].gone
           /\ conns'[c].turn = conns[c].turn /\ conns'[c].todo = conns[c].todo
           /\ conns'[c].frames = conns[c].frames /\ conns'[c].panicked = conns[c].panicked
<1>1. PICK r \in ConnRecords : r = conns[c]
  BY DEF Types
<1>2. PICK q : q = [r EXCEPT !.at = a, !.call = k, !.said = w]
  OBVIOUS
<1>3. conns' = [conns EXCEPT ![c] = q]
  BY <1>1, <1>2 DEF Types, ConnIs, WithConnSaid
<1>4. /\ q \in ConnRecords /\ q.at = a /\ q.call = k /\ q.said = w /\ q.session = r.session
      /\ q.gone = r.gone /\ q.turn = r.turn /\ q.todo = r.todo /\ q.frames = r.frames
      /\ q.panicked = r.panicked
  BY <1>1, <1>2 DEF ConnRecords, Places
<1>6. OneConn(c) /\ conns'[c] = q
  BY <1>3, <1>4, ConnReplaced
<1>7. conns[c] = r /\ conns'[c] = q
  BY <1>1, <1>6
<1> QED
  BY <1>4, <1>6, <1>7

WithConnPanicked(r, a, p) == [r EXCEPT !.at = a, !.panicked = p]

\* A connection whose record changes in a panic keeps the rest.
LEMMA ConnPanicked ==
    ASSUME Types, NEW c \in Conns, NEW a \in Places, NEW p \in BOOLEAN,
           ConnIs(c, WithConnPanicked(conns[c], a, p))
    PROVE  /\ OneConn(c) /\ conns'[c].at = a /\ conns'[c].panicked = p
           /\ conns'[c].session = conns[c].session /\ conns'[c].gone = conns[c].gone
           /\ conns'[c].turn = conns[c].turn /\ conns'[c].call = conns[c].call
           /\ conns'[c].said = conns[c].said /\ conns'[c].todo = conns[c].todo
           /\ conns'[c].frames = conns[c].frames
<1>1. PICK r \in ConnRecords : r = conns[c]
  BY DEF Types
<1>2. PICK q : q = [r EXCEPT !.at = a, !.panicked = p]
  OBVIOUS
<1>3. conns' = [conns EXCEPT ![c] = q]
  BY <1>1, <1>2 DEF Types, ConnIs, WithConnPanicked
<1>4. /\ q \in ConnRecords /\ q.at = a /\ q.panicked = p /\ q.session = r.session
      /\ q.gone = r.gone /\ q.turn = r.turn /\ q.call = r.call /\ q.said = r.said
      /\ q.todo = r.todo /\ q.frames = r.frames
  BY <1>1, <1>2 DEF ConnRecords, Places
<1>6. OneConn(c) /\ conns'[c] = q
  BY <1>3, <1>4, ConnReplaced
<1>7. conns[c] = r /\ conns'[c] = q
  BY <1>1, <1>6
<1> QED
  BY <1>4, <1>6, <1>7

WithSessionOwner(r, o) == [r EXCEPT !.owner = o]

\* A session whose record changes in its owner keeps the rest.
LEMMA SessionOwner ==
    ASSUME Types, NEW s \in DOMAIN sessions, NEW o \in SUBSET Conns,
           SessionIs(s, WithSessionOwner(sessions[s], o))
    PROVE  /\ OneSession(s) /\ sessions'[s].owner = o /\ sessions'[s].model = sessions[s].model
           /\ sessions'[s].ledger = sessions[s].ledger
           /\ sessions'[s].loaded = sessions[s].loaded
           /\ sessions'[s].poisoned = sessions[s].poisoned
           /\ sessions'[s].log = sessions[s].log
<1>1. PICK r \in SessionRecords : r = sessions[s]
  BY DEF Types
<1>2. PICK q : q = [r EXCEPT !.owner = o]
  OBVIOUS
<1>3. sessions' = [sessions EXCEPT ![s] = q]
  BY <1>1, <1>2 DEF Types, SessionIs, WithSessionOwner
<1>4. /\ q \in SessionRecords /\ q.owner = o /\ q.model = r.model /\ q.ledger = r.ledger
      /\ q.loaded = r.loaded /\ q.poisoned = r.poisoned /\ q.log = r.log
  BY <1>1, <1>2 DEF SessionRecords
<1>5. q.model = sessions[s].model /\ q.ledger = sessions[s].ledger
  BY <1>1, <1>4
<1>6. OneSession(s) /\ sessions'[s] = q
  BY <1>3, <1>4, <1>5, SessionReplaced
<1>7. sessions[s] = r /\ sessions'[s] = q
  BY <1>1, <1>6
<1> QED
  BY <1>4, <1>6, <1>7

WithSessionPoisoned(r, o, p) == [r EXCEPT !.owner = o, !.poisoned = p]

\* A session whose record changes in its owner and its poison keeps the rest.
LEMMA SessionPoisoned ==
    ASSUME Types, NEW s \in DOMAIN sessions, NEW o \in SUBSET Conns, NEW p \in BOOLEAN,
           SessionIs(s, WithSessionPoisoned(sessions[s], o, p))
    PROVE  /\ OneSession(s) /\ sessions'[s].owner = o /\ sessions'[s].poisoned = p
           /\ sessions'[s].model = sessions[s].model
           /\ sessions'[s].ledger = sessions[s].ledger
           /\ sessions'[s].loaded = sessions[s].loaded /\ sessions'[s].log = sessions[s].log
<1>1. PICK r \in SessionRecords : r = sessions[s]
  BY DEF Types
<1>2. PICK q : q = [r EXCEPT !.owner = o, !.poisoned = p]
  OBVIOUS
<1>3. sessions' = [sessions EXCEPT ![s] = q]
  BY <1>1, <1>2 DEF Types, SessionIs, WithSessionPoisoned
<1>4. /\ q \in SessionRecords /\ q.owner = o /\ q.poisoned = p /\ q.model = r.model
      /\ q.ledger = r.ledger /\ q.loaded = r.loaded /\ q.log = r.log
  BY <1>1, <1>2 DEF SessionRecords
<1>5. q.model = sessions[s].model /\ q.ledger = sessions[s].ledger
  BY <1>1, <1>4
<1>6. OneSession(s) /\ sessions'[s] = q
  BY <1>3, <1>4, <1>5, SessionReplaced
<1>7. sessions[s] = r /\ sessions'[s] = q
  BY <1>1, <1>6
<1> QED
  BY <1>4, <1>6, <1>7

WithSessionLog(r, w) == [r EXCEPT !.log = w]

\* A session whose record changes in its log keeps the rest.
LEMMA SessionLog ==
    ASSUME Types, NEW s \in DOMAIN sessions, NEW w \in Seq(Entries),
           SessionIs(s, WithSessionLog(sessions[s], w))
    PROVE  /\ OneSession(s) /\ sessions'[s].log = w /\ sessions'[s].model = sessions[s].model
           /\ sessions'[s].ledger = sessions[s].ledger
           /\ sessions'[s].loaded = sessions[s].loaded
           /\ sessions'[s].owner = sessions[s].owner
           /\ sessions'[s].poisoned = sessions[s].poisoned
<1>1. PICK r \in SessionRecords : r = sessions[s]
  BY DEF Types
<1>2. PICK q : q = [r EXCEPT !.log = w]
  OBVIOUS
<1>3. sessions' = [sessions EXCEPT ![s] = q]
  BY <1>1, <1>2 DEF Types, SessionIs, WithSessionLog
<1>4. /\ q \in SessionRecords /\ q.log = w /\ q.model = r.model /\ q.ledger = r.ledger
      /\ q.loaded = r.loaded /\ q.owner = r.owner /\ q.poisoned = r.poisoned
  BY <1>1, <1>2 DEF SessionRecords
<1>5. q.model = sessions[s].model /\ q.ledger = sessions[s].ledger
  BY <1>1, <1>4
<1>6. OneSession(s) /\ sessions'[s] = q
  BY <1>3, <1>4, <1>5, SessionReplaced
<1>7. sessions[s] = r /\ sessions'[s] = q
  BY <1>1, <1>6
<1> QED
  BY <1>4, <1>6, <1>7

WithSessionLoaded(r, b) == [r EXCEPT !.loaded = b]

\* A session whose record changes in its model's load keeps the rest.
LEMMA SessionLoaded ==
    ASSUME Types, NEW s \in DOMAIN sessions, NEW b \in BOOLEAN,
           SessionIs(s, WithSessionLoaded(sessions[s], b))
    PROVE  /\ OneSession(s) /\ sessions'[s].loaded = b
           /\ sessions'[s].model = sessions[s].model
           /\ sessions'[s].ledger = sessions[s].ledger
           /\ sessions'[s].owner = sessions[s].owner
           /\ sessions'[s].poisoned = sessions[s].poisoned
           /\ sessions'[s].log = sessions[s].log
<1>1. PICK r \in SessionRecords : r = sessions[s]
  BY DEF Types
<1>2. PICK q : q = [r EXCEPT !.loaded = b]
  OBVIOUS
<1>3. sessions' = [sessions EXCEPT ![s] = q]
  BY <1>1, <1>2 DEF Types, SessionIs, WithSessionLoaded
<1>4. /\ q \in SessionRecords /\ q.loaded = b /\ q.model = r.model /\ q.ledger = r.ledger
      /\ q.owner = r.owner /\ q.poisoned = r.poisoned /\ q.log = r.log
  BY <1>1, <1>2 DEF SessionRecords
<1>5. q.model = sessions[s].model /\ q.ledger = sessions[s].ledger
  BY <1>1, <1>4
<1>6. OneSession(s) /\ sessions'[s] = q
  BY <1>3, <1>4, <1>5, SessionReplaced
<1>7. sessions[s] = r /\ sessions'[s] = q
  BY <1>1, <1>6
<1> QED
  BY <1>4, <1>6, <1>7

WithForkMoved(r, a) == [r EXCEPT !.at = a]

\* A fork whose record changes in its stage keeps the rest.
LEMMA ForkMoved ==
    ASSUME Types, NEW f \in Forks, NEW a \in Stages,
           ForkIs(f, WithForkMoved(forks[f], a))
    PROVE  /\ OneFork(f) /\ forks'[f].at = a /\ forks'[f].model = forks[f].model
           /\ forks'[f].name = forks[f].name /\ forks'[f].session = forks[f].session
           /\ forks'[f].call = forks[f].call /\ forks'[f].abandoned = forks[f].abandoned
<1>1. PICK r \in ForkRecords : r = forks[f]
  BY DEF Types
<1>2. PICK q : q = [r EXCEPT !.at = a]
  OBVIOUS
<1>3. forks' = [forks EXCEPT ![f] = q]
  BY <1>1, <1>2 DEF Types, ForkIs, WithForkMoved
<1>4. /\ q \in ForkRecords /\ q.at = a /\ q.model = r.model /\ q.name = r.name
      /\ q.session = r.session /\ q.call = r.call /\ q.abandoned = r.abandoned
  BY <1>1, <1>2 DEF ForkRecords, Stages
<1>6. OneFork(f) /\ forks'[f] = q
  BY <1>3, <1>4, ForkReplaced
<1>7. forks[f] = r /\ forks'[f] = q
  BY <1>1, <1>6
<1> QED
  BY <1>4, <1>6, <1>7

WithForkAsked(r, m, n, a) == [r EXCEPT !.model = m, !.name = n, !.at = a]

\* A fork whose record changes in what it was asked keeps the rest.
LEMMA ForkAsked ==
    ASSUME Types, NEW f \in Forks, NEW m \in Models, NEW n \in Names, NEW a \in Stages,
           ForkIs(f, WithForkAsked(forks[f], m, n, a))
    PROVE  /\ OneFork(f) /\ forks'[f].model = m /\ forks'[f].name = n /\ forks'[f].at = a
           /\ forks'[f].session = forks[f].session /\ forks'[f].call = forks[f].call
           /\ forks'[f].abandoned = forks[f].abandoned
<1>1. PICK r \in ForkRecords : r = forks[f]
  BY DEF Types
<1>2. PICK q : q = [r EXCEPT !.model = m, !.name = n, !.at = a]
  OBVIOUS
<1>3. forks' = [forks EXCEPT ![f] = q]
  BY <1>1, <1>2 DEF Types, ForkIs, WithForkAsked
<1>4. /\ q \in ForkRecords /\ q.model = m /\ q.name = n /\ q.at = a /\ q.session = r.session
      /\ q.call = r.call /\ q.abandoned = r.abandoned
  BY <1>1, <1>2 DEF ForkRecords, Stages
<1>6. OneFork(f) /\ forks'[f] = q
  BY <1>3, <1>4, ForkReplaced
<1>7. forks[f] = r /\ forks'[f] = q
  BY <1>1, <1>6
<1> QED
  BY <1>4, <1>6, <1>7

WithForkBooted(r, a, s) == [r EXCEPT !.at = a, !.session = s]

\* A fork whose record changes in its session keeps the rest.
LEMMA ForkBooted ==
    ASSUME Types, NEW f \in Forks, NEW a \in Stages, NEW s \in Nat,
           ForkIs(f, WithForkBooted(forks[f], a, s))
    PROVE  /\ OneFork(f) /\ forks'[f].at = a /\ forks'[f].session = s
           /\ forks'[f].model = forks[f].model /\ forks'[f].name = forks[f].name
           /\ forks'[f].call = forks[f].call /\ forks'[f].abandoned = forks[f].abandoned
<1>1. PICK r \in ForkRecords : r = forks[f]
  BY DEF Types
<1>2. PICK q : q = [r EXCEPT !.at = a, !.session = s]
  OBVIOUS
<1>3. forks' = [forks EXCEPT ![f] = q]
  BY <1>1, <1>2 DEF Types, ForkIs, WithForkBooted
<1>4. /\ q \in ForkRecords /\ q.at = a /\ q.session = s /\ q.model = r.model /\ q.name = r.name
      /\ q.call = r.call /\ q.abandoned = r.abandoned
  BY <1>1, <1>2 DEF ForkRecords, Stages
<1>6. OneFork(f) /\ forks'[f] = q
  BY <1>3, <1>4, ForkReplaced
<1>7. forks[f] = r /\ forks'[f] = q
  BY <1>1, <1>6
<1> QED
  BY <1>4, <1>6, <1>7

WithForkLoads(r, k, a) == [r EXCEPT !.call = k, !.at = a]

\* A fork whose record changes in its load keeps the rest.
LEMMA ForkLoads ==
    ASSUME Types, NEW f \in Forks, NEW k \in Nat, NEW a \in Stages,
           ForkIs(f, WithForkLoads(forks[f], k, a))
    PROVE  /\ OneFork(f) /\ forks'[f].call = k /\ forks'[f].at = a
           /\ forks'[f].model = forks[f].model /\ forks'[f].name = forks[f].name
           /\ forks'[f].session = forks[f].session /\ forks'[f].abandoned = forks[f].abandoned
<1>1. PICK r \in ForkRecords : r = forks[f]
  BY DEF Types
<1>2. PICK q : q = [r EXCEPT !.call = k, !.at = a]
  OBVIOUS
<1>3. forks' = [forks EXCEPT ![f] = q]
  BY <1>1, <1>2 DEF Types, ForkIs, WithForkLoads
<1>4. /\ q \in ForkRecords /\ q.call = k /\ q.at = a /\ q.model = r.model /\ q.name = r.name
      /\ q.session = r.session /\ q.abandoned = r.abandoned
  BY <1>1, <1>2 DEF ForkRecords, Stages
<1>6. OneFork(f) /\ forks'[f] = q
  BY <1>3, <1>4, ForkReplaced
<1>7. forks[f] = r /\ forks'[f] = q
  BY <1>1, <1>6
<1> QED
  BY <1>4, <1>6, <1>7

WithForkAbandoned(r, b) == [r EXCEPT !.abandoned = b]

\* A fork whose record changes in its client keeps the rest.
LEMMA ForkAbandoned ==
    ASSUME Types, NEW f \in Forks, NEW b \in BOOLEAN,
           ForkIs(f, WithForkAbandoned(forks[f], b))
    PROVE  /\ OneFork(f) /\ forks'[f].abandoned = b /\ forks'[f].at = forks[f].at
           /\ forks'[f].model = forks[f].model /\ forks'[f].name = forks[f].name
           /\ forks'[f].session = forks[f].session /\ forks'[f].call = forks[f].call
<1>1. PICK r \in ForkRecords : r = forks[f]
  BY DEF Types
<1>2. PICK q : q = [r EXCEPT !.abandoned = b]
  OBVIOUS
<1>3. forks' = [forks EXCEPT ![f] = q]
  BY <1>1, <1>2 DEF Types, ForkIs, WithForkAbandoned
<1>4. /\ q \in ForkRecords /\ q.abandoned = b /\ q.at = r.at /\ q.model = r.model
      /\ q.name = r.name /\ q.session = r.session /\ q.call = r.call
  BY <1>1, <1>2 DEF ForkRecords, Stages
<1>6. OneFork(f) /\ forks'[f] = q
  BY <1>3, <1>4, ForkReplaced
<1>7. forks[f] = r /\ forks'[f] = q
  BY <1>1, <1>6
<1> QED
  BY <1>4, <1>6, <1>7

\* What is left of a connection's record when only the named fields change.
SameTurn(c) == conns'[c].session = conns[c].session /\ conns'[c].turn = conns[c].turn
SameFlags(c) == conns'[c].gone = conns[c].gone /\ conns'[c].panicked = conns[c].panicked
SameSaid(c) == conns'[c].said = conns[c].said
SameFrames(c) == conns'[c].frames = conns[c].frames

\* The constants a field is set to.
LEMMA Named == ASSUME NEW S, NEW x \in S PROVE \E y \in S : y = x
  OBVIOUS

\* The constants the actions assign have the types of their fields.
LEMMA Constants ==
    /\ <<>> \in Seq(Pieces) /\ <<>> \in Seq(FrameNames)
    /\ <<"error">> \in Seq(FrameNames) /\ <<"turn_start">> \in Seq(FrameNames)
    /\ ErrorReply \in Seq(FrameNames) /\ <<"text", "turn_end">> \in Seq(FrameNames)
    /\ \A a \in {"closed", "open", "lock", "infer", "parse", "dispatch", "reply"} : a \in Places
  BY DEF FrameNames, ErrorReply, Places

\* A closed WebSocket.
LEMMA NoConnRecord ==
    /\ NoConn \in ConnRecords /\ NoConn.at = "closed" /\ NoConn.session = 0
    /\ NoConn.frames = <<>>
<1>1. PICK w \in Seq(Pieces) : w = <<>>
  BY Constants
<1>2. PICK td \in Seq(FrameNames) : td = <<>>
  BY Constants
<1>3. NoConn = [at |-> "closed", session |-> 0, gone |-> FALSE, turn |-> 0, call |-> 0,
                said |-> w, todo |-> td, frames |-> td, panicked |-> FALSE]
  BY <1>1, <1>2 DEF NoConn
<1>4. NoConn \in ConnRecords
  BY <1>3 DEF ConnRecords, Places
<1> QED
  BY <1>4 DEF NoConn

\* A WebSocket opens on the active session.
LEMMA StreamEffect ==
    ASSUME Types, NEW c \in Conns, Stream(c)
    PROVE  /\ OneConn(c) /\ conns[c].at = "closed" /\ conns'[c].at = "open"
           /\ conns'[c].session = active /\ conns'[c].frames = <<>>
           /\ UNCHANGED <<Server, left>>
<1>1. PICK r \in ConnRecords : r = NoConn
  BY NoConnRecord
<1>2. PICK s \in Nat : s = active
  BY DEF Types
<1>3. PICK q : q = [r EXCEPT !.at = "open", !.session = s]
  OBVIOUS
<1>4. conns' = [conns EXCEPT ![c] = q]
  BY <1>1, <1>2, <1>3 DEF Stream
<1>5. q \in ConnRecords /\ q.at = "open" /\ q.session = s /\ q.frames = r.frames
  BY <1>3 DEF ConnRecords, Places
<1>6. OneConn(c) /\ conns'[c] = q
  BY <1>4, <1>5, ConnReplaced
<1>7. r.frames = <<>>
  BY <1>1, NoConnRecord
<1> QED
  BY <1>2, <1>5, <1>6, <1>7 DEF Stream

\* It closes, and its Arc of the backend goes.
LEMMA ClosedEffect ==
    ASSUME Types, NEW c \in Conns, Closed(c)
    PROVE  /\ OneConn(c) /\ conns[c].at = "open" /\ conns'[c].at = "closed"
           /\ conns'[c].session = 0 /\ conns'[c].frames = <<>>
           /\ native' = Kept(native, Held(active, conns', forks))
           /\ UNCHANGED <<kind, sessions, ledgers, active, current, registry, forks, second,
                          left, overlapped>>
<1>1. conns' = [conns EXCEPT ![c] = NoConn]
  BY DEF Closed
<1>2. OneConn(c) /\ conns'[c] = NoConn
  BY <1>1, NoConnRecord, ConnReplaced
<1> QED
  BY <1>2, NoConnRecord DEF Closed

\* A frame that is none of the protocol gets an error.
LEMMA MalformedEffect ==
    ASSUME Types, NEW c \in Conns, Malformed(c)
    PROVE  /\ OneConn(c) /\ conns[c].at = "open" /\ conns'[c].at = "open"
           /\ conns'[c].frames = <<"error">> /\ SameTurn(c)
           /\ UNCHANGED <<Server, left>>
<1>1. PICK fr \in Seq(FrameNames) : fr = <<"error">>
  BY Constants
<1>2. ConnIs(c, WithConnFrames(conns[c], fr))
  BY <1>1 DEF ConnIs, Malformed, WithConnFrames, Types
<1>3. /\ OneConn(c) /\ conns'[c].frames = fr /\ conns'[c].at = conns[c].at /\ SameTurn(c)
  BY <1>2, ConnFrames DEF SameTurn
<1> QED
  BY <1>1, <1>3 DEF Malformed

\* A prompt starts a turn with the next number.
LEMMA PromptEffect ==
    ASSUME Types, NEW c \in Conns, UserPrompt(c)
    PROVE  /\ OneConn(c) /\ conns[c].at = "open" /\ conns'[c].at = "lock"
           /\ conns'[c].frames = <<"turn_start">> /\ conns'[c].turn = left.prompts
           /\ conns'[c].said = <<>> /\ conns'[c].session = conns[c].session
           /\ left.prompts > 0 /\ left'.prompts = left.prompts - 1
           /\ left' \in [prompts : Nat, forks : Nat, faults : Nat, ticks : Nat]
           /\ UNCHANGED Server
<1>1. PICK fr \in Seq(FrameNames) : fr = <<"turn_start">>
  BY Constants
<1>2. PICK w \in Seq(Pieces) : w = <<>>
  BY Constants
<1>3. PICK t \in Nat : t = left.prompts
  BY DEF Types
<1>p. PICK p \in BOOLEAN : p = FALSE
  OBVIOUS
<1>a. PICK a \in Places : a = "lock"
  BY Constants
<1>4. ConnIs(c, WithConnPrompt(conns[c], a, fr, t, p, w))
  BY <1>1, <1>2, <1>3, <1>p, <1>a DEF ConnIs, UserPrompt, WithConnPrompt, Types
<1>5. /\ OneConn(c) /\ conns'[c].at = a /\ conns'[c].frames = fr /\ conns'[c].turn = t
      /\ conns'[c].said = w /\ conns'[c].session = conns[c].session
  BY <1>4, ConnPrompt
<1>6. left.prompts > 0 /\ left'.prompts = left.prompts - 1
  BY DEF UserPrompt, Spend, Types
<1>7. left' \in [prompts : Nat, forks : Nat, faults : Nat, ticks : Nat]
  <2>1. PICK b \in [prompts : Nat, forks : Nat, faults : Nat, ticks : Nat] : b = left
    BY DEF Types
  <2>2. PICK n \in Nat : n = b.prompts - 1
    BY <2>1, <1>6
  <2>3. left' = [b EXCEPT !.prompts = n]
    BY <2>1, <2>2 DEF UserPrompt, Spend
  <2> QED
    BY <2>3
<1> QED
  BY <1>1, <1>2, <1>3, <1>a, <1>5, <1>6, <1>7 DEF UserPrompt

\* Faults, forks and ticks are not paid from the prompts.
LEMMA SpendEffect ==
    ASSUME Types, NEW what \in {"forks", "faults", "ticks"}, Spend(what)
    PROVE  /\ left'.prompts = left.prompts
           /\ left' \in [prompts : Nat, forks : Nat, faults : Nat, ticks : Nat]
  BY DEF Types, Spend

\* One frame is sent.
LEMMA SendEffect ==
    ASSUME Types, NEW c \in Conns, Send(c), conns[c].todo # <<>>
    PROVE  /\ OneConn(c) /\ conns[c].at = "reply"
           /\ conns'[c].at = IF Len(conns[c].todo) = 1 THEN "open" ELSE "reply"
           /\ conns'[c].frames = Append(conns[c].frames, Head(conns[c].todo))
           /\ conns'[c].todo = Tail(conns[c].todo)
           /\ SameTurn(c) /\ SameFlags(c) /\ SameSaid(c)
           /\ UNCHANGED <<Server, left>>
<1>0. PICK old \in Seq(FrameNames), todo \in Seq(FrameNames) :
         old = conns[c].frames /\ todo = conns[c].todo
  BY DEF Types, ConnRecords
<1>s. Append(old, Head(todo)) \in Seq(FrameNames) /\ Tail(todo) \in Seq(FrameNames)
  BY <1>0
<1>1. PICK fr \in Seq(FrameNames) : fr = Append(old, Head(todo))
  BY <1>s
<1>2. PICK td \in Seq(FrameNames) : td = Tail(todo)
  BY <1>s
<1>3. PICK a \in Places : a = IF Len(todo) = 1 THEN "open" ELSE "reply"
  BY DEF Places
<1>4. ConnIs(c, WithConnSent(conns[c], fr, td, a))
  BY <1>0, <1>1, <1>2, <1>3 DEF ConnIs, Send, WithConnSent, Types
<1>5. /\ OneConn(c) /\ conns'[c].frames = fr /\ conns'[c].todo = td /\ conns'[c].at = a
      /\ SameTurn(c) /\ SameFlags(c) /\ SameSaid(c)
  <2>1. /\ OneConn(c) /\ conns'[c].frames = fr /\ conns'[c].todo = td /\ conns'[c].at = a
        /\ conns'[c].session = conns[c].session /\ conns'[c].gone = conns[c].gone
        /\ conns'[c].turn = conns[c].turn /\ conns'[c].said = conns[c].said
        /\ conns'[c].panicked = conns[c].panicked
    BY <1>4, ConnSent
  <2> QED
    BY <2>1 DEF SameTurn, SameFlags, SameSaid
<1> QED
  BY <1>0, <1>1, <1>2, <1>3, <1>5 DEF Send

\* A send fails, and the rest is given up.
LEMMA SendFailsEffect ==
    ASSUME Types, NEW c \in Conns, SendFails(c)
    PROVE  /\ OneConn(c) /\ conns[c].at = "reply" /\ conns'[c].at = "open" /\ conns[c].gone
           /\ SameTurn(c) /\ SameFlags(c) /\ SameSaid(c) /\ SameFrames(c)
           /\ UNCHANGED <<Server, left>>
<1>1. PICK td \in Seq(FrameNames) : td = <<>>
  BY Constants
<1>2. ConnIs(c, WithConnTodo(conns[c], "open", td))
  BY <1>1 DEF ConnIs, SendFails, WithConnTodo, Types
<1>3. "open" \in Places
  BY DEF Places
<1>4. /\ OneConn(c) /\ conns'[c].at = "open"
      /\ SameTurn(c) /\ SameFlags(c) /\ SameSaid(c) /\ SameFrames(c)
  BY <1>2, <1>3, ConnTodo DEF SameTurn, SameFlags, SameSaid, SameFrames
<1> QED
  BY <1>4 DEF SendFails

\* The socket is gone; nothing else changes.
LEMMA HangupEffect ==
    ASSUME Types, NEW c \in Conns, Hangup(c)
    PROVE  /\ OneConn(c) /\ conns[c].at # "closed" /\ conns'[c].at = conns[c].at
           /\ conns'[c].gone /\ conns'[c].call = conns[c].call
           /\ conns'[c].todo = conns[c].todo
           /\ SameTurn(c) /\ SameSaid(c) /\ SameFrames(c)
           /\ left'.prompts = left.prompts
           /\ left' \in [prompts : Nat, forks : Nat, faults : Nat, ticks : Nat]
           /\ UNCHANGED Server
<1>1. conns' = [conns EXCEPT ![c].gone = TRUE]
  BY DEF Hangup
<1>2. PICK g \in BOOLEAN : g = TRUE
  OBVIOUS
<1>3. ConnIs(c, WithConnGone(conns[c], g))
  BY <1>1, <1>2 DEF ConnIs, WithConnGone, Types
<1>4. /\ OneConn(c) /\ conns'[c].gone = g /\ conns'[c].at = conns[c].at
      /\ conns'[c].call = conns[c].call /\ conns'[c].todo = conns[c].todo
      /\ SameTurn(c) /\ SameSaid(c) /\ SameFrames(c)
  BY <1>3, ConnGone DEF SameTurn, SameSaid, SameFrames
<1>5. conns'[c].gone
  BY <1>2, <1>4
<1>6. /\ left'.prompts = left.prompts
      /\ left' \in [prompts : Nat, forks : Nat, faults : Nat, ticks : Nat]
  BY SpendEffect DEF Hangup
<1> QED
  BY <1>4, <1>5, <1>6 DEF Hangup

-----------------------------------------------------------------------------
(* The same for the blocking thread.                                       *)

Base == Types /\ SessionsInv /\ MutexInv

\* A turn that is not the stub's runs on a session that was booted.
LEMMA OnSession ==
    ASSUME Base, NEW c \in Conns,
           conns[c].at \in Busy \/ (conns[c].at = "lock" /\ On(c) # 0)
    PROVE  On(c) \in DOMAIN sessions
  BY DEF Base, SessionsInv, MutexInv, On

\* The calls of an answer are a number.
LEMMA CallsType == ASSUME NEW raw \in Seq(Pieces) PROVE Calls(raw) \in Nat
<1>1. PICK n \in Nat : n = Len(raw)
  OBVIOUS
<1>2. DOMAIN raw = 1..n
  BY <1>1
<1>3. IsFiniteSet(1..n)
  BY FS_Interval
<1>4. {i \in 1..n : raw[i] = "call"} \in SUBSET (1..n)
  OBVIOUS
<1>5. IsFiniteSet({i \in 1..n : raw[i] = "call"})
  BY <1>3, <1>4, FS_Subset
<1> QED
  BY <1>2, <1>5, FS_CardinalityType DEF Calls

\* What the parsers return.
LEMMA ParseType ==
    ASSUME NEW k, NEW raw \in Seq(Pieces)
    PROVE  Parse(k, raw) \in [ok : BOOLEAN, text : BOOLEAN, calls : Nat]
<1>1. Calls(raw) \in Nat
  BY CallsType
<1>2. ASSUME NEW b \in BOOLEAN, NEW n \in Nat
      PROVE  Answer(b, n) \in [ok : BOOLEAN, text : BOOLEAN, calls : Nat]
  BY DEF Answer
<1>3. NoAnswer \in [ok : BOOLEAN, text : BOOLEAN, calls : Nat]
  BY DEF NoAnswer
<1>4. LlamaParse(raw) \in [ok : BOOLEAN, text : BOOLEAN, calls : Nat]
  BY <1>1, <1>2 DEF LlamaParse
<1>5. LiteRtParse(raw) \in [ok : BOOLEAN, text : BOOLEAN, calls : Nat]
  <2>1. Answer(\E i \in DOMAIN raw : raw[i] = "text", Calls(raw))
           \in [ok : BOOLEAN, text : BOOLEAN, calls : Nat]
    BY <1>1, <1>2
  <2> QED
    BY <1>3, <2>1 DEF LiteRtParse
<1> QED
  BY <1>4, <1>5 DEF Parse

\* The frames of a finished turn are frames.
LEMMA ReplyType ==
    ASSUME NEW text \in BOOLEAN, NEW chunks \in Nat, NEW calls \in Nat
    PROVE  TurnReply(text, chunks, calls) \in Seq(FrameNames)
<1>1. [i \in 1..chunks |-> "text"] \in Seq(FrameNames)
  BY DEF FrameNames
<1>2. PICK n \in Nat : n = 2 * calls
  OBVIOUS
<1>3. [i \in 1..n |-> IF i % 2 = 1 THEN "call" ELSE "result"] \in Seq(FrameNames)
  BY DEF FrameNames
<1>4. <<>> \in Seq(FrameNames) /\ <<"text">> \in Seq(FrameNames) /\ <<"turn_end">> \in Seq(FrameNames)
  BY DEF FrameNames
<1>5. ASSUME NEW a \in Seq(FrameNames), NEW b \in Seq(FrameNames), NEW d \in Seq(FrameNames),
             NEW e \in Seq(FrameNames)
      PROVE  a \o b \o d \o e \in Seq(FrameNames)
  OBVIOUS
<1>6. (IF text THEN [i \in 1..chunks |-> "text"] ELSE <<>>) \in Seq(FrameNames)
  BY <1>1, <1>4
<1>7. (IF ~text /\ calls = 0 THEN <<"text">> ELSE <<>>) \in Seq(FrameNames)
  BY <1>4
<1> QED
  BY <1>2, <1>3, <1>4, <1>5, <1>6, <1>7 DEF TurnReply

\* The session's mutex is given back, with nothing else changed.
Released(c) ==
    /\ OneSession(On(c))
    /\ sessions'[On(c)].owner = sessions[On(c)].owner \ {c}
    /\ sessions'[On(c)].loaded = sessions[On(c)].loaded
    /\ sessions'[On(c)].log = sessions[On(c)].log

Replied(c, frames) ==
    /\ OneConn(c) /\ conns'[c].at = "reply" /\ conns'[c].todo = frames
    /\ SameTurn(c) /\ SameFlags(c) /\ SameSaid(c) /\ SameFrames(c)

\* A turn that ends leaves its frames and the mutex.
LEMMA FinishEffect ==
    ASSUME Types, NEW c \in Conns, On(c) \in DOMAIN sessions, NEW frames \in Seq(FrameNames),
           Finish(c, frames)
    PROVE  Replied(c, frames) /\ Released(c)
<1>1. PICK a \in Places : a = "reply"
  BY Constants
<1>2. ConnIs(c, WithConnTodo(conns[c], a, frames))
  BY <1>1 DEF Finish, ConnIs, WithConnTodo, Types
<1>3. Replied(c, frames)
  <2>1. /\ OneConn(c) /\ conns'[c].at = a /\ conns'[c].todo = frames
        /\ SameTurn(c) /\ SameFlags(c) /\ SameSaid(c) /\ SameFrames(c)
    BY <1>2, ConnTodo DEF SameTurn, SameFlags, SameSaid, SameFrames
  <2> QED
    BY <1>1, <2>1 DEF Replied
<1>4. PICK s \in DOMAIN sessions : s = On(c)
  OBVIOUS
<1>5. PICK o \in SUBSET Conns : o = sessions[s].owner \ {c}
  <2>1. sessions[s].owner \ {c} \in SUBSET Conns
    <3>1. PICK r \in SessionRecords : r = sessions[s]
      BY DEF Types
    <3>2. r.owner \in SUBSET Conns
      BY DEF SessionRecords
    <3> QED
      BY <3>1, <3>2
  <2> QED
    BY <2>1
<1>6. SessionIs(s, WithSessionOwner(sessions[s], o))
  BY <1>4, <1>5 DEF Finish, SessionIs, WithSessionOwner, Types
<1>7. /\ OneSession(s) /\ sessions'[s].owner = o
      /\ sessions'[s].loaded = sessions[s].loaded /\ sessions'[s].log = sessions[s].log
  BY <1>6, SessionOwner
<1>8. Released(c)
  BY <1>4, <1>5, <1>7 DEF Released
<1> QED
  BY <1>3, <1>8

\* The stub answers without a session.
LEMMA StubEffect ==
    ASSUME Types, NEW c \in Conns, Stub(c)
    PROVE  /\ Replied(c, <<"text", "turn_end">>) /\ conns[c].at = "lock" /\ On(c) = 0
           /\ UNCHANGED <<Server, left>>
<1>1. PICK a \in Places : a = "reply"
  BY Constants
<1>2. PICK td \in Seq(FrameNames) : td = <<"text", "turn_end">>
  BY Constants
<1>3. ConnIs(c, WithConnTodo(conns[c], a, td))
  BY <1>1, <1>2 DEF Stub, ConnIs, WithConnTodo, Types
<1>4. /\ OneConn(c) /\ conns'[c].at = a /\ conns'[c].todo = td
      /\ SameTurn(c) /\ SameFlags(c) /\ SameSaid(c) /\ SameFrames(c)
  BY <1>3, ConnTodo DEF SameTurn, SameFlags, SameSaid, SameFrames
<1>5. Replied(c, <<"text", "turn_end">>)
  BY <1>1, <1>2, <1>4 DEF Replied
<1> QED
  BY <1>5 DEF Stub

\* A turn enters a free session.
LEMMA LockEffect ==
    ASSUME Base, NEW c \in Conns, Lock(c)
    PROVE  /\ conns[c].at = "lock" /\ On(c) \in DOMAIN sessions /\ sessions[On(c)].owner = {}
           /\ OneConn(c) /\ conns'[c].at = "infer" /\ conns'[c].call = 1
           /\ SameTurn(c) /\ SameFlags(c) /\ SameSaid(c) /\ SameFrames(c)
           /\ OneSession(On(c)) /\ sessions'[On(c)].owner = {c}
           /\ sessions'[On(c)].loaded = sessions[On(c)].loaded
           /\ sessions'[On(c)].log = sessions[On(c)].log
           /\ UNCHANGED <<NoTurn, native, left>>
<1>0. conns[c].at = "lock" /\ On(c) # 0 /\ sessions[On(c)].owner = {} /\ Enter(c)
  BY DEF Lock
<1>t. Types
  BY DEF Base
<1>1. On(c) \in DOMAIN sessions
  BY <1>0, OnSession
<1>2. PICK a \in Places : a = "infer"
  BY Constants
<1>3. PICK k \in Nat : k = 1
  OBVIOUS
<1>4. ConnIs(c, WithConnEntered(conns[c], a, k))
  BY <1>0, <1>t, <1>2, <1>3 DEF Enter, ConnIs, WithConnEntered, Types
<1>5. /\ OneConn(c) /\ conns'[c].at = a /\ conns'[c].call = k
      /\ SameTurn(c) /\ SameFlags(c) /\ SameSaid(c) /\ SameFrames(c)
  BY <1>t, <1>4, ConnEntered DEF SameTurn, SameFlags, SameSaid, SameFrames
<1>6. PICK s \in DOMAIN sessions : s = On(c)
  BY <1>1
<1>7. PICK o \in SUBSET Conns : o = {c}
  OBVIOUS
<1>8. SessionIs(s, WithSessionOwner(sessions[s], o))
  <2>1. sessions[s].owner \cup {c} = o
    BY <1>0, <1>6, <1>7
  <2>2. sessions' = [sessions EXCEPT ![s].owner = sessions[s].owner \cup {c}]
    BY <1>0, <1>6 DEF Enter
  <2> QED
    BY <2>1, <2>2, <1>t DEF SessionIs, WithSessionOwner, Types
<1>9. /\ OneSession(s) /\ sessions'[s].owner = o
      /\ sessions'[s].loaded = sessions[s].loaded /\ sessions'[s].log = sessions[s].log
  BY <1>t, <1>8, SessionOwner
<1>10. UNCHANGED <<NoTurn, native, left>>
  BY <1>0 DEF Enter
<1> QED
  BY <1>0, <1>1, <1>2, <1>3, <1>5, <1>6, <1>7, <1>9, <1>10

\* A turn that ends with an error, with what its inference held on the way.
LEMMA ErrorEffect ==
    ASSUME Base, NEW c \in Conns,
           LockPoisoned(c) \/ InferFails(c) \/ DispatchFails(c)
    PROVE  /\ conns[c].at \in {"lock", "infer", "dispatch"} /\ On(c) \in DOMAIN sessions
           /\ Replied(c, ErrorReply) /\ Released(c)
           /\ (conns[c].at = "infer" /\ Unwind(c)) \/ (conns[c].at # "infer" /\ native' = native)
           /\ UNCHANGED NoTurn /\ left'.prompts = left.prompts
           /\ left' \in [prompts : Nat, forks : Nat, faults : Nat, ticks : Nat]
<1>t. Types
  BY DEF Base
<1>1. /\ Finish(c, ErrorReply) /\ UNCHANGED NoTurn
      /\ conns[c].at \in Busy \/ (conns[c].at = "lock" /\ On(c) # 0)
      /\ conns[c].at \in {"lock", "infer", "dispatch"}
      /\ (conns[c].at = "infer" /\ Unwind(c)) \/ (conns[c].at # "infer" /\ native' = native)
      /\ Spend("faults") \/ left' = left
  BY DEF LockPoisoned, InferFails, DispatchFails, Busy
<1>2. On(c) \in DOMAIN sessions
  BY <1>1, OnSession
<1>3. Replied(c, ErrorReply) /\ Released(c)
  BY <1>t, <1>1, <1>2, Constants, FinishEffect
<1>4. /\ left'.prompts = left.prompts
      /\ left' \in [prompts : Nat, forks : Nat, faults : Nat, ticks : Nat]
  <2>1. CASE Spend("faults")
    BY <2>1, <1>t, SpendEffect
  <2>2. CASE left' = left
    BY <2>2, <1>t DEF Types
  <2> QED
    BY <1>1, <2>1, <2>2
<1> QED
  BY <1>1, <1>2, <1>3, <1>4

\* A finished turn answers with its text and its calls.
LEMMA OutcomeEffect ==
    ASSUME Base, NEW c \in Conns, Outcome(c)
    PROVE  /\ conns[c].at = "dispatch" /\ On(c) \in DOMAIN sessions /\ Released(c)
           /\ LET answer == Parse(kind, conns[c].said)
              IN  \E n \in 1..MaxChunks : Replied(c, TurnReply(answer.text, n, answer.calls))
           /\ UNCHANGED <<NoTurn, native, left>>
<1>t. Types
  BY DEF Base
<1>1. conns[c].at = "dispatch" /\ UNCHANGED <<NoTurn, native, left>>
  BY DEF Outcome
<1>2. On(c) \in DOMAIN sessions
  BY <1>1, OnSession DEF Busy
<1>3. PICK answer \in [ok : BOOLEAN, text : BOOLEAN, calls : Nat] :
         answer = Parse(kind, conns[c].said)
  <2>1. conns[c].said \in Seq(Pieces)
    BY <1>t DEF Types, ConnRecords
  <2>2. Parse(kind, conns[c].said) \in [ok : BOOLEAN, text : BOOLEAN, calls : Nat]
    BY <2>1, ParseType
  <2> QED
    BY <2>2
<1>4. PICK n \in 1..MaxChunks : Finish(c, TurnReply(answer.text, n, answer.calls))
  BY <1>3 DEF Outcome
<1>5. PICK frames : frames = TurnReply(answer.text, n, answer.calls)
  OBVIOUS
<1>6. frames \in Seq(FrameNames)
  <2>1. n \in Nat
    BY BoundsAssumption
  <2>2. answer.text \in BOOLEAN /\ answer.calls \in Nat
    BY <1>3
  <2> QED
    BY <1>5, <2>1, <2>2, ReplyType
<1>7. Replied(c, frames) /\ Released(c)
  <2>1. Finish(c, frames)
    BY <1>4, <1>5
  <2> QED
    BY <1>t, <1>2, <1>6, <2>1, FinishEffect
<1> QED
  BY <1>1, <1>2, <1>3, <1>5, <1>7


\* The native calls of a llama.cpp inference, by number.
LEMMA LlamaCalls ==
    /\ InferCalls("llama", MaxTokens) \in Seq([take : SUBSET Handles, give : SUBSET Handles])
    /\ Len(InferCalls("llama", MaxTokens)) = MaxTokens + 4
    /\ \A k \in 1..(MaxTokens + 4) : InferCalls("llama", MaxTokens)[k] =
          IF k = 2 THEN Take("context") ELSE IF k = MaxTokens + 4 THEN Give({"context"})
          ELSE Compute
<1>n. PICK n \in Nat : n = MaxTokens
  BY BoundsAssumption
<1>1. PICK N : N = [take : SUBSET Handles, give : SUBSET Handles]
  OBVIOUS
<1>2. PICK t : t = Take("context")
  OBVIOUS
<1>3. PICK g : g = Give({"context"})
  OBVIOUS
<1>4. PICK e : e = Compute
  OBVIOUS
<1>5. t \in N /\ g \in N /\ e \in N
  BY <1>1, <1>2, <1>3, <1>4 DEF Take, Give, Compute, Handles, Transient
<1>6. PICK m : m = [i \in 1..n |-> e]
  OBVIOUS
<1>7. m \in Seq(N) /\ Len(m) = n
  BY <1>5, <1>6
<1>8. InferCalls("llama", MaxTokens) = <<e, t, e>> \o m \o <<g>>
  BY <1>n, <1>2, <1>3, <1>4, <1>6
     DEF InferCalls, LlamaTemplate, LlamaSession, LlamaPrompt, LlamaGenerate, LlamaDrop
<1>9. <<e, t, e>> \o m \o <<g>> \in Seq(N)
  BY <1>5, <1>7
<1>10. /\ Len(<<e, t, e>> \o m \o <<g>>) = n + 4
       /\ \A k \in 1..(n + 4) : (<<e, t, e>> \o m \o <<g>>)[k] =
             IF k = 2 THEN t ELSE IF k = n + 4 THEN g ELSE e
  <2>1. /\ <<e, t, e>> \o m \in Seq(N) /\ Len(<<e, t, e>> \o m) = n + 3
        /\ \A k \in 1..(n + 3) : (<<e, t, e>> \o m)[k] = IF k = 2 THEN t ELSE e
    BY <1>5, <1>6, <1>7
  <2>2. PICK h \in Seq(N) : h = <<e, t, e>> \o m
    BY <2>1
  <2>3. /\ Len(h) = n + 3 /\ \A k \in 1..(n + 3) : h[k] = IF k = 2 THEN t ELSE e
    BY <2>1, <2>2
  <2>4. Len(h \o <<g>>) = n + 4 /\ \A k \in 1..(n + 4) : (h \o <<g>>)[k] =
             IF k = 2 THEN t ELSE IF k = n + 4 THEN g ELSE e
    BY <2>3, <1>5
  <2> QED
    BY <2>2, <2>4
<1>11. PICK calls : calls = InferCalls("llama", MaxTokens)
  OBVIOUS
<1>12. calls \in Seq(N) /\ Len(calls) = n + 4
  BY <1>8, <1>9, <1>10, <1>11
<1>13. \A k \in 1..(n + 4) : calls[k] = IF k = 2 THEN t ELSE IF k = n + 4 THEN g ELSE e
  BY <1>8, <1>10, <1>11
<1> QED
  BY <1>n, <1>1, <1>2, <1>3, <1>4, <1>11, <1>12, <1>13

\* Sequences with the same elements are the same.
LEMMA SameCalls ==
    ASSUME NEW N, NEW s \in Seq(N), NEW t \in Seq(N), Len(s) = Len(t),
           \A i \in 1..Len(s) : s[i] = t[i]
    PROVE  s = t
  OBVIOUS

\* The native calls of a LiteRT-LM inference, by number.
LEMMA LiteRtCalls ==
    ASSUME NEW k, k # "llama"
    PROVE  InferCalls(k, MaxTokens) =
              <<Compute, Take("session_config"), Take("conversation_config"),
                Take("conversation"), Give({"conversation_config", "session_config"}),
                Take("response"), Compute, Give({"response", "conversation"})>>
<1>1. PICK a, b, d, e, f, g, h : /\ a = Compute /\ b = Take("session_config")
         /\ d = Take("conversation_config") /\ e = Take("conversation")
         /\ f = Give({"conversation_config", "session_config"})
         /\ g = Take("response") /\ h = Give({"response", "conversation"})
  OBVIOUS
<1>2. PICK N : N = {a, b, d, e, f, g, h}
  OBVIOUS
<1>3. a \in N /\ b \in N /\ d \in N /\ e \in N /\ f \in N /\ g \in N /\ h \in N
  BY <1>2
<1>4. <<a>> \o <<b, d, e, f>> = <<a, b, d, e, f>>
  <2>1. /\ <<a>> \o <<b, d, e, f>> \in Seq(N) /\ <<a, b, d, e, f>> \in Seq(N)
        /\ Len(<<a>> \o <<b, d, e, f>>) = 5 /\ Len(<<a, b, d, e, f>>) = 5
    BY <1>3
  <2>2. \A i \in 1..5 : (<<a>> \o <<b, d, e, f>>)[i] = <<a, b, d, e, f>>[i]
    <3>1. /\ (<<a>> \o <<b, d, e, f>>)[1] = a
          /\ (<<a>> \o <<b, d, e, f>>)[2] = b
          /\ (<<a>> \o <<b, d, e, f>>)[3] = d
          /\ (<<a>> \o <<b, d, e, f>>)[4] = e
          /\ (<<a>> \o <<b, d, e, f>>)[5] = f
      BY <1>3
    <3> QED
      BY <3>1
  <2> QED
    BY <2>1, <2>2, SameCalls
<1>5. <<a, b, d, e, f>> \o <<g, a>> = <<a, b, d, e, f, g, a>>
  <2>1. /\ <<a, b, d, e, f>> \o <<g, a>> \in Seq(N) /\ <<a, b, d, e, f, g, a>> \in Seq(N)
        /\ Len(<<a, b, d, e, f>> \o <<g, a>>) = 7 /\ Len(<<a, b, d, e, f, g, a>>) = 7
    BY <1>3
  <2>2. \A i \in 1..7 : (<<a, b, d, e, f>> \o <<g, a>>)[i] = <<a, b, d, e, f, g, a>>[i]
    <3>1. /\ (<<a, b, d, e, f>> \o <<g, a>>)[1] = a
          /\ (<<a, b, d, e, f>> \o <<g, a>>)[2] = b
          /\ (<<a, b, d, e, f>> \o <<g, a>>)[3] = d
          /\ (<<a, b, d, e, f>> \o <<g, a>>)[4] = e
          /\ (<<a, b, d, e, f>> \o <<g, a>>)[5] = f
          /\ (<<a, b, d, e, f>> \o <<g, a>>)[6] = g
          /\ (<<a, b, d, e, f>> \o <<g, a>>)[7] = a
      BY <1>3
    <3> QED
      BY <3>1
  <2> QED
    BY <2>1, <2>2, SameCalls
<1>6. <<a, b, d, e, f, g, a>> \o <<h>> = <<a, b, d, e, f, g, a, h>>
  <2>1. /\ <<a, b, d, e, f, g, a>> \o <<h>> \in Seq(N) /\ <<a, b, d, e, f, g, a, h>> \in Seq(N)
        /\ Len(<<a, b, d, e, f, g, a>> \o <<h>>) = 8 /\ Len(<<a, b, d, e, f, g, a, h>>) = 8
    BY <1>3
  <2>2. \A i \in 1..8 : (<<a, b, d, e, f, g, a>> \o <<h>>)[i] = <<a, b, d, e, f, g, a, h>>[i]
    <3>1. /\ (<<a, b, d, e, f, g, a>> \o <<h>>)[1] = a
          /\ (<<a, b, d, e, f, g, a>> \o <<h>>)[2] = b
          /\ (<<a, b, d, e, f, g, a>> \o <<h>>)[3] = d
          /\ (<<a, b, d, e, f, g, a>> \o <<h>>)[4] = e
          /\ (<<a, b, d, e, f, g, a>> \o <<h>>)[5] = f
          /\ (<<a, b, d, e, f, g, a>> \o <<h>>)[6] = g
          /\ (<<a, b, d, e, f, g, a>> \o <<h>>)[7] = a
          /\ (<<a, b, d, e, f, g, a>> \o <<h>>)[8] = h
      BY <1>3
    <3> QED
      BY <3>1
  <2> QED
    BY <2>1, <2>2, SameCalls
<1> QED
  BY <1>1, <1>4, <1>5, <1>6 DEF InferCalls, LiteRtSplit, LiteRtOpen, LiteRtSend, LiteRtDrop

\* What an inference holds before its k-th call becomes what it holds before the next.
LEMMA InferCall ==
    ASSUME NEW k \in Kinds \cup {"stub"}, NEW i \in DOMAIN InferCalls(k, MaxTokens)
    PROVE  LET calls == InferCalls(k, MaxTokens)
           IN  /\ Len(calls) \in Nat /\ i \in 1..Len(calls)
               /\ calls[i].take \in SUBSET Transient /\ calls[i].give \in SUBSET Transient
               /\ (InferHeld(k, i) \cup calls[i].take) \ calls[i].give =
                     IF i = Len(calls) THEN {} ELSE InferHeld(k, i + 1)
<1>1. CASE k = "llama"
  <2>1. PICK calls : calls = InferCalls(k, MaxTokens)
    OBVIOUS
  <2>2. PICK n \in Nat : n = MaxTokens
    BY BoundsAssumption
  <2>3. /\ calls \in Seq([take : SUBSET Handles, give : SUBSET Handles]) /\ Len(calls) = n + 4
        /\ \A j \in 1..(n + 4) : calls[j] =
              IF j = 2 THEN Take("context") ELSE IF j = n + 4 THEN Give({"context"})
              ELSE Compute
    BY <1>1, <2>1, <2>2, LlamaCalls
  <2>4. i \in 1..(n + 4)
    BY <2>1, <2>3
  <2>5. /\ calls[i].take = IF i = 2 THEN {"context"} ELSE {}
        /\ calls[i].give = IF i = n + 4 THEN {"context"} ELSE {}
    <3>1. CASE i = 2
      <4>1. calls[i] = Take("context")
        BY <3>1, <2>3, <2>4
      <4> QED
        BY <4>1, <3>1 DEF Take
    <3>2. CASE i = n + 4
      <4>1. calls[i] = Give({"context"})
        BY <3>2, <2>3, <2>4
      <4> QED
        BY <4>1, <3>2 DEF Give
    <3>3. CASE i # 2 /\ i # n + 4
      <4>1. calls[i] = Compute
        BY <3>3, <2>3, <2>4
      <4> QED
        BY <4>1, <3>3 DEF Compute
    <3> QED
      BY <3>1, <3>2, <3>3
  <2>6. /\ InferHeld(k, i) = IF i >= 3 THEN {"context"} ELSE {}
        /\ InferHeld(k, i + 1) = IF i + 1 >= 3 THEN {"context"} ELSE {}
    BY <1>1 DEF InferHeld
  <2>7. (InferHeld(k, i) \cup calls[i].take) \ calls[i].give =
            IF i = n + 4 THEN {} ELSE InferHeld(k, i + 1)
    BY <2>4, <2>5, <2>6
  <2> QED
    BY <2>1, <2>3, <2>4, <2>5, <2>7 DEF Transient
<1>2. CASE k # "llama"
  <2>1. PICK calls : calls = InferCalls(k, MaxTokens)
    OBVIOUS
  <2>2. /\ Len(calls) = 8
        /\ calls[1] = Compute /\ calls[2] = Take("session_config")
        /\ calls[3] = Take("conversation_config") /\ calls[4] = Take("conversation")
        /\ calls[5] = Give({"conversation_config", "session_config"})
        /\ calls[6] = Take("response") /\ calls[7] = Compute
        /\ calls[8] = Give({"response", "conversation"})
    BY <1>2, <2>1, LiteRtCalls
  <2>3. DOMAIN calls = 1..8
    BY <1>2, <2>1, LiteRtCalls
  <2>4. i \in {1, 2, 3, 4, 5, 6, 7, 8}
    BY <2>1, <2>3
  <2>5. /\ calls[i].take \in SUBSET Transient /\ calls[i].give \in SUBSET Transient
        /\ (InferHeld(k, i) \cup calls[i].take) \ calls[i].give =
              IF i = 8 THEN {} ELSE InferHeld(k, i + 1)
    <3>1. CASE i = 1
      BY <3>1, <1>2, <2>2 DEF InferHeld, Take, Give, Compute, Transient
    <3>2. CASE i = 2
      BY <3>2, <1>2, <2>2 DEF InferHeld, Take, Give, Compute, Transient
    <3>3. CASE i = 3
      BY <3>3, <1>2, <2>2 DEF InferHeld, Take, Give, Compute, Transient
    <3>4. CASE i = 4
      BY <3>4, <1>2, <2>2 DEF InferHeld, Take, Give, Compute, Transient
    <3>5. CASE i = 5
      BY <3>5, <1>2, <2>2 DEF InferHeld, Take, Give, Compute, Transient
    <3>6. CASE i = 6
      BY <3>6, <1>2, <2>2 DEF InferHeld, Take, Give, Compute, Transient
    <3>7. CASE i = 7
      BY <3>7, <1>2, <2>2 DEF InferHeld, Take, Give, Compute, Transient
    <3>8. CASE i = 8
      BY <3>8, <1>2, <2>2 DEF InferHeld, Take, Give, Compute, Transient
    <3> QED
      BY <2>4, <3>1, <3>2, <3>3, <3>4, <3>5, <3>6, <3>7, <3>8
  <2> QED
    BY <2>1, <2>2, <2>3, <2>4, <2>5
<1> QED
  BY <1>1, <1>2

-----------------------------------------------------------------------------
(* The rest of the blocking thread's actions.                              *)

\* The handles of session s after a native call.
Called(s, call) ==
    native' = (native \cup {<<s, h>> : h \in call.take}) \ {<<s, h>> : h \in call.give}

\* One native call of an inference.
LEMMA InferEffect ==
    ASSUME Base, NEW c \in Conns, Infer(c)
    PROVE  LET calls == InferCalls(kind, MaxTokens)
               k == conns[c].call
           IN  /\ conns[c].at = "infer" /\ On(c) \in DOMAIN sessions
               /\ OneConn(c) /\ conns'[c].at = (IF k = Len(calls) THEN "parse" ELSE "infer")
               /\ conns'[c].call = k + 1 /\ SameTurn(c) /\ SameSaid(c) /\ SameFrames(c)
               /\ SameFlags(c) /\ Called(On(c), calls[k])
               /\ UNCHANGED <<NoTurn, sessions, left>>
<1>t. Types
  BY DEF Base
<1>0. conns[c].at = "infer" /\ UNCHANGED <<NoTurn, sessions, left>>
      /\ Called(On(c), InferCalls(kind, MaxTokens)[conns[c].call])
  BY DEF Infer, Called
<1>1. On(c) \in DOMAIN sessions
  BY <1>0, OnSession DEF Busy
<1>2. PICK a \in Places :
         a = IF conns[c].call = Len(InferCalls(kind, MaxTokens)) THEN "parse" ELSE "infer"
  BY DEF Places
<1>3. PICK k \in Nat : k = conns[c].call + 1
  <2>1. conns[c].call \in Nat
    BY <1>t DEF Types, ConnRecords
  <2> QED
    BY <2>1
<1>4. ConnIs(c, WithConnEntered(conns[c], a, k))
  BY <1>t, <1>2, <1>3 DEF Infer, ConnIs, WithConnEntered, Types
<1>5. /\ OneConn(c) /\ conns'[c].at = a /\ conns'[c].call = k
      /\ SameTurn(c) /\ SameFlags(c) /\ SameSaid(c) /\ SameFrames(c)
  BY <1>t, <1>4, ConnEntered DEF SameTurn, SameFlags, SameSaid, SameFrames
<1> QED
  BY <1>0, <1>1, <1>2, <1>3, <1>5

\* The last token skips the rounds that are left.
LEMMA EndOfAnswerEffect ==
    ASSUME Base, NEW c \in Conns, EndOfAnswer(c)
    PROVE  /\ conns[c].at = "infer" /\ On(c) \in DOMAIN sessions /\ kind = "llama"
           /\ conns[c].call \in 4..(MaxTokens + 3)
           /\ OneConn(c) /\ conns'[c].at = "infer" /\ conns'[c].call = MaxTokens + 4
           /\ SameTurn(c) /\ SameSaid(c) /\ SameFrames(c) /\ SameFlags(c)
           /\ UNCHANGED <<NoTurn, sessions, native, left>>
<1>t. Types
  BY DEF Base
<1>0. /\ conns[c].at = "infer" /\ UNCHANGED <<NoTurn, sessions, native, left>>
      /\ kind = "llama" /\ conns[c].call \in 4..(MaxTokens + 3)
  BY DEF EndOfAnswer
<1>1. On(c) \in DOMAIN sessions
  BY <1>0, OnSession DEF Busy
<1>2. PICK k \in Nat : k = MaxTokens + 4
  <2>1. MaxTokens + 4 \in Nat
    BY BoundsAssumption
  <2> QED
    BY <2>1
<1>3. ConnIs(c, WithConnCalled(conns[c], k))
  BY <1>t, <1>2 DEF EndOfAnswer, ConnIs, WithConnCalled, Types
<1>4. /\ OneConn(c) /\ conns'[c].at = conns[c].at /\ conns'[c].call = k
      /\ SameTurn(c) /\ SameFlags(c) /\ SameSaid(c) /\ SameFrames(c)
  BY <1>t, <1>3, ConnCalled DEF SameTurn, SameFlags, SameSaid, SameFrames
<1> QED
  BY <1>0, <1>1, <1>2, <1>4

\* An entry of the turn on the session's ledger.
Logged(c, type) ==
    /\ OneSession(On(c))
    /\ sessions'[On(c)].owner = sessions[On(c)].owner
    /\ sessions'[On(c)].loaded = sessions[On(c)].loaded
    /\ sessions'[On(c)].log =
          Append(sessions[On(c)].log, [turn |-> conns[c].turn, type |-> type])

\* An entry is appended to the session's ledger, with the turn's number.
LEMMA LoggedEffect ==
    ASSUME Types, NEW c \in Conns, On(c) \in DOMAIN sessions,
           NEW type \in {"reasoning", "mediated"},
           sessions' = [sessions EXCEPT ![On(c)].log =
                          Append(@, [turn |-> conns[c].turn, type |-> type])]
    PROVE  Logged(c, type)
<1>1. PICK s \in DOMAIN sessions : s = On(c)
  OBVIOUS
<1>2. PICK e \in Entries : e = [turn |-> conns[c].turn, type |-> type]
  <2>1. conns[c].turn \in Nat
    BY DEF Types, ConnRecords
  <2>2. [turn |-> conns[c].turn, type |-> type] \in Entries
    BY <2>1 DEF Entries
  <2> QED
    BY <2>2
<1>3. PICK log \in Seq(Entries) : log = sessions[s].log
  <2>1. sessions[s].log \in Seq(Entries)
    <3>1. PICK r \in SessionRecords : r = sessions[s]
      BY DEF Types
    <3>2. r.log \in Seq(Entries)
      BY DEF SessionRecords
    <3> QED
      BY <3>1, <3>2
  <2> QED
    BY <2>1
<1>4. PICK w \in Seq(Entries) : w = Append(log, e)
  <2>1. Append(log, e) \in Seq(Entries)
    OBVIOUS
  <2> QED
    BY <2>1
<1>5. SessionIs(s, WithSessionLog(sessions[s], w))
  <2>1. sessions' = [sessions EXCEPT ![s].log = w]
    BY <1>1, <1>2, <1>3, <1>4
  <2> QED
    BY <2>1 DEF SessionIs, WithSessionLog, Types
<1>6. /\ OneSession(s) /\ sessions'[s].log = w /\ sessions'[s].owner = sessions[s].owner
      /\ sessions'[s].loaded = sessions[s].loaded
  BY <1>5, SessionLog
<1> QED
  BY <1>1, <1>2, <1>3, <1>4, <1>6 DEF Logged

\* An answer is recorded, or fails the turn.
LEMMA ReasonEffect ==
    ASSUME Base, NEW c \in Conns, Reason(c)
    PROVE  /\ conns[c].at = "parse" /\ On(c) \in DOMAIN sessions
           /\ \/ Replied(c, ErrorReply) /\ Released(c)
              \/ /\ \E raw \in Raws : Parse(kind, raw).ok /\ conns'[c].said = raw
                 /\ OneConn(c) /\ conns'[c].at = "dispatch" /\ SameTurn(c) /\ SameFrames(c)
                 /\ SameFlags(c) /\ Logged(c, "reasoning")
           /\ UNCHANGED <<NoTurn, native, left>>
<1>t. Types
  BY DEF Base
<1>0. conns[c].at = "parse" /\ UNCHANGED <<NoTurn, native, left>>
  BY DEF Reason
<1>1. On(c) \in DOMAIN sessions
  BY <1>0, OnSession DEF Busy
<1>2. PICK raw \in Raws :
         IF Parse(kind, raw).ok
         THEN /\ sessions' = [sessions EXCEPT ![On(c)].log =
                                 Append(@, [turn |-> conns[c].turn, type |-> "reasoning"])]
              /\ conns' = [conns EXCEPT ![c].at = "dispatch", ![c].call = 1, ![c].said = raw]
         ELSE Finish(c, ErrorReply)
  BY DEF Reason
<1>3. CASE Parse(kind, raw).ok
  <2>1. /\ sessions' = [sessions EXCEPT ![On(c)].log =
                           Append(@, [turn |-> conns[c].turn, type |-> "reasoning"])]
        /\ conns' = [conns EXCEPT ![c].at = "dispatch", ![c].call = 1, ![c].said = raw]
    BY <1>2, <1>3
  <2>2. Logged(c, "reasoning")
    BY <1>t, <1>1, <2>1, LoggedEffect
  <2>3. PICK a \in Places : a = "dispatch"
    BY Constants
  <2>4. PICK k \in Nat : k = 1
    OBVIOUS
  <2>5. PICK w \in Seq(Pieces) : w = raw
    BY BackendsAssumption
  <2>6. ConnIs(c, WithConnSaid(conns[c], a, k, w))
    BY <1>t, <2>1, <2>3, <2>4, <2>5 DEF ConnIs, WithConnSaid, Types
  <2>7. /\ OneConn(c) /\ conns'[c].at = a /\ conns'[c].said = w
        /\ SameTurn(c) /\ SameFlags(c) /\ SameFrames(c)
    BY <1>t, <2>6, ConnSaid DEF SameTurn, SameFlags, SameFrames
  <2> QED
    BY <1>0, <1>1, <1>3, <2>2, <2>3, <2>5, <2>7
<1>4. CASE ~Parse(kind, raw).ok
  <2>1. Finish(c, ErrorReply)
    BY <1>2, <1>4
  <2>2. Replied(c, ErrorReply) /\ Released(c)
    BY <1>t, <1>1, <2>1, Constants, FinishEffect
  <2> QED
    BY <1>0, <1>1, <2>2
<1> QED
  BY <1>3, <1>4

\* A tool call is recorded.
LEMMA DispatchEffect ==
    ASSUME Base, NEW c \in Conns, Dispatch(c)
    PROVE  /\ conns[c].at = "dispatch" /\ On(c) \in DOMAIN sessions
           /\ OneConn(c) /\ conns'[c].at = "dispatch" /\ SameTurn(c) /\ SameFrames(c)
           /\ SameFlags(c) /\ SameSaid(c) /\ Logged(c, "mediated")
           /\ UNCHANGED <<NoTurn, native, left>>
<1>t. Types
  BY DEF Base
<1>0. conns[c].at = "dispatch" /\ UNCHANGED <<NoTurn, native, left>>
  BY DEF Dispatch
<1>1. On(c) \in DOMAIN sessions
  BY <1>0, OnSession DEF Busy
<1>2. Logged(c, "mediated")
  BY <1>t, <1>1, LoggedEffect DEF Dispatch
<1>3. PICK k \in Nat : k = conns[c].call + 1
  <2>1. conns[c].call \in Nat
    BY <1>t DEF Types, ConnRecords
  <2> QED
    BY <2>1
<1>4. ConnIs(c, WithConnCalled(conns[c], k))
  BY <1>t, <1>3 DEF Dispatch, ConnIs, WithConnCalled, Types
<1>5. /\ OneConn(c) /\ conns'[c].at = conns[c].at
      /\ SameTurn(c) /\ SameFlags(c) /\ SameSaid(c) /\ SameFrames(c)
  BY <1>t, <1>4, ConnCalled DEF SameTurn, SameFlags, SameSaid, SameFrames
<1> QED
  BY <1>0, <1>1, <1>2, <1>5

\* A panic leaves the session and poisons it.
LEMMA PanicEffect ==
    ASSUME Base, NEW c \in Conns, Panic(c)
    PROVE  /\ conns[c].at \in Busy /\ On(c) \in DOMAIN sessions
           /\ OneConn(c) /\ conns'[c].at = "open" /\ conns'[c].panicked
           /\ SameTurn(c) /\ SameFrames(c) /\ Released(c) /\ Unwind(c)
           /\ UNCHANGED NoTurn /\ left'.prompts = left.prompts
           /\ left' \in [prompts : Nat, forks : Nat, faults : Nat, ticks : Nat]
<1>t. Types
  BY DEF Base
<1>0. conns[c].at \in Busy /\ Spend("faults") /\ Unwind(c) /\ UNCHANGED NoTurn
  BY DEF Panic, Busy
<1>1. On(c) \in DOMAIN sessions
  BY <1>0, OnSession
<1>2. PICK a \in Places : a = "open"
  BY Constants
<1>3. PICK p \in BOOLEAN : p = TRUE
  OBVIOUS
<1>4. ConnIs(c, WithConnPanicked(conns[c], a, p))
  BY <1>t, <1>2, <1>3 DEF Panic, ConnIs, WithConnPanicked, Types
<1>5. /\ OneConn(c) /\ conns'[c].at = a /\ conns'[c].panicked = p
      /\ SameTurn(c) /\ SameFrames(c)
  BY <1>t, <1>4, ConnPanicked DEF SameTurn, SameFrames
<1>6. conns'[c].panicked
  BY <1>3, <1>5
<1>7. PICK s \in DOMAIN sessions : s = On(c)
  BY <1>1
<1>8. PICK o \in SUBSET Conns : o = sessions[s].owner \ {c}
  <2>1. sessions[s].owner \ {c} \in SUBSET Conns
    <3>1. PICK r \in SessionRecords : r = sessions[s]
      BY <1>t DEF Types
    <3>2. r.owner \in SUBSET Conns
      BY DEF SessionRecords
    <3> QED
      BY <3>1, <3>2
  <2> QED
    BY <2>1
<1>9. SessionIs(s, WithSessionPoisoned(sessions[s], o, p))
  BY <1>t, <1>3, <1>7, <1>8 DEF Panic, SessionIs, WithSessionPoisoned, Types
<1>10. /\ OneSession(s) /\ sessions'[s].owner = o
       /\ sessions'[s].loaded = sessions[s].loaded /\ sessions'[s].log = sessions[s].log
  BY <1>t, <1>9, SessionPoisoned
<1>11. Released(c)
  BY <1>7, <1>8, <1>10 DEF Released
<1>12. /\ left'.prompts = left.prompts
       /\ left' \in [prompts : Nat, forks : Nat, faults : Nat, ticks : Nat]
  BY <1>t, <1>0, SpendEffect
<1> QED
  BY <1>0, <1>1, <1>2, <1>5, <1>6, <1>11, <1>12

-----------------------------------------------------------------------------
(* The actions of a fork.                                                  *)

\* A fork is accepted, or fails at once.
LEMMA ForkEffect ==
    ASSUME Types, NEW f \in Forks, Fork(f)
    PROVE  /\ OneFork(f) /\ forks[f].at = "idle" /\ forks'[f].at \in {"boot", "failed"}
           /\ forks'[f].call = forks[f].call /\ forks'[f].abandoned = forks[f].abandoned
           /\ overlapped' = (overlapped \/ Forking # {})
           /\ left'.prompts = left.prompts
           /\ left' \in [prompts : Nat, forks : Nat, faults : Nat, ticks : Nat]
           /\ UNCHANGED <<NoFrame, sessions, ledgers, native, active, current>>
<1>1. PICK m \in Models :
         forks' = [forks EXCEPT ![f].model = m, ![f].name = LedgerName(m),
                       ![f].at = IF kind # "stub" /\ m \in Cached THEN "boot" ELSE "failed"]
  BY DEF Fork
<1>2. PICK a \in Stages : a = IF kind # "stub" /\ m \in Cached THEN "boot" ELSE "failed"
  BY DEF Stages
<1>3. PICK n \in Names : n = LedgerName(m)
  <2>1. LedgerName(m) \in Names
    BY DEF Types, LedgerName, Names
  <2> QED
    BY <2>1
<1>4. ForkIs(f, WithForkAsked(forks[f], m, n, a))
  BY <1>1, <1>2, <1>3 DEF ForkIs, WithForkAsked, Types
<1>5. /\ OneFork(f) /\ forks'[f].at = a /\ forks'[f].call = forks[f].call
      /\ forks'[f].abandoned = forks[f].abandoned
  BY <1>4, ForkAsked
<1>6. /\ left'.prompts = left.prompts
      /\ left' \in [prompts : Nat, forks : Nat, faults : Nat, ticks : Nat]
  BY SpendEffect DEF Fork
<1>7. a \in {"boot", "failed"}
  BY <1>2
<1> QED
  BY <1>5, <1>6, <1>7 DEF Fork

\* The fork is at another stage, and nothing else of it has changed.
ForkMoves(f, a) ==
    /\ OneFork(f) /\ forks'[f].at = a /\ forks'[f].model = forks[f].model
    /\ forks'[f].session = forks[f].session /\ forks'[f].call = forks[f].call
    /\ forks'[f].abandoned = forks[f].abandoned

\* A fork moves to another stage.
LEMMA ForkGotoEffect ==
    ASSUME Types, NEW f \in Forks, NEW a \in Stages, ForkGoto(f, a)
    PROVE  ForkMoves(f, a)
<1>1. ForkIs(f, WithForkMoved(forks[f], a))
  BY DEF ForkGoto, ForkIs, WithForkMoved, Types
<1> QED
  BY <1>1, ForkMoved DEF ForkMoves

\* A new session, and the fork that has it.
LEMMA ForkBootEffect ==
    ASSUME Types, NEW f \in Forks, ForkBoot(f)
    PROVE  /\ forks[f].at = "boot"
           /\ \/ ForkMoves(f, "failed") /\ UNCHANGED <<sessions, ledgers>>
              \/ /\ OneFork(f) /\ forks'[f].at = "load" /\ forks'[f].session = Len(sessions) + 1
                 /\ forks'[f].model = forks[f].model /\ forks'[f].call = forks[f].call
                 /\ forks'[f].abandoned = forks[f].abandoned
                 /\ forks[f].name \notin ledgers /\ ledgers' = ledgers \cup {forks[f].name}
                 /\ \E b \in SessionRecords :
                       /\ sessions' = Append(sessions, b) /\ b.model = forks[f].model
                       /\ b.ledger = forks[f].name /\ b.loaded = FALSE /\ b.owner = {}
                       /\ b.log = <<>>
           /\ UNCHANGED <<NoFrame, native, active, current, left, overlapped>>
<1>1. CASE forks[f].name \in ledgers
  <2>1. ForkGoto(f, "failed") /\ UNCHANGED <<sessions, ledgers>>
    BY <1>1 DEF ForkBoot
  <2>2. ForkMoves(f, "failed")
    BY <2>1, ForkGotoEffect DEF Stages
  <2> QED
    BY <2>1, <2>2 DEF ForkBoot
<1>2. CASE forks[f].name \notin ledgers
  <2>1. /\ sessions' = Append(sessions, Booted(forks[f].model, forks[f].name))
        /\ ledgers' = ledgers \cup {forks[f].name}
        /\ forks' = [forks EXCEPT ![f].at = "load", ![f].session = Len(sessions')]
    BY <1>2 DEF ForkBoot
  <2>2. PICK m \in Models, n \in Names : m = forks[f].model /\ n = forks[f].name
    <3>1. PICK r \in ForkRecords : r = forks[f]
      BY DEF Types
    <3>2. r.model \in Models /\ r.name \in Names
      BY DEF ForkRecords
    <3> QED
      BY <3>1, <3>2
  <2>3. PICK w \in Seq(Entries) : w = <<>>
    <3>1. <<>> \in Seq(Entries)
      OBVIOUS
    <3> QED
      BY <3>1
  <2>4. PICK b : b = [model |-> m, ledger |-> n, loaded |-> FALSE, owner |-> {},
                      poisoned |-> FALSE, log |-> w]
    OBVIOUS
  <2>5. b \in SessionRecords /\ b.model = m /\ b.ledger = n /\ b.owner = {} /\ b.log = w
    BY <2>4 DEF SessionRecords
  <2>6. b.loaded = FALSE
    BY <2>4
  <2>7. b = Booted(forks[f].model, forks[f].name)
    BY <2>2, <2>3, <2>4 DEF Booted
  <2>8. PICK k \in Nat : k = Len(sessions) + 1
    BY DEF Types
  <2>9. Len(sessions') = k
    BY <2>1, <2>5, <2>7, <2>8 DEF Types
  <2>10. PICK a \in Stages : a = "load"
    BY DEF Stages
  <2>11. ForkIs(f, WithForkBooted(forks[f], a, k))
    BY <2>1, <2>9, <2>10 DEF ForkIs, WithForkBooted, Types
  <2>12. /\ OneFork(f) /\ forks'[f].at = a /\ forks'[f].session = k
         /\ forks'[f].model = forks[f].model /\ forks'[f].call = forks[f].call
         /\ forks'[f].abandoned = forks[f].abandoned
    BY <2>11, ForkBooted
  <2>13. /\ sessions' = Append(sessions, b) /\ b.model = forks[f].model
         /\ b.ledger = forks[f].name /\ b.loaded = FALSE /\ b.owner = {} /\ b.log = <<>>
    BY <2>1, <2>2, <2>3, <2>5, <2>6, <2>7
  <2>14. \E z \in SessionRecords :
            /\ sessions' = Append(sessions, z) /\ z.model = forks[f].model
            /\ z.ledger = forks[f].name /\ z.loaded = FALSE /\ z.owner = {} /\ z.log = <<>>
    BY <2>5, <2>13
  <2>15. forks[f].at = "boot" /\ UNCHANGED <<NoFrame, native, active, current, left, overlapped>>
    BY DEF ForkBoot
  <2> QED
    BY <1>2, <2>1, <2>8, <2>10, <2>12, <2>14, <2>15
<1> QED
  BY <1>1, <1>2

\* The native calls of a load take known handles.
LEMMA LoadCall ==
    ASSUME NEW k \in Kinds \cup {"stub"}
    PROVE  /\ DOMAIN LoadCalls(k) = 1..Len(LoadCalls(k)) /\ Len(LoadCalls(k)) \in Nat
           /\ 1 \in DOMAIN LoadCalls(k) /\ LoadHeld(k, 1) = {}
           /\ \A i \in DOMAIN LoadCalls(k) :
                 LET call == LoadCalls(k)[i]
                 IN  /\ i \in Nat /\ call.take \in SUBSET Handles
                     /\ call.give \in SUBSET Handles
                     /\ (LoadHeld(k, i) \cup call.take) \ call.give =
                           IF i = Len(LoadCalls(k)) THEN Resident(k) ELSE LoadHeld(k, i + 1)
                     /\ "backend" \in LoadHeld(k, i) => "backend" \notin call.take
<1>1. CASE k = "llama"
  <2>1. PICK calls : calls = LoadCalls(k)
    OBVIOUS
  <2>2. calls = <<Take("backend"), Take("model")>>
    BY <1>1, <2>1 DEF LoadCalls, LlamaInit, LlamaLoad
  <2>3. /\ Len(calls) = 2 /\ DOMAIN calls = 1..2 /\ calls[1] = Take("backend")
        /\ calls[2] = Take("model")
    BY <2>2
  <2>4. LoadHeld(k, 1) = {} /\ LoadHeld(k, 2) = {"backend"} /\ Resident(k) = {"backend", "model"}
    BY <1>1 DEF LoadHeld, Resident
  <2>5. ASSUME NEW i \in DOMAIN calls
        PROVE  LET call == calls[i]
               IN  /\ i \in Nat /\ call.take \in SUBSET Handles
                   /\ call.give \in SUBSET Handles
                   /\ (LoadHeld(k, i) \cup call.take) \ call.give =
                         IF i = 2 THEN Resident(k) ELSE LoadHeld(k, i + 1)
                   /\ "backend" \in LoadHeld(k, i) => "backend" \notin call.take
    <3>1. CASE i = 1
      BY <3>1, <2>3, <2>4 DEF Take, Handles
    <3>2. CASE i = 2
      BY <3>2, <2>3, <2>4 DEF Take, Handles
    <3>3. i \in {1, 2}
      BY <2>3
    <3> QED
      BY <3>1, <3>2, <3>3
  <2> QED
    BY <2>1, <2>3, <2>4, <2>5
<1>2. CASE k # "llama"
  <2>1. PICK calls : calls = LoadCalls(k)
    OBVIOUS
  <2>2. calls = <<Take("settings"), Take("engine"), Give({"settings"})>>
    BY <1>2, <2>1 DEF LoadCalls, LiteRtLoad
  <2>3. /\ Len(calls) = 3 /\ DOMAIN calls = 1..3 /\ calls[1] = Take("settings")
        /\ calls[2] = Take("engine") /\ calls[3] = Give({"settings"})
    BY <2>2
  <2>4. /\ LoadHeld(k, 1) = {} /\ LoadHeld(k, 2) = {"settings"}
        /\ LoadHeld(k, 3) = {"settings", "engine"} /\ Resident(k) = {"engine"}
    BY <1>2 DEF LoadHeld, Resident
  <2>5. ASSUME NEW i \in DOMAIN calls
        PROVE  LET call == calls[i]
               IN  /\ i \in Nat /\ call.take \in SUBSET Handles
                   /\ call.give \in SUBSET Handles
                   /\ (LoadHeld(k, i) \cup call.take) \ call.give =
                         IF i = 3 THEN Resident(k) ELSE LoadHeld(k, i + 1)
                   /\ "backend" \in LoadHeld(k, i) => "backend" \notin call.take
    <3>1. CASE i = 1
      BY <3>1, <2>3, <2>4 DEF Take, Handles, Transient
    <3>2. CASE i = 2
      BY <3>2, <2>3, <2>4 DEF Take, Handles, Transient
    <3>3. CASE i = 3
      BY <3>3, <2>3, <2>4 DEF Give, Handles, Transient
    <3>4. i \in {1, 2, 3}
      BY <2>3
    <3> QED
      BY <3>1, <3>2, <3>3, <3>4
  <2> QED
    BY <2>1, <2>3, <2>4, <2>5
<1> QED
  BY <1>1, <1>2

\* The fork fails, and what it had is dropped.
Dropped(f) ==
    ForkMoves(f, "failed") /\ native' = Kept(native, Held(active, conns, forks'))

\* One native call of a load, or the refusal of a second llama.cpp.
LEMMA ForkLoadEffect ==
    ASSUME Base, NEW f \in Forks, ForkLoad(f)
    PROVE  LET calls == LoadCalls(kind)
               k == forks[f].call
               s == forks[f].session
           IN  /\ forks[f].at = "load" /\ s \in DOMAIN sessions /\ k \in DOMAIN calls
               /\ \/ Refused(calls[k], native) /\ Dropped(f) /\ sessions' = sessions
                  \/ /\ ~Refused(calls[k], native) /\ Called(s, calls[k])
                     /\ OneFork(f) /\ forks'[f].at = (IF k = Len(calls) THEN "digest" ELSE "load")
                     /\ forks'[f].call = k + 1 /\ forks'[f].session = s
                     /\ forks'[f].model = forks[f].model
                     /\ forks'[f].abandoned = forks[f].abandoned
                     /\ OneSession(s) /\ sessions'[s].owner = sessions[s].owner
                     /\ sessions'[s].log = sessions[s].log
                     /\ sessions'[s].loaded <=> k = Len(calls)
               /\ UNCHANGED <<NoFrame, ledgers, active, current, left, overlapped>>
<1>t. Types /\ SessionsInv
  BY DEF Base
<1>1. PICK calls, k, s : calls = LoadCalls(kind) /\ k = forks[f].call /\ s = forks[f].session
  OBVIOUS
<1>2. /\ forks[f].at = "load" /\ s \in DOMAIN sessions /\ k \in DOMAIN calls
      /\ UNCHANGED <<NoFrame, ledgers, active, current, left, overlapped>>
  BY <1>t, <1>1 DEF ForkLoad, SessionsInv, Live
<1>3. k \in Nat
  BY <1>t, <1>1 DEF Types, ForkRecords
<1>4. IF Refused(calls[k], native)
      THEN ForkDropped(f) /\ UNCHANGED sessions
      ELSE /\ Called(s, calls[k])
           /\ forks' = [forks EXCEPT ![f].call = @ + 1,
                                     ![f].at = IF k = Len(calls) THEN "digest" ELSE "load"]
           /\ sessions' = [sessions EXCEPT ![s].loaded = (k = Len(calls))]
  BY <1>1 DEF ForkLoad, Called
<1>5. CASE Refused(calls[k], native)
  <2>1. ForkDropped(f) /\ sessions' = sessions
    BY <1>4, <1>5
  <2>2. "failed" \in Stages
    BY DEF Stages
  <2>3. ForkMoves(f, "failed")
    BY <1>t, <2>1, <2>2, ForkGotoEffect DEF ForkDropped
  <2>4. Dropped(f)
    BY <2>1, <2>3 DEF Dropped, ForkDropped
  <2> QED
    BY <1>1, <1>2, <1>5, <2>1, <2>4
<1>6. CASE ~Refused(calls[k], native)
  <2>1. /\ Called(s, calls[k])
        /\ forks' = [forks EXCEPT ![f].call = @ + 1,
                                  ![f].at = IF k = Len(calls) THEN "digest" ELSE "load"]
        /\ sessions' = [sessions EXCEPT ![s].loaded = (k = Len(calls))]
    BY <1>4, <1>6
  <2>2. PICK n \in Nat : n = k + 1
    BY <1>3
  <2>3. PICK a \in Stages : a = IF k = Len(calls) THEN "digest" ELSE "load"
    BY DEF Stages
  <2>4. ForkIs(f, WithForkLoads(forks[f], n, a))
    BY <1>t, <1>1, <2>1, <2>2, <2>3 DEF ForkIs, WithForkLoads, Types
  <2>5. /\ OneFork(f) /\ forks'[f].call = n /\ forks'[f].at = a
        /\ forks'[f].session = forks[f].session /\ forks'[f].model = forks[f].model
        /\ forks'[f].abandoned = forks[f].abandoned
    BY <1>t, <2>4, ForkLoads
  <2>6. PICK b \in BOOLEAN : b = (k = Len(calls))
    OBVIOUS
  <2>7. PICK t \in DOMAIN sessions : t = s
    BY <1>2
  <2>8. SessionIs(t, WithSessionLoaded(sessions[t], b))
    BY <1>t, <2>1, <2>6, <2>7 DEF SessionIs, WithSessionLoaded, Types
  <2>9. /\ OneSession(t) /\ sessions'[t].owner = sessions[t].owner
        /\ sessions'[t].log = sessions[t].log /\ sessions'[t].loaded = b
    BY <1>t, <2>8, SessionLoaded
  <2>10. sessions'[s].loaded <=> k = Len(calls)
    BY <2>6, <2>7, <2>9
  <2> QED
    BY <1>1, <1>2, <1>6, <2>1, <2>2, <2>3, <2>5, <2>7, <2>9, <2>10
<1> QED
  BY <1>5, <1>6

\* The other ways a fork ends or goes on.
LEMMA ForkFailsEffect ==
    ASSUME Types, NEW f \in Forks, ForkBootFails(f) \/ ForkLoadFails(f)
    PROVE  /\ forks[f].at \in {"boot", "load"} /\ ForkMoves(f, "failed")
           /\ \/ forks[f].at = "boot" /\ native' = native
              \/ native' = Kept(native, Held(active, conns, forks'))
           /\ left'.prompts = left.prompts
           /\ left' \in [prompts : Nat, forks : Nat, faults : Nat, ticks : Nat]
           /\ UNCHANGED <<NoFrame, sessions, ledgers, active, current, overlapped>>
<1>1. /\ ForkGoto(f, "failed") /\ Spend("faults") /\ forks[f].at \in {"boot", "load"}
      /\ \/ forks[f].at = "boot" /\ native' = native
         \/ native' = Kept(native, Held(active, conns, forks'))
      /\ UNCHANGED <<NoFrame, sessions, ledgers, active, current, overlapped>>
  BY DEF ForkBootFails, ForkLoadFails, ForkDropped
<1>2. ForkMoves(f, "failed")
  BY <1>1, ForkGotoEffect DEF Stages
<1>3. /\ left'.prompts = left.prompts
      /\ left' \in [prompts : Nat, forks : Nat, faults : Nat, ticks : Nat]
  BY <1>1, SpendEffect
<1> QED
  BY <1>1, <1>2, <1>3

\* The factory notes the digest.
LEMMA ForkDigestEffect ==
    ASSUME Types, NEW f \in Forks, ForkDigest(f)
    PROVE  /\ forks[f].at = "digest" /\ current' = forks[f].model /\ ForkMoves(f, "swap")
           /\ UNCHANGED <<NoFrame, sessions, ledgers, native, active, left, overlapped>>
<1>1. ForkMoves(f, "swap")
  BY ForkGotoEffect DEF Stages, ForkDigest
<1> QED
  BY <1>1 DEF ForkDigest

\* The backend is swapped in, or dropped when the client is gone.
LEMMA ForkSwapEffect ==
    ASSUME Types, NEW f \in Forks, ForkSwap(f)
    PROVE  /\ forks[f].at = "swap"
           /\ \/ forks[f].abandoned /\ Dropped(f) /\ active' = active
              \/ /\ ~forks[f].abandoned /\ ForkMoves(f, "ok") /\ active' = forks[f].session
                 /\ native' = Kept(native, Held(active', conns, forks'))
           /\ UNCHANGED <<NoFrame, sessions, ledgers, current, left, overlapped>>
<1>1. CASE forks[f].abandoned
  <2>1. ForkMoves(f, "failed")
    BY <1>1, ForkGotoEffect DEF Stages, ForkSwap, ForkDropped
  <2> QED
    BY <1>1, <2>1 DEF ForkSwap, ForkDropped, Dropped
<1>2. CASE ~forks[f].abandoned
  <2>1. ForkMoves(f, "ok")
    BY <1>2, ForkGotoEffect DEF Stages, ForkSwap
  <2> QED
    BY <1>2, <2>1 DEF ForkSwap
<1> QED
  BY <1>1, <1>2

\* The client of a fork goes away.
LEMMA AbandonEffect ==
    ASSUME Types, NEW f \in Forks, Abandon(f)
    PROVE  /\ OneFork(f) /\ forks'[f].at = forks[f].at /\ forks'[f].model = forks[f].model
           /\ forks'[f].session = forks[f].session /\ forks'[f].call = forks[f].call
           /\ overlapped' = TRUE /\ left'.prompts = left.prompts
           /\ left' \in [prompts : Nat, forks : Nat, faults : Nat, ticks : Nat]
           /\ UNCHANGED <<NoFrame, sessions, ledgers, native, active, current>>
<1>1. PICK b \in BOOLEAN : b = TRUE
  OBVIOUS
<1>2. ForkIs(f, WithForkAbandoned(forks[f], b))
  BY <1>1 DEF Abandon, ForkIs, WithForkAbandoned, Types
<1>3. /\ OneFork(f) /\ forks'[f].at = forks[f].at /\ forks'[f].model = forks[f].model
      /\ forks'[f].session = forks[f].session /\ forks'[f].call = forks[f].call
  BY <1>2, ForkAbandoned
<1>4. /\ left'.prompts = left.prompts
      /\ left' \in [prompts : Nat, forks : Nat, faults : Nat, ticks : Nat]
  BY SpendEffect DEF Abandon
<1> QED
  BY <1>3, <1>4 DEF Abandon

-----------------------------------------------------------------------------
(* The invariant, part by part.                                            *)

UiInv == Base /\ DigestInv /\ LogInv /\ NativeInv /\ FrameInv

KindOk == kind \in Kinds \cup {"stub"}

\* The backend is one of those there are.
LEMMA KindIs == ASSUME Types PROVE KindOk
  BY BackendsAssumption DEF Types, KindOk

\* A native call keeps the handles typed.
LEMMA CalledType ==
    ASSUME native \in SUBSET (Nat \X Handles), NEW s \in Nat, NEW call,
           call.take \in SUBSET Handles, Called(s, call)
    PROVE  native' \in SUBSET (Nat \X Handles)
  BY DEF Called

\* Types hold after the steps of the connections,
LEMMA ConnTypes ==
    ASSUME UiInv, NEW c \in Conns,
           \/ CreateSession(c) \/ Stream(c) \/ Malformed(c) \/ UserPrompt(c) \/ Hangup(c)
           \/ Send(c) \/ SendFails(c) \/ Closed(c)
    PROVE  Types'
<1>t. Types
  BY DEF UiInv, Base
<1>1. CASE CreateSession(c)
  BY <1>t, <1>1 DEF Types, CreateSession
<1>2. CASE Stream(c)
  BY <1>t, <1>2, StreamEffect DEF Types, Server, OneConn
<1>3. CASE Malformed(c)
  BY <1>t, <1>3, MalformedEffect DEF Types, Server, OneConn
<1>4. CASE UserPrompt(c)
  BY <1>t, <1>4, PromptEffect DEF Types, Server, OneConn
<1>5. CASE Hangup(c)
  BY <1>t, <1>5, HangupEffect DEF Types, Server, OneConn
<1>6. CASE Send(c)
  <2>1. conns[c].todo # <<>>
    BY <1>6 DEF UiInv, FrameInv, FrameOk, Send
  <2> QED
    BY <1>t, <1>6, <2>1, SendEffect DEF Types, Server, OneConn
<1>7. CASE SendFails(c)
  BY <1>t, <1>7, SendFailsEffect DEF Types, Server, OneConn
<1>8. CASE Closed(c)
  BY <1>t, <1>8, ClosedEffect DEF Types, OneConn, Kept
<1> QED
  BY <1>1, <1>2, <1>3, <1>4, <1>5, <1>6, <1>7, <1>8

\* after those of a turn's thread,
LEMMA WorkerTypes ==
    ASSUME UiInv, NEW c \in Conns,
           \/ Worker(c) \/ EndOfAnswer(c) \/ InferFails(c) \/ DispatchFails(c) \/ Panic(c)
    PROVE  Types'
<1>t. Types /\ Base
  BY DEF UiInv, Base
<1>1. CASE Stub(c)
  BY <1>t, <1>1, StubEffect DEF Types, Server, OneConn, Replied
<1>2. CASE LockPoisoned(c) \/ InferFails(c) \/ DispatchFails(c)
  <2>1. native' \in SUBSET (Nat \X Handles)
    BY <1>t, <1>2, ErrorEffect DEF Types, Unwind
  <2> QED
    BY <1>t, <1>2, <2>1, ErrorEffect DEF Types, NoTurn, OneConn, Replied, Released, OneSession
<1>3. CASE Lock(c)
  BY <1>t, <1>3, LockEffect DEF Types, NoTurn, OneConn, OneSession
<1>4. CASE Infer(c)
  <2>1. PICK call : call = InferCalls(kind, MaxTokens)[conns[c].call]
    OBVIOUS
  <2>2. /\ conns[c].at = "infer" /\ On(c) \in DOMAIN sessions /\ OneConn(c)
        /\ Called(On(c), call) /\ UNCHANGED <<NoTurn, sessions, left>>
    BY <1>t, <1>4, <2>1, InferEffect
  <2>3. call.take \in SUBSET Handles
    <3>1. conns[c].call \in DOMAIN InferCalls(kind, MaxTokens)
      BY <2>2 DEF UiInv, NativeInv
    <3>2. call.take \in SUBSET Transient
      BY <1>t, <2>1, <3>1, KindIs, InferCall DEF KindOk
    <3> QED
      BY <3>2 DEF Handles
  <2>4. On(c) \in Nat
    BY <1>t DEF Types, ConnRecords, On
  <2>5. native' \in SUBSET (Nat \X Handles)
    BY <1>t, <2>2, <2>3, <2>4, CalledType DEF Types
  <2> QED
    BY <1>t, <2>2, <2>5 DEF Types, NoTurn, OneConn
<1>5. CASE Reason(c)
  BY <1>t, <1>5, ReasonEffect DEF Types, NoTurn, OneConn, Replied, Released, OneSession, Logged
<1>6. CASE Dispatch(c)
  BY <1>t, <1>6, DispatchEffect DEF Types, NoTurn, OneConn, OneSession, Logged
<1>7. CASE Outcome(c)
  BY <1>t, <1>7, OutcomeEffect DEF Types, NoTurn, OneConn, Replied, Released, OneSession
<1>8. CASE EndOfAnswer(c)
  BY <1>t, <1>8, EndOfAnswerEffect DEF Types, NoTurn, OneConn
<1>9. CASE Panic(c)
  <2>1. native' \in SUBSET (Nat \X Handles)
    BY <1>t, <1>9, PanicEffect DEF Types, Unwind
  <2> QED
    BY <1>t, <1>9, <2>1, PanicEffect DEF Types, NoTurn, OneConn, Released, OneSession
<1> QED
  BY <1>1, <1>2, <1>3, <1>4, <1>5, <1>6, <1>7, <1>8, <1>9 DEF Worker

\* after those of a fork
LEMMA ForkTypes ==
    ASSUME UiInv, NEW f \in Forks, ForkTask(f)
    PROVE  Types'
<1>t. Types /\ Base
  BY DEF UiInv, Base
<1>1. CASE Fork(f)
  BY <1>t, <1>1, ForkEffect DEF Types, NoFrame, OneFork
<1>2. CASE ForkBoot(f)
  <2>1. forks' \in [Forks -> ForkRecords]
    BY <1>t, <1>2, ForkBootEffect DEF ForkMoves, OneFork
  <2>a. sessions' = sessions \/ \E b \in SessionRecords : sessions' = Append(sessions, b)
    BY <1>t, <1>2, ForkBootEffect
  <2>2. sessions' \in Seq(SessionRecords)
    BY <1>t, <2>a DEF Types
  <2>3. forks[f].name \in Names
    BY <1>t DEF Types, ForkRecords
  <2>b. ledgers' = ledgers \/ ledgers' = ledgers \cup {forks[f].name}
    BY <1>t, <1>2, ForkBootEffect
  <2>4. ledgers' \in SUBSET Names
    BY <1>t, <2>b, <2>3 DEF Types
  <2> QED
    BY <1>t, <1>2, <2>1, <2>2, <2>4, ForkBootEffect DEF Types, NoFrame
<1>3. CASE ForkBootFails(f) \/ ForkLoadFails(f)
  BY <1>t, <1>3, ForkFailsEffect DEF Types, NoFrame, OneFork, ForkMoves, Kept
<1>4. CASE ForkLoad(f)
  <2>1. PICK calls, k, s : calls = LoadCalls(kind) /\ k = forks[f].call /\ s = forks[f].session
    OBVIOUS
  <2>2. /\ s \in DOMAIN sessions /\ k \in DOMAIN calls
        /\ \/ Dropped(f) /\ sessions' = sessions
           \/ Called(s, calls[k]) /\ OneFork(f) /\ OneSession(s)
        /\ UNCHANGED <<NoFrame, ledgers, active, current, left, overlapped>>
    BY <1>t, <1>4, <2>1, ForkLoadEffect
  <2>3. s \in Nat
    BY <1>t, <2>2 DEF Types
  <2>4. calls[k].take \in SUBSET Handles
    BY <1>t, <2>1, <2>2, KindIs, LoadCall DEF KindOk
  <2>5. native' \in SUBSET (Nat \X Handles)
    <3>1. CASE Dropped(f)
      BY <1>t, <3>1 DEF Types, Dropped, Kept
    <3>2. CASE Called(s, calls[k])
      BY <1>t, <3>2, <2>3, <2>4, CalledType DEF Types
    <3> QED
      BY <2>2, <3>1, <3>2
  <2>6. forks' \in [Forks -> ForkRecords] /\ sessions' \in Seq(SessionRecords)
    BY <1>t, <2>2 DEF Types, Dropped, ForkMoves, OneFork, OneSession
  <2> QED
    BY <1>t, <2>2, <2>5, <2>6 DEF Types, NoFrame
<1>5. CASE ForkDigest(f)
  <2>1. forks[f].model \in Models
    BY <1>t DEF Types, ForkRecords
  <2> QED
    BY <1>t, <1>5, <2>1, ForkDigestEffect DEF Types, NoFrame, OneFork, ForkMoves
<1>6. CASE ForkSwap(f)
  <2>1. forks[f].session \in Nat
    BY <1>t DEF Types, ForkRecords
  <2> QED
    BY <1>t, <1>6, <2>1, ForkSwapEffect DEF Types, NoFrame, OneFork, ForkMoves, Dropped, Kept
<1>7. CASE Abandon(f)
  BY <1>t, <1>7, AbandonEffect DEF Types, NoFrame, OneFork
<1> QED
  BY <1>1, <1>2, <1>3, <1>4, <1>5, <1>6, <1>7 DEF ForkTask

\* and after a tick,
LEMMA TickTypes == ASSUME UiInv, Tick PROVE Types'
<1>1. Types /\ Spend("ticks")
  BY DEF UiInv, Base, Tick
<1> QED
  BY <1>1, SpendEffect DEF Types, Tick

\* so after every step.
LEMMA TypesNext == UiInv /\ Next => Types'
  BY ConnTypes, WorkerTypes, ForkTypes, TickTypes DEF Next, Handler

-----------------------------------------------------------------------------
(* Sessions and forks.                                                     *)

\* What a step of a connection is to the sessions and forks.
SessionStep ==
    /\ UNCHANGED <<kind, ledgers, active, current, forks, overlapped>>
    /\ Len(sessions') = Len(sessions)
    /\ \A s \in DOMAIN sessions :
          /\ sessions'[s].model = sessions[s].model /\ sessions'[s].ledger = sessions[s].ledger
          /\ sessions'[s].loaded = sessions[s].loaded
    /\ \A c \in Conns : conns'[c].session \in {0, active, conns[c].session}

\* A step inside one session keeps the model, ledger and load of every session.
LEMMA OneSessionStep ==
    ASSUME NEW s \in DOMAIN sessions, OneSession(s), sessions'[s].loaded = sessions[s].loaded
    PROVE  /\ Len(sessions') = Len(sessions)
           /\ \A t \in DOMAIN sessions :
                 /\ sessions'[t].model = sessions[t].model
                 /\ sessions'[t].ledger = sessions[t].ledger
                 /\ sessions'[t].loaded = sessions[t].loaded
  BY DEF OneSession

\* A connection's step leaves each of them its session, takes the active one, or lets go.
LEMMA OneConnStep ==
    ASSUME NEW c \in Conns, OneConn(c), conns'[c].session \in {0, active, conns[c].session}
    PROVE  \A d \in Conns : conns'[d].session \in {0, active, conns[d].session}
  BY DEF OneConn

\* Whatever a tab, its WebSocket or its turn does is such a step.
LEMMA FrontStep ==
    ASSUME UiInv, NEW c \in Conns,
           \/ CreateSession(c) \/ Stream(c) \/ Malformed(c) \/ UserPrompt(c) \/ Hangup(c)
           \/ Send(c) \/ SendFails(c) \/ Closed(c) \/ Stub(c) \/ Infer(c) \/ EndOfAnswer(c)
    PROVE  SessionStep /\ sessions' = sessions
<1>t. Types /\ Base
  BY DEF UiInv, Base
<1>1. CASE CreateSession(c)
  BY <1>1 DEF CreateSession, SessionStep
<1>2. CASE ~CreateSession(c)
  <2>1. /\ UNCHANGED <<kind, ledgers, active, current, forks, overlapped, sessions>>
        /\ OneConn(c) /\ conns'[c].session \in {0, active, conns[c].session}
    <3>1. CASE Stream(c)
      BY <1>t, <3>1, StreamEffect DEF Server
    <3>2. CASE Malformed(c)
      BY <1>t, <3>2, MalformedEffect DEF Server, SameTurn
    <3>3. CASE UserPrompt(c)
      BY <1>t, <3>3, PromptEffect DEF Server
    <3>4. CASE Hangup(c)
      BY <1>t, <3>4, HangupEffect DEF Server, SameTurn
    <3>5. CASE Send(c)
      <4>1. conns[c].todo # <<>>
        BY <3>5 DEF UiInv, FrameInv, FrameOk, Send
      <4> QED
        BY <1>t, <3>5, <4>1, SendEffect DEF Server, SameTurn
    <3>6. CASE SendFails(c)
      BY <1>t, <3>6, SendFailsEffect DEF Server, SameTurn
    <3>7. CASE Closed(c)
      BY <1>t, <3>7, ClosedEffect
    <3>8. CASE Stub(c)
      BY <1>t, <3>8, StubEffect DEF Server, Replied, SameTurn
    <3>9. CASE Infer(c)
      BY <1>t, <3>9, InferEffect DEF NoTurn, SameTurn
    <3>10. CASE EndOfAnswer(c)
      BY <1>t, <3>10, EndOfAnswerEffect DEF NoTurn, SameTurn
    <3> QED
      BY <1>2, <3>1, <3>2, <3>3, <3>4, <3>5, <3>6, <3>7, <3>8, <3>9, <3>10
  <2>2. \A d \in Conns : conns'[d].session \in {0, active, conns[d].session}
    BY <2>1, OneConnStep
  <2> QED
    BY <2>1, <2>2 DEF SessionStep
<1> QED
  BY <1>1, <1>2

\* The steps of turns and connections are such steps.
LEMMA TurnStep ==
    ASSUME UiInv, NEW c \in Conns,
           \/ LockPoisoned(c) \/ InferFails(c) \/ DispatchFails(c) \/ Lock(c) \/ Reason(c)
           \/ Dispatch(c) \/ Outcome(c) \/ Panic(c)
    PROVE  SessionStep
<1>t. Types /\ Base
  BY DEF UiInv, Base
<1>1. /\ UNCHANGED <<kind, ledgers, active, current, forks, overlapped>>
      /\ OneConn(c) /\ conns'[c].session = conns[c].session
      /\ On(c) \in DOMAIN sessions /\ OneSession(On(c))
      /\ sessions'[On(c)].loaded = sessions[On(c)].loaded
  <2>1. CASE LockPoisoned(c) \/ InferFails(c) \/ DispatchFails(c)
    BY <1>t, <2>1, ErrorEffect DEF NoTurn, Replied, Released, SameTurn
  <2>2. CASE Lock(c)
    BY <1>t, <2>2, LockEffect DEF NoTurn, SameTurn
  <2>3. CASE Reason(c)
    BY <1>t, <2>3, ReasonEffect DEF NoTurn, Replied, Released, SameTurn, Logged
  <2>4. CASE Dispatch(c)
    BY <1>t, <2>4, DispatchEffect DEF NoTurn, SameTurn, Logged
  <2>5. CASE Outcome(c)
    BY <1>t, <2>5, OutcomeEffect DEF NoTurn, Replied, Released, SameTurn
  <2>6. CASE Panic(c)
    BY <1>t, <2>6, PanicEffect DEF NoTurn, Released, SameTurn
  <2> QED
    BY <2>1, <2>2, <2>3, <2>4, <2>5, <2>6
<1>2. \A d \in Conns : conns'[d].session \in {0, active, conns[d].session}
  BY <1>1, OneConnStep
<1>3. /\ Len(sessions') = Len(sessions)
      /\ \A t \in DOMAIN sessions :
            /\ sessions'[t].model = sessions[t].model
            /\ sessions'[t].ledger = sessions[t].ledger
            /\ sessions'[t].loaded = sessions[t].loaded
  <2>1. PICK s \in DOMAIN sessions : s = On(c)
    BY <1>1
  <2>2. OneSession(s) /\ sessions'[s].loaded = sessions[s].loaded
    BY <1>1, <2>1
  <2> QED
    BY <2>2, OneSessionStep
<1> QED
  BY <1>1, <1>2, <1>3 DEF SessionStep

\* So is a tick.
LEMMA TickStep == ASSUME Tick PROVE SessionStep /\ sessions' = sessions
  BY DEF Tick, SessionStep

\* Such steps keep the invariants of the sessions and of the digest.
LEMMA SessionStepKeeps ==
    ASSUME UiInv, Types', SessionStep
    PROVE  SessionsInv' /\ DigestInv'
<1>t. Types /\ SessionsInv /\ DigestInv
  BY DEF UiInv, Base
<1>0. /\ kind' = kind /\ ledgers' = ledgers /\ active' = active /\ current' = current
      /\ forks' = forks /\ overlapped' = overlapped
  BY DEF SessionStep
<1>1. DOMAIN sessions' = DOMAIN sessions /\ Len(sessions') = Len(sessions)
  BY <1>t DEF Types, SessionStep
<1>2. \A s \in DOMAIN sessions :
          /\ sessions'[s].model = sessions[s].model /\ sessions'[s].ledger = sessions[s].ledger
          /\ sessions'[s].loaded = sessions[s].loaded
  BY DEF SessionStep
<1>3. active \in DOMAIN sessions \/ active = 0
  BY <1>t DEF Types, SessionsInv
<1>4. \A c \in Conns : conns'[c].session # 0 =>
          conns'[c].session \in DOMAIN sessions /\ sessions[conns'[c].session].loaded
  <2>1. \A c \in Conns : conns'[c].session \in {0, active, conns[c].session}
    BY DEF SessionStep
  <2> QED
    BY <1>t, <1>3, <2>1 DEF SessionsInv
<1>5. SessionsInv'
  <2>1. active' <= Len(sessions')
    BY <1>t, <1>0, <1>1 DEF SessionsInv
  <2>2. active' # 0 => sessions'[active'].loaded
    BY <1>t, <1>0, <1>2, <1>3 DEF SessionsInv
  <2>3. \A s \in DOMAIN sessions' : sessions'[s].ledger \in ledgers'
    BY <1>t, <1>0, <1>1, <1>2 DEF SessionsInv
  <2>4. \A s, t \in DOMAIN sessions' : s # t => sessions'[s].ledger # sessions'[t].ledger
    BY <1>t, <1>1, <1>2 DEF SessionsInv
  <2>5. \A c \in Conns : conns'[c].session # 0 =>
          conns'[c].session \in DOMAIN sessions' /\ sessions'[conns'[c].session].loaded
    BY <1>1, <1>2, <1>4
  <2>6. \A f \in Forks : forks'[f].at \in {"idle", "boot"} => forks'[f].call = 1
    BY <1>t, <1>0 DEF SessionsInv
  <2>10. \A f \in Forks : forks'[f].at = "idle" => ~forks'[f].abandoned
    BY <1>t, <1>0 DEF SessionsInv
  <2>7. \A f \in Forks : forks'[f].at \in Live =>
          /\ forks'[f].session \in DOMAIN sessions'
          /\ sessions'[forks'[f].session].model = forks'[f].model
          /\ sessions'[forks'[f].session].loaded <=> forks'[f].at # "load"
    BY <1>t, <1>0, <1>1, <1>2 DEF SessionsInv
  <2>8. \A f \in Forks : forks'[f].at = "load" => forks'[f].call \in DOMAIN LoadCalls(kind')
    BY <1>t, <1>0 DEF SessionsInv
  <2>9. \A f, g \in Forks :
          forks'[f].at \in Live /\ forks'[g].at \in Live /\ forks'[f].session = forks'[g].session
            => f = g
    BY <1>t, <1>0 DEF SessionsInv
  <2> QED
    BY <2>1, <2>2, <2>3, <2>4, <2>5, <2>6, <2>7, <2>8, <2>9, <2>10 DEF SessionsInv
<1>6. DigestInv'
  BY <1>t, <1>0, <1>2, <1>3 DEF DigestInv, Forking
<1> QED
  BY <1>5, <1>6

\* A fork that fails, ends or waits for its swap.
LEMMA ForkMoveKeeps ==
    ASSUME UiInv, NEW f \in Forks, NEW a, ForkMoves(f, a),
           \/ a \in {"failed", "ok"}
           \/ a = "swap" /\ forks[f].at = "digest",
           UNCHANGED <<kind, conns, sessions, ledgers>>,
           \/ active' = active
           \/ active' = forks[f].session /\ forks[f].at = "swap"
    PROVE  SessionsInv'
<1>t. Types /\ SessionsInv
  BY DEF UiInv, Base
<1>1. \A g \in Forks : g # f => forks'[g] = forks[g]
  BY DEF ForkMoves, OneFork
<1>2. /\ forks'[f].at = a /\ forks'[f].model = forks[f].model
      /\ forks'[f].session = forks[f].session /\ forks'[f].call = forks[f].call
  BY DEF ForkMoves
<1>3. /\ \A g \in Forks : /\ forks'[g].model = forks[g].model
                          /\ forks'[g].session = forks[g].session
                          /\ forks'[g].call = forks[g].call
      /\ \A g \in Forks : forks'[g].at \in Live =>
            forks[g].at \in Live /\ (forks'[g].at = "load" <=> forks[g].at = "load")
      /\ \A g \in Forks : forks'[g].at \in {"idle", "boot"} => forks[g].at \in {"idle", "boot"}
      /\ \A g \in Forks : forks'[g].at = "load" => forks[g].at = "load"
      /\ \A g \in Forks : forks'[g].at = "idle" =>
            forks[g].at = "idle" /\ (forks'[g].abandoned <=> forks[g].abandoned)
  BY <1>1, <1>2 DEF Live
<1>4. active' <= Len(sessions) /\ (active' # 0 => sessions[active'].loaded)
  <2>1. CASE active' = active
    BY <1>t, <2>1 DEF SessionsInv
  <2>2. CASE active' = forks[f].session /\ forks[f].at = "swap"
    <3>1. forks[f].session \in DOMAIN sessions /\ sessions[forks[f].session].loaded
      BY <1>t, <2>2 DEF SessionsInv, Live
    <3> QED
      BY <1>t, <2>2, <3>1 DEF Types
  <2> QED
    BY <2>1, <2>2
<1>5. \A g \in Forks : forks'[g].at \in Live =>
          /\ forks'[g].session \in DOMAIN sessions
          /\ sessions[forks'[g].session].model = forks'[g].model
          /\ sessions[forks'[g].session].loaded <=> forks'[g].at # "load"
  BY <1>t, <1>3 DEF SessionsInv
<1>6. \A g, h \in Forks :
          forks'[g].at \in Live /\ forks'[h].at \in Live /\ forks'[g].session = forks'[h].session
            => g = h
  BY <1>t, <1>3 DEF SessionsInv
<1>7. /\ \A g \in Forks : forks'[g].at \in {"idle", "boot"} => forks'[g].call = 1
      /\ \A g \in Forks : forks'[g].at = "idle" => ~forks'[g].abandoned
      /\ \A g \in Forks : forks'[g].at = "load" => forks'[g].call \in DOMAIN LoadCalls(kind)
  BY <1>t, <1>3 DEF SessionsInv
<1> QED
  BY <1>t, <1>4, <1>5, <1>6, <1>7 DEF SessionsInv

\* A new fork keeps them: a second one at a time marks the overlap.
LEMMA ForkKeeps ==
    ASSUME UiInv, NEW f \in Forks, Fork(f)
    PROVE  SessionsInv' /\ DigestInv'
<1>t. Types /\ SessionsInv /\ DigestInv
  BY DEF UiInv, Base
<1>e. /\ OneFork(f) /\ forks[f].at = "idle" /\ forks'[f].at \in {"boot", "failed"}
      /\ forks'[f].call = forks[f].call /\ forks'[f].abandoned = forks[f].abandoned
      /\ overlapped' = (overlapped \/ Forking # {})
      /\ UNCHANGED <<NoFrame, sessions, ledgers, native, active, current>>
  BY <1>t, ForkEffect
<1>1. \A g \in Forks : g # f => forks'[g] = forks[g]
  BY <1>e DEF OneFork
<1>2. /\ \A g \in Forks : forks'[g].at \in Live => forks'[g] = forks[g]
      /\ \A g \in Forks : forks'[g].at \in {"idle", "boot"} =>
            forks[g].at \in {"idle", "boot"} /\ forks'[g].call = forks[g].call
      /\ \A g \in Forks : forks'[g].at \in {"idle", "load"} => forks'[g] = forks[g]
  BY <1>e, <1>1 DEF Live
<1>3. UNCHANGED <<kind, conns, sessions, ledgers, active, current>>
  BY <1>e DEF NoFrame
<1>4. SessionsInv'
  BY <1>t, <1>2, <1>3 DEF SessionsInv
<1>5. DigestInv'
  <2>1. SUFFICES ASSUME ~overlapped' PROVE DigestInv'
    BY DEF DigestInv
  <2>2. ~overlapped /\ Forking = {}
    BY <1>e, <2>1
  <2>3. \A g \in Forks : forks[g].at \notin {"boot", "load", "digest", "swap"}
    BY <2>2 DEF Forking
  <2>4. \A g \in Forks : g # f => forks'[g].at \notin {"boot", "load", "digest", "swap"}
    BY <1>1, <2>3
  <2>5. ~forks'[f].abandoned
    <3>1. ~forks[f].abandoned
      BY <1>t, <1>e DEF SessionsInv
    <3> QED
      BY <3>1, <1>e
  <2>6. \A g \in Forks : forks'[g].at # "swap" /\ forks[g].at # "swap"
    BY <1>e, <2>3, <2>4
  <2> QED
    BY <1>t, <1>3, <2>2, <2>4, <2>5, <2>6 DEF DigestInv, Forking
<1> QED
  BY <1>4, <1>5
\* A step that moves no fork into or out of "swap" keeps the digest part.
LEMMA DigestStill ==
    ASSUME DigestInv, overlapped' = overlapped, current' = current, active' = active,
           Forking' = Forking,
           \A g \in Forks : forks'[g].at = "swap" <=> forks[g].at = "swap",
           \A g \in Forks : forks'[g].model = forks[g].model,
           \A g \in Forks : forks'[g].abandoned <=> forks[g].abandoned,
           active' # 0 => sessions'[active'].model = sessions[active].model
    PROVE  DigestInv'
<1>1. SUFFICES ASSUME ~overlapped' PROVE DigestInv'
  BY DEF DigestInv
<1>2. ~overlapped
  BY <1>1
<1>3. \A f, g \in Forking' : f = g
  BY <1>2 DEF DigestInv
<1>4. \A f \in Forking' : ~forks'[f].abandoned
  <2>1. \A f \in Forking : f \in Forks /\ ~forks[f].abandoned
    BY <1>2 DEF DigestInv, Forking
  <2> QED
    BY <2>1
<1>5. \A f \in Forks : forks'[f].at = "swap" => current' = forks'[f].model
  <2>1. \A f \in Forks : forks[f].at = "swap" => current = forks[f].model
    BY <1>2 DEF DigestInv
  <2> QED
    BY <2>1
<1>6. (active' # 0 /\ \A f \in Forks : forks'[f].at # "swap")
         => current' = sessions'[active'].model
  <2>1. (active # 0 /\ \A f \in Forks : forks[f].at # "swap")
           => current = sessions[active].model
    BY <1>2 DEF DigestInv
  <2> QED
    BY <2>1
<1> QED
  BY <1>1, <1>3, <1>4, <1>5, <1>6 DEF DigestInv


\* Booting keeps them: the new ledger's name was none of the ledgers'.
LEMMA ForkBootKeeps ==
    ASSUME UiInv, NEW f \in Forks, ForkBoot(f)
    PROVE  SessionsInv' /\ DigestInv'
<1>t. Types /\ SessionsInv /\ DigestInv
  BY DEF UiInv, Base
<1>e. forks[f].at = "boot" /\ UNCHANGED <<NoFrame, native, active, current, left, overlapped>>
  BY <1>t, ForkBootEffect
<1>u. UNCHANGED <<kind, conns, active, current, overlapped>>
  BY <1>e DEF NoFrame
<1>1. CASE ForkMoves(f, "failed") /\ UNCHANGED <<sessions, ledgers>>
  <2>1. SessionsInv'
    BY <1>1, <1>u, ForkMoveKeeps
  <2>2. /\ \A g \in Forks : forks'[g].at # "swap" /\ g # f => forks[g].at # "swap"
        /\ forks[f].at # "swap" /\ forks'[f].at = "failed"
        /\ \A g \in Forks : g # f => forks'[g] = forks[g]
    BY <1>1, <1>e DEF ForkMoves, OneFork
  <2>3. /\ Forking' \subseteq Forking /\ f \notin Forking'
        /\ \A g \in Forks : forks'[g].at = "swap" => forks'[g] = forks[g]
        /\ (\A g \in Forks : forks'[g].at # "swap") => \A g \in Forks : forks[g].at # "swap"
    BY <2>2 DEF Forking
  <2>4. DigestInv'
    BY <1>t, <1>u, <1>1, <2>2, <2>3 DEF DigestInv, Forking
  <2> QED
    BY <2>1, <2>4
<1>2. CASE ~(ForkMoves(f, "failed") /\ UNCHANGED <<sessions, ledgers>>)
  <2>1. /\ OneFork(f) /\ forks'[f].at = "load" /\ forks'[f].session = Len(sessions) + 1
        /\ forks'[f].model = forks[f].model /\ forks'[f].call = forks[f].call
        /\ forks'[f].abandoned = forks[f].abandoned
        /\ forks[f].name \notin ledgers /\ ledgers' = ledgers \cup {forks[f].name}
    BY <1>t, <1>2, ForkBootEffect
  <2>2. PICK b \in SessionRecords :
           /\ sessions' = Append(sessions, b) /\ b.model = forks[f].model
           /\ b.ledger = forks[f].name /\ b.loaded = FALSE
    BY <1>t, <1>2, ForkBootEffect
  <2>3. PICK n \in Nat : n = Len(sessions)
    BY <1>t DEF Types
  <2>4. /\ DOMAIN sessions = 1..n /\ DOMAIN sessions' = 1..(n + 1) /\ Len(sessions') = n + 1
        /\ \A s \in 1..n : sessions'[s] = sessions[s]
        /\ sessions'[n + 1] = b
    BY <1>t, <2>2, <2>3 DEF Types
  <2>5. \A g \in Forks : g # f => forks'[g] = forks[g]
    BY <2>1 DEF OneFork
  <2>6. active \in 0..n /\ (active # 0 => active \in 1..n)
    BY <1>t, <2>3 DEF Types, SessionsInv
  <2>7. active' <= Len(sessions') /\ (active' # 0 => sessions'[active'].loaded)
    BY <1>t, <1>u, <2>4, <2>6 DEF SessionsInv
  <2>8. \A s \in DOMAIN sessions' : sessions'[s].ledger \in ledgers'
    BY <1>t, <2>1, <2>2, <2>4 DEF SessionsInv
  <2>9. \A s, t \in DOMAIN sessions' : s # t => sessions'[s].ledger # sessions'[t].ledger
    <3>1. \A s \in 1..n : sessions[s].ledger # b.ledger
      BY <1>t, <2>1, <2>2, <2>4 DEF SessionsInv
    <3>2. \A s, t \in 1..n : s # t => sessions[s].ledger # sessions[t].ledger
      BY <1>t, <2>4 DEF SessionsInv
    <3> QED
      BY <2>4, <3>1, <3>2
  <2>10. \A c \in Conns : conns'[c].session # 0 =>
            conns'[c].session \in DOMAIN sessions' /\ sessions'[conns'[c].session].loaded
    BY <1>t, <1>u, <2>4 DEF SessionsInv
  <2>11. /\ \A g \in Forks : forks'[g].at \in {"idle", "boot"} => forks'[g].call = 1
         /\ \A g \in Forks : forks'[g].at = "idle" => ~forks'[g].abandoned
    BY <1>t, <2>1, <2>5 DEF SessionsInv
  <2>12. \A g \in Forks : forks'[g].at \in Live =>
            /\ forks'[g].session \in DOMAIN sessions'
            /\ sessions'[forks'[g].session].model = forks'[g].model
            /\ sessions'[forks'[g].session].loaded <=> forks'[g].at # "load"
    <3>1. CASE TRUE
      <4>1. ASSUME NEW g \in Forks, g # f, forks'[g].at \in Live
            PROVE  /\ forks'[g].session \in DOMAIN sessions'
                   /\ sessions'[forks'[g].session].model = forks'[g].model
                   /\ sessions'[forks'[g].session].loaded <=> forks'[g].at # "load"
        <5>1. forks'[g] = forks[g]
          BY <2>5, <4>1
        <5>2. /\ forks[g].session \in 1..n
              /\ sessions[forks[g].session].model = forks[g].model
              /\ sessions[forks[g].session].loaded <=> forks[g].at # "load"
          BY <1>t, <2>4, <4>1, <5>1 DEF SessionsInv
        <5>3. forks[g].session \in 1..(n + 1)
              /\ sessions'[forks[g].session] = sessions[forks[g].session]
          BY <2>4, <5>2
        <5> QED
          BY <2>4, <5>1, <5>2, <5>3
      <4>2. /\ forks'[f].session \in DOMAIN sessions'
            /\ sessions'[forks'[f].session].model = forks'[f].model
            /\ sessions'[forks'[f].session].loaded <=> forks'[f].at # "load"
        <5>1. forks'[f].session = n + 1 /\ n + 1 \in 1..(n + 1)
          BY <2>1, <2>3
        <5>2. sessions'[forks'[f].session] = b /\ forks'[f].at = "load"
          BY <2>1, <2>4, <5>1
        <5>3. ~sessions'[forks'[f].session].loaded
          BY <2>2, <5>2
        <5>4. sessions'[forks'[f].session].model = forks'[f].model
          BY <2>1, <2>2, <5>2
        <5> QED
          BY <2>4, <5>1, <5>2, <5>3, <5>4
      <4> QED
        BY <4>1, <4>2
    <3> QED
      BY <3>1
  <2>13. \A g \in Forks : forks'[g].at = "load" => forks'[g].call \in DOMAIN LoadCalls(kind')
    <3>1. forks'[f].call = 1
      BY <1>t, <1>e, <2>1 DEF SessionsInv
    <3>2. 1 \in DOMAIN LoadCalls(kind)
      BY <1>t, KindIs, LoadCall DEF KindOk
    <3> QED
      BY <1>t, <1>u, <2>5, <3>1, <3>2 DEF SessionsInv
  <2>14. \A g, h \in Forks :
            forks'[g].at \in Live /\ forks'[h].at \in Live
              /\ forks'[g].session = forks'[h].session => g = h
    <3>1. \A g \in Forks : g # f /\ forks'[g].at \in Live => forks'[g].session \in 1..n
      BY <1>t, <2>4, <2>5 DEF SessionsInv
    <3>2. forks'[f].session = n + 1 /\ n + 1 \notin 1..n
      BY <2>1, <2>3
    <3> QED
      BY <1>t, <2>5, <3>1, <3>2 DEF SessionsInv
  <2>15. SessionsInv'
    BY <2>7, <2>8, <2>9, <2>10, <2>11, <2>12, <2>13, <2>14 DEF SessionsInv
  <2>16. DigestInv'
    <3>1. Forking' = Forking
      BY <1>e, <2>1, <2>5 DEF Forking
    <3>2. \A g \in Forks : forks'[g].at = "swap" <=> forks[g].at = "swap"
      BY <1>e, <2>1, <2>5
    <3>3. \A g \in Forks : forks'[g].model = forks[g].model
      BY <2>1, <2>5
    <3>4. \A g \in Forks : forks'[g].abandoned <=> forks[g].abandoned
      BY <2>1, <2>5
    <3>5. active' # 0 => sessions'[active'].model = sessions[active].model
      BY <1>u, <2>4, <2>6
    <3> QED
      BY <1>t, <1>u, <3>1, <3>2, <3>3, <3>4, <3>5, DigestStill
  <2> QED
    BY <2>15, <2>16
<1> QED
  BY <1>1, <1>2

\* Loading keeps them: the last call makes the session a loaded one.
LEMMA ForkLoadKeeps ==
    ASSUME UiInv, NEW f \in Forks, ForkLoad(f)
    PROVE  SessionsInv' /\ DigestInv'
<1>t. Types /\ Base /\ SessionsInv /\ DigestInv
  BY DEF UiInv, Base
<1>0. PICK calls, k, s : calls = LoadCalls(kind) /\ k = forks[f].call /\ s = forks[f].session
  OBVIOUS
<1>e. /\ forks[f].at = "load" /\ s \in DOMAIN sessions /\ k \in DOMAIN calls
      /\ \/ Dropped(f) /\ sessions' = sessions
         \/ /\ OneFork(f) /\ forks'[f].at = (IF k = Len(calls) THEN "digest" ELSE "load")
            /\ forks'[f].call = k + 1 /\ forks'[f].session = s
            /\ forks'[f].model = forks[f].model
            /\ forks'[f].abandoned = forks[f].abandoned
            /\ OneSession(s)
            /\ sessions'[s].loaded <=> k = Len(calls)
      /\ UNCHANGED <<NoFrame, ledgers, active, current, left, overlapped>>
  BY <1>t, <1>0, ForkLoadEffect
<1>u. UNCHANGED <<kind, conns, ledgers, active, current, overlapped>>
  BY <1>e DEF NoFrame
<1>1. CASE Dropped(f) /\ sessions' = sessions
  <2>0. ForkMoves(f, "failed")
    BY <1>1 DEF Dropped
  <2>1. SessionsInv'
    BY <1>1, <1>u, <2>0, ForkMoveKeeps
  <2>2. /\ forks'[f].at = "failed" /\ \A g \in Forks : g # f => forks'[g] = forks[g]
    BY <2>0 DEF ForkMoves, OneFork
  <2>3. /\ Forking' \subseteq Forking /\ f \notin Forking'
        /\ \A g \in Forks : forks'[g].at = "swap" => forks'[g] = forks[g]
        /\ (\A g \in Forks : forks'[g].at # "swap") => \A g \in Forks : forks[g].at # "swap"
    BY <1>e, <2>2 DEF Forking
  <2>4. DigestInv'
    BY <1>t, <1>u, <1>1, <2>2, <2>3 DEF DigestInv, Forking
  <2> QED
    BY <2>1, <2>4
<1>2. CASE ~(Dropped(f) /\ sessions' = sessions)
  <2>1. /\ forks'[f].at = (IF k = Len(calls) THEN "digest" ELSE "load")
        /\ forks'[f].call = k + 1 /\ forks'[f].session = s
        /\ forks'[f].model = forks[f].model
        /\ sessions'[s].loaded <=> k = Len(calls)
        /\ \A g \in Forks : g # f => forks'[g] = forks[g]
        /\ forks'[f].abandoned = forks[f].abandoned
    BY <1>e, <1>2 DEF OneFork
  <2>2. /\ Len(sessions') = Len(sessions) /\ DOMAIN sessions' = DOMAIN sessions
        /\ \A t \in DOMAIN sessions : t # s => sessions'[t] = sessions[t]
        /\ \A t \in DOMAIN sessions :
              sessions'[t].model = sessions[t].model /\ sessions'[t].ledger = sessions[t].ledger
    BY <1>t, <1>e, <1>2 DEF OneSession, Types
  <2>3. ~sessions[s].loaded
    BY <1>t, <1>0, <1>e DEF SessionsInv, Live
  <2>4. \A t \in DOMAIN sessions : sessions[t].loaded => t # s
    BY <2>3
  <2>5. active' <= Len(sessions') /\ (active' # 0 => sessions'[active'].loaded)
    <3>1. active # 0 => active \in DOMAIN sessions
      BY <1>t DEF Types, SessionsInv
    <3> QED
      BY <1>t, <1>u, <2>2, <2>4, <3>1 DEF SessionsInv
  <2>6. \A t \in DOMAIN sessions' : sessions'[t].ledger \in ledgers'
    BY <1>t, <1>u, <2>2 DEF SessionsInv
  <2>7. \A t, u \in DOMAIN sessions' : t # u => sessions'[t].ledger # sessions'[u].ledger
    BY <1>t, <2>2 DEF SessionsInv
  <2>8. \A c \in Conns : conns'[c].session # 0 =>
            conns'[c].session \in DOMAIN sessions' /\ sessions'[conns'[c].session].loaded
    BY <1>t, <1>u, <2>2, <2>4 DEF SessionsInv
  <2>9. /\ \A g \in Forks : forks'[g].at \in {"idle", "boot"} => forks'[g].call = 1
        /\ \A g \in Forks : forks'[g].at = "idle" => ~forks'[g].abandoned
    BY <1>t, <2>1 DEF SessionsInv
  <2>10. /\ forks'[f].session \in DOMAIN sessions'
         /\ sessions'[forks'[f].session].model = forks'[f].model
         /\ sessions'[forks'[f].session].loaded <=> forks'[f].at # "load"
    <3>1. sessions[s].model = forks[f].model
      BY <1>t, <1>0, <1>e DEF SessionsInv, Live
    <3> QED
      BY <1>e, <2>1, <2>2, <3>1
  <2>11. \A g \in Forks : g # f /\ forks[g].at \in Live => forks[g].session # s
    BY <1>t, <1>0, <1>e DEF SessionsInv, Live
  <2>12. \A g \in Forks : forks'[g].at \in Live =>
            /\ forks'[g].session \in DOMAIN sessions'
            /\ sessions'[forks'[g].session].model = forks'[g].model
            /\ sessions'[forks'[g].session].loaded <=> forks'[g].at # "load"
    <3>1. ASSUME NEW g \in Forks, g # f, forks'[g].at \in Live
          PROVE  /\ forks'[g].session \in DOMAIN sessions'
                 /\ sessions'[forks'[g].session].model = forks'[g].model
                 /\ sessions'[forks'[g].session].loaded <=> forks'[g].at # "load"
      <4>1. forks'[g] = forks[g]
        BY <2>1, <3>1
      <4>2. /\ forks[g].session \in DOMAIN sessions /\ forks[g].session # s
            /\ sessions[forks[g].session].model = forks[g].model
            /\ sessions[forks[g].session].loaded <=> forks[g].at # "load"
        BY <1>t, <2>11, <3>1, <4>1 DEF SessionsInv
      <4>3. sessions'[forks[g].session] = sessions[forks[g].session]
        BY <2>2, <4>2
      <4> QED
        BY <2>2, <4>1, <4>2, <4>3
    <3> QED
      BY <2>10, <3>1
  <2>13. \A g \in Forks : forks'[g].at = "load" => forks'[g].call \in DOMAIN LoadCalls(kind')
    <3>1. forks'[f].at = "load" => k + 1 \in DOMAIN calls
      <4>1. DOMAIN calls = 1..Len(calls) /\ Len(calls) \in Nat
        BY <1>t, <1>0, KindIs, LoadCall DEF KindOk
      <4> QED
        BY <1>e, <2>1, <4>1
    <3> QED
      BY <1>t, <1>0, <1>u, <2>1, <3>1 DEF SessionsInv
  <2>14. \A g, h \in Forks :
            forks'[g].at \in Live /\ forks'[h].at \in Live
              /\ forks'[g].session = forks'[h].session => g = h
    BY <1>t, <2>1, <2>11 DEF SessionsInv
  <2>15. SessionsInv'
    BY <2>5, <2>6, <2>7, <2>8, <2>9, <2>12, <2>13, <2>14 DEF SessionsInv
  <2>16. DigestInv'
    <3>1. Forking' = Forking
      BY <1>e, <2>1 DEF Forking
    <3>2. \A g \in Forks : forks'[g].at = "swap" <=> forks[g].at = "swap"
      BY <1>e, <2>1
    <3>3. \A g \in Forks : forks'[g].model = forks[g].model
      BY <2>1
    <3>4. \A g \in Forks : forks'[g].abandoned <=> forks[g].abandoned
      BY <2>1
    <3>5. active' # 0 => sessions'[active'].model = sessions[active].model
      <4>1. active # 0 => active \in DOMAIN sessions
        BY <1>t DEF Types, SessionsInv
      <4> QED
        BY <1>u, <2>2, <4>1
    <3> QED
      BY <1>t, <1>u, <3>1, <3>2, <3>3, <3>4, <3>5, DigestStill
  <2> QED
    BY <2>15, <2>16
<1> QED
  BY <1>1, <1>2

\* The digest, the swap and a failure keep them.
LEMMA ForkEndKeeps ==
    ASSUME UiInv, NEW f \in Forks,
           ForkBootFails(f) \/ ForkLoadFails(f) \/ ForkDigest(f) \/ ForkSwap(f)
    PROVE  SessionsInv' /\ DigestInv'
<1>t. Types /\ SessionsInv /\ DigestInv
  BY DEF UiInv, Base
<1>1. CASE ForkBootFails(f) \/ ForkLoadFails(f)
  <2>0. /\ forks[f].at \in {"boot", "load"} /\ ForkMoves(f, "failed")
        /\ UNCHANGED <<kind, conns, sessions, ledgers, active, current, overlapped>>
    BY <1>t, <1>1, ForkFailsEffect DEF NoFrame
  <2>1. SessionsInv'
    BY <2>0, ForkMoveKeeps
  <2>2. /\ forks'[f].at = "failed" /\ \A g \in Forks : g # f => forks'[g] = forks[g]
    BY <2>0 DEF ForkMoves, OneFork
  <2>3. /\ Forking' \subseteq Forking /\ f \notin Forking'
        /\ \A g \in Forks : forks'[g].at = "swap" => forks'[g] = forks[g]
        /\ (\A g \in Forks : forks'[g].at # "swap") => \A g \in Forks : forks[g].at # "swap"
    BY <2>0, <2>2 DEF Forking
  <2>4. DigestInv'
    BY <1>t, <2>0, <2>2, <2>3 DEF DigestInv, Forking
  <2> QED
    BY <2>1, <2>4
<1>2. CASE ForkDigest(f)
  <2>0. /\ forks[f].at = "digest" /\ current' = forks[f].model /\ ForkMoves(f, "swap")
        /\ UNCHANGED <<kind, conns, sessions, ledgers, active, overlapped>>
    BY <1>t, <1>2, ForkDigestEffect DEF NoFrame
  <2>1. SessionsInv'
    BY <2>0, ForkMoveKeeps
  <2>2. /\ forks'[f].at = "swap" /\ forks'[f].model = forks[f].model
        /\ forks'[f].abandoned = forks[f].abandoned
        /\ \A g \in Forks : g # f => forks'[g] = forks[g]
    BY <2>0 DEF ForkMoves, OneFork
  <2>3. Forking' = Forking /\ f \in Forking
    BY <2>0, <2>2 DEF Forking
  <2>4. DigestInv'
    <3>1. SUFFICES ASSUME ~overlapped' PROVE DigestInv'
      BY DEF DigestInv
    <3>2. ~overlapped /\ \A g, h \in Forking : g = h
      BY <1>t, <2>0, <3>1 DEF DigestInv
    <3>3. \A g \in Forks : forks'[g].at = "swap" => g = f
      <4>1. \A g \in Forks : forks'[g].at = "swap" => g \in Forking'
        BY DEF Forking
      <4> QED
        BY <2>3, <3>2, <4>1
    <3>4. \A g \in Forking' : ~forks'[g].abandoned
      BY <1>t, <2>2, <2>3, <3>2 DEF DigestInv
    <3> QED
      BY <2>0, <2>2, <2>3, <3>2, <3>3, <3>4 DEF DigestInv
  <2> QED
    BY <2>1, <2>4
<1>3. CASE ForkSwap(f)
  <2>0. /\ forks[f].at = "swap"
        /\ \/ forks[f].abandoned /\ ForkMoves(f, "failed") /\ active' = active
           \/ ~forks[f].abandoned /\ ForkMoves(f, "ok") /\ active' = forks[f].session
        /\ UNCHANGED <<kind, conns, sessions, ledgers, current, overlapped>>
    BY <1>t, <1>3, ForkSwapEffect DEF NoFrame, Dropped
  <2>1. SessionsInv'
    BY <2>0, ForkMoveKeeps
  <2>2. /\ forks'[f].at \in {"failed", "ok"}
        /\ \A g \in Forks : g # f => forks'[g] = forks[g]
    BY <2>0 DEF ForkMoves, OneFork
  <2>3. f \in Forking
    BY <2>0 DEF Forking
  <2>4. DigestInv'
    <3>1. SUFFICES ASSUME ~overlapped' PROVE DigestInv'
      BY DEF DigestInv
    <3>2. /\ ~overlapped /\ \A g \in Forking : g = f
          /\ ~forks[f].abandoned /\ current = forks[f].model
      BY <1>t, <2>0, <2>3, <3>1 DEF DigestInv
    <3>3. Forking' = {}
      BY <2>2, <3>2 DEF Forking
    <3>4. \A g \in Forks : forks'[g].at # "swap"
      BY <3>3 DEF Forking
    <3>5. active' = forks[f].session /\ sessions[forks[f].session].model = forks[f].model
      BY <1>t, <2>0, <3>2 DEF SessionsInv, Live
    <3> QED
      BY <2>0, <3>2, <3>3, <3>4, <3>5 DEF DigestInv
  <2> QED
    BY <2>1, <2>4
<1> QED
  BY <1>1, <1>2, <1>3

\* A client that goes away marks the overlap.
LEMMA AbandonKeeps ==
    ASSUME UiInv, NEW f \in Forks, Abandon(f)
    PROVE  SessionsInv' /\ DigestInv'
<1>t. Types /\ SessionsInv /\ DigestInv
  BY DEF UiInv, Base
<1>e. /\ forks'[f].at = forks[f].at /\ forks'[f].model = forks[f].model
      /\ forks'[f].session = forks[f].session /\ forks'[f].call = forks[f].call
      /\ \A g \in Forks : g # f => forks'[g] = forks[g]
      /\ overlapped' = TRUE /\ UNCHANGED <<kind, conns, sessions, ledgers, active, current>>
  BY <1>t, AbandonEffect DEF NoFrame, OneFork
<1>1. forks[f].at # "idle"
  BY DEF Abandon, Forking
<1>2. \A g \in Forks :
         /\ forks'[g].at = forks[g].at /\ forks'[g].model = forks[g].model
         /\ forks'[g].session = forks[g].session /\ forks'[g].call = forks[g].call
  BY <1>e
<1>3. \A g \in Forks : forks'[g].at = "idle" => ~forks'[g].abandoned
  BY <1>t, <1>e, <1>1 DEF SessionsInv
<1>4. SessionsInv'
  BY <1>t, <1>e, <1>2, <1>3 DEF SessionsInv
<1>5. DigestInv'
  BY <1>e DEF DigestInv
<1> QED
  BY <1>4, <1>5

\* Every step keeps the invariants of the sessions and of the digest.
LEMMA SessionsDigestNext ==
    ASSUME UiInv, Next
    PROVE  SessionsInv' /\ DigestInv'
<1>t. Types'
  BY TypesNext
<1>1. ASSUME NEW c \in Conns,
             \/ CreateSession(c) \/ Stream(c) \/ Malformed(c) \/ UserPrompt(c) \/ Hangup(c)
             \/ Worker(c) \/ Handler(c) \/ EndOfAnswer(c) \/ InferFails(c) \/ DispatchFails(c)
             \/ Panic(c)
      PROVE  SessionStep
  BY <1>1, FrontStep, TurnStep DEF Worker, Handler
<1>2. ASSUME NEW f \in Forks, ForkTask(f)
      PROVE  SessionsInv' /\ DigestInv'
  BY <1>2, ForkKeeps, ForkBootKeeps, ForkLoadKeeps, ForkEndKeeps, AbandonKeeps DEF ForkTask
<1>3. Tick => SessionStep
  BY TickStep
<1> QED
  BY <1>t, <1>1, <1>2, <1>3, SessionStepKeeps DEF Next

-----------------------------------------------------------------------------
(* The mutexes.                                                            *)

\* No thread enters or leaves a session, and the owners stay.
MutexStill ==
    /\ DOMAIN sessions \subseteq DOMAIN sessions'
    /\ \A s \in DOMAIN sessions' :
          sessions'[s].owner = IF s \in DOMAIN sessions THEN sessions[s].owner ELSE {}
    /\ \A d \in Conns :
          /\ conns'[d].at \in Busy <=> conns[d].at \in Busy
          /\ conns[d].at \in Busy => conns'[d].session = conns[d].session

\* A step that moves no turn keeps the mutex's invariant.
LEMMA MutexStillKeeps ==
    ASSUME SessionsInv, MutexInv, MutexStill
    PROVE  MutexInv'
<1>1. \A c \in Conns : conns'[c].at \in Busy =>
          conns[c].at \in Busy /\ conns'[c].session = conns[c].session
            /\ conns[c].session # 0 /\ conns[c].session \in DOMAIN sessions
  BY DEF MutexStill, MutexInv, SessionsInv
<1>2. ASSUME NEW s \in DOMAIN sessions', NEW c \in Conns
      PROVE  c \in sessions'[s].owner <=> conns'[c].at \in Busy /\ conns'[c].session = s
  <2>1. CASE s \in DOMAIN sessions
    <3>1. sessions'[s].owner = sessions[s].owner
      BY <2>1 DEF MutexStill
    <3>2. c \in sessions[s].owner <=> conns[c].at \in Busy /\ conns[c].session = s
      BY <2>1 DEF MutexInv
    <3>3. conns'[c].at \in Busy <=> conns[c].at \in Busy
      BY DEF MutexStill
    <3> QED
      BY <1>1, <3>1, <3>2, <3>3
  <2>2. CASE s \notin DOMAIN sessions
    <3>1. sessions'[s].owner = {}
      BY <2>2 DEF MutexStill
    <3> QED
      BY <1>1, <2>2, <3>1
  <2> QED
    BY <2>1, <2>2
<1>3. \A s \in DOMAIN sessions' : \A c, d \in sessions'[s].owner : c = d
  BY DEF MutexStill, MutexInv
<1>4. \A c \in Conns : conns'[c].at \in Busy => conns'[c].session # 0
  BY <1>1
<1> QED
  BY <1>2, <1>3, <1>4 DEF MutexInv

\* Taking a free mutex keeps it.
LEMMA MutexLocked ==
    ASSUME Base, NEW c \in Conns, Lock(c)
    PROVE  MutexInv'
<1>e. PICK s \in DOMAIN sessions :
         /\ s = conns[c].session /\ conns[c].at = "lock" /\ sessions[s].owner = {}
         /\ OneConn(c) /\ conns'[c].at = "infer" /\ conns'[c].session = s
         /\ OneSession(s) /\ sessions'[s].owner = {c}
  BY LockEffect DEF On, SameTurn
<1>1. /\ \A d \in Conns : d # c => conns'[d] = conns[d]
      /\ DOMAIN sessions' = DOMAIN sessions
      /\ \A t \in DOMAIN sessions : t # s => sessions'[t] = sessions[t]
  BY <1>e DEF OneConn, OneSession, Base, Types
<1>2. s # 0
  BY <1>e DEF Base, Types
<1>3. \A d \in Conns : ~(conns[d].at \in Busy /\ conns[d].session = s)
  BY <1>e DEF Base, MutexInv
<1>4. ASSUME NEW t \in DOMAIN sessions', NEW d \in Conns
      PROVE  d \in sessions'[t].owner <=> conns'[d].at \in Busy /\ conns'[d].session = t
  <2>1. CASE t = s
    BY <1>e, <1>1, <1>3, <2>1 DEF Busy
  <2>2. CASE t # s /\ d = c
    <3>1. c \notin sessions[t].owner
      BY <1>e, <1>1 DEF Base, MutexInv, Busy
    <3> QED
      BY <1>e, <1>1, <2>2, <3>1
  <2>3. CASE t # s /\ d # c
    BY <1>1, <2>3 DEF Base, MutexInv
  <2> QED
    BY <2>1, <2>2, <2>3
<1>5. \A t \in DOMAIN sessions' : \A d, e \in sessions'[t].owner : d = e
  BY <1>e, <1>1 DEF Base, MutexInv
<1>6. \A d \in Conns : conns'[d].at \in Busy => conns'[d].session # 0
  BY <1>e, <1>1, <1>2 DEF Base, MutexInv
<1> QED
  BY <1>4, <1>5, <1>6 DEF MutexInv

\* Leaving keeps it.
LEMMA MutexReleased ==
    ASSUME Base, NEW c \in Conns, On(c) \in DOMAIN sessions,
           OneConn(c), conns'[c].at \notin Busy, Released(c)
    PROVE  MutexInv'
<1>e. PICK s \in DOMAIN sessions :
         /\ s = conns[c].session /\ OneSession(s)
         /\ sessions'[s].owner = sessions[s].owner \ {c}
  BY DEF On, Released
<1>1. /\ \A d \in Conns : d # c => conns'[d] = conns[d]
      /\ DOMAIN sessions' = DOMAIN sessions
      /\ \A t \in DOMAIN sessions : t # s => sessions'[t] = sessions[t]
  BY <1>e DEF OneConn, OneSession, Base, Types
<1>2. ASSUME NEW t \in DOMAIN sessions', NEW d \in Conns
      PROVE  d \in sessions'[t].owner <=> conns'[d].at \in Busy /\ conns'[d].session = t
  <2>0. d \in sessions[t].owner <=> conns[d].at \in Busy /\ conns[d].session = t
    BY <1>1 DEF Base, MutexInv
  <2>1. CASE d = c
    BY <1>e, <1>1, <2>0, <2>1
  <2>2. CASE d # c
    BY <1>e, <1>1, <2>0, <2>2
  <2> QED
    BY <2>1, <2>2
<1>3. \A t \in DOMAIN sessions' : \A d, e \in sessions'[t].owner : d = e
  BY <1>e, <1>1 DEF Base, MutexInv
<1>4. \A d \in Conns : conns'[d].at \in Busy => conns'[d].session # 0
  BY <1>1 DEF Base, MutexInv
<1> QED
  BY <1>2, <1>3, <1>4 DEF MutexInv

\* A step of one connection that neither takes a mutex nor gives one back.
LEMMA ConnMutexStill ==
    ASSUME Types, NEW c \in Conns, OneConn(c),
           conns'[c].at \in Busy <=> conns[c].at \in Busy,
           conns[c].at \in Busy => conns'[c].session = conns[c].session,
           DOMAIN sessions' = DOMAIN sessions,
           \A s \in DOMAIN sessions : sessions'[s].owner = sessions[s].owner
    PROVE  MutexStill
  BY DEF MutexStill, OneConn

\* The connections' steps move no turn in or out of a session.
LEMMA FrontMutex ==
    ASSUME UiInv, NEW c \in Conns,
           \/ CreateSession(c) \/ Stream(c) \/ Malformed(c) \/ UserPrompt(c) \/ Hangup(c)
           \/ Send(c) \/ SendFails(c) \/ Closed(c) \/ Stub(c) \/ Infer(c) \/ EndOfAnswer(c)
    PROVE  MutexStill
<1>t. Types /\ Base
  BY DEF UiInv, Base
<1>s. sessions' = sessions
  BY FrontStep
<1>1. CASE CreateSession(c)
  BY <1>s, <1>1 DEF CreateSession, MutexStill
<1>2. CASE ~CreateSession(c)
  <2>1. /\ OneConn(c) /\ (conns'[c].at \in Busy <=> conns[c].at \in Busy)
        /\ conns[c].at \in Busy => conns'[c].session = conns[c].session
    <3>1. CASE Stream(c)
      BY <1>t, <3>1, StreamEffect DEF Busy
    <3>2. CASE Malformed(c)
      BY <1>t, <3>2, MalformedEffect DEF Busy
    <3>3. CASE UserPrompt(c)
      BY <1>t, <3>3, PromptEffect DEF Busy
    <3>4. CASE Hangup(c)
      BY <1>t, <3>4, HangupEffect DEF SameTurn
    <3>5. CASE Send(c)
      <4>1. conns[c].todo # <<>>
        BY <3>5 DEF UiInv, FrameInv, FrameOk, Send
      <4>2. conns[c].at = "reply" /\ conns'[c].at \in {"open", "reply"} /\ OneConn(c)
        BY <1>t, <3>5, <4>1, SendEffect
      <4> QED
        BY <4>2 DEF Busy
    <3>6. CASE SendFails(c)
      BY <1>t, <3>6, SendFailsEffect DEF Busy
    <3>7. CASE Closed(c)
      BY <1>t, <3>7, ClosedEffect DEF Busy
    <3>8. CASE Stub(c)
      BY <1>t, <3>8, StubEffect DEF Replied, Busy
    <3>9. CASE Infer(c)
      BY <1>t, <3>9, InferEffect DEF SameTurn, Busy
    <3>10. CASE EndOfAnswer(c)
      BY <1>t, <3>10, EndOfAnswerEffect DEF SameTurn
    <3> QED
      BY <1>2, <3>1, <3>2, <3>3, <3>4, <3>5, <3>6, <3>7, <3>8, <3>9, <3>10
  <2> QED
    BY <1>t, <1>s, <2>1, ConnMutexStill
<1> QED
  BY <1>1, <1>2

\* Recording keeps the owner.
LEMMA LoggedMutex ==
    ASSUME Types, NEW c \in Conns, On(c) \in DOMAIN sessions, NEW type, Logged(c, type)
    PROVE  /\ DOMAIN sessions' = DOMAIN sessions
           /\ \A s \in DOMAIN sessions : sessions'[s].owner = sessions[s].owner
  BY DEF Logged, OneSession, Types

\* The steps of a turn's thread keep it.
LEMMA TurnMutex ==
    ASSUME UiInv, NEW c \in Conns,
           \/ LockPoisoned(c) \/ InferFails(c) \/ DispatchFails(c) \/ Lock(c) \/ Reason(c)
           \/ Dispatch(c) \/ Outcome(c) \/ Panic(c)
    PROVE  MutexInv'
<1>t. Types /\ Base /\ SessionsInv /\ MutexInv
  BY DEF UiInv, Base
<1>1. CASE LockPoisoned(c) \/ InferFails(c) \/ DispatchFails(c)
  <2>1. On(c) \in DOMAIN sessions /\ Released(c) /\ OneConn(c) /\ conns'[c].at = "reply"
    BY <1>t, <1>1, ErrorEffect DEF Replied
  <2>2. conns'[c].at \notin Busy
    BY <2>1 DEF Busy
  <2> QED
    BY <1>t, <2>1, <2>2, MutexReleased
<1>2. CASE Lock(c)
  BY <1>t, <1>2, MutexLocked
<1>3. CASE Reason(c)
  <2>0. conns[c].at = "parse" /\ On(c) \in DOMAIN sessions
    BY <1>t, <1>3, ReasonEffect
  <2>1. CASE Replied(c, ErrorReply) /\ Released(c)
    <3>1. Released(c) /\ OneConn(c) /\ conns'[c].at = "reply"
      BY <2>1 DEF Replied
    <3>2. conns'[c].at \notin Busy
      BY <3>1 DEF Busy
    <3> QED
      BY <1>t, <2>0, <3>1, <3>2, MutexReleased
  <2>2. CASE ~(Replied(c, ErrorReply) /\ Released(c))
    <3>1. OneConn(c) /\ conns'[c].at = "dispatch" /\ SameTurn(c) /\ Logged(c, "reasoning")
      BY <1>t, <1>3, <2>2, ReasonEffect
    <3>2. /\ DOMAIN sessions' = DOMAIN sessions
          /\ \A s \in DOMAIN sessions : sessions'[s].owner = sessions[s].owner
      BY <1>t, <2>0, <3>1, LoggedMutex
    <3>3. /\ conns'[c].at \in Busy <=> conns[c].at \in Busy
          /\ conns[c].at \in Busy => conns'[c].session = conns[c].session
      BY <2>0, <3>1 DEF Busy, SameTurn
    <3>4. MutexStill
      BY <1>t, <3>1, <3>2, <3>3, ConnMutexStill
    <3> QED
      BY <1>t, <3>4, MutexStillKeeps
  <2> QED
    BY <2>1, <2>2
<1>4. CASE Dispatch(c)
  <2>1. /\ conns[c].at = "dispatch" /\ On(c) \in DOMAIN sessions /\ Logged(c, "mediated")
        /\ OneConn(c) /\ conns'[c].at = "dispatch" /\ SameTurn(c)
    BY <1>t, <1>4, DispatchEffect
  <2>2. /\ DOMAIN sessions' = DOMAIN sessions
        /\ \A s \in DOMAIN sessions : sessions'[s].owner = sessions[s].owner
    BY <1>t, <2>1, LoggedMutex
  <2>3. /\ conns'[c].at \in Busy <=> conns[c].at \in Busy
        /\ conns[c].at \in Busy => conns'[c].session = conns[c].session
    BY <2>1 DEF Busy, SameTurn
  <2>4. MutexStill
    BY <1>t, <2>1, <2>2, <2>3, ConnMutexStill
  <2> QED
    BY <1>t, <2>4, MutexStillKeeps
<1>5. CASE Outcome(c)
  <2>1. On(c) \in DOMAIN sessions /\ Released(c) /\ OneConn(c) /\ conns'[c].at = "reply"
    BY <1>t, <1>5, OutcomeEffect DEF Replied
  <2>2. conns'[c].at \notin Busy
    BY <2>1 DEF Busy
  <2> QED
    BY <1>t, <2>1, <2>2, MutexReleased
<1>6. CASE Panic(c)
  <2>1. On(c) \in DOMAIN sessions /\ Released(c) /\ OneConn(c) /\ conns'[c].at = "open"
    BY <1>t, <1>6, PanicEffect
  <2>2. conns'[c].at \notin Busy
    BY <2>1 DEF Busy
  <2> QED
    BY <1>t, <2>1, <2>2, MutexReleased
<1> QED
  BY <1>1, <1>2, <1>3, <1>4, <1>5, <1>6

\* What a fork does to the sessions there are, and to the connections.
LEMMA ForkStill ==
    ASSUME UiInv, NEW f \in Forks, ForkTask(f)
    PROVE  /\ conns' = conns /\ kind' = kind /\ left'.prompts = left.prompts
           /\ DOMAIN sessions \subseteq DOMAIN sessions'
           /\ \A s \in DOMAIN sessions' :
                 /\ sessions'[s].owner = IF s \in DOMAIN sessions THEN sessions[s].owner ELSE {}
                 /\ sessions'[s].log = IF s \in DOMAIN sessions THEN sessions[s].log ELSE <<>>
<1>t. Types /\ Base
  BY DEF UiInv, Base
<1>1. CASE Fork(f) \/ ForkBootFails(f) \/ ForkLoadFails(f) \/ ForkDigest(f) \/ ForkSwap(f)
             \/ Abandon(f)
  <2>1. sessions' = sessions /\ UNCHANGED NoFrame /\ left'.prompts = left.prompts
    BY <1>t, <1>1, ForkEffect, ForkFailsEffect, ForkDigestEffect, ForkSwapEffect, AbandonEffect
  <2> QED
    BY <2>1 DEF NoFrame
<1>2. CASE ForkBoot(f)
  <2>0. UNCHANGED <<NoFrame, left>>
    BY <1>t, <1>2, ForkBootEffect
  <2>1. CASE sessions' = sessions
    BY <2>0, <2>1 DEF NoFrame
  <2>2. CASE sessions' # sessions
    <3>1. PICK b \in SessionRecords : sessions' = Append(sessions, b) /\ b.owner = {} /\ b.log = <<>>
      BY <1>t, <1>2, <2>2, ForkBootEffect
    <3>2. PICK n \in Nat : n = Len(sessions)
      BY <1>t DEF Types
    <3>3. /\ DOMAIN sessions = 1..n /\ DOMAIN sessions' = 1..(n + 1)
          /\ \A s \in 1..n : sessions'[s] = sessions[s]
          /\ sessions'[n + 1] = b
      BY <1>t, <3>1, <3>2 DEF Types
    <3>4. n + 1 \notin 1..n /\ 1..n \subseteq 1..(n + 1)
      OBVIOUS
    <3>5. ASSUME NEW s \in 1..(n + 1)
          PROVE  /\ sessions'[s].owner = IF s \in 1..n THEN sessions[s].owner ELSE {}
                 /\ sessions'[s].log = IF s \in 1..n THEN sessions[s].log ELSE <<>>
      <4>1. CASE s \in 1..n
        BY <3>3, <4>1
      <4>2. CASE s \notin 1..n
        <5>1. s = n + 1
          BY <4>2
        <5> QED
          BY <3>1, <3>3, <4>2, <5>1
      <4> QED
        BY <4>1, <4>2
    <3>6. conns' = conns /\ kind' = kind /\ left'.prompts = left.prompts
      BY <2>0 DEF NoFrame
    <3> QED
      BY <3>3, <3>4, <3>5, <3>6
  <2> QED
    BY <2>1, <2>2
<1>3. CASE ForkLoad(f)
  <2>1. UNCHANGED <<NoFrame, left>>
    BY <1>t, <1>3, ForkLoadEffect
  <2>2. PICK s : s = forks[f].session
    OBVIOUS
  <2>3. \/ sessions' = sessions
        \/ s \in DOMAIN sessions /\ OneSession(s)
             /\ sessions'[s].owner = sessions[s].owner /\ sessions'[s].log = sessions[s].log
    BY <1>t, <1>3, <2>2, ForkLoadEffect
  <2>4. conns' = conns /\ kind' = kind /\ left'.prompts = left.prompts
    BY <2>1 DEF NoFrame
  <2>5. CASE sessions' = sessions
    BY <2>4, <2>5
  <2>6. CASE sessions' # sessions
    <3>1. /\ s \in DOMAIN sessions /\ DOMAIN sessions' = DOMAIN sessions
          /\ \A t \in DOMAIN sessions : t # s => sessions'[t] = sessions[t]
      BY <1>t, <2>3, <2>6 DEF OneSession, Types
    <3>2. \A t \in DOMAIN sessions :
             sessions'[t].owner = sessions[t].owner /\ sessions'[t].log = sessions[t].log
      BY <2>3, <2>6, <3>1
    <3> QED
      BY <2>4, <3>1, <3>2
  <2> QED
    BY <2>5, <2>6
<1> QED
  BY <1>1, <1>2, <1>3 DEF ForkTask

\* Every step keeps the mutex's invariant.
LEMMA MutexNext ==
    ASSUME UiInv, Next
    PROVE  MutexInv'
<1>t. SessionsInv /\ MutexInv
  BY DEF UiInv, Base
<1>1. ASSUME NEW c \in Conns,
             \/ CreateSession(c) \/ Stream(c) \/ Malformed(c) \/ UserPrompt(c) \/ Hangup(c)
             \/ Worker(c) \/ Handler(c) \/ EndOfAnswer(c) \/ InferFails(c) \/ DispatchFails(c)
             \/ Panic(c)
      PROVE  MutexInv'
  BY <1>t, <1>1, FrontMutex, TurnMutex, MutexStillKeeps DEF Worker, Handler
<1>2. ASSUME NEW f \in Forks, ForkTask(f) PROVE MutexStill
  BY <1>2, ForkStill DEF MutexStill
<1>3. Tick => MutexStill
  BY DEF Tick, MutexStill
<1> QED
  BY <1>t, <1>1, <1>2, <1>3, MutexStillKeeps DEF Next

-----------------------------------------------------------------------------
(* The turns on the ledgers.                                               *)

TurnsInv == LogInv /\ TurnsDoNotMix

Fresh == {"lock", "infer", "parse"}

\* Nothing is recorded, and no turn begins.
LogStill ==
    /\ left'.prompts = left.prompts
    /\ DOMAIN sessions \subseteq DOMAIN sessions'
    /\ \A s \in DOMAIN sessions' :
          sessions'[s].log = IF s \in DOMAIN sessions THEN sessions[s].log ELSE <<>>
    /\ \A d \in Conns : conns'[d].at \in Streaming =>
          conns[d].at \in Streaming /\ conns'[d].turn = conns[d].turn
    /\ \A d \in Conns : conns'[d].at \in Fresh => conns[d].at \in Fresh
    /\ \A d \in Conns : conns'[d].at = "dispatch" =>
          conns[d].at = "dispatch" /\ conns'[d].session = conns[d].session

\* A session's entries carry the numbers of turns.
LEMMA LogType ==
    ASSUME Types, NEW s \in DOMAIN sessions
    PROVE  /\ sessions[s].log \in Seq(Entries)
           /\ \A i \in DOMAIN sessions[s].log : sessions[s].log[i].turn \in Nat
<1>1. PICK r \in SessionRecords : r = sessions[s]
  <2>1. sessions[s] \in SessionRecords
    BY DEF Types
  <2> QED
    BY <2>1
<1>2. r.log \in Seq(Entries)
  BY DEF SessionRecords
<1>3. PICK log \in Seq(Entries) : log = r.log
  BY <1>2
<1>4. \A i \in DOMAIN log : log[i] \in Entries
  OBVIOUS
<1>5. \A i \in DOMAIN log : log[i].turn \in Nat
  BY <1>4 DEF Entries
<1> QED
  BY <1>1, <1>3, <1>5

\* A step that records nothing and starts no turn keeps the turns apart.
LEMMA LogStillKeeps ==
    ASSUME Base, LogInv, TurnsDoNotMix, LogStill
    PROVE  LogInv' /\ TurnsDoNotMix'
<1>1. \A s \in DOMAIN sessions' :
          \/ s \in DOMAIN sessions /\ sessions'[s].log = sessions[s].log
          \/ s \notin DOMAIN sessions /\ sessions'[s].log = <<>>
  BY DEF LogStill
<1>2. \A s \in DOMAIN sessions' : \A i \in DOMAIN sessions'[s].log :
          /\ s \in DOMAIN sessions /\ sessions'[s].log = sessions[s].log
          /\ i \in DOMAIN sessions[s].log
  BY <1>1
<1>3. \A s \in DOMAIN sessions' : \A i \in DOMAIN sessions'[s].log :
          sessions'[s].log[i].turn > left'.prompts
  BY <1>2 DEF LogStill, LogInv
<1>4. \A c \in Conns : conns'[c].at \in Streaming => conns'[c].turn > left'.prompts
  BY DEF LogStill, LogInv
<1>5. \A c, d \in Conns :
          conns'[c].at \in Streaming /\ conns'[d].at \in Streaming
            /\ conns'[c].turn = conns'[d].turn => c = d
  BY DEF LogStill, LogInv
<1>6. \A c \in Conns : conns'[c].at \in Fresh =>
          \A s \in DOMAIN sessions' : \A i \in DOMAIN sessions'[s].log :
             sessions'[s].log[i].turn # conns'[c].turn
  <2>1. \A c \in Conns : conns'[c].at \in Fresh =>
           conns[c].at \in Fresh /\ conns'[c].turn = conns[c].turn
    BY DEF LogStill, Fresh, Streaming, Busy
  <2>2. \A c \in Conns : conns[c].at \in Fresh =>
          \A s \in DOMAIN sessions : \A i \in DOMAIN sessions[s].log :
             sessions[s].log[i].turn # conns[c].turn
    BY DEF LogInv, Fresh
  <2> QED
    BY <1>2, <2>1, <2>2
<1>7. \A c \in Conns : conns'[c].at = "dispatch" =>
          /\ sessions'[conns'[c].session].log # <<>>
          /\ sessions'[conns'[c].session].log[Len(sessions'[conns'[c].session].log)].turn
                = conns'[c].turn
  <2>1. ASSUME NEW c \in Conns, conns'[c].at = "dispatch"
        PROVE  /\ conns[c].at = "dispatch" /\ conns'[c].session = conns[c].session
               /\ conns'[c].turn = conns[c].turn
               /\ conns[c].session \in DOMAIN sessions
    <3>1. conns[c].at = "dispatch" /\ conns'[c].session = conns[c].session
          /\ conns'[c].turn = conns[c].turn
      BY <2>1 DEF LogStill, Streaming, Busy
    <3> QED
      BY <3>1 DEF Base, MutexInv, SessionsInv, Busy
  <2>2. \A c \in Conns : conns'[c].at = "dispatch" =>
           sessions'[conns[c].session].log = sessions[conns[c].session].log
    BY <2>1 DEF LogStill
  <2> QED
    BY <2>1, <2>2 DEF LogInv
<1>8. LogInv'
  BY <1>3, <1>4, <1>5, <1>6, <1>7 DEF LogInv, Fresh
<1>9. TurnsDoNotMix'
  BY <1>2 DEF TurnsDoNotMix
<1> QED
  BY <1>8, <1>9

\* A turn takes the next of the prompts, which no turn before it had.
LEMMA PromptTurns ==
    ASSUME Base, LogInv, TurnsDoNotMix, NEW c \in Conns, UserPrompt(c)
    PROVE  LogInv' /\ TurnsDoNotMix'
<1>e. /\ conns'[c].at = "lock" /\ conns'[c].turn = left.prompts
      /\ \A d \in Conns : d # c => conns'[d] = conns[d]
      /\ left.prompts > 0 /\ left'.prompts = left.prompts - 1 /\ left.prompts \in Nat
      /\ sessions' = sessions
  BY PromptEffect DEF Base, Types, OneConn, Server
<1>t. PICK n \in Nat : n = left.prompts
  BY <1>e
<1>n. /\ \A s \in DOMAIN sessions : \A i \in DOMAIN sessions[s].log :
           sessions[s].log[i].turn \in Nat /\ sessions[s].log[i].turn > n
      /\ \A d \in Conns : conns[d].turn \in Nat
      /\ \A d \in Conns : conns[d].at \in Streaming => conns[d].turn > n
  <2>2. \A s \in DOMAIN sessions : \A i \in DOMAIN sessions[s].log :
           sessions[s].log[i].turn \in Nat
    BY LogType DEF Base
  <2> QED
    BY <1>t, <2>2 DEF Base, Types, ConnRecords, LogInv
<1>3. \A s \in DOMAIN sessions' : \A i \in DOMAIN sessions'[s].log :
          sessions'[s].log[i].turn > left'.prompts
  BY <1>e, <1>t, <1>n
<1>4. \A d \in Conns : conns'[d].at \in Streaming => conns'[d].turn > left'.prompts
  BY <1>e, <1>t, <1>n
<1>5. \A d, e \in Conns :
          conns'[d].at \in Streaming /\ conns'[e].at \in Streaming
            /\ conns'[d].turn = conns'[e].turn => d = e
  <2>1. \A d \in Conns : d # c /\ conns'[d].at \in Streaming => conns'[d].turn # conns'[c].turn
    BY <1>e, <1>t, <1>n
  <2> QED
    BY <1>e, <2>1 DEF LogInv
<1>6. \A d \in Conns : conns'[d].at \in Fresh =>
          \A s \in DOMAIN sessions' : \A i \in DOMAIN sessions'[s].log :
             sessions'[s].log[i].turn # conns'[d].turn
  <2>1. \A s \in DOMAIN sessions' : \A i \in DOMAIN sessions'[s].log :
             sessions'[s].log[i].turn # conns'[c].turn
    BY <1>e, <1>t, <1>n
  <2> QED
    BY <1>e, <2>1 DEF LogInv, Fresh
<1>7. \A d \in Conns : conns'[d].at = "dispatch" =>
          /\ sessions'[conns'[d].session].log # <<>>
          /\ sessions'[conns'[d].session].log[Len(sessions'[conns'[d].session].log)].turn
                = conns'[d].turn
  BY <1>e DEF LogInv
<1>8. LogInv'
  BY <1>3, <1>4, <1>5, <1>6, <1>7 DEF LogInv, Fresh
<1> QED
  BY <1>e, <1>8 DEF TurnsDoNotMix

\* An entry goes to the end of a log that has none of its turn, or ends with its turn.
LEMMA AppendedTurns ==
    ASSUME NEW log \in Seq(Entries), NEW e \in Entries,
           \A i, k \in DOMAIN log :
              log[i].turn = log[k].turn => \A j \in i..k : log[j].turn = log[i].turn,
           \/ \A i \in DOMAIN log : log[i].turn # e.turn
           \/ log # <<>> /\ log[Len(log)].turn = e.turn
    PROVE  LET new == Append(log, e)
           IN  \A i, k \in DOMAIN new :
                  new[i].turn = new[k].turn => \A j \in i..k : new[j].turn = new[i].turn
<1>1. PICK n \in Nat : n = Len(log)
  OBVIOUS
<1>2. PICK new \in Seq(Entries) : new = Append(log, e)
  <2>1. Append(log, e) \in Seq(Entries)
    OBVIOUS
  <2> QED
    BY <2>1
<1>3. /\ DOMAIN log = 1..n /\ DOMAIN new = 1..(n + 1) /\ new[n + 1] = e
      /\ \A i \in 1..n : new[i] = log[i]
  BY <1>1, <1>2
<1>4. SUFFICES ASSUME NEW i \in 1..(n + 1), NEW k \in 1..(n + 1), new[i].turn = new[k].turn,
                      NEW j \in i..k
               PROVE  new[j].turn = new[i].turn
  BY <1>2, <1>3
<1>5. CASE i = n + 1
  BY <1>5
<1>6. CASE i # n + 1 /\ k # n + 1
  <2>1. i \in 1..n /\ k \in 1..n /\ j \in 1..n
    BY <1>6
  <2> QED
    BY <1>3, <1>4, <2>1
<1>7. CASE i # n + 1 /\ k = n + 1
  <2>1. i \in 1..n /\ log[i].turn = e.turn
    BY <1>3, <1>4, <1>7
  <2>2. n \in 1..n /\ log[n].turn = e.turn
    BY <1>1, <1>3, <2>1
  <2>3. CASE j = n + 1
    BY <1>3, <1>4, <1>7, <2>3
  <2>4. CASE j # n + 1
    <3>1. j \in i..n /\ j \in 1..n
      BY <2>1, <2>4
    <3>2. log[j].turn = log[i].turn
      BY <1>3, <2>1, <2>2, <3>1
    <3> QED
      BY <1>3, <2>1, <3>1, <3>2
  <2> QED
    BY <2>3, <2>4
<1> QED
  BY <1>5, <1>6, <1>7

\* A thread records an entry of its turn.
LEMMA LoggedTurns ==
    ASSUME Base, LogInv, TurnsDoNotMix, NEW c \in Conns, On(c) \in DOMAIN sessions,
           NEW type \in {"reasoning", "mediated"}, Logged(c, type),
           conns[c].at \in {"parse", "dispatch"},
           OneConn(c), conns'[c].at = "dispatch", SameTurn(c), left'.prompts = left.prompts
    PROVE  LogInv' /\ TurnsDoNotMix'
<1>0. PICK s \in DOMAIN sessions : s = conns[c].session
  BY DEF On
<1>1. PICK e : e = [turn |-> conns[c].turn, type |-> type]
  OBVIOUS
<1>2. e \in Entries /\ e.turn = conns[c].turn /\ conns[c].turn \in Nat
  BY <1>1 DEF Entries, Base, Types, ConnRecords
<1>3. /\ DOMAIN sessions' = DOMAIN sessions
      /\ \A t \in DOMAIN sessions : t # s => sessions'[t] = sessions[t]
      /\ sessions'[s].log = Append(sessions[s].log, e)
      /\ conns'[c].session = s /\ conns'[c].turn = conns[c].turn
      /\ \A d \in Conns : d # c => conns'[d] = conns[d]
  BY <1>0, <1>1 DEF Logged, OneSession, OneConn, On, SameTurn, Base, Types
<1>4. PICK log \in Seq(Entries) : log = sessions[s].log
  <2>1. sessions[s].log \in Seq(Entries)
    BY LogType DEF Base
  <2> QED
    BY <2>1
<1>5. PICK n \in Nat : n = Len(log)
  OBVIOUS
<1>6. PICK new \in Seq(Entries) : new = sessions'[s].log /\ new = Append(log, e)
  <2>1. Append(log, e) \in Seq(Entries)
    BY <1>2
  <2> QED
    BY <1>3, <1>4, <2>1
<1>7. /\ DOMAIN log = 1..n /\ DOMAIN new = 1..(n + 1) /\ Len(new) = n + 1
      /\ new[n + 1] = e /\ \A i \in 1..n : new[i] = log[i]
      /\ new # <<>>
  BY <1>2, <1>3, <1>4, <1>5, <1>6
<1>8. conns[c].at \in Streaming /\ conns[c].turn > left.prompts
  BY DEF LogInv, Streaming, Busy
<1>9. \A t \in DOMAIN sessions' : \A i \in DOMAIN sessions'[t].log :
         \/ t \in DOMAIN sessions /\ i \in DOMAIN sessions[t].log
               /\ sessions'[t].log[i].turn = sessions[t].log[i].turn
         \/ sessions'[t].log[i].turn = conns[c].turn
  <2>1. ASSUME NEW t \in DOMAIN sessions', NEW i \in DOMAIN sessions'[t].log, t = s
        PROVE  \/ i \in DOMAIN sessions[t].log
                    /\ sessions'[t].log[i].turn = sessions[t].log[i].turn
               \/ sessions'[t].log[i].turn = conns[c].turn
    <3>1. i \in 1..(n + 1)
      BY <1>6, <1>7, <2>1
    <3>2. CASE i = n + 1
      BY <1>2, <1>6, <1>7, <2>1, <3>2
    <3>3. CASE i # n + 1
      <4>1. i \in 1..n
        BY <3>1, <3>3
      <4> QED
        BY <1>4, <1>6, <1>7, <2>1, <4>1
    <3> QED
      BY <3>2, <3>3
  <2> QED
    BY <1>3, <2>1
<1>10. \A t \in DOMAIN sessions' : \A i \in DOMAIN sessions'[t].log :
          sessions'[t].log[i].turn > left'.prompts
  BY <1>8, <1>9 DEF LogInv
<1>11. \A d \in Conns : conns'[d].at \in Streaming =>
          conns[d].at \in Streaming /\ conns'[d].turn = conns[d].turn
  BY <1>3, <1>8
<1>12. /\ \A d \in Conns : conns'[d].at \in Streaming => conns'[d].turn > left'.prompts
       /\ \A d, g \in Conns :
             conns'[d].at \in Streaming /\ conns'[g].at \in Streaming
               /\ conns'[d].turn = conns'[g].turn => d = g
  BY <1>11 DEF LogInv
<1>13. \A d \in Conns : conns'[d].at \in Fresh =>
          \A t \in DOMAIN sessions' : \A i \in DOMAIN sessions'[t].log :
             sessions'[t].log[i].turn # conns'[d].turn
  <2>1. ASSUME NEW d \in Conns, conns'[d].at \in Fresh
        PROVE  /\ d # c /\ conns'[d] = conns[d] /\ conns[d].at \in Fresh
               /\ conns[d].turn # conns[c].turn
    <3>1. d # c
      BY <2>1 DEF Fresh
    <3>2. conns'[d] = conns[d]
      BY <1>3, <3>1
    <3>3. conns[d].at \in Streaming
      BY <2>1, <3>2 DEF Fresh, Streaming, Busy
    <3> QED
      BY <1>8, <2>1, <3>1, <3>2, <3>3 DEF LogInv
  <2>2. \A d \in Conns : conns[d].at \in Fresh =>
          \A t \in DOMAIN sessions : \A i \in DOMAIN sessions[t].log :
             sessions[t].log[i].turn # conns[d].turn
    BY DEF LogInv, Fresh
  <2> QED
    BY <1>9, <2>1, <2>2
<1>14. \A d \in Conns : conns'[d].at = "dispatch" =>
          /\ sessions'[conns'[d].session].log # <<>>
          /\ sessions'[conns'[d].session].log[Len(sessions'[conns'[d].session].log)].turn
                = conns'[d].turn
  <2>1. CASE TRUE
    <3>1. /\ sessions'[s].log # <<>>
          /\ sessions'[s].log[Len(sessions'[s].log)].turn = conns'[c].turn
      BY <1>2, <1>3, <1>6, <1>7
    <3>2. ASSUME NEW d \in Conns, d # c, conns'[d].at = "dispatch"
          PROVE  conns'[d] = conns[d] /\ sessions'[conns[d].session] = sessions[conns[d].session]
      <4>1. conns'[d] = conns[d] /\ conns[d].at \in Busy /\ conns[c].at \in Busy
        BY <1>3, <3>2 DEF Busy
      <4>2. conns[d].session \in DOMAIN sessions
        BY <4>1 DEF Base, MutexInv, SessionsInv
      <4>3. conns[d].session # s
        BY <1>0, <3>2, <4>1, <4>2 DEF Base, MutexInv
      <4> QED
        BY <1>3, <4>1, <4>2, <4>3
    <3>3. ASSUME NEW d \in Conns, d # c, conns'[d].at = "dispatch"
          PROVE  LET l == sessions'[conns'[d].session].log
                 IN  l # <<>> /\ l[Len(l)].turn = conns'[d].turn
      <4>1. conns'[d] = conns[d] /\ sessions'[conns[d].session] = sessions[conns[d].session]
        BY <3>2, <3>3
      <4>2. LET l == sessions[conns[d].session].log
            IN  l # <<>> /\ l[Len(l)].turn = conns[d].turn
        BY <3>3, <4>1 DEF LogInv
      <4> QED
        BY <4>1, <4>2
    <3> QED
      BY <1>3, <3>1, <3>3
  <2> QED
    BY <2>1
<1>15. LogInv'
  BY <1>10, <1>12, <1>13, <1>14 DEF LogInv, Fresh
<1>16. TurnsDoNotMix'
  <2>1. \/ \A i \in DOMAIN log : log[i].turn # e.turn
        \/ log # <<>> /\ log[Len(log)].turn = e.turn
    BY <1>0, <1>2, <1>4 DEF LogInv
  <2>2. \A i, k \in DOMAIN log :
           log[i].turn = log[k].turn => \A j \in i..k : log[j].turn = log[i].turn
    BY <1>4 DEF TurnsDoNotMix
  <2>3. new = Append(log, e)
    BY <1>3, <1>4, <1>6
  <2>4. \A i, k \in DOMAIN new :
           new[i].turn = new[k].turn => \A j \in i..k : new[j].turn = new[i].turn
    <3>1. LET x == Append(log, e)
          IN  \A i, k \in DOMAIN x :
                 x[i].turn = x[k].turn => \A j \in i..k : x[j].turn = x[i].turn
      BY <1>2, <2>1, <2>2, AppendedTurns
    <3> QED
      BY <2>3, <3>1
  <2>5. \A t \in DOMAIN sessions' : t # s => sessions'[t].log = sessions[t].log
    BY <1>3
  <2>6. ASSUME NEW t \in DOMAIN sessions', NEW i \in DOMAIN sessions'[t].log,
               NEW k \in DOMAIN sessions'[t].log,
               sessions'[t].log[i].turn = sessions'[t].log[k].turn, NEW j \in i..k
        PROVE  sessions'[t].log[j].turn = sessions'[t].log[i].turn
    <3>1. CASE t = s
      <4>1. sessions'[t].log = new
        BY <1>6, <3>1
      <4>2. i \in DOMAIN new /\ k \in DOMAIN new /\ new[i].turn = new[k].turn
        BY <2>6, <4>1
      <4>3. new[j].turn = new[i].turn
        BY <2>4, <2>6, <4>2
      <4> QED
        BY <4>1, <4>3
    <3>2. CASE t # s
      BY <1>3, <2>5, <2>6, <3>2 DEF TurnsDoNotMix
    <3> QED
      BY <3>1, <3>2
  <2> QED
    BY <2>6 DEF TurnsDoNotMix
<1> QED
  BY <1>15, <1>16

\* The connections' other steps are such steps.
LEMMA ConnLogStill ==
    ASSUME Types, NEW c \in Conns, OneConn(c), SameTurn(c),
           left'.prompts = left.prompts,
           \/ conns'[c].at \notin Streaming
           \/ conns'[c].at = conns[c].at
           \/ conns[c].at \in Fresh /\ conns'[c].at \in Fresh,
           DOMAIN sessions' = DOMAIN sessions,
           \A s \in DOMAIN sessions : sessions'[s].log = sessions[s].log
    PROVE  LogStill
<1>1. \A d \in Conns : d # c => conns'[d] = conns[d]
  BY DEF OneConn
<1>2. /\ conns'[c].at \in Streaming => conns[c].at \in Streaming
      /\ conns'[c].at \in Fresh => conns[c].at \in Fresh
      /\ conns'[c].at = "dispatch" => conns[c].at = "dispatch"
  BY DEF Streaming, Busy, Fresh
<1>3. conns'[c].turn = conns[c].turn /\ conns'[c].session = conns[c].session
  BY DEF SameTurn
<1> QED
  BY <1>1, <1>2, <1>3 DEF LogStill

\* Leaving a session leaves its ledger.
LEMMA ReleasedLog ==
    ASSUME Types, NEW c \in Conns, On(c) \in DOMAIN sessions, Released(c)
    PROVE  /\ DOMAIN sessions' = DOMAIN sessions
           /\ \A s \in DOMAIN sessions : sessions'[s].log = sessions[s].log
  BY DEF Released, OneSession, Types

\* The connections' steps keep the turns apart.
LEMMA FrontTurns ==
    ASSUME UiInv, TurnsDoNotMix, NEW c \in Conns,
           \/ CreateSession(c) \/ Stream(c) \/ Malformed(c) \/ UserPrompt(c) \/ Hangup(c)
           \/ Send(c) \/ SendFails(c) \/ Closed(c) \/ Stub(c) \/ Infer(c) \/ EndOfAnswer(c)
    PROVE  LogInv' /\ TurnsDoNotMix'
<1>t. Types /\ Base /\ LogInv
  BY DEF UiInv, Base
<1>s. sessions' = sessions
  BY FrontStep
<1>p. "reply" \notin Streaming /\ "open" \notin Streaming
  BY DEF Streaming, Busy
<1>d. /\ DOMAIN sessions' = DOMAIN sessions
      /\ \A s \in DOMAIN sessions : sessions'[s].log = sessions[s].log
      /\ \A s \in DOMAIN sessions' :
            sessions'[s].log = IF s \in DOMAIN sessions THEN sessions[s].log ELSE <<>>
  BY <1>s
<1>1. CASE UserPrompt(c)
  BY <1>t, <1>1, PromptTurns
<1>2. CASE ~UserPrompt(c)
  <2>0. ASSUME CreateSession(c) PROVE LogStill
    BY <1>d, <2>0 DEF CreateSession, LogStill
  <2>1. ASSUME Stream(c) PROVE LogStill
    <3>1. OneConn(c) /\ conns'[c].at = "open" /\ left'.prompts = left.prompts
      BY <1>t, <2>1, StreamEffect
    <3> QED
      BY <1>d, <3>1 DEF LogStill, OneConn, Streaming, Busy, Fresh
  <2>2. ASSUME Malformed(c) PROVE LogStill
    <3>1. OneConn(c) /\ SameTurn(c) /\ conns'[c].at = "open" /\ left'.prompts = left.prompts
      BY <1>t, <2>2, MalformedEffect
    <3> QED
      BY <1>t, <1>d, <1>p, <3>1, ConnLogStill
  <2>3. ASSUME Hangup(c) PROVE LogStill
    <3>1. OneConn(c) /\ SameTurn(c) /\ conns'[c].at = conns[c].at /\ left'.prompts = left.prompts
      BY <1>t, <2>3, HangupEffect
    <3> QED
      BY <1>t, <1>d, <3>1, ConnLogStill
  <2>4. ASSUME Send(c) PROVE LogStill
    <3>1. conns[c].todo # <<>>
      BY <2>4 DEF UiInv, FrameInv, FrameOk, Send
    <3>2. OneConn(c) /\ SameTurn(c) /\ conns'[c].at \in {"open", "reply"} /\ left'.prompts = left.prompts
      BY <1>t, <2>4, <3>1, SendEffect
    <3> QED
      BY <1>t, <1>d, <1>p, <3>2, ConnLogStill
  <2>5. ASSUME SendFails(c) PROVE LogStill
    <3>1. OneConn(c) /\ SameTurn(c) /\ conns'[c].at = "open" /\ left'.prompts = left.prompts
      BY <1>t, <2>5, SendFailsEffect
    <3> QED
      BY <1>t, <1>d, <1>p, <3>1, ConnLogStill
  <2>6. ASSUME Closed(c) PROVE LogStill
    <3>1. OneConn(c) /\ conns'[c].at = "closed" /\ left'.prompts = left.prompts
      BY <1>t, <2>6, ClosedEffect
    <3> QED
      BY <1>d, <3>1 DEF LogStill, OneConn, Streaming, Busy, Fresh
  <2>7. ASSUME Stub(c) PROVE LogStill
    <3>1. OneConn(c) /\ SameTurn(c) /\ conns'[c].at = "reply" /\ left'.prompts = left.prompts
      BY <1>t, <2>7, StubEffect DEF Replied
    <3> QED
      BY <1>t, <1>d, <1>p, <3>1, ConnLogStill
  <2>8. ASSUME Infer(c) PROVE LogStill
    <3>1. /\ OneConn(c) /\ SameTurn(c) /\ conns[c].at = "infer"
          /\ conns'[c].at \in {"infer", "parse"} /\ left'.prompts = left.prompts
      BY <1>t, <2>8, InferEffect
    <3>2. conns[c].at \in Fresh /\ conns'[c].at \in Fresh
      BY <3>1 DEF Fresh
    <3> QED
      BY <1>t, <1>d, <3>1, <3>2, ConnLogStill
  <2>9. ASSUME EndOfAnswer(c) PROVE LogStill
    <3>1. OneConn(c) /\ SameTurn(c) /\ conns'[c].at = conns[c].at /\ left'.prompts = left.prompts
      BY <1>t, <2>9, EndOfAnswerEffect
    <3> QED
      BY <1>t, <1>d, <3>1, ConnLogStill
  <2>10. LogStill
    BY <1>2, <2>0, <2>1, <2>2, <2>3, <2>4, <2>5, <2>6, <2>7, <2>8, <2>9
  <2> QED
    BY <1>t, <2>10, LogStillKeeps
<1> QED
  BY <1>1, <1>2

\* The steps of a turn's thread keep them apart.
LEMMA TurnTurns ==
    ASSUME UiInv, TurnsDoNotMix, NEW c \in Conns,
           \/ LockPoisoned(c) \/ InferFails(c) \/ DispatchFails(c) \/ Lock(c) \/ Reason(c)
           \/ Dispatch(c) \/ Outcome(c) \/ Panic(c)
    PROVE  LogInv' /\ TurnsDoNotMix'
<1>t. Types /\ Base /\ LogInv
  BY DEF UiInv, Base
<1>r. ASSUME Released(c), On(c) \in DOMAIN sessions, OneConn(c), SameTurn(c),
             conns'[c].at \notin Streaming, left'.prompts = left.prompts
      PROVE  LogInv' /\ TurnsDoNotMix'
  <2>1. /\ DOMAIN sessions' = DOMAIN sessions
        /\ \A s \in DOMAIN sessions : sessions'[s].log = sessions[s].log
    BY <1>t, <1>r, ReleasedLog
  <2>2. LogStill
    BY <1>t, <1>r, <2>1, ConnLogStill
  <2> QED
    BY <1>t, <2>2, LogStillKeeps
<1>p. "reply" \notin Streaming /\ "open" \notin Streaming
  BY DEF Streaming, Busy
<1>1. CASE LockPoisoned(c) \/ InferFails(c) \/ DispatchFails(c)
  BY <1>t, <1>r, <1>p, <1>1, ErrorEffect DEF Replied
<1>2. CASE Lock(c)
  <2>1. /\ On(c) \in DOMAIN sessions /\ OneSession(On(c))
        /\ sessions'[On(c)].log = sessions[On(c)].log
        /\ OneConn(c) /\ SameTurn(c) /\ conns[c].at = "lock" /\ conns'[c].at = "infer"
        /\ left' = left
    BY <1>t, <1>2, LockEffect
  <2>2. /\ DOMAIN sessions' = DOMAIN sessions
        /\ \A s \in DOMAIN sessions : sessions'[s].log = sessions[s].log
    BY <1>t, <2>1 DEF OneSession, Types
  <2>3. LogStill
    BY <1>t, <2>1, <2>2, ConnLogStill DEF Fresh
  <2> QED
    BY <1>t, <2>3, LogStillKeeps
<1>3. CASE Reason(c)
  <2>0. /\ conns[c].at = "parse" /\ On(c) \in DOMAIN sessions /\ left' = left
    BY <1>t, <1>3, ReasonEffect
  <2>1. CASE Replied(c, ErrorReply) /\ Released(c)
    BY <1>r, <1>p, <2>0, <2>1 DEF Replied
  <2>2. CASE ~(Replied(c, ErrorReply) /\ Released(c))
    <3>1. OneConn(c) /\ conns'[c].at = "dispatch" /\ SameTurn(c) /\ Logged(c, "reasoning")
      BY <1>t, <1>3, <2>2, ReasonEffect
    <3> QED
      BY <1>t, <2>0, <3>1, LoggedTurns
  <2> QED
    BY <2>1, <2>2
<1>4. CASE Dispatch(c)
  BY <1>t, <1>4, DispatchEffect, LoggedTurns
<1>5. CASE Outcome(c)
  BY <1>t, <1>r, <1>p, <1>5, OutcomeEffect DEF Replied
<1>6. CASE Panic(c)
  BY <1>t, <1>r, <1>p, <1>6, PanicEffect
<1> QED
  BY <1>1, <1>2, <1>3, <1>4, <1>5, <1>6

\* Every step keeps them apart.
LEMMA LogNext ==
    ASSUME UiInv, TurnsDoNotMix, Next
    PROVE  LogInv' /\ TurnsDoNotMix'
<1>t. Base /\ LogInv
  BY DEF UiInv
<1>1. ASSUME NEW c \in Conns,
             \/ CreateSession(c) \/ Stream(c) \/ Malformed(c) \/ UserPrompt(c) \/ Hangup(c)
             \/ Worker(c) \/ Handler(c) \/ EndOfAnswer(c) \/ InferFails(c) \/ DispatchFails(c)
             \/ Panic(c)
      PROVE  LogInv' /\ TurnsDoNotMix'
  BY <1>1, FrontTurns, TurnTurns DEF Worker, Handler
<1>2. ASSUME NEW f \in Forks, ForkTask(f) PROVE LogStill
  BY <1>2, ForkStill DEF LogStill
<1>3. Tick => LogStill
  <2>1. Tick => left'.prompts = left.prompts
    BY <1>t, SpendEffect DEF Tick, Base
  <2> QED
    BY <2>1 DEF Tick, LogStill
<1> QED
  BY <1>t, <1>1, <1>2, <1>3, LogStillKeeps DEF Next

-----------------------------------------------------------------------------
(* The native handles.                                                     *)

Now == Held(active, conns, forks)
Then == Held(active', conns', forks')

\* A session is held by the handler, a WebSocket or a fork.
LEMMA HeldIs ==
    ASSUME NEW a, NEW cs, NEW fs, NEW s
    PROVE  s \in Held(a, cs, fs) <=>
              \/ s = a \/ \E c \in Conns : cs[c].session = s
              \/ \E f \in Forks : fs[f].at \in Live /\ fs[f].session = s
  BY DEF Held, Live

\* A held session was booted.
LEMMA HeldSession ==
    ASSUME Base, NEW s \in Now, s # 0
    PROVE  s \in DOMAIN sessions
<1>1. \/ s = active \/ \E c \in Conns : conns[c].session = s
      \/ \E f \in Forks : forks[f].at \in Live /\ forks[f].session = s
  BY HeldIs DEF Now
<1>2. active # 0 => active \in DOMAIN sessions
  BY DEF Base, Types, SessionsInv
<1> QED
  BY <1>1, <1>2 DEF Base, SessionsInv

\* The inferences and loads that go on are at the same call.
SameCallers ==
    /\ \A d \in Conns : conns'[d].at = "infer" <=> conns[d].at = "infer"
    /\ \A d \in Conns : conns[d].at = "infer" =>
          conns'[d].session = conns[d].session /\ conns'[d].call = conns[d].call
    /\ \A g \in Forks : forks'[g].at = "load" =>
          /\ forks[g].at = "load"
          /\ forks'[g].session = forks[g].session /\ forks'[g].call = forks[g].call

\* No handle is taken or given back, and none loses its holder.
NativeStill ==
    /\ kind' = kind /\ native' = native /\ SameCallers
    /\ \A s \in Now : s # 0 => s \in Then
    /\ \A s \in Then : s # 0 /\ sessions'[s].loaded => s \in Now /\ sessions[s].loaded

\* What nobody holds any more is dropped.
NativeKept ==
    /\ kind' = kind /\ native' = Kept(native, Then) /\ SameCallers
    /\ \A s \in Then : s # 0 => s \in Now /\ (sessions'[s].loaded => sessions[s].loaded)

\* A step that touches no handle and drops no session keeps their invariant.
LEMMA NativeStillKeeps ==
    ASSUME NativeInv, NativeStill
    PROVE  NativeInv'
<1>0. Then = Held(active, conns, forks)' /\ Now = Held(active, conns, forks)
  BY DEF Then, Now
<1>1. \A n \in native' : n[1] \in Then /\ n[1] # 0
  BY DEF NativeStill, NativeInv, Now
<1>2. \A c \in Conns : conns'[c].at = "infer" =>
          /\ conns'[c].call \in DOMAIN InferCalls(kind', MaxTokens)
          /\ \A h \in Handles : <<conns'[c].session, h>> \in native'
                <=> h \in Resident(kind') \cup InferHeld(kind', conns'[c].call)
  BY DEF NativeStill, SameCallers, NativeInv
<1>3. \A f \in Forks : forks'[f].at = "load" =>
          \A h \in Handles :
             <<forks'[f].session, h>> \in native' <=> h \in LoadHeld(kind', forks'[f].call)
  BY DEF NativeStill, SameCallers, NativeInv
<1>4. ASSUME NEW s \in Then, s # 0, sessions'[s].loaded,
             \A c \in Conns : conns'[c].at = "infer" => conns'[c].session # s
      PROVE  \A h \in Handles : <<s, h>> \in native' <=> h \in Resident(kind')
  <2>1. /\ s \in Now /\ sessions[s].loaded
        /\ \A c \in Conns : conns[c].at = "infer" => conns[c].session # s
    BY <1>4 DEF NativeStill, SameCallers
  <2> QED
    BY <2>1, <1>4 DEF NativeStill, NativeInv, Now
<1>5. \A m, n \in native' : m[2] = "backend" /\ n[2] = "backend" => m = n
  BY DEF NativeStill, NativeInv
<1> QED
  BY <1>0, <1>1, <1>2, <1>3, <1>4, <1>5 DEF NativeInv

\* One that lets go of a session and drops its handles keeps it.
LEMMA NativeKeptKeeps ==
    ASSUME NativeInv, NativeKept
    PROVE  NativeInv'
<1>0. Then = Held(active, conns, forks)' /\ Now = Held(active, conns, forks)
  BY DEF Then, Now
<1>k. /\ native' \subseteq native /\ \A n \in native' : n[1] \in Then
      /\ \A s \in Then : \A h : <<s, h>> \in native' <=> <<s, h>> \in native
  BY DEF NativeKept, Kept
<1>1. \A n \in native' : n[1] \in Then /\ n[1] # 0
  BY <1>k DEF NativeInv
<1>2. \A c \in Conns : conns'[c].at = "infer" =>
          /\ conns'[c].call \in DOMAIN InferCalls(kind', MaxTokens)
          /\ \A h \in Handles : <<conns'[c].session, h>> \in native'
                <=> h \in Resident(kind') \cup InferHeld(kind', conns'[c].call)
  <2>1. \A c \in Conns : conns'[c].session \in Then
    BY HeldIs DEF Then
  <2> QED
    BY <1>k, <2>1 DEF NativeKept, SameCallers, NativeInv
<1>3. \A f \in Forks : forks'[f].at = "load" =>
          \A h \in Handles :
             <<forks'[f].session, h>> \in native' <=> h \in LoadHeld(kind', forks'[f].call)
  <2>1. \A f \in Forks : forks'[f].at = "load" => forks'[f].session \in Then
    BY HeldIs DEF Then, Live
  <2> QED
    BY <1>k, <2>1 DEF NativeKept, SameCallers, NativeInv
<1>4. ASSUME NEW s \in Then, s # 0, sessions'[s].loaded,
             \A c \in Conns : conns'[c].at = "infer" => conns'[c].session # s
      PROVE  \A h \in Handles : <<s, h>> \in native' <=> h \in Resident(kind')
  <2>1. /\ s \in Now /\ sessions[s].loaded
        /\ \A c \in Conns : conns[c].at = "infer" => conns[c].session # s
    BY <1>4 DEF NativeKept, SameCallers
  <2>2. \A h \in Handles : <<s, h>> \in native <=> h \in Resident(kind)
    BY <2>1, <1>4 DEF NativeInv, Now
  <2> QED
    BY <1>k, <1>4, <2>2 DEF NativeKept
<1>5. \A m, n \in native' : m[2] = "backend" /\ n[2] = "backend" => m = n
  BY <1>k DEF NativeInv
<1> QED
  BY <1>0, <1>1, <1>2, <1>3, <1>4, <1>5 DEF NativeInv

\* What an inference takes is none of the model's own handles.
LEMMA ResidentApart ==
    ASSUME NEW k PROVE /\ Resident(k) \cap Transient = {} /\ "backend" \notin Transient
                       /\ \A i : InferHeld(k, i) \subseteq Transient \/ i \notin Nat
                       /\ Resident(k) \subseteq Handles
<1>1. Resident(k) \cap Transient = {} /\ "backend" \notin Transient
        /\ Resident(k) \subseteq Handles
  BY DEF Resident, Transient, Handles
<1>2. ASSUME NEW i \in Nat PROVE InferHeld(k, i) \subseteq Transient
  <2>1. CASE k = "llama"
    BY <2>1 DEF InferHeld, Transient
  <2>2. CASE k # "llama"
    <3>1. CASE i <= 2
      BY <2>2, <3>1 DEF InferHeld, Transient
    <3>2. CASE i \in {3, 4, 5, 6}
      BY <2>2, <3>2 DEF InferHeld, Transient
    <3>3. CASE i >= 7
      BY <2>2, <3>3 DEF InferHeld, Transient
    <3> QED
      BY <3>1, <3>2, <3>3
  <2> QED
    BY <2>1, <2>2
<1> QED
  BY <1>1, <1>2

\* A lock begins an inference on a session nobody infers on.
LEMMA LockNative ==
    ASSUME UiInv, NEW c \in Conns, Lock(c)
    PROVE  NativeInv'
<1>t. Types /\ Base /\ SessionsInv /\ MutexInv /\ NativeInv
  BY DEF UiInv, Base
<1>e. PICK s \in DOMAIN sessions :
         /\ s = conns[c].session /\ conns[c].at = "lock" /\ sessions[s].owner = {}
         /\ OneConn(c) /\ conns'[c].at = "infer" /\ conns'[c].session = s /\ conns'[c].call = 1
         /\ UNCHANGED <<NoTurn, native, left>>
  BY <1>t, LockEffect DEF On, SameTurn
<1>u. UNCHANGED <<kind, native, active, forks>>
  BY <1>e DEF NoTurn
<1>1. \A d \in Conns : d # c => conns'[d] = conns[d]
  BY <1>e DEF OneConn
<1>2. \A d \in Conns : conns'[d].session = conns[d].session
  BY <1>e, <1>1
<1>3. \A t : t \in Then <=> t \in Now
  BY <1>u, <1>2, HeldIs DEF Then, Now
<1>4. \A d \in Conns : conns[d].at = "infer" => conns[d].session # s
  BY <1>t, <1>e DEF MutexInv, Busy
<1>5. SessionStep
  BY TurnStep
<1>6. \A t \in Now : t # 0 => (sessions'[t].loaded <=> sessions[t].loaded)
  BY <1>t, <1>5, HeldSession DEF SessionStep
<1>7. s # 0 /\ s \in Now /\ sessions[s].loaded
  <2>1. s # 0
    BY <1>t, <1>e DEF Types
  <2>2. s \in Now
    BY <1>e, HeldIs DEF Now
  <2> QED
    BY <1>t, <1>e, <2>1, <2>2 DEF SessionsInv
<1>8. \A h \in Handles : <<s, h>> \in native <=> h \in Resident(kind)
  BY <1>t, <1>4, <1>7 DEF NativeInv, Now
<1>9. InferHeld(kind, 1) = {} /\ 1 \in DOMAIN InferCalls(kind, MaxTokens)
  <2>1. kind \in Kinds \cup {"stub"}
    BY <1>t, KindIs DEF KindOk
  <2>2. CASE kind = "llama"
    <3>1. PICK n \in Nat : n = MaxTokens
      BY BoundsAssumption
    <3>2. DOMAIN InferCalls(kind, MaxTokens) = 1..(n + 4)
      BY <2>2, <3>1, LlamaCalls
    <3> QED
      BY <2>2, <3>2 DEF InferHeld
  <2>3. CASE kind # "llama"
    BY <2>3, LiteRtCalls DEF InferHeld
  <2> QED
    BY <2>2, <2>3
<1>10. \A n \in native' : n[1] \in Then /\ n[1] # 0
  BY <1>t, <1>u, <1>3 DEF NativeInv, Now
<1>11. \A d \in Conns : conns'[d].at = "infer" =>
          /\ conns'[d].call \in DOMAIN InferCalls(kind', MaxTokens)
          /\ \A h \in Handles : <<conns'[d].session, h>> \in native'
                <=> h \in Resident(kind') \cup InferHeld(kind', conns'[d].call)
  <2>1. ASSUME NEW d \in Conns, d # c, conns'[d].at = "infer"
        PROVE  /\ conns'[d].call \in DOMAIN InferCalls(kind', MaxTokens)
               /\ \A h \in Handles : <<conns'[d].session, h>> \in native'
                     <=> h \in Resident(kind') \cup InferHeld(kind', conns'[d].call)
    <3>1. conns'[d] = conns[d]
      BY <1>1, <2>1
    <3> QED
      BY <1>t, <1>u, <2>1, <3>1 DEF NativeInv
  <2>2. /\ conns'[c].call \in DOMAIN InferCalls(kind', MaxTokens)
        /\ \A h \in Handles : <<conns'[c].session, h>> \in native'
              <=> h \in Resident(kind') \cup InferHeld(kind', conns'[c].call)
    BY <1>e, <1>u, <1>8, <1>9
  <2> QED
    BY <2>1, <2>2
<1>12. \A f \in Forks : forks'[f].at = "load" =>
          \A h \in Handles :
             <<forks'[f].session, h>> \in native' <=> h \in LoadHeld(kind', forks'[f].call)
  BY <1>t, <1>u DEF NativeInv
<1>13. ASSUME NEW t \in Then, t # 0, sessions'[t].loaded,
              \A d \in Conns : conns'[d].at = "infer" => conns'[d].session # t
       PROVE  \A h \in Handles : <<t, h>> \in native' <=> h \in Resident(kind')
  <2>1. t \in Now /\ sessions[t].loaded
    BY <1>3, <1>6, <1>13
  <2>2. \A d \in Conns : conns[d].at = "infer" => conns[d].session # t
    BY <1>e, <1>1, <1>13
  <2> QED
    BY <1>t, <1>u, <1>13, <2>1, <2>2 DEF NativeInv, Now
<1>14. \A m, n \in native' : m[2] = "backend" /\ n[2] = "backend" => m = n
  BY <1>t, <1>u DEF NativeInv
<1> QED
  BY <1>10, <1>11, <1>12, <1>13, <1>14 DEF NativeInv, Then

\* The end of an answer moves llama's loop to its drop, with the same context held.
LEMMA EndOfAnswerNative ==
    ASSUME UiInv, NEW c \in Conns, EndOfAnswer(c)
    PROVE  NativeInv'
<1>t. Types /\ Base /\ NativeInv
  BY DEF UiInv, Base
<1>n. PICK n \in Nat : n = MaxTokens
  BY BoundsAssumption
<1>e. /\ conns[c].at = "infer" /\ kind = "llama" /\ conns[c].call \in 4..(n + 3)
      /\ OneConn(c) /\ conns'[c].at = "infer" /\ conns'[c].call = n + 4
      /\ conns'[c].session = conns[c].session /\ sessions' = sessions
      /\ UNCHANGED <<NoTurn, native>>
  BY <1>t, <1>n, EndOfAnswerEffect DEF SameTurn
<1>u. UNCHANGED <<kind, native, active, forks>>
  BY <1>e DEF NoTurn
<1>1. \A d \in Conns : d # c => conns'[d] = conns[d]
  BY <1>e DEF OneConn
<1>2. \A d \in Conns : conns'[d].session = conns[d].session
                         /\ (conns'[d].at = "infer" <=> conns[d].at = "infer")
  BY <1>e, <1>1
<1>3. \A t : t \in Then <=> t \in Now
  BY <1>u, <1>2, HeldIs DEF Then, Now
<1>4. /\ n + 4 \in DOMAIN InferCalls(kind, MaxTokens)
      /\ InferHeld(kind, n + 4) = InferHeld(kind, conns[c].call)
  <2>1. DOMAIN InferCalls(kind, MaxTokens) = 1..(n + 4)
    BY <1>n, <1>e, LlamaCalls
  <2>2. PICK k \in 4..(n + 3) : k = conns[c].call
    BY <1>e
  <2>3. InferHeld(kind, n + 4) = {"context"} /\ InferHeld(kind, k) = {"context"}
    BY <1>e DEF InferHeld
  <2> QED
    BY <2>1, <2>2, <2>3
<1>5. \A m \in native' : m[1] \in Then /\ m[1] # 0
  BY <1>t, <1>u, <1>3 DEF NativeInv, Now
<1>6. \A d \in Conns : conns'[d].at = "infer" =>
          /\ conns'[d].call \in DOMAIN InferCalls(kind', MaxTokens)
          /\ \A h \in Handles : <<conns'[d].session, h>> \in native'
                <=> h \in Resident(kind') \cup InferHeld(kind', conns'[d].call)
  <2>1. ASSUME NEW d \in Conns, d # c, conns'[d].at = "infer"
        PROVE  /\ conns'[d].call \in DOMAIN InferCalls(kind', MaxTokens)
               /\ \A h \in Handles : <<conns'[d].session, h>> \in native'
                     <=> h \in Resident(kind') \cup InferHeld(kind', conns'[d].call)
    <3>1. conns'[d] = conns[d]
      BY <1>1, <2>1
    <3> QED
      BY <1>t, <1>u, <2>1, <3>1 DEF NativeInv
  <2>2. \A h \in Handles : <<conns[c].session, h>> \in native
              <=> h \in Resident(kind) \cup InferHeld(kind, conns[c].call)
    BY <1>t, <1>e DEF NativeInv
  <2>3. /\ conns'[c].call \in DOMAIN InferCalls(kind', MaxTokens)
        /\ \A h \in Handles : <<conns'[c].session, h>> \in native'
              <=> h \in Resident(kind') \cup InferHeld(kind', conns'[c].call)
    BY <1>e, <1>u, <1>4, <2>2
  <2> QED
    BY <2>1, <2>3
<1>7. \A f \in Forks : forks'[f].at = "load" =>
          \A h \in Handles :
             <<forks'[f].session, h>> \in native' <=> h \in LoadHeld(kind', forks'[f].call)
  BY <1>t, <1>u DEF NativeInv
<1>8. ASSUME NEW t \in Then, t # 0, sessions'[t].loaded,
             \A d \in Conns : conns'[d].at = "infer" => conns'[d].session # t
      PROVE  \A h \in Handles : <<t, h>> \in native' <=> h \in Resident(kind')
  BY <1>t, <1>e, <1>u, <1>2, <1>3, <1>8 DEF NativeInv, Now
<1>9. \A m, k \in native' : m[2] = "backend" /\ k[2] = "backend" => m = k
  BY <1>t, <1>u DEF NativeInv
<1> QED
  BY <1>5, <1>6, <1>7, <1>8, <1>9 DEF NativeInv, Then

\* The next call of an inference: what the session holds goes from InferHeld of the call
\* to InferHeld of the next, and to the model alone after the last.
LEMMA InferNative ==
    ASSUME UiInv, NEW c \in Conns, Infer(c)
    PROVE  NativeInv'
<1>t. Types /\ Base /\ SessionsInv /\ MutexInv /\ NativeInv
  BY DEF UiInv, Base
<1>0. PICK calls, k, call : calls = InferCalls(kind, MaxTokens) /\ k = conns[c].call
                              /\ call = calls[k]
  OBVIOUS
<1>e. PICK s \in DOMAIN sessions :
         /\ s = conns[c].session /\ conns[c].at = "infer"
         /\ OneConn(c) /\ conns'[c].at = (IF k = Len(calls) THEN "parse" ELSE "infer")
         /\ conns'[c].call = k + 1 /\ conns'[c].session = s /\ Called(s, call)
         /\ UNCHANGED <<NoTurn, sessions, left>>
  BY <1>t, <1>0, InferEffect DEF On, SameTurn
<1>u. UNCHANGED <<kind, active, forks, sessions>>
  BY <1>e DEF NoTurn
<1>1. \A d \in Conns : d # c => conns'[d] = conns[d]
  BY <1>e DEF OneConn
<1>2. \A d \in Conns : conns'[d].session = conns[d].session
  BY <1>e, <1>1
<1>3. \A t : t \in Then <=> t \in Now
  BY <1>u, <1>2, HeldIs DEF Then, Now
<1>4. k \in DOMAIN calls /\ \A h \in Handles : <<s, h>> \in native
         <=> h \in Resident(kind) \cup InferHeld(kind, k)
  BY <1>t, <1>0, <1>e DEF NativeInv
<1>5. /\ Len(calls) \in Nat /\ k \in 1..Len(calls) /\ DOMAIN calls = 1..Len(calls)
      /\ call.take \in SUBSET Transient /\ call.give \in SUBSET Transient
      /\ (InferHeld(kind, k) \cup call.take) \ call.give =
            IF k = Len(calls) THEN {} ELSE InferHeld(kind, k + 1)
  <2>1. kind \in Kinds \cup {"stub"}
    BY <1>t, KindIs DEF KindOk
  <2>2. /\ Len(calls) \in Nat /\ k \in 1..Len(calls)
        /\ call.take \in SUBSET Transient /\ call.give \in SUBSET Transient
        /\ (InferHeld(kind, k) \cup call.take) \ call.give =
              IF k = Len(calls) THEN {} ELSE InferHeld(kind, k + 1)
    BY <1>0, <1>4, <2>1, InferCall
  <2>3. DOMAIN calls = 1..Len(calls)
    <3>1. CASE kind = "llama"
      BY <1>0, <3>1, LlamaCalls
    <3>2. CASE kind # "llama"
      BY <1>0, <3>2, LiteRtCalls
    <3> QED
      BY <3>1, <3>2
  <2> QED
    BY <2>2, <2>3
<1>6. /\ \A h : <<s, h>> \in native' <=>
                   (<<s, h>> \in native \/ h \in call.take) /\ h \notin call.give
      /\ \A t, h : t # s => (<<t, h>> \in native' <=> <<t, h>> \in native)
      /\ \A n \in native' : n \in native \/ \E h \in call.take : n = <<s, h>>
  BY <1>e DEF Called
<1>7. \A h \in Handles : <<s, h>> \in native' <=>
         h \in Resident(kind) \cup (IF k = Len(calls) THEN {} ELSE InferHeld(kind, k + 1))
  BY <1>4, <1>5, <1>6, ResidentApart
<1>8. s # 0 /\ s \in Now /\ sessions[s].loaded
  <2>1. s # 0
    BY <1>t, <1>e DEF Types
  <2>2. s \in Now
    BY <1>e, HeldIs DEF Now
  <2> QED
    BY <1>t, <1>e, <2>1, <2>2 DEF SessionsInv
<1>9. \A d \in Conns : d # c /\ conns[d].at = "infer" => conns[d].session # s
  BY <1>t, <1>e DEF MutexInv, Busy
<1>10. \A n \in native' : n[1] \in Then /\ n[1] # 0
  <2>1. ASSUME NEW n \in native' PROVE n[1] \in Then /\ n[1] # 0
    <3>1. CASE n \in native
      BY <1>t, <1>3, <3>1 DEF NativeInv, Now
    <3>2. CASE n \notin native
      <4>1. PICK h \in call.take : n = <<s, h>>
        BY <1>6, <2>1, <3>2
      <4>2. n[1] = s
        BY <4>1
      <4> QED
        BY <1>3, <1>8, <4>2
    <3> QED
      BY <3>1, <3>2
  <2> QED
    BY <2>1
<1>11. \A d \in Conns : conns'[d].at = "infer" =>
          /\ conns'[d].call \in DOMAIN InferCalls(kind', MaxTokens)
          /\ \A h \in Handles : <<conns'[d].session, h>> \in native'
                <=> h \in Resident(kind') \cup InferHeld(kind', conns'[d].call)
  <2>1. ASSUME NEW d \in Conns, d # c, conns'[d].at = "infer"
        PROVE  /\ conns'[d].call \in DOMAIN InferCalls(kind', MaxTokens)
               /\ \A h \in Handles : <<conns'[d].session, h>> \in native'
                     <=> h \in Resident(kind') \cup InferHeld(kind', conns'[d].call)
    <3>1. conns'[d] = conns[d] /\ conns[d].session # s
      BY <1>1, <1>9, <2>1
    <3> QED
      BY <1>t, <1>u, <1>6, <2>1, <3>1 DEF NativeInv
  <2>2. ASSUME conns'[c].at = "infer"
        PROVE  /\ conns'[c].call \in DOMAIN InferCalls(kind', MaxTokens)
               /\ \A h \in Handles : <<conns'[c].session, h>> \in native'
                     <=> h \in Resident(kind') \cup InferHeld(kind', conns'[c].call)
    <3>1. k # Len(calls)
      BY <1>e, <2>2
    <3>2. k + 1 \in DOMAIN calls
      <4>1. PICK n \in Nat : n = Len(calls)
        BY <1>5
      <4>2. k \in 1..n /\ k # n
        BY <1>5, <3>1, <4>1
      <4>3. k + 1 \in 1..n
        BY <4>2
      <4> QED
        BY <1>5, <4>1, <4>3
    <3> QED
      BY <1>0, <1>e, <1>u, <1>7, <3>1, <3>2
  <2> QED
    BY <2>1, <2>2
<1>12. \A f \in Forks : forks'[f].at = "load" =>
          \A h \in Handles :
             <<forks'[f].session, h>> \in native' <=> h \in LoadHeld(kind', forks'[f].call)
  <2>1. \A f \in Forks : forks[f].at = "load" => forks[f].session # s
    BY <1>t, <1>8 DEF SessionsInv, Live
  <2> QED
    BY <1>t, <1>u, <1>6, <2>1 DEF NativeInv
<1>13. ASSUME NEW t \in Then, t # 0, sessions'[t].loaded,
              \A d \in Conns : conns'[d].at = "infer" => conns'[d].session # t
       PROVE  \A h \in Handles : <<t, h>> \in native' <=> h \in Resident(kind')
  <2>1. CASE t = s
    <3>1. k = Len(calls)
      BY <1>e, <1>13, <2>1
    <3> QED
      BY <1>u, <1>7, <2>1, <3>1
  <2>2. CASE t # s
    <3>1. t \in Now /\ sessions[t].loaded
      BY <1>u, <1>3, <1>13
    <3>2. \A d \in Conns : conns[d].at = "infer" => conns[d].session # t
      BY <1>e, <1>1, <1>13, <2>2
    <3>3. \A h \in Handles : <<t, h>> \in native <=> h \in Resident(kind)
      BY <1>t, <1>13, <3>1, <3>2 DEF NativeInv, Now
    <3> QED
      BY <1>u, <1>6, <2>2, <3>3
  <2> QED
    BY <2>1, <2>2
<1>14. \A m, n \in native' : m[2] = "backend" /\ n[2] = "backend" => m = n
  <2>1. ASSUME NEW n \in native', n[2] = "backend" PROVE n \in native
    <3>1. SUFFICES ASSUME n \notin native PROVE FALSE
      OBVIOUS
    <3>2. PICK h \in call.take : n = <<s, h>>
      BY <1>6, <3>1
    <3>3. h = "backend"
      BY <2>1, <3>2
    <3> QED
      BY <1>5, <3>2, <3>3, ResidentApart
  <2> QED
    BY <1>t, <2>1 DEF NativeInv
<1> QED
  BY <1>10, <1>11, <1>12, <1>13, <1>14 DEF NativeInv, Then

\* An inference that is over, however it ended, leaves the session its model alone.
LEMMA UnwindNative ==
    ASSUME UiInv, NEW c \in Conns, On(c) \in DOMAIN sessions, conns[c].at \in Busy,
           OneConn(c), SameTurn(c), conns'[c].at # "infer", Unwind(c), UNCHANGED NoTurn,
           SessionStep
    PROVE  NativeInv'
<1>t. Types /\ Base /\ SessionsInv /\ MutexInv /\ NativeInv
  BY DEF UiInv, Base
<1>0. PICK s \in DOMAIN sessions : s = conns[c].session
  BY DEF On
<1>u. UNCHANGED <<kind, active, forks>>
  BY DEF NoTurn
<1>1. \A d \in Conns : d # c => conns'[d] = conns[d]
  BY DEF OneConn
<1>2. \A d \in Conns : conns'[d].session = conns[d].session
  BY <1>1 DEF SameTurn
<1>3. \A t : t \in Then <=> t \in Now
  BY <1>u, <1>2, HeldIs DEF Then, Now
<1>6. /\ native' \subseteq native
      /\ \A h : <<s, h>> \in native' <=> <<s, h>> \in native /\ h \notin Transient
      /\ \A t, h : t # s => (<<t, h>> \in native' <=> <<t, h>> \in native)
  BY <1>0 DEF Unwind, On
<1>7. \A t \in Now : t # 0 => (sessions'[t].loaded <=> sessions[t].loaded)
  BY <1>t, HeldSession DEF SessionStep
<1>8. s # 0 /\ s \in Now /\ sessions[s].loaded
  <2>1. s # 0
    BY <1>t DEF Types
  <2>2. s \in Now
    BY <1>0, HeldIs DEF Now
  <2> QED
    BY <1>t, <1>0, <2>1, <2>2 DEF SessionsInv
<1>9. \A d \in Conns : d # c /\ conns[d].at = "infer" => conns[d].session # s
  BY <1>t, <1>0 DEF MutexInv, Busy
<1>4. \A h \in Handles : <<s, h>> \in native' <=> h \in Resident(kind)
  <2>1. CASE conns[c].at = "infer"
    <3>1. \A h \in Handles : <<s, h>> \in native
             <=> h \in Resident(kind) \cup InferHeld(kind, conns[c].call)
      BY <1>t, <1>0, <2>1 DEF NativeInv
    <3>2. conns[c].call \in Nat
      BY <1>t DEF Types, ConnRecords
    <3>3. InferHeld(kind, conns[c].call) \subseteq Transient
      BY <3>2, ResidentApart
    <3>4. Resident(kind) \cap Transient = {}
      BY ResidentApart
    <3> QED
      BY <1>6, <3>1, <3>3, <3>4
  <2>2. CASE conns[c].at # "infer"
    <3>1. \A d \in Conns : conns[d].at = "infer" => conns[d].session # s
      BY <1>9, <2>2
    <3>2. \A h \in Handles : <<s, h>> \in native <=> h \in Resident(kind)
      BY <1>t, <1>8, <3>1 DEF NativeInv, Now
    <3>3. Resident(kind) \cap Transient = {}
      BY ResidentApart
    <3> QED
      BY <1>6, <3>2, <3>3
  <2> QED
    BY <2>1, <2>2
<1>10. \A n \in native' : n[1] \in Then /\ n[1] # 0
  BY <1>t, <1>3, <1>6 DEF NativeInv, Now
<1>11. \A d \in Conns : conns'[d].at = "infer" =>
          /\ conns'[d].call \in DOMAIN InferCalls(kind', MaxTokens)
          /\ \A h \in Handles : <<conns'[d].session, h>> \in native'
                <=> h \in Resident(kind') \cup InferHeld(kind', conns'[d].call)
  <2>1. \A d \in Conns : conns'[d].at = "infer" =>
           conns'[d] = conns[d] /\ conns[d].session # s
    BY <1>1, <1>9
  <2> QED
    BY <1>t, <1>u, <1>6, <2>1 DEF NativeInv
<1>12. \A f \in Forks : forks'[f].at = "load" =>
          \A h \in Handles :
             <<forks'[f].session, h>> \in native' <=> h \in LoadHeld(kind', forks'[f].call)
  <2>1. \A f \in Forks : forks[f].at = "load" => forks[f].session # s
    BY <1>t, <1>8 DEF SessionsInv, Live
  <2> QED
    BY <1>t, <1>u, <1>6, <2>1 DEF NativeInv
<1>13. ASSUME NEW t \in Then, t # 0, sessions'[t].loaded,
              \A d \in Conns : conns'[d].at = "infer" => conns'[d].session # t
       PROVE  \A h \in Handles : <<t, h>> \in native' <=> h \in Resident(kind')
  <2>1. CASE t = s
    BY <1>u, <1>4, <2>1
  <2>2. CASE t # s
    <3>1. t \in Now /\ sessions[t].loaded
      BY <1>3, <1>7, <1>13
    <3>2. \A d \in Conns : conns[d].at = "infer" => conns[d].session # t
      BY <1>0, <1>1, <1>13, <2>2
    <3>3. \A h \in Handles : <<t, h>> \in native <=> h \in Resident(kind)
      BY <1>t, <1>13, <3>1, <3>2 DEF NativeInv, Now
    <3> QED
      BY <1>u, <1>6, <2>2, <3>3
  <2> QED
    BY <2>1, <2>2
<1>14. \A m, n \in native' : m[2] = "backend" /\ n[2] = "backend" => m = n
  BY <1>t, <1>6 DEF NativeInv
<1> QED
  BY <1>10, <1>11, <1>12, <1>13, <1>14 DEF NativeInv, Then

\* The next call of a load: the session holds what the calls so far have taken, and after
\* the last one the model; llama's backend is taken only when nobody has one.
LEMMA LoadNative ==
    ASSUME UiInv, NEW f \in Forks, ForkLoad(f)
    PROVE  NativeInv'
<1>t. Types /\ Base /\ SessionsInv /\ NativeInv
  BY DEF UiInv, Base
<1>0. PICK calls, k, s, call :
         /\ calls = LoadCalls(kind) /\ k = forks[f].call /\ s = forks[f].session
         /\ call = calls[k]
  OBVIOUS
<1>e. /\ forks[f].at = "load" /\ s \in DOMAIN sessions /\ k \in DOMAIN calls
      /\ \/ Refused(call, native) /\ Dropped(f) /\ sessions' = sessions
         \/ /\ ~Refused(call, native) /\ Called(s, call)
            /\ OneFork(f) /\ forks'[f].at = (IF k = Len(calls) THEN "digest" ELSE "load")
            /\ forks'[f].call = k + 1 /\ forks'[f].session = s
            /\ OneSession(s) /\ (sessions'[s].loaded <=> k = Len(calls))
      /\ UNCHANGED <<NoFrame, active>>
  BY <1>t, <1>0, ForkLoadEffect
<1>u. UNCHANGED <<kind, conns, active>>
  BY <1>e DEF NoFrame
<1>1. CASE Dropped(f) /\ sessions' = sessions
  <2>1. /\ native' = Kept(native, Held(active, conns, forks'))
        /\ forks'[f].at = "failed" /\ \A g \in Forks : g # f => forks'[g] = forks[g]
    BY <1>1 DEF Dropped, ForkMoves, OneFork
  <2>2. native' = Kept(native, Then)
    BY <1>u, <2>1 DEF Then
  <2>3. SameCallers
    BY <1>u, <2>1 DEF SameCallers
  <2>4. \A t \in Then : t \in Now
    BY <1>u, <2>1, HeldIs DEF Then, Now, Live
  <2>5. NativeKept
    BY <1>1, <1>u, <2>2, <2>3, <2>4 DEF NativeKept
  <2> QED
    BY <1>t, <2>5, NativeKeptKeeps
<1>2. CASE ~(Dropped(f) /\ sessions' = sessions)
  <2>e. /\ ~Refused(call, native) /\ Called(s, call)
        /\ OneFork(f) /\ forks'[f].at = (IF k = Len(calls) THEN "digest" ELSE "load")
        /\ forks'[f].call = k + 1 /\ forks'[f].session = s
        /\ OneSession(s) /\ (sessions'[s].loaded <=> k = Len(calls))
    BY <1>e, <1>2
  <2>1. \A g \in Forks : g # f => forks'[g] = forks[g]
    BY <2>e DEF OneFork
  <2>2. \A t : t \in Then <=> t \in Now
    <3>1. \A g \in Forks : /\ forks'[g].session = forks[g].session
                           /\ forks'[g].at \in Live <=> forks[g].at \in Live
      <4>1. forks'[f].at \in Live /\ forks[f].at \in Live
        BY <1>e, <2>e DEF Live
      <4> QED
        BY <1>0, <2>e, <2>1, <4>1
    <3>2. ASSUME NEW t PROVE t \in Then <=> t \in Now
      <4>1. t \in Then <=> \/ t = active \/ \E c \in Conns : conns[c].session = t
                           \/ \E g \in Forks : forks'[g].at \in Live /\ forks'[g].session = t
        BY <1>u, HeldIs DEF Then
      <4>2. t \in Now <=> \/ t = active \/ \E c \in Conns : conns[c].session = t
                          \/ \E g \in Forks : forks[g].at \in Live /\ forks[g].session = t
        BY HeldIs DEF Now
      <4> QED
        BY <3>1, <4>1, <4>2
    <3> QED
      BY <3>2
  <2>3. \A h \in Handles : <<s, h>> \in native <=> h \in LoadHeld(kind, k)
    BY <1>t, <1>0, <1>e DEF NativeInv
  <2>4. /\ call.take \in SUBSET Handles
        /\ (LoadHeld(kind, k) \cup call.take) \ call.give =
              IF k = Len(calls) THEN Resident(kind) ELSE LoadHeld(kind, k + 1)
    <3>1. kind \in Kinds \cup {"stub"}
      BY <1>t, KindIs DEF KindOk
    <3> QED
      BY <1>0, <1>e, <3>1, LoadCall
  <2>5. /\ \A h : <<s, h>> \in native' <=>
                     (<<s, h>> \in native \/ h \in call.take) /\ h \notin call.give
        /\ \A t, h : t # s => (<<t, h>> \in native' <=> <<t, h>> \in native)
        /\ \A n \in native' : n \in native \/ \E h \in call.take : n = <<s, h>>
    BY <2>e DEF Called
  <2>6. \A h \in Handles : <<s, h>> \in native' <=>
           h \in (IF k = Len(calls) THEN Resident(kind) ELSE LoadHeld(kind, k + 1))
    BY <2>3, <2>4, <2>5
  <2>7. s # 0 /\ s \in Now /\ ~sessions[s].loaded
    <3>1. s # 0
      BY <1>t, <1>e DEF Types
    <3>2. forks[f].at \in Live
      BY <1>e DEF Live
    <3>3. s \in Now
      BY <1>0, <3>2, HeldIs DEF Now
    <3> QED
      BY <1>t, <1>0, <1>e, <3>1, <3>2, <3>3 DEF SessionsInv
  <2>8. /\ \A g \in Forks : g # f /\ forks[g].at = "load" => forks[g].session # s
        /\ \A c \in Conns : conns[c].session # s
    BY <1>t, <1>0, <1>e, <2>7 DEF SessionsInv, Live
  <2>9. \A t \in Now : t # 0 /\ t # s => (sessions'[t].loaded <=> sessions[t].loaded)
    BY <1>t, <2>e, HeldSession DEF OneSession
  <2>10. \A n \in native' : n[1] \in Then /\ n[1] # 0
    <3>1. ASSUME NEW n \in native' PROVE n[1] \in Then /\ n[1] # 0
      <4>1. CASE n \in native
        BY <1>t, <2>2, <4>1 DEF NativeInv, Now
      <4>2. CASE n \notin native
        <5>1. PICK h \in call.take : n = <<s, h>>
          BY <2>5, <3>1, <4>2
        <5>2. n[1] = s
          BY <5>1
        <5> QED
          BY <2>2, <2>7, <5>2
      <4> QED
        BY <4>1, <4>2
    <3> QED
      BY <3>1
  <2>11. \A c \in Conns : conns'[c].at = "infer" =>
            /\ conns'[c].call \in DOMAIN InferCalls(kind', MaxTokens)
            /\ \A h \in Handles : <<conns'[c].session, h>> \in native'
                  <=> h \in Resident(kind') \cup InferHeld(kind', conns'[c].call)
    BY <1>t, <1>u, <2>5, <2>8 DEF NativeInv
  <2>12. \A g \in Forks : forks'[g].at = "load" =>
            \A h \in Handles :
               <<forks'[g].session, h>> \in native' <=> h \in LoadHeld(kind', forks'[g].call)
    <3>1. ASSUME NEW g \in Forks, g # f, forks'[g].at = "load"
          PROVE  \A h \in Handles :
                    <<forks'[g].session, h>> \in native' <=> h \in LoadHeld(kind', forks'[g].call)
      <4>1. forks'[g] = forks[g] /\ forks[g].session # s
        BY <2>1, <2>8, <3>1
      <4> QED
        BY <1>t, <1>u, <2>5, <3>1, <4>1 DEF NativeInv
    <3>2. ASSUME forks'[f].at = "load"
          PROVE  \A h \in Handles :
                    <<forks'[f].session, h>> \in native' <=> h \in LoadHeld(kind', forks'[f].call)
      BY <1>u, <2>e, <2>6, <3>2
    <3> QED
      BY <3>1, <3>2
  <2>13. ASSUME NEW t \in Then, t # 0, sessions'[t].loaded,
                \A c \in Conns : conns'[c].at = "infer" => conns'[c].session # t
         PROVE  \A h \in Handles : <<t, h>> \in native' <=> h \in Resident(kind')
    <3>1. CASE t = s
      BY <1>u, <2>e, <2>6, <2>13, <3>1
    <3>2. CASE t # s
      <4>1. t \in Now /\ sessions[t].loaded
        BY <2>2, <2>9, <2>13, <3>2
      <4>2. \A h \in Handles : <<t, h>> \in native <=> h \in Resident(kind)
        BY <1>t, <1>u, <2>13, <4>1 DEF NativeInv, Now
      <4> QED
        BY <1>u, <2>5, <3>2, <4>2
    <3> QED
      BY <3>1, <3>2
  <2>14. \A m, n \in native' : m[2] = "backend" /\ n[2] = "backend" => m = n
    <3>1. CASE "backend" \in call.take
      <4>1. \A n \in native : n[2] # "backend"
        BY <2>e, <3>1 DEF Refused
      <4>2. ASSUME NEW n \in native', n[2] = "backend" PROVE n = <<s, "backend">>
        <5>1. PICK h \in call.take : n = <<s, h>>
          BY <2>5, <4>1, <4>2
        <5> QED
          BY <4>2, <5>1
      <4> QED
        BY <4>2
    <3>2. CASE "backend" \notin call.take
      <4>1. ASSUME NEW n \in native', n[2] = "backend" PROVE n \in native
        <5>1. SUFFICES ASSUME n \notin native PROVE FALSE
          OBVIOUS
        <5>2. PICK h \in call.take : n = <<s, h>>
          BY <2>5, <5>1
        <5> QED
          BY <3>2, <4>1, <5>2
      <4> QED
        BY <1>t, <4>1 DEF NativeInv
    <3> QED
      BY <3>1, <3>2
  <2> QED
    BY <2>10, <2>11, <2>12, <2>13, <2>14 DEF NativeInv, Then
<1> QED
  BY <1>1, <1>2

\* A session is booted with no handle.
LEMMA BootNative ==
    ASSUME UiInv, NEW f \in Forks, ForkBoot(f)
    PROVE  NativeInv'
<1>t. Types /\ Base /\ SessionsInv /\ NativeInv
  BY DEF UiInv, Base
<1>e. forks[f].at = "boot" /\ UNCHANGED <<NoFrame, native, active>>
  BY <1>t, ForkBootEffect
<1>u. UNCHANGED <<kind, conns, active, native>>
  BY <1>e DEF NoFrame
<1>1. CASE ForkMoves(f, "failed") /\ UNCHANGED <<sessions, ledgers>>
  <2>1. /\ forks'[f].at = "failed" /\ \A g \in Forks : g # f => forks'[g] = forks[g]
    BY <1>1 DEF ForkMoves, OneFork
  <2>2. SameCallers
    BY <1>u, <2>1 DEF SameCallers
  <2>3. \A t : t \in Then <=> t \in Now
    BY <1>e, <1>u, <2>1, HeldIs DEF Then, Now, Live
  <2>4. NativeStill
    BY <1>1, <1>u, <2>2, <2>3 DEF NativeStill
  <2> QED
    BY <1>t, <2>4, NativeStillKeeps
<1>2. CASE ~(ForkMoves(f, "failed") /\ UNCHANGED <<sessions, ledgers>>)
  <2>1. /\ OneFork(f) /\ forks'[f].at = "load" /\ forks'[f].session = Len(sessions) + 1
        /\ forks'[f].call = forks[f].call
    BY <1>t, <1>2, ForkBootEffect
  <2>2. PICK b \in SessionRecords : sessions' = Append(sessions, b) /\ b.loaded = FALSE
    BY <1>t, <1>2, ForkBootEffect
  <2>3. PICK n \in Nat : n = Len(sessions)
    BY <1>t DEF Types
  <2>4. /\ DOMAIN sessions = 1..n /\ n + 1 \notin 1..n /\ n + 1 # 0
        /\ \A s \in 1..n : sessions'[s] = sessions[s]
        /\ sessions'[n + 1] = b
    BY <1>t, <2>2, <2>3 DEF Types
  <2>5. \A g \in Forks : g # f => forks'[g] = forks[g]
    BY <2>1 DEF OneFork
  <2>6. \A t \in Now : t # 0 => t \in 1..n
    BY <1>t, <2>4, HeldSession
  <2>7. \A t : t \in Then <=> t \in Now \/ t = n + 1
    <3>1. ASSUME NEW t PROVE t \in Then <=> t \in Now \/ t = n + 1
      <4>1. t \in Then <=> \/ t = active \/ \E c \in Conns : conns[c].session = t
                           \/ \E g \in Forks : forks'[g].at \in Live /\ forks'[g].session = t
        BY <1>u, HeldIs DEF Then
      <4>2. t \in Now <=> \/ t = active \/ \E c \in Conns : conns[c].session = t
                          \/ \E g \in Forks : forks[g].at \in Live /\ forks[g].session = t
        BY HeldIs DEF Now
      <4>3. forks'[f].at \in Live /\ forks[f].at \notin Live /\ forks'[f].session = n + 1
        BY <1>e, <2>1, <2>3 DEF Live
      <4> QED
        BY <2>5, <4>1, <4>2, <4>3
    <3> QED
      BY <3>1
  <2>8. \A h : <<n + 1, h>> \notin native
    <3>1. ASSUME NEW h, <<n + 1, h>> \in native PROVE FALSE
      <4>1. <<n + 1, h>>[1] \in Now
        BY <1>t, <3>1 DEF NativeInv, Now
      <4> QED
        BY <2>4, <2>6, <4>1
    <3> QED
      BY <3>1
  <2>9. \A m \in native' : m[1] \in Then /\ m[1] # 0
    BY <1>t, <1>u, <2>7 DEF NativeInv, Now
  <2>10. \A c \in Conns : conns'[c].at = "infer" =>
            /\ conns'[c].call \in DOMAIN InferCalls(kind', MaxTokens)
            /\ \A h \in Handles : <<conns'[c].session, h>> \in native'
                  <=> h \in Resident(kind') \cup InferHeld(kind', conns'[c].call)
    BY <1>t, <1>u DEF NativeInv
  <2>11. \A g \in Forks : forks'[g].at = "load" =>
            \A h \in Handles :
               <<forks'[g].session, h>> \in native' <=> h \in LoadHeld(kind', forks'[g].call)
    <3>1. forks'[f].call = 1
      BY <1>t, <1>e, <2>1 DEF SessionsInv
    <3>2. LoadHeld(kind, 1) = {}
      BY <1>t, KindIs, LoadCall DEF KindOk
    <3>3. \A h \in Handles : <<forks'[f].session, h>> \notin native'
      BY <1>u, <2>1, <2>3, <2>8
    <3>4. \A g \in Forks : g # f /\ forks'[g].at = "load" =>
            \A h \in Handles :
               <<forks'[g].session, h>> \in native' <=> h \in LoadHeld(kind', forks'[g].call)
      BY <1>t, <1>u, <2>5 DEF NativeInv
    <3> QED
      BY <1>u, <3>1, <3>2, <3>3, <3>4
  <2>12. ASSUME NEW t \in Then, t # 0, sessions'[t].loaded,
                \A c \in Conns : conns'[c].at = "infer" => conns'[c].session # t
         PROVE  \A h \in Handles : <<t, h>> \in native' <=> h \in Resident(kind')
    <3>1. t # n + 1
      BY <2>2, <2>4, <2>12
    <3>2. t \in Now /\ t \in 1..n
      BY <2>6, <2>7, <2>12, <3>1
    <3>3. sessions[t].loaded
      BY <2>4, <2>12, <3>2
    <3> QED
      BY <1>t, <1>u, <2>12, <3>2, <3>3 DEF NativeInv, Now
  <2>13. \A m, k \in native' : m[2] = "backend" /\ k[2] = "backend" => m = k
    BY <1>t, <1>u DEF NativeInv
  <2> QED
    BY <2>9, <2>10, <2>11, <2>12, <2>13 DEF NativeInv, Then
<1> QED
  BY <1>1, <1>2

\* The forks' steps that make no native call keep it.
LEMMA OtherForkNative ==
    ASSUME UiInv, NEW f \in Forks,
           \/ Fork(f) \/ ForkBootFails(f) \/ ForkLoadFails(f) \/ ForkDigest(f) \/ ForkSwap(f)
           \/ Abandon(f)
    PROVE  NativeInv'
<1>t. Types /\ Base /\ SessionsInv /\ NativeInv
  BY DEF UiInv, Base
<1>1. CASE Fork(f)
  <2>1. /\ forks[f].at = "idle" /\ forks'[f].at \in {"boot", "failed"}
        /\ \A g \in Forks : g # f => forks'[g] = forks[g]
        /\ UNCHANGED <<kind, conns, sessions, native, active>>
    BY <1>t, <1>1, ForkEffect DEF OneFork, NoFrame
  <2>2. \A t : t \in Then <=> t \in Now
    BY <2>1, HeldIs DEF Then, Now, Live
  <2>3. NativeStill
    BY <2>1, <2>2 DEF NativeStill, SameCallers
  <2> QED
    BY <1>t, <2>3, NativeStillKeeps
<1>2. CASE ForkBootFails(f) \/ ForkLoadFails(f)
  <2>1. /\ forks[f].at \in {"boot", "load"} /\ forks'[f].at = "failed"
        /\ \A g \in Forks : g # f => forks'[g] = forks[g]
        /\ UNCHANGED <<kind, conns, sessions, active>>
        /\ \/ forks[f].at = "boot" /\ native' = native
           \/ native' = Kept(native, Held(active, conns, forks'))
    BY <1>t, <1>2, ForkFailsEffect DEF ForkMoves, OneFork, NoFrame
  <2>2. \A t : t \in Then => t \in Now
    BY <2>1, HeldIs DEF Then, Now, Live
  <2>3. SameCallers
    BY <2>1 DEF SameCallers
  <2>4. CASE forks[f].at = "boot" /\ native' = native
    <3>1. \A t : t \in Now => t \in Then
      BY <2>1, <2>4, HeldIs DEF Then, Now, Live
    <3>2. NativeStill
      BY <2>1, <2>2, <2>3, <2>4, <3>1 DEF NativeStill
    <3> QED
      BY <1>t, <3>2, NativeStillKeeps
  <2>5. CASE native' = Kept(native, Held(active, conns, forks'))
    <3>1. native' = Kept(native, Then)
      BY <2>1, <2>5 DEF Then
    <3>2. NativeKept
      BY <2>1, <2>2, <2>3, <3>1 DEF NativeKept
    <3> QED
      BY <1>t, <3>2, NativeKeptKeeps
  <2> QED
    BY <2>1, <2>4, <2>5
<1>3. CASE ForkDigest(f)
  <2>1. /\ forks[f].at = "digest" /\ forks'[f].at = "swap"
        /\ forks'[f].session = forks[f].session
        /\ \A g \in Forks : g # f => forks'[g] = forks[g]
        /\ UNCHANGED <<kind, conns, sessions, native, active>>
    BY <1>t, <1>3, ForkDigestEffect DEF ForkMoves, OneFork, NoFrame
  <2>2. \A t : t \in Then <=> t \in Now
    BY <2>1, HeldIs DEF Then, Now, Live
  <2>3. NativeStill
    BY <2>1, <2>2 DEF NativeStill, SameCallers
  <2> QED
    BY <1>t, <2>3, NativeStillKeeps
<1>4. CASE ForkSwap(f)
  <2>1. /\ forks[f].at = "swap" /\ forks'[f].at \in {"failed", "ok"}
        /\ \A g \in Forks : g # f => forks'[g] = forks[g]
        /\ native' = Kept(native, Held(active', conns, forks'))
        /\ active' \in {active, forks[f].session}
        /\ UNCHANGED <<kind, conns, sessions>>
    BY <1>t, <1>4, ForkSwapEffect DEF Dropped, ForkMoves, OneFork, NoFrame
  <2>2. \A t : t \in Then => t \in Now
    BY <2>1, HeldIs DEF Then, Now, Live
  <2>3. native' = Kept(native, Then)
    BY <2>1 DEF Then
  <2>4. NativeKept
    BY <2>1, <2>2, <2>3 DEF NativeKept, SameCallers
  <2> QED
    BY <1>t, <2>4, NativeKeptKeeps
<1>5. CASE Abandon(f)
  <2>1. /\ forks'[f].at = forks[f].at /\ forks'[f].session = forks[f].session
        /\ forks'[f].call = forks[f].call
        /\ \A g \in Forks : g # f => forks'[g] = forks[g]
        /\ UNCHANGED <<kind, conns, sessions, native, active>>
    BY <1>t, <1>5, AbandonEffect DEF OneFork, NoFrame
  <2>2. \A g \in Forks : /\ forks'[g].at = forks[g].at /\ forks'[g].session = forks[g].session
                         /\ forks'[g].call = forks[g].call
    BY <2>1
  <2>3. \A t : t \in Then <=> t \in Now
    BY <2>1, <2>2, HeldIs DEF Then, Now
  <2>4. NativeStill
    BY <2>1, <2>2, <2>3 DEF NativeStill, SameCallers
  <2> QED
    BY <1>t, <2>4, NativeStillKeeps
<1> QED
  BY <1>1, <1>2, <1>3, <1>4, <1>5

\* A connection's step outside an inference that touches no handle.
LEMMA ConnNativeStill ==
    ASSUME Base, SessionStep, NEW c \in Conns, OneConn(c),
           conns'[c].session = conns[c].session,
           conns'[c].at # "infer", conns[c].at # "infer", native' = native
    PROVE  NativeStill
<1>1. UNCHANGED <<kind, active, forks>>
  BY DEF SessionStep
<1>2. \A d \in Conns : d # c => conns'[d] = conns[d]
  BY DEF OneConn
<1>3. \A d \in Conns : conns'[d].session = conns[d].session
  BY <1>2
<1>4. \A t : t \in Then <=> t \in Now
  BY <1>1, <1>3, HeldIs DEF Then, Now
<1>5. \A t \in Now : t # 0 => (sessions'[t].loaded <=> sessions[t].loaded)
  BY HeldSession DEF SessionStep
<1>6. SameCallers
  BY <1>1, <1>2 DEF SameCallers
<1> QED
  BY <1>1, <1>4, <1>5, <1>6 DEF NativeStill

\* The connections' steps keep it.
LEMMA FrontNative ==
    ASSUME UiInv, NEW c \in Conns,
           \/ CreateSession(c) \/ Stream(c) \/ Malformed(c) \/ UserPrompt(c) \/ Hangup(c)
           \/ Send(c) \/ SendFails(c) \/ Closed(c) \/ Stub(c)
    PROVE  NativeInv'
<1>t. Types /\ Base /\ SessionsInv /\ NativeInv
  BY DEF UiInv, Base
<1>s. SessionStep /\ sessions' = sessions
  BY FrontStep
<1>u. UNCHANGED <<kind, active, forks, sessions>>
  BY <1>s DEF SessionStep
<1>1. CASE CreateSession(c)
  <2>1. NativeStill
    BY <1>u, <1>1 DEF CreateSession, NativeStill, SameCallers, Then, Now
  <2> QED
    BY <1>t, <2>1, NativeStillKeeps
<1>2. CASE Stream(c)
  <2>1. /\ conns[c].at = "closed" /\ conns'[c].at = "open" /\ conns'[c].session = active
        /\ \A d \in Conns : d # c => conns'[d] = conns[d]
        /\ native' = native
    BY <1>t, <1>2, StreamEffect DEF OneConn, Server
  <2>2. conns[c].session = 0
    BY <2>1 DEF UiInv, FrameInv, FrameOk
  <2>3. \A t : (t \in Then => t \in Now) /\ (t \in Now /\ t # 0 => t \in Then)
    BY <1>u, <2>1, <2>2, HeldIs DEF Then, Now
  <2>4. NativeStill
    BY <1>u, <2>1, <2>3 DEF NativeStill, SameCallers
  <2> QED
    BY <1>t, <2>4, NativeStillKeeps
<1>3. CASE Closed(c)
  <2>1. /\ conns[c].at = "open" /\ conns'[c].at = "closed" /\ conns'[c].session = 0
        /\ \A d \in Conns : d # c => conns'[d] = conns[d]
        /\ native' = Kept(native, Held(active, conns', forks))
    BY <1>t, <1>3, ClosedEffect DEF OneConn
  <2>2. native' = Kept(native, Then)
    BY <1>u, <2>1 DEF Then
  <2>3. \A t : t \in Then /\ t # 0 => t \in Now
    BY <1>u, <2>1, HeldIs DEF Then, Now
  <2>4. NativeKept
    BY <1>u, <2>1, <2>2, <2>3 DEF NativeKept, SameCallers
  <2> QED
    BY <1>t, <2>4, NativeKeptKeeps
<1>4. CASE Hangup(c)
  <2>1. /\ conns'[c].at = conns[c].at /\ conns'[c].call = conns[c].call
        /\ conns'[c].session = conns[c].session /\ native' = native
        /\ \A d \in Conns : d # c => conns'[d] = conns[d]
    BY <1>t, <1>4, HangupEffect DEF OneConn, Server, SameTurn
  <2>2. \A d \in Conns : /\ conns'[d].at = conns[d].at /\ conns'[d].call = conns[d].call
                         /\ conns'[d].session = conns[d].session
    BY <2>1
  <2>3. \A t : t \in Then <=> t \in Now
    BY <1>u, <2>2, HeldIs DEF Then, Now
  <2>4. NativeStill
    BY <1>u, <2>1, <2>2, <2>3 DEF NativeStill, SameCallers
  <2> QED
    BY <1>t, <2>4, NativeStillKeeps
<1>5. CASE Malformed(c) \/ UserPrompt(c) \/ Send(c) \/ SendFails(c) \/ Stub(c)
  <2>1. /\ OneConn(c) /\ conns'[c].session = conns[c].session /\ native' = native
        /\ conns'[c].at # "infer" /\ conns[c].at # "infer"
    <3>1. CASE Malformed(c)
      BY <1>t, <3>1, MalformedEffect DEF Server, SameTurn
    <3>2. CASE UserPrompt(c)
      BY <1>t, <3>2, PromptEffect DEF Server
    <3>3. CASE Send(c)
      <4>1. conns[c].todo # <<>>
        BY <3>3 DEF UiInv, FrameInv, FrameOk, Send
      <4> QED
        BY <1>t, <3>3, <4>1, SendEffect DEF Server, SameTurn
    <3>4. CASE SendFails(c)
      BY <1>t, <3>4, SendFailsEffect DEF Server, SameTurn
    <3>5. CASE Stub(c)
      BY <1>t, <3>5, StubEffect DEF Replied, Server, SameTurn
    <3> QED
      BY <1>5, <3>1, <3>2, <3>3, <3>4, <3>5
  <2>2. NativeStill
    BY <1>t, <1>s, <2>1, ConnNativeStill
  <2> QED
    BY <1>t, <2>2, NativeStillKeeps
<1> QED
  BY <1>1, <1>2, <1>3, <1>4, <1>5

\* The steps of a turn's thread keep it.
LEMMA TurnNative ==
    ASSUME UiInv, NEW c \in Conns,
           \/ LockPoisoned(c) \/ InferFails(c) \/ DispatchFails(c) \/ Reason(c)
           \/ Dispatch(c) \/ Outcome(c) \/ Panic(c)
    PROVE  NativeInv'
<1>t. Types /\ Base /\ SessionsInv /\ NativeInv
  BY DEF UiInv, Base
<1>s. SessionStep
  BY TurnStep
<1>1. CASE Panic(c)
  <2>1. /\ On(c) \in DOMAIN sessions /\ conns[c].at \in Busy /\ OneConn(c) /\ SameTurn(c)
        /\ conns'[c].at = "open" /\ Unwind(c) /\ UNCHANGED NoTurn
    BY <1>t, <1>1, PanicEffect
  <2>2. conns'[c].at # "infer"
    BY <2>1
  <2> QED
    BY <1>s, <2>1, <2>2, UnwindNative
<1>2. CASE LockPoisoned(c) \/ InferFails(c) \/ DispatchFails(c)
  <2>1. /\ On(c) \in DOMAIN sessions /\ OneConn(c) /\ SameTurn(c) /\ conns'[c].at = "reply"
        /\ (conns[c].at = "infer" /\ Unwind(c)) \/ (conns[c].at # "infer" /\ native' = native)
        /\ UNCHANGED NoTurn
    BY <1>t, <1>2, ErrorEffect DEF Replied
  <2>2. conns'[c].at # "infer" /\ conns'[c].session = conns[c].session
    BY <2>1 DEF SameTurn
  <2>3. CASE conns[c].at = "infer" /\ Unwind(c)
    <3>1. conns[c].at \in Busy
      BY <2>3 DEF Busy
    <3> QED
      BY <1>s, <2>1, <2>2, <2>3, <3>1, UnwindNative
  <2>4. CASE conns[c].at # "infer" /\ native' = native
    <3>1. NativeStill
      BY <1>t, <1>s, <2>1, <2>2, <2>4, ConnNativeStill
    <3> QED
      BY <1>t, <3>1, NativeStillKeeps
  <2> QED
    BY <2>1, <2>3, <2>4
<1>3. CASE Reason(c) \/ Dispatch(c) \/ Outcome(c)
  <2>1. /\ OneConn(c) /\ conns'[c].session = conns[c].session /\ native' = native
        /\ conns'[c].at # "infer" /\ conns[c].at # "infer"
    <3>1. CASE Reason(c)
      BY <1>t, <3>1, ReasonEffect DEF Replied, SameTurn
    <3>2. CASE Dispatch(c)
      BY <1>t, <3>2, DispatchEffect DEF SameTurn
    <3>3. CASE Outcome(c)
      BY <1>t, <3>3, OutcomeEffect DEF Replied, SameTurn
    <3> QED
      BY <1>3, <3>1, <3>2, <3>3
  <2>2. NativeStill
    BY <1>t, <1>s, <2>1, ConnNativeStill
  <2> QED
    BY <1>t, <2>2, NativeStillKeeps
<1> QED
  BY <1>1, <1>2, <1>3

\* Every step keeps the invariant of the handles.
LEMMA NativeNext ==
    ASSUME UiInv, Next
    PROVE  NativeInv'
<1>t. NativeInv
  BY DEF UiInv
<1>1. ASSUME NEW c \in Conns,
             \/ CreateSession(c) \/ Stream(c) \/ Malformed(c) \/ UserPrompt(c) \/ Hangup(c)
             \/ Worker(c) \/ Handler(c) \/ EndOfAnswer(c) \/ InferFails(c) \/ DispatchFails(c)
             \/ Panic(c)
      PROVE  NativeInv'
  BY <1>1, FrontNative, TurnNative, LockNative, InferNative, EndOfAnswerNative
     DEF Worker, Handler
<1>2. ASSUME NEW f \in Forks, ForkTask(f) PROVE NativeInv'
  BY <1>2, LoadNative, BootNative, OtherForkNative DEF ForkTask
<1>3. ASSUME Tick PROVE NativeInv'
  <2>1. NativeStill
    BY <1>3 DEF Tick, NativeStill, SameCallers, Then, Now
  <2> QED
    BY <1>t, <2>1, NativeStillKeeps
<1> QED
  BY <1>1, <1>2, <1>3 DEF Next

-----------------------------------------------------------------------------
(* The frames.                                                             *)

\* Counting in a sequence.
LEMMA CountType ==
    ASSUME NEW S, NEW f \in Seq(S), NEW x
    PROVE  /\ Count(f, x) \in Nat /\ IsFiniteSet({i \in DOMAIN f : f[i] = x})
           /\ Count(f, x) = 0 <=> \A i \in DOMAIN f : f[i] # x
<1>1. PICK n \in Nat : n = Len(f)
  OBVIOUS
<1>2. DOMAIN f = 1..n
  BY <1>1
<1>3. PICK T : T = {i \in DOMAIN f : f[i] = x}
  OBVIOUS
<1>4. IsFiniteSet(T)
  <2>1. IsFiniteSet(1..n)
    BY FS_Interval
  <2>2. T \in SUBSET (1..n)
    BY <1>2, <1>3
  <2> QED
    BY <2>1, <2>2, FS_Subset
<1>5. Cardinality(T) \in Nat /\ (Cardinality(T) = 0 <=> T = {})
  BY <1>4, FS_CardinalityType, FS_EmptySet
<1>6. T = {} <=> \A i \in DOMAIN f : f[i] # x
  BY <1>3
<1> QED
  BY <1>3, <1>4, <1>5, <1>6 DEF Count

\* Counting calls is what Calls does.
LEMMA CallsCounted == ASSUME NEW said PROVE Count(said, "call") = Calls(said)
  BY DEF Count, Calls

\* h is f, of length n, and then g, of length m.
Join(h, f, g, n, m) ==
    /\ Len(h) = n + m
    /\ \A i \in 1..n : h[i] = f[i]
    /\ \A i \in 1..m : h[n + i] = g[i]

\* Two sequences of frames, one after the other.
LEMMA Joined ==
    ASSUME NEW f \in Seq(FrameNames), NEW g \in Seq(FrameNames), NEW n \in Nat, NEW m \in Nat,
           Len(f) = n, Len(g) = m
    PROVE  \E h \in Seq(FrameNames) : h = f \o g /\ Join(h, f, g, n, m)
<1>a. f \o g \in Seq(FrameNames)
  OBVIOUS
<1>b. Len(f \o g) = n + m
  OBVIOUS
<1>1. PICK h \in Seq(FrameNames) : h = f \o g
  BY <1>a
<1>2. Len(h) = n + m
  BY <1>1, <1>b
<1>3. \A i \in 1..n : h[i] = f[i]
  BY <1>1
<1>4. \A i \in 1..m : h[n + i] = g[i]
  BY <1>1
<1> QED
  BY <1>1, <1>2, <1>3, <1>4 DEF Join

\* The order of the frames, at one of them.
LEMMA OrderedAt ==
    ASSUME NEW f, Ordered(f), NEW i \in DOMAIN f
    PROVE  /\ f[i] = "turn_start" <=> i = 1
           /\ f[i] = "result" => f[i - 1] = "call"
           /\ f[i] = "text" => f[i - 1] \in {"turn_start", "text"}
           /\ f[i] = "error" => i = 2
           /\ f[i] = "call" => f[i - 1] \in {"turn_start", "text", "result"}
           /\ f[i] = "turn_end" => i = Len(f)
  BY DEF Ordered

\* What is sent of a turn that is not complete is in order, and not closed.
LEMMA SentPart ==
    ASSUME NEW f \in Seq(FrameNames), NEW g \in Seq(FrameNames), f # <<>>, g # <<>>,
           Ordered(f \o g)
    PROVE  Part(f)
<1>1. PICK n \in Nat, m \in Nat : n = Len(f) /\ m = Len(g)
  OBVIOUS
<1>2. n > 0 /\ m > 0
  BY <1>1
<1>3. f \o g \in Seq(FrameNames)
  OBVIOUS
<1>4. PICK h \in Seq(FrameNames) : h = f \o g
  BY <1>3
<1>5. /\ Len(h) = n + m /\ DOMAIN h = 1..(n + m) /\ DOMAIN f = 1..n
      /\ \A i \in 1..n : h[i] = f[i]
  BY <1>1, <1>4
<1>6. Ordered(h)
  BY <1>4
<1>7. \A i \in 1..n : f[i] # "turn_end"
  <2>1. ASSUME NEW i \in 1..n PROVE h[i] # "turn_end"
    <3>1. i \in DOMAIN h /\ i # n + m
      BY <1>2, <1>5
    <3>2. h[i] = "turn_end" => i = Len(h)
      BY <1>6, <3>1, OrderedAt
    <3> QED
      BY <1>5, <3>1, <3>2
  <2> QED
    BY <1>5, <2>1
<1>8. f[1] = "turn_start"
  <2>1. 1 \in DOMAIN h /\ 1 \in 1..n
    BY <1>2, <1>5
  <2>2. h[1] = "turn_start"
    BY <1>6, <2>1, OrderedAt
  <2> QED
    BY <1>5, <2>1, <2>2
<1>9. ASSUME NEW i \in 1..n
      PROVE  /\ f[i] = "turn_start" <=> i = 1
             /\ f[i] = "result" => f[i - 1] = "call"
             /\ f[i] = "text" => f[i - 1] \in {"turn_start", "text"}
             /\ f[i] = "error" => i = 2
             /\ f[i] = "call" => f[i - 1] \in {"turn_start", "text", "result"}
  <2>1. CASE i = 1
    BY <1>8, <2>1
  <2>2. CASE i # 1
    <3>1. i - 1 \in 1..n /\ i \in 1..(n + m)
      BY <2>2
    <3>2. h[i] = f[i] /\ h[i - 1] = f[i - 1]
      BY <1>5, <3>1
    <3>3. i \in DOMAIN h
      BY <1>5, <3>1
    <3>4. /\ h[i] = "turn_start" <=> i = 1
          /\ h[i] = "result" => h[i - 1] = "call"
          /\ h[i] = "text" => h[i - 1] \in {"turn_start", "text"}
          /\ h[i] = "error" => i = 2
          /\ h[i] = "call" => h[i - 1] \in {"turn_start", "text", "result"}
      BY <1>6, <3>3, OrderedAt
    <3> QED
      BY <3>2, <3>4
  <2> QED
    BY <2>1, <2>2
<1>10. Ordered(f)
  BY <1>5, <1>7, <1>9 DEF Ordered
<1> QED
  BY <1>5, <1>7, <1>10 DEF Part

\* A failed turn's frames.
LEMMA ErrorWhole ==
    ASSUME NEW said
    PROVE  Whole(<<"turn_start">> \o ErrorReply, said)
<1>1. PICK f \in Seq(FrameNames) : f = <<"turn_start">> \o ErrorReply
  <2>1. <<"turn_start">> \o ErrorReply \in Seq(FrameNames)
    BY Constants
  <2> QED
    BY <2>1
<1>2. /\ Len(f) = 3 /\ DOMAIN f = 1..3 /\ f[1] = "turn_start" /\ f[2] = "error"
      /\ f[3] = "turn_end" /\ f # <<>>
  <2>1. PICK a, b : a = <<"turn_start">> /\ b = ErrorReply
    OBVIOUS
  <2>2. /\ a \in Seq(FrameNames) /\ b \in Seq(FrameNames) /\ Len(a) = 1 /\ Len(b) = 2
        /\ a[1] = "turn_start" /\ b[1] = "error" /\ b[2] = "turn_end"
    BY <2>1 DEF ErrorReply, FrameNames
  <2>3. f = a \o b
    BY <1>1, <2>1
  <2>4. Len(f) = 3 /\ f[1] = a[1] /\ f[2] = b[1] /\ f[3] = b[2]
    <3>1. PICK n \in Nat, m \in Nat : n = 1 /\ m = 2
      OBVIOUS
    <3>2. a \in Seq(FrameNames) /\ b \in Seq(FrameNames) /\ Len(a) = n /\ Len(b) = m
      BY <2>2, <3>1
    <3>3. PICK h \in Seq(FrameNames) : h = a \o b /\ Join(h, a, b, n, m)
      BY <3>2, Joined
    <3>4. Len(h) = 3 /\ h[1] = a[1] /\ h[1 + 1] = b[1] /\ h[1 + 2] = b[2]
      BY <3>1, <3>3 DEF Join
    <3> QED
      BY <2>3, <3>3, <3>4
  <2> QED
    BY <1>1, <2>2, <2>4
<1>3. Ordered(f)
  BY <1>2 DEF Ordered
<1>4. Complete(f)
  BY <1>2 DEF Complete
<1>5. Count(f, "error") # 0
  <2>1. ~\A i \in DOMAIN f : f[i] # "error"
    BY <1>2
  <2> QED
    BY <2>1, CountType
<1> QED
  BY <1>1, <1>3, <1>4, <1>5 DEF Whole

\* The stub's.
LEMMA StubWhole == Whole(<<"turn_start">> \o <<"text", "turn_end">>, <<>>)
<1>1. PICK f \in Seq(FrameNames) : f = <<"turn_start">> \o <<"text", "turn_end">>
  <2>1. <<"turn_start">> \o <<"text", "turn_end">> \in Seq(FrameNames)
    BY Constants
  <2> QED
    BY <2>1
<1>2. /\ Len(f) = 3 /\ DOMAIN f = 1..3 /\ f[1] = "turn_start" /\ f[2] = "text"
      /\ f[3] = "turn_end" /\ f # <<>>
  <2>1. PICK a, b : a = <<"turn_start">> /\ b = <<"text", "turn_end">>
    OBVIOUS
  <2>2. /\ a \in Seq(FrameNames) /\ b \in Seq(FrameNames) /\ Len(a) = 1 /\ Len(b) = 2
        /\ a[1] = "turn_start" /\ b[1] = "text" /\ b[2] = "turn_end"
    BY <2>1 DEF FrameNames
  <2> QED
    BY <1>1, <2>1, <2>2
<1>3. Ordered(f)
  BY <1>2 DEF Ordered
<1>4. Complete(f)
  BY <1>2 DEF Complete
<1>5. Count(f, "call") = 0
  <2>1. \A i \in DOMAIN f : f[i] # "call"
    BY <1>2
  <2> QED
    BY <2>1, CountType
<1>6. PICK w \in Seq(Pieces) : w = <<>>
  BY Constants
<1>7. Count(w, "call") = 0 /\ Count(w, "bad") = 0
  <2>1. \A i \in DOMAIN w : w[i] # "call" /\ w[i] # "bad"
    BY <1>6
  <2> QED
    BY <2>1, CountType
<1>8. Whole(f, w)
  BY <1>3, <1>4, <1>5, <1>7, CallsCounted DEF Whole
<1> QED
  BY <1>1, <1>6, <1>8

\* What the parsers make of an answer.
LEMMA ParsedIs ==
    ASSUME NEW k, NEW said \in Seq(Pieces), Parse(k, said).ok
    PROVE  /\ Parse(k, said).calls = Calls(said)
           /\ Count(said, "bad") > 0 => Parse(k, said).text
<1>1. Count(said, "bad") > 0 => \E i \in DOMAIN said : said[i] = "bad"
  <2>1. Count(said, "bad") \in Nat
    BY CountType
  <2>2. (\A i \in DOMAIN said : said[i] # "bad") => Count(said, "bad") = 0
    BY CountType
  <2> QED
    BY <2>1, <2>2
<1>2. CASE k = "llama"
  <2>1. Parse(k, said) = Answer(\E i \in DOMAIN said : said[i] # "call", Calls(said))
    BY <1>2 DEF Parse, LlamaParse
  <2>2. /\ Parse(k, said).calls = Calls(said)
        /\ Parse(k, said).text = (\E i \in DOMAIN said : said[i] # "call")
    BY <2>1 DEF Answer
  <2>3. (\E i \in DOMAIN said : said[i] = "bad") => \E i \in DOMAIN said : said[i] # "call"
    OBVIOUS
  <2> QED
    BY <1>1, <2>2, <2>3
<1>3. CASE k # "llama"
  <2>1. ~\E i \in DOMAIN said : said[i] = "bad"
    <3>1. SUFFICES ASSUME \E i \in DOMAIN said : said[i] = "bad" PROVE FALSE
      OBVIOUS
    <3>2. Parse(k, said) = NoAnswer
      BY <1>3, <3>1 DEF Parse, LiteRtParse
    <3> QED
      BY <3>2 DEF NoAnswer
  <2>2. Parse(k, said) = Answer(\E i \in DOMAIN said : said[i] = "text", Calls(said))
    BY <1>3, <2>1 DEF Parse, LiteRtParse
  <2>3. Parse(k, said).calls = Calls(said)
    BY <2>2 DEF Answer
  <2> QED
    BY <1>1, <2>1, <2>3
<1> QED
  BY <1>2, <1>3

\* The frames of a finished turn, one by one: the start, a of text, 2 * n of calls and their
\* results, d of the text that stands for an empty turn, the end.
ReplyAt(f, a, n, d) ==
    /\ Len(f) = 1 + a + 2 * n + d + 1
    /\ f[1] = "turn_start"
    /\ \A i \in 1..a : f[1 + i] = "text"
    /\ \A i \in 1..(2 * n) : f[1 + a + i] = IF i % 2 = 1 THEN "call" ELSE "result"
    /\ d = 1 => f[2 + a + 2 * n] = "text"
    /\ f[2 + a + 2 * n + d] = "turn_end"

ReplyIs(f, a, d, text, chunks, n) ==
    /\ f = <<"turn_start">> \o TurnReply(text, chunks, n)
    /\ ReplyAt(f, a, n, d)
    /\ text => a > 0
    /\ d = 1 <=> ~text /\ n = 0
    /\ ~text => a = 0

\* TurnReply lays the frames out like that.
LEMMA ReplyLaidOut ==
    ASSUME NEW text \in BOOLEAN, NEW chunks \in Nat, chunks > 0, NEW n \in Nat
    PROVE  \E f \in Seq(FrameNames), a \in Nat, d \in {0, 1} : ReplyIs(f, a, d, text, chunks, n)
<1>1. PICK A \in Seq(FrameNames), a \in Nat :
         /\ A = (IF text THEN [i \in 1..chunks |-> "text"] ELSE <<>>)
         /\ a = Len(A) /\ (text => a > 0) /\ (~text => a = 0)
         /\ \A i \in 1..a : A[i] = "text"
  <2>1. CASE text
    <3>1. PICK x : x = [i \in 1..chunks |-> "text"]
      OBVIOUS
    <3>2. x \in Seq(FrameNames) /\ Len(x) = chunks /\ \A i \in 1..chunks : x[i] = "text"
      BY <3>1 DEF FrameNames
    <3> QED
      BY <2>1, <3>1, <3>2
  <2>2. CASE ~text
    <3>1. PICK x \in Seq(FrameNames) : x = <<>>
      BY Constants
    <3>2. Len(x) = 0 /\ \A i \in 1..0 : x[i] = "text"
      BY <3>1
    <3> QED
      BY <2>2, <3>1, <3>2
  <2> QED
    BY <2>1, <2>2
<1>2. PICK b \in Nat : b = 2 * n
  OBVIOUS
<1>3. PICK B \in Seq(FrameNames) :
         /\ B = [i \in 1..(2 * n) |-> IF i % 2 = 1 THEN "call" ELSE "result"]
         /\ Len(B) = b /\ \A i \in 1..b : B[i] = IF i % 2 = 1 THEN "call" ELSE "result"
  <2>1. PICK x : x = [i \in 1..b |-> IF i % 2 = 1 THEN "call" ELSE "result"]
    OBVIOUS
  <2>2. x \in Seq(FrameNames) /\ Len(x) = b
        /\ \A i \in 1..b : x[i] = IF i % 2 = 1 THEN "call" ELSE "result"
    BY <2>1 DEF FrameNames
  <2> QED
    BY <1>2, <2>1, <2>2
<1>4. PICK D \in Seq(FrameNames), d \in {0, 1} :
         /\ D = (IF ~text /\ n = 0 THEN <<"text">> ELSE <<>>)
         /\ Len(D) = d /\ (d = 1 <=> ~text /\ n = 0) /\ (d = 1 => D[1] = "text")
  <2>1. CASE ~text /\ n = 0
    <3>1. PICK x : x = <<"text">>
      OBVIOUS
    <3>2. x \in Seq(FrameNames) /\ Len(x) = 1 /\ x[1] = "text"
      BY <3>1 DEF FrameNames
    <3> QED
      BY <2>1, <3>1, <3>2
  <2>2. CASE ~(~text /\ n = 0)
    <3>1. PICK x \in Seq(FrameNames) : x = <<>>
      BY Constants
    <3>2. Len(x) = 0
      BY <3>1
    <3>3. x = (IF ~text /\ n = 0 THEN <<"text">> ELSE <<>>)
      BY <2>2, <3>1
    <3>4. PICK e \in {0, 1} : e = 0
      OBVIOUS
    <3>5. Len(x) = e /\ (e = 1 <=> ~text /\ n = 0) /\ (e = 1 => x[1] = "text")
      BY <2>2, <3>2, <3>4
    <3> QED
      BY <3>3, <3>5
  <2> QED
    BY <2>1, <2>2
<1>5. PICK E \in Seq(FrameNames) : E = <<"turn_end">> /\ Len(E) = 1 /\ E[1] = "turn_end"
  <2>1. PICK x : x = <<"turn_end">>
    OBVIOUS
  <2>2. x \in Seq(FrameNames) /\ Len(x) = 1 /\ x[1] = "turn_end"
    BY <2>1 DEF FrameNames
  <2> QED
    BY <2>1, <2>2
<1>6. PICK T \in Seq(FrameNames) : T = <<"turn_start">> /\ Len(T) = 1 /\ T[1] = "turn_start"
  <2>1. PICK x : x = <<"turn_start">>
    OBVIOUS
  <2>2. x \in Seq(FrameNames) /\ Len(x) = 1 /\ x[1] = "turn_start"
    BY <2>1 DEF FrameNames
  <2> QED
    BY <2>1, <2>2
<1>7. TurnReply(text, chunks, n) = A \o B \o D \o E
  BY <1>1, <1>3, <1>4, <1>5 DEF TurnReply
<1>8. PICK X \in Seq(FrameNames) : X = A \o B /\ Join(X, A, B, a, b)
  <2>1. Len(A) = a /\ Len(B) = b
    BY <1>1, <1>3
  <2> QED
    BY <2>1, Joined
<1>9. PICK Y \in Seq(FrameNames) : Y = X \o D /\ Join(Y, X, D, a + b, d)
  <2>1. PICK x \in Nat, e \in Nat : x = a + b /\ e = d
    OBVIOUS
  <2>2. Len(X) = x /\ Len(D) = e
    BY <1>4, <1>8, <2>1 DEF Join
  <2>3. PICK h \in Seq(FrameNames) : h = X \o D /\ Join(h, X, D, x, e)
    BY <2>2, Joined
  <2> QED
    BY <2>1, <2>3
<1>10. PICK Z \in Seq(FrameNames) : Z = Y \o E /\ Join(Z, Y, E, a + b + d, 1)
  <2>1. PICK x \in Nat, e \in Nat : x = a + b + d /\ e = 1
    OBVIOUS
  <2>2. Len(Y) = x /\ Len(E) = e
    BY <1>5, <1>9, <2>1 DEF Join
  <2>3. PICK h \in Seq(FrameNames) : h = Y \o E /\ Join(h, Y, E, x, e)
    BY <2>2, Joined
  <2> QED
    BY <2>1, <2>3
<1>11. PICK f \in Seq(FrameNames) : f = T \o Z /\ Join(f, T, Z, 1, a + b + d + 1)
  <2>1. PICK x \in Nat, e \in Nat : x = 1 /\ e = a + b + d + 1
    OBVIOUS
  <2>2. Len(T) = x /\ Len(Z) = e
    BY <1>6, <1>10, <2>1 DEF Join
  <2>3. PICK h \in Seq(FrameNames) : h = T \o Z /\ Join(h, T, Z, x, e)
    BY <2>2, Joined
  <2> QED
    BY <2>1, <2>3
<1>j. /\ \A i \in 1..a : X[i] = A[i]
      /\ \A i \in 1..b : X[a + i] = B[i]
      /\ \A i \in 1..(a + b) : Y[i] = X[i]
      /\ \A i \in 1..d : Y[a + b + i] = D[i]
      /\ \A i \in 1..(a + b + d) : Z[i] = Y[i]
      /\ \A i \in 1..1 : Z[a + b + d + i] = E[i]
      /\ \A i \in 1..1 : f[i] = T[i]
      /\ \A i \in 1..(a + b + d + 1) : f[1 + i] = Z[i]
      /\ Len(f) = 1 + (a + b + d + 1)
  BY <1>8, <1>9, <1>10, <1>11 DEF Join
<1>s. f[1] = "turn_start" /\ Z[a + b + d + 1] = "turn_end"
  BY <1>5, <1>6, <1>j
<1>12. f = <<"turn_start">> \o TurnReply(text, chunks, n)
  BY <1>6, <1>7, <1>8, <1>9, <1>10, <1>11
<1>13. \A i \in 1..a : f[1 + i] = "text"
  <2>1. ASSUME NEW i \in 1..a PROVE f[1 + i] = "text"
    <3>1. i \in 1..(a + b) /\ i \in 1..(a + b + d) /\ i \in 1..(a + b + d + 1)
      OBVIOUS
    <3>2. f[1 + i] = Z[i] /\ Z[i] = Y[i] /\ Y[i] = X[i] /\ X[i] = A[i] /\ A[i] = "text"
      <4>1. f[1 + i] = Z[i]
        BY <1>j, <3>1
      <4>2. Z[i] = Y[i]
        BY <1>j, <3>1
      <4>3. Y[i] = X[i]
        BY <1>j, <3>1
      <4>4. X[i] = A[i] /\ A[i] = "text"
        BY <1>1, <1>j
      <4> QED
        BY <4>1, <4>2, <4>3, <4>4
    <3> QED
      BY <3>2
  <2> QED
    BY <2>1
<1>14. \A i \in 1..b : f[1 + a + i] = IF i % 2 = 1 THEN "call" ELSE "result"
  <2>1. ASSUME NEW i \in 1..b PROVE f[1 + a + i] = IF i % 2 = 1 THEN "call" ELSE "result"
    <3>1. PICK j \in Nat : j = a + i
      OBVIOUS
    <3>2. j \in 1..(a + b) /\ j \in 1..(a + b + d) /\ j \in 1..(a + b + d + 1)
      BY <3>1
    <3>3. f[1 + j] = Z[j] /\ Z[j] = Y[j] /\ Y[j] = X[j] /\ X[j] = B[i]
      BY <1>j, <3>1, <3>2
    <3>4. 1 + a + i = 1 + j
      BY <3>1
    <3> QED
      BY <1>3, <3>3, <3>4
  <2> QED
    BY <2>1
<1>15. d = 1 => f[2 + a + b] = "text"
  <2>1. SUFFICES ASSUME d = 1 PROVE f[2 + a + b] = "text"
    OBVIOUS
  <2>2. PICK j \in Nat : j = a + b + 1
    OBVIOUS
  <2>3. j \in 1..(a + b + d) /\ j \in 1..(a + b + d + 1)
    BY <2>1, <2>2
  <2>4. f[1 + j] = Z[j] /\ Z[j] = Y[j]
    BY <1>j, <2>3
  <2>5. Y[j] = D[1]
    BY <1>j, <2>1, <2>2
  <2>6. 2 + a + b = 1 + j
    BY <2>2
  <2> QED
    BY <1>4, <2>1, <2>4, <2>5, <2>6
<1>16. f[2 + a + b + d] = "turn_end"
  <2>1. PICK j \in Nat : j = a + b + d + 1
    OBVIOUS
  <2>2. f[1 + j] = Z[j] /\ Z[j] = "turn_end" /\ 2 + a + b + d = 1 + j
    <3>1. j \in 1..(a + b + d + 1) /\ 2 + a + b + d = 1 + j
      BY <2>1
    <3>2. f[1 + j] = Z[j]
      BY <1>j, <3>1
    <3> QED
      BY <1>s, <2>1, <3>1, <3>2
  <2> QED
    BY <2>2
<1>17. Len(f) = 1 + a + 2 * n + d + 1
  BY <1>2, <1>4, <1>j
<1>18. ReplyAt(f, a, n, d)
  BY <1>2, <1>s, <1>13, <1>14, <1>15, <1>16, <1>17 DEF ReplyAt
<1> QED
  BY <1>1, <1>4, <1>12, <1>18 DEF ReplyIs

\* The order of the frames of a finished turn.
LEMMA ReplyOrdered ==
    ASSUME NEW f \in Seq(FrameNames), NEW a \in Nat, NEW n \in Nat, NEW d \in {0, 1},
           ReplyAt(f, a, n, d), a = 0 \/ d = 0, d = 1 <=> a = 0 /\ n = 0
    PROVE  Ordered(f) /\ Complete(f) /\ \A i \in 1..n : f[a + 2 * i] = "call"
<1>1. PICK b \in Nat : b = 2 * n
  OBVIOUS
<1>2. PICK m \in Nat : m = 2 + a + b + d
  OBVIOUS
<1>3. /\ Len(f) = m /\ DOMAIN f = 1..m
      /\ f[1] = "turn_start"
      /\ \A i \in 1..a : f[1 + i] = "text"
      /\ \A i \in 1..b : f[1 + a + i] = IF i % 2 = 1 THEN "call" ELSE "result"
      /\ d = 1 => f[2] = "text"
      /\ f[m] = "turn_end"
  BY <1>1, <1>2 DEF ReplyAt
<1>4. \A i \in 2..(1 + a) : f[i] = "text"
  <2>1. ASSUME NEW i \in 2..(1 + a) PROVE f[i] = "text"
    <3>1. PICK j \in 1..a : i = 1 + j
      <4>1. i - 1 \in 1..a /\ i = 1 + (i - 1)
        OBVIOUS
      <4> QED
        BY <4>1
    <3> QED
      BY <1>3, <3>1
  <2> QED
    BY <2>1
<1>5. /\ \A j \in 1..b : j % 2 = 1 => f[1 + a + j] = "call"
      /\ \A j \in 1..b : j % 2 # 1 => f[1 + a + j] = "result"
  BY <1>3
<1>6. ASSUME NEW i \in 1..m
      PROVE  /\ f[i] = "turn_start" <=> i = 1
             /\ f[i] = "result" => f[i - 1] = "call"
             /\ f[i] = "text" => f[i - 1] \in {"turn_start", "text"}
             /\ f[i] = "error" => i = 2
             /\ f[i] = "call" => f[i - 1] \in {"turn_start", "text", "result"}
             /\ f[i] = "turn_end" => i = m /\ f[i - 1] \in {"text", "result", "error"}
  <2>1. CASE i = 1
    BY <1>2, <1>3, <2>1
  <2>2. CASE i \in 2..(1 + a)
    <3>1. f[i] = "text" /\ i # 1
      BY <1>4, <2>2
    <3>2. f[i - 1] \in {"turn_start", "text"}
      <4>1. CASE i = 2
        BY <1>3, <4>1
      <4>2. CASE i # 2
        <5>1. i - 1 \in 2..(1 + a)
          BY <2>2, <4>2
        <5> QED
          BY <1>4, <5>1
      <4> QED
        BY <4>1, <4>2
    <3> QED
      BY <3>1, <3>2
  <2>3. CASE i \in (2 + a)..(1 + a + b)
    <3>1. PICK j \in 1..b : i = 1 + a + j
      <4>1. i - 1 - a \in 1..b /\ i = 1 + a + (i - 1 - a)
        BY <2>3
      <4> QED
        BY <4>1
    <3>2. j = 1 => f[i - 1] \in {"turn_start", "text"}
      <4>1. CASE a = 0
        BY <1>3, <3>1, <4>1
      <4>2. CASE a # 0
        <5>1. 1 + a \in 2..(1 + a)
          BY <4>2
        <5>2. j = 1 => i - 1 = 1 + a
          BY <3>1
        <5> QED
          BY <1>4, <5>1, <5>2
      <4> QED
        BY <4>1, <4>2
    <3>3. j # 1 => \E k \in 1..b : k = j - 1 /\ f[i - 1] = f[1 + a + k]
      <4>1. SUFFICES ASSUME j # 1 PROVE \E k \in 1..b : k = j - 1 /\ f[i - 1] = f[1 + a + k]
        OBVIOUS
      <4>2. PICK k \in 1..b : k = j - 1
        <5>1. j - 1 \in 1..b
          BY <4>1
        <5> QED
          BY <5>1
      <4>3. i - 1 = 1 + a + k
        BY <3>1, <4>2
      <4> QED
        BY <4>2, <4>3
    <3>4. CASE j % 2 = 1
      <4>1. f[i] = "call"
        BY <1>5, <3>1, <3>4
      <4>2. j # 1 => f[i - 1] = "result"
        <5>1. SUFFICES ASSUME j # 1 PROVE f[i - 1] = "result"
          OBVIOUS
        <5>2. PICK k \in 1..b : k = j - 1 /\ f[i - 1] = f[1 + a + k]
          BY <3>3, <5>1
        <5>3. k % 2 # 1
          BY <3>4, <5>2
        <5> QED
          BY <1>5, <5>2, <5>3
      <4> QED
        BY <2>3, <3>2, <4>1, <4>2
    <3>5. CASE j % 2 # 1
      <4>1. f[i] = "result"
        BY <1>5, <3>1, <3>5
      <4>2. j # 1
        BY <3>5
      <4>3. PICK k \in 1..b : k = j - 1 /\ f[i - 1] = f[1 + a + k]
        BY <3>3, <4>2
      <4>4. k % 2 = 1
        BY <3>5, <4>3
      <4>5. f[i - 1] = "call"
        BY <1>5, <4>3, <4>4
      <4> QED
        BY <2>3, <4>1, <4>5
    <3> QED
      BY <3>4, <3>5
  <2>4. CASE d = 1 /\ i = 2
    <3>1. f[i] = "text" /\ f[i - 1] = "turn_start"
      BY <1>3, <2>4
    <3> QED
      BY <2>4, <3>1
  <2>5. CASE i = m
    <3>1. f[i] = "turn_end" /\ i # 1
      BY <1>2, <1>3, <2>5
    <3>2. f[i - 1] \in {"text", "result"}
      <4>1. CASE d = 1
        <5>1. i = 3
          BY <1>1, <1>2, <2>5, <4>1
        <5> QED
          BY <1>3, <4>1, <5>1
      <4>2. CASE d = 0 /\ n # 0
        <5>1. b \in 1..b /\ b % 2 # 1 /\ i - 1 = 1 + a + b
          BY <1>1, <1>2, <2>5, <4>2
        <5>2. f[1 + a + b] = "result"
          BY <1>5, <5>1
        <5> QED
          BY <5>1, <5>2
      <4>3. CASE d = 0 /\ n = 0
        <5>1. a # 0
          BY <4>3
        <5>2. 1 + a \in 2..(1 + a) /\ i - 1 = 1 + a
          BY <1>1, <1>2, <2>5, <4>3, <5>1
        <5> QED
          BY <1>4, <5>2
      <4> QED
        BY <4>1, <4>2, <4>3
    <3> QED
      BY <2>5, <3>1, <3>2
  <2>6. \/ i = 1 \/ i \in 2..(1 + a) \/ i \in (2 + a)..(1 + a + b) \/ (d = 1 /\ i = 2) \/ i = m
    BY <1>1, <1>2
  <2> QED
    BY <2>1, <2>2, <2>3, <2>4, <2>5, <2>6
<1>7. Ordered(f)
  BY <1>3, <1>6 DEF Ordered
<1>8. Complete(f)
  BY <1>2, <1>3 DEF Complete
<1>9. \A i \in 1..n : f[a + 2 * i] = "call"
  <2>1. ASSUME NEW i \in 1..n PROVE f[a + 2 * i] = "call"
    <3>1. PICK j \in 1..b : j = 2 * i - 1
      <4>1. 2 * i - 1 \in 1..b
        BY <1>1
      <4> QED
        BY <4>1
    <3>2. j % 2 = 1 /\ 1 + a + j = a + 2 * i
      BY <3>1
    <3> QED
      BY <1>5, <3>2
  <2> QED
    BY <2>1
<1> QED
  BY <1>7, <1>8, <1>9

\* The calls of a finished turn are the calls its frames show.
LEMMA ReplyCalls ==
    ASSUME NEW f \in Seq(FrameNames), NEW a \in Nat, NEW n \in Nat, NEW d \in {0, 1},
           ReplyAt(f, a, n, d), a = 0 \/ d = 0, d = 1 <=> a = 0 /\ n = 0
    PROVE  Count(f, "call") = n
<1>1. PICK b \in Nat : b = 2 * n
  OBVIOUS
<1>2. PICK T : T = {i \in DOMAIN f : f[i] = "call"}
  OBVIOUS
<1>3. PICK m \in Nat : m = 2 + a + b + d
  OBVIOUS
<1>4. /\ DOMAIN f = 1..m
      /\ f[1] = "turn_start"
      /\ \A i \in 1..a : f[1 + i] = "text"
      /\ \A i \in 1..b : f[1 + a + i] = IF i % 2 = 1 THEN "call" ELSE "result"
      /\ d = 1 => f[2] = "text"
      /\ f[m] = "turn_end"
  BY <1>1, <1>3 DEF ReplyAt
<1>5. PICK g : g = [k \in 1..n |-> a + 2 * k]
  OBVIOUS
<1>6. g \in [1..n -> T]
  <2>1. ASSUME NEW k \in 1..n PROVE g[k] \in T
    <3>1. f[a + 2 * k] = "call" /\ g[k] = a + 2 * k
      BY <1>5, ReplyOrdered
    <3>2. a + 2 * k \in 1..m
      BY <1>1, <1>3
    <3> QED
      BY <1>2, <1>4, <3>1, <3>2
  <2>2. DOMAIN g = 1..n /\ g = [k \in 1..n |-> g[k]]
    BY <1>5
  <2> QED
    BY <2>1, <2>2
<1>7. \A k, l \in 1..n : g[k] = g[l] => k = l
  BY <1>5
<1>8. \A i \in T : \E k \in 1..n : g[k] = i
  <2>1. SUFFICES ASSUME NEW i \in 1..m, f[i] = "call" PROVE \E k \in 1..n : g[k] = i
    BY <1>2, <1>4
  <2>2. i # 1 /\ i # m
    BY <1>4, <2>1
  <2>3. ~(i \in 2..(1 + a))
    <3>1. SUFFICES ASSUME i \in 2..(1 + a) PROVE FALSE
      OBVIOUS
    <3>2. i - 1 \in 1..a /\ i = 1 + (i - 1)
      BY <3>1
    <3>3. f[i] = "text"
      BY <1>4, <3>2
    <3> QED
      BY <2>1, <3>3
  <2>4. ~(d = 1 /\ i = 2)
    BY <1>4, <2>1
  <2>5. PICK j \in 1..b : i = 1 + a + j
    <3>1. i \in (2 + a)..(1 + a + b)
      BY <1>1, <1>3, <2>2, <2>3, <2>4
    <3>2. i - 1 - a \in 1..b /\ i = 1 + a + (i - 1 - a)
      BY <3>1
    <3> QED
      BY <3>2
  <2>6. j % 2 = 1
    <3>1. f[i] = IF j % 2 = 1 THEN "call" ELSE "result"
      BY <1>4, <2>5
    <3> QED
      BY <2>1, <3>1
  <2>7. PICK k \in 1..n : j = 2 * k - 1
    <3>1. (j + 1) \div 2 \in 1..n /\ j = 2 * ((j + 1) \div 2) - 1
      BY <1>1, <2>6
    <3> QED
      BY <3>1
  <2>8. g[k] = i
    BY <1>5, <2>5, <2>7
  <2> QED
    BY <2>8
<1>9. g \in Bijection(1..n, T)
  <2>1. IsInjective(g)
    <3>1. DOMAIN g = 1..n
      BY <1>5
    <3> QED
      BY <1>7, <3>1 DEF IsInjective
  <2>2. g \in Injection(1..n, T)
    BY <1>6, <2>1 DEF Injection
  <2>3. g \in Surjection(1..n, T)
    BY <1>6, <1>8 DEF Surjection
  <2> QED
    BY <2>2, <2>3 DEF Bijection
<1>10. Cardinality(T) = n
  <2>1. ExistsBijection(1..n, T)
    BY <1>9 DEF ExistsBijection
  <2> QED
    BY <2>1, FS_CountingElements
<1> QED
  BY <1>2, <1>10 DEF Count

\* A finished turn's frames are whole.
LEMMA ReplyWhole ==
    ASSUME NEW f \in Seq(FrameNames), NEW a \in Nat, NEW n \in Nat, NEW d \in {0, 1},
           ReplyAt(f, a, n, d), a = 0 \/ d = 0, d = 1 <=> a = 0 /\ n = 0,
           NEW said, n = Calls(said), Count(said, "bad") > 0 => a > 0
    PROVE  Whole(f, said)
<1>1. Ordered(f) /\ Complete(f)
  BY ReplyOrdered
<1>2. Count(f, "call") = Calls(said)
  BY ReplyCalls
<1>3. Count(said, "bad") > 0 => Count(f, "text") > 0
  <2>1. SUFFICES ASSUME a > 0 PROVE Count(f, "text") > 0
    OBVIOUS
  <2>2. f[2] = "text" /\ 2 \in DOMAIN f
    <3>1. \A i \in 1..a : f[1 + i] = "text"
      BY DEF ReplyAt
    <3>2. 1 \in 1..a
      BY <2>1
    <3>3. f[1 + 1] = "text"
      BY <3>1, <3>2
    <3>4. PICK b \in Nat : b = 2 * n
      OBVIOUS
    <3>5. PICK m \in Nat : m = 2 + a + b + d
      OBVIOUS
    <3>6. Len(f) = m
      BY <3>4, <3>5 DEF ReplyAt
    <3>7. DOMAIN f = 1..m /\ m >= 2
      BY <3>5, <3>6
    <3> QED
      BY <3>3, <3>7
  <2>3. Count(f, "text") \in Nat /\ Count(f, "text") # 0
    <3>1. ~\A i \in DOMAIN f : f[i] # "text"
      BY <2>2
    <3> QED
      BY <3>1, CountType
  <2> QED
    BY <2>3
<1> QED
  BY <1>1, <1>2, <1>3 DEF Whole

-----------------------------------------------------------------------------
(* The frames, action by action.                                           *)

\* Only one connection's frames change.
LEMMA OneFrame ==
    ASSUME FrameInv, NEW c \in Conns, OneConn(c), kind' = kind, FrameOk(conns[c])'
    PROVE  FrameInv'
  BY DEF OneConn, FrameInv, FrameOk

\* Sending a frame moves it from what is to be sent to what was.
LEMMA SentOne ==
    ASSUME NEW old \in Seq(FrameNames), NEW todo \in Seq(FrameNames), todo # <<>>
    PROVE  /\ Append(old, Head(todo)) \in Seq(FrameNames) /\ Tail(todo) \in Seq(FrameNames)
           /\ Append(old, Head(todo)) # <<>>
           /\ Len(todo) = 1 => Append(old, Head(todo)) = old \o todo
           /\ Len(todo) # 1 =>
                 Tail(todo) # <<>> /\ Append(old, Head(todo)) \o Tail(todo) = old \o todo
<1>1. PICK n \in Nat, m \in Nat : n = Len(old) /\ m = Len(todo) /\ m > 0
  OBVIOUS
<1>2. PICK x \in FrameNames : x = Head(todo) /\ x = todo[1]
  OBVIOUS
<1>3. PICK new \in Seq(FrameNames) :
         /\ new = Append(old, x) /\ Len(new) = n + 1 /\ new[n + 1] = x
         /\ \A i \in 1..n : new[i] = old[i]
  <2>1. Append(old, x) \in Seq(FrameNames)
    BY <1>2
  <2>2. PICK new \in Seq(FrameNames) : new = Append(old, x)
    BY <2>1
  <2>3. Len(new) = n + 1
    BY <1>1, <1>2, <2>2
  <2>4. new[n + 1] = x
    BY <1>1, <1>2, <2>2
  <2>5. \A i \in 1..n : new[i] = old[i]
    BY <1>1, <1>2, <2>2
  <2> QED
    BY <2>2, <2>3, <2>4, <2>5
<1>4. PICK rest \in Seq(FrameNames) :
         /\ rest = Tail(todo) /\ Len(rest) = m - 1
         /\ \A i \in 1..(m - 1) : rest[i] = todo[i + 1]
  <2>1. Tail(todo) \in Seq(FrameNames)
    OBVIOUS
  <2>2. PICK rest \in Seq(FrameNames) : rest = Tail(todo)
    BY <2>1
  <2>3. Len(rest) = m - 1
    BY <1>1, <2>2
  <2>4. \A i \in 1..(m - 1) : rest[i] = todo[i + 1]
    BY <1>1, <2>2, <2>3
  <2> QED
    BY <2>2, <2>3, <2>4
<1>5. PICK all \in Seq(FrameNames) : all = old \o todo /\ Join(all, old, todo, n, m)
  BY <1>1, Joined
<1>6. /\ Len(all) = n + m /\ \A i \in 1..n : all[i] = old[i]
      /\ \A i \in 1..m : all[n + i] = todo[i]
  BY <1>5 DEF Join
<1>7. new # <<>>
  <2>1. Len(new) > 0
    BY <1>3
  <2> QED
    BY <2>1
<1>8. m = 1 => new = all
  <2>1. SUFFICES ASSUME m = 1 PROVE new = all
    OBVIOUS
  <2>2. Len(new) = Len(all)
    BY <1>3, <1>6, <2>1
  <2>3. \A i \in 1..(n + 1) : new[i] = all[i]
    <3>1. all[n + 1] = todo[1]
      BY <1>6, <2>1
    <3>2. \A i \in 1..n : new[i] = all[i]
      BY <1>3, <1>6
    <3>3. new[n + 1] = all[n + 1]
      BY <1>2, <1>3, <3>1
    <3> QED
      BY <3>2, <3>3
  <2> QED
    BY <1>3, <2>2, <2>3
<1>9. m # 1 => rest # <<>> /\ new \o rest = all
  <2>1. SUFFICES ASSUME m # 1 PROVE rest # <<>> /\ new \o rest = all
    OBVIOUS
  <2>2. PICK k \in Nat, l \in Nat : k = n + 1 /\ l = m - 1 /\ l > 0
    <3>1. n + 1 \in Nat /\ m - 1 \in Nat /\ m - 1 > 0
      BY <1>1, <2>1
    <3> QED
      BY <3>1
  <2>3. Len(new) = k /\ Len(rest) = l
    BY <1>3, <1>4, <2>2
  <2>4. PICK h \in Seq(FrameNames) : h = new \o rest /\ Join(h, new, rest, k, l)
    BY <2>3, Joined
  <2>5. /\ Len(h) = k + l /\ \A i \in 1..k : h[i] = new[i]
        /\ \A i \in 1..l : h[k + i] = rest[i]
    BY <2>4 DEF Join
  <2>6. Len(h) = n + m
    BY <2>2, <2>5
  <2>7. \A i \in 1..(n + m) : h[i] = all[i]
    <3>1. ASSUME NEW i \in 1..(n + m) PROVE h[i] = all[i]
      <4>1. CASE i \in 1..n
        <5>1. i \in 1..k
          BY <2>2, <4>1
        <5> QED
          BY <1>3, <1>6, <2>5, <4>1, <5>1
      <4>2. CASE i = n + 1
        <5>0. i \in 1..k
          BY <2>2, <4>2
        <5>1. h[i] = new[i]
          BY <2>5, <5>0
        <5>2. all[i] = todo[1]
          BY <1>1, <1>6, <4>2
        <5> QED
          BY <1>2, <1>3, <4>2, <5>1, <5>2
      <4>3. CASE i > n + 1
        <5>1. PICK j \in 1..l : i = k + j
          <6>1. i - k \in 1..l /\ i = k + (i - k)
            BY <2>2, <4>3
          <6> QED
            BY <6>1
        <5>2. h[i] = rest[j]
          BY <2>5, <5>1
        <5>3. j \in 1..(m - 1) /\ j + 1 \in 1..m /\ i = n + (j + 1)
          BY <2>2, <5>1
        <5>4. rest[j] = todo[j + 1]
          BY <1>4, <5>3
        <5>5. all[i] = todo[j + 1]
          BY <1>6, <5>3
        <5> QED
          BY <5>2, <5>4, <5>5
      <4> QED
        BY <4>1, <4>2, <4>3
    <3> QED
      BY <3>1
  <2>8. h = all
    BY <1>6, <2>6, <2>7
  <2>9. rest # <<>>
    BY <2>2, <2>3
  <2> QED
    BY <2>4, <2>8, <2>9
<1> QED
  BY <1>1, <1>2, <1>3, <1>4, <1>5, <1>7, <1>8, <1>9

\* The steps of the connections themselves.
LEMMA FramesConn ==
    ASSUME UiInv, NEW c \in Conns,
           \/ CreateSession(c) \/ Stream(c) \/ Malformed(c) \/ UserPrompt(c) \/ Hangup(c)
           \/ Send(c) \/ SendFails(c) \/ Closed(c)
    PROVE  FrameInv'
<1>t. Types /\ FrameInv /\ FrameOk(conns[c])
  BY DEF UiInv, Base, FrameInv
<1>1. CASE CreateSession(c)
  BY <1>t, <1>1 DEF CreateSession, FrameInv, FrameOk
<1>2. CASE Stream(c)
  <2>1. OneConn(c) /\ kind' = kind /\ conns'[c].at = "open" /\ conns'[c].frames = <<>>
    BY <1>t, <1>2, StreamEffect DEF Server
  <2>2. FrameOk(conns[c])'
    BY <2>1 DEF FrameOk, Streaming, Busy
  <2> QED
    BY <1>t, <2>1, <2>2, OneFrame
<1>3. CASE Malformed(c)
  <2>1. OneConn(c) /\ kind' = kind /\ conns'[c].at = "open" /\ conns'[c].frames = <<"error">>
    BY <1>t, <1>3, MalformedEffect DEF Server
  <2>2. FrameOk(conns[c])'
    BY <2>1 DEF FrameOk, Streaming, Busy
  <2> QED
    BY <1>t, <2>1, <2>2, OneFrame
<1>4. CASE UserPrompt(c)
  <2>1. /\ OneConn(c) /\ kind' = kind /\ conns'[c].at = "lock"
        /\ conns'[c].frames = <<"turn_start">> /\ conns'[c].said = <<>>
    BY <1>t, <1>4, PromptEffect DEF Server
  <2>2. FrameOk(conns[c])'
    BY <2>1 DEF FrameOk, Streaming, Busy
  <2> QED
    BY <1>t, <2>1, <2>2, OneFrame
<1>5. CASE Hangup(c)
  <2>1. /\ OneConn(c) /\ kind' = kind /\ conns'[c].at = conns[c].at /\ conns'[c].gone
        /\ conns'[c].frames = conns[c].frames /\ conns'[c].said = conns[c].said
        /\ conns'[c].todo = conns[c].todo /\ conns'[c].session = conns[c].session
    BY <1>t, <1>5, HangupEffect DEF Server, SameTurn, SameSaid, SameFrames
  <2>2. FrameOk(conns[c])'
    BY <1>t, <2>1 DEF FrameOk
  <2> QED
    BY <1>t, <2>1, <2>2, OneFrame
<1>6. CASE Send(c)
  <2>1. PICK old \in Seq(FrameNames), todo \in Seq(FrameNames), said \in Seq(Pieces) :
           old = conns[c].frames /\ todo = conns[c].todo /\ said = conns[c].said
    BY <1>t DEF Types, ConnRecords
  <2>2. conns[c].at = "reply"
    BY <1>6 DEF Send
  <2>3. todo # <<>> /\ Whole(old \o todo, said)
    BY <1>t, <2>1, <2>2 DEF FrameOk
  <2>4. /\ OneConn(c) /\ kind' = kind
        /\ conns'[c].at = (IF Len(todo) = 1 THEN "open" ELSE "reply")
        /\ conns'[c].frames = Append(old, Head(todo))
        /\ conns'[c].todo = Tail(todo) /\ conns'[c].said = said
    BY <1>t, <1>6, <2>1, <2>3, SendEffect DEF Server, SameSaid
  <2>5. CASE Len(todo) = 1
    <3>1. Append(old, Head(todo)) = old \o todo
      BY <2>3, <2>5, SentOne
    <3>2. conns'[c].at = "open" /\ Whole(conns'[c].frames, conns'[c].said)
      BY <2>3, <2>4, <2>5, <3>1
    <3>3. FrameOk(conns[c])'
      BY <3>2 DEF FrameOk, Streaming, Busy
    <3> QED
      BY <1>t, <2>4, <3>3, OneFrame
  <2>6. CASE Len(todo) # 1
    <3>1. /\ Append(old, Head(todo)) # <<>> /\ Tail(todo) # <<>>
          /\ Append(old, Head(todo)) \o Tail(todo) = old \o todo
      BY <2>3, <2>6, SentOne
    <3>2. /\ conns'[c].at = "reply" /\ conns'[c].todo # <<>> /\ conns'[c].frames # <<>>
          /\ Whole(conns'[c].frames \o conns'[c].todo, conns'[c].said)
      BY <2>3, <2>4, <2>6, <3>1
    <3>3. FrameOk(conns[c])'
      BY <3>2 DEF FrameOk, Streaming, Busy
    <3> QED
      BY <1>t, <2>4, <3>3, OneFrame
  <2> QED
    BY <2>5, <2>6
<1>7. CASE SendFails(c)
  <2>1. /\ OneConn(c) /\ kind' = kind /\ conns[c].at = "reply" /\ conns'[c].at = "open"
        /\ conns[c].gone /\ conns'[c].gone = conns[c].gone
        /\ conns'[c].frames = conns[c].frames
    BY <1>t, <1>7, SendFailsEffect DEF Server, SameFlags, SameFrames
  <2>2. PICK old \in Seq(FrameNames), todo \in Seq(FrameNames) :
           old = conns[c].frames /\ todo = conns[c].todo
    BY <1>t DEF Types, ConnRecords
  <2>3. todo # <<>> /\ old # <<>> /\ Ordered(old \o todo)
    BY <1>t, <2>1, <2>2 DEF FrameOk, Whole
  <2>4. Part(old)
    BY <2>3, SentPart
  <2>5. conns'[c].gone /\ Part(conns'[c].frames)
    BY <2>1, <2>2, <2>4
  <2>6. FrameOk(conns[c])'
    BY <2>1, <2>5 DEF FrameOk, Streaming, Busy
  <2> QED
    BY <1>t, <2>1, <2>6, OneFrame
<1>8. CASE Closed(c)
  <2>1. /\ OneConn(c) /\ kind' = kind /\ conns'[c].at = "closed" /\ conns'[c].session = 0
        /\ conns'[c].frames = <<>>
    BY <1>t, <1>8, ClosedEffect
  <2>2. FrameOk(conns[c])'
    BY <2>1 DEF FrameOk, Streaming, Busy
  <2> QED
    BY <1>t, <2>1, <2>2, OneFrame
<1> QED
  BY <1>1, <1>2, <1>3, <1>4, <1>5, <1>6, <1>7, <1>8

\* The frames of a turn on its way are those of its start.
LEMMA Started ==
    ASSUME Types, FrameInv, NEW c \in Conns, conns[c].at \in Streaming
    PROVE  conns[c].frames = <<"turn_start">>
  BY DEF FrameInv, FrameOk

\* A turn that goes on, one that is answered, and one that is cut off.
LEMMA GoesOn ==
    ASSUME UiInv, NEW c \in Conns, conns[c].at \in Streaming, OneConn(c), kind' = kind,
           SameFrames(c), conns'[c].at \in Busy,
           conns'[c].at = "dispatch" => Parse(kind, conns'[c].said).ok
    PROVE  FrameInv'
<1>1. FrameInv /\ conns'[c].frames = <<"turn_start">>
  BY Started DEF UiInv, Base, SameFrames
<1>2. FrameOk(conns[c])'
  BY <1>1 DEF FrameOk, Streaming, Busy
<1> QED
  BY <1>1, <1>2, OneFrame

\* A turn that is answered with whole frames keeps the frames' invariant.
LEMMA Answered ==
    ASSUME UiInv, NEW c \in Conns, conns[c].at \in Streaming, kind' = kind,
           NEW td, td # <<>>, Replied(c, td), Whole(<<"turn_start">> \o td, conns[c].said)
    PROVE  FrameInv'
<1>1. PICK start : start = <<"turn_start">>
  OBVIOUS
<1>2. start # <<>>
  BY <1>1
<1>3. FrameInv /\ conns[c].frames = start
  BY <1>1, Started DEF UiInv, Base
<1>4. /\ OneConn(c) /\ conns'[c].at = "reply" /\ conns'[c].todo = td
      /\ conns'[c].frames = start /\ conns'[c].said = conns[c].said
  BY <1>3 DEF Replied, SameFrames, SameSaid
<1>5. FrameOk(conns[c])'
  BY <1>1, <1>2, <1>4 DEF FrameOk, Streaming, Busy
<1> QED
  BY <1>3, <1>4, <1>5, OneFrame

\* A turn that has only started is a part of one.
LEMMA StartPart == Part(<<"turn_start">>)
<1>1. PICK f : f = <<"turn_start">>
  OBVIOUS
<1>2. Len(f) = 1 /\ DOMAIN f = 1..1 /\ f[1] = "turn_start" /\ f # <<>>
  BY <1>1
<1> QED
  BY <1>1, <1>2 DEF Part, Ordered

\* A sequence with a length is not empty.
LEMMA NonEmpty == ASSUME NEW f \in Seq(FrameNames), Len(f) > 0 PROVE f # <<>>
  OBVIOUS

\* A finished turn answers with whole frames.
LEMMA TurnReplyWhole ==
    ASSUME NEW said \in Seq(Pieces), Parse(kind, said).ok, NEW chunks \in Nat, chunks > 0
    PROVE  LET answer == Parse(kind, said)
               td == TurnReply(answer.text, chunks, answer.calls)
           IN  td # <<>> /\ Whole(<<"turn_start">> \o td, said)
<1>1. PICK answer \in [ok : BOOLEAN, text : BOOLEAN, calls : Nat] : answer = Parse(kind, said)
  BY ParseType
<1>2. PICK text \in BOOLEAN, n \in Nat : text = answer.text /\ n = answer.calls
  OBVIOUS
<1>3. n = Calls(said) /\ (Count(said, "bad") > 0 => text)
  BY <1>1, <1>2, ParsedIs
<1>4. PICK f \in Seq(FrameNames), a \in Nat, d \in {0, 1} :
         ReplyIs(f, a, d, text, chunks, n)
  BY <1>2, ReplyLaidOut
<1>r. /\ f = <<"turn_start">> \o TurnReply(text, chunks, n)
      /\ ReplyAt(f, a, n, d)
      /\ text => a > 0
      /\ d = 1 <=> ~text /\ n = 0
      /\ ~text => a = 0
  BY <1>4 DEF ReplyIs
<1>5. /\ a = 0 \/ d = 0
      /\ d = 1 <=> a = 0 /\ n = 0
      /\ Count(said, "bad") > 0 => a > 0
  BY <1>3, <1>4, <1>r
<1>6. Whole(f, said)
  BY <1>3, <1>4, <1>5, <1>r, ReplyWhole
<1>7. TurnReply(text, chunks, n) # <<>>
  <2>1. SUFFICES ASSUME TurnReply(text, chunks, n) = <<>> PROVE FALSE
    OBVIOUS
  <2>2. PICK e, s : e = <<>> /\ s = <<"turn_start">>
    OBVIOUS
  <2>3. Len(s \o e) = 1
    BY <2>2
  <2>4. f = s \o e
    BY <1>r, <2>1, <2>2
  <2>5. PICK b \in Nat : b = 2 * n
    OBVIOUS
  <2>6. Len(f) = 1 + a + b + d + 1
    BY <1>r, <2>5 DEF ReplyAt
  <2> QED
    BY <1>4, <2>3, <2>4, <2>6
<1> QED
  BY <1>1, <1>2, <1>r, <1>6, <1>7

\* So does a failed one.
LEMMA ErrorAnswered ==
    ASSUME UiInv, NEW c \in Conns, conns[c].at \in Streaming, kind' = kind,
           Replied(c, ErrorReply)
    PROVE  FrameInv'
<1>1. PICK td \in Seq(FrameNames) : td = ErrorReply
  BY Constants
<1>2. td # <<>>
  <2>1. Len(td) = 2
    BY <1>1 DEF ErrorReply
  <2>2. Len(td) > 0
    BY <2>1
  <2> QED
    BY <2>2, NonEmpty
<1>3. Replied(c, td)
  BY <1>1
<1>4. PICK said : said = conns[c].said
  OBVIOUS
<1>5. Whole(<<"turn_start">> \o td, said)
  BY <1>1, ErrorWhole
<1>6. Whole(<<"turn_start">> \o td, conns[c].said)
  BY <1>4, <1>5
<1> QED
  BY <1>2, <1>3, <1>6, Answered

\* The steps of a turn's thread.
LEMMA FramesWorker ==
    ASSUME UiInv, NEW c \in Conns,
           \/ Worker(c) \/ EndOfAnswer(c) \/ InferFails(c) \/ DispatchFails(c) \/ Panic(c)
    PROVE  FrameInv'
<1>t. Types /\ Base /\ FrameInv /\ FrameOk(conns[c])
  BY DEF UiInv, Base, FrameInv
<1>1. CASE Stub(c)
  <2>1. /\ Replied(c, <<"text", "turn_end">>) /\ conns[c].at = "lock" /\ kind' = kind
    BY <1>t, <1>1, StubEffect DEF Server
  <2>2. conns[c].at \in Streaming
    BY <2>1 DEF Streaming
  <2>3. conns[c].said = <<>>
    BY <1>t, <2>1 DEF FrameOk
  <2>4. PICK td : td = <<"text", "turn_end">>
    OBVIOUS
  <2>5. td # <<>>
    <3>1. Len(td) = 2
      BY <2>4
    <3> QED
      BY <3>1
  <2>6. Replied(c, td)
    BY <2>1, <2>4
  <2>7. Whole(<<"turn_start">> \o td, conns[c].said)
    BY <2>3, <2>4, StubWhole
  <2> QED
    BY <2>1, <2>2, <2>5, <2>6, <2>7, Answered
<1>2. CASE LockPoisoned(c) \/ InferFails(c) \/ DispatchFails(c)
  <2>1. /\ conns[c].at \in {"lock", "infer", "dispatch"} /\ Replied(c, ErrorReply)
        /\ kind' = kind
    BY <1>t, <1>2, ErrorEffect DEF NoTurn
  <2>2. conns[c].at \in Streaming
    BY <2>1 DEF Streaming, Busy
  <2> QED
    BY <2>1, <2>2, ErrorAnswered
<1>3. CASE Lock(c) \/ Infer(c) \/ EndOfAnswer(c)
  <2>1. /\ conns[c].at \in {"lock", "infer"} /\ conns'[c].at \in {"infer", "parse"}
        /\ OneConn(c) /\ SameFrames(c) /\ kind' = kind
    <3>1. CASE Lock(c)
      BY <1>t, <3>1, LockEffect DEF NoTurn
    <3>2. CASE Infer(c)
      BY <1>t, <3>2, InferEffect DEF NoTurn
    <3>3. CASE EndOfAnswer(c)
      BY <1>t, <3>3, EndOfAnswerEffect DEF NoTurn
    <3> QED
      BY <1>3, <3>1, <3>2, <3>3
  <2>2. conns[c].at \in Streaming /\ conns'[c].at \in Busy /\ conns'[c].at # "dispatch"
    BY <2>1 DEF Streaming, Busy
  <2> QED
    BY <2>1, <2>2, GoesOn
<1>4. CASE Reason(c)
  <2>1. conns[c].at = "parse" /\ kind' = kind
    BY <1>t, <1>4, ReasonEffect DEF NoTurn
  <2>2. conns[c].at \in Streaming
    BY <2>1 DEF Streaming, Busy
  <2>3. CASE Replied(c, ErrorReply)
    BY <2>1, <2>2, <2>3, ErrorAnswered
  <2>4. CASE /\ \E raw \in Raws : Parse(kind, raw).ok /\ conns'[c].said = raw
             /\ OneConn(c) /\ conns'[c].at = "dispatch" /\ SameFrames(c)
    <3>1. Parse(kind, conns'[c].said).ok /\ conns'[c].at \in Busy
      BY <2>4 DEF Busy
    <3> QED
      BY <2>1, <2>2, <2>4, <3>1, GoesOn
  <2> QED
    BY <1>t, <1>4, <2>3, <2>4, ReasonEffect
<1>5. CASE Dispatch(c)
  <2>1. /\ conns[c].at = "dispatch" /\ conns'[c].at = "dispatch" /\ OneConn(c)
        /\ SameFrames(c) /\ kind' = kind /\ conns'[c].said = conns[c].said
    BY <1>t, <1>5, DispatchEffect DEF NoTurn, SameSaid
  <2>2. conns[c].at \in Streaming /\ conns'[c].at \in Busy
    BY <2>1 DEF Streaming, Busy
  <2>3. Parse(kind, conns'[c].said).ok
    BY <1>t, <2>1 DEF FrameOk
  <2> QED
    BY <2>1, <2>2, <2>3, GoesOn
<1>6. CASE Outcome(c)
  <2>1. conns[c].at = "dispatch" /\ kind' = kind
    BY <1>t, <1>6, OutcomeEffect DEF NoTurn
  <2>2. conns[c].at \in Streaming
    BY <2>1 DEF Streaming, Busy
  <2>3. PICK said \in Seq(Pieces) : said = conns[c].said
    <3>1. conns[c].said \in Seq(Pieces)
      BY <1>t DEF Types, ConnRecords
    <3> QED
      BY <3>1
  <2>4. Parse(kind, said).ok
    BY <1>t, <2>1, <2>3 DEF FrameOk
  <2>5. PICK n \in 1..MaxChunks :
           Replied(c, TurnReply(Parse(kind, said).text, n, Parse(kind, said).calls))
    BY <1>t, <1>6, <2>3, OutcomeEffect
  <2>6. n \in Nat /\ n > 0
    BY <2>5, BoundsAssumption
  <2>7. PICK td : td = TurnReply(Parse(kind, said).text, n, Parse(kind, said).calls)
    OBVIOUS
  <2>8. td # <<>> /\ Whole(<<"turn_start">> \o td, said)
    BY <2>3, <2>4, <2>6, <2>7, TurnReplyWhole
  <2>9. Replied(c, td) /\ Whole(<<"turn_start">> \o td, conns[c].said)
    BY <2>3, <2>5, <2>7, <2>8
  <2> QED
    BY <2>1, <2>2, <2>8, <2>9, Answered
<1>7. CASE Panic(c)
  <2>1. /\ conns[c].at \in Busy /\ OneConn(c) /\ conns'[c].at = "open" /\ conns'[c].panicked
        /\ SameFrames(c) /\ kind' = kind
    BY <1>t, <1>7, PanicEffect DEF NoTurn
  <2>2. conns'[c].frames = <<"turn_start">>
    <3>1. conns[c].at \in Streaming
      BY <2>1 DEF Streaming
    <3> QED
      BY <1>t, <2>1, <3>1, Started DEF SameFrames
  <2>3. Part(conns'[c].frames)
    BY <2>2, StartPart
  <2>4. FrameOk(conns[c])'
    BY <2>1, <2>3 DEF FrameOk, Streaming, Busy
  <2> QED
    BY <1>t, <2>1, <2>4, OneFrame
<1> QED
  BY <1>1, <1>2, <1>3, <1>4, <1>5, <1>6, <1>7 DEF Worker

\* Every step keeps the frames' invariant.
LEMMA FramesNext == UiInv /\ Next => FrameInv'
<1>1. ASSUME UiInv, NEW f \in Forks, ForkTask(f) PROVE FrameInv'
  <2>1. conns' = conns /\ kind' = kind
    BY <1>1, ForkStill
  <2> QED
    BY <1>1, <2>1 DEF UiInv, FrameInv, FrameOk
<1>2. ASSUME UiInv, Tick PROVE FrameInv'
  BY <1>2 DEF UiInv, FrameInv, FrameOk, Tick
<1> QED
  BY <1>1, <1>2, FramesConn, FramesWorker DEF Next, Handler

-----------------------------------------------------------------------------
(* The initial states.                                                     *)

\* Every WebSocket is closed.
LEMMA InitConns ==
    ASSUME Init, NEW c \in Conns
    PROVE  /\ conns[c] = NoConn /\ conns[c] \in ConnRecords /\ conns[c].at = "closed"
           /\ conns[c].session = 0 /\ conns[c].frames = <<>>
  BY NoConnRecord DEF Init

\* Nothing is forked.
LEMMA InitForks ==
    ASSUME Init, NEW f \in Forks
    PROVE  /\ forks[f] = NoFork /\ forks[f] \in ForkRecords /\ forks[f].at = "idle"
           /\ forks[f].call = 1 /\ forks[f].abandoned = FALSE
<1>1. First \in Models
  BY ModelsAssumption
<1>2. NoFork \in ForkRecords
  BY <1>1 DEF NoFork, ForkRecords, FirstLedger, Names, Stages
<1> QED
  BY <1>2 DEF Init, NoFork

WithLoaded(b, t) == [b EXCEPT !.loaded = t]

\* A booted session whose model is loaded.
LEMMA LoadedRecord ==
    ASSUME NEW m, NEW l, NEW u, NEW t, NEW o, NEW p, NEW w, NEW b, NEW r,
           b = [model |-> m, ledger |-> l, loaded |-> u, owner |-> o, poisoned |-> p, log |-> w],
           r = [model |-> m, ledger |-> l, loaded |-> t, owner |-> o, poisoned |-> p, log |-> w]
    PROVE  WithLoaded(b, t) = r
  BY DEF WithLoaded

\* The stub has no session; the others have the one on --model.
LEMMA InitSessions ==
    ASSUME Init
    PROVE  \/ /\ kind = "stub" /\ sessions = <<>> /\ ledgers = {} /\ native = {} /\ active = 0
           \/ /\ kind \in Kinds /\ active = 1 /\ sessions \in Seq(SessionRecords)
              /\ Len(sessions) = 1 /\ DOMAIN sessions = {1}
              /\ sessions[1].model = First /\ sessions[1].ledger = FirstLedger
              /\ sessions[1].loaded /\ sessions[1].owner = {} /\ sessions[1].log = <<>>
              /\ ledgers = {FirstLedger} /\ native = {<<1, h>> : h \in Resident(kind)}
<1>1. CASE kind = "stub"
  BY <1>1 DEF Init
<1>2. CASE kind # "stub"
  <2>1. PICK l \in Names : l = FirstLedger
    <3>1. FirstLedger \in Names
      BY ModelsAssumption DEF FirstLedger, Names
    <3> QED
      BY <3>1
  <2>2. PICK w \in Seq(Entries) : w = <<>>
    <3>1. <<>> \in Seq(Entries)
      OBVIOUS
    <3> QED
      BY <3>1
  <2>3. PICK r : r = [model |-> First, ledger |-> l, loaded |-> TRUE, owner |-> {},
                      poisoned |-> FALSE, log |-> w]
    OBVIOUS
  <2>4. [Booted(First, FirstLedger) EXCEPT !.loaded = TRUE] = r
    <3>1. PICK o, u, t : o = {} /\ u = FALSE /\ t = TRUE
      OBVIOUS
    <3>2. Booted(First, FirstLedger) = [model |-> First, ledger |-> l, loaded |-> u, owner |-> o,
                                        poisoned |-> u, log |-> w]
      BY <2>1, <2>2, <3>1 DEF Booted
    <3>3. r = [model |-> First, ledger |-> l, loaded |-> t, owner |-> o,
               poisoned |-> u, log |-> w]
      BY <2>3, <3>1
    <3>4. PICK b : b = Booted(First, FirstLedger)
      OBVIOUS
    <3>5. WithLoaded(b, t) = r
      BY <3>2, <3>3, <3>4, LoadedRecord
    <3> QED
      BY <3>1, <3>4, <3>5 DEF WithLoaded
  <2>5. r \in SessionRecords
    BY <2>3, ModelsAssumption DEF SessionRecords
  <2>6. /\ r.model = First /\ r.ledger = FirstLedger /\ r.loaded /\ r.owner = {}
        /\ r.log = <<>>
    BY <2>1, <2>2, <2>3
  <2>7. /\ kind \in Kinds /\ active = 1 /\ sessions = <<r>> /\ ledgers = {FirstLedger}
        /\ native = {<<1, h>> : h \in Resident(kind)}
    BY <1>2, <2>4, BackendsAssumption DEF Init
  <2>8. /\ sessions \in Seq(SessionRecords) /\ Len(sessions) = 1 /\ DOMAIN sessions = {1}
        /\ sessions[1] = r
    BY <2>5, <2>7
  <2> QED
    BY <2>6, <2>7, <2>8
<1> QED
  BY <1>1, <1>2

\* The types hold at first.
LEMMA InitTypes == ASSUME Init PROVE Types
<1>1. conns \in [Conns -> ConnRecords] /\ forks \in [Forks -> ForkRecords]
  <2>1. conns = [c \in Conns |-> NoConn] /\ forks = [f \in Forks |-> NoFork]
    BY DEF Init
  <2> QED
    BY <2>1, InitConns, InitForks
<1>2. /\ kind \in BackendKinds /\ current \in Models /\ second \in Nat /\ overlapped \in BOOLEAN
      /\ left \in [prompts : Nat, forks : Nat, faults : Nat, ticks : Nat]
  BY ModelsAssumption, BoundsAssumption DEF Init
<1>3. FirstLedger \in Names
  BY ModelsAssumption DEF FirstLedger, Names
<1>4. Resident(kind) \subseteq Handles
  BY ResidentApart
<1>5. /\ sessions \in Seq(SessionRecords) /\ ledgers \in SUBSET Names
      /\ native \in SUBSET (Nat \X Handles) /\ active \in Nat
  <2>1. CASE kind = "stub"
    <3>1. sessions = <<>> /\ ledgers = {} /\ native = {} /\ active = 0
      BY <2>1 DEF Init
    <3> QED
      BY <3>1
  <2>2. CASE kind # "stub"
    BY <1>3, <1>4, <2>2, InitSessions
  <2> QED
    BY <2>1, <2>2
<1> QED
  BY <1>1, <1>2, <1>5 DEF Types

\* Nothing is held but the active session.
LEMMA InitHeld ==
    ASSUME Init, NEW s \in Held(active, conns, forks), s # 0
    PROVE  s = active
<1>1. \/ s = active \/ \E c \in Conns : conns[c].session = s
      \/ \E f \in Forks : forks[f].at \in Live /\ forks[f].session = s
  BY HeldIs
<1>2. \A c \in Conns : conns[c].session = 0
  BY InitConns
<1>3. \A f \in Forks : forks[f].at \notin Live
  BY InitForks DEF Live
<1> QED
  BY <1>1, <1>2, <1>3

\* The only handles are those of the model on --model.
LEMMA InitNative == ASSUME Init PROVE NativeInv
<1>1. \A c \in Conns : conns[c].at # "infer"
  BY InitConns
<1>2. \A f \in Forks : forks[f].at # "load"
  BY InitForks
<1>3. CASE kind = "stub"
  <2>1. native = {} /\ active = 0
    BY <1>3 DEF Init
  <2> QED
    BY <1>1, <1>2, <2>1, InitHeld DEF NativeInv
<1>4. CASE kind # "stub"
  <2>1. active = 1 /\ native = {<<1, h>> : h \in Resident(kind)}
    BY <1>4, InitSessions
  <2>2. 1 \in Held(active, conns, forks)
    BY <2>1, HeldIs
  <2>3. \A n \in native : n[1] \in Held(active, conns, forks) /\ n[1] # 0
    BY <2>1, <2>2
  <2>4. \A s \in Held(active, conns, forks) : s # 0
           => \A h \in Handles : <<s, h>> \in native <=> h \in Resident(kind)
    BY <2>1, InitHeld
  <2>5. \A m, n \in native : m[2] = "backend" /\ n[2] = "backend" => m = n
    BY <2>1
  <2> QED
    BY <1>1, <1>2, <2>3, <2>4, <2>5 DEF NativeInv
<1> QED
  BY <1>3, <1>4

\* The invariant holds at first.
LEMMA InitInv == Init => UiInv /\ TurnsDoNotMix
<1> SUFFICES ASSUME Init PROVE UiInv /\ TurnsDoNotMix
  OBVIOUS
<1>1. Types
  BY InitTypes
<1>2. \A c \in Conns : conns[c].at = "closed" /\ conns[c].session = 0 /\ conns[c].frames = <<>>
  BY InitConns
<1>3. \A f \in Forks : forks[f].at = "idle" /\ forks[f].call = 1 /\ ~forks[f].abandoned
  BY InitForks
<1>4. \A s \in DOMAIN sessions :
         /\ s = 1 /\ sessions[s].owner = {} /\ sessions[s].log = <<>>
         /\ sessions[s].ledger \in ledgers
  BY InitSessions
<1>5. /\ active <= Len(sessions) /\ (active # 0 => sessions[active].loaded)
      /\ active # 0 => current = sessions[active].model
  <2>1. current = First
    BY DEF Init
  <2> QED
    BY <2>1, InitSessions
<1>6. SessionsInv
  BY <1>2, <1>3, <1>4, <1>5 DEF SessionsInv, Live
<1>7. DigestInv
  BY <1>3, <1>5 DEF DigestInv, Forking
<1>8. MutexInv
  BY <1>2, <1>4 DEF MutexInv, Busy
<1>9. LogInv
  BY <1>2, <1>4 DEF LogInv, Streaming, Busy
<1>10. FrameInv
  BY <1>2 DEF FrameInv, FrameOk, Streaming, Busy
<1>11. TurnsDoNotMix
  BY <1>4 DEF TurnsDoNotMix
<1> QED
  BY <1>1, <1>6, <1>7, <1>8, <1>9, <1>10, <1>11, InitNative DEF UiInv, Base

-----------------------------------------------------------------------------
(* The invariant holds, and the properties follow from it.                 *)

UiTurnsInv == UiInv /\ TurnsDoNotMix

\* A step that changes nothing keeps the invariant.
LEMMA UiStutter == ASSUME UiTurnsInv, UNCHANGED vars PROVE UiTurnsInv'
<1>1. Types' /\ SessionsInv' /\ DigestInv' /\ MutexInv'
  <2>1. Types'
    BY DEF UiTurnsInv, UiInv, Base, Types, vars
  <2>2. SessionsInv' /\ MutexInv'
    BY DEF UiTurnsInv, UiInv, Base, SessionsInv, MutexInv, vars
  <2>3. DigestInv'
    BY DEF UiTurnsInv, UiInv, DigestInv, Forking, vars
  <2> QED
    BY <2>1, <2>2, <2>3
<1>2. LogInv' /\ TurnsDoNotMix'
  BY DEF UiTurnsInv, UiInv, LogInv, TurnsDoNotMix, vars
<1>3. NativeInv'
  BY DEF UiTurnsInv, UiInv, NativeInv, vars
<1>4. FrameInv'
  BY DEF UiTurnsInv, UiInv, FrameInv, FrameOk, vars
<1> QED
  BY <1>1, <1>2, <1>3, <1>4 DEF UiTurnsInv, UiInv, Base

\* Every step keeps the invariant.
LEMMA UiNext == ASSUME UiTurnsInv, [Next]_vars PROVE UiTurnsInv'
<1>1. ASSUME Next PROVE UiTurnsInv'
  <2>1. UiInv /\ TurnsDoNotMix
    BY DEF UiTurnsInv
  <2>2. Types' /\ SessionsInv' /\ DigestInv' /\ MutexInv'
    BY <1>1, <2>1, TypesNext, SessionsDigestNext, MutexNext
  <2>3. LogInv' /\ TurnsDoNotMix'
    BY <1>1, <2>1, LogNext
  <2>4. NativeInv' /\ FrameInv'
    BY <1>1, <2>1, NativeNext, FramesNext
  <2> QED
    BY <2>2, <2>3, <2>4 DEF UiTurnsInv, UiInv, Base
<1> QED
  BY <1>1, UiStutter

\* The invariant holds of every state of the specification.
THEOREM UiInductive == Spec => []UiTurnsInv
<1>1. Init => UiTurnsInv
  BY InitInv DEF UiTurnsInv
<1>2. UiTurnsInv /\ [Next]_vars => UiTurnsInv'
  BY UiNext
<1> QED
  BY <1>1, <1>2, PTL DEF Spec

\* A fork is all or nothing.
LEMMA ForkFollows == UiTurnsInv => ForkSound
<1>1. SUFFICES ASSUME UiTurnsInv PROVE ForkSound
  OBVIOUS
<1>2. SessionsInv /\ DigestInv
  BY <1>1 DEF UiTurnsInv, UiInv, Base
<1>3. (active # 0 /\ Forking = {} /\ ~overlapped) => current = sessions[active].model
  <2>1. Forking = {} => \A f \in Forks : forks[f].at # "swap"
    BY DEF Forking
  <2> QED
    BY <1>2, <2>1 DEF DigestInv
<1> QED
  BY <1>2, <1>3 DEF ForkSound, SessionsInv

(***************************************************************************)
(* A fork is all or nothing, whatever is forked, dropped, abandoned or     *)
(* failing meanwhile: the active session has its model and a ledger of its *)
(* own, and once forks that did not overlap are over the factory's digest  *)
(* is the active model's.                                                  *)
(***************************************************************************)
THEOREM ForksAreSound == Spec => []ForkSound
  BY UiInductive, ForkFollows, PTL

(***************************************************************************)
(* What one turn records on its session's ledger stands together, however  *)
(* many WebSockets share the session, and after a worker has panicked.     *)
(***************************************************************************)
THEOREM TurnsStayApart == Spec => []TurnsDoNotMix
<1>1. UiTurnsInv => TurnsDoNotMix
  BY DEF UiTurnsInv
<1> QED
  BY <1>1, UiInductive, PTL

\* The handles of an inference, of a load and of a loaded model are alive with their parents.
LEMMA ParentsHeld ==
    ASSUME NEW k, NEW h
    PROVE  /\ h \in Resident(k) => Parent(h) \subseteq Resident(k)
           /\ \A i \in Nat : h \in InferHeld(k, i) =>
                 Parent(h) \subseteq Resident(k) \cup InferHeld(k, i)
           /\ \A i : h \in LoadHeld(k, i) => Parent(h) = {} \/ i \notin Nat \/ i = 0
<1>1. h \in Resident(k) => Parent(h) \subseteq Resident(k)
  BY DEF Resident, Parent
<1>2. ASSUME NEW i \in Nat, h \in InferHeld(k, i)
      PROVE  Parent(h) \subseteq Resident(k) \cup InferHeld(k, i)
  <2>1. CASE k = "llama"
    BY <1>2, <2>1 DEF InferHeld, Resident, Parent
  <2>2. CASE k # "llama"
    <3>1. \/ i <= 2 \/ i = 3 \/ i = 4 \/ i = 5 \/ i = 6 \/ i >= 7
      OBVIOUS
    <3>2. CASE i <= 2
      BY <1>2, <2>2, <3>2 DEF InferHeld
    <3>3. CASE i = 3
      BY <1>2, <2>2, <3>3 DEF InferHeld, Resident, Parent
    <3>4. CASE i = 4
      BY <1>2, <2>2, <3>4 DEF InferHeld, Resident, Parent
    <3>5. CASE i = 5
      BY <1>2, <2>2, <3>5 DEF InferHeld, Resident, Parent
    <3>6. CASE i = 6
      BY <1>2, <2>2, <3>6 DEF InferHeld, Resident, Parent
    <3>7. CASE i >= 7
      BY <1>2, <2>2, <3>7 DEF InferHeld, Resident, Parent
    <3> QED
      BY <3>1, <3>2, <3>3, <3>4, <3>5, <3>6, <3>7
  <2> QED
    BY <2>1, <2>2
<1>3. ASSUME NEW i \in Nat, i # 0, h \in LoadHeld(k, i) PROVE Parent(h) = {}
  <2>1. CASE k = "llama"
    BY <1>3, <2>1 DEF LoadHeld, Parent
  <2>2. CASE k # "llama"
    <3>1. \/ i = 1 \/ i = 2 \/ i >= 3
      BY <1>3
    <3>2. CASE i = 1
      BY <1>3, <2>2, <3>2 DEF LoadHeld
    <3>3. CASE i = 2
      BY <1>3, <2>2, <3>3 DEF LoadHeld, Parent
    <3>4. CASE i >= 3
      BY <1>3, <2>2, <3>4 DEF LoadHeld, Parent
    <3> QED
      BY <3>1, <3>2, <3>3, <3>4
  <2> QED
    BY <2>1, <2>2
<1> QED
  BY <1>1, <1>2, <1>3

ParentsOf(n) == \A p \in Parent(n[2]) : <<n[1], p>> \in native

\* The parents of a session's handles are the session's, whatever it is doing.
LEMMA ParentsOwned ==
    ASSUME UiInv, NEW n \in native, NEW p \in Parent(n[2])
    PROVE  <<n[1], p>> \in native
<1>t. Types /\ Base /\ NativeInv /\ SessionsInv
  BY DEF UiInv, Base
<1>1. PICK s \in Nat, h \in Handles : n = <<s, h>>
  <2>1. n \in Nat \X Handles
    BY <1>t DEF Types
  <2> QED
    BY <2>1
<1>2. n[1] = s /\ n[2] = h /\ <<s, h>> \in native /\ s \in Now /\ s # 0
  <2>1. n[1] = s /\ n[2] = h /\ <<s, h>> \in native
    BY <1>1
  <2>2. n[1] \in Now /\ n[1] # 0
    BY <1>t DEF NativeInv, Now
  <2> QED
    BY <2>1, <2>2
<1>3. p \in Parent(h) /\ p \in Handles
  <2>1. p \in Parent(h)
    BY <1>2
  <2>2. Parent(h) \subseteq Handles
    BY <1>1 DEF Parent, Handles, Transient
  <2> QED
    BY <2>1, <2>2
<1>4. CASE \E c \in Conns : conns[c].at = "infer" /\ conns[c].session = s
  <2>1. PICK c \in Conns : conns[c].at = "infer" /\ conns[c].session = s
    BY <1>4
  <2>2. PICK i : i = conns[c].call
    OBVIOUS
  <2>3. i \in Nat
    BY <1>t, <2>2 DEF Types, ConnRecords
  <2>4. \A g \in Handles : <<s, g>> \in native <=> g \in Resident(kind) \cup InferHeld(kind, i)
    BY <1>t, <2>1, <2>2 DEF NativeInv
  <2>5. h \in Resident(kind) \cup InferHeld(kind, i)
    BY <1>1, <1>2, <2>4
  <2>6. p \in Resident(kind) \cup InferHeld(kind, i)
    BY <1>3, <2>3, <2>5, ParentsHeld
  <2> QED
    BY <1>2, <1>3, <2>4, <2>6
<1>5. CASE \E f \in Forks : forks[f].at = "load" /\ forks[f].session = s
  <2>1. PICK f \in Forks : forks[f].at = "load" /\ forks[f].session = s
    BY <1>5
  <2>2. PICK i : i = forks[f].call
    OBVIOUS
  <2>3. i \in DOMAIN LoadCalls(kind)
    BY <1>t, <2>1, <2>2 DEF SessionsInv
  <2>4. i \in Nat /\ i # 0
    BY <2>3 DEF LoadCalls, LiteRtLoad
  <2>5. h \in LoadHeld(kind, i)
    BY <1>t, <1>1, <1>2, <2>1, <2>2 DEF NativeInv
  <2>6. Parent(h) = {}
    BY <2>4, <2>5, ParentsHeld
  <2> QED
    BY <1>3, <2>6
<1>6. CASE /\ ~\E c \in Conns : conns[c].at = "infer" /\ conns[c].session = s
           /\ ~\E f \in Forks : forks[f].at = "load" /\ forks[f].session = s
  <2>1. sessions[s].loaded
    <3>1. \/ s = active \/ \E c \in Conns : conns[c].session = s
          \/ \E f \in Forks : forks[f].at \in Live /\ forks[f].session = s
      BY <1>2, HeldIs DEF Now
    <3>2. CASE s = active
      BY <1>t, <1>2, <3>2 DEF SessionsInv
    <3>3. CASE \E c \in Conns : conns[c].session = s
      BY <1>t, <1>2, <3>3 DEF SessionsInv
    <3>4. CASE \E f \in Forks : forks[f].at \in Live /\ forks[f].session = s
      BY <1>t, <1>6, <3>4 DEF SessionsInv
    <3> QED
      BY <3>1, <3>2, <3>3, <3>4
  <2>2. \A g \in Handles : <<s, g>> \in native <=> g \in Resident(kind)
    BY <1>t, <1>2, <1>6, <2>1 DEF NativeInv, Now
  <2>3. h \in Resident(kind)
    BY <1>1, <1>2, <2>2
  <2>4. p \in Resident(kind)
    BY <1>3, <2>3, ParentsHeld
  <2> QED
    BY <1>2, <1>3, <2>2, <2>4
<1> QED
  BY <1>4, <1>5, <1>6

\* A loaded session has its model's handles, and while nobody is in it no others.
LEMMA LoadedHas ==
    ASSUME UiInv, NEW s \in Now, s # 0, sessions[s].loaded
    PROVE  LET has == {n[2] : n \in {m \in native : m[1] = s}}
           IN  /\ Resident(kind) \subseteq has
               /\ sessions[s].owner = {} => has = Resident(kind)
<1>t. Types /\ Base /\ NativeInv /\ MutexInv
  BY DEF UiInv, Base
<1>1. PICK has : has = {n[2] : n \in {m \in native : m[1] = s}}
  OBVIOUS
<1>2. \A h : h \in has <=> h \in Handles /\ <<s, h>> \in native
  <2>1. native \subseteq Nat \X Handles
    BY <1>t DEF Types
  <2>2. \A h : h \in has => h \in Handles /\ <<s, h>> \in native
    BY <1>1, <2>1
  <2>3. \A h : <<s, h>> \in native => h \in has
    BY <1>1
  <2> QED
    BY <2>2, <2>3
<1>3. Resident(kind) \subseteq Handles
  BY ResidentApart
<1>4. CASE \E c \in Conns : conns[c].at = "infer" /\ conns[c].session = s
  <2>1. PICK c \in Conns : conns[c].at = "infer" /\ conns[c].session = s
    BY <1>4
  <2>2. PICK i : i = conns[c].call
    OBVIOUS
  <2>3. \A g \in Handles : <<s, g>> \in native <=> g \in Resident(kind) \cup InferHeld(kind, i)
    BY <1>t, <2>1, <2>2 DEF NativeInv
  <2>4. s \in DOMAIN sessions
    BY <1>t, HeldSession
  <2>5. c \in sessions[s].owner
    BY <1>t, <2>1, <2>4 DEF MutexInv, Busy
  <2>6. Resident(kind) \subseteq has
    BY <1>2, <1>3, <2>3
  <2> QED
    BY <1>1, <2>5, <2>6
<1>5. CASE ~\E c \in Conns : conns[c].at = "infer" /\ conns[c].session = s
  <2>1. \A g \in Handles : <<s, g>> \in native <=> g \in Resident(kind)
    BY <1>t, <1>5 DEF NativeInv, Now
  <2>2. has = Resident(kind)
    BY <1>2, <1>3, <2>1
  <2> QED
    BY <1>1, <2>2
<1> QED
  BY <1>4, <1>5

\* The handles are owned wherever the invariant holds.
LEMMA HandlesFollow == UiTurnsInv => HandlesOwned
<1>1. SUFFICES ASSUME UiTurnsInv PROVE HandlesOwned
  OBVIOUS
<1>2. UiInv /\ NativeInv
  BY <1>1 DEF UiTurnsInv, UiInv
<1>3. \A n \in native : n[1] \in Held(active, conns, forks) \ {0}
  BY <1>2 DEF NativeInv
<1>4. \A n \in native : \A p \in Parent(n[2]) : <<n[1], p>> \in native
  <2>1. ASSUME NEW n \in native PROVE ParentsOf(n)
    <3>1. ASSUME NEW p \in Parent(n[2]) PROVE <<n[1], p>> \in native
      BY <1>2, ParentsOwned
    <3> QED
      BY <3>1, Zenon DEF ParentsOf
  <2>2. \A n \in native : ParentsOf(n)
    BY <2>1
  <2> QED
    BY <2>2, Zenon DEF ParentsOf
<1>5. ASSUME NEW s \in Held(active, conns, forks) \ {0}
      PROVE  LET busy == sessions[s].owner # {}
                 has == {n[2] : n \in {m \in native : m[1] = s}}
             IN  sessions[s].loaded =>
                   Resident(kind) \subseteq has /\ (~busy => has = Resident(kind))
  <2>1. s \in Now /\ s # 0
    BY DEF Now
  <2>2. PICK has : has = {n[2] : n \in {m \in native : m[1] = s}}
    OBVIOUS
  <2>3. sessions[s].loaded => /\ Resident(kind) \subseteq has
                              /\ sessions[s].owner = {} => has = Resident(kind)
    BY <1>2, <2>1, <2>2, LoadedHas
  <2> QED
    BY <2>2, <2>3
<1>6. Cardinality({n \in native : n[2] = "backend"}) <= 1
  <2>1. PICK B : B = {n \in native : n[2] = "backend"}
    OBVIOUS
  <2>2. \A m, n \in B : m = n
    BY <1>2, <2>1 DEF NativeInv
  <2>3. CASE B = {}
    BY <2>1, <2>3, FS_EmptySet
  <2>4. CASE B # {}
    <3>1. PICK n : n \in B
      BY <2>4
    <3>2. B = {n}
      BY <2>2, <3>1
    <3>3. Cardinality(B) = 1
      BY <3>2, FS_Singleton
    <3> QED
      BY <2>1, <3>3
  <2> QED
    BY <2>3, <2>4
<1> QED
  BY <1>3, <1>4, <1>5, <1>6 DEF HandlesOwned

(***************************************************************************)
(* No native handle is leaked, freed early or doubled: through every       *)
(* native call of load and infer, a failed one, a panic, a hang-up and a   *)
(* fork that is dropped, the live handles are those of sessions somebody   *)
(* holds, each with its parent, and an idle session has its model's only.  *)
(***************************************************************************)
THEOREM HandlesAreOwned == Spec => []HandlesOwned
  BY UiInductive, HandlesFollow, PTL

\* Frames that are not closed are not complete.
LEMMA PartOpen == ASSUME NEW f \in Seq(FrameNames), Part(f) PROVE Ordered(f) /\ ~Complete(f)
<1>1. PICK n \in Nat : n = Len(f)
  OBVIOUS
<1>2. f # <<>> /\ Ordered(f) /\ \A i \in DOMAIN f : f[i] # "turn_end"
  BY DEF Part
<1>3. n \in DOMAIN f
  BY <1>1, <1>2
<1> QED
  BY <1>1, <1>2, <1>3 DEF Complete

\* The frames are well formed wherever the invariant holds.
LEMMA FramesFollow == UiTurnsInv => FramesWellFormed
<1>1. SUFFICES ASSUME UiTurnsInv, NEW c \in Conns,
                      conns[c].frames \notin {<<>>, <<"error">>}
               PROVE  /\ Ordered(conns[c].frames)
                      /\ (conns[c].at = "open" /\ ~conns[c].gone /\ ~conns[c].panicked)
                            => Complete(conns[c].frames)
                      /\ (Complete(conns[c].frames) /\ Count(conns[c].frames, "error") = 0) =>
                            /\ Count(conns[c].frames, "call") = Calls(conns[c].said)
                            /\ Count(conns[c].said, "bad") > 0
                                  => Count(conns[c].frames, "text") > 0
  BY DEF FramesWellFormed
<1>2. Types /\ FrameInv /\ FrameOk(conns[c])
  BY <1>1 DEF UiTurnsInv, UiInv, Base, FrameInv
<1>3. PICK f \in Seq(FrameNames), said \in Seq(Pieces), todo \in Seq(FrameNames) :
         f = conns[c].frames /\ said = conns[c].said /\ todo = conns[c].todo
  BY <1>2 DEF Types, ConnRecords
<1>4. conns[c].at \in Places
  BY <1>2 DEF Types, ConnRecords
<1>5. CASE Part(f) /\ (conns[c].at # "open" \/ conns[c].gone \/ conns[c].panicked)
  <2>1. Ordered(f) /\ ~Complete(f)
    BY <1>5, PartOpen
  <2> QED
    BY <1>3, <1>5, <2>1
<1>6. CASE Whole(f, said)
  BY <1>3, <1>6 DEF Whole
<1>7. CASE conns[c].at \in Streaming
  <2>1. f = <<"turn_start">> /\ conns[c].at # "open"
    BY <1>2, <1>3, <1>7 DEF FrameOk, Streaming, Busy
  <2> QED
    BY <1>5, <2>1, StartPart
<1>8. CASE conns[c].at = "reply"
  <2>1. todo # <<>> /\ f # <<>> /\ Ordered(f \o todo)
    BY <1>2, <1>3, <1>8 DEF FrameOk, Whole
  <2>2. Part(f)
    BY <2>1, SentPart
  <2> QED
    BY <1>5, <1>8, <2>2
<1>9. CASE conns[c].at = "open"
  <2>1. f # <<>> /\ f # <<"error">>
    BY <1>1, <1>3
  <2>2. Whole(f, said) \/ ((conns[c].gone \/ conns[c].panicked) /\ Part(f))
    BY <1>2, <1>3, <1>9, <2>1 DEF FrameOk
  <2> QED
    BY <1>5, <1>6, <2>2
<1>10. conns[c].at # "closed"
  BY <1>1, <1>2 DEF FrameOk
<1> QED
  BY <1>4, <1>7, <1>8, <1>9, <1>10 DEF Places, Streaming, Busy

(***************************************************************************)
(* The frames a WebSocket has sent of a turn are in the order the          *)
(* browser's state machine expects, complete unless the worker panicked or *)
(* the socket is gone, and a turn without an error shows every call of the *)
(* model, for answers and texts of any length.                             *)
(***************************************************************************)
THEOREM FramesAreWellFormed == Spec => []FramesWellFormed
  BY UiInductive, FramesFollow, PTL
=============================================================================
