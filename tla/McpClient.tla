----------------------------- MODULE McpClient -----------------------------
(***************************************************************************)
(* StdioMcpClient (crates/mcp-client/src/lib.rs): one child process per    *)
(* MCP server, spawned and initialised at its first tool call and kept for *)
(* the session; requests and answers are lines on its pipes.  A server may *)
(* answer late, twice, out of order or not at all, send notifications or   *)
(* garbage, and exit.  An error leaves the connection, and whatever is in  *)
(* its pipes, to the next call.                                            *)
(***************************************************************************)
EXTENDS Naturals, Sequences, FiniteSets

CONSTANTS
    Servers,     \* the server_uris of the manifest
    MaxCalls,    \* bound on the calls of call_tool
    MaxNoise     \* bound on notifications, garbage and repeated answers

VARIABLES
    client,      \* where call_tool is
    target,      \* the child it talks to, 0 for none
    cached,      \* connections: each server's child, 0 for none
    children,    \* every child spawned so far
    calls,       \* what call_tool returned: [result, answers]
    noise        \* what is left of MaxNoise

mcpVars == <<client, target, cached, children, calls, noise>>

\* A line of the server: id (0 for none) and what follows, for which request.
Line(id, body, call) == [id |-> id, body |-> body, call |-> call]

\* ids count from 1 here; the initialize request is the first of a connection.
Request(id, method) == [id |-> id, method |-> method, call |-> Len(calls)]

NewChild(s) == [server |-> s, alive |-> TRUE, nextId |-> 1, stdin |-> <<>>, stdout |-> <<>>,
                seen |-> <<>>, pending |-> {}, orphan |-> FALSE]

Init ==
    /\ client = "idle" /\ target = 0
    /\ cached = [s \in Servers |-> 0] /\ children = <<>>
    /\ calls = <<>> /\ noise = MaxNoise

-----------------------------------------------------------------------------
(* The client.                                                             *)

Child == children[target]

\* call_tool returns; `line` is the answer it took.
Return(result, line) ==
    /\ calls' = [calls EXCEPT ![Len(calls)] = [result |-> result, answers |-> line.call]]
    /\ client' = "idle" /\ target' = 0

Error == Return("error", Line(0, "none", 0))

CallTool(s) ==
    /\ client = "idle" /\ Len(calls) < MaxCalls
    /\ calls' = Append(calls, [result |-> "none", answers |-> 0])
    /\ IF cached[s] = 0
       THEN client' = "spawn" /\ children' = Append(children, NewChild(s))
            /\ target' = Len(children')
       ELSE client' = "call" /\ target' = cached[s] /\ UNCHANGED children
    /\ UNCHANGED <<cached, noise>>

\* parse_stdio_uri or the spawn fails: there is no child.
SpawnFails(s) ==
    /\ client = "idle" /\ Len(calls) < MaxCalls /\ cached[s] = 0
    /\ calls' = Append(calls, [result |-> "error", answers |-> 0])
    /\ UNCHANGED <<client, target, cached, children, noise>>

\* write_value: a line on the child's stdin, unless its end is closed.
Wrote(method) ==
    /\ Child.alive
    /\ children' = [children EXCEPT
           ![target].stdin = Append(@, Request(Child.nextId, method)),
           ![target].nextId = @ + (IF method = "initialized" THEN 0 ELSE 1)]

\* A connection that fails before it is cached is dropped, its child is not killed.
Abandoned == children' = [children EXCEPT ![target].orphan = TRUE]

\* initialize_handshake: the request, the answer and the notification.
Initialize ==
    /\ client = "spawn"
    /\ \/ Wrote("initialize") /\ client' = "handshake" /\ UNCHANGED <<target, calls>>
       \/ ~Child.alive /\ Error /\ Abandoned
    /\ UNCHANGED <<cached, noise>>

\* ensure_connection caches the child after the handshake.
Initialized ==
    /\ client = "initialized"
    /\ \/ /\ Wrote("initialized") /\ client' = "call"
          /\ cached' = [cached EXCEPT ![Child.server] = target]
          /\ UNCHANGED <<target, calls>>
       \/ ~Child.alive /\ Error /\ Abandoned /\ UNCHANGED cached
    /\ UNCHANGED noise

Call ==
    /\ client = "call"
    /\ \/ Wrote("tools/call") /\ client' = "reply" /\ UNCHANGED <<target, calls>>
       \/ /\ ~Child.alive /\ Error
          /\ children' = [children EXCEPT ![target].nextId = @ + 1]
    /\ UNCHANGED <<cached, noise>>

Reading == client \in {"handshake", "reply"}
Expected == Child.nextId - 1

\* Faulty variant: the first line with an id is taken for the answer.
MatchesAny(line) == line.id # 0

\* read_response_for_id: other ids and notifications are skipped.
Matches(line) == line.id = Expected

Skip ==
    /\ Reading /\ Child.stdout # <<>>
    /\ Head(Child.stdout).body # "garbage" /\ ~Matches(Head(Child.stdout))
    /\ children' = [children EXCEPT ![target].stdout = Tail(@)]
    /\ UNCHANGED <<client, target, cached, calls, noise>>

\* The answer.  Of the initialize answer only an error counts.
ReadAnswer ==
    LET line == Head(Child.stdout)
        ok == line.body = "result" \/ (client = "handshake" /\ line.body = "neither")
    IN  /\ Reading /\ Child.stdout # <<>> /\ line.body # "garbage" /\ Matches(line)
        /\ children' = [children EXCEPT ![target].stdout = Tail(@),
                                        ![target].orphan = (client = "handshake" /\ ~ok)]
        /\ IF client = "handshake" /\ ok
           THEN client' = "initialized" /\ UNCHANGED <<target, calls>>
           ELSE Return(IF ok THEN "ok" ELSE "error", line)
        /\ UNCHANGED <<cached, noise>>

\* A line that does not decode, or the end of stdout.
ReadFails ==
    /\ Reading
    /\ \/ /\ Child.stdout # <<>> /\ Head(Child.stdout).body = "garbage"
          /\ children' = [children EXCEPT ![target].stdout = Tail(@),
                                          ![target].orphan = (client = "handshake")]
       \/ /\ Child.stdout = <<>> /\ ~Child.alive
          /\ children' = [children EXCEPT ![target].orphan = (client = "handshake")]
    /\ Error
    /\ UNCHANGED <<cached, noise>>

\* Drop: the cached children are killed and waited for.
Drop ==
    /\ client = "idle"
    /\ client' = "dropped"
    /\ children' = [k \in DOMAIN children |->
           [children[k] EXCEPT !.alive = @ /\ k \notin {cached[s] : s \in Servers}]]
    /\ UNCHANGED <<target, cached, calls, noise>>

-----------------------------------------------------------------------------
(* The servers.                                                            *)

Says(k, line) == children' = [children EXCEPT ![k].stdout = Append(@, line)]

Receive(k) ==
    /\ children[k].alive /\ children[k].stdin # <<>>
    /\ LET r == Head(children[k].stdin) IN
          children' = [children EXCEPT ![k].stdin = Tail(@), ![k].seen = Append(@, r.method),
                          ![k].pending = IF r.method = "initialized" THEN @ ELSE @ \cup {r}]
    /\ UNCHANGED <<client, target, cached, calls, noise>>

\* An answer to any request not answered yet.
Answer(k) ==
    /\ children[k].alive
    /\ \E r \in children[k].pending, body \in {"result", "error", "neither"} :
          children' = [children EXCEPT ![k].stdout = Append(@, Line(r.id, body, r.call)),
                                       ![k].pending = @ \ {r}]
    /\ UNCHANGED <<client, target, cached, calls, noise>>

\* A notification, garbage, or an answer the server will repeat.
Noise(k) ==
    /\ children[k].alive /\ noise > 0 /\ noise' = noise - 1
    /\ \/ \E body \in {"neither", "garbage"} : Says(k, Line(0, body, 0))
       \/ \E r \in children[k].pending : Says(k, Line(r.id, "result", r.call))
    /\ UNCHANGED <<client, target, cached, calls>>

Exit(k) ==
    /\ children[k].alive
    /\ children' = [children EXCEPT ![k].alive = FALSE]
    /\ UNCHANGED <<client, target, cached, calls, noise>>

Dropped == client = "dropped" /\ UNCHANGED mcpVars

Next ==
    \/ \E s \in Servers : CallTool(s) \/ SpawnFails(s)
    \/ Initialize \/ Initialized \/ Call \/ Skip \/ ReadAnswer \/ ReadFails
    \/ Drop \/ Dropped
    \/ \E k \in DOMAIN children : Receive(k) \/ Answer(k) \/ Noise(k) \/ Exit(k)

Spec == Init /\ [][Next]_mcpVars

-----------------------------------------------------------------------------
(***************************************************************************)
(* A tool call that succeeds returns the server's answer to that call,     *)
(* also when earlier calls failed and left their answers in the pipe; a    *)
(* server is initialised once, before its first call; and the end of the   *)
(* session leaves no child running but those that never got through the    *)
(* handshake, which nobody kills (read_response_for_id, ensure_connection, *)
(* Drop for StdioMcpClient).                                               *)
(***************************************************************************)
McpFaithful ==
    /\ \A i \in DOMAIN calls : calls[i].result = "ok" => calls[i].answers = i
    /\ \A k \in DOMAIN children : \A i \in DOMAIN children[k].seen :
          /\ children[k].seen[i] = "initialize" <=> i = 1
          /\ children[k].seen[i] = "initialized" <=> i = 2
    /\ client = "dropped" =>
          \A k \in DOMAIN children : children[k].alive => children[k].orphan
=============================================================================
