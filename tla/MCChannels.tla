----------------------------- MODULE MCChannels -----------------------------
(***************************************************************************)
(* What a session waits for outside its process: one approval channel (the *)
(* web channel or one of the prompt channels) or its MCP servers, chosen   *)
(* when it starts.                                                         *)
(***************************************************************************)
EXTENDS WebApproval

CONSTANTS Kinds, MaxRequests, MaxDecisions, Servers, MaxCalls, MaxNoise

VARIABLES kind, requests, caller, overdue, results, decisions, readers, holder,
          stdin, reply, file, backlog, serving, shownTo
VARIABLES client, target, cached, children, calls, noise

Prompt == INSTANCE PromptChannels
Mcp == INSTANCE McpClient

promptVars == <<kind, requests, caller, overdue, results, decisions, readers, holder,
                stdin, reply, file, backlog, serving, shownTo>>
mcpVars == <<client, target, cached, children, calls, noise>>
allVars == <<promptVars, vars, mcpVars>>

AllInit == Prompt!Init /\ Init /\ Mcp!Init

AllNext ==
    \/ kind = "web" /\ Next /\ UNCHANGED <<promptVars, mcpVars>>
    \/ kind = "mcp" /\ Mcp!Next /\ UNCHANGED <<promptVars, vars>>
    \/ Prompt!Next /\ UNCHANGED <<vars, mcpVars>>

AllSpec ==
    /\ AllInit /\ [][AllNext]_allVars
    /\ WF_allVars(Enter /\ UNCHANGED <<promptVars, mcpVars>>)
    /\ WF_allVars(Wake /\ UNCHANGED <<promptVars, mcpVars>>)
    /\ WF_allVars(Prompt!Expire /\ UNCHANGED <<vars, mcpVars>>)
    /\ WF_allVars(Prompt!Receive /\ UNCHANGED <<vars, mcpVars>>)
    /\ WF_allVars(Prompt!Poll /\ UNCHANGED <<vars, mcpVars>>)
    /\ WF_allVars(Prompt!ReadFile /\ UNCHANGED <<vars, mcpVars>>)
    /\ WF_allVars(Prompt!Timeout /\ UNCHANGED <<vars, mcpVars>>)

\* The prompt channels' properties (PromptChannels).
LinesLostBounded == Prompt!LinesLostBounded
MtlsImplementsChannel == Prompt!MtlsImplementsChannel

\* The MCP client's property (McpClient).
McpFaithful == Mcp!McpFaithful

\* Whatever the channel, request_approval returns: with an answer, or at its timeout.
\* The web channel's part is conditional on its clients (WebApproval).
EveryRequestReturns == RequestAnswered /\ Prompt!RequestReturns
=============================================================================
