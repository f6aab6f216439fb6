------------------------- MODULE MCMediatorSessions -------------------------
(***************************************************************************)
(* A script's session with an approval channel, a web UI's session, which  *)
(* outlives every error, with an MCP client, and a prompt's session with   *)
(* neither, over one manifest: connects that are gated or denied, MCP      *)
(* calls whose arguments are allowed, denied, gated or malformed, an       *)
(* advisory program, a gated write, quotas, files that drift or disappear, *)
(* a crash at any step and one I/O error of the ledger, the channel or an  *)
(* operation.                                                              *)
(***************************************************************************)
EXTENDS MediatorProps

MCBoots == {[driver |-> "script", channel |-> TRUE, mcp |-> FALSE],
            [driver |-> "ui", channel |-> TRUE, mcp |-> TRUE],
            [driver |-> "prompt", channel |-> FALSE, mcp |-> FALSE]}

MCManifest ==
    [read |-> {<<"r">>}, write |-> {<<"w">>}, grants |-> <<>>,
     exec |-> {[bare |-> TRUE, program |-> <<"ls">>]},
     mcp |-> <<[server |-> "s", tools |-> {"t"}]>>,
     outbound |-> [mode |-> "allowlist",
                   allowlist |-> {[host |-> "h", port |-> {1}, protocol |-> {}]}],
     approvalFor |-> {"any_exec", "any_write", "any_network_outbound"}]

Run == [kind |-> "exec", program |-> <<"bin", "ls">>, args |-> "a"]
Read(path) == [kind |-> "read", path |-> path]
Write == [kind |-> "write", path |-> <<"w", "f">>, contents |-> "x"]
Dial(host) == [kind |-> "connect", host |-> host, port |-> 1, proto |-> "tcp"]
Call(clauses) == [kind |-> "mcp", server |-> "s", tool |-> "t", clauses |-> clauses]
Malformed == [kind |-> "malformed"]

MCOps == {Run, Write, Dial("h"), Dial("g"), Call(<<Read(<<"r">>)>>),
          Call(<<Read(<<"r">>), Read(<<"x">>), Malformed>>),
          Call(<<Write>>), Call(<<Malformed>>)}

MCClasses == {<<"filesystem">>, <<"network">>, <<"exec">>, <<"mcp", "s">>}
MCTier == [c \in MCClasses |-> IF c = <<"exec">> THEN "advisory" ELSE "blocking"]
MCTtl == [c \in MCClasses |-> 1]
MCCap == [c \in MCClasses |-> {1}]
=============================================================================
