------------------------- MODULE MCMediatorApproval -------------------------
(***************************************************************************)
(* The decisions of every small manifest as time passes and, under one of  *)
(* them, the approval gate of a scripted session: a write under an         *)
(* expiring write_grant that needs approval, a second operation of another *)
(* class, and a connect whose two protocols share one grant key.           *)
(***************************************************************************)
EXTENDS PolicyProps, MediatorProps

Parent == <<"a">>
Child == <<"a", "b">>
MCPaths == {<<>>, Parent, Child}

Grants ==
    [resource : {Parent, Child}, actions : {{"write"}, {"write", "delete"}},
     expiresAt : {{}, {1}}, duration : {{}, {2}},
     wellFormed : {TRUE}, approvalRequired : BOOLEAN]
    \cup
    [resource : {Child}, actions : {{"delete"}},
     expiresAt : {{1}}, duration : {{}},
     wellFormed : BOOLEAN, approvalRequired : {FALSE}]

GrantLists == {<<>>} \cup {<<g>> : g \in Grants} \cup {<<g, h>> : g, h \in Grants}

SmallManifests ==
    [read : {{}}, write : SUBSET MCPaths, grants : GrantLists, exec : {{}},
     mcp : {<<>>}, outbound : {[mode |-> "deny", allowlist |-> {}]},
     approvalFor : SUBSET {"any_write", "any_delete"}]

GateManifest ==
    [read |-> {}, write |-> {},
     grants |-> << [resource |-> Child, actions |-> {"write"}, expiresAt |-> {},
                    duration |-> {3}, wellFormed |-> TRUE, approvalRequired |-> TRUE] >>,
     exec |-> {}, mcp |-> <<>>,
     outbound |-> [mode |-> "allowlist",
                   allowlist |-> {[host |-> "h", port |-> {}, protocol |-> {}]}],
     approvalFor |-> {"any_network_outbound"}]

MCManifests == SmallManifests \cup {GateManifest}

WriteChild == [kind |-> "write", path |-> Child, contents |-> "x"]
Dial(proto) == [kind |-> "connect", host |-> "h", port |-> 1, proto |-> proto]

PerClass(fs, net) ==
    [c \in {<<"filesystem">>, <<"network">>} |-> IF c = <<"network">> THEN net ELSE fs]

MCOps == {WriteChild, Dial("tcp"), Dial("any")}
MCBoots == {[driver |-> "script", channel |-> TRUE, mcp |-> FALSE]}
MCTier == PerClass("escalating", "validating")
MCTtl == PerClass(1, 2)
MCCap == PerClass({}, {})

AllInit == Compile /\ Init

\* The gate's manifest is asked by the session, the others by nobody but the clock.
AllNext ==
    \/ manifest = GateManifest /\ Next /\ UNCHANGED policyVars
    \/ manifest # GateManifest /\ Proceed /\ UNCHANGED vars

AllSpec == AllInit /\ [][AllNext]_<<policyVars, vars>>
=============================================================================
