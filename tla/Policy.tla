------------------------------- MODULE Policy -------------------------------
(***************************************************************************)
(* The compiled permission manifest (crates/policy/src/policy.rs): one     *)
(* pure decision per I/O attempt.  A manifest is a record                  *)
(*                                                                         *)
(*   read, write   sets of paths (tools.filesystem.read / .write)          *)
(*   grants        sequence of write_grants, in manifest order             *)
(*   exec          set of exec_grants                                      *)
(*   outbound      the network policy of tools.network.outbound            *)
(*   mcp           sequence of the [server, tools] entries of tools.mcp[]  *)
(*   approvalFor   the classes of approval_required_for                    *)
(*                                                                         *)
(* A path is the sequence of its components ("/" is << >>), so "at or      *)
(* under" is a prefix of sequences.  An optional bound is a set of at most *)
(* one number; `wellFormed` says that the bounds present parse.            *)
(***************************************************************************)
EXTENDS Naturals, Sequences

Decisions == {"allow", "deny", "approval"}

\* paths_cover: `path` is at or under one of `parents`.
PathsCover(path, parents) ==
    \E q \in parents : Len(q) <= Len(path) /\ SubSeq(path, 1, Len(q)) = q

\* Faulty variant: a bound is taken as the start of the window.
GrantTimeValidFromBound(g, now, start) ==
    g.wellFormed /\ \A e \in g.expiresAt : now >= e

(***************************************************************************)
(* grant_time_valid: both optional bounds must hold, and a bound that      *)
(* cannot be parsed filters the grant out.                                 *)
(***************************************************************************)
GrantTimeValid(g, now, start) ==
    /\ g.wellFormed
    /\ \A e \in g.expiresAt : now < e
    /\ \A d \in g.duration : now < start + d

\* The write_grants naming `path` for `action`, as positions in the manifest.
MatchingGrants(m, path, action) ==
    {i \in DOMAIN m.grants :
        m.grants[i].resource = path /\ action \in m.grants[i].actions}

ValidGrants(m, path, action, now, start) ==
    {i \in MatchingGrants(m, path, action) :
        GrantTimeValid(m.grants[i], now, start)}

\* upgrade_for_approval on an Allow.
AllowUnless(m, class) == IF class \in m.approvalFor THEN "approval" ELSE "allow"

ApprovalClass(action) == IF action = "delete" THEN "any_delete" ELSE "any_write"

\* Faulty variant: only the grant's own approval_required counts.
WriteDecisionGrantOnly(m, valid, action) ==
    IF \E i \in valid : m.grants[i].approvalRequired THEN "approval" ELSE "allow"

\* write_decision for the first grant in manifest order that is in its window.
WriteDecision(m, valid, action) ==
    LET first == CHOOSE i \in valid : \A j \in valid : i <= j
    IN  IF m.grants[first].approvalRequired
        THEN "approval"
        ELSE AllowUnless(m, ApprovalClass(action))

CheckFilesystemRead(m, path) ==
    IF PathsCover(path, m.read) THEN "allow" ELSE "deny"

\* Faulty variant: a lapsed grant falls through to the broad coverage.
CheckFilesystemWriteFallThrough(m, path, now, start) ==
    LET valid == ValidGrants(m, path, "write", now, start)
    IN  IF valid # {} THEN WriteDecision(m, valid, "write")
        ELSE IF PathsCover(path, m.write) THEN AllowUnless(m, "any_write")
        ELSE "deny"

(***************************************************************************)
(* check_filesystem_write, with the explicit-takes-precedence rule of      *)
(* ADR-019: a write_grant that names the path decides, even expired; the   *)
(* broad coverage of tools.filesystem.write is asked only without one.     *)
(***************************************************************************)
CheckFilesystemWrite(m, path, now, start) ==
    LET valid == ValidGrants(m, path, "write", now, start)
    IN  IF valid # {} THEN WriteDecision(m, valid, "write")
        ELSE IF MatchingGrants(m, path, "write") # {} THEN "deny"
        ELSE IF PathsCover(path, m.write) THEN AllowUnless(m, "any_write")
        ELSE "deny"

\* check_filesystem_delete: only an explicit grant ever allows a delete.
CheckFilesystemDelete(m, path, now, start) ==
    LET valid == ValidGrants(m, path, "delete", now, start)
    IN  IF valid # {} THEN WriteDecision(m, valid, "delete") ELSE "deny"

\* proto_compatible; an entry without port or protocol matches every one.
MatchesAllowEntry(e, host, port, proto) ==
    /\ e.host = host
    /\ \A p \in e.port : p = port
    /\ \A q \in e.protocol : proto \in {q, "any"}

\* network_decision: no policy is a deny.
NetworkDecision(policy, host, port, proto) ==
    IF \/ policy.mode = "allow"
       \/ /\ policy.mode = "allowlist"
          /\ \E e \in policy.allowlist : MatchesAllowEntry(e, host, port, proto)
    THEN "allow"
    ELSE "deny"

CheckNetworkOutbound(m, host, port, proto) ==
    IF NetworkDecision(m.outbound, host, port, proto) = "allow"
    THEN AllowUnless(m, "any_network_outbound")
    ELSE "deny"

\* program_matches: a bare name matches the basename, anything else the path.
ProgramMatches(g, program) ==
    IF g.bare
    THEN program # << >> /\ program[Len(program)] = g.program[1]
    ELSE program = g.program

CheckExec(m, program) ==
    IF \E g \in m.exec : ProgramMatches(g, program)
    THEN AllowUnless(m, "any_exec")
    ELSE "deny"

\* check_mcp_tool: the first entry that names the server decides.
CheckMcpTool(m, server, tool) ==
    LET named == {i \in DOMAIN m.mcp : m.mcp[i].server = server}
        first == CHOOSE i \in named : \A j \in named : i <= j
    IN  IF named # {} /\ tool \in m.mcp[first].tools THEN "allow" ELSE "deny"
=============================================================================
