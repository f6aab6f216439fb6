------------------------------ MODULE Mediator ------------------------------
(***************************************************************************)
(* One session of the runtime: every I/O attempt of the agent goes through *)
(* the mediator (crates/inference-engine/src/mediator.rs), which rebinds   *)
(* the identity, asks the policy, routes a gated operation through the     *)
(* approval gate and its table of grants, charges the aggregate quota,     *)
(* performs the operation and appends to the ledger.  The session ends     *)
(* with the network attestation (session.rs, attestation.rs).              *)
(*                                                                         *)
(* A mediated call is a sequence of steps of one thread.  Between two of   *)
(* them time passes, the bound files on disk change, the operator answers, *)
(* and the process may die.                                                *)
(***************************************************************************)
EXTENDS Policy, FiniteSets

CONSTANTS
    Manifest,        \* the compiled manifest, a record of module Policy
    Ops,             \* the operations the agent may attempt
    Tier,            \* tools.<class>.approval.tier, per class
    Ttl,             \* tools.<class>.approval.grant_ttl_seconds, per class
    Cap,             \* quota.max_calls_per_session, a set of at most one number
    Boots,           \* the ways a session is set up (see `boot`)
    LiveStates,      \* what the bound files may become while the session runs
    MaxCalls,        \* bound on the mediated calls
    MaxTime,         \* bound on the clock
    FaultBudget,     \* bound on I/O errors of the ledger, channel and operations
    MayCrash         \* whether the process may die

VARIABLES
    boot,      \* [driver, channel, mcp]: who calls the mediator ("script",
               \* "prompt" or "ui"), and whether with_approval_channel and
               \* with_mcp_client were called
    now,       \* the wall clock
    live,      \* the model, manifest and config on disk: "bound" to the SVID,
               \* "drifted" from it, or "missing" (unreadable)
    phase,     \* the session's life
    pc,        \* the step the current call has reached
    cur,       \* the operation of the current call
    checked,   \* when the current call asked the policy
    looked,    \* when a call last found its operation in the grant table
    calls,     \* number of calls begun
    result,    \* what the last call returned to its driver
    grants,    \* grant_table
    counts,    \* aggregate_state
    netlog,    \* network_log
    ledger,    \* the entries appended after session_start
    effects,   \* ghost: what operations the world has seen
    attested,  \* the attestation's summary, once emitted
    faults     \* number of injected errors

vars == <<boot, now, live, phase, pc, cur, checked, looked, calls, result, grants, counts,
          netlog, ledger, effects, attested, faults>>

(***************************************************************************)
(* Operations.  The kinds and what identifies an operation:                *)
(*   read, delete  path          write    path, contents                   *)
(*   connect       host, port, proto      exec  program, args              *)
(*   mcp           server, tool, clauses: the values its arguments give    *)
(*                 the tool's pre_validate clauses, in clause order, each  *)
(*                 an operation or [kind |-> "malformed"]                  *)
(***************************************************************************)
Class(op) ==
    CASE op.kind \in {"read", "write", "delete"} -> <<"filesystem">>
      [] op.kind = "connect" -> <<"network">>
      [] op.kind = "exec" -> <<"exec">>
      [] op.kind = "mcp" -> <<"mcp", op.server>>

Classes == {Class(op) : op \in Ops}

\* (tool_name, canonical_args): a connect with protocol "any" is hashed as "tcp".
Key(op) ==
    IF op.kind = "connect" /\ op.proto = "any" THEN [op EXCEPT !.proto = "tcp"] ELSE op

Keys == {Key(op) : op \in Ops}

Drivers == {"script", "prompt", "ui"}
Tiers == {"advisory", "validating", "blocking", "escalating"}

\* Types that the manifest's schema and the callers of boot guarantee.
ASSUME OpsAssumption == Ops # {}
ASSUME BootsAssumption ==
    Boots \subseteq [driver : Drivers, channel : BOOLEAN, mcp : BOOLEAN]
ASSUME ManifestAssumption ==
    /\ Tier \in [Classes -> Tiers]
    /\ Ttl \in [Classes -> Nat]
    /\ Cap \in [Classes -> SUBSET Nat]

Decide(op, t) ==
    CASE op.kind = "read" -> CheckFilesystemRead(Manifest, op.path)
      [] op.kind = "write" -> CheckFilesystemWrite(Manifest, op.path, t, 0)
      [] op.kind = "delete" -> CheckFilesystemDelete(Manifest, op.path, t, 0)
      [] op.kind = "connect" ->
            CheckNetworkOutbound(Manifest, op.host, op.port, op.proto)
      [] op.kind = "exec" -> CheckExec(Manifest, op.program)
      [] op.kind = "mcp" -> CheckMcpTool(Manifest, op.server, op.tool)
      [] op.kind = "malformed" -> "malformed"

(***************************************************************************)
(* run_mcp_pre_validate: the first clause value that is not allowed        *)
(* decides the call.  extract_clause_values and parse_pre_validate_url     *)
(* make a missing or unusable argument "malformed".                        *)
(***************************************************************************)
PreValidate(clauses, t) ==
    LET stop == {i \in DOMAIN clauses : Decide(clauses[i], t) # "allow"}
        first == CHOOSE i \in stop : \A j \in stop : i <= j
    IN  IF stop = {} THEN "allow" ELSE Decide(clauses[first], t)

Verdict(op, t) ==
    IF op.kind = "mcp" /\ Decide(op, t) = "allow"
    THEN PreValidate(op.clauses, t)
    ELSE Decide(op, t)

-----------------------------------------------------------------------------
(* Grants and quotas.                                                      *)

NoGrant == [decision |-> "none", issuedAt |-> 0, id |-> 0]

\* Faulty variant: the TTL's last instant still counts.
IsLiveInclusive(g, ttl, t) == g.decision # "none" /\ t <= g.issuedAt + ttl

\* ApprovalGrant::is_live_at and SessionGrantTable::lookup.
IsLive(g, ttl, t) == g.decision # "none" /\ t < g.issuedAt + ttl

Lookup(op) == IsLive(grants[Key(op)], Ttl[Class(op)], now)

\* Faulty variant: only grants are cached.
InsertAllowOnly(op, d) ==
    IF d = "allow"
    THEN grants' = [grants EXCEPT ![Key(op)] =
                      [decision |-> d, issuedAt |-> now, id |-> calls]]
    ELSE UNCHANGED grants

\* ApprovalGrant::allow / ::deny and SessionGrantTable::insert.
Insert(op, d) ==
    grants' = [grants EXCEPT ![Key(op)] =
                 [decision |-> d, issuedAt |-> now, id |-> calls]]

\* Faulty variant: off by one at the cap.
OverCapLate(c) == \E cap \in Cap[c] : counts[c] > cap

\* The breach test of check_and_increment.
OverCap(c) == \E cap \in Cap[c] : counts[c] >= cap

\* mediate_network_connect never calls enforce_aggregate_quota.
Charged(op) == op.kind # "connect"

-----------------------------------------------------------------------------
(* The ledger and the returns of a call.                                   *)

\* `at` is the entry's timestamp; `looked` is a ghost.
Entry(type, detail, gid) ==
    [type |-> type, op |-> cur, detail |-> detail, gid |-> gid, at |-> now,
     looked |-> looked]

Log(type, detail, gid) == ledger' = Append(ledger, Entry(type, detail, gid))

\* One NetworkConnectionMeta, for a connect only.
LogConnect(d) ==
    netlog' = IF cur.kind = "connect"
              THEN Append(netlog, [op |-> cur, decision |-> d])
              ELSE netlog

\* Faulty variants: a driver that goes on after a rebind violation, and one
\* that goes on after an I/O error.
AfterCallIgnoresDrift(r) == IF r = "other" THEN "aborted" ELSE "running"

AfterCallIgnoresErrors(r) ==
    IF boot.driver # "ui" /\ r = "rebind" THEN "stopping" ELSE "running"

(***************************************************************************)
(* What the driver does with a result.  run.rs: a script goes on after a   *)
(* denial, stops (and shuts down) on a rebind violation or an approval it  *)
(* cannot get, and fails without shutting down on any other error; a       *)
(* prompt goes on after a denial or a missing approval and fails on        *)
(* everything else.  ui.rs reports the error and keeps the session.        *)
(***************************************************************************)
AfterCall(r) ==
    IF boot.driver = "ui" \/ r \in {"ok", "denied"} THEN "running"
    ELSE IF boot.driver = "prompt"
         THEN IF r = "approval" THEN "running" ELSE "aborted"
         ELSE IF r \in {"rebind", "approval"} THEN "stopping" ELSE "aborted"

Return(r) == pc' = "idle" /\ result' = r /\ phase' = AfterCall(r)

Goto(step) == pc' = step /\ UNCHANGED <<result, phase>>

\* What no step of a call touches, and what only the approval gate touches.
Frame == UNCHANGED <<boot, now, live, cur, looked, calls, attested>>

At(step) == phase = "running" /\ pc = step

-----------------------------------------------------------------------------
Init ==
    /\ boot \in Boots
    /\ now = 0 /\ live = "bound"
    /\ phase = "running" /\ pc = "idle"
    /\ cur = CHOOSE op \in Ops : TRUE
    /\ checked = 0 /\ looked = 0 /\ calls = 0 /\ result = "ok"
    /\ grants = [k \in Keys |-> NoGrant]
    /\ counts = [c \in Classes |-> 0]
    /\ netlog = <<>> /\ ledger = <<>> /\ effects = <<>> /\ attested = <<>>
    /\ faults = 0

\* The driver calls a mediate_* method; a script has no MCP call.
Begin(op) ==
    /\ At("idle") /\ calls < MaxCalls
    /\ boot.driver = "script" => op.kind # "mcp"
    /\ cur' = op /\ calls' = calls + 1
    /\ Goto("rebind")
    /\ UNCHANGED <<boot, now, live, checked, looked, grants, counts, netlog, ledger,
                   effects, attested, faults>>

(***************************************************************************)
(* rebind: the digests of the files on disk against those in the SVID.     *)
(***************************************************************************)
Rebind ==
    /\ At("rebind")
    /\ \/ live = "bound" /\ Goto("check") /\ UNCHANGED ledger
       \/ live = "drifted" /\ Log("violation", "identity_rebind", 0) /\ Return("rebind")
       \/ live = "missing" /\ Return("other") /\ UNCHANGED ledger
    /\ Frame
    /\ UNCHANGED <<checked, grants, counts, netlog, effects, faults>>

\* The step that follows an operation the policy or the gate lets through.
Cleared(op) == IF Charged(op) THEN "quota" ELSE "syscall"

CheckAllow ==
    /\ At("check") /\ Verdict(cur, now) = "allow"
    /\ checked' = now /\ Goto(Cleared(cur))
    /\ Frame
    /\ UNCHANGED <<grants, counts, netlog, ledger, effects, faults>>

CheckDeny ==
    /\ At("check") /\ Verdict(cur, now) = "deny"
    /\ Log("violation", "policy", 0) /\ LogConnect("denied")
    /\ checked' = now /\ Return("denied")
    /\ Frame
    /\ UNCHANGED <<grants, counts, effects, faults>>

\* No approval is wired for MCP: the caller gets RequireApproval back.
CheckGated ==
    /\ At("check") /\ Verdict(cur, now) = "approval"
    /\ IF cur.kind = "mcp" THEN Return("approval") ELSE Goto("route")
    /\ checked' = now
    /\ Frame
    /\ UNCHANGED <<grants, counts, netlog, ledger, effects, faults>>

\* McpPreValidateMalformedArg.
CheckMalformed ==
    /\ At("check") /\ Verdict(cur, now) = "malformed"
    /\ checked' = now /\ Return("other")
    /\ Frame
    /\ UNCHANGED <<grants, counts, netlog, ledger, effects, faults>>

-----------------------------------------------------------------------------
(* route_through_approval.  The tiers "blocking" and "escalating" fall     *)
(* through to "validating".  The clock is read anew for every lookup,      *)
(* every entry and every grant, and every append waits for an fsync: each  *)
(* reading is a step of its own.                                           *)

Advisory(op) == Tier[Class(op)] = "advisory"

RouteAdvisory ==
    /\ At("route") /\ Advisory(cur)
    /\ Log("approval_decision", "auto_advisory", 0) /\ Goto(Cleared(cur))
    /\ Frame
    /\ UNCHANGED <<checked, grants, counts, netlog, effects, faults>>

\* A live entry of the table decides.
RouteLive ==
    /\ At("route") /\ ~Advisory(cur) /\ Lookup(cur)
    /\ looked' = now /\ Goto("consume")
    /\ UNCHANGED <<boot, now, live, cur, checked, calls, grants, counts, netlog, ledger,
                   effects, attested, faults>>

RouteAutoAllow ==
    /\ At("consume")
    /\ grants[Key(cur)].decision = "allow"
    /\ Log("approval_decision", "auto_consumed_allow", grants[Key(cur)].id)
    /\ Goto(Cleared(cur))
    /\ Frame
    /\ UNCHANGED <<checked, grants, counts, netlog, effects, faults>>

\* Faulty variant: a cached denial is consumed as if it were a grant.
RouteAutoDenyDispatches ==
    /\ At("consume")
    /\ grants[Key(cur)].decision = "deny"
    /\ Log("approval_decision", "auto_consumed_deny", grants[Key(cur)].id)
    /\ Goto(Cleared(cur))
    /\ Frame
    /\ UNCHANGED <<checked, grants, counts, netlog, effects, faults>>

RouteAutoDeny ==
    /\ At("consume")
    /\ grants[Key(cur)].decision = "deny"
    /\ Log("approval_decision", "auto_consumed_deny", grants[Key(cur)].id)
    /\ LogConnect("denied") /\ Return("denied")
    /\ Frame
    /\ UNCHANGED <<checked, grants, counts, effects, faults>>

\* The legacy halt: the caller gets RequireApproval back and nothing is logged.
RouteNoChannel ==
    /\ At("route") /\ ~Advisory(cur) /\ ~Lookup(cur) /\ ~boot.channel
    /\ LogConnect("denied") /\ Return("approval")
    /\ Frame
    /\ UNCHANGED <<checked, grants, counts, ledger, effects, faults>>

RouteMiss ==
    /\ At("route") /\ ~Advisory(cur) /\ ~Lookup(cur) /\ boot.channel
    /\ Goto("ask")
    /\ Frame
    /\ UNCHANGED <<checked, grants, counts, netlog, ledger, effects, faults>>

RouteRequest ==
    /\ At("ask")
    /\ Log("approval_request", "", 0) /\ Goto("await")
    /\ Frame
    /\ UNCHANGED <<checked, grants, counts, netlog, effects, faults>>

Granted ==
    /\ At("await")
    /\ Log("approval_granted", "", 0) /\ Goto("grant")
    /\ Frame
    /\ UNCHANGED <<checked, grants, counts, netlog, effects, faults>>

\* ApprovalGrant::allow reads the clock after the operator's entry is on disk.
Grant ==
    /\ At("grant")
    /\ Insert(cur, "allow") /\ Goto("issue")
    /\ Frame
    /\ UNCHANGED <<checked, counts, netlog, ledger, effects, faults>>

\* emit_approval_decision_granted: the grant is already in the table.
Issue ==
    /\ At("issue")
    /\ Log("approval_decision", "grant_issued", grants[Key(cur)].id)
    /\ Goto(Cleared(cur))
    /\ Frame
    /\ UNCHANGED <<checked, grants, counts, netlog, effects, faults>>

Rejected ==
    /\ At("await")
    /\ Log("approval_rejected", "", 0) /\ Goto("refuse")
    /\ Frame
    /\ UNCHANGED <<checked, grants, counts, netlog, effects, faults>>

\* ApprovalGrant::deny, as late as ::allow.
Refuse ==
    /\ At("refuse")
    /\ Insert(cur, "deny") /\ LogConnect("denied") /\ Return("denied")
    /\ Frame
    /\ UNCHANGED <<checked, counts, ledger, effects, faults>>

\* Nothing is cached: the next identical call asks again.
TimedOut ==
    /\ At("await")
    /\ Log("approval_timed_out", "", 0)
    /\ LogConnect("denied") /\ Return("denied")
    /\ Frame
    /\ UNCHANGED <<checked, grants, counts, effects, faults>>

\* The channel itself fails: a denial that leaves no entry.
ChannelError ==
    /\ At("await") /\ faults < FaultBudget /\ faults' = faults + 1
    /\ LogConnect("denied") /\ Return("denied")
    /\ Frame
    /\ UNCHANGED <<checked, grants, counts, ledger, effects>>

-----------------------------------------------------------------------------
(* The aggregate quota, the operation itself and its access entry.         *)

QuotaPass ==
    /\ At("quota") /\ ~OverCap(Class(cur))
    /\ counts' = [counts EXCEPT ![Class(cur)] = @ + 1]
    /\ Goto("syscall")
    /\ Frame
    /\ UNCHANGED <<checked, grants, netlog, ledger, effects, faults>>

QuotaBreach ==
    /\ At("quota") /\ OverCap(Class(cur))
    /\ Log("violation", "aggregate_cap", 0) /\ Return("denied")
    /\ Frame
    /\ UNCHANGED <<checked, grants, counts, netlog, effects, faults>>

NoClient == cur.kind = "mcp" /\ ~boot.mcp

\* The call is refused after its quota was charged.
McpUnattached ==
    /\ At("syscall") /\ NoClient
    /\ Log("violation", "no_mcp_client", 0) /\ Return("denied")
    /\ Frame
    /\ UNCHANGED <<checked, grants, counts, netlog, effects, faults>>

Effect(ok) == [op |-> cur, checked |-> checked, after |-> Len(ledger),
               call |-> calls, ok |-> ok]

Syscall ==
    /\ At("syscall") /\ ~NoClient
    /\ effects' = Append(effects, Effect(TRUE)) /\ Goto("record")
    /\ Frame
    /\ UNCHANGED <<checked, grants, counts, netlog, ledger, faults>>

\* Faulty variant: every I/O error is reported as a denial.
ErrorResultDenied(op) == "denied"

ErrorResult(op) == IF op.kind = "mcp" THEN "denied" ELSE "other"

(***************************************************************************)
(* The operation reports an error, and no entry is appended.  A write may  *)
(* have truncated the file, a program or an MCP tool may have run.  An MCP *)
(* client's error is a denial; the others propagate as I/O errors.         *)
(***************************************************************************)
SyscallError ==
    /\ At("syscall") /\ ~NoClient
    /\ faults < FaultBudget /\ faults' = faults + 1
    /\ \/ UNCHANGED effects
       \/ /\ cur.kind \in {"write", "exec", "mcp"}
          /\ effects' = Append(effects, Effect(FALSE))
    /\ Return(ErrorResult(cur))
    /\ Frame
    /\ UNCHANGED <<checked, grants, counts, netlog, ledger>>

\* Faulty variant: the gate is forgotten once the operation went through.
ConnectOutcomeAllowed == "allowed"

\* was_approval_required decides how the attestation counts the connection.
ConnectOutcome == IF Verdict(cur, checked) = "approval" THEN "approved" ELSE "allowed"

Record ==
    /\ At("record")
    /\ Log("access", "", 0) /\ LogConnect(ConnectOutcome) /\ Return("ok")
    /\ Frame
    /\ UNCHANGED <<checked, grants, counts, effects, faults>>

-----------------------------------------------------------------------------
(* The steps that append, for a ledger writer that fails.                  *)

AppendPending ==
    \/ pc \in {"consume", "ask", "await", "issue", "record"}
    \/ pc = "rebind" /\ live = "drifted"
    \/ pc = "check" /\ Verdict(cur, now) = "deny"
    \/ pc = "route" /\ Advisory(cur)
    \/ pc = "quota" /\ OverCap(Class(cur))
    \/ pc = "syscall" /\ NoClient

\* Where route_through_approval appends.
Gate == {"route", "consume", "ask", "await", "issue"}

(***************************************************************************)
(* append returns an I/O error and the call propagates it.  A failure      *)
(* inside the approval gate still counts as a denied connection.  At       *)
(* "await" it is the outcome's own entry that fails, before the grant      *)
(* table changes; at "issue" the grant stays in the table.                 *)
(***************************************************************************)
LedgerError ==
    /\ phase = "running" /\ AppendPending
    /\ faults < FaultBudget /\ faults' = faults + 1
    /\ IF pc \in Gate THEN LogConnect("denied") ELSE UNCHANGED netlog
    /\ Return("other")
    /\ Frame
    /\ UNCHANGED <<checked, grants, counts, ledger, effects>>

-----------------------------------------------------------------------------
(* The end of the session.                                                 *)

Still == UNCHANGED <<boot, now, live, pc, cur, checked, looked, calls, result, grants,
                     counts, netlog, effects>>

\* The script or the prompt is done.
Finish ==
    /\ At("idle") /\ boot.driver # "ui"
    /\ phase' = "stopping"
    /\ Still /\ UNCHANGED <<ledger, attested, faults>>

\* The UI drops a session (exit or fork) and never calls shutdown.
Drop ==
    /\ At("idle") /\ boot.driver = "ui"
    /\ phase' = "aborted"
    /\ Still /\ UNCHANGED <<ledger, attested, faults>>

Tally(d) == Cardinality({i \in DOMAIN netlog : netlog[i].decision = d})

Summary == [total |-> Len(netlog), allowed |-> Tally("allowed"),
            approved |-> Tally("approved"), denied |-> Tally("denied")]

Attest ==
    /\ phase = "stopping"
    /\ Log("network_attestation", "", 0)
    /\ attested' = <<Summary>> /\ phase' = "attested"
    /\ Still /\ UNCHANGED faults

End ==
    /\ phase = "attested"
    /\ Log("session_end", "", 0)
    /\ phase' = "ended"
    /\ Still /\ UNCHANGED <<attested, faults>>

ShutdownError ==
    /\ phase \in {"stopping", "attested"}
    /\ faults < FaultBudget /\ faults' = faults + 1
    /\ phase' = "aborted"
    /\ Still /\ UNCHANGED <<ledger, attested>>

Over == {"ended", "aborted", "crashed"}

Crash ==
    /\ MayCrash /\ phase \notin Over
    /\ phase' = "crashed" /\ pc' = "idle"
    /\ UNCHANGED <<boot, now, live, cur, checked, looked, calls, result, grants, counts,
                   netlog, ledger, effects, attested, faults>>

-----------------------------------------------------------------------------
(* The environment.                                                        *)

Tick ==
    /\ phase = "running" /\ now < MaxTime
    /\ now' = now + 1
    /\ UNCHANGED <<boot, live, phase, pc, cur, checked, looked, calls, result, grants, counts,
                   netlog, ledger, effects, attested, faults>>

Drift ==
    /\ phase = "running"
    /\ live' \in LiveStates \ {live}
    /\ UNCHANGED <<boot, now, phase, pc, cur, checked, looked, calls, result, grants, counts,
                   netlog, ledger, effects, attested, faults>>

Terminated == phase \in Over /\ UNCHANGED vars

Check == CheckAllow \/ CheckDeny \/ CheckGated \/ CheckMalformed
Route == RouteAdvisory \/ RouteLive \/ RouteAutoAllow \/ RouteAutoDeny \/ RouteNoChannel
            \/ RouteMiss \/ RouteRequest
Answer == Granted \/ Rejected \/ TimedOut
Cache == Grant \/ Refuse
Perform == QuotaPass \/ QuotaBreach \/ McpUnattached \/ Syscall \/ Record
Fault == ChannelError \/ SyscallError \/ LedgerError \/ ShutdownError

Next ==
    \/ \E op \in Ops : Begin(op)
    \/ Rebind \/ Check \/ Route \/ Answer \/ Cache \/ Issue \/ Perform \/ Fault
    \/ Finish \/ Drop \/ Attest \/ End
    \/ Crash \/ Tick \/ Drift \/ Terminated

\* No step is fair: an operation that hangs (Command::output, an MCP tool) is waited
\* for without a timeout.
Spec == Init /\ [][Next]_vars
=============================================================================
