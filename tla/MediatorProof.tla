---------------------------- MODULE MediatorProof ----------------------------
(***************************************************************************)
(* Theorems about a session, for every manifest, set of operations, way of *)
(* setting up the session and number of calls and faults.                  *)
(***************************************************************************)
EXTENDS MediatorProps, FiniteSetTheorems, TLAPS

LEMMA ClassType == \A op \in Ops : Class(op) \in Classes
BY DEF Classes

LEMMA KeyType == \A op \in Ops : Key(op) \in Keys
BY DEF Keys

LEMMA EntryType ==
    ASSUME TypeOK, NEW t \in EntryTypes, NEW d \in Details, NEW g \in Nat, Log(t, d, g)
    PROVE  /\ ledger' \in Seq(Entries)
           /\ Len(ledger') = Len(ledger) + 1
           /\ ledger'[Len(ledger')] = Entry(t, d, g)
           /\ \A i \in DOMAIN ledger : i \in DOMAIN ledger' /\ ledger'[i] = ledger[i]
<1>1. Entry(t, d, g) \in Entries
  BY DEF TypeOK, Entry, Entries
<1>2. ledger \in Seq(Entries) /\ ledger' = Append(ledger, Entry(t, d, g))
  BY DEF TypeOK, Log
<1> QED
  BY <1>1, <1>2

LEMMA ConnectType ==
    ASSUME TypeOK, NEW d \in {"allowed", "approved", "denied"}, LogConnect(d)
    PROVE  netlog' \in Seq(Connections)
<1>1. [op |-> cur, decision |-> d] \in Connections
  BY DEF TypeOK, Connections
<1> QED
  BY <1>1 DEF TypeOK, LogConnect

LEMMA GrantType ==
    ASSUME TypeOK, NEW d \in {"allow", "deny"}, Insert(cur, d)
    PROVE  grants' \in [Keys -> GrantRecords]
<1>1. [decision |-> d, issuedAt |-> now, id |-> calls] \in GrantRecords
  BY DEF TypeOK, GrantRecords
<1> QED
  BY <1>1 DEF TypeOK, Insert

LEMMA ReturnType ==
    ASSUME TypeOK, NEW r \in Results, Return(r)
    PROVE  pc' \in Steps /\ result' \in Results /\ phase' \in Phases
BY DEF TypeOK, Return, AfterCall, Steps, Phases, Over

LEMMA GotoType ==
    ASSUME TypeOK, NEW s \in Steps, Goto(s)
    PROVE  pc' \in Steps /\ result' \in Results /\ phase' \in Phases
BY DEF TypeOK, Goto

LEMMA ClearedType == \A op : Cleared(op) \in Steps
BY DEF Cleared, Steps

LEMMA CachedType == TypeOK => grants[Key(cur)] \in GrantRecords
BY KeyType DEF TypeOK

LEMMA EffectType ==
    ASSUME TypeOK, NEW ok \in BOOLEAN, effects' = Append(effects, Effect(ok))
    PROVE  effects' \in Seq(EffectRecords)
<1>1. Effect(ok) \in EffectRecords
  BY DEF TypeOK, Effect, EffectRecords
<1> QED
  BY <1>1 DEF TypeOK

-----------------------------------------------------------------------------
(* Every variable keeps its type along Next (session.rs, struct Session).  *)

LEMMA TypeInit == Init => TypeOK
<1> SUFFICES ASSUME Init PROVE TypeOK
  OBVIOUS
<1>1. cur \in Ops
  BY OpsAssumption DEF Init
<1>2. grants \in [Keys -> GrantRecords]
  BY DEF Init, NoGrant, GrantRecords
<1>3. /\ netlog \in Seq(Connections) /\ ledger \in Seq(Entries)
      /\ effects \in Seq(EffectRecords) /\ attested \in Seq(Summaries)
  BY DEF Init
<1> QED
  BY <1>1, <1>2, <1>3 DEF Init, TypeOK, Steps, Phases, Results

LEMMA TypeNext == TypeOK /\ [Next]_vars => TypeOK'
<1> SUFFICES ASSUME TypeOK, [Next]_vars PROVE TypeOK'
  OBVIOUS
<1>a. /\ {"violation", "approval_request", "approval_granted", "approval_rejected",
          "approval_timed_out", "approval_decision", "access",
          "network_attestation", "session_end"} \subseteq EntryTypes
      /\ {"", "identity_rebind", "policy", "aggregate_cap", "no_mcp_client",
          "auto_advisory", "auto_consumed_allow", "auto_consumed_deny",
          "grant_issued"} \subseteq Details
  BY DEF EntryTypes, Details
<1>b. 0 \in Nat /\ grants[Key(cur)].id \in Nat
  BY CachedType DEF GrantRecords
<1>c. {"ok", "denied", "approval", "rebind", "other"} \subseteq Results
  BY DEF Results
<1>d. {"idle", "rebind", "check", "route", "consume", "ask", "await", "grant", "refuse",
       "issue", "quota", "syscall", "record"} \subseteq Steps
  BY DEF Steps
<1>1. ASSUME NEW op \in Ops, Begin(op) PROVE TypeOK'
  BY <1>1, <1>d, GotoType DEF Begin, TypeOK
<1>2. CASE Rebind
  <2>1. ledger' \in Seq(Entries)
    BY <1>2, <1>a, <1>b, EntryType DEF Rebind, TypeOK
  <2>2. pc' \in Steps /\ result' \in Results /\ phase' \in Phases
    BY <1>2, <1>c, <1>d, ReturnType, GotoType DEF Rebind
  <2> QED
    BY <1>2, <2>1, <2>2 DEF Rebind, Frame, TypeOK
<1>3. CASE CheckAllow
  BY <1>3, ClearedType, GotoType DEF CheckAllow, Frame, TypeOK
<1>4. CASE CheckDeny
  <2>1. ledger' \in Seq(Entries)
    BY <1>4, <1>a, <1>b, EntryType DEF CheckDeny
  <2>2. pc' \in Steps /\ result' \in Results /\ phase' \in Phases
    BY <1>4, <1>c, ReturnType DEF CheckDeny
  <2>3. netlog' \in Seq(Connections)
    BY <1>4, ConnectType DEF CheckDeny
  <2> QED
    BY <1>4, <2>1, <2>2, <2>3 DEF CheckDeny, Frame, TypeOK
<1>5. CASE CheckGated
  <2>1. pc' \in Steps /\ result' \in Results /\ phase' \in Phases
    BY <1>5, <1>c, <1>d, ReturnType, GotoType DEF CheckGated
  <2> QED
    BY <1>5, <2>1 DEF CheckGated, Frame, TypeOK
<1>6. CASE CheckMalformed
  <2>1. pc' \in Steps /\ result' \in Results /\ phase' \in Phases
    BY <1>6, <1>c, ReturnType DEF CheckMalformed
  <2> QED
    BY <1>6, <2>1 DEF CheckMalformed, Frame, TypeOK
<1>7. CASE Route
  <2>1. CASE RouteAdvisory
    <3>1. ledger' \in Seq(Entries)
      BY <2>1, <1>a, <1>b, EntryType DEF RouteAdvisory
    <3> QED
      BY <2>1, <3>1, ClearedType, GotoType DEF RouteAdvisory, Frame, TypeOK
  <2>2. CASE RouteAutoAllow
    <3>1. ledger' \in Seq(Entries)
      BY <2>2, <1>a, <1>b, EntryType DEF RouteAutoAllow
    <3> QED
      BY <2>2, <3>1, ClearedType, GotoType DEF RouteAutoAllow, Frame, TypeOK
  <2>3. CASE RouteAutoDeny
    <3>1. ledger' \in Seq(Entries)
      BY <2>3, <1>a, <1>b, EntryType DEF RouteAutoDeny
    <3>2. pc' \in Steps /\ result' \in Results /\ phase' \in Phases
      BY <2>3, <1>c, ReturnType DEF RouteAutoDeny
    <3>3. netlog' \in Seq(Connections)
      BY <2>3, ConnectType DEF RouteAutoDeny
    <3> QED
      BY <2>3, <3>1, <3>2, <3>3 DEF RouteAutoDeny, Frame, TypeOK
  <2>4. CASE RouteNoChannel
    <3>1. pc' \in Steps /\ result' \in Results /\ phase' \in Phases
      BY <2>4, <1>c, ReturnType DEF RouteNoChannel
    <3>2. netlog' \in Seq(Connections)
      BY <2>4, ConnectType DEF RouteNoChannel
    <3> QED
      BY <2>4, <3>1, <3>2 DEF RouteNoChannel, Frame, TypeOK
  <2>5. CASE RouteRequest
    <3>1. ledger' \in Seq(Entries)
      BY <2>5, <1>a, <1>b, EntryType DEF RouteRequest
    <3>2. pc' \in Steps /\ result' \in Results /\ phase' \in Phases
      BY <2>5, <1>d, GotoType DEF RouteRequest
    <3> QED
      BY <2>5, <3>1, <3>2 DEF RouteRequest, Frame, TypeOK
  <2>6. CASE RouteLive \/ RouteMiss
    <3>1. pc' \in Steps /\ result' \in Results /\ phase' \in Phases
      BY <2>6, <1>d, GotoType DEF RouteLive, RouteMiss
    <3>2. looked' \in Nat
      BY <2>6 DEF RouteLive, RouteMiss, Frame, TypeOK
    <3> QED
      BY <2>6, <3>1, <3>2 DEF RouteLive, RouteMiss, Frame, TypeOK
  <2> QED
    BY <1>7, <2>1, <2>2, <2>3, <2>4, <2>5, <2>6 DEF Route
<1>8. CASE Granted
  <2>1. ledger' \in Seq(Entries)
    BY <1>8, <1>a, <1>b, EntryType DEF Granted
  <2>2. pc' \in Steps /\ result' \in Results /\ phase' \in Phases
    BY <1>8, <1>d, GotoType DEF Granted
  <2> QED
    BY <1>8, <2>1, <2>2 DEF Granted, Frame, TypeOK
<1>24. CASE Cache
  <2>1. CASE Grant
    <3>1. pc' \in Steps /\ result' \in Results /\ phase' \in Phases
      BY <2>1, <1>d, GotoType DEF Grant
    <3>2. grants' \in [Keys -> GrantRecords]
      BY <2>1, GrantType DEF Grant
    <3> QED
      BY <2>1, <3>1, <3>2 DEF Grant, Frame, TypeOK
  <2>2. CASE Refuse
    <3>1. pc' \in Steps /\ result' \in Results /\ phase' \in Phases
      BY <2>2, <1>c, ReturnType DEF Refuse
    <3>2. grants' \in [Keys -> GrantRecords]
      BY <2>2, GrantType DEF Refuse
    <3>3. netlog' \in Seq(Connections)
      BY <2>2, ConnectType DEF Refuse
    <3> QED
      BY <2>2, <3>1, <3>2, <3>3 DEF Refuse, Frame, TypeOK
  <2> QED
    BY <1>24, <2>1, <2>2 DEF Cache
<1>9. CASE Issue
  <2>1. ledger' \in Seq(Entries)
    BY <1>9, <1>a, <1>b, EntryType DEF Issue
  <2>2. pc' \in Steps /\ result' \in Results /\ phase' \in Phases
    BY <1>9, ClearedType, GotoType DEF Issue
  <2> QED
    BY <1>9, <2>1, <2>2 DEF Issue, Frame, TypeOK
<1>10. CASE Rejected
  <2>1. ledger' \in Seq(Entries)
    BY <1>10, <1>a, <1>b, EntryType DEF Rejected
  <2>2. pc' \in Steps /\ result' \in Results /\ phase' \in Phases
    BY <1>10, <1>d, GotoType DEF Rejected
  <2> QED
    BY <1>10, <2>1, <2>2 DEF Rejected, Frame, TypeOK
<1>11. CASE TimedOut
  <2>1. ledger' \in Seq(Entries)
    BY <1>11, <1>a, <1>b, EntryType DEF TimedOut
  <2>2. pc' \in Steps /\ result' \in Results /\ phase' \in Phases
    BY <1>11, <1>c, ReturnType DEF TimedOut
  <2>3. netlog' \in Seq(Connections)
    BY <1>11, ConnectType DEF TimedOut
  <2> QED
    BY <1>11, <2>1, <2>2, <2>3 DEF TimedOut, Frame, TypeOK
<1>12. CASE QuotaPass
  <2>1. counts' \in [Classes -> Nat]
    BY <1>12, ClassType DEF QuotaPass, TypeOK
  <2>2. pc' \in Steps /\ result' \in Results /\ phase' \in Phases
    BY <1>12, <1>d, GotoType DEF QuotaPass
  <2> QED
    BY <1>12, <2>1, <2>2 DEF QuotaPass, Frame, TypeOK
<1>13. CASE QuotaBreach
  <2>1. ledger' \in Seq(Entries)
    BY <1>13, <1>a, <1>b, EntryType DEF QuotaBreach
  <2>2. pc' \in Steps /\ result' \in Results /\ phase' \in Phases
    BY <1>13, <1>c, ReturnType DEF QuotaBreach
  <2> QED
    BY <1>13, <2>1, <2>2 DEF QuotaBreach, Frame, TypeOK
<1>14. CASE McpUnattached
  <2>1. ledger' \in Seq(Entries)
    BY <1>14, <1>a, <1>b, EntryType DEF McpUnattached
  <2>2. pc' \in Steps /\ result' \in Results /\ phase' \in Phases
    BY <1>14, <1>c, ReturnType DEF McpUnattached
  <2> QED
    BY <1>14, <2>1, <2>2 DEF McpUnattached, Frame, TypeOK
<1>15. CASE Syscall
  <2>1. effects' \in Seq(EffectRecords)
    BY <1>15, EffectType DEF Syscall
  <2>2. pc' \in Steps /\ result' \in Results /\ phase' \in Phases
    BY <1>15, <1>d, GotoType DEF Syscall
  <2> QED
    BY <1>15, <2>1, <2>2 DEF Syscall, Frame, TypeOK
<1>16. CASE Record
  <2>1. ledger' \in Seq(Entries)
    BY <1>16, <1>a, <1>b, EntryType DEF Record
  <2>2. pc' \in Steps /\ result' \in Results /\ phase' \in Phases
    BY <1>16, <1>c, ReturnType DEF Record
  <2>3. ConnectOutcome \in {"allowed", "approved", "denied"}
    BY DEF ConnectOutcome
  <2>4. netlog' \in Seq(Connections)
    BY <1>16, <2>3, ConnectType DEF Record
  <2> QED
    BY <1>16, <2>1, <2>2, <2>4 DEF Record, Frame, TypeOK
<1>17. CASE Fault
  <2>1. CASE ChannelError
    <3>1. pc' \in Steps /\ result' \in Results /\ phase' \in Phases
      BY <2>1, <1>c, ReturnType DEF ChannelError
    <3>2. netlog' \in Seq(Connections)
      BY <2>1, ConnectType DEF ChannelError
    <3> QED
      BY <2>1, <3>1, <3>2 DEF ChannelError, Frame, TypeOK
  <2>2. CASE SyscallError
    <3>1. effects' \in Seq(EffectRecords)
      BY <2>2, EffectType DEF SyscallError, TypeOK
    <3>2. ErrorResult(cur) \in Results
      BY DEF ErrorResult, Results
    <3>3. pc' \in Steps /\ result' \in Results /\ phase' \in Phases
      BY <2>2, <3>2, ReturnType DEF SyscallError
    <3> QED
      BY <2>2, <3>1, <3>3 DEF SyscallError, Frame, TypeOK
  <2>3. CASE LedgerError
    <3>1. pc' \in Steps /\ result' \in Results /\ phase' \in Phases
      BY <2>3, <1>c, ReturnType DEF LedgerError
    <3>2. netlog' \in Seq(Connections)
      BY <2>3, ConnectType DEF LedgerError, TypeOK
    <3> QED
      BY <2>3, <3>1, <3>2 DEF LedgerError, Frame, TypeOK
  <2>4. CASE ShutdownError
    BY <2>4 DEF ShutdownError, Still, TypeOK, Phases, Over
  <2> QED
    BY <1>17, <2>1, <2>2, <2>3, <2>4 DEF Fault
<1>18. CASE Finish \/ Drop
  BY <1>18 DEF Finish, Drop, Still, TypeOK, Phases, Over
<1>19. CASE Attest
  <2>1. ledger' \in Seq(Entries)
    BY <1>19, <1>a, <1>b, EntryType DEF Attest
  <2>2. \A d : Tally(d) \in Nat
    <3> SUFFICES ASSUME NEW d PROVE Tally(d) \in Nat
      OBVIOUS
    <3>1. IsFiniteSet(1..Len(netlog))
      BY FS_Interval DEF TypeOK
    <3>2. {i \in DOMAIN netlog : netlog[i].decision = d} \subseteq 1..Len(netlog)
      BY DEF TypeOK
    <3> QED
      BY <3>1, <3>2, FS_Subset, FS_CardinalityType DEF Tally
  <2>3. attested' \in Seq(Summaries)
    <3>1. Summary \in Summaries
      <4>1. Len(netlog) \in Nat
        BY DEF TypeOK
      <4> QED
        BY <2>2, <4>1 DEF Summary, Summaries
    <3> QED
      <4>1. attested' = <<Summary>>
        BY <1>19 DEF Attest
      <4> QED
        BY <3>1, <4>1
  <2>4. phase' \in Phases
    BY <1>19 DEF Attest, Phases
  <2> QED
    BY <1>19, <2>1, <2>3, <2>4 DEF Attest, Still, TypeOK
<1>20. CASE End
  <2>1. ledger' \in Seq(Entries)
    BY <1>20, <1>a, <1>b, EntryType DEF End
  <2> QED
    BY <1>20, <2>1 DEF End, Still, TypeOK, Phases, Over
<1>21. CASE Crash
  BY <1>21, <1>d DEF Crash, TypeOK, Phases, Over
<1>22. CASE Tick \/ Drift
  BY <1>22 DEF Tick, Drift, TypeOK
<1>23. CASE Terminated \/ UNCHANGED vars
  BY <1>23 DEF Terminated, vars, TypeOK
<1> QED
  BY <1>1, <1>2, <1>3, <1>4, <1>5, <1>6, <1>7, <1>8, <1>9, <1>10, <1>11, <1>12,
     <1>13, <1>14, <1>15, <1>16, <1>17, <1>18, <1>19, <1>20, <1>21, <1>22, <1>23, <1>24
  DEF Next, Check, Answer, Perform

\* Every variable of a session keeps its type.
THEOREM TypeCorrect == Spec => []TypeOK
BY TypeInit, TypeNext, PTL DEF Spec

-----------------------------------------------------------------------------
(***************************************************************************)
(* EffectsAuthorised is not inductive: it says nothing of a call on its    *)
(* way to the operation.  GateInv adds what each step has established.     *)
(***************************************************************************)
Gated(op, t) == Verdict(op, t) = "approval"

\* The last entry of the ledger lets the current operation through.
JustPermitted ==
    Len(ledger) \in DOMAIN ledger /\ Permits(ledger[Len(ledger)], cur)

GateInv ==
    /\ phase # "running" => pc = "idle"
    /\ pc \in {"route", "consume", "ask", "await", "grant", "refuse", "issue"} =>
          Gated(cur, checked)
    /\ pc \in {"quota", "syscall"} =>
          Verdict(cur, checked) = "allow" \/ (Gated(cur, checked) /\ JustPermitted)

AuthInv == TypeOK /\ GateInv /\ EffectsAuthorised

LEMMA ReturnGate == ASSUME NEW r, Return(r) PROVE GateInv'
BY DEF Return, GateInv

LEMMA AuthInit == Init => AuthInv
BY TypeInit DEF Init, AuthInv, GateInv, EffectsAuthorised

\* Appending to the ledger takes no authorisation away.
LEMMA AppendKeepsAuth ==
    ASSUME TypeOK, EffectsAuthorised, effects' = effects,
           NEW t \in EntryTypes, NEW d \in Details, NEW g \in Nat, Log(t, d, g)
    PROVE  EffectsAuthorised'
<1> SUFFICES ASSUME NEW i \in DOMAIN effects PROVE EffectAuthorised(effects[i])'
  BY DEF EffectsAuthorised
<1>1. EffectAuthorised(effects[i])
  BY DEF EffectsAuthorised
<1>2. \A j \in DOMAIN ledger : j \in DOMAIN ledger' /\ ledger'[j] = ledger[j]
  BY EntryType
<1> QED
  BY <1>1, <1>2 DEF EffectAuthorised

\* The step that logs a permitting decision and goes on to the operation.
LEMMA PermitGate ==
    ASSUME AuthInv, At("route") \/ At("consume") \/ At("issue"), cur' = cur, checked' = checked,
           NEW d \in {"auto_advisory", "auto_consumed_allow", "grant_issued"},
           NEW g \in Nat, Log("approval_decision", d, g), Goto(Cleared(cur))
    PROVE  GateInv'
<1>1. "approval_decision" \in EntryTypes /\ d \in Details
  BY DEF EntryTypes, Details
<1>2. /\ Len(ledger') = Len(ledger) + 1 /\ ledger' \in Seq(Entries)
      /\ ledger'[Len(ledger')] = Entry("approval_decision", d, g)
  BY <1>1, EntryType DEF AuthInv
<1>3. Len(ledger') \in DOMAIN ledger'
  BY <1>2 DEF AuthInv, TypeOK
<1>4. JustPermitted'
  BY <1>2, <1>3 DEF JustPermitted, Permits, Entry
<1>5. Gated(cur, checked)'
  BY DEF AuthInv, GateInv, At, Gated
<1> QED
  BY <1>4, <1>5 DEF GateInv, Goto, Cleared, At

\* The effect that a step appends is authorised, the earlier ones stay so.
LEMMA EffectAuth ==
    ASSUME AuthInv, At("syscall"), ledger' = ledger, NEW ok \in BOOLEAN,
           effects' = Append(effects, Effect(ok))
    PROVE  EffectsAuthorised'
<1>1. effects \in Seq(EffectRecords)
  BY DEF AuthInv, TypeOK
<1> SUFFICES ASSUME NEW i \in DOMAIN effects' PROVE EffectAuthorised(effects[i])'
  BY DEF EffectsAuthorised
<1>2. CASE i \in DOMAIN effects
  <2>1. effects'[i] = effects[i]
    BY <1>1, <1>2
  <2>2. EffectAuthorised(effects[i])
    BY <1>2 DEF AuthInv, EffectsAuthorised
  <2> QED
    BY <2>1, <2>2 DEF EffectAuthorised
<1>3. CASE i \notin DOMAIN effects
  <2>1. effects'[i] = Effect(ok)
    BY <1>1, <1>3
  <2>2. Verdict(cur, checked) = "allow" \/ (Gated(cur, checked) /\ JustPermitted)
    BY DEF AuthInv, GateInv, At
  <2>3. /\ Effect(ok).op = cur /\ Effect(ok).checked = checked
        /\ Effect(ok).after = Len(ledger)
    BY DEF Effect
  <2> QED
    BY <2>1, <2>2, <2>3 DEF EffectAuthorised, JustPermitted, Gated
<1> QED
  BY <1>2, <1>3

LEMMA AuthNext == AuthInv /\ [Next]_vars => AuthInv'
<1> SUFFICES ASSUME AuthInv, [Next]_vars PROVE AuthInv'
  OBVIOUS
<1>t. TypeOK /\ TypeOK'
  BY TypeNext DEF AuthInv
<1>a. /\ {"violation", "approval_request", "approval_granted", "approval_rejected",
          "approval_timed_out", "approval_decision", "access",
          "network_attestation", "session_end"} \subseteq EntryTypes
      /\ {"", "identity_rebind", "policy", "aggregate_cap", "no_mcp_client",
          "auto_advisory", "auto_consumed_allow", "auto_consumed_deny",
          "grant_issued"} \subseteq Details
      /\ 0 \in Nat /\ grants[Key(cur)].id \in Nat
  BY <1>t, CachedType DEF EntryTypes, Details, GrantRecords
<1>e. ASSUME effects' = effects, ledger' = ledger PROVE EffectsAuthorised'
  BY <1>e DEF AuthInv, EffectsAuthorised, EffectAuthorised
<1> USE <1>t
<1>1. ASSUME NEW op \in Ops, Begin(op) PROVE AuthInv'
  <2>1. phase' = phase /\ phase = "running" /\ pc' = "rebind"
    BY <1>1 DEF Begin, Goto, At
  <2>2. GateInv'
    BY <2>1 DEF GateInv
  <2>3. EffectsAuthorised'
    BY <1>1, <1>e DEF Begin
  <2> QED
    BY <2>2, <2>3 DEF AuthInv
<1>2. CASE Rebind
  <2>1. GateInv'
    BY <1>2, ReturnGate DEF Rebind, Goto, At, AuthInv, GateInv
  <2>2. EffectsAuthorised'
    BY <1>2, <1>a, <1>e, AppendKeepsAuth DEF Rebind, AuthInv
  <2> QED
    BY <2>1, <2>2 DEF AuthInv
<1>3. CASE CheckAllow
  BY <1>3, <1>e DEF CheckAllow, Goto, Cleared, Frame, At, AuthInv, GateInv
<1>4. CASE CheckDeny
  <2>1. EffectsAuthorised'
    BY <1>4, <1>a, AppendKeepsAuth DEF CheckDeny, AuthInv
  <2> QED
    BY <1>4, <2>1, ReturnGate DEF CheckDeny, AuthInv
<1>5. CASE CheckGated
  <2>1. GateInv'
    BY <1>5, ReturnGate DEF CheckGated, Goto, Frame, At, AuthInv, GateInv, Gated
  <2> QED
    BY <1>5, <2>1, <1>e DEF CheckGated, AuthInv
<1>6. CASE CheckMalformed
  BY <1>6, <1>e, ReturnGate DEF CheckMalformed, AuthInv
<1>7. CASE Route
  <2>1. CASE RouteAdvisory
    <3>1. EffectsAuthorised'
      BY <2>1, <1>a, AppendKeepsAuth DEF RouteAdvisory, AuthInv
    <3>2. GateInv'
      BY <2>1, <1>a, PermitGate DEF RouteAdvisory, Frame
    <3> QED
      BY <3>1, <3>2 DEF AuthInv
  <2>2. CASE RouteAutoAllow
    <3>1. EffectsAuthorised'
      BY <2>2, <1>a, AppendKeepsAuth DEF RouteAutoAllow, AuthInv
    <3>2. GateInv'
      BY <2>2, <1>a, PermitGate DEF RouteAutoAllow, Frame
    <3> QED
      BY <3>1, <3>2 DEF AuthInv
  <2>3. CASE RouteAutoDeny
    <3>1. EffectsAuthorised'
      BY <2>3, <1>a, AppendKeepsAuth DEF RouteAutoDeny, AuthInv
    <3> QED
      BY <2>3, <3>1, ReturnGate DEF RouteAutoDeny, AuthInv
  <2>4. CASE RouteNoChannel
    BY <2>4, <1>e, ReturnGate DEF RouteNoChannel, AuthInv
  <2>5. CASE RouteRequest
    <3>1. EffectsAuthorised'
      BY <2>5, <1>a, AppendKeepsAuth DEF RouteRequest, AuthInv
    <3>2. GateInv'
      BY <2>5 DEF RouteRequest, Goto, Frame, At, AuthInv, GateInv
    <3> QED
      BY <3>1, <3>2 DEF AuthInv
  <2>6. CASE RouteLive \/ RouteMiss
    <3>1. GateInv'
      BY <2>6 DEF RouteLive, RouteMiss, Goto, Frame, At, AuthInv, GateInv
    <3> QED
      BY <2>6, <3>1, <1>e DEF RouteLive, RouteMiss, AuthInv
  <2> QED
    BY <1>7, <2>1, <2>2, <2>3, <2>4, <2>5, <2>6 DEF Route
<1>8. CASE Granted
  <2>1. EffectsAuthorised'
    BY <1>8, <1>a, AppendKeepsAuth DEF Granted, AuthInv
  <2>2. GateInv'
    BY <1>8 DEF Granted, Goto, Frame, At, AuthInv, GateInv
  <2> QED
    BY <2>1, <2>2 DEF AuthInv
<1>9. CASE Issue
  <2>1. EffectsAuthorised'
    BY <1>9, <1>a, AppendKeepsAuth DEF Issue, AuthInv
  <2>2. GateInv'
    BY <1>9, <1>a, PermitGate DEF Issue, Frame
  <2> QED
    BY <2>1, <2>2 DEF AuthInv
<1>10. CASE Rejected
  <2>1. EffectsAuthorised'
    BY <1>10, <1>a, AppendKeepsAuth DEF Rejected, AuthInv
  <2>2. GateInv'
    BY <1>10 DEF Rejected, Goto, Frame, At, AuthInv, GateInv
  <2> QED
    BY <2>1, <2>2 DEF AuthInv
<1>22. CASE Cache
  <2>1. GateInv'
    BY <1>22, ReturnGate DEF Cache, Grant, Refuse, Goto, Frame, At, AuthInv, GateInv
  <2> QED
    BY <1>22, <2>1, <1>e DEF Cache, Grant, Refuse, AuthInv
<1>11. CASE TimedOut
  <2>1. EffectsAuthorised'
    BY <1>11, <1>a, AppendKeepsAuth DEF TimedOut, AuthInv
  <2> QED
    BY <1>11, <2>1, ReturnGate DEF TimedOut, AuthInv
<1>12. CASE QuotaPass
  <2>1. GateInv'
    BY <1>12 DEF QuotaPass, Goto, Frame, At, AuthInv, GateInv, JustPermitted
  <2> QED
    BY <1>12, <2>1, <1>e DEF QuotaPass, AuthInv
<1>13. CASE QuotaBreach
  <2>1. EffectsAuthorised'
    BY <1>13, <1>a, AppendKeepsAuth DEF QuotaBreach, AuthInv
  <2> QED
    BY <1>13, <2>1, ReturnGate DEF QuotaBreach, AuthInv
<1>14. CASE McpUnattached
  <2>1. EffectsAuthorised'
    BY <1>14, <1>a, AppendKeepsAuth DEF McpUnattached, AuthInv
  <2> QED
    BY <1>14, <2>1, ReturnGate DEF McpUnattached, AuthInv
<1>15. CASE Syscall
  <2>1. EffectsAuthorised'
    BY <1>15, EffectAuth DEF Syscall
  <2>2. GateInv'
    BY <1>15 DEF Syscall, Goto, At, AuthInv, GateInv
  <2> QED
    BY <2>1, <2>2 DEF AuthInv
<1>16. CASE Record
  <2>1. EffectsAuthorised'
    BY <1>16, <1>a, AppendKeepsAuth DEF Record, AuthInv
  <2> QED
    BY <1>16, <2>1, ReturnGate DEF Record, AuthInv
<1>17. CASE Fault
  <2>1. CASE ChannelError
    BY <2>1, <1>e, ReturnGate DEF ChannelError, AuthInv
  <2>2. CASE SyscallError
    <3>1. EffectsAuthorised'
      BY <2>2, <1>e, EffectAuth DEF SyscallError
    <3> QED
      BY <2>2, <3>1, ReturnGate DEF SyscallError, AuthInv
  <2>3. CASE LedgerError
    BY <2>3, <1>e, ReturnGate DEF LedgerError, AuthInv
  <2>4. CASE ShutdownError
    BY <2>4, <1>e DEF ShutdownError, Still, AuthInv, GateInv
  <2> QED
    BY <1>17, <2>1, <2>2, <2>3, <2>4 DEF Fault
<1>18. CASE Finish \/ Drop
  BY <1>18, <1>e DEF Finish, Drop, Still, At, AuthInv, GateInv
<1>19. CASE Attest \/ End
  <2>1. effects' = effects /\ pc' = pc /\ phase # "running"
    BY <1>19 DEF Attest, End, Still
  <2>2. EffectsAuthorised'
    BY <1>19, <2>1, <1>a, AppendKeepsAuth DEF Attest, End, AuthInv
  <2> QED
    BY <2>1, <2>2 DEF AuthInv, GateInv
<1>20. CASE Crash
  BY <1>20, <1>e DEF Crash, AuthInv, GateInv
<1>21. CASE Tick \/ Drift \/ Terminated \/ UNCHANGED vars
  <2>1. UNCHANGED <<phase, pc, cur, checked, ledger, effects>>
    BY <1>21 DEF Tick, Drift, Terminated, vars
  <2> QED
    BY <2>1, <1>e DEF AuthInv, GateInv, JustPermitted
<1> QED
  BY <1>1, <1>2, <1>3, <1>4, <1>5, <1>6, <1>7, <1>8, <1>9, <1>10, <1>11, <1>12,
     <1>13, <1>14, <1>15, <1>16, <1>17, <1>18, <1>19, <1>20, <1>21, <1>22
  DEF Next, Check, Answer, Perform

\* Every effect was allowed by the policy or carries its permitting decision.
THEOREM Authorised == Spec => []EffectsAuthorised
<1>1. AuthInv => EffectsAuthorised
  BY DEF AuthInv
<1> QED
  BY AuthInit, AuthNext, <1>1, PTL DEF Spec

-----------------------------------------------------------------------------
(***************************************************************************)
(* QuotaHolds counts effects, the code counts the calls it lets through:   *)
(* QuotaInv relates the two, with the call that is charged and not yet     *)
(* performed, and keeps the counters under their caps.                     *)
(***************************************************************************)
InFlight(c) == IF pc = "syscall" /\ Class(cur) = c THEN 1 ELSE 0

Capped == Classes \ {<<"network">>}

QuotaInv ==
    \A c \in Capped :
        /\ Cardinality(Performed(c)) + InFlight(c) <= counts[c]
        /\ \A cap \in Cap[c] : counts[c] <= cap

LEMMA ConnectClass ==
    ASSUME NEW op \in Ops, op.kind = "connect" PROVE Class(op) = <<"network">>
BY DEF Class

LEMMA CountsType ==
    ASSUME TypeOK, NEW c \in Capped PROVE counts[c] \in Nat /\ Cap[c] \subseteq Nat
BY ManifestAssumption DEF TypeOK, Capped

LEMMA PerformedFinite ==
    ASSUME TypeOK, NEW c
    PROVE  IsFiniteSet(Performed(c)) /\ Cardinality(Performed(c)) \in Nat
<1>1. IsFiniteSet(1..Len(effects))
  BY FS_Interval DEF TypeOK
<1>2. Performed(c) \subseteq 1..Len(effects)
  BY DEF Performed, TypeOK
<1> QED
  BY <1>1, <1>2, FS_Subset, FS_CardinalityType

\* One more effect is at most one more operation of the current class.
LEMMA PerformedAppend ==
    ASSUME TypeOK, NEW c, NEW ok, effects' = Append(effects, Effect(ok))
    PROVE  Cardinality(Performed(c)') <=
              Cardinality(Performed(c)) + (IF Class(cur) = c THEN 1 ELSE 0)
<1>1. effects \in Seq(EffectRecords)
  BY DEF TypeOK
<1>2. Effect(ok).op = cur
  BY DEF Effect
<1>3. /\ Len(effects') = Len(effects) + 1 /\ effects'[Len(effects) + 1] = Effect(ok)
      /\ DOMAIN effects' = DOMAIN effects \cup {Len(effects) + 1}
      /\ \A i \in DOMAIN effects : effects'[i] = effects[i]
  BY <1>1
<1>4. Performed(c)' = Performed(c) \cup
                        (IF Class(cur) = c THEN {Len(effects) + 1} ELSE {})
  BY <1>2, <1>3 DEF Performed
<1>5. IsFiniteSet(Performed(c)) /\ Cardinality(Performed(c)) \in Nat
  BY PerformedFinite
<1>6. CASE Class(cur) = c
  <2>1. Performed(c)' = Performed(c) \cup {Len(effects) + 1}
    BY <1>4, <1>6
  <2>2. \/ Cardinality(Performed(c)') = Cardinality(Performed(c)) + 1
        \/ Cardinality(Performed(c)') = Cardinality(Performed(c))
    BY <1>5, <2>1, FS_AddElement
  <2> QED
    BY <1>5, <1>6, <2>2
<1>7. CASE Class(cur) # c
  BY <1>4, <1>5, <1>7
<1> QED
  BY <1>6, <1>7

\* A step that performs and charges nothing keeps QuotaInv, if the only
\* operation it can clear without a charge is a connect.
LEMMA QuotaSame ==
    ASSUME TypeOK, QuotaInv, effects' = effects, counts' = counts,
           pc' = "syscall" => \/ pc = "syscall" /\ cur' = cur
                              \/ Class(cur') = <<"network">>
    PROVE  QuotaInv'
<1> SUFFICES ASSUME NEW c \in Capped
             PROVE  /\ Cardinality(Performed(c)) + InFlight(c)' <= counts[c]
                    /\ \A cap \in Cap[c] : counts[c] <= cap
  <2>1. \A c \in Capped : Performed(c)' = Performed(c)
    BY DEF Performed
  <2> QED
    BY <2>1 DEF QuotaInv, Capped, Classes
<1>1. InFlight(c)' = 0 \/ InFlight(c)' = InFlight(c)
  BY DEF InFlight, Capped
<1>2. /\ Cardinality(Performed(c)) \in Nat /\ counts[c] \in Nat
      /\ InFlight(c) \in Nat
  BY PerformedFinite, CountsType DEF InFlight
<1> QED
  BY <1>1, <1>2 DEF QuotaInv

\* A step that clears the current operation.
LEMMA QuotaCleared ==
    ASSUME TypeOK, QuotaInv, effects' = effects, counts' = counts, cur' = cur,
           Goto(Cleared(cur))
    PROVE  QuotaInv'
<1>1. pc' = "syscall" => Class(cur') = <<"network">>
  BY ConnectClass DEF Goto, Cleared, Charged, TypeOK
<1> QED
  BY <1>1, QuotaSame

\* The charged operation is performed, or fails with or without effect.
LEMMA QuotaPerform ==
    ASSUME TypeOK, QuotaInv, pc = "syscall", pc' # "syscall", counts' = counts,
           NEW ok, effects' = effects \/ effects' = Append(effects, Effect(ok))
    PROVE  QuotaInv'
<1>1. CASE effects' = effects
  BY <1>1, QuotaSame
<1>2. CASE effects' = Append(effects, Effect(ok))
  <2> SUFFICES ASSUME NEW c \in Capped
               PROVE  Cardinality(Performed(c)') + InFlight(c)' <= counts[c]
    BY DEF QuotaInv, Capped, Classes
  <2>1. Cardinality(Performed(c)') <= Cardinality(Performed(c)) + InFlight(c)
    BY <1>2, PerformedAppend DEF InFlight
  <2>2. InFlight(c)' = 0
    BY DEF InFlight
  <2>3. /\ Cardinality(Performed(c)) \in Nat /\ counts[c] \in Nat
        /\ InFlight(c) \in Nat
    BY PerformedFinite, CountsType DEF InFlight
  <2>4. Cardinality(Performed(c)') \in Nat
    <3>1. IsFiniteSet(Performed(c)) /\ IsFiniteSet(Performed(c)')
      <4>1. effects \in Seq(EffectRecords)
        BY DEF TypeOK
      <4>2. Performed(c)' \subseteq 1..(Len(effects) + 1)
        BY <1>2, <4>1 DEF Performed
      <4>3. IsFiniteSet(1..(Len(effects) + 1))
        BY <4>1, FS_Interval
      <4> QED
        BY <4>2, <4>3, FS_Subset, PerformedFinite
    <3> QED
      BY <3>1, FS_CardinalityType
  <2>5. Cardinality(Performed(c)) + InFlight(c) <= counts[c]
    BY DEF QuotaInv
  <2> QED
    BY <2>1, <2>2, <2>3, <2>4, <2>5
<1> QED
  BY <1>1, <1>2

LEMMA QuotaInit == Init => QuotaInv
<1> SUFFICES ASSUME Init, NEW c \in Capped
             PROVE  /\ Cardinality(Performed(c)) + InFlight(c) <= counts[c]
                    /\ \A cap \in Cap[c] : counts[c] <= cap
  BY DEF QuotaInv
<1>1. Performed(c) = {}
  BY DEF Init, Performed
<1>2. counts[c] = 0 /\ InFlight(c) = 0
  BY DEF Init, InFlight, Capped
<1>3. Cap[c] \subseteq Nat
  BY ManifestAssumption DEF Capped
<1> QED
  BY <1>1, <1>2, <1>3, FS_EmptySet

LEMMA QuotaNext == TypeOK /\ QuotaInv /\ [Next]_vars => QuotaInv'
<1> SUFFICES ASSUME TypeOK, QuotaInv, [Next]_vars PROVE QuotaInv'
  OBVIOUS
<1>1. ASSUME NEW op \in Ops, Begin(op) PROVE QuotaInv'
  BY <1>1, QuotaSame DEF Begin, Goto
<1>2. CASE Rebind
  BY <1>2, QuotaSame DEF Rebind, Goto, Return
<1>3. CASE Check
  <2>1. CASE CheckAllow
    BY <2>1, QuotaCleared DEF CheckAllow, Frame
  <2>2. CASE CheckDeny \/ CheckGated \/ CheckMalformed
    BY <2>2, QuotaSame DEF CheckDeny, CheckGated, CheckMalformed, Goto, Return
  <2> QED
    BY <1>3, <2>1, <2>2 DEF Check
<1>4. CASE Route
  <2>1. CASE RouteAdvisory \/ RouteAutoAllow
    BY <2>1, QuotaCleared DEF RouteAdvisory, RouteAutoAllow, Frame
  <2>2. CASE RouteLive \/ RouteAutoDeny \/ RouteNoChannel \/ RouteMiss \/ RouteRequest
    BY <2>2, QuotaSame
    DEF RouteLive, RouteAutoDeny, RouteNoChannel, RouteMiss, RouteRequest, Goto, Return
  <2> QED
    BY <1>4, <2>1, <2>2 DEF Route
<1>5. CASE Answer \/ Cache
  BY <1>5, QuotaSame DEF Answer, Granted, Rejected, TimedOut, Cache, Grant, Refuse, Goto, Return
<1>6. CASE Issue
  BY <1>6, QuotaCleared DEF Issue, Frame
<1>7. CASE QuotaPass
  <2> SUFFICES ASSUME NEW c \in Capped
               PROVE  /\ Cardinality(Performed(c)) + InFlight(c)' <= counts'[c]
                      /\ \A cap \in Cap[c] : counts'[c] <= cap
    <3>1. effects' = effects
      BY <1>7 DEF QuotaPass
    <3>2. \A c \in Capped : Performed(c)' = Performed(c)
      BY <3>1 DEF Performed
    <3> QED
      BY <3>2 DEF QuotaInv, Capped, Classes
  <2>1. /\ Cardinality(Performed(c)) \in Nat /\ counts[c] \in Nat
        /\ Cap[c] \subseteq Nat
    BY PerformedFinite, CountsType
  <2>2. /\ Cardinality(Performed(c)) + InFlight(c) <= counts[c]
        /\ \A cap \in Cap[c] : counts[c] <= cap
    BY DEF QuotaInv
  <2>3. InFlight(c) = 0
    BY <1>7 DEF QuotaPass, At, InFlight
  <2>4. counts' = [counts EXCEPT ![Class(cur)] = @ + 1] /\ cur' = cur
    BY <1>7 DEF QuotaPass, Frame
  <2>5. counts \in [Classes -> Nat] /\ c \in Classes /\ Class(cur) \in Classes
    BY ClassType DEF TypeOK, Capped
  <2>6. CASE Class(cur) = c
    <3>1. counts'[c] = counts[c] + 1 /\ InFlight(c)' \in {0, 1}
      BY <2>4, <2>5, <2>6 DEF InFlight
    <3>2. \A cap \in Cap[c] : ~(counts[c] >= cap)
      BY <1>7, <2>6 DEF QuotaPass, OverCap
    <3> QED
      BY <2>1, <2>2, <2>3, <3>1, <3>2
  <2>7. CASE Class(cur) # c
    <3>1. counts'[c] = counts[c] /\ InFlight(c)' = 0
      BY <2>4, <2>5, <2>7 DEF InFlight
    <3> QED
      BY <2>1, <2>2, <2>3, <3>1
  <2> QED
    BY <2>6, <2>7
<1>8. CASE QuotaBreach \/ McpUnattached \/ Record
  BY <1>8, QuotaSame DEF QuotaBreach, McpUnattached, Record, Return
<1>9. CASE Syscall
  BY <1>9, QuotaPerform DEF Syscall, At, Goto
<1>10. CASE Fault
  <2>1. CASE SyscallError
    <3>1. effects' = effects \/ effects' = Append(effects, Effect(FALSE))
      BY <2>1 DEF SyscallError
    <3> QED
      BY <2>1, <3>1, QuotaPerform DEF SyscallError, At, Return
  <2>2. CASE ChannelError \/ LedgerError
    BY <2>2, QuotaSame DEF ChannelError, LedgerError, Return
  <2>3. CASE ShutdownError
    BY <2>3, QuotaSame DEF ShutdownError, Still
  <2> QED
    BY <1>10, <2>1, <2>2, <2>3 DEF Fault
<1>11. CASE Finish \/ Drop \/ Attest \/ End
  BY <1>11, QuotaSame DEF Finish, Drop, Attest, End, Still
<1>12. CASE Crash
  BY <1>12, QuotaSame DEF Crash
<1>13. CASE Tick \/ Drift \/ Terminated \/ UNCHANGED vars
  BY <1>13, QuotaSame DEF Tick, Drift, Terminated, vars
<1> QED
  BY <1>1, <1>2, <1>3, <1>4, <1>5, <1>6, <1>7, <1>8, <1>9, <1>10, <1>11, <1>12,
     <1>13 DEF Next, Perform

\* The caps of every class but the network bound what is really performed.
THEOREM QuotaCorrect == Spec => []QuotaHolds
<1>1. TypeOK /\ QuotaInv => QuotaHolds
  <2> SUFFICES ASSUME TypeOK, QuotaInv, NEW c \in Capped, NEW cap \in Cap[c]
               PROVE  Cardinality(Performed(c)) <= cap
    BY DEF QuotaHolds, Capped
  <2>1. /\ Cardinality(Performed(c)) \in Nat /\ counts[c] \in Nat
        /\ InFlight(c) \in Nat /\ cap \in Nat
    BY PerformedFinite, CountsType DEF InFlight
  <2> QED
    BY <2>1 DEF QuotaInv
<1> QED
  BY TypeInit, TypeNext, QuotaInit, QuotaNext, <1>1, PTL DEF Spec
=============================================================================
