------------------------- MODULE MediatorLedgerProof -------------------------
(***************************************************************************)
(* What an auditor may read off a session's ledger, for every manifest,    *)
(* set of operations, driver and number of calls and faults: that drift    *)
(* halted the agent, the approval decisions, what the calls returned, the  *)
(* network attestation and the access entries.                             *)
(***************************************************************************)
EXTENDS MediatorProof

(***************************************************************************)
(* HaltOnDrift looks only at what follows a violation.  It is kept because *)
(* a session that still runs has none, and because an effect remembers a   *)
(* length of the ledger that was reached.                                  *)
(***************************************************************************)
EffectsBefore == \A k \in DOMAIN effects : effects[k].after <= Len(ledger)

RunsUndrifted == (boot.driver # "ui" /\ phase = "running") => Rebound = {}

DriftInv == EffectsBefore /\ RunsUndrifted /\ HaltOnDrift

-----------------------------------------------------------------------------
(* What a step may do to the ledger and to the effects.                    *)

Harmless ==
    \/ ledger' = ledger
    \/ \E t \in EntryTypes, d \in Details \ {"identity_rebind"}, g \in Nat : Log(t, d, g)

Performs ==
    effects' = effects \/ \E ok \in BOOLEAN : effects' = Append(effects, Effect(ok))

LEMMA LedgerType ==
    ASSUME TypeOK
    PROVE  /\ ledger \in Seq(Entries) /\ Len(ledger) \in Nat
           /\ DOMAIN ledger = 1..Len(ledger)
<1>1. ledger \in Seq(Entries)
  BY DEF TypeOK
<1> QED
  BY <1>1

LEMMA NextLedgerType ==
    ASSUME TypeOK'
    PROVE  ledger' \in Seq(Entries) /\ Len(ledger') \in Nat
<1>1. ledger' \in Seq(Entries)
  BY DEF TypeOK
<1> QED
  BY <1>1

LEMMA AfterType ==
    ASSUME TypeOK, NEW k \in DOMAIN effects
    PROVE  effects[k].after \in Nat
<1>1. effects \in Seq(EffectRecords)
  BY DEF TypeOK
<1>2. effects[k] \in EffectRecords
  BY <1>1
<1> QED
  BY <1>2 DEF EffectRecords

LEMMA LastOrEarlier ==
    ASSUME NEW n \in Nat, NEW i \in 1..n, NEW j \in (i + 1)..(n + 1), j # n + 1
    PROVE  j \in (i + 1)..n /\ j \in 1..n
OBVIOUS

LEMMA HarmlessKeeps ==
    ASSUME TypeOK, Harmless
    PROVE  /\ Rebound' = Rebound
           /\ Len(ledger) <= Len(ledger')
<1>1. CASE ledger' = ledger
  BY <1>1, LedgerType DEF Rebound
<1>2. CASE \E t \in EntryTypes, d \in Details \ {"identity_rebind"}, g \in Nat : Log(t, d, g)
  <2>1. PICK t \in EntryTypes, d \in Details \ {"identity_rebind"}, g \in Nat : Log(t, d, g)
    BY <1>2
  <2>2. /\ ledger' \in Seq(Entries) /\ Len(ledger') = Len(ledger) + 1
        /\ ledger'[Len(ledger')] = Entry(t, d, g)
        /\ \A i \in DOMAIN ledger : i \in DOMAIN ledger' /\ ledger'[i] = ledger[i]
    BY <2>1, EntryType
  <2>3. ledger'[Len(ledger) + 1].detail # "identity_rebind"
    BY <2>1, <2>2 DEF Entry
  <2>4. DOMAIN ledger = 1..Len(ledger) /\ DOMAIN ledger' = 1..(Len(ledger) + 1)
    BY <2>2, LedgerType
  <2> QED
    BY <2>2, <2>3, <2>4, LedgerType DEF Rebound
<1> QED
  BY <1>1, <1>2 DEF Harmless

LEMMA PerformsKeeps ==
    ASSUME TypeOK, EffectsBefore, Performs, Len(ledger') \in Nat,
           Len(ledger) <= Len(ledger')
    PROVE  EffectsBefore'
<1>1. effects \in Seq(EffectRecords) /\ Len(ledger) \in Nat
  BY LedgerType DEF TypeOK
<1>2. \A k \in DOMAIN effects : effects[k].after \in Nat
  BY AfterType
<1>3. CASE effects' = effects
  BY <1>1, <1>2, <1>3 DEF EffectsBefore
<1>4. CASE \E ok \in BOOLEAN : effects' = Append(effects, Effect(ok))
  <2>1. PICK ok \in BOOLEAN : effects' = Append(effects, Effect(ok))
    BY <1>4
  <2>2. Effect(ok).after = Len(ledger)
    BY DEF Effect
  <2> SUFFICES ASSUME NEW k \in DOMAIN effects' PROVE effects'[k].after <= Len(ledger')
    BY DEF EffectsBefore
  <2>3. CASE k \in DOMAIN effects
    BY <1>1, <1>2, <2>1, <2>3 DEF EffectsBefore
  <2>4. CASE k \notin DOMAIN effects
    <3>1. effects'[k] = Effect(ok)
      BY <1>1, <2>1, <2>4
    <3> QED
      BY <2>2, <3>1
  <2> QED
    BY <2>3, <2>4
<1> QED
  BY <1>3, <1>4 DEF Performs

-----------------------------------------------------------------------------
(* The three kinds of steps.                                               *)

\* A step of a running session that finds no drift.
LEMMA RunningStep ==
    ASSUME TypeOK, TypeOK', DriftInv, phase = "running", boot' = boot, Harmless, Performs
    PROVE  DriftInv'
<1>1. Rebound' = Rebound /\ Len(ledger) <= Len(ledger')
  BY HarmlessKeeps
<1>2. Len(ledger') \in Nat
  BY NextLedgerType
<1>3. EffectsBefore'
  BY <1>1, <1>2, PerformsKeeps DEF DriftInv
<1>4. boot.driver # "ui" => Rebound' = {}
  BY <1>1 DEF DriftInv, RunsUndrifted
<1> QED
  BY <1>3, <1>4 DEF DriftInv, RunsUndrifted, HaltOnDrift

\* The violation itself: the driver, unless it is the UI, leaves the session's run.
LEMMA ViolationStep ==
    ASSUME TypeOK, TypeOK', DriftInv, phase = "running", boot' = boot, effects' = effects,
           Log("violation", "identity_rebind", 0), Return("rebind")
    PROVE  DriftInv'
<1>1. "violation" \in EntryTypes /\ "identity_rebind" \in Details /\ 0 \in Nat
  BY DEF EntryTypes, Details
<1>2. /\ ledger' \in Seq(Entries) /\ Len(ledger') = Len(ledger) + 1
      /\ \A i \in DOMAIN ledger : i \in DOMAIN ledger' /\ ledger'[i] = ledger[i]
  BY <1>1, EntryType
<1>3. EffectsBefore'
  BY <1>2, LedgerType, PerformsKeeps DEF DriftInv, Performs
<1>4. ASSUME boot.driver # "ui" PROVE phase' # "running" /\ Rebound' \subseteq {Len(ledger')}
  <2>1. phase' # "running"
    BY <1>4 DEF Return, AfterCall
  <2>2. Rebound = {}
    BY <1>4 DEF DriftInv, RunsUndrifted
  <2>3. DOMAIN ledger = 1..Len(ledger) /\ DOMAIN ledger' = 1..(Len(ledger) + 1)
    BY <1>2, LedgerType
  <2> QED
    BY <1>2, <2>1, <2>2, <2>3, LedgerType DEF Rebound
<1>5. HaltOnDrift'
  <2> SUFFICES ASSUME boot.driver # "ui", NEW i \in Rebound'
               PROVE  /\ \A j \in (i + 1)..Len(ledger') :
                            ledger'[j].type \in {"network_attestation", "session_end"}
                      /\ \A k \in DOMAIN effects' : effects'[k].after < i
    BY DEF HaltOnDrift
  <2>1. i = Len(ledger) + 1 /\ Len(ledger) \in Nat
    BY <1>2, <1>4, LedgerType
  <2>2. \A j \in (i + 1)..Len(ledger') : FALSE
    BY <1>2, <2>1
  <2>3. \A k \in DOMAIN effects : effects[k].after \in Nat /\ effects[k].after <= Len(ledger)
    BY AfterType DEF DriftInv, EffectsBefore
  <2> QED
    BY <2>1, <2>2, <2>3
<1> QED
  BY <1>3, <1>4, <1>5 DEF DriftInv, RunsUndrifted

\* A step after the run: at most one of the two entries of the shutdown.
LEMMA ShutdownStep ==
    ASSUME TypeOK, TypeOK', DriftInv, phase' # "running", boot' = boot, effects' = effects,
           \/ ledger' = ledger
           \/ \E t \in {"network_attestation", "session_end"} : Log(t, "", 0)
    PROVE  DriftInv'
<1>1. Harmless /\ Performs
  BY DEF Harmless, Performs, EntryTypes, Details
<1>2. Rebound' = Rebound /\ Len(ledger) <= Len(ledger')
  BY <1>1, HarmlessKeeps
<1>3. EffectsBefore'
  <2>1. Len(ledger') \in Nat
    BY NextLedgerType
  <2> QED
    BY <1>1, <1>2, <2>1, PerformsKeeps DEF DriftInv
<1>4. HaltOnDrift'
  <2> SUFFICES ASSUME boot.driver # "ui", NEW i \in Rebound
               PROVE  /\ \A j \in (i + 1)..Len(ledger') :
                            ledger'[j].type \in {"network_attestation", "session_end"}
                      /\ \A k \in DOMAIN effects' : effects'[k].after < i
    BY <1>2 DEF HaltOnDrift
  <2>1. /\ \A j \in (i + 1)..Len(ledger) :
              ledger[j].type \in {"network_attestation", "session_end"}
        /\ \A k \in DOMAIN effects : effects[k].after < i
    BY DEF DriftInv, HaltOnDrift
  <2>2. CASE ledger' = ledger
    BY <2>1, <2>2
  <2>3. CASE \E t \in {"network_attestation", "session_end"} : Log(t, "", 0)
    <3>1. PICK t \in {"network_attestation", "session_end"} : Log(t, "", 0)
      BY <2>3
    <3>2. t \in EntryTypes /\ "" \in Details /\ 0 \in Nat
      BY DEF EntryTypes, Details
    <3>3. /\ Len(ledger') = Len(ledger) + 1 /\ ledger'[Len(ledger')] = Entry(t, "", 0)
          /\ \A j \in DOMAIN ledger : ledger'[j] = ledger[j]
      BY <3>1, <3>2, EntryType
    <3>4. Entry(t, "", 0).type = t
      BY DEF Entry
    <3>5. DOMAIN ledger = 1..Len(ledger) /\ Len(ledger) \in Nat
      BY LedgerType
    <3>8. i \in 1..Len(ledger)
      BY <3>5 DEF Rebound
    <3> SUFFICES ASSUME NEW j \in (i + 1)..Len(ledger')
                 PROVE  ledger'[j].type \in {"network_attestation", "session_end"}
      BY <2>1
    <3>6. CASE j = Len(ledger) + 1
      BY <3>3, <3>4, <3>6
    <3>7. CASE j # Len(ledger) + 1
      <4>0. Len(ledger) \in Nat /\ i \in 1..Len(ledger)
        BY <3>5, <3>8
      <4>1. j \in (i + 1)..(Len(ledger) + 1)
        BY <3>3
      <4>2. j \in (i + 1)..Len(ledger) /\ j \in 1..Len(ledger)
        BY <3>7, <4>0, <4>1, LastOrEarlier
      <4> QED
        BY <2>1, <3>3, <3>5, <4>2
    <3> QED
      BY <3>6, <3>7
  <2> QED
    BY <2>2, <2>3
<1> QED
  BY <1>3, <1>4 DEF DriftInv, RunsUndrifted

-----------------------------------------------------------------------------
LEMMA DriftInit == Init => DriftInv
<1> SUFFICES ASSUME Init PROVE DriftInv
  OBVIOUS
<1>1. ledger = <<>> /\ effects = <<>>
  BY DEF Init
<1>2. DOMAIN ledger = {} /\ DOMAIN effects = {}
  BY <1>1
<1> QED
  BY <1>2 DEF DriftInv, EffectsBefore, RunsUndrifted, HaltOnDrift, Rebound

LEMMA DriftNext == TypeOK /\ TypeOK' /\ DriftInv /\ [Next]_vars => DriftInv'
<1> SUFFICES ASSUME TypeOK, TypeOK', DriftInv, [Next]_vars PROVE DriftInv'
  OBVIOUS
<1>a. /\ {"violation", "approval_request", "approval_granted", "approval_rejected",
          "approval_timed_out", "approval_decision", "access"} \subseteq EntryTypes
      /\ {"", "policy", "aggregate_cap", "no_mcp_client", "auto_advisory",
          "auto_consumed_allow", "auto_consumed_deny", "grant_issued"}
           \subseteq Details \ {"identity_rebind"}
  BY DEF EntryTypes, Details
<1>b. 0 \in Nat /\ grants[Key(cur)].id \in Nat
  BY CachedType DEF GrantRecords
<1>1. ASSUME NEW op \in Ops, Begin(op) PROVE DriftInv'
  BY <1>1, RunningStep DEF Begin, At, Harmless, Performs
<1>2. CASE Rebind
  <2>1. CASE ledger' = ledger
    BY <1>2, <2>1, RunningStep DEF Rebind, Frame, At, Harmless, Performs
  <2>2. CASE Log("violation", "identity_rebind", 0) /\ Return("rebind")
    BY <1>2, <2>2, ViolationStep DEF Rebind, Frame, At
  <2> QED
    BY <1>2, <2>1, <2>2 DEF Rebind
<1>3. CASE Check
  <2>1. Harmless
    BY <1>3, <1>a, <1>b DEF Check, CheckAllow, CheckDeny, CheckGated, CheckMalformed, Harmless
  <2> QED
    BY <1>3, <2>1, RunningStep
    DEF Check, CheckAllow, CheckDeny, CheckGated, CheckMalformed, Frame, At, Performs
<1>4. CASE Route
  <2>1. Harmless
    BY <1>4, <1>a, <1>b
    DEF Route, RouteAdvisory, RouteLive, RouteAutoAllow, RouteAutoDeny, RouteNoChannel,
        RouteMiss, RouteRequest, Harmless
  <2> QED
    BY <1>4, <2>1, RunningStep
    DEF Route, RouteAdvisory, RouteLive, RouteAutoAllow, RouteAutoDeny, RouteNoChannel,
        RouteMiss, RouteRequest, Frame, At, Performs
<1>5. CASE Answer \/ Cache \/ Issue
  <2>1. Harmless
    BY <1>5, <1>a, <1>b
    DEF Answer, Granted, Rejected, TimedOut, Cache, Grant, Refuse, Issue, Harmless
  <2> QED
    BY <1>5, <2>1, RunningStep
    DEF Answer, Granted, Rejected, TimedOut, Cache, Grant, Refuse, Issue, Frame, At, Performs
<1>6. CASE Perform
  <2>1. Harmless
    BY <1>6, <1>a, <1>b
    DEF Perform, QuotaPass, QuotaBreach, McpUnattached, Syscall, Record, Harmless
  <2>2. Performs
    BY <1>6 DEF Perform, QuotaPass, QuotaBreach, McpUnattached, Syscall, Record, Performs
  <2> QED
    BY <1>6, <2>1, <2>2, RunningStep
    DEF Perform, QuotaPass, QuotaBreach, McpUnattached, Syscall, Record, Frame, At
<1>7. CASE Fault
  <2>1. CASE SyscallError
    <3>1. Performs
      BY <2>1 DEF SyscallError, Performs
    <3> QED
      BY <2>1, <3>1, RunningStep DEF SyscallError, Frame, At, Harmless
  <2>2. CASE ChannelError \/ LedgerError
    BY <2>2, RunningStep DEF ChannelError, LedgerError, Frame, At, Harmless, Performs
  <2>3. CASE ShutdownError
    BY <2>3, ShutdownStep DEF ShutdownError, Still
  <2> QED
    BY <1>7, <2>1, <2>2, <2>3 DEF Fault
<1>8. CASE Finish \/ Drop \/ Attest \/ End
  BY <1>8, ShutdownStep DEF Finish, Drop, Attest, End, Still
<1>9. CASE Crash
  BY <1>9, ShutdownStep DEF Crash
<1>10. CASE Tick \/ Drift
  BY <1>10, RunningStep DEF Tick, Drift, Harmless, Performs
<1>11. CASE Terminated \/ UNCHANGED vars
  BY <1>11 DEF Terminated, vars, DriftInv, EffectsBefore, RunsUndrifted, HaltOnDrift, Rebound
<1> QED
  BY <1>1, <1>2, <1>3, <1>4, <1>5, <1>6, <1>7, <1>8, <1>9, <1>10, <1>11 DEF Next

(***************************************************************************)
(* After a rebind violation a script or a prompt does nothing any more,    *)
(* however the files, the operator and the faults interleave               *)
(* (identity_binding.rs:5-7, run.rs dispatch).                             *)
(***************************************************************************)
THEOREM DriftHalts == Spec => []HaltOnDrift
<1>1. DriftInv => HaltOnDrift
  BY DEF DriftInv
<1>2. Spec => []TypeOK
  BY TypeCorrect
<1> QED
  BY DriftInit, DriftNext, <1>1, <1>2, PTL DEF Spec

\* The ledger after an entry: the old one, and the entry at its end.
LEMMA Logged ==
    ASSUME TypeOK, NEW t \in EntryTypes, NEW d \in Details, NEW g \in Nat, Log(t, d, g)
    PROVE  /\ Len(ledger) \in Nat /\ Len(ledger') = Len(ledger) + 1
           /\ DOMAIN ledger = 1..Len(ledger) /\ DOMAIN ledger' = 1..(Len(ledger) + 1)
           /\ \A i \in 1..Len(ledger) : ledger'[i] = ledger[i]
           /\ ledger'[Len(ledger) + 1] = Entry(t, d, g)
<1>1. /\ ledger' \in Seq(Entries) /\ Len(ledger') = Len(ledger) + 1
      /\ ledger'[Len(ledger')] = Entry(t, d, g)
      /\ \A i \in DOMAIN ledger : i \in DOMAIN ledger' /\ ledger'[i] = ledger[i]
  BY EntryType
<1>2. /\ Len(ledger) \in Nat /\ DOMAIN ledger = 1..Len(ledger)
  BY LedgerType
<1>3. DOMAIN ledger' = 1..Len(ledger')
  BY <1>1
<1> QED
  BY <1>1, <1>2, <1>3

LEMMA EntryFields ==
    ASSUME NEW t, NEW d, NEW g
    PROVE  /\ Entry(t, d, g).type = t /\ Entry(t, d, g).detail = d
           /\ Entry(t, d, g).op = cur /\ Entry(t, d, g).at = now
           /\ Entry(t, d, g).gid = g /\ Entry(t, d, g).looked = looked
BY DEF Entry

LEMMA LedgerAt ==
    ASSUME TypeOK, NEW i \in DOMAIN ledger
    PROVE  ledger[i] \in Entries /\ ledger[i].at \in Nat
<1>1. ledger \in Seq(Entries)
  BY DEF TypeOK
<1>2. ledger[i] \in Entries
  BY <1>1
<1> QED
  BY <1>2 DEF Entries

-----------------------------------------------------------------------------
(***************************************************************************)
(* The grant table and the ledger.  A grant in the table is the operator's *)
(* last decision about its key on the ledger, dated after that entry and   *)
(* before the next one; a key without a grant was never decided.  Between  *)
(* an operator's entry and its grant the key is in transit, and a session  *)
(* killed there leaves it so.                                              *)
(***************************************************************************)
Decides(e, k) == e.type \in {"approval_granted", "approval_rejected"} /\ Key(e.op) = k

\* An approval is followed by its grant_issued, unless that is still to be appended.
Issued(k, j) ==
    IF j + 1 \in DOMAIN ledger
    THEN ledger[j + 1].detail = "grant_issued" /\ ledger[j + 1].gid = grants[k].id
    ELSE pc = "issue" /\ Key(cur) = k

DecidedBy(k, j) ==
    /\ j \in DOMAIN ledger /\ Decides(ledger[j], k)
    /\ ledger[j].type = "approval_granted" <=> grants[k].decision = "allow"
    /\ \A i \in DOMAIN ledger :
          Decides(ledger[i], k) => i <= j /\ ledger[i].at <= grants[k].issuedAt
    /\ j + 1 \in DOMAIN ledger => grants[k].issuedAt <= ledger[j + 1].at
    /\ (ledger[j].type = "approval_granted" /\ faults = 0) => Issued(k, j)

GrantBacked(k) ==
    IF grants[k].decision = "none"
    THEN \A i \in DOMAIN ledger : ~Decides(ledger[i], k)
    ELSE \E j \in DOMAIN ledger : DecidedBy(k, j)

InTransit(k) == pc \in {"grant", "refuse"} /\ Key(cur) = k

LastIs(t) ==
    /\ Len(ledger) \in DOMAIN ledger
    /\ ledger[Len(ledger)].type = t /\ ledger[Len(ledger)].op = cur

TableInv ==
    /\ phase # "running" => pc = "idle"
    /\ \A k \in Keys : InTransit(k) \/ GrantBacked(k)
    /\ pc = "grant" => LastIs("approval_granted")
    /\ pc = "refuse" => LastIs("approval_rejected")
    /\ pc = "consume" => looked < grants[Key(cur)].issuedAt + Ttl[Class(cur)]
    /\ pc = "ask" => ~Lookup(cur)

PastOnly ==
    /\ \A i \in DOMAIN ledger : ledger[i].at <= now
    /\ \A k \in Keys : grants[k].issuedAt <= now

GrantInv ==
    /\ PastOnly /\ AutoConsumeJustified /\ NoNagging
    /\ phase # "crashed" => TableInv

\* The entries that none of these properties looks at.
Routine ==
    \/ ledger' = ledger
    \/ \E t \in EntryTypes \ {"approval_granted", "approval_rejected", "approval_request"},
          d \in Details \ {"auto_consumed_allow"}, g \in Nat : Log(t, d, g)

\* Injected errors are counted, and without one a grant to be issued is issued.
Counted == faults' = 0 => faults = 0

Continues ==
    faults' = 0 /\ pc = "issue" =>
        \/ ledger' = ledger /\ pc' = "issue" /\ cur' = cur
        \/ Log("approval_decision", "grant_issued", grants[Key(cur)].id)

LEMMA GrantFields ==
    ASSUME TypeOK, NEW k \in Keys
    PROVE  /\ grants[k].issuedAt \in Nat /\ grants[k].id \in Nat /\ now \in Nat
           /\ \A op \in Ops : Ttl[Class(op)] \in Nat
<1>1. grants[k] \in GrantRecords
  BY DEF TypeOK
<1>2. \A op \in Ops : Class(op) \in Classes
  BY ClassType
<1> QED
  BY <1>1, <1>2, ManifestAssumption DEF GrantRecords, TypeOK

LEMMA PastKept ==
    ASSUME TypeOK, TypeOK', PastOnly, now <= now', grants' = grants,
           \/ ledger' = ledger
           \/ \E t \in EntryTypes, d \in Details, g \in Nat : Log(t, d, g)
    PROVE  PastOnly'
<1>0. now \in Nat /\ now' \in Nat
  BY DEF TypeOK
<1>g. \A k \in Keys : grants'[k].issuedAt <= now'
  BY <1>0, GrantFields DEF PastOnly
<1>1. CASE ledger' = ledger
  BY <1>0, <1>1, <1>g, LedgerAt DEF PastOnly
<1>2. CASE \E t \in EntryTypes, d \in Details, g \in Nat : Log(t, d, g)
  <2>1. PICK t \in EntryTypes, d \in Details, g \in Nat : Log(t, d, g)
    BY <1>2
  <2>2. \A i \in 1..Len(ledger) : ledger[i].at \in Nat /\ ledger[i].at <= now
    BY LedgerType, LedgerAt DEF PastOnly
  <2>3. Entry(t, d, g).at = now
    BY EntryFields
  <2> QED
    BY <1>0, <1>g, <2>1, <2>2, <2>3, Logged DEF PastOnly
<1> QED
  BY <1>1, <1>2

\* An entry that decides nothing leaves every grant backed.
LEMMA BackedKept ==
    ASSUME TypeOK, PastOnly, NEW k \in Keys, GrantBacked(k), grants'[k] = grants[k],
           Counted, Continues,
           \/ ledger' = ledger
           \/ \E t \in EntryTypes, d \in Details, g \in Nat :
                 Log(t, d, g) /\ ~Decides(Entry(t, d, g), k)
    PROVE  GrantBacked(k)'
<1>1. CASE ledger' = ledger
  <2>1. CASE grants[k].decision = "none"
    BY <1>1, <2>1 DEF GrantBacked
  <2>2. CASE grants[k].decision # "none"
    <3>1. PICK j \in DOMAIN ledger : DecidedBy(k, j)
      BY <2>2 DEF GrantBacked
    <3>2. (ledger[j].type = "approval_granted" /\ faults' = 0) => Issued(k, j)'
      <4> SUFFICES ASSUME ledger[j].type = "approval_granted", faults' = 0
                   PROVE  Issued(k, j)'
        OBVIOUS
      <4>1. Issued(k, j)
        BY <3>1 DEF DecidedBy, Counted
      <4>2. CASE j + 1 \in DOMAIN ledger
        BY <1>1, <4>1, <4>2 DEF Issued
      <4>3. CASE j + 1 \notin DOMAIN ledger
        <5>1. pc = "issue" /\ Key(cur) = k
          BY <4>1, <4>3 DEF Issued
        <5>2. ~Log("approval_decision", "grant_issued", grants[Key(cur)].id)
          <6> SUFFICES ASSUME Log("approval_decision", "grant_issued", grants[Key(cur)].id)
                       PROVE  FALSE
            OBVIOUS
          <6>0. "approval_decision" \in EntryTypes /\ "grant_issued" \in Details
            BY DEF EntryTypes, Details
          <6>g. grants[Key(cur)].id \in Nat
            BY <5>1, GrantFields
          <6>1. Len(ledger') = Len(ledger) + 1
            BY <6>0, <6>g, Logged
          <6> QED
            BY <1>1, <6>1, LedgerType
        <5>3. pc' = "issue" /\ cur' = cur
          BY <5>1, <5>2 DEF Continues
        <5> QED
          BY <1>1, <4>3, <5>1, <5>3 DEF Issued
      <4> QED
        BY <4>2, <4>3
    <3>3. DecidedBy(k, j)'
      BY <1>1, <3>1, <3>2 DEF DecidedBy
    <3> QED
      BY <1>1, <2>2, <3>3 DEF GrantBacked
  <2> QED
    BY <2>1, <2>2
<1>2. CASE \E t \in EntryTypes, d \in Details, g \in Nat :
              Log(t, d, g) /\ ~Decides(Entry(t, d, g), k)
  <2>1. PICK t \in EntryTypes, d \in Details, g \in Nat :
           Log(t, d, g) /\ ~Decides(Entry(t, d, g), k)
    BY <1>2
  <2>2. /\ Len(ledger) \in Nat
        /\ DOMAIN ledger = 1..Len(ledger) /\ DOMAIN ledger' = 1..(Len(ledger) + 1)
        /\ \A i \in 1..Len(ledger) : ledger'[i] = ledger[i]
        /\ ledger'[Len(ledger) + 1] = Entry(t, d, g)
        /\ ~Decides(ledger'[Len(ledger) + 1], k)
    BY <2>1, Logged
  <2>3. \A i \in DOMAIN ledger' : Decides(ledger'[i], k) =>
            i \in DOMAIN ledger /\ Decides(ledger[i], k) /\ ledger'[i] = ledger[i]
    BY <2>2
  <2>4. CASE grants[k].decision = "none"
    BY <2>3, <2>4 DEF GrantBacked
  <2>5. CASE grants[k].decision # "none"
    <3>1. PICK j \in DOMAIN ledger : DecidedBy(k, j)
      BY <2>5 DEF GrantBacked
    <3>2. j \in DOMAIN ledger' /\ ledger'[j] = ledger[j]
      BY <2>2
    <3>3. /\ j + 1 \in DOMAIN ledger'
          /\ j + 1 \in DOMAIN ledger => ledger'[j + 1] = ledger[j + 1]
          /\ j + 1 \notin DOMAIN ledger => ledger'[j + 1] = Entry(t, d, g)
      <4>1. CASE j = Len(ledger)
        BY <2>2, <4>1
      <4>2. CASE j # Len(ledger)
        <5>1. j + 1 \in 1..Len(ledger)
          BY <2>2, <4>2
        <5> QED
          BY <2>2, <5>1
      <4> QED
        BY <4>1, <4>2
    <3>4. grants[k].issuedAt <= ledger'[j + 1].at
      BY <3>1, <3>3, EntryFields DEF DecidedBy, PastOnly
    <3>5. (ledger[j].type = "approval_granted" /\ faults' = 0) => Issued(k, j)'
      <4> SUFFICES ASSUME ledger[j].type = "approval_granted", faults' = 0
                   PROVE  Issued(k, j)'
        OBVIOUS
      <4>1. Issued(k, j)
        BY <3>1 DEF DecidedBy, Counted
      <4>2. CASE j + 1 \in DOMAIN ledger
        BY <3>3, <4>1, <4>2 DEF Issued
      <4>3. CASE j + 1 \notin DOMAIN ledger
        <5>1. pc = "issue" /\ Key(cur) = k
          BY <4>1, <4>3 DEF Issued
        <5>2. ledger' # ledger
          BY <2>2
        <5>3. Log("approval_decision", "grant_issued", grants[k].id)
          BY <5>1, <5>2 DEF Continues, Log
        <5>4. ledger'[Len(ledger) + 1] = Entry("approval_decision", "grant_issued", grants[k].id)
          <6>1. "approval_decision" \in EntryTypes /\ "grant_issued" \in Details
            BY DEF EntryTypes, Details
          <6>2. grants[k].id \in Nat
            BY GrantFields
          <6> QED
            BY <5>3, <6>1, <6>2, Logged
        <5>5. ledger'[j + 1] = Entry("approval_decision", "grant_issued", grants[k].id)
          BY <2>2, <3>3, <4>3, <5>4
        <5> QED
          BY <3>3, <5>5, EntryFields DEF Issued
      <4> QED
        BY <4>2, <4>3
    <3>6. DecidedBy(k, j)'
      BY <2>3, <3>1, <3>2, <3>4, <3>5 DEF DecidedBy
    <3> QED
      BY <2>5, <3>2, <3>6 DEF GrantBacked
  <2> QED
    BY <2>4, <2>5
<1> QED
  BY <1>1, <1>2

\* A justified entry stays justified as the ledger grows.
Justified(i) ==
    \E j \in 1..(i - 1) :
        /\ Approves(j, ledger[i])
        /\ \A k \in j..i :
              ~(ledger[k].type = "approval_rejected" /\ SameKey(ledger[k], ledger[i]))

Unasked(i, j) ==
    (/\ i < j
     /\ ledger[i].type \in {"approval_granted", "approval_rejected"}
     /\ ledger[j].type = "approval_request" /\ SameKey(ledger[i], ledger[j]))
    => ledger[j].at >= ledger[i].at + Ttl[Class(ledger[j].op)]

LEMMA GrowthKeeps ==
    ASSUME TypeOK, AutoConsumeJustified, NoNagging, Counted,
           NEW t \in EntryTypes, NEW d \in Details, NEW g \in Nat, Log(t, d, g),
           NEW n, n = Len(ledger) + 1,
           d = "auto_consumed_allow" => Justified(n)',
           t = "approval_request" => \A i \in 1..Len(ledger) : Unasked(i, n)'
    PROVE  AutoConsumeJustified' /\ NoNagging'
<1>1. /\ Len(ledger) \in Nat
      /\ DOMAIN ledger = 1..Len(ledger) /\ DOMAIN ledger' = 1..(Len(ledger) + 1)
      /\ \A i \in 1..Len(ledger) : ledger'[i] = ledger[i]
      /\ ledger'[Len(ledger) + 1] = Entry(t, d, g)
  BY Logged
<1>2. ASSUME NEW i \in DOMAIN ledger', ledger'[i].detail = "auto_consumed_allow"
      PROVE  Justified(i)'
  <2>1. CASE i = Len(ledger) + 1
    BY <1>1, <1>2, <2>1, EntryFields
  <2>2. CASE i # Len(ledger) + 1
    <3>1. i \in 1..Len(ledger)
      BY <1>1, <2>2
    <3>2. Justified(i)
      BY <1>1, <1>2, <3>1 DEF AutoConsumeJustified, Justified
    <3>3. \A k \in 1..i : ledger'[k] = ledger[k]
      BY <1>1, <3>1
    <3>4. PICK j \in 1..(i - 1) :
             /\ Approves(j, ledger[i])
             /\ \A k \in j..i :
                   ~(ledger[k].type = "approval_rejected" /\ SameKey(ledger[k], ledger[i]))
      BY <3>2 DEF Justified
    <3>5. ledger'[j] = ledger[j] /\ ledger'[i] = ledger[i] /\ ledger'[j + 1] = ledger[j + 1]
      <4>1. j \in 1..i /\ i \in 1..i /\ j + 1 \in 1..i
        BY <1>1, <3>1, <3>4
      <4> QED
        BY <3>3, <4>1
    <3>6. \A k \in j..i : ledger'[k] = ledger[k]
      BY <1>1, <3>1, <3>3
    <3>7. Approves(j, ledger[i])'
      BY <3>4, <3>5 DEF Approves, SameKey, Counted
    <3> QED
      BY <3>4, <3>5, <3>6, <3>7 DEF Justified, SameKey
  <2> QED
    BY <2>1, <2>2
<1>3. AutoConsumeJustified'
  BY <1>2 DEF AutoConsumeJustified, Justified
<1>4. ASSUME NEW i \in DOMAIN ledger', NEW j \in DOMAIN ledger' PROVE Unasked(i, j)'
  <2>1. CASE j = Len(ledger) + 1
    <3>1. CASE i \in 1..Len(ledger)
      <4>1. CASE t = "approval_request"
        BY <2>1, <3>1, <4>1
      <4>2. CASE t # "approval_request"
        BY <1>1, <2>1, <4>2, EntryFields DEF Unasked
      <4> QED
        BY <4>1, <4>2
    <3>2. CASE i \notin 1..Len(ledger)
      <4>1. ~(i < j)
        BY <1>1, <2>1, <3>2
      <4> QED
        BY <4>1 DEF Unasked
    <3> QED
      BY <3>1, <3>2
  <2>2. CASE j # Len(ledger) + 1
    <3>1. j \in 1..Len(ledger) /\ ledger'[j] = ledger[j]
      BY <1>1, <2>2
    <3>2. CASE i \in 1..Len(ledger)
      <4>1. ledger'[i] = ledger[i]
        BY <1>1, <3>2
      <4>2. Unasked(i, j)
        BY <1>1, <3>1, <3>2 DEF NoNagging, Unasked
      <4> QED
        BY <3>1, <4>1, <4>2 DEF Unasked, SameKey
    <3>3. CASE i \notin 1..Len(ledger)
      <4>1. ~(i < j)
        BY <1>1, <3>1, <3>3
      <4> QED
        BY <4>1 DEF Unasked
    <3> QED
      BY <3>2, <3>3
  <2> QED
    BY <2>1, <2>2
<1>5. NoNagging'
  BY <1>4 DEF NoNagging, Unasked
<1> QED
  BY <1>3, <1>5

-----------------------------------------------------------------------------
(* The steps, by what they append.                                         *)

\* The two properties when nothing is appended.
LEMMA SameKeeps ==
    ASSUME AutoConsumeJustified, NoNagging, Counted, ledger' = ledger
    PROVE  AutoConsumeJustified' /\ NoNagging'
BY DEF AutoConsumeJustified, NoNagging, Approves, SameKey, Counted

\* The keys whose grant a step leaves as it was.
LEMMA KeysKept ==
    ASSUME TypeOK, PastOnly, TableInv, NEW k0, pc \in {"grant", "refuse"} => Key(cur) = k0,
           \A k \in Keys \ {k0} : grants'[k] = grants[k],
           Counted, Continues,
           \/ ledger' = ledger
           \/ \E t \in EntryTypes, d \in Details, g \in Nat :
                 Log(t, d, g) /\ \A k \in Keys \ {k0} : ~Decides(Entry(t, d, g), k)
    PROVE  \A k \in Keys \ {k0} : GrantBacked(k)'
<1> SUFFICES ASSUME NEW k \in Keys \ {k0} PROVE GrantBacked(k)'
  OBVIOUS
<1>1. GrantBacked(k)
  BY DEF TableInv, InTransit
<1>2. \/ ledger' = ledger
      \/ \E t \in EntryTypes, d \in Details, g \in Nat :
            Log(t, d, g) /\ ~Decides(Entry(t, d, g), k)
  OBVIOUS
<1> QED
  BY <1>1, <1>2, BackedKept

Moving == /\ pc \notin {"grant", "refuse"} /\ pc' \notin {"consume", "ask", "grant", "refuse"}
          /\ phase' = "running" \/ pc' = "idle"

\* A step that decides nothing and asks nobody.
LEMMA RoutineStep ==
    ASSUME TypeOK, TypeOK', GrantInv, Routine, grants' = grants, now' = now,
           phase # "crashed", Moving, Counted, Continues
    PROVE  GrantInv'
<1>1. now \in Nat /\ PastOnly /\ TableInv
  BY DEF TypeOK, GrantInv
<1>2. \/ ledger' = ledger
      \/ \E t \in EntryTypes \ {"approval_granted", "approval_rejected", "approval_request"},
            d \in Details \ {"auto_consumed_allow"}, g \in Nat : Log(t, d, g)
  BY DEF Routine
<1>3. PastOnly'
  BY <1>1, <1>2, PastKept
<1>4. \A k \in Keys : GrantBacked(k)'
  <2> SUFFICES ASSUME NEW k \in Keys PROVE GrantBacked(k)'
    OBVIOUS
  <2>1. GrantBacked(k)
    BY <1>1 DEF TableInv, InTransit, Moving
  <2>2. \/ ledger' = ledger
        \/ \E t \in EntryTypes, d \in Details, g \in Nat :
              Log(t, d, g) /\ ~Decides(Entry(t, d, g), k)
    BY <1>2, EntryFields DEF Decides
  <2> QED
    BY <1>1, <2>1, <2>2, BackedKept
<1>5. AutoConsumeJustified' /\ NoNagging'
  <2>1. CASE ledger' = ledger
    BY <2>1, SameKeeps DEF GrantInv
  <2>2. CASE \E t \in EntryTypes \ {"approval_granted", "approval_rejected", "approval_request"},
                d \in Details \ {"auto_consumed_allow"}, g \in Nat : Log(t, d, g)
    <3>1. PICK t \in EntryTypes \ {"approval_granted", "approval_rejected", "approval_request"},
               d \in Details \ {"auto_consumed_allow"}, g \in Nat : Log(t, d, g)
      BY <2>2
    <3> QED
      BY <3>1, GrowthKeeps DEF GrantInv
  <2> QED
    BY <1>2, <2>1, <2>2
<1>6. TableInv'
  BY <1>1, <1>4 DEF TableInv, Moving
<1> QED
  BY <1>3, <1>5, <1>6 DEF GrantInv

\* Time passes, the files change, or nothing happens.
LEMMA QuietStep ==
    ASSUME TypeOK, TypeOK', GrantInv, now <= now',
           UNCHANGED <<ledger, grants, pc, cur, looked, faults, phase>>
    PROVE  GrantInv'
<1>1. now \in Nat /\ now' \in Nat /\ cur \in Ops /\ Key(cur) \in Keys
  BY KeyType DEF TypeOK
<1>2. Counted /\ Continues
  BY DEF Counted, Continues
<1>3. PastOnly'
  BY <1>1, PastKept DEF GrantInv
<1>4. AutoConsumeJustified' /\ NoNagging'
  BY <1>2, SameKeeps DEF GrantInv
<1>5. ASSUME TableInv PROVE TableInv'
  <2>1. \A k \in Keys : InTransit(k)' \/ GrantBacked(k)'
    <3> SUFFICES ASSUME NEW k \in Keys PROVE InTransit(k)' \/ GrantBacked(k)'
      OBVIOUS
    <3>1. CASE InTransit(k)
      BY <3>1 DEF InTransit
    <3>2. CASE GrantBacked(k)
      BY <1>2, <3>2, BackedKept DEF GrantInv
    <3> QED
      BY <1>5, <3>1, <3>2 DEF TableInv
  <2>2. ~Lookup(cur) => ~Lookup(cur)'
    <3>1. grants[Key(cur)].issuedAt \in Nat /\ Ttl[Class(cur)] \in Nat
      BY <1>1, GrantFields
    <3> QED
      BY <1>1, <3>1 DEF Lookup, IsLive
  <2> QED
    BY <1>5, <2>1, <2>2 DEF TableInv, LastIs
<1> QED
  BY <1>3, <1>4, <1>5 DEF GrantInv

\* The process dies, wherever it is.
LEMMA CrashStep == ASSUME TypeOK, TypeOK', GrantInv, Crash PROVE GrantInv'
<1>1. /\ ledger' = ledger /\ grants' = grants /\ now' = now /\ faults' = faults
      /\ phase' = "crashed"
  BY DEF Crash
<1>2. PastOnly'
  BY <1>1 DEF GrantInv, PastOnly
<1>3. AutoConsumeJustified' /\ NoNagging'
  BY <1>1, SameKeeps DEF GrantInv, Counted
<1> QED
  BY <1>1, <1>2, <1>3 DEF GrantInv

\* The lookup: a live decision is to be consumed, or the operator to be asked.
LEMMA LookupStep ==
    ASSUME TypeOK, TypeOK', GrantInv, RouteLive \/ RouteMiss
    PROVE  GrantInv'
<1>1. /\ UNCHANGED <<ledger, grants, now, cur, faults, phase>> /\ phase = "running"
      /\ pc = "route"
      /\ \/ pc' = "consume" /\ Lookup(cur) /\ looked' = now
         \/ pc' = "ask" /\ ~Lookup(cur)
  BY DEF RouteLive, RouteMiss, Frame, Goto, At
<1>2. Counted /\ Continues /\ PastOnly /\ TableInv
  BY <1>1 DEF Counted, Continues, GrantInv
<1>3. PastOnly' /\ AutoConsumeJustified' /\ NoNagging'
  BY <1>1, <1>2, SameKeeps DEF GrantInv, PastOnly
<1>4. \A k \in Keys : GrantBacked(k)'
  BY <1>1, <1>2, BackedKept DEF TableInv, InTransit
<1>5. Lookup(cur)' <=> Lookup(cur)
  BY <1>1 DEF Lookup, IsLive
<1>6. Lookup(cur) => now < grants[Key(cur)].issuedAt + Ttl[Class(cur)]
  BY DEF Lookup, IsLive
<1>7. TableInv'
  BY <1>1, <1>4, <1>5, <1>6 DEF TableInv
<1> QED
  BY <1>3, <1>7 DEF GrantInv

\* The table answers for the operator: its decision is on the ledger and was live.
LEMMA AutoAllowStep ==
    ASSUME TypeOK, TypeOK', GrantInv, RouteAutoAllow
    PROVE  GrantInv'
<1>0. PICK n, k0, g0 : n = Len(ledger) + 1 /\ k0 = Key(cur) /\ g0 = grants[k0].id
  OBVIOUS
<1>1. /\ k0 \in Keys /\ cur \in Ops /\ now \in Nat /\ looked \in Nat /\ g0 \in Nat
      /\ grants[k0].issuedAt \in Nat /\ Ttl[Class(cur)] \in Nat
  BY <1>0, KeyType, GrantFields DEF TypeOK
<1>3. /\ Log("approval_decision", "auto_consumed_allow", g0) /\ grants' = grants
      /\ now' = now /\ cur' = cur /\ faults' = faults /\ grants[k0].decision = "allow"
      /\ pc = "consume" /\ phase = "running" /\ phase' = "running"
      /\ pc' \in {"quota", "syscall"}
  BY <1>0 DEF RouteAutoAllow, Frame, At, Goto, Cleared
<1>4. "approval_decision" \in EntryTypes /\ "auto_consumed_allow" \in Details
  BY DEF EntryTypes, Details
<1>5. Counted /\ Continues /\ PastOnly /\ TableInv
  BY <1>3 DEF Counted, Continues, GrantInv
<1>6. PastOnly'
  BY <1>1, <1>3, <1>4, <1>5, PastKept
<1>7. \A k \in Keys : GrantBacked(k)'
  <2> SUFFICES ASSUME NEW k \in Keys PROVE GrantBacked(k)'
    OBVIOUS
  <2>1. ~Decides(Entry("approval_decision", "auto_consumed_allow", g0), k)
    BY EntryFields DEF Decides
  <2>2. GrantBacked(k) /\ grants'[k] = grants[k]
    BY <1>3, <1>5 DEF TableInv, InTransit
  <2> QED
    BY <1>1, <1>3, <1>4, <1>5, <2>1, <2>2, BackedKept
<1>8. /\ Len(ledger) \in Nat
      /\ DOMAIN ledger = 1..Len(ledger) /\ DOMAIN ledger' = 1..n
      /\ \A i \in 1..Len(ledger) : ledger'[i] = ledger[i]
      /\ ledger'[n] = Entry("approval_decision", "auto_consumed_allow", g0)
  BY <1>0, <1>1, <1>3, <1>4, Logged
<1>9. /\ ledger'[n].type = "approval_decision" /\ ledger'[n].op = cur
      /\ ledger'[n].at = now /\ ledger'[n].gid = g0 /\ ledger'[n].looked = looked
  BY <1>8, EntryFields
<1>10. PICK j \in DOMAIN ledger : DecidedBy(k0, j)
  <2>1. GrantBacked(k0)
    BY <1>1, <1>3, <1>5 DEF TableInv, InTransit
  <2> QED
    BY <1>3, <2>1 DEF GrantBacked
<1>11. /\ j \in 1..(n - 1) /\ ledger'[j] = ledger[j]
       /\ ledger[j].type = "approval_granted" /\ Key(ledger[j].op) = k0
  BY <1>0, <1>3, <1>8, <1>10 DEF DecidedBy, Decides
<1>12. looked < grants[k0].issuedAt + Ttl[Class(cur)]
  BY <1>0, <1>3, <1>5 DEF TableInv
<1>13. grants[k0].issuedAt <= ledger'[j + 1].at /\ ledger'[j + 1].at \in Nat
  <2>1. CASE j + 1 = n
    BY <1>1, <1>5, <1>9, <2>1 DEF PastOnly
  <2>2. CASE j + 1 # n
    <3>1. j + 1 \in 1..Len(ledger)
      BY <1>0, <1>8, <1>11, <2>2
    <3> QED
      BY <1>8, <1>10, <3>1, LedgerAt DEF DecidedBy
  <2> QED
    BY <2>1, <2>2
<1>14. faults = 0 => ledger'[j + 1].detail = "grant_issued" /\ ledger'[j + 1].gid = g0
  <2> SUFFICES ASSUME faults = 0
               PROVE  ledger'[j + 1].detail = "grant_issued" /\ ledger'[j + 1].gid = g0
    OBVIOUS
  <2>1. Issued(k0, j)
    BY <1>10, <1>11 DEF DecidedBy
  <2>2. /\ j + 1 \in DOMAIN ledger /\ ledger[j + 1].detail = "grant_issued"
        /\ ledger[j + 1].gid = g0
    BY <1>0, <1>3, <2>1 DEF Issued
  <2> QED
    BY <1>8, <2>2
<1>15. looked < ledger'[j + 1].at + Ttl[Class(cur)]
  BY <1>1, <1>12, <1>13
<1>16. Approves(j, ledger[n])'
  BY <1>0, <1>3, <1>9, <1>11, <1>14, <1>15 DEF Approves, SameKey
<1>17. ASSUME NEW k \in j..n, ledger'[k].type = "approval_rejected", Key(ledger'[k].op) = k0
       PROVE  FALSE
  <2>1. k # n
    BY <1>9, <1>17
  <2>2. k \in 1..Len(ledger) /\ j <= k /\ j \in Nat
    BY <1>0, <1>8, <1>11, <2>1
  <2>3. Decides(ledger[k], k0) /\ ledger[k].type = "approval_rejected"
    BY <1>8, <1>17, <2>2 DEF Decides
  <2>4. k <= j
    BY <1>8, <1>10, <2>2, <2>3 DEF DecidedBy
  <2>5. k = j
    BY <2>2, <2>4
  <2> QED
    BY <1>11, <2>3, <2>5
<1>18. Justified(n)'
  BY <1>0, <1>9, <1>11, <1>16, <1>17 DEF Justified, SameKey
<1>19. AutoConsumeJustified' /\ NoNagging'
  BY <1>0, <1>1, <1>3, <1>4, <1>5, <1>18, GrowthKeeps DEF GrantInv
<1>20. TableInv'
  BY <1>3, <1>7 DEF TableInv
<1> QED
  BY <1>6, <1>19, <1>20 DEF GrantInv

\* The operator is asked when the lookup found no live decision.
LEMMA RequestStep ==
    ASSUME TypeOK, TypeOK', GrantInv, RouteRequest
    PROVE  GrantInv'
<1>0. PICK n, k0 : n = Len(ledger) + 1 /\ k0 = Key(cur)
  OBVIOUS
<1>1. /\ k0 \in Keys /\ cur \in Ops /\ now \in Nat /\ Ttl[Class(cur)] \in Nat
      /\ grants[k0].issuedAt \in Nat
  BY <1>0, KeyType, GrantFields DEF TypeOK
<1>2. /\ UNCHANGED <<grants, now, cur, faults, phase>> /\ phase = "running"
      /\ pc = "ask" /\ pc' = "await"
  BY DEF RouteRequest, Frame, Goto, At
<1>d. PICK d \in Details \ {"auto_consumed_allow"} : Log("approval_request", d, 0)
  BY DEF RouteRequest, Details
<1>3. "approval_request" \in EntryTypes /\ d \in Details /\ 0 \in Nat /\ d # "auto_consumed_allow"
  BY DEF EntryTypes
<1>4. Counted /\ Continues /\ PastOnly /\ TableInv /\ ~Lookup(cur)
  BY <1>2 DEF Counted, Continues, GrantInv, TableInv
<1>5. PastOnly'
  BY <1>1, <1>2, <1>3, <1>4, <1>d, PastKept
<1>6. \A k \in Keys : GrantBacked(k)'
  <2> SUFFICES ASSUME NEW k \in Keys PROVE GrantBacked(k)'
    OBVIOUS
  <2>1. ~Decides(Entry("approval_request", d, 0), k)
    BY EntryFields DEF Decides
  <2>2. GrantBacked(k) /\ grants'[k] = grants[k]
    BY <1>2, <1>4 DEF TableInv, InTransit
  <2> QED
    BY <1>2, <1>3, <1>4, <1>d, <2>1, <2>2, BackedKept
<1>7. /\ Len(ledger) \in Nat
      /\ DOMAIN ledger = 1..Len(ledger) /\ DOMAIN ledger' = 1..n
      /\ \A i \in 1..Len(ledger) : ledger'[i] = ledger[i]
      /\ ledger'[n] = Entry("approval_request", d, 0)
  BY <1>0, <1>3, <1>d, Logged
<1>8. ledger'[n].op = cur /\ ledger'[n].at = now
  BY <1>7, EntryFields
<1>9. ASSUME NEW i \in 1..Len(ledger), Decides(ledger[i], k0)
      PROVE  now >= ledger[i].at + Ttl[Class(cur)]
  <2>0. GrantBacked(k0)
    BY <1>1, <1>2, <1>4 DEF TableInv, InTransit
  <2>1. grants[k0].decision # "none"
    BY <1>7, <1>9, <2>0 DEF GrantBacked
  <2>2. PICK j \in DOMAIN ledger : DecidedBy(k0, j)
    BY <2>0, <2>1 DEF GrantBacked
  <2>3. ledger[i].at <= grants[k0].issuedAt /\ ledger[i].at \in Nat
    BY <1>7, <1>9, <2>2, LedgerAt DEF DecidedBy
  <2>4. ~(now < grants[k0].issuedAt + Ttl[Class(cur)])
    BY <1>0, <1>4, <2>1 DEF Lookup, IsLive
  <2> QED
    BY <1>1, <2>3, <2>4
<1>10. \A i \in 1..Len(ledger) : Unasked(i, n)'
  BY <1>0, <1>7, <1>8, <1>9 DEF Unasked, SameKey, Decides
<1>11. AutoConsumeJustified' /\ NoNagging'
  BY <1>0, <1>3, <1>4, <1>10, <1>d, GrowthKeeps DEF GrantInv
<1>12. TableInv'
  BY <1>2, <1>6 DEF TableInv
<1> QED
  BY <1>5, <1>11, <1>12 DEF GrantInv

\* The operator's decision is logged; its grant is not in the table yet.
LEMMA DecisionStep ==
    ASSUME TypeOK, TypeOK', GrantInv, Granted \/ Rejected
    PROVE  GrantInv'
<1>0. PICK d \in Details \ {"auto_consumed_allow"}, t \in {"approval_granted", "approval_rejected"} :
         /\ Log(t, d, 0)
         /\ pc' \in {"grant", "refuse"}
         /\ pc' = "grant" => t = "approval_granted"
         /\ pc' = "refuse" => t = "approval_rejected"
  <2>1. PICK d : d = "" /\ (Log("approval_granted", d, 0) \/ Log("approval_rejected", d, 0))
    BY DEF Granted, Rejected
  <2>2. d \in Details \ {"auto_consumed_allow"}
    BY <2>1 DEF Details
  <2>3. CASE Granted
    <3>1. Log("approval_granted", d, 0)
      BY <2>1, <2>3 DEF Granted
    <3>2. pc' = "grant"
      BY <2>3 DEF Granted, Goto
    <3> QED
      BY <2>2, <3>1, <3>2
  <2>4. CASE Rejected
    <3>1. Log("approval_rejected", d, 0)
      BY <2>1, <2>4 DEF Rejected
    <3>2. pc' = "refuse"
      BY <2>4 DEF Rejected, Goto
    <3> QED
      BY <2>2, <3>1, <3>2
  <2> QED
    BY <2>3, <2>4
<1>1. /\ UNCHANGED <<grants, now, cur, faults, phase>> /\ phase = "running" /\ pc = "await"
  BY DEF Granted, Rejected, Frame, Goto, At
<1>2. /\ t \in EntryTypes /\ d \in Details /\ 0 \in Nat /\ d # "auto_consumed_allow"
      /\ now \in Nat
  BY <1>0 DEF EntryTypes, Details, TypeOK
<1>3. Counted /\ Continues /\ PastOnly /\ TableInv
  BY <1>1 DEF Counted, Continues, GrantInv
<1>4. PastOnly'
  BY <1>0, <1>1, <1>2, <1>3, PastKept
<1>5. \A k \in Keys \ {Key(cur)} : GrantBacked(k)'
  <2>1. \A k \in Keys \ {Key(cur)} : ~Decides(Entry(t, d, 0), k)
    BY EntryFields DEF Decides
  <2> QED
    BY <1>0, <1>1, <1>2, <1>3, <2>1, KeysKept
<1>6. \A k \in Keys : InTransit(k)' \/ GrantBacked(k)'
  BY <1>0, <1>1, <1>5 DEF InTransit
<1>7. LastIs(t)'
  <2>1. /\ Len(ledger) \in Nat /\ Len(ledger') = Len(ledger) + 1
        /\ DOMAIN ledger' = 1..(Len(ledger) + 1) /\ ledger'[Len(ledger) + 1] = Entry(t, d, 0)
    BY <1>0, <1>2, Logged
  <2> QED
    BY <1>1, <2>1, EntryFields DEF LastIs
<1>8. AutoConsumeJustified' /\ NoNagging'
  BY <1>0, <1>2, <1>3, GrowthKeeps DEF GrantInv
<1>9. TableInv'
  BY <1>0, <1>1, <1>6, <1>7 DEF TableInv
<1> QED
  BY <1>4, <1>8, <1>9 DEF GrantInv

\* The grant is dated and put into the table.
LEMMA CacheStep ==
    ASSUME TypeOK, TypeOK', GrantInv, Grant \/ Refuse
    PROVE  GrantInv'
<1>0. PICK k0, n : k0 = Key(cur) /\ n = Len(ledger)
  OBVIOUS
<1>1. PICK t, v : /\ t = (IF v = "allow" THEN "approval_granted" ELSE "approval_rejected")
                  /\ pc' = (IF v = "allow" THEN "issue" ELSE "idle")
                  /\ pc = (IF v = "allow" THEN "grant" ELSE "refuse")
                  /\ v \in {"allow", "deny"} /\ Insert(cur, v)
  BY DEF Grant, Refuse, Goto, Return, At
<1>2. /\ UNCHANGED <<ledger, now, cur, faults>> /\ phase = "running"
      /\ phase' = "running" \/ pc' = "idle"
  BY DEF Grant, Refuse, Frame, Goto, Return, At
<1>3. Counted /\ Continues /\ PastOnly /\ TableInv
  BY <1>1, <1>2 DEF Counted, Continues, GrantInv
<1>4. /\ k0 \in Keys /\ now \in Nat /\ Len(ledger) \in Nat /\ DOMAIN ledger = 1..Len(ledger)
      /\ grants \in [Keys -> GrantRecords]
  BY <1>0, KeyType, LedgerType DEF TypeOK
<1>5. /\ grants'[k0].decision = v /\ grants'[k0].issuedAt = now
      /\ \A k \in Keys \ {k0} : grants'[k] = grants[k]
  BY <1>0, <1>1, <1>4 DEF Insert
<1>6. \A k \in Keys \ {k0} : GrantBacked(k)'
  BY <1>0, <1>2, <1>3, <1>5, KeysKept
<1>7. n \in DOMAIN ledger /\ ledger[n].type = t /\ ledger[n].op = cur
  BY <1>0, <1>1, <1>3 DEF TableInv, LastIs
<1>8. DecidedBy(k0, n)'
  <2>1. Decides(ledger[n], k0)
    BY <1>0, <1>1, <1>7 DEF Decides
  <2>2. \A i \in DOMAIN ledger : i <= n /\ ledger[i].at <= now
    BY <1>0, <1>3, <1>4 DEF PastOnly
  <2>3. n + 1 \notin DOMAIN ledger
    BY <1>0, <1>4
  <2>4. t = "approval_granted" => pc' = "issue" /\ Key(cur) = k0
    BY <1>0, <1>1
  <2> QED
    BY <1>1, <1>2, <1>5, <1>7, <2>1, <2>2, <2>3, <2>4 DEF DecidedBy, Issued
<1>9. \A k \in Keys : GrantBacked(k)'
  BY <1>1, <1>2, <1>5, <1>6, <1>7, <1>8 DEF GrantBacked
<1>10. PastOnly'
  <2>1. \A k \in Keys : grants'[k].issuedAt <= now
    BY <1>3, <1>4, <1>5 DEF PastOnly
  <2> QED
    BY <1>2, <1>3, <2>1 DEF PastOnly
<1>11. AutoConsumeJustified' /\ NoNagging'
  BY <1>2, <1>3, SameKeeps DEF GrantInv
<1>12. TableInv'
  BY <1>1, <1>2, <1>9 DEF TableInv
<1> QED
  BY <1>10, <1>11, <1>12 DEF GrantInv

-----------------------------------------------------------------------------
LEMMA GrantInit == Init => GrantInv
<1> SUFFICES ASSUME Init PROVE GrantInv
  OBVIOUS
<1>1. /\ ledger = <<>> /\ grants = [k \in Keys |-> NoGrant] /\ now = 0 /\ pc = "idle"
  BY DEF Init
<1>2. /\ DOMAIN ledger = {}
      /\ \A k \in Keys : grants[k].decision = "none" /\ grants[k].issuedAt = 0
  BY <1>1 DEF NoGrant
<1> QED
  BY <1>1, <1>2 DEF GrantInv, TableInv, PastOnly, GrantBacked, AutoConsumeJustified, NoNagging

LEMMA GrantNext == TypeOK /\ TypeOK' /\ GrantInv /\ [Next]_vars => GrantInv'
<1> SUFFICES ASSUME TypeOK, TypeOK', GrantInv, [Next]_vars PROVE GrantInv'
  OBVIOUS
<1>a. /\ {"violation", "approval_timed_out", "approval_decision", "access",
          "network_attestation", "session_end"}
           \subseteq EntryTypes \ {"approval_granted", "approval_rejected", "approval_request"}
      /\ {"", "identity_rebind", "policy", "aggregate_cap", "no_mcp_client", "auto_advisory",
          "auto_consumed_deny", "grant_issued"} \subseteq Details \ {"auto_consumed_allow"}
  BY DEF EntryTypes, Details
<1>b. 0 \in Nat /\ grants[Key(cur)].id \in Nat /\ now \in Nat /\ now <= now /\ faults \in Nat
  BY CachedType DEF GrantRecords, TypeOK
<1>f. faults + 1 # 0
  BY <1>b
<1>c. \A op : Cleared(op) \in {"quota", "syscall"}
  BY DEF Cleared
<1>1. ASSUME NEW op \in Ops, Begin(op) PROVE GrantInv'
  BY <1>1, <1>b, RoutineStep DEF Begin, Goto, At, Routine, Moving, Counted, Continues
<1>2. CASE Rebind
  <2>1. Routine /\ grants' = grants /\ now' = now
    BY <1>2, <1>a, <1>b DEF Rebind, Frame, Routine
  <2>2. phase = "running" /\ Moving /\ Counted /\ Continues
    BY <1>2 DEF Rebind, Goto, Return, At, Moving, Counted, Continues
  <2> QED
    BY <2>1, <2>2, RoutineStep
<1>3. CASE Check
  <2>1. Routine /\ grants' = grants /\ now' = now
    BY <1>3, <1>a, <1>b
    DEF Check, CheckAllow, CheckDeny, CheckGated, CheckMalformed, Frame, Routine
  <2>2. phase = "running" /\ Moving /\ Counted /\ Continues
    BY <1>3, <1>c
    DEF Check, CheckAllow, CheckDeny, CheckGated, CheckMalformed, Goto, Return, At, Moving,
        Counted, Continues
  <2> QED
    BY <2>1, <2>2, RoutineStep
<1>4. CASE RouteAdvisory \/ RouteAutoDeny \/ RouteNoChannel
  <2>1. Routine /\ grants' = grants /\ now' = now
    BY <1>4, <1>a, <1>b DEF RouteAdvisory, RouteAutoDeny, RouteNoChannel, Frame, Routine
  <2>2. phase = "running" /\ Moving /\ Counted /\ Continues
    BY <1>4, <1>c
    DEF RouteAdvisory, RouteAutoDeny, RouteNoChannel, Goto, Return, At, Moving, Counted,
        Continues
  <2> QED
    BY <2>1, <2>2, RoutineStep
<1>5. CASE RouteLive \/ RouteMiss
  BY <1>5, LookupStep
<1>6. CASE RouteAutoAllow
  BY <1>6, AutoAllowStep
<1>7. CASE RouteRequest
  BY <1>7, RequestStep
<1>8. CASE Granted \/ Rejected
  BY <1>8, DecisionStep
<1>9. CASE Cache
  BY <1>9, CacheStep DEF Cache
<1>10. CASE TimedOut \/ Issue
  <2>1. Routine /\ grants' = grants /\ now' = now
    BY <1>10, <1>a, <1>b DEF TimedOut, Issue, Frame, Routine
  <2>2. phase = "running" /\ Moving /\ Counted /\ Continues
    BY <1>10, <1>c DEF TimedOut, Issue, Goto, Return, At, Moving, Counted, Continues
  <2> QED
    BY <2>1, <2>2, RoutineStep
<1>11. CASE Perform
  <2>1. Routine /\ grants' = grants /\ now' = now
    BY <1>11, <1>a, <1>b
    DEF Perform, QuotaPass, QuotaBreach, McpUnattached, Syscall, Record, Frame, Routine
  <2>2. phase = "running" /\ Moving /\ Counted /\ Continues
    BY <1>11
    DEF Perform, QuotaPass, QuotaBreach, McpUnattached, Syscall, Record, Goto, Return, At,
        Moving, Counted, Continues
  <2> QED
    BY <2>1, <2>2, RoutineStep
<1>12. CASE ChannelError \/ SyscallError \/ LedgerError
  <2>1. Routine /\ grants' = grants /\ now' = now
    BY <1>12 DEF ChannelError, SyscallError, LedgerError, Frame, Routine
  <2>2. phase = "running" /\ Moving
    BY <1>12 DEF ChannelError, SyscallError, LedgerError, AppendPending, Return, At, Moving
  <2>3. faults' # 0
    BY <1>12, <1>f DEF ChannelError, SyscallError, LedgerError
  <2> QED
    BY <2>1, <2>2, <2>3, RoutineStep DEF Counted, Continues
<1>13. CASE ShutdownError \/ Finish \/ Drop \/ Attest \/ End
  <2>1. Routine /\ grants' = grants /\ now' = now
    BY <1>13, <1>a, <1>b DEF ShutdownError, Finish, Drop, Attest, End, Still, Routine
  <2>2. phase # "crashed" /\ pc' = pc /\ pc = "idle"
    BY <1>13 DEF ShutdownError, Finish, Drop, Attest, End, Still, At, GrantInv, TableInv
  <2>3. faults' = faults \/ faults' # 0
    BY <1>13, <1>f DEF ShutdownError, Finish, Drop, Attest, End, Still
  <2>4. Moving /\ Counted /\ Continues
    BY <2>2, <2>3 DEF Moving, Counted, Continues
  <2> QED
    BY <2>1, <2>2, <2>4, RoutineStep
<1>14. CASE Crash
  BY <1>14, CrashStep
<1>15. CASE Tick \/ Drift \/ Terminated \/ UNCHANGED vars
  <2>1. UNCHANGED <<ledger, grants, pc, cur, looked, faults, phase>> /\ now <= now'
    BY <1>15, <1>b DEF Tick, Drift, Terminated, vars
  <2> QED
    BY <2>1, QuietStep
<1> QED
  BY <1>1, <1>2, <1>3, <1>4, <1>5, <1>6, <1>7, <1>8, <1>9, <1>10, <1>11, <1>12, <1>13, <1>14,
     <1>15
  DEF Next, Route, Answer, Fault

(***************************************************************************)
(* Every silent retry rests on an approval of the same tool and arguments  *)
(* that the ledger shows and that was not since rejected; the TTL from its *)
(* grant to the lookup was not over, and without faults the ledger names   *)
(* that grant, however calls, answers, time and faults interleave          *)
(* (grants.rs, lookup and insert).                                         *)
(***************************************************************************)
THEOREM RetriesJustified == Spec => []AutoConsumeJustified
<1>1. GrantInv => AutoConsumeJustified
  BY DEF GrantInv
<1> QED
  BY TypeInit, TypeNext, GrantInit, GrantNext, <1>1, PTL DEF Spec

(***************************************************************************)
(* The operator is never asked about what was decided less than a TTL ago, *)
(* whichever way it was decided (ADR-029).                                 *)
(***************************************************************************)
THEOREM OperatorNotNagged == Spec => []NoNagging
<1>1. GrantInv => NoNagging
  BY DEF GrantInv
<1> QED
  BY TypeInit, TypeNext, GrantInit, GrantNext, <1>1, PTL DEF Spec

-----------------------------------------------------------------------------
(***************************************************************************)
(* What a call returns and what it did.  ResultsAccounted speaks of a call *)
(* that returned; CallInv adds what is known while one runs: nothing has   *)
(* happened before its system call, and no effect is of a later call.      *)
(***************************************************************************)
Early == {"rebind", "check", "route", "consume", "ask", "await", "grant", "refuse", "issue",
          "quota", "syscall"}

CallInv ==
    /\ phase # "running" => pc = "idle"
    /\ \A i \in DOMAIN effects : effects[i].call <= calls
    /\ pc \in Early => Of(calls) = {}
    /\ pc = "record" => \E i \in Of(calls) : effects[i].ok
    /\ pc = "refuse" => Explains(ledger[Len(ledger)])
    /\ ResultsAccounted

\* A call goes on to a step before its operation.
LEMMA OnwardStep ==
    ASSUME CallInv, phase = "running", pc \in Early, NEW s \in Early, Goto(s),
           effects' = effects, calls' = calls,
           s = "refuse" => Explains(ledger'[Len(ledger')])
    PROVE  CallInv'
<1>1. pc' = s /\ pc' # "idle" /\ pc' # "record" /\ phase' = "running"
  BY DEF Goto, Early
<1>2. Of(calls)' = Of(calls)
  BY DEF Of
<1> QED
  BY <1>1, <1>2 DEF CallInv, ResultsAccounted, Returned

\* A call returns without success.
LEMMA ReturnStep ==
    ASSUME CallInv, NEW r \in Results \ {"ok"}, Return(r), effects' = effects, calls' = calls,
           r # "other" => pc \in Early,
           (r = "denied" /\ faults' = 0) => Explains(ledger'[Len(ledger')])
    PROVE  CallInv'
<1>1. pc' = "idle" /\ result' = r
  BY DEF Return
<1>2. Of(calls)' = Of(calls)
  BY DEF Of
<1>3. r # "other" => Of(calls)' = {}
  BY <1>2 DEF CallInv
<1>4. ResultsAccounted'
  BY <1>1, <1>3 DEF ResultsAccounted
<1>5. pc' \notin Early /\ pc' # "record" /\ pc' # "refuse"
  BY <1>1 DEF Early
<1> QED
  BY <1>1, <1>4, <1>5 DEF CallInv

\* A step that changes neither the effects nor the ledger of an idle session,
\* or that ends its run.
LEMMA IdleStep ==
    ASSUME TypeOK, CallInv, effects' = effects, calls' = calls,
           \/ pc' = "idle" /\ phase' # "running"
           \/ /\ phase' = phase /\ pc' = pc /\ ledger' = ledger /\ result' = result
              /\ cur' = cur /\ faults' = faults
    PROVE  CallInv'
<1>1. Of(calls)' = Of(calls)
  BY DEF Of
<1>2. CASE pc' = "idle" /\ phase' # "running"
  <2>1. ResultsAccounted'
    BY <1>2 DEF ResultsAccounted
  <2>2. pc' \notin Early /\ pc' # "record" /\ pc' # "refuse"
    BY <1>2 DEF Early
  <2> QED
    BY <1>2, <2>1, <2>2 DEF CallInv
<1>3. CASE /\ phase' = phase /\ pc' = pc /\ ledger' = ledger /\ result' = result
           /\ cur' = cur /\ faults' = faults
  <2>1. ResultsAccounted'
    BY <1>1, <1>3 DEF CallInv, ResultsAccounted, Returned
  <2> QED
    BY <1>1, <1>3, <2>1 DEF CallInv
<1> QED
  BY <1>2, <1>3

LEMMA EffectAdded ==
    ASSUME TypeOK, NEW ok \in BOOLEAN, effects' = Append(effects, Effect(ok))
    PROVE  /\ Len(effects) \in Nat
           /\ DOMAIN effects = 1..Len(effects) /\ DOMAIN effects' = 1..(Len(effects) + 1)
           /\ \A i \in 1..Len(effects) : effects'[i] = effects[i]
           /\ effects'[Len(effects) + 1] = Effect(ok)
<1>1. effects \in Seq(EffectRecords)
  BY DEF TypeOK
<1> QED
  BY <1>1

LEMMA EffectFields ==
    ASSUME NEW ok
    PROVE  /\ Effect(ok).op = cur /\ Effect(ok).checked = checked
           /\ Effect(ok).call = calls /\ Effect(ok).ok = ok
BY DEF Effect

LEMMA CallBound ==
    ASSUME TypeOK, CallInv, NEW ok \in BOOLEAN, effects' = Append(effects, Effect(ok)),
           calls' = calls
    PROVE  \A i \in DOMAIN effects' : effects'[i].call <= calls'
<1>1. calls \in Nat
  BY DEF TypeOK
<1> QED
  BY <1>1, EffectAdded, EffectFields DEF CallInv

LEMMA CallInit == Init => CallInv
<1> SUFFICES ASSUME Init PROVE CallInv
  OBVIOUS
<1>1. effects = <<>> /\ pc = "idle" /\ phase = "running" /\ calls = 0
  BY DEF Init
<1>2. DOMAIN effects = {} /\ ~(calls > 0)
  BY <1>1
<1> QED
  BY <1>1, <1>2 DEF CallInv, Early, ResultsAccounted, Returned

LEMMA CallNext == TypeOK /\ TypeOK' /\ CallInv /\ [Next]_vars => CallInv'
<1> SUFFICES ASSUME TypeOK, TypeOK', CallInv, [Next]_vars PROVE CallInv'
  OBVIOUS
<1>a. /\ {"violation", "approval_rejected", "approval_timed_out", "approval_decision",
          "access"} \subseteq EntryTypes
      /\ {"", "identity_rebind", "policy", "aggregate_cap", "no_mcp_client",
          "auto_consumed_deny"} \subseteq Details
  BY DEF EntryTypes, Details
<1>b. 0 \in Nat /\ grants[Key(cur)].id \in Nat
  BY CachedType DEF GrantRecords
<1>c. \A op : Cleared(op) \in Early \ {"refuse"}
  BY DEF Cleared, Early
<1>d. /\ {"rebind", "check", "route", "consume", "ask", "await", "grant", "refuse", "issue",
          "quota", "syscall"} = Early
      /\ {"denied", "approval", "rebind", "other"} = Results \ {"ok"}
  BY DEF Early, Results
<1>e. ASSUME NEW t \in EntryTypes, NEW d \in Details, NEW g \in Nat, Log(t, d, g),
             t \in {"violation", "approval_rejected", "approval_timed_out"}
               \/ d = "auto_consumed_deny"
      PROVE  Explains(ledger'[Len(ledger')])
  <2>1. ledger'[Len(ledger')] = Entry(t, d, g)
    BY <1>e, EntryType
  <2> QED
    BY <1>e, <2>1, EntryFields DEF Explains
<1>1. ASSUME NEW op \in Ops, Begin(op) PROVE CallInv'
  <2>1. /\ calls' = calls + 1 /\ effects' = effects /\ pc' = "rebind" /\ phase' = "running"
        /\ calls \in Nat
    BY <1>1 DEF Begin, Goto, At, TypeOK
  <2>2. \A i \in DOMAIN effects : effects[i].call \in Nat
    <3>1. effects \in Seq(EffectRecords)
      BY DEF TypeOK
    <3>2. \A i \in DOMAIN effects : effects[i] \in EffectRecords
      BY <3>1
    <3> QED
      BY <3>2 DEF EffectRecords
  <2>3. Of(calls)' = {}
    BY <2>1, <2>2 DEF CallInv, Of
  <2> QED
    BY <2>1, <2>2, <2>3 DEF CallInv, ResultsAccounted, Returned
<1>2. CASE Rebind
  <2>1. /\ phase = "running" /\ pc \in Early /\ effects' = effects /\ calls' = calls
    BY <1>2, <1>d DEF Rebind, At, Frame
  <2>2. CASE Goto("check")
    BY <2>1, <2>2, <1>d, OnwardStep
  <2>3. CASE Return("rebind")
    BY <2>1, <2>3, <1>d, ReturnStep
  <2>4. CASE Return("other")
    BY <2>1, <2>4, <1>d, ReturnStep
  <2> QED
    BY <1>2, <2>2, <2>3, <2>4 DEF Rebind
<1>3. CASE CheckAllow
  BY <1>3, <1>c, <1>d, OnwardStep DEF CheckAllow, At, Frame
<1>4. CASE CheckDeny
  <2>1. Explains(ledger'[Len(ledger')])
    BY <1>4, <1>a, <1>b, <1>e DEF CheckDeny
  <2> QED
    BY <1>4, <1>d, <2>1, ReturnStep DEF CheckDeny, At, Frame
<1>5. CASE CheckGated
  <2>1. /\ phase = "running" /\ pc \in Early /\ effects' = effects /\ calls' = calls
    BY <1>5, <1>d DEF CheckGated, At, Frame
  <2>2. CASE Goto("route")
    BY <2>1, <2>2, <1>d, OnwardStep
  <2>3. CASE Return("approval")
    BY <2>1, <2>3, <1>d, ReturnStep
  <2> QED
    BY <1>5, <2>2, <2>3 DEF CheckGated
<1>6. CASE CheckMalformed
  BY <1>6, <1>d, ReturnStep DEF CheckMalformed, At, Frame
<1>7. CASE RouteAdvisory \/ RouteAutoAllow
  BY <1>7, <1>c, <1>d, OnwardStep DEF RouteAdvisory, RouteAutoAllow, At, Frame
<1>8. CASE RouteAutoDeny
  <2>1. Explains(ledger'[Len(ledger')])
    BY <1>8, <1>a, <1>b, <1>e DEF RouteAutoDeny
  <2> QED
    BY <1>8, <1>d, <2>1, ReturnStep DEF RouteAutoDeny, At, Frame
<1>9. CASE RouteNoChannel
  BY <1>9, <1>d, ReturnStep DEF RouteNoChannel, At, Frame
<1>10. CASE RouteLive \/ RouteMiss \/ RouteRequest \/ Granted \/ Grant
  BY <1>10, <1>d, OnwardStep DEF RouteLive, RouteMiss, RouteRequest, Granted, Grant, At, Frame
<1>11. CASE Issue
  BY <1>11, <1>c, <1>d, OnwardStep DEF Issue, At, Frame
<1>12. CASE Rejected
  <2>1. Explains(ledger'[Len(ledger')])
    BY <1>12, <1>a, <1>b, <1>e DEF Rejected
  <2> QED
    BY <1>12, <1>d, <2>1, OnwardStep DEF Rejected, At, Frame
<1>r. CASE Refuse
  BY <1>r, <1>d, ReturnStep DEF Refuse, At, Frame, CallInv
<1>13. CASE TimedOut
  <2>1. Explains(ledger'[Len(ledger')])
    BY <1>13, <1>a, <1>b, <1>e DEF TimedOut
  <2> QED
    BY <1>13, <1>d, <2>1, ReturnStep DEF TimedOut, At, Frame
<1>14. CASE QuotaPass
  BY <1>14, <1>d, OnwardStep DEF QuotaPass, At, Frame
<1>15. CASE QuotaBreach
  <2>1. Explains(ledger'[Len(ledger')])
    BY <1>15, <1>a, <1>b, <1>e DEF QuotaBreach
  <2> QED
    BY <1>15, <1>d, <2>1, ReturnStep DEF QuotaBreach, At, Frame
<1>16. CASE McpUnattached
  <2>1. Explains(ledger'[Len(ledger')])
    BY <1>16, <1>a, <1>b, <1>e DEF McpUnattached
  <2> QED
    BY <1>16, <1>d, <2>1, ReturnStep DEF McpUnattached, At, Frame
<1>17. CASE Syscall
  <2>1. /\ effects' = Append(effects, Effect(TRUE)) /\ calls' = calls /\ pc' = "record"
        /\ phase' = "running"
    BY <1>17 DEF Syscall, At, Goto, Frame
  <2>2. \A i \in DOMAIN effects' : effects'[i].call <= calls'
    BY <2>1, CallBound
  <2>3. Len(effects) + 1 \in Of(calls)' /\ effects'[Len(effects) + 1].ok
    <3>1. /\ Len(effects) \in Nat /\ DOMAIN effects' = 1..(Len(effects) + 1)
          /\ effects'[Len(effects) + 1] = Effect(TRUE)
      BY <2>1, EffectAdded
    <3>2. Effect(TRUE).call = calls /\ Effect(TRUE).ok = TRUE
      BY DEF Effect
    <3>3. effects'[Len(effects) + 1].call = calls' /\ effects'[Len(effects) + 1].ok
      BY <2>1, <3>1, <3>2
    <3>4. Len(effects) + 1 \in DOMAIN effects'
      BY <3>1
    <3> QED
      BY <3>3, <3>4 DEF Of
  <2>4. \E i \in Of(calls)' : effects'[i].ok
    BY <2>3
  <2> QED
    BY <2>1, <2>2, <2>4 DEF CallInv, Early, ResultsAccounted, Returned
<1>18. CASE Record
  <2>1. /\ pc = "record" /\ effects' = effects /\ calls' = calls /\ pc' = "idle"
        /\ result' = "ok" /\ Log("access", "", 0)
    BY <1>18 DEF Record, At, Return, Frame
  <2>2. ledger'[Len(ledger')] = Entry("access", "", 0)
    BY <1>a, <1>b, <2>1, EntryType
  <2>3. ledger'[Len(ledger')].type = "access"
    <3>1. Entry("access", "", 0).type = "access"
      BY DEF Entry
    <3> QED
      BY <2>2, <3>1
  <2>4. \E i \in Of(calls)' : effects'[i].ok
    BY <2>1 DEF CallInv, Of
  <2>5. ResultsAccounted'
    BY <2>1, <2>3, <2>4 DEF ResultsAccounted
  <2> QED
    BY <2>1, <2>5 DEF CallInv, Early
<1>19. CASE Fault
  <2>f. faults \in Nat
    BY DEF TypeOK
  <2>1. CASE ChannelError
    <3>1. faults' # 0
      BY <2>1, <2>f DEF ChannelError
    <3> QED
      BY <2>1, <3>1, <1>d, ReturnStep DEF ChannelError, At, Frame
  <2>2. CASE SyscallError
    <3>1. /\ faults' # 0 /\ pc \in Early /\ calls' = calls /\ cur' = cur /\ pc' = "idle"
          /\ result' = ErrorResult(cur) /\ Return(ErrorResult(cur))
      BY <2>2, <2>f, <1>d DEF SyscallError, At, Frame, Return
    <3>2. ErrorResult(cur) \in Results \ {"ok"}
      BY <1>d DEF ErrorResult
    <3>3. CASE effects' = effects
      BY <3>1, <3>2, <3>3, ReturnStep
    <3>4. CASE cur.kind \in {"write", "exec", "mcp"} /\ effects' = Append(effects, Effect(FALSE))
      <4>1. \A i \in DOMAIN effects' : effects'[i].call <= calls'
        BY <3>1, <3>4, CallBound
      <4>2. result' = "other" \/ (result' = "denied" /\ cur'.kind = "mcp")
        BY <3>1 DEF ErrorResult
      <4>3. ResultsAccounted'
        BY <3>1, <4>2 DEF ResultsAccounted
      <4> QED
        BY <3>1, <4>1, <4>3 DEF CallInv, Early
    <3> QED
      BY <2>2, <3>3, <3>4 DEF SyscallError
  <2>3. CASE LedgerError
    BY <2>3, <1>d, ReturnStep DEF LedgerError, Frame
  <2>4. CASE ShutdownError
    <3>1. /\ pc' = "idle" /\ phase' # "running" /\ effects' = effects /\ calls' = calls
      BY <2>4 DEF ShutdownError, Still, CallInv
    <3> QED
      BY <3>1, IdleStep
  <2> QED
    BY <1>19, <2>1, <2>2, <2>3, <2>4 DEF Fault
<1>20. CASE Finish \/ Drop \/ Attest \/ End \/ Crash
  <2>1. /\ pc' = "idle" /\ phase' # "running" /\ effects' = effects /\ calls' = calls
    BY <1>20 DEF Finish, Drop, Attest, End, Crash, Still, At, CallInv
  <2> QED
    BY <2>1, IdleStep
<1>21. CASE Tick \/ Drift \/ Terminated \/ UNCHANGED vars
  BY <1>21, IdleStep DEF Tick, Drift, Terminated, vars
<1> QED
  BY <1>1, <1>2, <1>3, <1>4, <1>5, <1>6, <1>7, <1>8, <1>9, <1>10, <1>11, <1>12, <1>13,
     <1>14, <1>15, <1>16, <1>17, <1>18, <1>19, <1>20, <1>21, <1>r
  DEF Next, Check, Route, Answer, Cache, Perform

(***************************************************************************)
(* What a driver is told is what happened, on every path of a mediated     *)
(* call: a success is performed and recorded, a call that needs approval,  *)
(* failed the rebind or was denied did nothing, and a denial is explained  *)
(* by the ledger's last entry (mediator.rs).                               *)
(***************************************************************************)
THEOREM ResultsTruthful == Spec => []ResultsAccounted
<1>1. CallInv => ResultsAccounted
  BY DEF CallInv
<1> QED
  BY TypeInit, TypeNext, CallInit, CallNext, <1>1, PTL DEF Spec

-----------------------------------------------------------------------------
(***************************************************************************)
(* The network attestation.  It counts the connection log; NetInv relates  *)
(* that log to the connections opened and to the denials on the ledger     *)
(* while the session runs.  A connection is opened one step before it is   *)
(* logged, and the driver that goes on when that step fails is the UI,     *)
(* which never attests.  A rejection is on the ledger one step before it   *)
(* is logged, and a session that dies between the two attests nothing.     *)
(***************************************************************************)
Unlogged(v) ==
    IF pc = "record" /\ cur.kind = "connect" /\ Verdict(cur, checked) = v THEN 1 ELSE 0

Opens(v) == Cardinality(Opened(v))

OpensCounted ==
    (boot.driver # "ui" /\ phase \notin {"aborted", "crashed"}) =>
        /\ Opens("allow") = Tally("allowed") + Unlogged("allow")
        /\ Opens("approval") = Tally("approved") + Unlogged("approval")

Unheard == IF pc = "refuse" /\ cur.kind = "connect" THEN 1 ELSE 0

DenialsCounted ==
    phase # "crashed" => Tally("denied") + Unheard >= Cardinality(DeniedConnects)

TotalCounted == Len(netlog) = Tally("allowed") + Tally("approved") + Tally("denied")

OnTheWay ==
    /\ phase # "running" => pc = "idle"
    /\ pc = "quota" => cur.kind # "connect"
    /\ pc = "record" => Verdict(cur, checked) \in {"allow", "approval"}

AttestedLate ==
    /\ (phase \in {"running", "stopping"} \/ boot.driver = "ui") => attested = <<>>
    /\ boot.driver = "ui" => phase \notin {"stopping", "attested"}

NetInv == OnTheWay /\ OpensCounted /\ DenialsCounted /\ TotalCounted /\ AttestedLate
             /\ AttestationFaithful

-----------------------------------------------------------------------------
(* Counting the entries of a growing sequence.                             *)

LEMMA IndexCount ==
    ASSUME NEW n \in Nat, NEW S \in SUBSET (1..n)
    PROVE  /\ Cardinality(S) \in Nat
           /\ Cardinality(S \cup {n + 1}) = Cardinality(S) + 1
<1>1. IsFiniteSet(1..n)
  BY FS_Interval
<1>2. IsFiniteSet(S)
  BY <1>1, FS_Subset
<1>3. n + 1 \notin S
  OBVIOUS
<1> QED
  BY <1>2, <1>3, FS_CardinalityType, FS_AddElement

LEMMA NetlogType == TypeOK => /\ netlog \in Seq(Connections) /\ Len(netlog) \in Nat
                              /\ DOMAIN netlog = 1..Len(netlog)
<1> SUFFICES ASSUME TypeOK PROVE /\ netlog \in Seq(Connections) /\ Len(netlog) \in Nat
                                 /\ DOMAIN netlog = 1..Len(netlog)
  OBVIOUS
<1>1. netlog \in Seq(Connections)
  BY DEF TypeOK
<1> QED
  BY <1>1

LEMMA TallyType == ASSUME TypeOK, NEW d PROVE Tally(d) \in Nat
<1>1. {i \in DOMAIN netlog : netlog[i].decision = d} \in SUBSET (1..Len(netlog))
  BY NetlogType
<1> QED
  BY <1>1, NetlogType, IndexCount DEF Tally

LEMMA TallyAdd ==
    ASSUME TypeOK, NEW d, netlog' = Append(netlog, [op |-> cur, decision |-> d])
    PROVE  /\ Tally(d)' = Tally(d) + 1
           /\ \A e : e # d => Tally(e)' = Tally(e)
           /\ Len(netlog') = Len(netlog) + 1
<1>1. /\ netlog \in Seq(Connections) /\ Len(netlog) \in Nat
      /\ DOMAIN netlog = 1..Len(netlog)
  BY NetlogType
<1>2. /\ DOMAIN netlog' = 1..(Len(netlog) + 1) /\ Len(netlog') = Len(netlog) + 1
      /\ \A i \in 1..Len(netlog) : netlog'[i] = netlog[i]
      /\ netlog'[Len(netlog) + 1].decision = d
  BY <1>1
<1>3. {i \in DOMAIN netlog' : netlog'[i].decision = d}
        = {i \in DOMAIN netlog : netlog[i].decision = d} \cup {Len(netlog) + 1}
  BY <1>1, <1>2
<1>4. {i \in DOMAIN netlog : netlog[i].decision = d} \in SUBSET (1..Len(netlog))
  BY <1>1
<1>5. ASSUME NEW e, e # d PROVE Tally(e)' = Tally(e)
  <2>1. {i \in DOMAIN netlog' : netlog'[i].decision = e}
          = {i \in DOMAIN netlog : netlog[i].decision = e}
    BY <1>1, <1>2, <1>5
  <2> QED
    BY <2>1 DEF Tally
<1> QED
  BY <1>1, <1>2, <1>3, <1>4, <1>5, IndexCount DEF Tally

LEMMA LogConnectCases ==
    ASSUME TypeOK, NEW d, LogConnect(d)
    PROVE  \/ cur.kind # "connect" /\ netlog' = netlog
           \/ cur.kind = "connect" /\ netlog' = Append(netlog, [op |-> cur, decision |-> d])
BY DEF LogConnect

LEMMA OpensType == ASSUME TypeOK, NEW v PROVE Opens(v) \in Nat
<1>1. effects \in Seq(EffectRecords)
  BY DEF TypeOK
<1>2. Len(effects) \in Nat /\ Opened(v) \in SUBSET (1..Len(effects))
  BY <1>1 DEF Opened
<1> QED
  BY <1>2, IndexCount DEF Opens

LEMMA OpensAdd ==
    ASSUME TypeOK, NEW ok \in BOOLEAN, effects' = Append(effects, Effect(ok)), NEW v
    PROVE  Opens(v)' = IF cur.kind = "connect" /\ Verdict(cur, checked) = v
                       THEN Opens(v) + 1 ELSE Opens(v)
<1>1. /\ Len(effects) \in Nat
      /\ DOMAIN effects = 1..Len(effects) /\ DOMAIN effects' = 1..(Len(effects) + 1)
      /\ \A i \in 1..Len(effects) : effects'[i] = effects[i]
      /\ effects'[Len(effects) + 1] = Effect(ok)
  BY EffectAdded
<1>2. /\ effects'[Len(effects) + 1].op = cur
      /\ effects'[Len(effects) + 1].checked = checked
  BY <1>1, EffectFields
<1>3. Opened(v) \in SUBSET (1..Len(effects))
  BY <1>1 DEF Opened
<1>4. CASE cur.kind = "connect" /\ Verdict(cur, checked) = v
  <2>1. Opened(v)' = Opened(v) \cup {Len(effects) + 1}
    BY <1>1, <1>2, <1>4 DEF Opened
  <2> QED
    BY <1>1, <1>3, <1>4, <2>1, IndexCount DEF Opens
<1>5. CASE ~(cur.kind = "connect" /\ Verdict(cur, checked) = v)
  <2>1. Opened(v)' = Opened(v)
    BY <1>1, <1>2, <1>5 DEF Opened
  <2> QED
    BY <1>5, <2>1 DEF Opens
<1> QED
  BY <1>4, <1>5

LEMMA DenialsType == TypeOK => Cardinality(DeniedConnects) \in Nat
<1> SUFFICES ASSUME TypeOK PROVE Cardinality(DeniedConnects) \in Nat
  OBVIOUS
<1>1. Len(ledger) \in Nat /\ DeniedConnects \in SUBSET (1..Len(ledger))
  BY LedgerType DEF DeniedConnects
<1> QED
  BY <1>1, IndexCount

\* The entries that deny no connection.
DeniesNone(t, d, g) ==
    cur.kind # "connect" \/ ~Explains(Entry(t, d, g)) \/ d = "identity_rebind"

LEMMA DenialsAdd ==
    ASSUME TypeOK, NEW t \in EntryTypes, NEW d \in Details, NEW g \in Nat, Log(t, d, g)
    PROVE  /\ Cardinality(DeniedConnects)' \in Nat
           /\ Cardinality(DeniedConnects)' <= Cardinality(DeniedConnects) + 1
           /\ DeniesNone(t, d, g) => DeniedConnects' = DeniedConnects
<1>1. /\ Len(ledger) \in Nat
      /\ DOMAIN ledger = 1..Len(ledger) /\ DOMAIN ledger' = 1..(Len(ledger) + 1)
      /\ \A i \in 1..Len(ledger) : ledger'[i] = ledger[i]
      /\ ledger'[Len(ledger) + 1] = Entry(t, d, g)
  BY Logged
<1>2. Entry(t, d, g).op = cur /\ Entry(t, d, g).detail = d
  BY EntryFields
<1>3. DeniedConnects \in SUBSET (1..Len(ledger))
  BY <1>1 DEF DeniedConnects
<1>4. \/ DeniedConnects' = DeniedConnects
      \/ ~DeniesNone(t, d, g) /\ DeniedConnects' = DeniedConnects \cup {Len(ledger) + 1}
  <2>1. CASE DeniesNone(t, d, g)
    BY <1>1, <1>2, <2>1 DEF DeniesNone, DeniedConnects
  <2>2. CASE ~DeniesNone(t, d, g)
    BY <1>1, <1>2, <2>2 DEF DeniesNone, DeniedConnects
  <2> QED
    BY <2>1, <2>2
<1>5. Cardinality(DeniedConnects) \in Nat
  BY DenialsType
<1> QED
  BY <1>1, <1>3, <1>4, <1>5, IndexCount

-----------------------------------------------------------------------------
(* How the parts of NetInv are kept.                                       *)

Outcomes == {"allowed", "approved", "denied"}

LEMMA TotalKept ==
    ASSUME TypeOK, TotalCounted,
           netlog' = netlog \/ \E d \in Outcomes : LogConnect(d)
    PROVE  TotalCounted'
<1>1. CASE netlog' = netlog
  BY <1>1 DEF TotalCounted, Tally
<1>2. CASE \E d \in Outcomes : netlog' = Append(netlog, [op |-> cur, decision |-> d])
  <2>1. PICK d \in Outcomes : netlog' = Append(netlog, [op |-> cur, decision |-> d])
    BY <1>2
  <2>2. /\ Tally("allowed") \in Nat /\ Tally("approved") \in Nat /\ Tally("denied") \in Nat
        /\ Len(netlog) \in Nat
    BY TallyType, NetlogType
  <2>3. /\ Tally(d)' = Tally(d) + 1 /\ Len(netlog') = Len(netlog) + 1
        /\ \A e : e # d => Tally(e)' = Tally(e)
    BY <2>1, TallyAdd
  <2>4. CASE d = "allowed"
    BY <2>2, <2>3, <2>4 DEF TotalCounted
  <2>5. CASE d = "approved"
    BY <2>2, <2>3, <2>5 DEF TotalCounted
  <2>6. CASE d = "denied"
    BY <2>2, <2>3, <2>6 DEF TotalCounted
  <2> QED
    BY <2>4, <2>5, <2>6 DEF Outcomes
<1> QED
  BY <1>1, <1>2, LogConnectCases

\* An entry that denies no connection, or none at all.
Innocent ==
    \/ ledger' = ledger
    \/ \E t \in EntryTypes, d \in Details, g \in Nat : Log(t, d, g) /\ DeniesNone(t, d, g)

LEMMA InnocentKeeps == ASSUME TypeOK, Innocent PROVE DeniedConnects' = DeniedConnects
<1>1. CASE ledger' = ledger
  BY <1>1 DEF DeniedConnects
<1>2. CASE \E t \in EntryTypes, d \in Details, g \in Nat : Log(t, d, g) /\ DeniesNone(t, d, g)
  BY <1>2, DenialsAdd
<1> QED
  BY <1>1, <1>2 DEF Innocent

LEMMA DenialsKept ==
    ASSUME TypeOK, DenialsCounted, phase # "crashed", Unheard' = Unheard,
           \/ Innocent /\ (netlog' = netlog \/ \E d \in Outcomes : LogConnect(d))
           \/ /\ LogConnect("denied")
              /\ \E t \in EntryTypes, d \in Details, g \in Nat : Log(t, d, g)
    PROVE  DenialsCounted'
<1>1. Tally("denied") \in Nat /\ Cardinality(DeniedConnects) \in Nat /\ Unheard \in {0, 1}
  BY TallyType, DenialsType DEF Unheard
<1>u. Tally("denied") + Unheard >= Cardinality(DeniedConnects)
  BY DEF DenialsCounted
<1>2. CASE Innocent /\ (netlog' = netlog \/ \E d \in Outcomes : LogConnect(d))
  <2>1. DeniedConnects' = DeniedConnects
    BY <1>2, InnocentKeeps
  <2>2. CASE netlog' = netlog
    BY <1>u, <2>1, <2>2 DEF DenialsCounted, Tally
  <2>3. CASE \E d \in Outcomes : netlog' = Append(netlog, [op |-> cur, decision |-> d])
    <3>1. PICK d \in Outcomes : netlog' = Append(netlog, [op |-> cur, decision |-> d])
      BY <2>3
    <3>2. Tally("denied")' = Tally("denied") + 1 \/ Tally("denied")' = Tally("denied")
      BY <3>1, TallyAdd
    <3> QED
      BY <1>1, <1>u, <2>1, <3>2 DEF DenialsCounted
  <2> QED
    BY <1>2, <2>2, <2>3, LogConnectCases
<1>3. CASE /\ LogConnect("denied")
           /\ \E t \in EntryTypes, d \in Details, g \in Nat : Log(t, d, g)
  <2>1. PICK t \in EntryTypes, d \in Details, g \in Nat : Log(t, d, g)
    BY <1>3
  <2>2. CASE cur.kind # "connect" /\ netlog' = netlog
    <3>1. DeniedConnects' = DeniedConnects
      BY <2>1, <2>2, DenialsAdd DEF DeniesNone
    <3> QED
      BY <1>u, <2>2, <3>1 DEF DenialsCounted, Tally
  <2>3. CASE netlog' = Append(netlog, [op |-> cur, decision |-> "denied"])
    <3>1. Tally("denied")' = Tally("denied") + 1
      BY <2>3, TallyAdd
    <3>2. /\ Cardinality(DeniedConnects)' <= Cardinality(DeniedConnects) + 1
          /\ Cardinality(DeniedConnects)' \in Nat
      BY <2>1, DenialsAdd
    <3> QED
      BY <1>1, <1>u, <3>1, <3>2 DEF DenialsCounted
  <2> QED
    BY <1>3, <2>2, <2>3, LogConnectCases
<1> QED
  BY <1>2, <1>3

\* The rejection's entry, and then its denial of a connection.
LEMMA RejectedKept == ASSUME TypeOK, DenialsCounted, Rejected PROVE DenialsCounted'
<1>1. /\ phase = "running" /\ pc = "await" /\ pc' = "refuse" /\ cur' = cur /\ netlog' = netlog
      /\ phase' = "running"
  BY DEF Rejected, At, Goto, Frame
<1>2. PICK t \in EntryTypes, d \in Details, g \in Nat : Log(t, d, g)
  BY DEF Rejected, EntryTypes, Details
<1>3. Tally("denied") \in Nat /\ Cardinality(DeniedConnects) \in Nat
  BY TallyType, DenialsType
<1>4. Tally("denied")' = Tally("denied") /\ Tally("denied") >= Cardinality(DeniedConnects)
  <2>1. Unheard = 0
    BY <1>1 DEF Unheard
  <2> QED
    BY <1>1, <1>3, <2>1 DEF DenialsCounted, Tally
<1>5. CASE cur.kind = "connect"
  <2>1. /\ Cardinality(DeniedConnects)' <= Cardinality(DeniedConnects) + 1
        /\ Cardinality(DeniedConnects)' \in Nat
    BY <1>2, DenialsAdd
  <2>2. Unheard' = 1
    BY <1>1, <1>5 DEF Unheard
  <2> QED
    BY <1>3, <1>4, <2>1, <2>2 DEF DenialsCounted
<1>6. CASE cur.kind # "connect"
  <2>1. DeniedConnects' = DeniedConnects
    BY <1>2, <1>6, DenialsAdd DEF DeniesNone
  <2>2. Unheard' = 0
    BY <1>1, <1>6 DEF Unheard
  <2> QED
    BY <1>3, <1>4, <2>1, <2>2 DEF DenialsCounted
<1> QED
  BY <1>5, <1>6

LEMMA RefuseKept == ASSUME TypeOK, DenialsCounted, Refuse PROVE DenialsCounted'
<1>1. /\ phase = "running" /\ pc = "refuse" /\ pc' = "idle" /\ cur' = cur
      /\ ledger' = ledger /\ LogConnect("denied")
  BY DEF Refuse, At, Return, Frame
<1>2. Tally("denied") \in Nat /\ Cardinality(DeniedConnects) \in Nat
  BY TallyType, DenialsType
<1>3. DeniedConnects' = DeniedConnects /\ Unheard' = 0
  BY <1>1 DEF DeniedConnects, Unheard
<1>4. Tally("denied") + Unheard >= Cardinality(DeniedConnects)
  BY <1>1 DEF DenialsCounted
<1>5. CASE cur.kind # "connect" /\ netlog' = netlog
  <2>1. Unheard = 0 /\ Tally("denied")' = Tally("denied")
    BY <1>5 DEF Unheard, Tally
  <2> QED
    BY <1>2, <1>3, <1>4, <2>1 DEF DenialsCounted
<1>6. CASE netlog' = Append(netlog, [op |-> cur, decision |-> "denied"])
  <2>1. Unheard \in {0, 1}
    BY DEF Unheard
  <2>2. Tally("denied")' = Tally("denied") + 1
    BY <1>6, TallyAdd
  <2> QED
    BY <1>2, <1>3, <1>4, <2>1, <2>2 DEF DenialsCounted
<1> QED
  BY <1>1, <1>5, <1>6, LogConnectCases

\* A step of a call that is not yet, or no longer, at its record.
LEMMA OpensKept ==
    ASSUME TypeOK, OpensCounted, boot' = boot, phase = "running", effects' = effects,
           pc # "record", pc' # "record", netlog' = netlog \/ LogConnect("denied")
    PROVE  OpensCounted'
<1>1. \A v : Opens(v)' = Opens(v)
  BY DEF Opens, Opened
<1>2. \A v : Unlogged(v) = 0 /\ Unlogged(v)' = 0
  BY DEF Unlogged
<1>3. \A e : e # "denied" => Tally(e)' = Tally(e)
  <2>1. CASE netlog' = netlog
    BY <2>1 DEF Tally
  <2>2. CASE netlog' = Append(netlog, [op |-> cur, decision |-> "denied"])
    BY <2>2, TallyAdd
  <2> QED
    BY <2>1, <2>2, LogConnectCases
<1> QED
  BY <1>1, <1>2, <1>3 DEF OpensCounted

\* A step of the running session: nothing is attested yet.
LEMMA NetRunning ==
    ASSUME NetInv, phase = "running", boot' = boot, attested' = attested,
           phase' \in {"running", "stopping", "aborted", "crashed"},
           boot.driver = "ui" => phase' # "stopping",
           OnTheWay', OpensCounted', DenialsCounted', TotalCounted'
    PROVE  NetInv'
<1>1. attested = <<>>
  BY DEF NetInv, AttestedLate
<1>2. AttestationFaithful'
  BY <1>1 DEF AttestationFaithful
<1> QED
  BY <1>1, <1>2 DEF NetInv, AttestedLate

\* A step of a call before its operation, or its return.
LEMMA NetCallStep ==
    ASSUME TypeOK, NetInv, phase = "running", Frame, effects' = effects,
           pc # "record", pc' # "record", pc' = "quota" => cur.kind # "connect",
           \/ phase' = "running"
           \/ \E r : Return(r),
           netlog' = netlog \/ LogConnect("denied"),
           \/ DenialsCounted'
           \/ /\ Unheard' = Unheard
              /\ \/ Innocent
                 \/ /\ LogConnect("denied")
                    /\ \E t \in EntryTypes, d \in Details, g \in Nat : Log(t, d, g)
    PROVE  NetInv'
<1>1. /\ phase' \in {"running", "stopping", "aborted", "crashed"}
      /\ boot.driver = "ui" => phase' # "stopping"
      /\ phase' # "running" => pc' = "idle"
  BY DEF Return, AfterCall
<1>2. boot' = boot /\ attested' = attested /\ cur' = cur
  BY DEF Frame
<1>3. "denied" \in Outcomes
  BY DEF Outcomes
<1>4. TotalCounted' /\ DenialsCounted'
  BY <1>3, TotalKept, DenialsKept DEF NetInv
<1>5. OpensCounted'
  BY <1>2, OpensKept DEF NetInv
<1>6. OnTheWay'
  BY <1>1, <1>2 DEF OnTheWay
<1> QED
  BY <1>1, <1>2, <1>4, <1>5, <1>6, NetRunning

\* The operation itself, and its record.
LEMMA NetSyscall == ASSUME TypeOK, AuthInv, NetInv, Syscall PROVE NetInv'
<1>1. /\ phase = "running" /\ phase' = "running" /\ pc = "syscall" /\ pc' = "record"
      /\ boot' = boot /\ cur' = cur /\ checked' = checked /\ attested' = attested
      /\ netlog' = netlog /\ ledger' = ledger /\ effects' = Append(effects, Effect(TRUE))
  BY DEF Syscall, At, Goto, Frame
<1>u. Unheard' = Unheard
  BY <1>1 DEF Unheard
<1>2. TotalCounted' /\ DenialsCounted'
  BY <1>1, <1>u, TotalKept, DenialsKept DEF NetInv, Innocent
<1>3. Verdict(cur, checked) \in {"allow", "approval"}
  BY <1>1 DEF AuthInv, GateInv, Gated
<1>4. OnTheWay'
  BY <1>1, <1>3 DEF OnTheWay
<1>5. /\ Opens("allow") \in Nat /\ Opens("approval") \in Nat
      /\ Tally("allowed") \in Nat /\ Tally("approved") \in Nat
  BY OpensType, TallyType
<1>6. \A v : Opens(v)' = IF cur.kind = "connect" /\ Verdict(cur, checked) = v
                         THEN Opens(v) + 1 ELSE Opens(v)
  BY <1>1, OpensAdd
<1>7. \A v : /\ Unlogged(v) = 0
             /\ Unlogged(v)' = IF cur.kind = "connect" /\ Verdict(cur, checked) = v
                               THEN 1 ELSE 0
  BY <1>1 DEF Unlogged
<1>8. Tally("allowed")' = Tally("allowed") /\ Tally("approved")' = Tally("approved")
  BY <1>1 DEF Tally
<1>9. OpensCounted'
  BY <1>1, <1>5, <1>6, <1>7, <1>8 DEF OpensCounted, NetInv
<1> QED
  BY <1>1, <1>2, <1>4, <1>9, NetRunning

LEMMA NetRecord == ASSUME TypeOK, NetInv, Record PROVE NetInv'
<1>1. /\ phase = "running" /\ pc = "record" /\ pc' = "idle" /\ Return("ok")
      /\ boot' = boot /\ cur' = cur /\ attested' = attested /\ effects' = effects
      /\ Log("access", "", 0) /\ LogConnect(ConnectOutcome)
  BY DEF Record, At, Return, Frame
<1>2. phase' = "running"
  BY <1>1 DEF Return, AfterCall
<1>3. /\ ConnectOutcome = IF Verdict(cur, checked) = "approval" THEN "approved" ELSE "allowed"
      /\ ConnectOutcome \in Outcomes
  BY DEF ConnectOutcome, Outcomes
<1>4. Innocent
  <2>1. ~Explains(Entry("access", "", 0))
    <3>1. Entry("access", "", 0).type = "access" /\ Entry("access", "", 0).detail = ""
      BY DEF Entry
    <3> QED
      BY <3>1 DEF Explains
  <2> QED
    BY <1>1, <2>1 DEF Innocent, DeniesNone, EntryTypes, Details
<1>u. Unheard' = Unheard
  BY <1>1 DEF Unheard
<1>5. TotalCounted' /\ DenialsCounted'
  BY <1>1, <1>3, <1>4, <1>u, TotalKept, DenialsKept DEF NetInv
<1>6. OnTheWay'
  BY <1>1, <1>2 DEF OnTheWay
<1>7. /\ Opens("allow") \in Nat /\ Opens("approval") \in Nat
      /\ Tally("allowed") \in Nat /\ Tally("approved") \in Nat
  BY OpensType, TallyType
<1>8. Verdict(cur, checked) \in {"allow", "approval"}
  BY <1>1 DEF NetInv, OnTheWay
<1>9. \A v : Opens(v)' = Opens(v) /\ Unlogged(v)' = 0
  BY <1>1 DEF Opens, Opened, Unlogged
<1>10. CASE cur.kind # "connect" /\ netlog' = netlog
  <2>1. \A v : Unlogged(v) = 0 /\ Tally(v)' = Tally(v)
    BY <1>10 DEF Unlogged, Tally
  <2>2. OpensCounted'
    BY <1>1, <1>2, <1>9, <2>1 DEF OpensCounted, NetInv
  <2> QED
    BY <1>1, <1>2, <1>5, <1>6, <2>2, NetRunning
<1>11. CASE /\ cur.kind = "connect"
            /\ netlog' = Append(netlog, [op |-> cur, decision |-> ConnectOutcome])
  <2>1. PICK o : o = ConnectOutcome
    OBVIOUS
  <2>2. Tally(o)' = Tally(o) + 1 /\ \A e : e # o => Tally(e)' = Tally(e)
    BY <1>11, <2>1, TallyAdd
  <2>3. /\ Opens("allow")' = Opens("allow") /\ Opens("approval")' = Opens("approval")
        /\ Unlogged("allow")' = 0 /\ Unlogged("approval")' = 0
    BY <1>9
  <2>4. ASSUME Verdict(cur, checked) = "approval" PROVE OpensCounted'
    <3>1. o = "approved" /\ Unlogged("approval") = 1 /\ Unlogged("allow") = 0
      BY <1>1, <1>3, <1>11, <2>1, <2>4 DEF Unlogged
    <3>2. Tally("approved")' = Tally("approved") + 1 /\ Tally("allowed")' = Tally("allowed")
      BY <2>2, <3>1
    <3>3. boot.driver # "ui" => /\ Opens("allow") = Tally("allowed") + Unlogged("allow")
                                /\ Opens("approval") = Tally("approved") + Unlogged("approval")
      BY <1>1 DEF OpensCounted, NetInv
    <3>4. boot.driver # "ui" => /\ Opens("allow")' = Tally("allowed")' + Unlogged("allow")'
                                /\ Opens("approval")' = Tally("approved")' + Unlogged("approval")'
      BY <1>7, <2>3, <3>1, <3>2, <3>3
    <3> QED
      BY <1>1, <3>4 DEF OpensCounted
  <2>5. ASSUME Verdict(cur, checked) = "allow" PROVE OpensCounted'
    <3>1. o = "allowed" /\ Unlogged("approval") = 0 /\ Unlogged("allow") = 1
      BY <1>1, <1>3, <1>11, <2>1, <2>5 DEF Unlogged
    <3>2. Tally("approved")' = Tally("approved") /\ Tally("allowed")' = Tally("allowed") + 1
      BY <2>2, <3>1
    <3>3. boot.driver # "ui" => /\ Opens("allow") = Tally("allowed") + Unlogged("allow")
                                /\ Opens("approval") = Tally("approved") + Unlogged("approval")
      BY <1>1 DEF OpensCounted, NetInv
    <3>4. boot.driver # "ui" => /\ Opens("allow")' = Tally("allowed")' + Unlogged("allow")'
                                /\ Opens("approval")' = Tally("approved")' + Unlogged("approval")'
      BY <1>7, <2>3, <3>1, <3>2, <3>3
    <3> QED
      BY <1>1, <3>4 DEF OpensCounted
  <2>6. OpensCounted'
    BY <1>8, <2>4, <2>5
  <2> QED
    BY <1>1, <1>2, <1>5, <1>6, <2>6, NetRunning
<1> QED
  BY <1>1, <1>10, <1>11, LogConnectCases

\* The record's entry fails: only the UI goes on, and it never attests.
LEMMA NetLost == ASSUME TypeOK, NetInv, LedgerError, pc = "record" PROVE NetInv'
<1>1. /\ phase = "running" /\ pc' = "idle" /\ boot' = boot /\ attested' = attested
      /\ netlog' = netlog /\ ledger' = ledger
      /\ phase' = AfterCall("other")
  BY DEF LedgerError, Return, Frame, Gate
<1>2. /\ boot.driver = "ui" => phase' = "running"
      /\ boot.driver # "ui" => phase' = "aborted"
  BY <1>1 DEF AfterCall
<1>u. Unheard' = Unheard
  BY <1>1 DEF Unheard
<1>3. TotalCounted' /\ DenialsCounted'
  BY <1>1, <1>u, TotalKept, DenialsKept DEF NetInv, Innocent
<1>4. OpensCounted' /\ OnTheWay'
  BY <1>1, <1>2 DEF OpensCounted, OnTheWay
<1> QED
  BY <1>1, <1>2, <1>3, <1>4, NetRunning

\* The summary counts the log, and the log counts what happened.
LEMMA NetAttest == ASSUME TypeOK, NetInv, Attest PROVE NetInv'
<1>1. /\ phase = "stopping" /\ phase' = "attested" /\ boot' = boot /\ pc' = pc /\ cur' = cur
      /\ checked' = checked /\ netlog' = netlog /\ effects' = effects
      /\ attested' = <<Summary>> /\ Log("network_attestation", "", 0)
  BY DEF Attest, Still
<1>2. pc = "idle" /\ boot.driver # "ui"
  BY <1>1 DEF NetInv, OnTheWay, AttestedLate
<1>3. Innocent
  <2>1. ~Explains(Entry("network_attestation", "", 0))
    <3>1. /\ Entry("network_attestation", "", 0).type = "network_attestation"
          /\ Entry("network_attestation", "", 0).detail = ""
      BY DEF Entry
    <3> QED
      BY <3>1 DEF Explains
  <2> QED
    BY <1>1, <2>1 DEF Innocent, DeniesNone, EntryTypes, Details
<1>u. Unheard' = 0 /\ Unheard = 0
  BY <1>1, <1>2 DEF Unheard
<1>4. TotalCounted' /\ DenialsCounted'
  BY <1>1, <1>3, <1>u, TotalKept, DenialsKept DEF NetInv
<1>5. \A v : Opens(v)' = Opens(v) /\ Unlogged(v)' = Unlogged(v) /\ Tally(v)' = Tally(v)
             /\ Unlogged(v) = 0
  BY <1>1, <1>2 DEF Opens, Opened, Unlogged, Tally
<1>6. OpensCounted' /\ OnTheWay'
  BY <1>1, <1>2, <1>5 DEF OpensCounted, OnTheWay, NetInv
<1>7. /\ Opens("allow") = Tally("allowed") /\ Opens("approval") = Tally("approved")
  <2>1. Tally("allowed") \in Nat /\ Tally("approved") \in Nat
    BY TallyType
  <2>2. Unlogged("allow") = 0 /\ Unlogged("approval") = 0
    BY <1>5
  <2>3. /\ Opens("allow") = Tally("allowed") + Unlogged("allow")
        /\ Opens("approval") = Tally("approved") + Unlogged("approval")
    BY <1>1, <1>2 DEF NetInv, OpensCounted
  <2> QED
    BY <2>1, <2>2, <2>3
<1>8. DeniedConnects' = DeniedConnects
  BY <1>3, InnocentKeeps
<1>w. Tally("denied") + Unheard = Tally("denied")
  BY <1>u, TallyType
<1>9. /\ Summary.allowed = Tally("allowed") /\ Summary.approved = Tally("approved")
      /\ Summary.denied = Tally("denied") /\ Summary.total = Len(netlog)
  BY DEF Summary
<1>10. AttestationFaithful'
  <2>1. \A i \in DOMAIN attested' : attested'[i] = Summary
    <3>1. \A x : DOMAIN <<x>> = {1} /\ <<x>>[1] = x
      OBVIOUS
    <3> QED
      BY <1>1, <3>1
  <2>2. /\ Summary.allowed = Cardinality(Opened("allow")')
        /\ Summary.approved = Cardinality(Opened("approval")')
    BY <1>5, <1>7, <1>9 DEF Opens
  <2>3. /\ Summary.denied >= Cardinality(DeniedConnects')
        /\ Summary.total = Summary.allowed + Summary.approved + Summary.denied
    BY <1>1, <1>8, <1>9, <1>w DEF NetInv, DenialsCounted, TotalCounted
  <2> QED
    BY <2>1, <2>2, <2>3 DEF AttestationFaithful
<1>11. AttestedLate'
  BY <1>1, <1>2 DEF AttestedLate
<1> QED
  BY <1>4, <1>6, <1>10, <1>11 DEF NetInv

\* The steps after the run, and those of the environment.
LEMMA NetQuiet ==
    ASSUME TypeOK, NetInv, boot' = boot, netlog' = netlog, effects' = effects,
           attested' = attested, Innocent,
           \/ pc' = pc /\ cur' = cur /\ checked' = checked /\ phase' = phase
           \/ phase = "attested" /\ phase' = "ended" /\ pc' = pc
           \/ phase' = "aborted" /\ pc' = "idle" /\ pc = "idle" /\ phase # "crashed"
           \/ phase' = "crashed" /\ pc' = "idle"
           \/ /\ phase = "running" /\ phase' = "stopping" /\ boot.driver # "ui"
              /\ pc' = "idle" /\ pc = "idle"
    PROVE  NetInv'
<1>1. TotalCounted' /\ DenialsCounted'
  <2>1. phase' = "crashed" \/ (phase # "crashed" /\ Unheard' = Unheard)
    BY DEF NetInv, OnTheWay, Unheard
  <2> QED
    BY <2>1, TotalKept, DenialsKept DEF NetInv, DenialsCounted
<1>2. \A v : Opens(v)' = Opens(v) /\ Tally(v)' = Tally(v)
  BY DEF Opens, Opened, Tally
<1>3. DeniedConnects' = DeniedConnects
  BY InnocentKeeps
<1>4. AttestationFaithful'
  BY <1>2, <1>3 DEF NetInv, AttestationFaithful, Opened
<1>5. OnTheWay' /\ AttestedLate'
  BY DEF NetInv, OnTheWay, AttestedLate
<1>6. phase' \in {"aborted", "crashed"} \/ \A v : Unlogged(v)' = Unlogged(v)
  BY DEF NetInv, OnTheWay, Unlogged
<1>7. OpensCounted'
  BY <1>2, <1>6 DEF NetInv, OpensCounted
<1> QED
  BY <1>1, <1>4, <1>5, <1>7 DEF NetInv

LEMMA NetInit == Init => NetInv
<1> SUFFICES ASSUME Init PROVE NetInv
  OBVIOUS
<1>1. /\ netlog = <<>> /\ effects = <<>> /\ ledger = <<>> /\ attested = <<>>
      /\ pc = "idle" /\ phase = "running"
  BY DEF Init
<1>2. /\ DOMAIN netlog = {} /\ DOMAIN effects = {} /\ DOMAIN ledger = {} /\ DOMAIN attested = {}
      /\ Len(netlog) = 0
  BY <1>1
<1>3. Cardinality({}) = 0
  BY FS_EmptySet
<1>4. \A v : Tally(v) = 0 /\ Opens(v) = 0 /\ Unlogged(v) = 0
  <2> SUFFICES ASSUME NEW v PROVE Tally(v) = 0 /\ Opens(v) = 0 /\ Unlogged(v) = 0
    OBVIOUS
  <2>1. {i \in DOMAIN netlog : netlog[i].decision = v} = {} /\ Opened(v) = {}
    BY <1>2 DEF Opened
  <2> QED
    BY <1>1, <1>3, <2>1 DEF Tally, Opens, Unlogged
<1>5. Cardinality(DeniedConnects) = 0
  <2>1. DeniedConnects = {}
    BY <1>2 DEF DeniedConnects
  <2> QED
    BY <1>3, <2>1
<1>6. OpensCounted /\ DenialsCounted /\ TotalCounted
  <2>1. /\ Tally("allowed") = 0 /\ Tally("approved") = 0 /\ Tally("denied") = 0
        /\ Opens("allow") = 0 /\ Opens("approval") = 0
        /\ Unlogged("allow") = 0 /\ Unlogged("approval") = 0 /\ Unheard = 0
    BY <1>1, <1>4 DEF Unheard
  <2> QED
    BY <1>2, <1>5, <2>1 DEF OpensCounted, DenialsCounted, TotalCounted
<1> QED
  BY <1>1, <1>2, <1>6 DEF NetInv, OnTheWay, AttestedLate, AttestationFaithful

LEMMA NetNext == AuthInv /\ NetInv /\ [Next]_vars => NetInv'
<1> SUFFICES ASSUME AuthInv, NetInv, [Next]_vars PROVE NetInv'
  OBVIOUS
<1>t. TypeOK /\ cur \in Ops
  BY DEF AuthInv, TypeOK
<1>a. /\ {"violation", "approval_request", "approval_granted", "approval_rejected",
          "approval_timed_out", "approval_decision", "session_end"} \subseteq EntryTypes
      /\ {"", "identity_rebind", "policy", "aggregate_cap", "no_mcp_client",
          "auto_advisory", "auto_consumed_allow", "auto_consumed_deny",
          "grant_issued"} \subseteq Details
  BY DEF EntryTypes, Details
<1>b. 0 \in Nat /\ grants[Key(cur)].id \in Nat
  BY <1>t, CachedType DEF GrantRecords
<1>c. /\ Cleared(cur) \notin {"record", "idle", "refuse"}
      /\ Cleared(cur) = "quota" => cur.kind # "connect"
  BY DEF Cleared, Charged
<1>d. ASSUME NEW t \in {"approval_request", "approval_granted", "approval_decision",
                        "session_end"},
             NEW d \in Details \ {"auto_consumed_deny"}, NEW g \in Nat, Log(t, d, g)
      PROVE  Innocent
  <2>1. ~Explains(Entry(t, d, g))
    BY <1>d, EntryFields DEF Explains
  <2> QED
    BY <1>a, <1>d, <2>1 DEF Innocent, DeniesNone
<1>q. (pc # "refuse" /\ pc' # "refuse") => Unheard' = Unheard
  BY DEF Unheard
<1>e. {"", "auto_advisory", "auto_consumed_allow", "grant_issued"}
         \subseteq Details \ {"auto_consumed_deny"}
  BY DEF Details
<1>1. ASSUME NEW op \in Ops, Begin(op) PROVE NetInv'
  <2>1. /\ phase = "running" /\ phase' = "running" /\ pc = "idle" /\ pc' = "rebind"
        /\ boot' = boot /\ netlog' = netlog /\ effects' = effects /\ ledger' = ledger
        /\ attested' = attested
    BY <1>1 DEF Begin, At, Goto
  <2>2. TotalCounted' /\ DenialsCounted'
    BY <1>t, <1>q, <2>1, TotalKept, DenialsKept DEF NetInv, Innocent
  <2>3. OpensCounted'
    BY <1>t, <2>1, OpensKept DEF NetInv
  <2>4. OnTheWay'
    BY <2>1 DEF OnTheWay
  <2> QED
    BY <2>1, <2>2, <2>3, <2>4, NetRunning
<1>2. CASE Rebind
  <2>1. Innocent
    BY <1>2, <1>a, <1>b DEF Rebind, Innocent, DeniesNone
  <2>2. pc = "rebind" /\ pc' \in {"check", "idle"} /\ phase = "running"
        /\ (phase' = "running" \/ \E r : Return(r))
    BY <1>2 DEF Rebind, At, Goto, Return
  <2> QED
    BY <1>2, <1>t, <2>1, <2>2, <1>q, NetCallStep DEF Rebind
<1>3. CASE CheckAllow
  BY <1>3, <1>t, <1>c, <1>q, NetCallStep DEF CheckAllow, At, Goto, Innocent
<1>4. CASE CheckDeny
  <2>1. \E t \in EntryTypes, d \in Details, g \in Nat : Log(t, d, g)
    BY <1>4, <1>a, <1>b DEF CheckDeny
  <2>2. pc = "check" /\ pc' = "idle" /\ phase = "running" /\ \E r : Return(r)
    BY <1>4 DEF CheckDeny, At, Return
  <2> QED
    BY <1>4, <1>t, <2>1, <2>2, <1>q, NetCallStep DEF CheckDeny
<1>5. CASE CheckGated
  <2>1. pc = "check" /\ pc' \in {"route", "idle"} /\ phase = "running"
        /\ (phase' = "running" \/ \E r : Return(r))
    BY <1>5 DEF CheckGated, At, Goto, Return
  <2> QED
    BY <1>5, <1>t, <2>1, <1>q, NetCallStep DEF CheckGated, Innocent
<1>6. CASE CheckMalformed
  <2>1. pc = "check" /\ pc' = "idle" /\ phase = "running" /\ \E r : Return(r)
    BY <1>6 DEF CheckMalformed, At, Return
  <2> QED
    BY <1>6, <1>t, <2>1, <1>q, NetCallStep DEF CheckMalformed, Innocent
<1>7. CASE RouteAdvisory \/ RouteAutoAllow \/ Issue
  <2>1. Innocent
    BY <1>7, <1>b, <1>d, <1>e DEF RouteAdvisory, RouteAutoAllow, Issue
  <2>2. /\ phase = "running" /\ phase' = "running" /\ pc # "record" /\ pc' = Cleared(cur)
        /\ Frame /\ effects' = effects /\ netlog' = netlog
    BY <1>7 DEF RouteAdvisory, RouteAutoAllow, Issue, At, Goto
  <2>3. pc # "refuse"
    BY <1>7 DEF RouteAdvisory, RouteAutoAllow, Issue, At
  <2> QED
    BY <1>t, <1>c, <2>1, <2>2, <2>3, <1>q, NetCallStep
<1>8. CASE RouteAutoDeny \/ TimedOut
  <2>1. \E t \in EntryTypes, d \in Details, g \in Nat : Log(t, d, g)
    BY <1>8, <1>a, <1>b DEF RouteAutoDeny, TimedOut
  <2>2. /\ phase = "running" /\ pc \notin {"record", "refuse"} /\ pc' = "idle" /\ \E r : Return(r)
        /\ Frame /\ effects' = effects /\ LogConnect("denied")
    BY <1>8 DEF RouteAutoDeny, TimedOut, At, Return
  <2> QED
    BY <1>t, <2>1, <2>2, <1>q, NetCallStep
<1>r. CASE Rejected
  <2>1. /\ phase = "running" /\ phase' = "running" /\ pc = "await" /\ pc' = "refuse"
        /\ Frame /\ effects' = effects /\ netlog' = netlog
    BY <1>r DEF Rejected, At, Goto
  <2>2. DenialsCounted'
    BY <1>r, <1>t, RejectedKept DEF NetInv
  <2> QED
    BY <1>t, <2>1, <2>2, NetCallStep
<1>s. CASE Refuse
  <2>1. /\ phase = "running" /\ pc = "refuse" /\ pc' = "idle" /\ \E r : Return(r)
        /\ Frame /\ effects' = effects /\ LogConnect("denied")
    BY <1>s DEF Refuse, At, Return
  <2>2. DenialsCounted'
    BY <1>s, <1>t, RefuseKept DEF NetInv
  <2> QED
    BY <1>t, <2>1, <2>2, NetCallStep
<1>9. CASE RouteNoChannel \/ ChannelError
  <2>1. /\ phase = "running" /\ pc \notin {"record", "refuse"} /\ pc' = "idle" /\ \E r : Return(r)
        /\ Frame /\ effects' = effects /\ LogConnect("denied") /\ ledger' = ledger
    BY <1>9 DEF RouteNoChannel, ChannelError, At, Return
  <2> QED
    BY <1>t, <2>1, <1>q, NetCallStep DEF Innocent
<1>l. CASE RouteLive
  <2>1. /\ phase = "running" /\ phase' = "running" /\ pc = "route" /\ pc' = "consume"
        /\ boot' = boot /\ attested' = attested /\ cur' = cur /\ netlog' = netlog
        /\ effects' = effects /\ ledger' = ledger
    BY <1>l DEF RouteLive, At, Goto
  <2>2. TotalCounted' /\ DenialsCounted'
    BY <1>t, <1>q, <2>1, TotalKept, DenialsKept DEF NetInv, Innocent
  <2>3. OpensCounted'
    BY <1>t, <2>1, OpensKept DEF NetInv
  <2>4. OnTheWay'
    BY <2>1 DEF OnTheWay
  <2> QED
    BY <2>1, <2>2, <2>3, <2>4, NetRunning
<1>10. CASE RouteMiss \/ RouteRequest \/ Granted \/ Grant
  <2>1. Innocent
    BY <1>10, <1>b, <1>d, <1>e DEF RouteMiss, RouteRequest, Granted, Grant, Innocent
  <2>2. /\ phase = "running" /\ phase' = "running" /\ pc \notin {"record", "refuse"}
        /\ pc' \in {"ask", "await", "grant", "issue"}
        /\ Frame /\ effects' = effects /\ netlog' = netlog
    BY <1>10 DEF RouteMiss, RouteRequest, Granted, Grant, At, Goto
  <2> QED
    BY <1>t, <2>1, <2>2, <1>q, NetCallStep
<1>11. CASE QuotaPass
  <2>1. /\ phase = "running" /\ phase' = "running" /\ pc = "quota" /\ pc' = "syscall"
        /\ Frame /\ effects' = effects /\ netlog' = netlog /\ ledger' = ledger
    BY <1>11 DEF QuotaPass, At, Goto
  <2> QED
    BY <1>t, <2>1, <1>q, NetCallStep DEF Innocent
<1>12. CASE QuotaBreach \/ McpUnattached
  <2>1. cur.kind # "connect"
    BY <1>12 DEF QuotaBreach, McpUnattached, NoClient, At, NetInv, OnTheWay
  <2>2. Innocent
    BY <1>12, <1>a, <1>b, <2>1 DEF QuotaBreach, McpUnattached, Innocent, DeniesNone
  <2>3. /\ phase = "running" /\ pc \notin {"record", "refuse"} /\ pc' = "idle"
        /\ \E r : Return(r) /\ Frame /\ effects' = effects /\ netlog' = netlog
    BY <1>12 DEF QuotaBreach, McpUnattached, At, Return
  <2> QED
    BY <1>t, <2>2, <2>3, <1>q, NetCallStep
<1>13. CASE Syscall
  BY <1>13, <1>t, NetSyscall
<1>14. CASE Record
  BY <1>14, <1>t, NetRecord
<1>15. CASE SyscallError
  <2>1. /\ phase = "running" /\ pc = "syscall" /\ pc' = "idle" /\ \E r : Return(r)
        /\ Frame /\ netlog' = netlog /\ ledger' = ledger
    BY <1>15 DEF SyscallError, At, Return
  <2>2. CASE effects' = effects
    BY <1>t, <2>1, <2>2, <1>q, NetCallStep DEF Innocent
  <2>3. CASE cur.kind # "connect" /\ effects' = Append(effects, Effect(FALSE))
    <3>1. TotalCounted' /\ DenialsCounted'
      BY <1>t, <1>q, <2>1, TotalKept, DenialsKept DEF NetInv, Innocent
    <3>2. \A v : /\ Opens(v)' = Opens(v) /\ Tally(v)' = Tally(v)
                 /\ Unlogged(v) = 0 /\ Unlogged(v)' = 0
      BY <1>t, <2>1, <2>3, OpensAdd DEF Tally, Unlogged
    <3>3. OpensCounted'
      BY <2>1, <3>2 DEF OpensCounted, NetInv, Frame
    <3>4. /\ phase' \in {"running", "stopping", "aborted"}
          /\ boot.driver = "ui" => phase' # "stopping"
      BY <2>1 DEF Return, AfterCall
    <3>5. OnTheWay'
      BY <2>1 DEF OnTheWay
    <3> QED
      BY <2>1, <3>1, <3>3, <3>4, <3>5, NetRunning DEF Frame
  <2> QED
    BY <1>15, <2>2, <2>3 DEF SyscallError
<1>16. CASE LedgerError
  <2>1. CASE pc = "record"
    BY <1>16, <1>t, <2>1, NetLost
  <2>2. CASE pc # "record"
    <3>1. /\ phase = "running" /\ pc' = "idle" /\ \E r : Return(r) /\ Frame
          /\ effects' = effects /\ ledger' = ledger
          /\ (netlog' = netlog \/ LogConnect("denied")) /\ pc # "refuse"
      BY <1>16 DEF LedgerError, AppendPending, Return
    <3> QED
      BY <1>t, <2>2, <3>1, <1>q, NetCallStep DEF Innocent
  <2> QED
    BY <2>1, <2>2
<1>17. CASE ShutdownError
  <2>1. pc' = "idle" /\ pc = "idle" /\ phase # "crashed"
    BY <1>17 DEF ShutdownError, Still, NetInv, OnTheWay
  <2> QED
    BY <1>17, <1>t, <2>1, NetQuiet DEF ShutdownError, Still, Innocent
<1>18. CASE Finish \/ Drop
  BY <1>18, <1>t, NetQuiet DEF Finish, Drop, At, Still, Innocent
<1>19. CASE Attest
  BY <1>19, <1>t, NetAttest
<1>20. CASE End
  <2>1. Innocent
    BY <1>20, <1>b, <1>d, <1>e DEF End
  <2> QED
    BY <1>20, <1>t, <2>1, NetQuiet DEF End, Still
<1>21. CASE Crash
  BY <1>21, <1>t, NetQuiet DEF Crash, Innocent
<1>22. CASE Tick \/ Drift \/ Terminated \/ UNCHANGED vars
  BY <1>22, <1>t, NetQuiet DEF Tick, Drift, Terminated, vars, Innocent
<1> QED
  BY <1>1, <1>2, <1>3, <1>4, <1>5, <1>6, <1>7, <1>8, <1>9, <1>10, <1>11, <1>12, <1>13,
     <1>14, <1>15, <1>16, <1>17, <1>18, <1>19, <1>20, <1>21, <1>22, <1>l, <1>r, <1>s
  DEF Next, Check, Route, Answer, Cache, Perform, Fault

(***************************************************************************)
(* The attestation that a session signs at its end counts every connection *)
(* that was opened, by the way it was authorised, and every denial on the  *)
(* ledger, whichever faults and drivers the session had (attestation.rs,   *)
(* emit_network_attestation).                                              *)
(***************************************************************************)
THEOREM AttestationCorrect == Spec => []AttestationFaithful
<1>1. NetInv => AttestationFaithful
  BY DEF NetInv
<1> QED
  BY AuthInit, AuthNext, NetInit, NetNext, <1>1, PTL DEF Spec

-----------------------------------------------------------------------------
(***************************************************************************)
(* The access entries and the successful effects.  While a session runs    *)
(* there are as many of the ones as of the others, but for the operation   *)
(* that is being recorded, which is the current one.                       *)
(***************************************************************************)
AccessCount == Cardinality(Accesses)
SuccessCount == Cardinality(Successes)

Matched ==
    \A i \in Accesses, j \in Successes :
        Rank(Accesses, i) = Rank(Successes, j) => ledger[i].op = effects[j].op

LastIsCurrent ==
    \A j \in Successes : Rank(Successes, j) = SuccessCount => effects[j].op = cur

Balanced ==
    IF pc = "record" THEN SuccessCount = AccessCount + 1 ELSE SuccessCount = AccessCount

MatchInv ==
    /\ phase # "running" => pc = "idle"
    /\ boot.driver # "ui" =>
          /\ Matched /\ AccessCount <= SuccessCount /\ SuccessCount <= AccessCount + 1
          /\ phase \notin {"aborted", "crashed"} => Balanced
          /\ pc = "record" => LastIsCurrent

LEMMA RankOld ==
    ASSUME NEW n \in Nat, NEW S \in SUBSET (1..n), NEW i \in 1..n
    PROVE  /\ Rank(S \cup {n + 1}, i) = Rank(S, i)
           /\ Rank(S, i) \in Nat /\ Cardinality(S) \in Nat /\ Rank(S, i) <= Cardinality(S)
<1>1. {k \in S \cup {n + 1} : k <= i} = {k \in S : k <= i}
  OBVIOUS
<1>2. IsFiniteSet(1..n)
  BY FS_Interval
<1>3. IsFiniteSet(S) /\ {k \in S : k <= i} \in SUBSET S
  BY <1>2, FS_Subset
<1>4. IsFiniteSet({k \in S : k <= i}) /\ Cardinality({k \in S : k <= i}) <= Cardinality(S)
  BY <1>3, FS_Subset
<1> QED
  BY <1>1, <1>3, <1>4, FS_CardinalityType DEF Rank

LEMMA RankNew ==
    ASSUME NEW n \in Nat, NEW S \in SUBSET (1..n)
    PROVE  /\ Rank(S \cup {n + 1}, n + 1) = Cardinality(S) + 1
           /\ Cardinality(S \cup {n + 1}) = Cardinality(S) + 1
           /\ Cardinality(S) \in Nat
<1>0. \A k \in S \cup {n + 1} : k \in Nat /\ k <= n + 1
  OBVIOUS
<1>1. {k \in S \cup {n + 1} : k <= n + 1} = S \cup {n + 1}
  BY <1>0
<1> QED
  BY <1>1, IndexCount DEF Rank

LEMMA AccessesType ==
    ASSUME TypeOK
    PROVE  /\ Len(ledger) \in Nat /\ Accesses \in SUBSET (1..Len(ledger))
           /\ AccessCount \in Nat
<1>1. Len(ledger) \in Nat /\ Accesses \in SUBSET (1..Len(ledger))
  BY LedgerType DEF Accesses
<1> QED
  BY <1>1, IndexCount DEF AccessCount

LEMMA SuccessesType ==
    ASSUME TypeOK
    PROVE  /\ Len(effects) \in Nat /\ Successes \in SUBSET (1..Len(effects))
           /\ SuccessCount \in Nat
<1>1. effects \in Seq(EffectRecords)
  BY DEF TypeOK
<1>2. Len(effects) \in Nat /\ Successes \in SUBSET (1..Len(effects))
  BY <1>1 DEF Successes
<1> QED
  BY <1>2, IndexCount DEF SuccessCount

\* A step that neither records nor succeeds.
SameAccesses == Accesses' = Accesses /\ \A i \in Accesses : ledger'[i] = ledger[i]
SameSuccesses == Successes' = Successes /\ \A j \in Successes : effects'[j] = effects[j]

LEMMA OtherEntry ==
    ASSUME TypeOK,
           \/ ledger' = ledger
           \/ \E t \in EntryTypes \ {"access"}, d \in Details, g \in Nat : Log(t, d, g)
    PROVE  SameAccesses
<1>1. CASE ledger' = ledger
  BY <1>1 DEF SameAccesses, Accesses
<1>2. CASE \E t \in EntryTypes \ {"access"}, d \in Details, g \in Nat : Log(t, d, g)
  <2>1. PICK t \in EntryTypes \ {"access"}, d \in Details, g \in Nat : Log(t, d, g)
    BY <1>2
  <2>2. /\ Len(ledger) \in Nat
        /\ DOMAIN ledger = 1..Len(ledger) /\ DOMAIN ledger' = 1..(Len(ledger) + 1)
        /\ \A i \in 1..Len(ledger) : ledger'[i] = ledger[i]
        /\ ledger'[Len(ledger) + 1] = Entry(t, d, g)
    BY <2>1, Logged
  <2>3. ledger'[Len(ledger) + 1].type # "access"
    BY <2>1, <2>2, EntryFields
  <2> QED
    BY <2>2, <2>3 DEF SameAccesses, Accesses
<1> QED
  BY <1>1, <1>2

LEMMA OtherEffect ==
    ASSUME TypeOK, effects' = effects \/ effects' = Append(effects, Effect(FALSE))
    PROVE  SameSuccesses
<1>1. CASE effects' = effects
  BY <1>1 DEF SameSuccesses, Successes
<1>2. CASE effects' = Append(effects, Effect(FALSE))
  <2>1. /\ Len(effects) \in Nat
        /\ DOMAIN effects = 1..Len(effects) /\ DOMAIN effects' = 1..(Len(effects) + 1)
        /\ \A i \in 1..Len(effects) : effects'[i] = effects[i]
        /\ effects'[Len(effects) + 1] = Effect(FALSE)
    BY <1>2, EffectAdded
  <2>2. Effect(FALSE).ok = FALSE
    BY DEF Effect
  <2>3. ~effects'[Len(effects) + 1].ok
    BY <2>1, <2>2
  <2>4. \A i \in DOMAIN effects' : effects'[i].ok => i \in DOMAIN effects
    <3>1. \A i \in 1..(Len(effects) + 1) : i = Len(effects) + 1 \/ i \in 1..Len(effects)
      BY <2>1
    <3> QED
      BY <2>1, <2>3, <3>1, Zenon
  <2>5. \A i \in DOMAIN effects : i \in DOMAIN effects' /\ effects'[i] = effects[i]
    BY <2>1
  <2> QED
    BY <2>4, <2>5, Zenon DEF SameSuccesses, Successes
<1> QED
  BY <1>1, <1>2

LEMMA MatchStep ==
    ASSUME TypeOK, MatchInv, boot' = boot, SameAccesses, SameSuccesses,
           phase' # "running" => pc' = "idle",
           \/ pc # "record" /\ pc' # "record" /\ phase \notin {"aborted", "crashed"}
           \/ pc' = "idle" /\ phase' \in {"aborted", "crashed"}
           \/ pc' = pc /\ cur' = cur /\ phase' = phase
           \/ boot.driver = "ui"
    PROVE  MatchInv'
<1>1. SuccessCount' = SuccessCount /\ AccessCount' = AccessCount
  BY DEF SuccessCount, AccessCount, SameAccesses, SameSuccesses
<1>2. Matched => Matched'
  BY DEF Matched, SameAccesses, SameSuccesses
<1>3. CASE pc # "record" /\ pc' # "record" /\ phase \notin {"aborted", "crashed"}
  BY <1>1, <1>2, <1>3 DEF MatchInv, Balanced
<1>4. CASE pc' = "idle" /\ phase' \in {"aborted", "crashed"}
  BY <1>1, <1>2, <1>4 DEF MatchInv
<1>5. CASE pc' = pc /\ cur' = cur /\ phase' = phase
  <2>1. LastIsCurrent => LastIsCurrent'
    BY <1>1, <1>5 DEF LastIsCurrent, SameSuccesses
  <2> QED
    BY <1>1, <1>2, <1>5, <2>1 DEF MatchInv, Balanced
<1>6. CASE boot.driver = "ui"
  BY <1>6 DEF MatchInv
<1> QED
  BY <1>3, <1>4, <1>5, <1>6

LEMMA MatchSyscall == ASSUME TypeOK, MatchInv, Syscall PROVE MatchInv'
<1>1. /\ phase = "running" /\ phase' = "running" /\ pc = "syscall" /\ pc' = "record"
      /\ boot' = boot /\ cur' = cur /\ ledger' = ledger
      /\ effects' = Append(effects, Effect(TRUE))
  BY DEF Syscall, At, Goto, Frame
<1>2. PICK n : n = Len(effects)
  OBVIOUS
<1>3. /\ n \in Nat /\ DOMAIN effects = 1..n /\ DOMAIN effects' = 1..(n + 1)
      /\ \A i \in 1..n : effects'[i] = effects[i]
  BY <1>1, <1>2, EffectAdded
<1>b. effects'[n + 1] = Effect(TRUE)
  BY <1>1, <1>2, EffectAdded
<1>4. effects'[n + 1].ok /\ effects'[n + 1].op = cur
  <2>1. Effect(TRUE).ok = TRUE /\ Effect(TRUE).op = cur
    BY DEF Effect
  <2> QED
    BY <1>b, <2>1
<1>5. Successes \in SUBSET (1..n) /\ Successes' = Successes \cup {n + 1}
  <2>1. 1..(n + 1) = (1..n) \cup {n + 1}
    BY <1>3
  <2> QED
    BY <1>3, <1>4, <2>1, Zenon DEF Successes
<1>6. /\ SuccessCount' = SuccessCount + 1 /\ SuccessCount \in Nat
      /\ Rank(Successes', n + 1) = SuccessCount + 1
  BY <1>3, <1>5, RankNew DEF SuccessCount
<1>7. \A j \in Successes : /\ Rank(Successes', j) = Rank(Successes, j)
                           /\ Rank(Successes, j) \in Nat /\ Rank(Successes, j) <= SuccessCount
  BY <1>3, <1>5, RankOld DEF SuccessCount
<1>8. Accesses' = Accesses /\ AccessCount' = AccessCount
  BY <1>1 DEF Accesses, AccessCount
<1>9. /\ Len(ledger) \in Nat /\ Accesses \in SUBSET (1..Len(ledger)) /\ AccessCount \in Nat
  BY AccessesType
<1>10. \A i \in Accesses : Rank(Accesses, i) \in Nat /\ Rank(Accesses, i) <= AccessCount
  BY <1>9, RankOld DEF AccessCount
<1>11. ASSUME boot.driver # "ui" PROVE Matched' /\ LastIsCurrent' /\ Balanced'
  <2>1. SuccessCount = AccessCount /\ Matched
    BY <1>1, <1>11 DEF MatchInv, Balanced
  <2>2. ASSUME NEW i \in Accesses, NEW j \in Successes', Rank(Accesses, i) = Rank(Successes', j)
        PROVE  ledger[i].op = effects'[j].op
    <3>1. j # n + 1
      BY <1>6, <1>9, <1>10, <2>1, <2>2
    <3>2. j \in Successes
      BY <1>5, <3>1
    <3>3. effects'[j] = effects[j] /\ Rank(Successes', j) = Rank(Successes, j)
      BY <1>3, <1>5, <1>7, <3>2
    <3> QED
      BY <2>1, <2>2, <3>2, <3>3 DEF Matched
  <2>3. Matched'
    BY <1>1, <1>8, <2>2 DEF Matched
  <2>4. ASSUME NEW j \in Successes', Rank(Successes', j) = SuccessCount' PROVE effects'[j].op = cur
    <3>1. j \notin Successes
      BY <1>6, <1>7, <2>4
    <3> QED
      BY <1>4, <1>5, <3>1
  <2>5. LastIsCurrent'
    BY <1>1, <2>4 DEF LastIsCurrent
  <2> QED
    BY <1>1, <1>6, <1>8, <2>1, <2>3, <2>5 DEF Balanced
<1> QED
  BY <1>1, <1>6, <1>8, <1>9, <1>11 DEF MatchInv, Balanced

LEMMA MatchRecord == ASSUME TypeOK, MatchInv, Record PROVE MatchInv'
<1>1. /\ phase = "running" /\ pc = "record" /\ pc' = "idle" /\ phase' = "running"
      /\ boot' = boot /\ effects' = effects /\ Log("access", "", 0)
  BY DEF Record, At, Return, AfterCall, Frame
<1>2. PICK n : n = Len(ledger)
  OBVIOUS
<1>a. "access" \in EntryTypes /\ "" \in Details /\ 0 \in Nat
  BY DEF EntryTypes, Details
<1>3. /\ n \in Nat /\ DOMAIN ledger = 1..n /\ DOMAIN ledger' = 1..(n + 1)
      /\ \A i \in 1..n : ledger'[i] = ledger[i]
  BY <1>1, <1>2, <1>a, Logged
<1>b. ledger'[n + 1] = Entry("access", "", 0)
  BY <1>1, <1>2, <1>a, Logged
<1>4. ledger'[n + 1].type = "access" /\ ledger'[n + 1].op = cur
  <2>1. Entry("access", "", 0).type = "access" /\ Entry("access", "", 0).op = cur
    BY DEF Entry
  <2> QED
    BY <1>b, <2>1
<1>5. Accesses \in SUBSET (1..n) /\ Accesses' = Accesses \cup {n + 1}
  BY <1>3, <1>4 DEF Accesses
<1>6. /\ AccessCount' = AccessCount + 1 /\ AccessCount \in Nat
      /\ Rank(Accesses', n + 1) = AccessCount + 1
  BY <1>3, <1>5, RankNew DEF AccessCount
<1>7. \A i \in Accesses : Rank(Accesses', i) = Rank(Accesses, i)
  BY <1>3, <1>5, RankOld
<1>8. Successes' = Successes /\ SuccessCount' = SuccessCount /\ SuccessCount \in Nat
  BY <1>1, SuccessesType DEF Successes, SuccessCount
<1>9. ASSUME boot.driver # "ui" PROVE Matched' /\ Balanced'
  <2>1. SuccessCount = AccessCount + 1 /\ Matched /\ LastIsCurrent
    BY <1>1, <1>9 DEF MatchInv, Balanced
  <2>2. ASSUME NEW i \in Accesses', NEW j \in Successes, Rank(Accesses', i) = Rank(Successes, j)
        PROVE  ledger'[i].op = effects[j].op
    <3>1. CASE i = n + 1
      BY <1>4, <1>6, <2>1, <2>2, <3>1 DEF LastIsCurrent
    <3>2. CASE i # n + 1
      <4>1. i \in Accesses /\ ledger'[i] = ledger[i] /\ Rank(Accesses', i) = Rank(Accesses, i)
        BY <1>3, <1>5, <1>7, <3>2
      <4> QED
        BY <2>1, <2>2, <4>1 DEF Matched
    <3> QED
      BY <3>1, <3>2
  <2>3. Matched'
    BY <1>1, <1>8, <2>2 DEF Matched
  <2> QED
    BY <1>1, <1>6, <1>8, <2>1, <2>3 DEF Balanced
<1>10. boot.driver # "ui" => AccessCount' <= SuccessCount' /\ SuccessCount' <= AccessCount' + 1
  <2>1. boot.driver # "ui" => SuccessCount' = AccessCount'
    BY <1>1, <1>9 DEF Balanced
  <2> QED
    BY <1>6, <1>8, <2>1
<1> QED
  BY <1>1, <1>9, <1>10 DEF MatchInv

LEMMA MatchInit == Init => MatchInv
<1> SUFFICES ASSUME Init PROVE MatchInv
  OBVIOUS
<1>1. effects = <<>> /\ ledger = <<>> /\ pc = "idle" /\ phase = "running"
  BY DEF Init
<1>2. DOMAIN effects = {} /\ DOMAIN ledger = {}
  BY <1>1
<1>3. Accesses = {} /\ Successes = {}
  BY <1>2 DEF Accesses, Successes
<1>4. AccessCount = 0 /\ SuccessCount = 0
  BY <1>3, FS_EmptySet DEF AccessCount, SuccessCount
<1> QED
  BY <1>1, <1>3, <1>4 DEF MatchInv, Matched, Balanced

LEMMA MatchNext == TypeOK /\ MatchInv /\ [Next]_vars => MatchInv'
<1> SUFFICES ASSUME TypeOK, MatchInv, [Next]_vars PROVE MatchInv'
  OBVIOUS
<1>a. /\ {"violation", "approval_request", "approval_granted", "approval_rejected",
          "approval_timed_out", "approval_decision", "network_attestation",
          "session_end"} \subseteq EntryTypes \ {"access"}
      /\ {"", "identity_rebind", "policy", "aggregate_cap", "no_mcp_client",
          "auto_advisory", "auto_consumed_allow", "auto_consumed_deny",
          "grant_issued"} \subseteq Details
  BY DEF EntryTypes, Details
<1>b. 0 \in Nat /\ grants[Key(cur)].id \in Nat
  BY CachedType DEF GrantRecords
<1>c. Cleared(cur) # "record"
  BY DEF Cleared
<1>d. ASSUME SameAccesses, SameSuccesses, phase = "running", boot' = boot,
             pc # "record", pc' # "record", phase' = "running" \/ pc' = "idle"
      PROVE  MatchInv'
  BY <1>d, MatchStep
<1>1. ASSUME NEW op \in Ops, Begin(op) PROVE MatchInv'
  BY <1>1, <1>d, OtherEntry, OtherEffect DEF Begin, At, Goto
<1>2. CASE Rebind
  <2>1. SameAccesses
    BY <1>2, <1>a, <1>b, OtherEntry DEF Rebind
  <2> QED
    BY <1>2, <2>1, <1>d, OtherEffect DEF Rebind, At, Goto, Return, Frame
<1>3. CASE Check
  <2>1. SameAccesses
    BY <1>3, <1>a, <1>b, OtherEntry DEF Check, CheckAllow, CheckDeny, CheckGated, CheckMalformed
  <2> QED
    BY <1>3, <2>1, <1>c, <1>d, OtherEffect
    DEF Check, CheckAllow, CheckDeny, CheckGated, CheckMalformed, At, Goto, Return, Frame
<1>4. CASE Route
  <2>1. SameAccesses
    BY <1>4, <1>a, <1>b, OtherEntry
    DEF Route, RouteAdvisory, RouteLive, RouteAutoAllow, RouteAutoDeny, RouteNoChannel,
        RouteMiss, RouteRequest
  <2> QED
    BY <1>4, <2>1, <1>c, <1>d, OtherEffect
    DEF Route, RouteAdvisory, RouteLive, RouteAutoAllow, RouteAutoDeny, RouteNoChannel,
        RouteMiss, RouteRequest, At, Goto, Return, Frame
<1>5. CASE Answer \/ Cache \/ Issue
  <2>1. SameAccesses
    BY <1>5, <1>a, <1>b, OtherEntry
    DEF Answer, Granted, Rejected, TimedOut, Cache, Grant, Refuse, Issue
  <2> QED
    BY <1>5, <2>1, <1>c, <1>d, OtherEffect
    DEF Answer, Granted, Rejected, TimedOut, Cache, Grant, Refuse, Issue, At, Goto, Return, Frame
<1>6. CASE QuotaPass \/ QuotaBreach \/ McpUnattached
  <2>1. SameAccesses
    BY <1>6, <1>a, <1>b, OtherEntry DEF QuotaPass, QuotaBreach, McpUnattached
  <2> QED
    BY <1>6, <2>1, <1>d, OtherEffect
    DEF QuotaPass, QuotaBreach, McpUnattached, At, Goto, Return, Frame
<1>7. CASE Syscall
  BY <1>7, MatchSyscall
<1>8. CASE Record
  BY <1>8, MatchRecord
<1>9. CASE ChannelError \/ SyscallError
  <2>1. SameAccesses /\ SameSuccesses
    BY <1>9, OtherEntry, OtherEffect DEF ChannelError, SyscallError
  <2> QED
    BY <1>9, <2>1, <1>d DEF ChannelError, SyscallError, At, Return, Frame
<1>10. CASE LedgerError
  <2>1. /\ SameAccesses /\ SameSuccesses /\ boot' = boot /\ pc' = "idle" /\ phase = "running"
        /\ phase' = AfterCall("other")
    BY <1>10, OtherEntry, OtherEffect DEF LedgerError, Return, Frame
  <2>2. boot.driver = "ui" \/ phase' = "aborted"
    BY <2>1 DEF AfterCall
  <2> QED
    BY <2>1, <2>2, MatchStep
<1>11. CASE ShutdownError \/ Finish \/ Drop \/ Attest \/ End
  <2>1. SameAccesses /\ SameSuccesses
    BY <1>11, <1>a, <1>b, OtherEntry, OtherEffect
    DEF ShutdownError, Finish, Drop, Attest, End, Still
  <2>2. /\ phase \notin {"aborted", "crashed"} /\ phase' # "running" /\ pc' = "idle"
        /\ pc = "idle" /\ boot' = boot
    BY <1>11 DEF ShutdownError, Finish, Drop, Attest, End, Still, At, MatchInv
  <2> QED
    BY <2>1, <2>2, MatchStep
<1>12. CASE Crash
  BY <1>12, MatchStep, OtherEntry, OtherEffect DEF Crash
<1>13. CASE Tick \/ Drift \/ Terminated \/ UNCHANGED vars
  <2>1. /\ pc' = pc /\ cur' = cur /\ phase' = phase /\ boot' = boot /\ ledger' = ledger
        /\ effects' = effects
    BY <1>13 DEF Tick, Drift, Terminated, vars
  <2>2. phase' # "running" => pc' = "idle"
    BY <2>1 DEF MatchInv
  <2> QED
    BY <2>1, <2>2, MatchStep, OtherEntry, OtherEffect
<1> QED
  BY <1>1, <1>2, <1>3, <1>4, <1>5, <1>6, <1>7, <1>8, <1>9, <1>10, <1>11, <1>12, <1>13
  DEF Next, Perform, Fault

(***************************************************************************)
(* The n-th access entry is the n-th successful operation, and at most the *)
(* last operation of a session that ended on it is missing, wherever the   *)
(* session crashed or its ledger failed (emit_success and its callers).    *)
(***************************************************************************)
THEOREM LedgerComplete == Spec => []LedgerMatchesEffects
<1>1. TypeOK /\ MatchInv => LedgerMatchesEffects
  <2> SUFFICES ASSUME TypeOK, MatchInv PROVE LedgerMatchesEffects
    OBVIOUS
  <2>1. AccessCount \in Nat /\ SuccessCount \in Nat
    BY AccessesType, SuccessesType
  <2> QED
    BY <2>1 DEF MatchInv, LedgerMatchesEffects, Matched, Balanced, AccessCount, SuccessCount
<1> QED
  BY TypeInit, TypeNext, MatchInit, MatchNext, <1>1, PTL DEF Spec
=============================================================================
