---------------------------- MODULE MediatorProps ----------------------------
(***************************************************************************)
(* What a session promises, stated over the ledger an auditor reads, the   *)
(* effects the world has seen and the results the driver gets.             *)
(***************************************************************************)
EXTENDS Mediator

Results == {"ok", "denied", "approval", "rebind", "other"}
Steps == {"idle", "rebind", "check", "route", "consume", "ask", "await", "grant",
          "refuse", "issue", "quota", "syscall", "record"}
Phases == {"running", "stopping", "attested"} \cup Over
EntryTypes == {"violation", "approval_request", "approval_granted",
               "approval_rejected", "approval_timed_out", "approval_decision",
               "access", "network_attestation", "session_end"}
Details == {"", "identity_rebind", "policy", "aggregate_cap", "no_mcp_client",
            "auto_advisory", "auto_consumed_allow", "auto_consumed_deny",
            "grant_issued"}

GrantRecords == [decision : {"none", "allow", "deny"}, issuedAt : Nat, id : Nat]
Entries == [type : EntryTypes, op : Ops, detail : Details, gid : Nat, at : Nat,
            looked : Nat]
EffectRecords == [op : Ops, checked : Nat, after : Nat, call : Nat, ok : BOOLEAN]
Connections == [op : Ops, decision : {"allowed", "approved", "denied"}]
Summaries == [total : Nat, allowed : Nat, approved : Nat, denied : Nat]

\* The shape of the session's state (session.rs, struct Session).
TypeOK ==
    /\ boot \in Boots
    /\ now \in Nat /\ live \in {"bound"} \cup LiveStates
    /\ phase \in Phases /\ pc \in Steps
    /\ cur \in Ops /\ checked \in Nat /\ looked \in Nat /\ calls \in Nat /\ result \in Results
    /\ grants \in [Keys -> GrantRecords]
    /\ counts \in [Classes -> Nat]
    /\ netlog \in Seq(Connections)
    /\ ledger \in Seq(Entries)
    /\ effects \in Seq(EffectRecords)
    /\ attested \in Seq(Summaries)
    /\ faults \in Nat

-----------------------------------------------------------------------------
(* Authorisation.                                                          *)

\* The approval_decision entries after which an operation is dispatched.
Permits(e, op) ==
    /\ e.type = "approval_decision"
    /\ e.detail \in {"auto_advisory", "auto_consumed_allow", "grant_issued"}
    /\ e.op = op

(***************************************************************************)
(* Nothing happens in the world that the policy did not allow when it was  *)
(* asked, and what it gated happens only with a permitting decision for    *)
(* the same operation as the last entry of the ledger, so that the         *)
(* decision is on record before the operation (route_through_approval and  *)
(* the match of every mediate_* method).                                   *)
(***************************************************************************)
EffectAuthorised(e) ==
    \/ Verdict(e.op, e.checked) = "allow"
    \/ /\ Verdict(e.op, e.checked) = "approval"
       /\ e.after \in DOMAIN ledger /\ Permits(ledger[e.after], e.op)

EffectsAuthorised == \A i \in DOMAIN effects : EffectAuthorised(effects[i])

(***************************************************************************)
(* A silent retry rests on an operator: every auto_consumed_allow follows  *)
(* an approval_granted for the same tool and arguments, with no rejection  *)
(* of them in between.  The TTL runs from the grant, which is dated after  *)
(* that entry and before the next one, to the lookup; without faults the   *)
(* entry after the approval is the grant_issued that the retry names       *)
(* (grants.rs, lookup and insert; mediator.rs, route_through_approval).    *)
(* The entries' own timestamps may lie further apart than the TTL.         *)
(***************************************************************************)
SameKey(e, f) == Key(e.op) = Key(f.op)

Approves(j, e) ==
    /\ ledger[j].type = "approval_granted" /\ SameKey(ledger[j], e)
    /\ e.looked < ledger[j + 1].at + Ttl[Class(e.op)]
    /\ faults = 0 => ledger[j + 1].detail = "grant_issued" /\ ledger[j + 1].gid = e.gid

AutoConsumeJustified ==
    \A i \in DOMAIN ledger : ledger[i].detail = "auto_consumed_allow" =>
        \E j \in 1..(i - 1) :
            /\ Approves(j, ledger[i])
            /\ \A k \in j..i :
                  ~(ledger[k].type = "approval_rejected" /\ SameKey(ledger[k], ledger[i]))

(***************************************************************************)
(* The operator is not asked again about what was decided less than a TTL  *)
(* ago, whichever way it was decided (ADR-029: identical retries within    *)
(* the TTL auto-consume the prior decision without re-prompting).          *)
(***************************************************************************)
NoNagging ==
    \A i, j \in DOMAIN ledger :
        (/\ i < j
         /\ ledger[i].type \in {"approval_granted", "approval_rejected"}
         /\ ledger[j].type = "approval_request" /\ SameKey(ledger[i], ledger[j]))
        => ledger[j].at >= ledger[i].at + Ttl[Class(ledger[j].op)]

-----------------------------------------------------------------------------
(* Quotas.                                                                 *)

Performed(c) == {i \in DOMAIN effects : Class(effects[i].op) = c}

(***************************************************************************)
(* No class of tools other than the network is dispatched more often than  *)
(* its manifest cap, however the calls end (aggregate.rs,                  *)
(* check_and_increment before every dispatch).                             *)
(***************************************************************************)
QuotaHolds ==
    \A c \in Classes \ {<<"network">>} : \A cap \in Cap[c] :
        Cardinality(Performed(c)) <= cap

(***************************************************************************)
(* aggregate.rs:18-19 says the accumulator tracks max_calls_per_session    *)
(* per tool class (Filesystem, Network, Exec, Mcp): the cap of the network *)
(* class bounds the connections.                                           *)
(***************************************************************************)
NetworkQuotaHolds ==
    \A cap \in (IF <<"network">> \in Classes THEN Cap[<<"network">>] ELSE {}) :
        Cardinality(Performed(<<"network">>)) <= cap

-----------------------------------------------------------------------------
(* What the results and the ledger say of the effects.                     *)

Of(call) == {i \in DOMAIN effects : effects[i].call = call}

Explains(e) ==
    \/ e.type \in {"violation", "approval_rejected", "approval_timed_out"}
    \/ e.detail = "auto_consumed_deny"

Returned == pc = "idle" /\ calls > 0 /\ phase # "crashed"

(***************************************************************************)
(* A call that returned success happened and its access entry closes the   *)
(* ledger; one that needs approval, failed the rebind or was denied did    *)
(* nothing; and a denial is explained by the last entry.  Two failures are *)
(* outside: a channel error, and an MCP client's error, after which the    *)
(* tool may have run (mediator.rs 421-423, 712-714).                       *)
(***************************************************************************)
ResultsAccounted ==
    (Returned /\ phase = "running") =>
        /\ result = "ok" => /\ \E i \in Of(calls) : effects[i].ok
                            /\ ledger[Len(ledger)].type = "access"
        /\ result \in {"approval", "rebind"} => Of(calls) = {}
        /\ (result = "denied" /\ cur.kind # "mcp") => Of(calls) = {}
        /\ (result = "denied" /\ faults = 0) => Explains(ledger[Len(ledger)])

Accesses == {i \in DOMAIN ledger : ledger[i].type = "access"}
Successes == {i \in DOMAIN effects : effects[i].ok}

\* The place of index i among the indices S.
Rank(S, i) == Cardinality({k \in S : k <= i})

(***************************************************************************)
(* The access entries are the successful effects, in order and each once:  *)
(* the n-th entry is of the n-th operation.  Only the last one may be      *)
(* missing, while it is being recorded or because the session ended there. *)
(* The caller's part in it: a script or a prompt gives up at the first     *)
(* append that fails (emit_success).                                       *)
(***************************************************************************)
LedgerMatchesEffects ==
    boot.driver # "ui" =>
        /\ \A i \in Accesses, j \in Successes :
              Rank(Accesses, i) = Rank(Successes, j) => ledger[i].op = effects[j].op
        /\ Cardinality(Accesses) <= Cardinality(Successes)
        /\ Cardinality(Successes) - Cardinality(Accesses) <=
              IF pc = "record" \/ phase \in {"aborted", "crashed"} THEN 1 ELSE 0

(***************************************************************************)
(* The network attestation counts every connection of the session and      *)
(* tells apart the ones that went through the approval gate                *)
(* (attestation.rs, emit_network_attestation, against what was opened).    *)
(***************************************************************************)
Opened(v) == {i \in DOMAIN effects : /\ effects[i].op.kind = "connect"
                                     /\ Verdict(effects[i].op, effects[i].checked) = v}

DeniedConnects == {i \in DOMAIN ledger : /\ ledger[i].op.kind = "connect"
                                         /\ Explains(ledger[i])
                                         /\ ledger[i].detail # "identity_rebind"}

AttestationFaithful ==
    \A i \in DOMAIN attested :
        /\ attested[i].allowed = Cardinality(Opened("allow"))
        /\ attested[i].approved = Cardinality(Opened("approval"))
        /\ attested[i].denied >= Cardinality(DeniedConnects)
        /\ attested[i].total = attested[i].allowed + attested[i].approved
                                  + attested[i].denied

-----------------------------------------------------------------------------
(* Identity and the end of the session.                                    *)

Rebound == {i \in DOMAIN ledger : ledger[i].detail = "identity_rebind"}

(***************************************************************************)
(* After a rebind violation a script or a prompt does nothing any more: no *)
(* operation, and no entry but the two of the shutdown                     *)
(* (identity_binding.rs:5-7, run.rs dispatch).                             *)
(***************************************************************************)
HaltOnDrift ==
    boot.driver # "ui" =>
        \A i \in Rebound :
            /\ \A j \in (i + 1)..Len(ledger) :
                  ledger[j].type \in {"network_attestation", "session_end"}
            /\ \A k \in DOMAIN effects : effects[k].after < i
=============================================================================
