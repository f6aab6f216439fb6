----------------------------- MODULE PolicyProps -----------------------------
(***************************************************************************)
(* A compiled manifest asked again and again as time passes, as the        *)
(* mediator does: what its write and delete decisions promise.             *)
(***************************************************************************)
EXTENDS Policy

CONSTANTS
    Manifests,   \* the manifests a session may be booted with
    Paths,       \* the paths it may be asked about
    Start,       \* the session's start, from which durations count
    LastTime     \* bound on the clock

ASSUME TimeAssumption == Start \in Nat /\ LastTime \in Nat
\* A bound that is present is an instant, or a length of time.
ASSUME GrantsAssumption ==
    \A m \in Manifests : \A i \in DOMAIN m.grants :
        m.grants[i].expiresAt \subseteq Nat /\ m.grants[i].duration \subseteq Nat

VARIABLES manifest, clock

policyVars == <<manifest, clock>>

Compile == manifest \in Manifests /\ clock = Start

\* The manifest is compiled once; only the clock moves.
Elapse == clock < LastTime /\ clock' = clock + 1 /\ UNCHANGED manifest

Rest == clock = LastTime /\ UNCHANGED policyVars

Proceed == Elapse \/ Rest

PolicySpec == Compile /\ [][Proceed]_policyVars

-----------------------------------------------------------------------------
Write(path) == CheckFilesystemWrite(manifest, path, clock, Start)
Delete(path) == CheckFilesystemDelete(manifest, path, clock, Start)

Named(path, action) == MatchingGrants(manifest, path, action) # {}
Live(path, action) == ValidGrants(manifest, path, action, clock, Start) # {}

(***************************************************************************)
(* ADR-019, explicit takes precedence: a write_grant that names the path   *)
(* decides even when it lapsed, so a broad tools.filesystem.write never    *)
(* revives it (check_filesystem_write); and a delete is never broad        *)
(* (check_filesystem_delete).                                              *)
(***************************************************************************)
ExplicitWins ==
    \A path \in Paths :
        /\ Named(path, "write") /\ ~Live(path, "write") => Write(path) = "deny"
        /\ Live(path, "write") => Write(path) # "deny"
        /\ Delete(path) # "deny" <=> Live(path, "delete")

(***************************************************************************)
(* A class in approval_required_for is gated by every route to an allow:   *)
(* explicit grant or broad coverage (write_decision, upgrade_for_approval).*)
(***************************************************************************)
ApprovalNeverBypassed ==
    \A path \in Paths :
        /\ "any_write" \in manifest.approvalFor => Write(path) # "allow"
        /\ "any_delete" \in manifest.approvalFor => Delete(path) # "allow"

(***************************************************************************)
(* Time only takes permissions away: what is denied stays denied           *)
(* (grant_time_valid).                                                     *)
(***************************************************************************)
DeniedStaysDenied ==
    [][\A path \in Paths :
          /\ Write(path) = "deny" => Write(path)' = "deny"
          /\ Delete(path) = "deny" => Delete(path)' = "deny"]_policyVars
=============================================================================
