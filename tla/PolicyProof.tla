----------------------------- MODULE PolicyProof -----------------------------
(***************************************************************************)
(* Theorems about the policy's decisions, for every manifest, path and     *)
(* instant.                                                                *)
(***************************************************************************)
EXTENDS PolicyProps, TLAPS

\* The manifest stays one the session may be booted with.
PolicyInv == manifest \in Manifests /\ clock \in Nat

LEMMA PolicyInit == Compile => PolicyInv
BY TimeAssumption DEF Compile, PolicyInv

LEMMA PolicyNext == PolicyInv /\ [Proceed]_policyVars => PolicyInv'
BY DEF PolicyInv, Proceed, Elapse, Rest, policyVars

LEMMA PolicyAlways == PolicySpec => []PolicyInv
BY PolicyInit, PolicyNext, PTL DEF PolicySpec

-----------------------------------------------------------------------------
(* What the decision operators return.                                     *)

LEMMA GrantDecision ==
    ASSUME NEW m, NEW valid, NEW action
    PROVE  /\ WriteDecision(m, valid, action) \in {"approval", "allow"}
           /\ ApprovalClass(action) \in m.approvalFor =>
                 WriteDecision(m, valid, action) = "approval"
BY DEF WriteDecision, AllowUnless

\* A write is denied when its grants lapsed, and only then or without coverage.
LEMMA WriteDenied ==
    ASSUME NEW m, NEW path, NEW t, NEW start
    PROVE  CheckFilesystemWrite(m, path, t, start) = "deny" <=>
              /\ ValidGrants(m, path, "write", t, start) = {}
              /\ MatchingGrants(m, path, "write") # {} \/ ~PathsCover(path, m.write)
BY GrantDecision DEF CheckFilesystemWrite, AllowUnless

LEMMA DeleteDenied ==
    ASSUME NEW m, NEW path, NEW t, NEW start
    PROVE  CheckFilesystemDelete(m, path, t, start) = "deny" <=>
              ValidGrants(m, path, "delete", t, start) = {}
BY GrantDecision DEF CheckFilesystemDelete

\* A grant that is out of its window at an instant is out of it ever after.
LEMMA WindowsClose ==
    ASSUME NEW m \in Manifests, NEW path, NEW action, NEW t \in Nat, NEW u \in Nat, t <= u
    PROVE  ValidGrants(m, path, action, u, Start) \subseteq ValidGrants(m, path, action, t, Start)
<1> SUFFICES ASSUME NEW i \in ValidGrants(m, path, action, u, Start)
             PROVE  i \in ValidGrants(m, path, action, t, Start)
  OBVIOUS
<1>1. i \in MatchingGrants(m, path, action) /\ GrantTimeValid(m.grants[i], u, Start)
  BY DEF ValidGrants
<1>2. i \in DOMAIN m.grants
  BY <1>1 DEF MatchingGrants
<1>3. m.grants[i].expiresAt \subseteq Nat /\ m.grants[i].duration \subseteq Nat
  BY <1>2, GrantsAssumption
<1>4. \A e \in m.grants[i].expiresAt : t < e
  BY <1>1, <1>3 DEF GrantTimeValid
<1>5. \A d \in m.grants[i].duration : t < Start + d
  BY <1>1, <1>3, TimeAssumption DEF GrantTimeValid
<1> QED
  BY <1>1, <1>4, <1>5 DEF ValidGrants, GrantTimeValid

-----------------------------------------------------------------------------
(* The theorems.                                                           *)

(***************************************************************************)
(* In every manifest an explicit write_grant decides about its path, also  *)
(* when it lapsed, and nothing else allows a delete (ADR-019).             *)
(***************************************************************************)
THEOREM ExplicitDecides == PolicySpec => []ExplicitWins
<1>1. ExplicitWins
  BY WriteDenied, DeleteDenied DEF ExplicitWins, Write, Delete, Named, Live
<1> QED
  BY <1>1, PTL

(***************************************************************************)
(* In every manifest and at every instant, an action whose class is in     *)
(* approval_required_for is never allowed without an approval.             *)
(***************************************************************************)
THEOREM ApprovalGatesEveryRoute == PolicySpec => []ApprovalNeverBypassed
<1>1. ApprovalClass("write") = "any_write" /\ ApprovalClass("delete") = "any_delete"
  BY DEF ApprovalClass
<1>2. ASSUME NEW path, "any_write" \in manifest.approvalFor PROVE Write(path) # "allow"
  BY <1>1, <1>2, GrantDecision DEF Write, CheckFilesystemWrite, AllowUnless
<1>3. ASSUME NEW path, "any_delete" \in manifest.approvalFor PROVE Delete(path) # "allow"
  BY <1>1, <1>3, GrantDecision DEF Delete, CheckFilesystemDelete
<1>4. ApprovalNeverBypassed
  BY <1>2, <1>3 DEF ApprovalNeverBypassed
<1> QED
  BY <1>4, PTL

(***************************************************************************)
(* Time only takes permissions away: whatever the windows of a manifest's  *)
(* grants, no denied write or delete is ever permitted later, neither by   *)
(* the lapsed grant nor by broad coverage (grant_time_valid).              *)
(***************************************************************************)
THEOREM TimeOnlyDenies == PolicySpec => DeniedStaysDenied
<1>1. ASSUME PolicyInv, [Proceed]_policyVars, NEW path
      PROVE  /\ Write(path) = "deny" => Write(path)' = "deny"
             /\ Delete(path) = "deny" => Delete(path)' = "deny"
  <2>1. manifest' = manifest /\ manifest \in Manifests /\ clock \in Nat
    BY <1>1 DEF PolicyInv, Proceed, Elapse, Rest, policyVars
  <2>2. clock' \in Nat /\ clock <= clock'
    BY <1>1, <2>1 DEF Proceed, Elapse, Rest, policyVars
  <2>3. \A action : ValidGrants(manifest, path, action, clock', Start)
                       \subseteq ValidGrants(manifest, path, action, clock, Start)
    BY <2>1, <2>2, WindowsClose
  <2>4. Write(path) = "deny" => Write(path)' = "deny"
    BY <2>1, <2>3, WriteDenied DEF Write
  <2>5. Delete(path) = "deny" => Delete(path)' = "deny"
    BY <2>1, <2>3, DeleteDenied DEF Delete
  <2> QED
    BY <2>4, <2>5
<1>2. PolicyInv /\ [Proceed]_policyVars =>
         [\A path \in Paths : /\ Write(path) = "deny" => Write(path)' = "deny"
                              /\ Delete(path) = "deny" => Delete(path)' = "deny"]_policyVars
  BY <1>1
<1> QED
  BY <1>2, PolicyAlways, PTL DEF PolicySpec, DeniedStaysDenied
=============================================================================
