------------------------------ MODULE BootProof ------------------------------
(***************************************************************************)
(* What the cache, the CA and the boot promise, proved for every set of    *)
(* processes and every budget of pulls, faults and edits.                  *)
(***************************************************************************)
EXTENDS Boot, TLAPS

-----------------------------------------------------------------------------
(* The model cache.                                                        *)

Fetching == {"manifest", "stage", "verify"}
Writing == {"ref_open", "ref_fill", "sha_open", "sha_fill", "template_open", "template_fill",
            "rename"}
PullerSteps == {"idle", "ok", "failed", "hit", "compare", "hit_template", "provenance"}
                  \cup Fetching \cup Writing

PullerRecords ==
    [at : PullerSteps, recorded : Contents, hashed : Contents, template : Contents]

CacheType ==
    /\ cache \in [Files -> Contents]
    /\ puller \in [Pullers -> PullerRecords]
    /\ overlapped \in BOOLEAN /\ outage \in BOOLEAN /\ spoiled \in BOOLEAN

\* Who writes has verified, and nobody else writes the sidecar of the blob.
VerifiedWrites ==
    /\ \A p \in Pullers : puller[p].at \in Writing \cup {"provenance"} => Signed
    /\ cache["sha"] \in {"none", "torn", "good"}
    /\ (\E f \in Files : cache[f] # "none") => Signed
    /\ \A p \in Pullers : puller[p].at = "hit" => cache["sha"] # "none"
    /\ \A p \in Pullers : puller[p].at \in {"compare", "hit_template"} =>
          puller[p].recorded \in {"torn", "good"}
    /\ \A p \in Pullers : puller[p].at \in {"hit", "compare", "hit_template"} => Signed
    /\ \A p \in Pullers : puller[p].at \in {"hit_template", "ok"} => puller[p].hashed = "good"
    /\ \A p \in Pullers : puller[p].at = "ok" => Signed

\* What the blob, the template and the badge can be, whatever was interrupted.
FilesSound ==
    /\ (~spoiled /\ ~outage) => cache["blob"] \in {"none", "good"}
    /\ ~HasTemplate => cache["template"] = "none"
    /\ "template" \notin edited => cache["template"] # "bad"
    /\ ~HasTemplate => \A p \in Pullers : puller[p].at \notin {"template_open", "template_fill"}
    /\ ~outage =>
          /\ \A p \in Pullers : puller[p].at = "provenance" => cache["blob"] # "none"
          /\ cache["provenance"] = "good" => cache["blob"] # "none"

\* One pull at a time: before its rename there is no blob, after it all files are whole.
TemplateWhole == IF HasTemplate THEN cache["template"] \in {"good", "bad"}
                 ELSE cache["template"] = "none"

InTurn ==
    (~overlapped /\ ~outage) =>
        /\ \A p, q \in Running : p = q
        /\ \A p \in Pullers : puller[p].at \in Fetching \cup Writing => cache["blob"] = "none"
        /\ \A p \in Pullers :
              puller[p].at \in {"sha_open", "sha_fill", "template_open", "template_fill",
                                "rename"} => cache["ref"] = "good"
        /\ \A p \in Pullers :
              puller[p].at \in {"template_open", "template_fill", "rename"} =>
                  cache["sha"] = "good"
        /\ \A p \in Pullers : puller[p].at = "rename" => TemplateWhole
        /\ cache["blob"] # "none" =>
              cache["ref"] = "good" /\ cache["sha"] = "good" /\ TemplateWhole

-----------------------------------------------------------------------------
(* The CA and the boot.                                                    *)

SessionRecords ==
    [policy : Nat, manifest : Nat, model : Contents, template : Contents,
     by : Initers \cup {NoOne}, turn : {<<>>} \cup (Contents \X Nat \X (Initers \cup {NoOne}))]

CaRecords == [by : Initers \cup {NoOne}, whole : BOOLEAN]

BootType ==
    /\ ca \in [CaFiles -> CaRecords]
    /\ initer \in [Initers -> CaFiles \cup {"start", "ok", "failed"}]
    /\ manifest \in Nat
    /\ boot \in [at : {"idle", "model", "manifest", "sidecar", "issue"}, sidecar : BOOLEAN,
                 policy : Nat, manifest : Nat, model : Contents, template : Contents]
    /\ session \in SessionRecords

\* The certificate comes first and is never replaced.
OneInit ==
    /\ \A i \in Initers : initer[i] \in {"key", "domain"} => ca["cert"].by = i
    /\ \A f \in CaFiles : ca[f].by # NoOne => ca[f].by = ca["cert"].by
    /\ \A f \in CaFiles : ca[f].whole => ca[f].by # NoOne
    /\ session # NoSession => session.by = ca["cert"].by /\ ca["cert"].by # NoOne

\* What the boot and the session hold of the manifest and of the model.
BoundInv ==
    /\ "window" \notin edited =>
          /\ boot.at \in {"model", "manifest"} => boot.policy = manifest
          /\ boot.at \in {"sidecar", "issue"} => boot.policy = boot.manifest
          /\ session # NoSession => session.policy = session.manifest
    /\ (~spoiled /\ ~outage) =>
          /\ boot.at \in {"manifest", "sidecar", "issue"} => Signed /\ boot.model = "good"
          /\ session # NoSession => Signed /\ session.model = "good"
    /\ "template" \notin edited =>
          /\ boot.template \in {"none", "good"}
          /\ session.template \in {"none", "good"}

ProvisionInv ==
    CacheType /\ VerifiedWrites /\ FilesSound /\ InTurn /\ BootType /\ OneInit /\ BoundInv

-----------------------------------------------------------------------------
(* The pulls.                                                              *)

\* One step of a pull: CacheNext for one process.
CacheStepOf(p) ==
    \/ Refuse(p) \/ Pull(p) \/ HitSidecar(p) \/ HitBlob(p) \/ HitTemplate(p)
    \/ Manifest(p) \/ Stage(p) \/ Cosign(p)
    \/ TruncateRef(p) \/ WriteRef(p) \/ TruncateSha(p) \/ WriteSha(p)
    \/ TruncateTemplate(p) \/ WriteTemplate(p) \/ Rename(p) \/ Provenance(p) \/ WriteFails(p) \/ Kill(p)

\* A pull keeps the types of the cache (pull).
LEMMA CacheTypeStep ==
    ASSUME CacheType, CacheNext
    PROVE  CacheType'
<1>. USE DEF CacheType, Contents, Files, Ghosts, PullerRecords, Fetching, Writing, PullerSteps
<1>1. ASSUME NEW p \in Pullers, CacheStepOf(p)
      PROVE  CacheType'
  <2>1. CASE Refuse(p)
    BY <2>1 DEF Refuse, Goto
  <2>2. CASE Pull(p)
    BY <2>2 DEF Pull, Idle, Running
  <2>3. CASE HitSidecar(p)
    <3>1. cache["sha"] \in Contents
      OBVIOUS
    <3>2. puller'[p] = [puller[p] EXCEPT !.at = "compare", !.recorded = cache["sha"]]
      BY <2>3 DEF HitSidecar
    <3>3. puller'[p] \in PullerRecords
      BY <3>1, <3>2
    <3>4. \A q \in Pullers : q # p => puller'[q] = puller[q]
      BY <2>3 DEF HitSidecar
    <3>5. puller' = [q \in Pullers |-> puller'[q]]
      BY <2>3 DEF HitSidecar
    <3>. QED
      BY <2>3, <3>3, <3>4, <3>5 DEF HitSidecar
  <2>4. CASE HitBlob(p)
    BY <2>4 DEF HitBlob
  <2>5. CASE HitTemplate(p)
    BY <2>5 DEF HitTemplate
  <2>6. CASE Manifest(p)
    BY <2>6 DEF Manifest, Try, Goto, Annotated
  <2>7. CASE Stage(p)
    BY <2>7 DEF Stage, Try, Goto
  <2>8. CASE Cosign(p)
    BY <2>8 DEF Cosign, Try, Goto
  <2>9. CASE WriteRef(p)
    BY <2>9 DEF WriteRef, Put, Goto
  <2>10. CASE TruncateSha(p)
    BY <2>10 DEF TruncateSha, Put, Goto
  <2>11. CASE WriteSha(p)
    BY <2>11 DEF WriteSha, Put, Goto
  <2>12. CASE TruncateTemplate(p)
    BY <2>12 DEF TruncateTemplate, Put, Goto
  <2>13. CASE WriteTemplate(p)
    BY <2>13 DEF WriteTemplate, Put, Goto
  <2>14. CASE Rename(p)
    BY <2>14 DEF Rename, Put, Goto
  <2>15. CASE Provenance(p)
    <3>1. \E t \in Contents : puller'[p] =
             [puller[p] EXCEPT !.at = "ok", !.hashed = "good", !.template = t]
      BY <2>15 DEF Provenance
    <3>2. puller'[p] \in PullerRecords
      BY <3>1
    <3>3. \A q \in Pullers : q # p => puller'[q] = puller[q]
      BY <2>15 DEF Provenance
    <3>4. puller' = [q \in Pullers |-> puller'[q]]
      BY <2>15 DEF Provenance
    <3>. QED
      BY <2>15, <3>2, <3>3, <3>4 DEF Provenance
  <2>16. CASE WriteFails(p)
    BY <2>16 DEF WriteFails, Goto
  <2>17. CASE Kill(p)
    BY <2>17 DEF Kill, Idle, Running
  <2>18. CASE TruncateRef(p)
    BY <2>18 DEF TruncateRef, Put, Goto
  <2>. QED
    BY <1>1, <2>1, <2>2, <2>3, <2>4, <2>5, <2>6, <2>7, <2>8, <2>9, <2>10, <2>11, <2>12, <2>13, <2>14, <2>15, <2>16,
       <2>17, <2>18
    DEF CacheStepOf
<1>2. CASE Tamper
  BY <1>2 DEF Tamper
<1>. QED
  BY <1>1, <1>2 DEF CacheNext, CacheStepOf

\* A pull writes only what it verified (pull).
LEMMA VerifiedStep ==
    ASSUME CacheType, VerifiedWrites, CacheNext
    PROVE  VerifiedWrites'
<1>. USE DEF CacheType, VerifiedWrites, Signed, Contents, Files, Ghosts, PullerRecords, Fetching, Writing, PullerSteps
<1>1. ASSUME NEW p \in Pullers, CacheStepOf(p)
      PROVE  VerifiedWrites'
  <2>1. CASE Refuse(p)
    BY <2>1 DEF Refuse, Goto
  <2>2. CASE Pull(p)
    BY <2>2 DEF Pull, Idle, Running
  <2>3. CASE HitSidecar(p)
    BY <2>3 DEF HitSidecar
  <2>4. CASE HitBlob(p)
    BY <2>4 DEF HitBlob
  <2>5. CASE HitTemplate(p)
    BY <2>5 DEF HitTemplate
  <2>6. CASE Manifest(p)
    BY <2>6 DEF Manifest, Try, Goto, Annotated
  <2>7. CASE Stage(p)
    BY <2>7 DEF Stage, Try, Goto
  <2>8. CASE Cosign(p)
    BY <2>8 DEF Cosign, Try, Goto
  <2>9. CASE WriteRef(p)
    BY <2>9 DEF WriteRef, Put, Goto
  <2>10. CASE TruncateSha(p)
    BY <2>10 DEF TruncateSha, Put, Goto
  <2>11. CASE WriteSha(p)
    BY <2>11 DEF WriteSha, Put, Goto
  <2>12. CASE TruncateTemplate(p)
    BY <2>12 DEF TruncateTemplate, Put, Goto
  <2>13. CASE WriteTemplate(p)
    BY <2>13 DEF WriteTemplate, Put, Goto
  <2>14. CASE Rename(p)
    BY <2>14 DEF Rename, Put, Goto
  <2>15. CASE Provenance(p)
    BY <2>15 DEF Provenance
  <2>16. CASE WriteFails(p)
    BY <2>16 DEF WriteFails, Goto
  <2>17. CASE Kill(p)
    BY <2>17 DEF Kill, Idle, Running
  <2>18. CASE TruncateRef(p)
    BY <2>18 DEF TruncateRef, Put, Goto
  <2>. QED
    BY <1>1, <2>1, <2>2, <2>3, <2>4, <2>5, <2>6, <2>7, <2>8, <2>9, <2>10, <2>11, <2>12, <2>13, <2>14, <2>15, <2>16,
       <2>17, <2>18
    DEF CacheStepOf
<1>2. CASE Tamper
  BY <1>2 DEF Tamper
<1>. QED
  BY <1>1, <1>2 DEF CacheNext, CacheStepOf

\* A pull leaves the files sound (pull).
LEMMA FilesStep ==
    ASSUME CacheType, FilesSound, UNCHANGED edited, CacheNext
    PROVE  FilesSound'
<1>. USE DEF CacheType, FilesSound, HasTemplate, Contents, Files, Ghosts, PullerRecords, Fetching, Writing, PullerSteps
<1>1. ASSUME NEW p \in Pullers, CacheStepOf(p)
      PROVE  FilesSound'
  <2>1. CASE Refuse(p)
    BY <2>1 DEF Refuse, Goto
  <2>2. CASE Pull(p)
    BY <2>2 DEF Pull, Idle, Running
  <2>3. CASE HitSidecar(p)
    BY <2>3 DEF HitSidecar
  <2>4. CASE HitBlob(p)
    BY <2>4 DEF HitBlob
  <2>5. CASE HitTemplate(p)
    BY <2>5 DEF HitTemplate
  <2>6. CASE Manifest(p)
    BY <2>6 DEF Manifest, Try, Goto, Annotated
  <2>7. CASE Stage(p)
    BY <2>7 DEF Stage, Try, Goto
  <2>8. CASE Cosign(p)
    BY <2>8 DEF Cosign, Try, Goto
  <2>9. CASE WriteRef(p)
    BY <2>9 DEF WriteRef, Put, Goto
  <2>10. CASE TruncateSha(p)
    BY <2>10 DEF TruncateSha, Put, Goto
  <2>11. CASE WriteSha(p)
    BY <2>11 DEF WriteSha, Put, Goto
  <2>12. CASE TruncateTemplate(p)
    BY <2>12 DEF TruncateTemplate, Put, Goto
  <2>13. CASE WriteTemplate(p)
    BY <2>13 DEF WriteTemplate, Put, Goto
  <2>14. CASE Rename(p)
    BY <2>14 DEF Rename, Put, Goto
  <2>15. CASE Provenance(p)
    BY <2>15 DEF Provenance
  <2>16. CASE WriteFails(p)
    BY <2>16 DEF WriteFails, Goto
  <2>17. CASE Kill(p)
    BY <2>17 DEF Kill, Idle, Running
  <2>18. CASE TruncateRef(p)
    BY <2>18 DEF TruncateRef, Put, Goto
  <2>. QED
    BY <1>1, <2>1, <2>2, <2>3, <2>4, <2>5, <2>6, <2>7, <2>8, <2>9, <2>10, <2>11, <2>12, <2>13, <2>14, <2>15, <2>16,
       <2>17, <2>18
    DEF CacheStepOf
<1>2. CASE Tamper
  BY <1>2 DEF Tamper
<1>. QED
  BY <1>1, <1>2 DEF CacheNext, CacheStepOf

\* Pulls in turn do not disturb each other (pull).
LEMMA InTurnStep ==
    ASSUME CacheType, FilesSound, InTurn, CacheNext
    PROVE  InTurn'
<1>. USE DEF CacheType, FilesSound, InTurn, TemplateWhole, HasTemplate, Running, Contents, Files, Ghosts, PullerRecords, Fetching, Writing, PullerSteps
<1>1. ASSUME NEW p \in Pullers, CacheStepOf(p)
      PROVE  InTurn'
  <2>1. CASE Refuse(p)
    BY <2>1 DEF Refuse, Goto
  <2>2. CASE Pull(p)
    <3>1. SUFFICES ASSUME ~overlapped', ~outage' PROVE InTurn'
      OBVIOUS
    <3>2. Running = {} /\ ~overlapped /\ ~outage /\ UNCHANGED cache
      BY <2>2, <3>1 DEF Pull
    <3>3. \A q \in Pullers : q # p => puller'[q] = puller[q]
      BY <2>2 DEF Pull
    <3>4. puller'[p].at \in {"hit", "manifest"}
      BY <2>2 DEF Pull, Idle
    <3>5. puller'[p].at = "manifest" => cache["blob"] = "none"
      BY <2>2, <3>2 DEF Pull, Idle
    <3>6. \A q, r \in Running' : q = r
      BY <3>2, <3>3
    <3>. QED
      BY <2>2, <3>2, <3>3, <3>4, <3>5, <3>6 DEF Pull
  <2>3. CASE HitSidecar(p)
    BY <2>3 DEF HitSidecar
  <2>4. CASE HitBlob(p)
    BY <2>4 DEF HitBlob
  <2>5. CASE HitTemplate(p)
    BY <2>5 DEF HitTemplate
  <2>6. CASE Manifest(p)
    BY <2>6 DEF Manifest, Try, Goto, Annotated
  <2>7. CASE Stage(p)
    BY <2>7 DEF Stage, Try, Goto
  <2>8. CASE Cosign(p)
    BY <2>8 DEF Cosign, Try, Goto
  <2>9. CASE WriteRef(p)
    BY <2>9 DEF WriteRef, Put, Goto
  <2>10. CASE TruncateSha(p)
    BY <2>10 DEF TruncateSha, Put, Goto
  <2>11. CASE WriteSha(p)
    BY <2>11 DEF WriteSha, Put, Goto
  <2>12. CASE TruncateTemplate(p)
    BY <2>12 DEF TruncateTemplate, Put, Goto
  <2>13. CASE WriteTemplate(p)
    BY <2>13 DEF WriteTemplate, Put, Goto
  <2>14. CASE Rename(p)
    BY <2>14 DEF Rename, Put, Goto
  <2>15. CASE Provenance(p)
    BY <2>15 DEF Provenance
  <2>16. CASE WriteFails(p)
    BY <2>16 DEF WriteFails, Goto
  <2>17. CASE Kill(p)
    BY <2>17 DEF Kill, Idle, Running
  <2>18. CASE TruncateRef(p)
    BY <2>18 DEF TruncateRef, Put, Goto
  <2>. QED
    BY <1>1, <2>1, <2>2, <2>3, <2>4, <2>5, <2>6, <2>7, <2>8, <2>9, <2>10, <2>11, <2>12, <2>13, <2>14, <2>15, <2>16,
       <2>17, <2>18
    DEF CacheStepOf
<1>2. CASE Tamper
  BY <1>2 DEF Tamper
<1>. QED
  BY <1>1, <1>2 DEF CacheNext, CacheStepOf

-----------------------------------------------------------------------------
(* The boot, the CA and the edits.                                         *)

\* The steps of init and boot keep their types (LocalCa::init, Session::boot).
LEMMA BootTypeStep ==
    ASSUME CacheType, BootType, BootNext
    PROVE  BootType'
<1>. USE InitersAssumption DEF CacheType, BootType, SessionRecords, NoSession, CaFiles, Contents, Files, cacheVars
<1>1. ASSUME NEW i \in Initers, CaInit(i) \/ CaInitRefuse(i) \/ InitDies(i)
      PROVE  BootType'
  BY <1>1 DEF CaInit, CaInitRefuse, InitDies, InitGoto
<1>2. ASSUME NEW i \in Initers, NEW f \in CaFiles, Create(i, f)
      PROVE  BootType'
  <2>1. [by |-> i, whole |-> FALSE] \in CaRecords
    BY DEF CaRecords
  <2>2. PICK r \in CaRecords : ca' = [ca EXCEPT ![f] = r] \/ ca' = ca
    BY <1>2, <2>1 DEF Create
  <2>3. ca' \in [CaFiles -> CaRecords]
    BY <2>2
  <2>4. initer' \in [Initers -> CaFiles \cup {"start", "ok", "failed"}]
    BY <1>2 DEF Create, InitGoto
  <2>. QED
    BY <1>2, <2>3, <2>4 DEF Create
<1>3. ASSUME NEW i \in Initers, NEW f \in CaFiles, Fill(i, f)
      PROVE  BootType'
  <2>1. ca[f] \in CaRecords
    OBVIOUS
  <2>2. [ca[f] EXCEPT !.whole = TRUE] \in CaRecords
    BY <2>1, Zenon DEF CaRecords
  <2>3. ca' \in [CaFiles -> CaRecords]
    BY <1>3, <2>2 DEF Fill
  <2>4. initer' \in [Initers -> CaFiles \cup {"start", "ok", "failed"}]
    BY <1>3 DEF Fill, InitGoto, After
  <2>. QED
    BY <1>3, <2>3, <2>4 DEF Fill
<1>4. CASE ReadPolicy
  BY <1>4 DEF ReadPolicy, BootFrame, NoBoot
<1>5. CASE HashModel
  BY <1>5 DEF HashModel, BootFrame, NoBoot
<1>6. CASE HashManifest
  BY <1>6 DEF HashManifest, BootFrame
<1>7. CASE ReadSidecar
  BY <1>7 DEF ReadSidecar, BootFrame, NoBoot, SidecarValid
<1>8. CASE Issue
  BY <1>8 DEF Issue, BootFrame, NoBoot, CaLoads, CaRecords
<1>9. CASE BootFails
  BY <1>9 DEF BootFails, BootFrame, NoBoot
<1>10. CASE IssueTurn
  BY <1>10 DEF IssueTurn, BootFrame, CaLoads, CaRecords
<1>11. CASE EditManifest
  BY <1>11 DEF EditManifest
<1>12. CASE EditSidecar
  BY <1>12 DEF EditSidecar
<1>. QED
  BY <1>1, <1>2, <1>3, <1>4, <1>5, <1>6, <1>7, <1>8, <1>9, <1>10, <1>11, <1>12 DEF BootNext

\* An init never takes over what another began (write_file).
LEMMA OneInitStep ==
    ASSUME BootType, OneInit, BootNext
    PROVE  OneInit'
<1>. USE InitersAssumption DEF BootType, CaRecords, SessionRecords, OneInit, NoSession, CaFiles, cacheVars
<1>1. ASSUME NEW i \in Initers, CaInit(i) \/ CaInitRefuse(i) \/ InitDies(i)
      PROVE  OneInit'
  BY <1>1 DEF CaInit, CaInitRefuse, InitDies, InitGoto
<1>2. ASSUME NEW i \in Initers, NEW f \in CaFiles, Create(i, f)
      PROVE  OneInit'
  BY <1>2 DEF Create, InitGoto
<1>3. ASSUME NEW i \in Initers, NEW f \in CaFiles, Fill(i, f)
      PROVE  OneInit'
  BY <1>3 DEF Fill, InitGoto, After
<1>4. CASE ReadPolicy
  BY <1>4 DEF ReadPolicy, BootFrame, NoBoot
<1>5. CASE HashModel
  BY <1>5 DEF HashModel, BootFrame, NoBoot
<1>6. CASE HashManifest
  BY <1>6 DEF HashManifest, BootFrame
<1>7. CASE ReadSidecar
  BY <1>7 DEF ReadSidecar, BootFrame, NoBoot, SidecarValid
<1>8. CASE Issue
  BY <1>8 DEF Issue, BootFrame, NoBoot, CaLoads
<1>9. CASE BootFails
  BY <1>9 DEF BootFails, BootFrame, NoBoot
<1>10. CASE IssueTurn
  BY <1>10 DEF IssueTurn, BootFrame, CaLoads
<1>11. CASE EditManifest
  BY <1>11 DEF EditManifest
<1>12. CASE EditSidecar
  BY <1>12 DEF EditSidecar
<1>. QED
  BY <1>1, <1>2, <1>3, <1>4, <1>5, <1>6, <1>7, <1>8, <1>9, <1>10, <1>11, <1>12 DEF BootNext

\* What a boot binds is what it read (Session::boot).
LEMMA BoundStep ==
    ASSUME CacheType, VerifiedWrites, FilesSound, BootType, BoundInv, BootNext
    PROVE  BoundInv'
<1>. USE InitersAssumption DEF CacheType, VerifiedWrites, FilesSound, BootType, SessionRecords, BoundInv, Signed, NoSession, CaFiles, Contents, Files, cacheVars
<1>1. ASSUME NEW i \in Initers, CaInit(i) \/ CaInitRefuse(i) \/ InitDies(i)
      PROVE  BoundInv'
  BY <1>1 DEF CaInit, CaInitRefuse, InitDies, InitGoto
<1>2. ASSUME NEW i \in Initers, NEW f \in CaFiles, Create(i, f)
      PROVE  BoundInv'
  BY <1>2 DEF Create, InitGoto
<1>3. ASSUME NEW i \in Initers, NEW f \in CaFiles, Fill(i, f)
      PROVE  BoundInv'
  BY <1>3 DEF Fill, InitGoto, After
<1>4. CASE ReadPolicy
  BY <1>4 DEF ReadPolicy, BootFrame, NoBoot
<1>5. CASE HashModel
  BY <1>5 DEF HashModel, BootFrame, NoBoot
<1>6. CASE HashManifest
  BY <1>6 DEF HashManifest, BootFrame
<1>7. CASE ReadSidecar
  BY <1>7 DEF ReadSidecar, BootFrame, NoBoot, SidecarValid
<1>8. CASE Issue
  BY <1>8 DEF Issue, BootFrame, NoBoot, CaLoads
<1>9. CASE BootFails
  BY <1>9 DEF BootFails, BootFrame, NoBoot
<1>10. CASE IssueTurn
  BY <1>10 DEF IssueTurn, BootFrame, CaLoads
<1>11. CASE EditManifest
  BY <1>11 DEF EditManifest
<1>12. CASE EditSidecar
  BY <1>12 DEF EditSidecar
<1>. QED
  BY <1>1, <1>2, <1>3, <1>4, <1>5, <1>6, <1>7, <1>8, <1>9, <1>10, <1>11, <1>12 DEF BootNext

\* Beside an edited template, init and boot leave the cache as it is.
LEMMA EditsSpareCache ==
    ASSUME CacheType, VerifiedWrites, FilesSound, InTurn, BootNext
    PROVE  (CacheType /\ VerifiedWrites /\ FilesSound /\ InTurn)'
<1>. USE InitersAssumption DEF CacheType, VerifiedWrites, FilesSound, InTurn, TemplateWhole, HasTemplate, Signed, Running, Contents, Files, cacheVars, PullerRecords, Fetching, Writing, PullerSteps
<1>1. ASSUME NEW i \in Initers, CaInit(i) \/ CaInitRefuse(i) \/ InitDies(i)
      PROVE  (CacheType /\ VerifiedWrites /\ FilesSound /\ InTurn)'
  BY <1>1 DEF CaInit, CaInitRefuse, InitDies, InitGoto
<1>2. ASSUME NEW i \in Initers, NEW f \in CaFiles, Create(i, f)
      PROVE  (CacheType /\ VerifiedWrites /\ FilesSound /\ InTurn)'
  BY <1>2 DEF Create, InitGoto
<1>3. ASSUME NEW i \in Initers, NEW f \in CaFiles, Fill(i, f)
      PROVE  (CacheType /\ VerifiedWrites /\ FilesSound /\ InTurn)'
  BY <1>3 DEF Fill, InitGoto, After
<1>4. CASE ReadPolicy
  BY <1>4 DEF ReadPolicy, BootFrame, NoBoot
<1>5. CASE HashModel
  BY <1>5 DEF HashModel, BootFrame, NoBoot
<1>6. CASE HashManifest
  BY <1>6 DEF HashManifest, BootFrame
<1>7. CASE ReadSidecar
  BY <1>7 DEF ReadSidecar, BootFrame, NoBoot, SidecarValid
<1>8. CASE Issue
  BY <1>8 DEF Issue, BootFrame, NoBoot, CaLoads
<1>9. CASE BootFails
  BY <1>9 DEF BootFails, BootFrame, NoBoot
<1>10. CASE IssueTurn
  BY <1>10 DEF IssueTurn, BootFrame, CaLoads
<1>11. CASE EditManifest
  BY <1>11 DEF EditManifest
<1>12. CASE EditSidecar
  BY <1>12 DEF EditSidecar
<1>. QED
  BY <1>1, <1>2, <1>3, <1>4, <1>5, <1>6, <1>7, <1>8, <1>9, <1>10, <1>11, <1>12 DEF BootNext

-----------------------------------------------------------------------------
(* The outage, and a pull beside the boot.                                 *)

\* Pulls do not undo what was done to the files, and leave the artefact alone.
LEMMA CacheGhosts ==
    ASSUME CacheNext
    PROVE  artefact' = artefact /\ outage' = outage /\ (spoiled => spoiled')
<1>1. ASSUME NEW p \in Pullers, CacheStepOf(p)
      PROVE  UNCHANGED <<artefact, outage, spoiled>>
  BY <1>1 DEF CacheStepOf, Refuse, Pull, HitSidecar, HitBlob, HitTemplate, Manifest, Stage,
     Cosign, TruncateRef, WriteRef, TruncateSha, WriteSha, TruncateTemplate, WriteTemplate, Rename,
     Provenance, WriteFails, Kill, Try, Put, Ghosts
<1>2. CASE Tamper
  BY <1>2 DEF Tamper
<1>. QED
  BY <1>1, <1>2 DEF CacheNext, CacheStepOf

\* A power loss may cut or remove any file; every process is gone.
LEMMA OutageStep ==
    ASSUME ProvisionInv, Outage
    PROVE  ProvisionInv'
<1>. USE InitersAssumption DEF ProvisionInv, Outage
<1>1. PICK F \in SUBSET Files, c \in {"none", "torn"} :
         cache' = [f \in Files |-> IF f \in F /\ cache[f] # "none" THEN c ELSE cache[f]]
  BY DEF PowerLoss
<1>2. puller' = [p \in Pullers |-> Idle] /\ outage' = TRUE
        /\ UNCHANGED <<artefact, overlapped, spoiled, edited, ca, manifest>>
  BY DEF PowerLoss
<1>3. CacheType'
  BY <1>1, <1>2 DEF CacheType, Contents, Idle, PullerRecords, PullerSteps
<1>4. VerifiedWrites'
  BY <1>1, <1>2 DEF VerifiedWrites, CacheType, Contents, Files, Signed, Idle, Writing
<1>5. FilesSound' /\ InTurn'
  BY <1>1, <1>2 DEF FilesSound, InTurn, CacheType, Contents, Files, HasTemplate, Idle
<1>6. BootType'
  BY <1>2 DEF BootType, SessionRecords, NoSession, NoBoot, Contents, CaFiles
<1>7. OneInit'
  BY <1>2 DEF BootType, CaRecords, OneInit, NoSession, CaFiles
<1>8. BoundInv'
  BY <1>2 DEF BoundInv, NoSession, NoBoot
<1>. QED
  BY <1>3, <1>4, <1>5, <1>6, <1>7, <1>8

\* The invariant holds in every state (pull, LocalCa::init, Session::boot).
LEMMA ProvisionInvariant == Spec => []ProvisionInv
<1>1. Init => ProvisionInv
  <2>. SUFFICES ASSUME Init PROVE ProvisionInv
    OBVIOUS
  <2>. USE InitersAssumption DEF Init, CacheInit
  <2>1. CacheType /\ VerifiedWrites /\ FilesSound /\ InTurn
    BY DEF CacheType, VerifiedWrites, FilesSound, InTurn, Contents, Files, Idle, Running,
       PullerRecords, PullerSteps, Writing, Fetching
  <2>2. BootType /\ OneInit
    <3>1. (CHOOSE i \in Initers : TRUE) \in Initers
      OBVIOUS
    <3>2. BootType
      BY <3>1 DEF BootType, SessionRecords, NoSession, NoBoot, Contents, CaFiles, CaRecords, Absent
    <3>3. OneInit
      BY <3>1 DEF OneInit, CaFiles, Absent
    <3>. QED
      BY <3>2, <3>3
  <2>3. BoundInv
    BY DEF BoundInv, NoSession, NoBoot
  <2>. QED
    BY <2>1, <2>2, <2>3 DEF ProvisionInv
<1>2. ProvisionInv /\ [Next]_vars => ProvisionInv'
  <2>. SUFFICES ASSUME ProvisionInv, [Next]_vars PROVE ProvisionInv'
    OBVIOUS
  <2>1. CASE CacheNext /\ UNCHANGED bootVars
    <3>1. CacheType' /\ VerifiedWrites' /\ FilesSound' /\ InTurn'
      BY <2>1, CacheTypeStep, VerifiedStep, FilesStep, InTurnStep DEF ProvisionInv, bootVars
    <3>2. BootType' /\ OneInit'
      BY <2>1 DEF ProvisionInv, bootVars, BootType, OneInit
    <3>3. BoundInv'
      BY <2>1, CacheGhosts DEF ProvisionInv, bootVars, BoundInv, Signed, CacheType
    <3>. QED
      BY <3>1, <3>2, <3>3 DEF ProvisionInv
  <2>2. CASE Outage
    BY <2>2, OutageStep
  <2>3. CASE BootNext
    BY <2>3, BootTypeStep, OneInitStep, BoundStep, EditsSpareCache DEF ProvisionInv
  <2>4. CASE UNCHANGED vars
    BY <2>4 DEF ProvisionInv, vars, cacheVars, bootVars, CacheType, VerifiedWrites, FilesSound,
       InTurn, TemplateWhole, HasTemplate, Signed, Running, BootType, OneInit, BoundInv
  <2>. QED
    BY <2>1, <2>2, <2>3, <2>4 DEF Next
<1>. QED
  BY <1>1, <1>2, PTL DEF Spec

-----------------------------------------------------------------------------
(* The theorems.                                                           *)

(***************************************************************************)
(* Every pull that returns Ok hands out verified bytes, for any number of  *)
(* concurrent pulls, kills, power losses and overwritten blobs (pull).     *)
(***************************************************************************)
THEOREM PullsVerified == Spec => []PullVerified
<1>1. ProvisionInv => PullVerified
  BY DEF ProvisionInv, VerifiedWrites, PullVerified
<1>. QED
  BY <1>1, ProvisionInvariant, PTL

(***************************************************************************)
(* The badge of the model library stands for a verified blob in place, and *)
(* with one pull at a time for all its sidecars (pull, list_models).       *)
(***************************************************************************)
THEOREM BadgesHonest == Spec => []BadgeHonest
<1>1. ProvisionInv => BadgeHonest
  BY DEF ProvisionInv, CacheType, VerifiedWrites, FilesSound, InTurn, TemplateWhole,
     BadgeHonest, Listed, Files
<1>. QED
  BY <1>1, ProvisionInvariant, PTL

(***************************************************************************)
(* A killed or failed pull leaves nothing the next one trips over (pull).  *)
(***************************************************************************)
THEOREM KilledPullsHarmless == Spec => []KilledPullHarmless
<1>1. ProvisionInv => KilledPullHarmless
  BY DEF ProvisionInv, FilesSound, InTurn, TemplateWhole, KilledPullHarmless
<1>. QED
  BY <1>1, ProvisionInvariant, PTL

(***************************************************************************)
(* A CA that loads is of one init, and so is every SVID, for any number of *)
(* concurrent and killed inits (LocalCa::init, write_file).                *)
(***************************************************************************)
THEOREM CaIsOne == Spec => []OneCa
<1>1. ProvisionInv => OneCa
  BY DEF ProvisionInv, OneInit, OneCa, CaLoads
<1>. QED
  BY <1>1, ProvisionInvariant, PTL

(***************************************************************************)
(* A session is bound to verified model bytes and to the publisher's       *)
(* template, unless somebody else wrote the files (Session::boot, pull).   *)
(***************************************************************************)
THEOREM BoundIsVerified == Spec => []BoundVerified
<1>1. ProvisionInv => BoundVerified
  BY DEF ProvisionInv, BoundInv, BoundVerified
<1>. QED
  BY <1>1, ProvisionInvariant, PTL

(***************************************************************************)
(* Where the policy in force is not the manifest on disk, the bound digest *)
(* is not either, unless the edit fell between the two reads of the boot   *)
(* (Session::boot, Session::issue_turn_svid).                              *)
(***************************************************************************)
THEOREM StalePoliciesCaught == Spec => []StalePolicyCaught
<1>1. ProvisionInv => StalePolicyCaught
  BY DEF ProvisionInv, BoundInv, StalePolicyCaught
<1>. QED
  BY <1>1, ProvisionInvariant, PTL
=============================================================================
