-------------------------------- MODULE Boot --------------------------------
(***************************************************************************)
(* From the cache to a session: the local CA (crates/identity/src/ca.rs),  *)
(* created by aegis identity init as three files, and Session::boot        *)
(* (crates/inference-engine/src/session.rs), which reads the manifest,     *)
(* hashes the files, has the CA issue the SVID that binds their digests    *)
(* and opens the ledger.  Boots, inits and pulls are processes that share  *)
(* the files; the manifest and the template sidecar may be edited.         *)
(***************************************************************************)
EXTENDS ModelCache

CONSTANTS
    Initers,      \* processes that run aegis identity init
    NoOne

VARIABLES
    ca,           \* ca.crt, ca.key, trust_domain: [by, whole], by = NoOne if absent
    initer,       \* each init: "start", the file it is about to write, "ok", "failed"
    manifest,     \* the version of the manifest on disk
    edited,       \* ghost: what was edited
    boot,         \* Session::boot: where it is and what it has read
    session       \* the session it returned

ASSUME InitersAssumption == Initers # {} /\ NoOne \notin Initers

bootVars == <<ca, initer, manifest, edited, boot, session>>
vars == <<cacheVars, bootVars>>

CaFiles == {"cert", "key", "domain"}
Absent == [by |-> NoOne, whole |-> FALSE]
NoSession == [policy |-> 0, manifest |-> 0, model |-> "none", template |-> "none",
              by |-> NoOne, turn |-> <<>>]
NoBoot == [at |-> "idle", sidecar |-> FALSE, policy |-> 0, manifest |-> 0,
           model |-> "none", template |-> "none"]

Init ==
    /\ CacheInit
    /\ LET first == CHOOSE i \in Initers : TRUE IN
          ca = [f \in CaFiles |-> IF left.inits = 0 THEN [by |-> first, whole |-> TRUE] ELSE Absent]
    /\ initer = [i \in Initers |-> "start"]
    /\ manifest = 1 /\ edited = {}
    /\ boot = NoBoot /\ session = NoSession

-----------------------------------------------------------------------------
(* LocalCa.                                                                *)

InitGoto(i, l) == initer' = [initer EXCEPT ![i] = l]

\* init: refuse when ca.crt exists, or when the trust domain is not valid.
CaInit(i) ==
    /\ initer[i] = "start" /\ left.inits > 0
    /\ InitGoto(i, IF ca["cert"].by # NoOne THEN "failed" ELSE "cert")
    /\ UNCHANGED <<cacheVars, ca, manifest, edited, boot, session>>

CaInitRefuse(i) ==
    /\ initer[i] = "start" /\ left.inits > 0
    /\ InitGoto(i, "failed")
    /\ UNCHANGED <<cacheVars, ca, manifest, edited, boot, session>>

\* Faulty variant: write_file opens with create and truncate.
CreateTruncating(i, f) ==
    /\ initer[i] = f
    /\ ca' = [ca EXCEPT ![f] = [by |-> i, whole |-> FALSE]]
    /\ UNCHANGED <<cacheVars, initer, manifest, edited, boot, session>>

\* write_file opens with create_new: somebody else's file is an error.
Create(i, f) ==
    /\ initer[i] = f /\ ca[f].by # i
    /\ IF ca[f].by = NoOne
       THEN ca' = [ca EXCEPT ![f] = [by |-> i, whole |-> FALSE]] /\ UNCHANGED initer
       ELSE InitGoto(i, "failed") /\ UNCHANGED ca
    /\ UNCHANGED <<cacheVars, manifest, edited, boot, session>>

After(f) == CASE f = "cert" -> "key" [] f = "key" -> "domain" [] f = "domain" -> "ok"

\* write_all and sync_all, then the next file.
Fill(i, f) ==
    /\ initer[i] = f /\ ca[f].by = i /\ ~ca[f].whole
    /\ ca' = [ca EXCEPT ![f].whole = TRUE] /\ InitGoto(i, After(f))
    /\ UNCHANGED <<cacheVars, manifest, edited, boot, session>>

\* An init is killed, or a write of it fails.
InitDies(i) ==
    /\ initer[i] \in CaFiles
    /\ InitGoto(i, "failed")
    /\ UNCHANGED <<cacheVars, ca, manifest, edited, boot, session>>

\* load: all three files, parsed; a torn PEM or an empty trust domain is an error.
CaLoads == \A f \in CaFiles : ca[f].whole

-----------------------------------------------------------------------------
(* Session::boot.                                                          *)

BootGoto(l) == boot' = [boot EXCEPT !.at = l]
BootFrame == <<cacheVars, ca, initer, manifest, edited>>

\* Policy::from_yaml_file and the reserved server names.
ReadPolicy ==
    /\ boot.at = "idle" /\ session = NoSession
    /\ \E s \in BOOLEAN :
          boot' = [NoBoot EXCEPT !.at = "model", !.policy = manifest, !.sidecar = s]
    /\ UNCHANGED <<BootFrame, session>>

\* sha256_file of the model.
HashModel ==
    /\ boot.at = "model"
    /\ boot' = IF cache["blob"] = "none" THEN NoBoot
               ELSE [boot EXCEPT !.at = "manifest", !.model = cache["blob"]]
    /\ UNCHANGED <<BootFrame, session>>

\* sha256_file of the manifest, read a second time.
HashManifest ==
    /\ boot.at = "manifest"
    /\ boot' = [boot EXCEPT !.at = IF boot.sidecar THEN "sidecar" ELSE "issue",
                            !.manifest = manifest]
    /\ UNCHANGED <<BootFrame, session>>

\* Faulty variant: the sidecar's text is taken as it is.
SidecarUnparsed(c) == c # "none"

\* read_chat_template_sidecar: 64 hex characters, or an error.
SidecarValid(c) == c \notin {"none", "torn"}

ReadSidecar ==
    /\ boot.at = "sidecar"
    /\ boot' = IF SidecarValid(cache["template"])
               THEN [boot EXCEPT !.at = "issue", !.template = cache["template"]]
               ELSE NoBoot
    /\ UNCHANGED <<BootFrame, session>>

(***************************************************************************)
(* LocalCa::load, the SVID with its two extensions, the self-check (which  *)
(* compares the certificate with the digests just passed in, so it holds), *)
(* the new ledger and its session_start.                                   *)
(***************************************************************************)
Issue ==
    /\ boot.at = "issue"
    /\ session' = IF CaLoads
                  THEN [NoSession EXCEPT !.policy = boot.policy, !.manifest = boot.manifest,
                        !.model = boot.model, !.template = boot.template, !.by = ca["key"].by]
                  ELSE session
    /\ boot' = NoBoot
    /\ UNCHANGED BootFrame

\* The ledger exists, or an append fails: no session.
BootFails ==
    /\ boot.at = "issue"
    /\ boot' = NoBoot
    /\ UNCHANGED <<BootFrame, session>>

\* Faulty variant: the turn's digests become the session's.
IssueTurnRebinds ==
    /\ session # NoSession /\ CaLoads /\ cache["blob"] # "none"
    /\ session' = [session EXCEPT !.turn = <<cache["blob"], manifest, ca["key"].by>>,
                                  !.manifest = manifest]
    /\ UNCHANGED <<BootFrame, boot>>

\* issue_turn_svid: the digests found on disk at this turn, and the bound template.
IssueTurn ==
    /\ session # NoSession /\ CaLoads /\ cache["blob"] # "none"
    /\ session' = [session EXCEPT !.turn = <<cache["blob"], manifest, ca["key"].by>>]
    /\ UNCHANGED <<BootFrame, boot>>

-----------------------------------------------------------------------------
(* Edits by somebody else.                                                 *)

EditManifest ==
    /\ left.edits > 0
    /\ left' = [left EXCEPT !.edits = @ - 1]
    /\ manifest' = manifest + 1
    /\ edited' = edited \cup {IF boot.at \in {"model", "manifest"} THEN "window" ELSE "manifest"}
    /\ UNCHANGED <<artefact, cache, puller, overlapped, outage, spoiled,
                   ca, initer, boot, session>>

EditSidecar ==
    /\ left.edits > 0 /\ cache["template"] # "none"
    /\ left' = [left EXCEPT !.edits = @ - 1]
    /\ cache' = [cache EXCEPT !["template"] = "bad"] /\ edited' = edited \cup {"template"}
    /\ UNCHANGED <<artefact, puller, overlapped, outage, spoiled,
                   ca, initer, manifest, boot, session>>

BootNext ==
    \/ \E i \in Initers :
          \/ CaInit(i) \/ CaInitRefuse(i) \/ InitDies(i)
          \/ \E f \in CaFiles : Create(i, f) \/ Fill(i, f)
    \/ ReadPolicy \/ HashModel \/ HashManifest \/ ReadSidecar \/ Issue \/ BootFails
    \/ IssueTurn \/ EditManifest \/ EditSidecar

\* The power fails: every process is gone; the CA's files were synced one by one.
Outage ==
    /\ PowerLoss
    /\ initer' = [i \in Initers |-> IF initer[i] \in CaFiles THEN "failed" ELSE initer[i]]
    /\ boot' = NoBoot /\ session' = NoSession
    /\ UNCHANGED <<ca, manifest, edited>>

\* Processes end, and nothing more need happen.
Next == (CacheNext /\ UNCHANGED bootVars) \/ Outage \/ BootNext

Spec == Init /\ [][Next]_vars

-----------------------------------------------------------------------------
(***************************************************************************)
(* The files of the CA never mix: whichever inits ran at once or were      *)
(* killed, a CA that loads has the certificate and key of one init, so     *)
(* every SVID of the machine has one issuer (create_new in write_file).    *)
(***************************************************************************)
OneCa ==
    /\ CaLoads => \A f, g \in CaFiles : ca[f].by = ca[g].by
    /\ session # NoSession => session.by = ca["cert"].by

(***************************************************************************)
(* A session is bound to the model bytes that cosign verified and to no    *)
(* template or the publisher's, across pulls that race with the boot, kills*)
(* and power losses, unless somebody overwrote the blob or the sidecar:    *)
(* the boot does not look at sha256.txt or provenance.json, it relies on   *)
(* the order in which pull fills the directory and on the sidecar's form.  *)
(***************************************************************************)
BoundVerified ==
    session # NoSession =>
        /\ (~spoiled /\ ~outage) => Signed /\ session.model = "good"
        /\ "template" \notin edited => session.template \in {"none", "good"}

(***************************************************************************)
(* The agent runs under the manifest its identity attests to: where the    *)
(* policy in force is not the manifest on disk, the digest bound into the  *)
(* SVID is not either, so that the rebind of the next call halts the agent,*)
(* whatever turn SVIDs were issued since.  Session::boot reads the file    *)
(* twice, for the policy and for the digest: an edit between the two reads *)
(* (ghost "window") is the one that is bound and never noticed.            *)
(***************************************************************************)
StalePolicyCaught ==
    (session # NoSession /\ session.policy # manifest /\ "window" \notin edited)
        => session.manifest # manifest
=============================================================================
