----------------------------- MODULE ModelCache -----------------------------
(***************************************************************************)
(* aegis pull (crates/cli/src/pull.rs): the directory of one artefact in   *)
(* the model cache and the processes that pull it.  A pull stages the      *)
(* artefact outside, verifies it and then writes the directory file by     *)
(* file, in a fixed order and without fsync; a later pull finds the blob   *)
(* and its sidecar and only compares the two.                              *)
(***************************************************************************)
EXTENDS Naturals, FiniteSets

CONSTANTS
    Pullers,      \* processes
    Artefacts,    \* what the registry may hold under the reference
    Budgets       \* bounds: [pulls, faults, edits, inits] a behaviour may have

VARIABLES
    artefact,     \* "model", "image", "unsigned", "unannotated" or "misannotated"
    cache,        \* the files of <cache>/<digest>: contents, "none" if absent
    puller,       \* each process: where it is and what it read
    left,         \* what is left of its budget
    overlapped,   \* ghost: two pulls were under way at once
    outage,       \* ghost: power was lost
    spoiled       \* ghost: somebody else wrote into the directory

cacheVars == <<artefact, cache, puller, left, overlapped, outage, spoiled>>

\* "torn" is a file cut short, "bad" are bytes the publisher did not sign.
Contents == {"none", "torn", "good", "bad"}
Files == {"blob", "sha", "template", "ref", "provenance"}

Signed == artefact # "unsigned"

\* extract_chat_template_annotation: a model needs the annotation, an image does not.
Annotated == artefact \notin {"unannotated", "misannotated"}
HasTemplate == artefact # "image"

Idle == [at |-> "idle", recorded |-> "none", hashed |-> "none", template |-> "none"]
Running == {p \in Pullers : puller[p].at \notin {"idle", "ok", "failed"}}

CacheInit ==
    /\ artefact \in Artefacts
    /\ cache = [f \in Files |-> "none"]
    /\ puller = [p \in Pullers |-> Idle]
    /\ left \in Budgets
    /\ overlapped = FALSE /\ outage = FALSE /\ spoiled = FALSE

Goto(p, l) == puller' = [puller EXCEPT ![p].at = l]
Ghosts == <<artefact, overlapped, outage, spoiled>>

\* One step of a pull that leaves the cache alone: on to l, or an error.
Try(p, from, may, l) ==
    /\ puller[p].at = from
    /\ (may /\ Goto(p, l)) \/ Goto(p, "failed")
    /\ UNCHANGED <<cache, left, Ghosts>>

\* One step that writes file f with contents c.
Put(p, from, f, c, l) ==
    /\ puller[p].at = from
    /\ cache' = [cache EXCEPT ![f] = c] /\ Goto(p, l)
    /\ UNCHANGED <<left, Ghosts>>

-----------------------------------------------------------------------------
(* pull.                                                                   *)

\* require_tool and ParsedRef::parse: no oras or cosign, or no pinned digest.
Refuse(p) ==
    /\ puller[p].at \in {"idle", "ok", "failed"} /\ left.pulls > 0
    /\ left' = [left EXCEPT !.pulls = @ - 1] /\ Goto(p, "failed")
    /\ UNCHANGED <<cache, Ghosts>>

\* The cache lookup: blob.bin and sha256.txt exist.
Pull(p) ==
    /\ puller[p].at \in {"idle", "ok", "failed"} /\ left.pulls > 0
    /\ left' = [left EXCEPT !.pulls = @ - 1] /\ overlapped' = (overlapped \/ Running # {})
    /\ puller' = [puller EXCEPT ![p] =
           [Idle EXCEPT !.at = IF cache["blob"] # "none" /\ cache["sha"] # "none"
                               THEN "hit" ELSE "manifest"]]
    /\ UNCHANGED <<artefact, cache, outage, spoiled>>

\* A hit reads the sidecar, hashes the blob, compares, and reads the template.
HitSidecar(p) ==
    /\ puller[p].at = "hit"
    /\ puller' = [puller EXCEPT ![p].at = "compare", ![p].recorded = cache["sha"]]
    /\ UNCHANGED <<cache, left, Ghosts>>

\* Faulty variant: the sidecar is believed.
HitBlobUnchecked(p) ==
    /\ puller[p].at = "compare"
    /\ puller' = [puller EXCEPT ![p].hashed = cache["blob"], ![p].at = "hit_template"]
    /\ UNCHANGED <<cache, left, Ghosts>>

HitBlob(p) ==
    /\ puller[p].at = "compare"
    /\ puller' = [puller EXCEPT ![p].hashed = cache["blob"],
           ![p].at = IF cache["blob"] = puller[p].recorded /\ puller[p].recorded # "torn"
                     THEN "hit_template" ELSE "failed"]
    /\ UNCHANGED <<cache, left, Ghosts>>

HitTemplate(p) ==
    /\ puller[p].at = "hit_template"
    /\ puller' = [puller EXCEPT ![p].template = cache["template"], ![p].at = "ok"]
    /\ UNCHANGED <<cache, left, Ghosts>>

\* A miss: the manifest's annotation, the blob into a staging directory, cosign.
Manifest(p) == Try(p, "manifest", Annotated, "stage")
Stage(p) == Try(p, "stage", TRUE, "verify")

Cosign(p) == Try(p, "verify", Signed, "ref_open")

\* Faulty variant: the blob is moved before its sidecars.
WriteRefAfterBlob(p) ==
    IF cache["blob"] = "none" THEN Put(p, "ref_fill", "blob", "good", "ref_fill")
    ELSE Put(p, "ref_fill", "ref", "good", "sha_open")

\* The directory's files; fs::write truncates before it fills.
TruncateRef(p) == Put(p, "ref_open", "ref", "torn", "ref_fill")
WriteRef(p) == Put(p, "ref_fill", "ref", "good", "sha_open")
TruncateSha(p) == Put(p, "sha_open", "sha", "torn", "sha_fill")
WriteSha(p) == Put(p, "sha_fill", "sha", "good", IF HasTemplate THEN "template_open" ELSE "rename")
TruncateTemplate(p) == Put(p, "template_open", "template", "torn", "template_fill")
WriteTemplate(p) == Put(p, "template_fill", "template", "good", "rename")

\* Faulty variant: the blob is moved once its provenance is written.
RenameAfterProvenance(p) ==
    IF cache["provenance"] = "none" THEN Put(p, "rename", "provenance", "good", "rename")
    ELSE Put(p, "rename", "blob", "good", "provenance")

Rename(p) == Put(p, "rename", "blob", "good", "provenance")

\* write_provenance: a temporary file, then renamed: whole or not there.
Provenance(p) ==
    /\ puller[p].at = "provenance"
    /\ cache' = [cache EXCEPT !["provenance"] = "good"]
    /\ puller' = [puller EXCEPT ![p].at = "ok", ![p].hashed = "good",
                                ![p].template = IF HasTemplate THEN "good" ELSE "none"]
    /\ UNCHANGED <<left, Ghosts>>

\* Any write of the directory may fail; the pull ends there.
WriteFails(p) ==
    /\ puller[p].at \in {"ref_open", "ref_fill", "sha_open", "sha_fill", "template_open",
                         "template_fill", "rename", "provenance"}
    /\ Goto(p, "failed")
    /\ UNCHANGED <<cache, left, Ghosts>>

-----------------------------------------------------------------------------
(* What befalls the cache.                                                 *)

Kill(p) ==
    /\ p \in Running /\ left.faults > 0
    /\ left' = [left EXCEPT !.faults = @ - 1] /\ puller' = [puller EXCEPT ![p] = Idle]
    /\ UNCHANGED <<cache, Ghosts>>

\* Nothing is synced: every file may be cut short or gone.
PowerLoss ==
    /\ left.faults > 0 /\ ~outage
    /\ left' = [left EXCEPT !.faults = @ - 1] /\ outage' = TRUE
    /\ puller' = [p \in Pullers |-> Idle]
    /\ \E F \in SUBSET Files, c \in {"none", "torn"} :
          cache' = [f \in Files |-> IF f \in F /\ cache[f] # "none" THEN c ELSE cache[f]]
    /\ UNCHANGED <<artefact, overlapped, spoiled>>

\* Somebody overwrites the blob.
Tamper ==
    /\ left.faults > 0 /\ cache["blob"] # "none"
    /\ left' = [left EXCEPT !.faults = @ - 1] /\ spoiled' = TRUE
    /\ cache' = [cache EXCEPT !["blob"] = "bad"]
    /\ UNCHANGED <<artefact, puller, overlapped, outage>>

CacheNext ==
    \/ \E p \in Pullers :
          \/ Refuse(p) \/ Pull(p) \/ HitSidecar(p) \/ HitBlob(p) \/ HitTemplate(p)
          \/ Manifest(p) \/ Stage(p) \/ Cosign(p)
          \/ TruncateRef(p) \/ WriteRef(p) \/ TruncateSha(p) \/ WriteSha(p)
          \/ TruncateTemplate(p) \/ WriteTemplate(p) \/ Rename(p) \/ Provenance(p) \/ WriteFails(p) \/ Kill(p)
    \/ Tamper

\* list_models: what GET /api/v1/models says of the directory, from whatever is there.
Listed ==
    [cosign |-> cache["provenance"] = "good",
     hasTemplate |-> cache["template"] # "none"]

-----------------------------------------------------------------------------
(***************************************************************************)
(* A pull that returns Ok hands out bytes that cosign verified, whatever   *)
(* other pulls, kills, a power loss or an overwritten blob did in between: *)
(* the hit path compares with a sidecar that only verified pulls write.    *)
(***************************************************************************)
PullVerified ==
    \A p \in Pullers : puller[p].at = "ok" => Signed /\ puller[p].hashed = "good"

(***************************************************************************)
(* provenance.json is written last, so its badge in the model library      *)
(* (list_models) stands for a verified blob that is in place; with one     *)
(* pull at a time every sidecar is in place as well.  The badge says       *)
(* nothing of bytes that somebody overwrote since.                         *)
(***************************************************************************)
BadgeHonest ==
    (Listed.cosign /\ ~outage) =>
        /\ Signed /\ cache["blob"] # "none" /\ (~spoiled => cache["blob"] = "good")
        /\ ~overlapped => /\ cache["ref"] = "good" /\ cache["sha"] = "good"
                          /\ Listed.hasTemplate <=> HasTemplate

(***************************************************************************)
(* A pull that is killed or fails leaves a directory the next pull can     *)
(* use: it finds no complete pair and starts over, or a pair that matches. *)
(* (Two pulls at once, a power loss or a foreign write can leave a pair    *)
(* that never matches and that no pull repairs.)                           *)
(***************************************************************************)
KilledPullHarmless ==
    (Running = {} /\ ~overlapped /\ ~outage /\ ~spoiled
        /\ cache["blob"] # "none" /\ cache["sha"] # "none")
    => cache["blob"] = cache["sha"] /\ cache["template"] # "torn"
=============================================================================
