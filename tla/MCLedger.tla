------------------------------- MODULE MCLedger -------------------------------
(***************************************************************************)
(* The writer's file as `aegis verify` reads it: now, after the crash that *)
(* leaves it as it is, or after somebody edited a copy of a closed ledger, *)
(* with or without rewriting the chain from the edit on.                   *)
(***************************************************************************)
EXTENDS Ledger, SequencesExt

CONSTANTS MaxEdits

VARIABLES copy, edits

\* What the parser makes of a line that is no entry.
Unparseable == [version |-> "none"]

V == INSTANCE LedgerVerify

\* A line's bytes parse when they are one entry's halves (serde_json::from_str).
Parse(bytes) ==
    IF Len(bytes) = 2 /\ bytes = Halves(bytes[1][1]) THEN bytes[1][1] ELSE Unparseable

\* One byte of the file: a newline ends the line that read_line collects.
ReadByte(r, b) ==
    IF b = NewLine
    THEN [lines |-> Append(r.lines, Parse(r.part)), part |-> <<>>]
    ELSE [lines |-> r.lines, part |-> Append(r.part, b)]

\* What has been read after each byte.
Reading(f) ==
    LET read[n \in 0..Len(f)] ==
            IF n = 0 THEN [lines |-> <<>>, part |-> <<>>] ELSE ReadByte(read[n - 1], f[n])
    IN  read

\* The lines of a file; what follows the last newline is one too.
Lines(f) ==
    LET r == Reading(f)[Len(f)]
    IN  IF r.part = <<>> THEN r.lines ELSE Append(r.lines, Parse(r.part))

Accepted(f) == V!Accepts(Lines(f))

-----------------------------------------------------------------------------
(* Edits of a copy.                                                        *)

MCInit == Init /\ copy = <<>> /\ edits = 0

Prev(lines, i) == IF i = 1 THEN Genesis ELSE Hash(lines[i - 1])

\* The lines with these ids, chained as the writer chains them.
Chained(ids) ==
    LET line[n \in 1..Len(ids)] ==
            [NoEntry EXCEPT !.id = ids[n], !.seq = n - 1,
                            !.prev = IF n = 1 THEN Genesis ELSE Hash(line[n - 1])]
    IN  [n \in 1..Len(ids) |-> line[n]]

\* An edit of one line, of its order, or of the file's end; or a forged chain.
Edited(file) ==
    LET n == Len(file)
        lines == {i \in 1..n : file[i] # Unparseable}
    IN  {[file EXCEPT ![i] = Unparseable] : i \in 1..n}
        \cup {[file EXCEPT ![i].id = 0] : i \in lines}
        \cup {[file EXCEPT ![i].seq = @ + 1] : i \in lines}
        \cup {[file EXCEPT ![i].version = v] : i \in lines, v \in {"v2", "v3"}}
        \cup {[file EXCEPT ![i].session = "t"] : i \in lines}
        \cup {[file EXCEPT ![i] = file[i + 1], ![i + 1] = file[i]] : i \in 1..(n - 1)}
        \cup {RemoveAt(file, i) : i \in 1..n}
        \cup {InsertAt(file, i, file[i]) : i \in 1..n}
        \cup {Chained([i \in 1..n |-> IF i = k \/ file[i] = Unparseable THEN 0 ELSE file[i].id])
                 : k \in 1..n}

Edit ==
    /\ writer = "closed" /\ failures = 0 /\ edits < MaxEdits
    /\ edits' = edits + 1
    /\ copy' \in Edited(IF edits = 0 THEN Lines(disk) ELSE copy)
    /\ UNCHANGED vars

MCNext == (Next /\ UNCHANGED <<copy, edits>>) \/ Edit

MCSpec == MCInit /\ [][MCNext]_<<vars, copy, edits>>

-----------------------------------------------------------------------------

(***************************************************************************)
(* What an auditor may conclude from a ledger that verifies, whenever the  *)
(* session failed or the machine stopped: it holds every entry whose       *)
(* append returned Ok, in order, and at most one more at its end (append   *)
(* advances only after sync_all).                                          *)
(***************************************************************************)
AcceptedIsAcked ==
    Accepted(disk) =>
        LET lines == Lines(disk)
        IN  /\ IsPrefix(acked, lines)
            /\ Len(lines) <= Len(acked) + 1

\* The file without a torn last line.
Whole(f) ==
    IF f # <<>> /\ f[Len(f)] # NewLine /\ Lines(f)[Len(Lines(f))] = Unparseable
    THEN SubSeq(f, 1, Len(f) - 1)
    ELSE f

(***************************************************************************)
(* A stop at any step of any append leaves a chain that verifies once the  *)
(* half-written last line is cut off, as long as no append failed before   *)
(* (append, BufWriter, fsync); and the root that close returns is the root *)
(* of the file it leaves.                                                  *)
(***************************************************************************)
CrashLeavesChain ==
    failures = 0 =>
        /\ Accepted(Whole(disk))
        /\ writer = "closed" => V!Root(Lines(disk)) = prevHash

(***************************************************************************)
(* No append that returned Ok is ever lost: its line's halves are on the   *)
(* disk for good, in order.                                                *)
(***************************************************************************)
AckedDurable ==
    \A i \in DOMAIN acked :
        \E k \in 1..(durable - 1) : SubSeq(disk, k, k + 1) = Halves(acked[i])

(***************************************************************************)
(* verify.rs:4-8 says that the walk checks the same invariants the writer  *)
(* holds when emitting: between two calls the open writer's file verifies. *)
(***************************************************************************)
WriterOutputVerifies == (writer = "open" /\ pc = "idle") => Accepted(disk)

(***************************************************************************)
(* What the walk accepts is exactly a well-formed chain of one session and *)
(* one version (verify_reader against the writer's side of the format), on *)
(* every file the writer leaves and on every edited copy.                  *)
(***************************************************************************)
WellChained(lines) ==
    \A i \in DOMAIN lines :
        /\ lines[i] # Unparseable
        /\ lines[i].version \in {"v1", "v2"}
        /\ lines[i].version = lines[1].version /\ lines[i].session = lines[1].session
        /\ lines[i].seq = i - 1
        /\ lines[i].prev = Prev(lines, i)

VerifyIsExact ==
    \A file \in {Lines(disk), copy} : V!Accepts(file) <=> WellChained(file)

(***************************************************************************)
(* The hash of a line commits to everything before it: where a copy that   *)
(* verifies has a line of the honest ledger, it has the same lines before. *)
(* For the last line that hash is the root the session reported, so even a *)
(* forger who rewrites the chain cannot keep the root.                     *)
(***************************************************************************)
HashCommits ==
    V!Accepts(copy) =>
        LET honest == Lines(disk) IN
        \A i \in DOMAIN copy \cap DOMAIN honest :
            copy[i] = honest[i] => SubSeq(copy, 1, i) = SubSeq(honest, 1, i)
=============================================================================
