-------------------------------- MODULE Ledger --------------------------------
(***************************************************************************)
(* The ledger writer (crates/ledger-writer/src/lib.rs) down to the disk:   *)
(* LedgerWriter::append builds a line, pushes it through a BufWriter,      *)
(* flushes, fsyncs, and only then advances the chain.  Each of these steps *)
(* can fail, and the process or the machine can stop between any two.      *)
(*                                                                         *)
(* A line is its entry's two halves and a newline; the halves stand for    *)
(* the bytes that a partial write can separate.                            *)
(***************************************************************************)
EXTENDS Naturals, Sequences

CONSTANTS
    MaxAppends,    \* bound on the calls of append
    MaxFailures    \* bound on failed writes and failed fsyncs

VARIABLES
    writer,        \* the LedgerWriter: "open", "closing", "closed", "gone"
    pc,            \* where the running call of append or close is
    entry,         \* the entry of the running append
    large,         \* whether its line is as long as the BufWriter's buffer
    buf,           \* the bytes in the BufWriter
    rest,          \* what is left of a line written past the buffer
    disk,          \* the file as the operating system has it
    durable,       \* how much of it has reached the disk
    nextSequence, prevHash,   \* the writer's fields
    acked,         \* ghost: the entries whose append returned Ok
    appends, failures

vars == <<writer, pc, entry, large, buf, rest, disk, durable, nextSequence,
          prevHash, acked, appends, failures>>

Genesis == <<>>

\* SHA-256 of a line, which has no collisions: the line itself, wrapped.
Hash(e) == <<e>>

NoEntry == [id |-> 0, seq |-> 0, prev |-> Genesis, version |-> "v1", session |-> "s"]

NewLine == <<NoEntry, "newline">>
Halves(e) == << <<e, "head">>, <<e, "tail">> >>
Bytes(e) == Append(Halves(e), NewLine)

\* The entry that append builds.
Built == [NoEntry EXCEPT !.id = appends + 1, !.seq = nextSequence, !.prev = prevHash]

Init ==
    /\ writer = "open" /\ pc = "idle"
    /\ entry = NoEntry /\ large = FALSE
    /\ buf = <<>> /\ rest = <<>> /\ disk = <<>> /\ durable = 0
    /\ nextSequence = 0 /\ prevHash = Genesis
    /\ acked = <<>> /\ appends = 0 /\ failures = 0

Chain == <<nextSequence, prevHash>>

(***************************************************************************)
(* write_all(line): a line that fits is buffered; otherwise the buffer is  *)
(* drained first, and a line as long as the buffer is written past it.  An *)
(* entry of another session or with a reserved key is refused before this  *)
(* and changes nothing.                                                    *)
(***************************************************************************)
Begin ==
    /\ writer = "open" /\ pc = "idle" /\ appends < MaxAppends
    /\ appends' = appends + 1 /\ entry' = Built
    /\ \/ large' = FALSE /\ pc' = "flush" /\ buf' = buf \o Bytes(Built)
       \/ large' \in (IF buf = <<>> THEN {TRUE} ELSE BOOLEAN) /\ pc' = "drain" /\ UNCHANGED buf
    /\ UNCHANGED <<writer, rest, disk, durable, Chain, acked, failures>>

\* The kernel takes the next bytes of the buffer.
Write ==
    /\ pc \in {"drain", "flush"} /\ buf # <<>>
    /\ disk' = Append(disk, Head(buf)) /\ buf' = Tail(buf)
    /\ UNCHANGED <<writer, pc, entry, large, rest, durable, Chain, acked, appends, failures>>

Drained ==
    /\ pc = "drain" /\ buf = <<>>
    /\ IF large
       THEN pc' = "direct" /\ rest' = Halves(entry) /\ UNCHANGED buf
       ELSE pc' = "flush" /\ buf' = Bytes(entry) /\ UNCHANGED rest
    /\ UNCHANGED <<writer, entry, large, disk, durable, Chain, acked, appends, failures>>

\* A long line goes to the file; its newline goes through the buffer.
WriteDirect ==
    /\ pc = "direct" /\ rest # <<>>
    /\ disk' = Append(disk, Head(rest)) /\ rest' = Tail(rest)
    /\ IF rest' = <<>> THEN pc' = "flush" /\ buf' = <<NewLine>> ELSE UNCHANGED <<pc, buf>>
    /\ UNCHANGED <<writer, entry, large, durable, Chain, acked, appends, failures>>

Flushed ==
    /\ pc = "flush" /\ buf = <<>>
    /\ pc' = "sync"
    /\ UNCHANGED <<writer, entry, large, buf, rest, disk, durable, Chain, acked,
                   appends, failures>>

\* What append and close do once sync_all has returned.
Complete ==
    /\ pc' = "idle"
    /\ IF writer = "closing"
       THEN writer' = "closed" /\ UNCHANGED <<Chain, acked>>
       ELSE /\ prevHash' = Hash(entry) /\ nextSequence' = entry.seq + 1
            /\ acked' = Append(acked, entry) /\ UNCHANGED writer

\* Faulty variants: sync_all skipped; the chain not advanced.
SyncedUnsynced ==
    /\ pc = "sync"
    /\ Complete
    /\ UNCHANGED <<entry, large, buf, rest, disk, durable, appends, failures>>

SyncedKeepsHash ==
    /\ pc = "sync"
    /\ durable' = Len(disk)
    /\ pc' = "idle" /\ nextSequence' = entry.seq + 1
    /\ IF writer = "closing" THEN writer' = "closed" /\ UNCHANGED acked
       ELSE acked' = Append(acked, entry) /\ UNCHANGED writer
    /\ UNCHANGED <<entry, large, buf, rest, disk, prevHash, appends, failures>>

Synced ==
    /\ pc = "sync"
    /\ durable' = Len(disk)
    /\ Complete
    /\ UNCHANGED <<entry, large, buf, rest, disk, appends, failures>>

(***************************************************************************)
(* write_all, flush or sync_all returns an error.  The BufWriter keeps     *)
(* what it could not write, a line written past it loses its rest, and the *)
(* chain stands still.                                                     *)
(***************************************************************************)
Fail ==
    /\ pc # "idle" /\ failures < MaxFailures /\ failures' = failures + 1
    /\ pc' = "idle" /\ rest' = <<>>
    /\ writer' = IF writer = "closing" THEN "gone" ELSE writer
    /\ UNCHANGED <<entry, large, buf, disk, durable, Chain, acked, appends>>

Close ==
    /\ writer = "open" /\ pc = "idle"
    /\ writer' = "closing" /\ pc' = "flush"
    /\ UNCHANGED <<entry, large, buf, rest, disk, durable, Chain, acked, appends, failures>>

\* Dropping the BufWriter flushes it, ignoring errors, and syncs nothing.
Drop ==
    /\ writer = "open" /\ pc = "idle"
    /\ writer' = "gone"
    /\ \E n \in 0..Len(buf) : disk' = disk \o SubSeq(buf, 1, n)
    /\ buf' = <<>>
    /\ UNCHANGED <<pc, entry, large, rest, durable, Chain, acked, appends, failures>>

Killed == writer' = "gone" /\ pc' = "idle" /\ buf' = <<>> /\ rest' = <<>>

\* The process dies; what the kernel has survives.
Kill ==
    /\ writer \in {"open", "closing"}
    /\ Killed
    /\ UNCHANGED <<entry, large, disk, durable, Chain, acked, appends, failures>>

\* The machine dies; what was not synced may be cut off anywhere.
PowerLoss ==
    /\ Killed
    /\ \E n \in durable..Len(disk) : disk' = SubSeq(disk, 1, n) /\ durable' = n
    /\ UNCHANGED <<entry, large, Chain, acked, appends, failures>>

Next ==
    \/ Begin \/ Write \/ Drained \/ WriteDirect \/ Flushed \/ Synced \/ Fail
    \/ Close \/ Drop \/ Kill \/ PowerLoss

Spec == Init /\ [][Next]_vars
=============================================================================
