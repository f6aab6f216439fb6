----------------------------- MODULE LedgerVerify -----------------------------
(***************************************************************************)
(* `aegis verify`: the walk of a ledger file, one line after the other     *)
(* (crates/ledger-writer/src/verify.rs).  A line is Unparseable or a       *)
(* record whose fields the walk reads:                                     *)
(*                                                                         *)
(*   version   the @context URL, "v1", "v2" or something else              *)
(*   session   sessionId            seq    sequenceNumber                  *)
(*   prev      prevHash                                                    *)
(*                                                                         *)
(* and whatever else the line holds.  Hash is SHA-256 of a line's bytes.   *)
(***************************************************************************)
EXTENDS Naturals, Sequences

CONSTANTS Genesis, Unparseable, Hash(_)

\* The walk's local variables; an optional one is a set of at most one value.
Start == [ok |-> TRUE, seq |-> 0, prev |-> Genesis, session |-> {}, version |-> {}]

\* Faulty variants of the walk's test of one line.
LineOkSkipsHash(s, l) ==
    /\ l # Unparseable
    /\ l.version \in {"v1", "v2"} /\ s.version \subseteq {l.version}
    /\ s.session \subseteq {l.session}
    /\ l.seq = s.seq

LineOkSkipsSequence(s, l) ==
    /\ l # Unparseable
    /\ l.version \in {"v1", "v2"} /\ s.version \subseteq {l.version}
    /\ s.session \subseteq {l.session}
    /\ l.prev = s.prev

\* What verify_reader demands of the next line; the first one pins the rest.
LineOk(s, l) ==
    /\ l # Unparseable
    /\ l.version \in {"v1", "v2"} /\ s.version \subseteq {l.version}
    /\ s.session \subseteq {l.session}
    /\ l.seq = s.seq
    /\ l.prev = s.prev

\* The walk stops at the first break.
VerifyLine(s, l) ==
    IF s.ok /\ LineOk(s, l)
    THEN [ok |-> TRUE, seq |-> s.seq + 1, prev |-> Hash(l),
          session |-> {l.session}, version |-> {l.version}]
    ELSE [s EXCEPT !.ok = FALSE]

\* The state of the walk after each line.
Walk(lines) ==
    LET walk[n \in 0..Len(lines)] ==
            IF n = 0 THEN Start ELSE VerifyLine(walk[n - 1], lines[n])
    IN  walk

\* verify_reader: `prev` is the root hash of the summary, `seq` its entry count.
Verify(lines) == Walk(lines)[Len(lines)]

Accepts(lines) == Verify(lines).ok
Root(lines) == Verify(lines).prev
=============================================================================
