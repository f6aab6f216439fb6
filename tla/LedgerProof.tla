----------------------------- MODULE LedgerProof -----------------------------
(***************************************************************************)
(* The ledger's promises for any number of appends, failures and edits.    *)
(*                                                                         *)
(* Two recursive functions carry the model: Walk, the walk of              *)
(* verify_reader over the lines, and Reading, the reading of the bytes.    *)
(* Each is shown to exist and to obey its equation, by induction on a      *)
(* natural number through the least counterexample (Least, Upwards); then  *)
(* VerifyExact says what the walk accepts and EndingRead what a file that  *)
(* ends in the line just acknowledged reads as.                            *)
(*                                                                         *)
(* The invariant LInv speaks of the stream, the file followed by what the  *)
(* BufWriter or the running write still holds: there is a durable byte m   *)
(* before which the file is the acknowledged lines or already broken for   *)
(* good, and after which every byte is a newline or of an entry with the   *)
(* next sequence number.  Without failures nothing is broken and at most   *)
(* the running entry's line follows.  Every step leaves the stream alone,  *)
(* cuts it after what is durable, or sends it one line.                    *)
(***************************************************************************)
EXTENDS MCLedger, WellFoundedInduction, FiniteSetTheorems, TLAPS

-----------------------------------------------------------------------------
(* Induction, by the least counterexample.                                 *)

\* Every set of naturals has a least element.
LEMMA Least ==
    ASSUME NEW T \in SUBSET Nat, T # {}
    PROVE  \E m \in T : \A k \in T : m <= k
<1>1. PICK n \in T : TRUE
  OBVIOUS
<1>2. \A m \in Nat : IsFiniteSet(0..m)
  BY FS_Interval
<1> DEFINE R == StrictSubsetOrdering(Nat)
           S == FiniteSubsetsOf(Nat)
           I(m) == 0..m
           U == {I(m) : m \in T}
<1>3. U \subseteq S
  BY <1>2 DEF FiniteSubsetsOf
<1>4. U # {}
  BY <1>1
<1>5. IsWellFoundedOn(R, S)
  BY FS_StrictSubsetOrderingWellFounded
<1>6. \E x \in U : \A y \in U : ~(<<y, x>> \in R)
  <2> HIDE DEF R, S, U
  <2> QED
    BY <1>3, <1>4, <1>5, WFMin
<1>7. PICK m \in T : \A k \in T : ~(<<0..k, 0..m>> \in R)
  BY <1>6
<1>8. ASSUME NEW k \in T, k < m PROVE FALSE
  <2>1. 0..k \subseteq 0..m /\ 0..k \in SUBSET Nat /\ 0..m \in SUBSET Nat
    BY <1>8
  <2>2. m \in 0..m /\ m \notin 0..k
    BY <1>8
  <2> QED
    BY <2>1, <2>2, <1>7 DEF StrictSubsetOrdering
<1> QED
  BY <1>8

\* What holds at the start of an interval and for the next of each holds in it.
LEMMA Upwards ==
    ASSUME NEW a \in Nat, NEW b \in Nat, NEW T, a \in T,
           \A n \in Nat : a <= n /\ n < b /\ n \in T => n + 1 \in T
    PROVE  \A n \in a..b : n \in T
<1> DEFINE C == {n \in a..b : n \notin T}
<1> SUFFICES ASSUME C # {} PROVE FALSE
  OBVIOUS
<1>1. C \in SUBSET Nat
  OBVIOUS
<1>2. PICK m \in C : \A k \in C : m <= k
  BY <1>1, Least
<1>3. m # a /\ m \in Nat /\ a <= m /\ m <= b
  OBVIOUS
<1>4. m - 1 \in Nat /\ a <= m - 1 /\ m - 1 < b /\ (m - 1) + 1 = m
  BY <1>3
<1>5. m - 1 \in T
  BY <1>2, <1>4
<1> QED
  BY <1>4, <1>5

-----------------------------------------------------------------------------
(* Sequences of anything.                                                  *)

IsSeq(s) == \E S : s \in Seq(S)

LEMMA SeqBasic ==
    ASSUME NEW s, IsSeq(s)
    PROVE  Len(s) \in Nat /\ DOMAIN s = 1..Len(s) /\ s = [i \in 1..Len(s) |-> s[i]]
<1>1. PICK S : s \in Seq(S)
  BY DEF IsSeq
<1> QED
  BY <1>1

LEMMA FunctionIsSeq ==
    ASSUME NEW s, NEW n \in Nat, s = [i \in 1..n |-> s[i]]
    PROVE  IsSeq(s) /\ Len(s) = n
<1>1. s \in [1..n -> {s[i] : i \in 1..n}]
  OBVIOUS
<1> DEFINE S == {s[i] : i \in 1..n}
<1>2. s \in Seq(S)
  BY <1>1
<1>3. IsSeq(s)
  BY <1>2 DEF IsSeq
<1>4. Len(s) \in Nat /\ DOMAIN s = 1..Len(s)
  BY <1>3, SeqBasic
<1>5. DOMAIN s = 1..n
  BY <1>1
<1> HIDE DEF S
<1>6. Len(s) = n
  BY <1>4, <1>5
<1> QED
  BY <1>3, <1>6

LEMMA EmptyIsSeq == IsSeq(<<>>) /\ Len(<<>>) = 0
<1>1. <<>> \in Seq({})
  OBVIOUS
<1> QED
  BY <1>1 DEF IsSeq

LEMMA CommonSet ==
    ASSUME NEW s, NEW t, IsSeq(s), IsSeq(t)
    PROVE  \E S : s \in Seq(S) /\ t \in Seq(S)
<1>1. PICK S, T : s \in Seq(S) /\ t \in Seq(T)
  BY DEF IsSeq
<1>2. s \in Seq(S \cup T) /\ t \in Seq(S \cup T)
  BY <1>1
<1> QED
  BY <1>2

LEMMA SeqAppend ==
    ASSUME NEW s, IsSeq(s), NEW e
    PROVE  /\ IsSeq(Append(s, e)) /\ Len(s) \in Nat /\ Len(Append(s, e)) = Len(s) + 1
           /\ Append(s, e)[Len(s) + 1] = e
           /\ \A i \in 1..Len(s) : Append(s, e)[i] = s[i]
           /\ 1..(Len(s) + 1) = 1..Len(s) \cup {Len(s) + 1}
<1>1. PICK S : s \in Seq(S)
  BY DEF IsSeq
<1>2. s \in Seq(S \cup {e})
  BY <1>1
<1>3. Append(s, e) \in Seq(S \cup {e})
  BY <1>2
<1> QED
  BY <1>2, <1>3 DEF IsSeq

LEMMA SeqTail ==
    ASSUME NEW s, IsSeq(s), s # <<>>
    PROVE  /\ IsSeq(Tail(s)) /\ Len(s) \in Nat /\ Len(s) > 0 /\ Len(Tail(s)) = Len(s) - 1
           /\ Head(s) = s[1]
           /\ \A i \in 1..(Len(s) - 1) : Tail(s)[i] = s[i + 1] /\ i + 1 \in 1..Len(s)
<1>1. PICK S : s \in Seq(S)
  BY DEF IsSeq
<1>2. Tail(s) \in Seq(S)
  BY <1>1
<1> QED
  BY <1>1, <1>2 DEF IsSeq

LEMMA SeqConcat ==
    ASSUME NEW s, NEW t, IsSeq(s), IsSeq(t)
    PROVE  /\ IsSeq(s \o t) /\ Len(s) \in Nat /\ Len(t) \in Nat /\ Len(s \o t) = Len(s) + Len(t)
           /\ \A i \in 1..Len(s) : (s \o t)[i] = s[i]
           /\ \A i \in 1..Len(t) : (s \o t)[Len(s) + i] = t[i]
<1>1. PICK S : s \in Seq(S) /\ t \in Seq(S)
  BY CommonSet
<1>2. s \o t \in Seq(S)
  BY <1>1
<1> QED
  BY <1>1, <1>2 DEF IsSeq

LEMMA SeqPrefix ==
    ASSUME NEW s, IsSeq(s), NEW n \in 0..Len(s)
    PROVE  /\ IsSeq(SubSeq(s, 1, n)) /\ Len(SubSeq(s, 1, n)) = n
           /\ \A i \in 1..n : SubSeq(s, 1, n)[i] = s[i]
<1>1. PICK S : s \in Seq(S)
  BY DEF IsSeq
<1>2. SubSeq(s, 1, n) \in Seq(S)
  BY <1>1
<1> QED
  BY <1>1, <1>2 DEF IsSeq

LEMMA SameSeq ==
    \A s, t : IsSeq(s) /\ IsSeq(t) /\ Len(s) = Len(t) /\ (\A i \in 1..Len(s) : s[i] = t[i]) => s = t
<1> SUFFICES ASSUME NEW s, NEW t, IsSeq(s), IsSeq(t), Len(s) = Len(t),
                    \A i \in 1..Len(s) : s[i] = t[i]
             PROVE  s = t
  OBVIOUS
<1>1. PICK n \in Nat : n = Len(s) /\ n = Len(t)
  BY SeqBasic
<1>2. PICK f : f = [i \in 1..n |-> s[i]]
  OBVIOUS
<1>3. s = f
  BY <1>1, <1>2, SeqBasic
<1>4. t = [i \in 1..n |-> t[i]]
  BY <1>1, SeqBasic
<1>5. t = f
  BY <1>1, <1>2, <1>4
<1> QED
  BY <1>3, <1>5

-----------------------------------------------------------------------------
(* The walk of verify_reader.                                              *)

LEMMA WalkExists ==
    ASSUME NEW lines, NEW k \in Nat
    PROVE  \E w : w = [n \in 0..k |-> IF n = 0 THEN V!Start ELSE V!VerifyLine(w[n - 1], lines[n])]
<1> DEFINE W(w, j) == w = [n \in 0..j |-> IF n = 0 THEN V!Start ELSE V!VerifyLine(w[n - 1], lines[n])]
           T == {j \in Nat : \E w : W(w, j)}
<1>1. 0 \in T
  <2>1. PICK w : w = [n \in 0..0 |-> V!Start]
    OBVIOUS
  <2>2. W(w, 0)
    BY <2>1
  <2> QED
    BY <2>2
<1>2. ASSUME NEW j \in Nat, j \in T PROVE j + 1 \in T
  <2>1. PICK w : W(w, j)
    BY <1>2
  <2>2. PICK v : v = [n \in 0..(j + 1) |-> IF n = j + 1 THEN V!VerifyLine(w[j], lines[n]) ELSE w[n]]
    OBVIOUS
  <2>3. ASSUME NEW n \in 0..(j + 1)
        PROVE  v[n] = IF n = 0 THEN V!Start ELSE V!VerifyLine(v[n - 1], lines[n])
    <3>1. CASE n = j + 1
      <4>1. n # 0 /\ n - 1 = j /\ j \in 0..(j + 1) /\ j # j + 1
        BY <3>1
      <4>2. v[n] = V!VerifyLine(w[j], lines[n]) /\ v[n - 1] = w[j]
        BY <2>2, <3>1, <4>1
      <4> QED
        BY <4>1, <4>2
    <3>2. CASE n # j + 1
      <4>1. n \in 0..j /\ v[n] = w[n]
        BY <2>2, <3>2
      <4>2. CASE n = 0
        BY <2>1, <4>1, <4>2
      <4>3. CASE n # 0
        <5>1. n - 1 \in 0..(j + 1) /\ n - 1 # j + 1
          BY <4>1, <4>3
        <5>2. v[n - 1] = w[n - 1]
          BY <2>2, <5>1
        <5> QED
          BY <2>1, <4>1, <4>3, <5>2
      <4> QED
        BY <4>2, <4>3
    <3> QED
      BY <3>1, <3>2
  <2>4. W(v, j + 1)
    BY <2>2, <2>3
  <2> QED
    BY <2>4
<1>3. \A n \in 0..k : n \in T
  <2> HIDE DEF T
  <2> QED
    BY <1>1, <1>2, Upwards
<1> QED
  BY <1>3

LEMMA WalkSteps ==
    ASSUME NEW lines, Len(lines) \in Nat
    PROVE  /\ V!Walk(lines)[0] = V!Start
           /\ \A n \in 1..Len(lines) :
                 V!Walk(lines)[n] = V!VerifyLine(V!Walk(lines)[n - 1], lines[n])
<1>1. PICK w : w = [n \in 0..Len(lines) |-> IF n = 0 THEN V!Start ELSE V!VerifyLine(w[n - 1], lines[n])]
  BY WalkExists
<1>2. V!Walk(lines) = [n \in 0..Len(lines) |->
           IF n = 0 THEN V!Start ELSE V!VerifyLine(V!Walk(lines)[n - 1], lines[n])]
  BY <1>1 DEF V!Walk
<1> QED
  BY <1>2

\* One line of a well-formed chain.
Pinned(lines, i) ==
    /\ lines[i] # Unparseable
    /\ lines[i].version \in {"v1", "v2"}
    /\ lines[i].version = lines[1].version /\ lines[i].session = lines[1].session
    /\ lines[i].seq = i - 1
    /\ lines[i].prev = Prev(lines, i)

Linked(lines, n) == \A i \in 1..n : Pinned(lines, i)

\* The walk's variables after n lines of a well-formed chain.
WalkAt(lines, n) ==
    [ok |-> TRUE, seq |-> n, prev |-> Prev(lines, n + 1),
     session |-> IF n = 0 THEN {} ELSE {lines[1].session},
     version |-> IF n = 0 THEN {} ELSE {lines[1].version}]

Walked(lines, n, s) ==
    IF Linked(lines, n) THEN s = WalkAt(lines, n) ELSE "ok" \in DOMAIN s /\ s.ok = FALSE

LEMMA LineExact ==
    ASSUME NEW lines, NEW n \in Nat
    PROVE  V!LineOk(WalkAt(lines, n), lines[n + 1]) <=> Pinned(lines, n + 1)
<1>1. n + 1 - 1 = n /\ (n = 0 <=> n + 1 = 1)
  OBVIOUS
<1>2. WalkAt(lines, n).seq = n /\ WalkAt(lines, n).prev = Prev(lines, n + 1)
  BY DEF WalkAt
<1>3. CASE n = 0
  <2>1. WalkAt(lines, n).session = {} /\ WalkAt(lines, n).version = {}
    BY <1>3 DEF WalkAt
  <2>2. lines[n + 1] = lines[1]
    BY <1>3
  <2> QED
    BY <1>1, <1>2, <2>1, <2>2 DEF V!LineOk, Pinned
<1>4. CASE n # 0
  <2>1. WalkAt(lines, n).session = {lines[1].session} /\ WalkAt(lines, n).version = {lines[1].version}
    BY <1>4 DEF WalkAt
  <2> QED
    BY <1>1, <1>2, <2>1 DEF V!LineOk, Pinned
<1> QED
  BY <1>3, <1>4

LEMMA WalkStep ==
    ASSUME NEW lines, NEW n \in Nat, NEW s, Walked(lines, n, s)
    PROVE  Walked(lines, n + 1, V!VerifyLine(s, lines[n + 1]))
<1>1. Linked(lines, n + 1) <=> Linked(lines, n) /\ Pinned(lines, n + 1)
  <2>1. 1..(n + 1) = 1..n \cup {n + 1}
    OBVIOUS
  <2> QED
    BY <2>1 DEF Linked
<1>2. CASE Linked(lines, n) /\ Pinned(lines, n + 1)
  <2>1. s = WalkAt(lines, n) /\ s.ok = TRUE /\ s.seq = n
    BY <1>2 DEF Walked, WalkAt
  <2>2. V!LineOk(s, lines[n + 1])
    BY <1>2, <2>1, LineExact
  <2>3. V!VerifyLine(s, lines[n + 1]) =
           [ok |-> TRUE, seq |-> n + 1, prev |-> Hash(lines[n + 1]),
            session |-> {lines[n + 1].session}, version |-> {lines[n + 1].version}]
    BY <2>1, <2>2 DEF V!VerifyLine
  <2>4. lines[n + 1].session = lines[1].session /\ lines[n + 1].version = lines[1].version
    BY <1>2 DEF Pinned
  <2>5. Prev(lines, n + 1 + 1) = Hash(lines[n + 1])
    <3>1. n + 1 + 1 # 1 /\ n + 1 + 1 - 1 = n + 1
      OBVIOUS
    <3> QED
      BY <3>1 DEF Prev
  <2>6. V!VerifyLine(s, lines[n + 1]) = WalkAt(lines, n + 1)
    <3>1. n + 1 # 0
      OBVIOUS
    <3> QED
      BY <2>3, <2>4, <2>5, <3>1 DEF WalkAt
  <2> QED
    BY <1>1, <1>2, <2>6 DEF Walked
<1>3. CASE ~(Linked(lines, n) /\ Pinned(lines, n + 1))
  <2>1. ~(s.ok /\ V!LineOk(s, lines[n + 1]))
    <3>1. CASE Linked(lines, n)
      BY <1>3, <3>1, LineExact DEF Walked
    <3>2. CASE ~Linked(lines, n)
      <4>1. s.ok = FALSE
        BY <3>2 DEF Walked
      <4> QED
        BY <4>1
    <3> QED
      BY <3>1, <3>2
  <2>2. "ok" \in DOMAIN s
    <3>1. "ok" \in DOMAIN WalkAt(lines, n)
      BY DEF WalkAt
    <3> QED
      BY <3>1 DEF Walked
  <2>3. V!VerifyLine(s, lines[n + 1]) = [s EXCEPT !.ok = FALSE]
    BY <2>1 DEF V!VerifyLine
  <2>4. "ok" \in DOMAIN [s EXCEPT !.ok = FALSE] /\ [s EXCEPT !.ok = FALSE].ok = FALSE
    BY <2>2
  <2> QED
    BY <1>1, <1>3, <2>3, <2>4 DEF Walked
<1> QED
  BY <1>2, <1>3

\* What the walk accepts, and the root it reports.
LEMMA VerifyExact ==
    ASSUME NEW lines, IsSeq(lines)
    PROVE  /\ V!Accepts(lines) <=> WellChained(lines)
           /\ WellChained(lines) => V!Root(lines) = Prev(lines, Len(lines) + 1)
<1>1. PICK k \in Nat : k = Len(lines) /\ DOMAIN lines = 1..k
  BY SeqBasic
<1> DEFINE T == {n \in 0..k : Walked(lines, n, V!Walk(lines)[n])}
<1>2. 0 \in T
  <2>1. V!Walk(lines)[0] = V!Start
    BY <1>1, WalkSteps
  <2>2. V!Start = WalkAt(lines, 0)
    BY DEF V!Start, WalkAt, Prev
  <2>3. Linked(lines, 0)
    BY DEF Linked
  <2> QED
    BY <2>1, <2>2, <2>3 DEF Walked
<1>3. ASSUME NEW n \in Nat, n < k, n \in T PROVE n + 1 \in T
  <2>1. n + 1 \in 1..k /\ n + 1 - 1 = n /\ n + 1 \in 0..k
    BY <1>3
  <2>2. V!Walk(lines)[n + 1] = V!VerifyLine(V!Walk(lines)[n], lines[n + 1])
    BY <1>1, <2>1, WalkSteps
  <2>3. Walked(lines, n + 1, V!VerifyLine(V!Walk(lines)[n], lines[n + 1]))
    BY <1>3, WalkStep
  <2> QED
    BY <2>1, <2>2, <2>3
<1>4. k \in T
  <2>1. \A n \in 0..k : n \in T
    <3> HIDE DEF T
    <3> QED
      BY <1>2, <1>3, Upwards
  <2> QED
    BY <2>1
<1>5. Linked(lines, k) <=> WellChained(lines)
  BY <1>1 DEF Linked, WellChained, Pinned
<1>6. PICK s : s = V!Verify(lines) /\ Walked(lines, k, s)
  BY <1>1, <1>4 DEF V!Verify
<1>7. CASE WellChained(lines)
  <2>1. s.ok = TRUE /\ s.prev = Prev(lines, k + 1)
    BY <1>5, <1>6, <1>7 DEF Walked, WalkAt
  <2> QED
    BY <1>1, <1>6, <1>7, <2>1 DEF V!Accepts, V!Root
<1>8. CASE ~WellChained(lines)
  <2>1. s.ok = FALSE
    BY <1>5, <1>6, <1>8 DEF Walked
  <2>2. ~V!Accepts(lines)
    BY <1>6, <2>1 DEF V!Accepts
  <2> QED
    BY <1>8, <2>2
<1> QED
  BY <1>7, <1>8

-----------------------------------------------------------------------------
(* Reading a file.                                                         *)

LEMMA ReadingExists ==
    ASSUME NEW f, NEW k \in Nat
    PROVE  \E w : w = [n \in 0..k |->
                         IF n = 0 THEN [lines |-> <<>>, part |-> <<>>] ELSE ReadByte(w[n - 1], f[n])]
<1> DEFINE Z == [lines |-> <<>>, part |-> <<>>]
           W(w, j) == w = [n \in 0..j |-> IF n = 0 THEN Z ELSE ReadByte(w[n - 1], f[n])]
           T == {j \in Nat : \E w : W(w, j)}
<1> HIDE DEF Z
<1>1. 0 \in T
  <2>1. PICK w : w = [n \in 0..0 |-> Z]
    OBVIOUS
  <2>2. W(w, 0)
    BY <2>1
  <2> QED
    BY <2>2
<1>2. ASSUME NEW j \in Nat, j \in T PROVE j + 1 \in T
  <2>1. PICK w : W(w, j)
    BY <1>2
  <2>2. PICK v : v = [n \in 0..(j + 1) |-> IF n = j + 1 THEN ReadByte(w[j], f[n]) ELSE w[n]]
    OBVIOUS
  <2>3. ASSUME NEW n \in 0..(j + 1)
        PROVE  v[n] = IF n = 0 THEN Z ELSE ReadByte(v[n - 1], f[n])
    <3>1. CASE n = j + 1
      <4>1. n # 0 /\ n - 1 = j /\ j \in 0..(j + 1) /\ j # j + 1
        BY <3>1
      <4>2. v[n] = ReadByte(w[j], f[n]) /\ v[n - 1] = w[j]
        BY <2>2, <3>1, <4>1
      <4> QED
        BY <4>1, <4>2
    <3>2. CASE n # j + 1
      <4>1. n \in 0..j /\ v[n] = w[n]
        BY <2>2, <3>2
      <4>2. CASE n = 0
        BY <2>1, <4>1, <4>2
      <4>3. CASE n # 0
        <5>1. n - 1 \in 0..(j + 1) /\ n - 1 # j + 1
          BY <4>1, <4>3
        <5>2. v[n - 1] = w[n - 1]
          BY <2>2, <5>1
        <5> QED
          BY <2>1, <4>1, <4>3, <5>2
      <4> QED
        BY <4>2, <4>3
    <3> QED
      BY <3>1, <3>2
  <2>4. W(v, j + 1)
    BY <2>2, <2>3
  <2> QED
    BY <2>4
<1>3. \A n \in 0..k : n \in T
  <2> HIDE DEF T
  <2> QED
    BY <1>1, <1>2, Upwards
<1>4. PICK w : W(w, k)
  BY <1>3
<1> QED
  BY <1>4 DEF Z

LEMMA ReadSteps ==
    ASSUME NEW f, Len(f) \in Nat
    PROVE  /\ Reading(f)[0] = [lines |-> <<>>, part |-> <<>>]
           /\ \A n \in 1..Len(f) : Reading(f)[n] = ReadByte(Reading(f)[n - 1], f[n])
<1>1. PICK w : w = [n \in 0..Len(f) |->
                      IF n = 0 THEN [lines |-> <<>>, part |-> <<>>] ELSE ReadByte(w[n - 1], f[n])]
  BY ReadingExists
<1>2. Reading(f) = [n \in 0..Len(f) |->
          IF n = 0 THEN [lines |-> <<>>, part |-> <<>>] ELSE ReadByte(Reading(f)[n - 1], f[n])]
  BY <1>1 DEF Reading
<1>3. 0 \in 0..Len(f)
  OBVIOUS
<1>4. Reading(f)[0] = [lines |-> <<>>, part |-> <<>>]
  BY <1>2, <1>3
<1> QED
  BY <1>2, <1>4

\* Where two files agree they are read alike.
LEMMA ReadAgree ==
    ASSUME NEW f, NEW g, Len(f) \in Nat, Len(g) \in Nat,
           NEW k \in Nat, k <= Len(f), k <= Len(g), \A i \in 1..k : f[i] = g[i]
    PROVE  \A n \in 0..k : Reading(f)[n] = Reading(g)[n]
<1> DEFINE T == {n \in 0..k : Reading(f)[n] = Reading(g)[n]}
<1>1. 0 \in T
  <2>1. Reading(f)[0] = [lines |-> <<>>, part |-> <<>>]
    BY ReadSteps
  <2>2. Reading(g)[0] = [lines |-> <<>>, part |-> <<>>]
    BY ReadSteps
  <2> QED
    BY <2>1, <2>2
<1>2. ASSUME NEW n \in Nat, n < k, n \in T PROVE n + 1 \in T
  <2>1. n + 1 \in 1..Len(f) /\ n + 1 \in 1..Len(g) /\ n + 1 \in 1..k /\ n + 1 - 1 = n
    BY <1>2
  <2>2. Reading(f)[n + 1] = ReadByte(Reading(f)[n], f[n + 1])
    BY <2>1, ReadSteps
  <2>3. Reading(g)[n + 1] = ReadByte(Reading(g)[n], g[n + 1])
    BY <2>1, ReadSteps
  <2>4. f[n + 1] = g[n + 1] /\ Reading(f)[n] = Reading(g)[n]
    BY <2>1, <1>2
  <2>5. Reading(f)[n + 1] = Reading(g)[n + 1]
    BY <2>2, <2>3, <2>4
  <2> QED
    BY <2>1, <2>5
<1>3. \A n \in 0..k : n \in T
  <2> HIDE DEF T
  <2> QED
    BY <1>1, <1>2, Upwards
<1> QED
  BY <1>3

\* What reading one byte leaves of what was read.
LEMMA ReadOne ==
    ASSUME NEW r, NEW b, IsSeq(r.lines), IsSeq(r.part)
    PROVE  LET q == ReadByte(r, b) IN
           /\ IsSeq(q.lines) /\ IsSeq(q.part)
           /\ Len(r.lines) \in Nat /\ Len(q.lines) \in Nat /\ Len(r.lines) <= Len(q.lines)
           /\ \A i \in 1..Len(r.lines) : q.lines[i] = r.lines[i]
<1>1. CASE b = NewLine
  <2>1. ReadByte(r, b).lines = Append(r.lines, Parse(r.part)) /\ ReadByte(r, b).part = <<>>
    BY <1>1 DEF ReadByte
  <2>2. IsSeq(<<>>)
    BY EmptyIsSeq
  <2>3. PICK p : p = Parse(r.part)
    OBVIOUS
  <2> QED
    BY <2>1, <2>2, <2>3, SeqAppend
<1>2. CASE b # NewLine
  <2>1. ReadByte(r, b).lines = r.lines /\ ReadByte(r, b).part = Append(r.part, b)
    BY <1>2 DEF ReadByte
  <2> QED
    BY <2>1, SeqAppend, SeqBasic
<1> QED
  BY <1>1, <1>2

ReadSeqs(r) == IsSeq(r.lines) /\ IsSeq(r.part)

LEMMA ReadShape ==
    ASSUME NEW f, Len(f) \in Nat
    PROVE  \A n \in 0..Len(f) : ReadSeqs(Reading(f)[n])
<1> DEFINE T == {n \in 0..Len(f) : ReadSeqs(Reading(f)[n])}
<1>1. 0 \in T
  <2>1. Reading(f)[0] = [lines |-> <<>>, part |-> <<>>]
    BY ReadSteps
  <2>2. Reading(f)[0].lines = <<>> /\ Reading(f)[0].part = <<>>
    BY <2>1
  <2>3. ReadSeqs(Reading(f)[0])
    BY <2>2, EmptyIsSeq DEF ReadSeqs
  <2> QED
    BY <2>3
<1>2. ASSUME NEW n \in Nat, n < Len(f), n \in T PROVE n + 1 \in T
  <2>1. n + 1 \in 1..Len(f) /\ n + 1 \in 0..Len(f) /\ n + 1 - 1 = n
    BY <1>2
  <2>2. Reading(f)[n + 1] = ReadByte(Reading(f)[n], f[n + 1])
    BY <2>1, ReadSteps
  <2>3. ReadSeqs(Reading(f)[n + 1])
    BY <2>2, <1>2, ReadOne DEF ReadSeqs
  <2> QED
    BY <2>1, <2>3
<1>3. \A n \in 0..Len(f) : n \in T
  <2> HIDE DEF T
  <2> QED
    BY <1>1, <1>2, Upwards
<1> QED
  BY <1>3

\* s continues t.
Extends(s, t) ==
    /\ Len(t) \in Nat /\ Len(s) \in Nat /\ Len(t) <= Len(s)
    /\ \A i \in 1..Len(t) : s[i] = t[i]

LEMMA ExtendsOn ==
    ASSUME NEW a, NEW b, NEW c, Extends(a, b), Extends(b, c)
    PROVE  Extends(a, c)
<1>1. PICK i \in Nat, j \in Nat, k \in Nat : i = Len(a) /\ j = Len(b) /\ k = Len(c) /\ k <= j /\ j <= i
  BY DEF Extends
<1>2. ASSUME NEW n \in 1..k PROVE a[n] = c[n]
  BY <1>1 DEF Extends
<1> QED
  BY <1>1, <1>2 DEF Extends

LEMMA ReadGrows ==
    ASSUME NEW f, Len(f) \in Nat, NEW m \in 0..Len(f)
    PROVE  \A n \in m..Len(f) : Extends(Reading(f)[n].lines, Reading(f)[m].lines)
<1> DEFINE T == {n \in m..Len(f) : Extends(Reading(f)[n].lines, Reading(f)[m].lines)}
<1>1. m \in T
  <2>1. Len(Reading(f)[m].lines) \in Nat
    BY ReadShape, SeqBasic DEF ReadSeqs
  <2> QED
    BY <2>1 DEF Extends
<1>2. ASSUME NEW n \in Nat, m <= n, n < Len(f), n \in T PROVE n + 1 \in T
  <2>1. n + 1 \in 1..Len(f) /\ n + 1 \in m..Len(f) /\ n + 1 - 1 = n /\ n \in 0..Len(f)
    BY <1>2
  <2>2. Reading(f)[n + 1] = ReadByte(Reading(f)[n], f[n + 1])
    BY <2>1, ReadSteps
  <2>3. Extends(Reading(f)[n + 1].lines, Reading(f)[n].lines)
    BY <2>1, <2>2, ReadShape, ReadOne DEF ReadSeqs, Extends
  <2>4. Extends(Reading(f)[n + 1].lines, Reading(f)[m].lines)
    BY <2>3, <1>2, ExtendsOn
  <2> QED
    BY <2>1, <2>4
<1>3. \A n \in m..Len(f) : n \in T
  <2> HIDE DEF T
  <2>1. m \in Nat /\ Len(f) \in Nat
    OBVIOUS
  <2> QED
    BY <1>1, <1>2, <2>1, Upwards
<1> QED
  BY <1>3

\* The lines of a file.
LEMMA LinesSeq ==
    ASSUME NEW f, Len(f) \in Nat
    PROVE  IsSeq(Lines(f)) /\ \A n \in 0..Len(f) : Extends(Lines(f), Reading(f)[n].lines)
<1>1. PICK r : r = Reading(f)[Len(f)]
  OBVIOUS
<1>2. ReadSeqs(r)
  BY <1>1, ReadShape
<1>3. Lines(f) = IF r.part = <<>> THEN r.lines ELSE Append(r.lines, Parse(r.part))
  BY <1>1 DEF Lines
<1>4. PICK p : p = Parse(r.part)
  OBVIOUS
<1>5. IsSeq(Lines(f)) /\ Extends(Lines(f), r.lines)
  BY <1>2, <1>3, <1>4, SeqAppend, SeqBasic DEF ReadSeqs, Extends
<1>6. ASSUME NEW n \in 0..Len(f) PROVE Extends(Lines(f), Reading(f)[n].lines)
  <2>1. Extends(r.lines, Reading(f)[n].lines)
    BY <1>1, ReadGrows
  <2> QED
    BY <2>1, <1>5 DEF Extends
<1> QED
  BY <1>5, <1>6

-----------------------------------------------------------------------------
(* What is read after the acknowledged lines.                              *)

\* The beginning of a chain is a chain.
LEMMA ChainedPrefix ==
    ASSUME NEW s, NEW t, IsSeq(s), IsSeq(t), Extends(s, t), WellChained(s)
    PROVE  WellChained(t)
<1>1. PICK n \in Nat : n = Len(t) /\ DOMAIN t = 1..n
  BY SeqBasic
<1>2. PICK k \in Nat : k = Len(s) /\ DOMAIN s = 1..k
  BY SeqBasic
<1>3. n <= k /\ \A i \in 1..n : s[i] = t[i]
  BY <1>1, <1>2 DEF Extends
<1>4. ASSUME NEW i \in 1..n
      PROVE  s[i] = t[i] /\ s[1] = t[1] /\ Prev(s, i) = Prev(t, i) /\ i \in DOMAIN s
  <2>1. i \in DOMAIN s /\ 1 \in 1..n /\ (i # 1 => i - 1 \in 1..n)
    BY <1>2, <1>3
  <2> QED
    BY <1>3, <2>1 DEF Prev
<1> QED
  BY <1>1, <1>4 DEF WellChained

\* A line written since the last acknowledged one, in a ledger of k of them.
Young(b, k) == b = NewLine \/ b[1].seq = k
YoungLine(l, k) == l = Unparseable \/ l.seq = k

Fresh(r, a) ==
    /\ Extends(r.lines, a)
    /\ \A i \in 1..Len(r.lines) : i > Len(a) => YoungLine(r.lines[i], Len(a))
    /\ \A i \in 1..Len(r.part) : r.part[i][1].seq = Len(a)

LEMMA YoungParse ==
    ASSUME NEW p, IsSeq(p), NEW k, \A i \in 1..Len(p) : p[i][1].seq = k
    PROVE  YoungLine(Parse(p), k)
<1>1. CASE Len(p) = 2 /\ p = Halves(p[1][1])
  <2>1. Parse(p) = p[1][1]
    BY <1>1 DEF Parse
  <2>2. 1 \in 1..Len(p)
    BY <1>1
  <2> QED
    BY <2>1, <2>2 DEF YoungLine
<1>2. CASE ~(Len(p) = 2 /\ p = Halves(p[1][1]))
  BY <1>2 DEF Parse, YoungLine
<1> QED
  BY <1>1, <1>2

LEMMA FreshStep ==
    ASSUME NEW r, NEW a, NEW b, ReadSeqs(r), Len(a) \in Nat, Fresh(r, a), Young(b, Len(a))
    PROVE  Fresh(ReadByte(r, b), a)
<1>1. PICK q : q = ReadByte(r, b)
  OBVIOUS
<1>2. Extends(q.lines, r.lines)
  BY <1>1, ReadOne DEF ReadSeqs, Extends
<1>3. Extends(q.lines, a)
  BY <1>2, ExtendsOn DEF Fresh
<1>4. CASE b = NewLine
  <2>1. PICK l : l = Parse(r.part)
    OBVIOUS
  <2>2. q.lines = Append(r.lines, l) /\ q.part = <<>>
    BY <1>1, <1>4, <2>1 DEF ReadByte
  <2>3. YoungLine(l, Len(a))
    BY <2>1, YoungParse DEF ReadSeqs, Fresh
  <2>4. PICK n \in Nat : n = Len(r.lines) /\ Len(q.lines) = n + 1 /\ q.lines[n + 1] = l
                         /\ \A i \in 1..n : q.lines[i] = r.lines[i]
    BY <2>2, SeqAppend DEF ReadSeqs
  <2>5. ASSUME NEW i \in 1..Len(q.lines), i > Len(a) PROVE YoungLine(q.lines[i], Len(a))
    <3>1. CASE i = n + 1
      BY <2>3, <2>4, <3>1
    <3>2. CASE i # n + 1
      <4>1. i \in 1..n
        BY <2>4, <3>2
      <4>2. YoungLine(r.lines[i], Len(a))
        BY <2>4, <2>5, <4>1 DEF Fresh
      <4> QED
        BY <2>4, <4>1, <4>2
    <3> QED
      BY <3>1, <3>2
  <2>6. Len(q.part) = 0
    BY <2>2, EmptyIsSeq
  <2> QED
    BY <1>1, <1>3, <2>5, <2>6 DEF Fresh
<1>5. CASE b # NewLine
  <2>1. q.lines = r.lines /\ q.part = Append(r.part, b)
    BY <1>1, <1>5 DEF ReadByte
  <2>2. PICK n \in Nat : n = Len(r.part) /\ Len(q.part) = n + 1 /\ q.part[n + 1] = b
                         /\ \A i \in 1..n : q.part[i] = r.part[i]
    BY <2>1, SeqAppend DEF ReadSeqs
  <2>3. ASSUME NEW i \in 1..Len(q.part) PROVE q.part[i][1].seq = Len(a)
    <3>1. CASE i = n + 1
      BY <1>5, <2>2, <3>1 DEF Young
    <3>2. CASE i # n + 1
      <4>1. i \in 1..n
        BY <2>2, <3>2
      <4> QED
        BY <2>2, <4>1 DEF Fresh
    <3> QED
      BY <3>1, <3>2
  <2> QED
    BY <1>1, <1>3, <2>1, <2>3 DEF Fresh
<1> QED
  BY <1>4, <1>5

\* The acknowledged lines end at byte m, and nothing old follows.
Sound(f, m, a) == Reading(f)[m].lines = a /\ Reading(f)[m].part = <<>>
YoungFrom(f, m, k) == \A i \in (m + 1)..Len(f) : Young(f[i], k)

LEMMA FreshReading ==
    ASSUME NEW f, Len(f) \in Nat, NEW m \in 0..Len(f), NEW a, IsSeq(a),
           Sound(f, m, a), YoungFrom(f, m, Len(a))
    PROVE  \A n \in m..Len(f) : Fresh(Reading(f)[n], a)
<1>0. Len(a) \in Nat
  BY SeqBasic
<1> DEFINE T == {n \in m..Len(f) : Fresh(Reading(f)[n], a)}
<1>1. m \in T
  <2>1. Len(<<>>) = 0
    BY EmptyIsSeq
  <2>2. Fresh(Reading(f)[m], a)
    BY <1>0, <2>1 DEF Sound, Fresh, Extends
  <2> QED
    BY <2>2
<1>2. ASSUME NEW n \in Nat, m <= n, n < Len(f), n \in T PROVE n + 1 \in T
  <2>1. n + 1 \in 1..Len(f) /\ n + 1 \in m..Len(f) /\ n + 1 - 1 = n /\ n \in 0..Len(f)
        /\ n + 1 \in (m + 1)..Len(f)
    BY <1>2
  <2>2. Reading(f)[n + 1] = ReadByte(Reading(f)[n], f[n + 1])
    BY <2>1, ReadSteps
  <2>3. ReadSeqs(Reading(f)[n]) /\ Young(f[n + 1], Len(a))
    BY <2>1, ReadShape DEF YoungFrom
  <2>4. Fresh(Reading(f)[n + 1], a)
    BY <1>0, <1>2, <2>2, <2>3, FreshStep
  <2> QED
    BY <2>1, <2>4
<1>3. \A n \in m..Len(f) : n \in T
  <2> HIDE DEF T
  <2>1. m \in Nat /\ Len(f) \in Nat
    OBVIOUS
  <2> QED
    BY <1>1, <1>2, <2>1, Upwards
<1> QED
  BY <1>3

LEMMA FreshLines ==
    ASSUME NEW f, Len(f) \in Nat, NEW m \in 0..Len(f), NEW a, IsSeq(a),
           Sound(f, m, a), YoungFrom(f, m, Len(a))
    PROVE  /\ Extends(Lines(f), a)
           /\ \A i \in 1..Len(Lines(f)) : i > Len(a) => YoungLine(Lines(f)[i], Len(a))
<1>1. PICK r : r = Reading(f)[Len(f)]
  OBVIOUS
<1>2. Fresh(r, a) /\ ReadSeqs(r) /\ Len(a) \in Nat
  BY <1>1, FreshReading, ReadShape, SeqBasic
<1>3. CASE r.part = <<>>
  BY <1>1, <1>2, <1>3 DEF Lines, Fresh
<1>4. CASE r.part # <<>>
  \* A last line without its newline is read as if it had one.
  <2>1. PICK q : q = ReadByte(r, NewLine)
    OBVIOUS
  <2>2. Fresh(q, a)
    BY <1>2, <2>1, FreshStep DEF Young
  <2>3. Lines(f) = q.lines
    BY <1>1, <1>4, <2>1 DEF Lines, ReadByte
  <2> QED
    BY <2>2, <2>3 DEF Fresh
<1> QED
  BY <1>3, <1>4

-----------------------------------------------------------------------------
(* Reading the running entry's line.                                       *)

HeadOf(e) == <<e, "head">>
TailOf(e) == <<e, "tail">>

LEMMA ByteKinds ==
    ASSUME NEW e
    PROVE  HeadOf(e) # NewLine /\ TailOf(e) # NewLine /\ HeadOf(e)[1] = e /\ TailOf(e)[1] = e
<1>1. NewLine[2] = "newline" /\ HeadOf(e)[2] = "head" /\ TailOf(e)[2] = "tail"
  BY DEF NewLine, HeadOf, TailOf
<1>2. HeadOf(e)[1] = e /\ TailOf(e)[1] = e
  BY DEF HeadOf, TailOf
<1> QED
  BY <1>1, <1>2

LEMMA HalvesSeq ==
    ASSUME NEW e
    PROVE  /\ IsSeq(Halves(e)) /\ Len(Halves(e)) = 2
           /\ Halves(e)[1] = HeadOf(e) /\ Halves(e)[2] = TailOf(e)
<1>1. Halves(e) \in Seq({HeadOf(e), TailOf(e)})
  BY DEF Halves, HeadOf, TailOf
<1>2. IsSeq(Halves(e))
  BY <1>1 DEF IsSeq
<1>3. Len(Halves(e)) = 2 /\ Halves(e)[1] = HeadOf(e) /\ Halves(e)[2] = TailOf(e)
  BY DEF Halves, HeadOf, TailOf
<1> QED
  BY <1>2, <1>3

LEMMA BytesSeq ==
    ASSUME NEW e
    PROVE  /\ IsSeq(Bytes(e)) /\ Len(Bytes(e)) = 3
           /\ Bytes(e)[1] = HeadOf(e) /\ Bytes(e)[2] = TailOf(e) /\ Bytes(e)[3] = NewLine
<1>1. PICK h : h = Halves(e) /\ IsSeq(h) /\ Len(h) = 2 /\ h[1] = HeadOf(e) /\ h[2] = TailOf(e)
  BY HalvesSeq
<1>2. Bytes(e) = Append(h, NewLine)
  BY <1>1 DEF Bytes
<1>3. 1 \in 1..2 /\ 2 \in 1..2 /\ 2 + 1 = 3
  OBVIOUS
<1>4. IsSeq(Append(h, NewLine)) /\ Len(Append(h, NewLine)) = Len(h) + 1
      /\ Append(h, NewLine)[Len(h) + 1] = NewLine
      /\ \A i \in 1..Len(h) : Append(h, NewLine)[i] = h[i]
  <2> HIDE DEF NewLine
  <2>1. IsSeq(h)
    BY <1>1
  <2> QED
    BY <2>1, SeqAppend
<1>5. PICK z : z = Bytes(e) /\ z = Append(h, NewLine)
  BY <1>2
<1>6. Len(z) = 3 /\ z[3] = NewLine /\ z[1] = h[1] /\ z[2] = h[2] /\ IsSeq(z)
  BY <1>1, <1>3, <1>4, <1>5
<1> QED
  BY <1>1, <1>5, <1>6

LEMMA ParseHalves ==
    ASSUME NEW e
    PROVE  Parse(Append(Append(<<>>, HeadOf(e)), TailOf(e))) = e
<1>1. Append(Append(<<>>, HeadOf(e)), TailOf(e)) = Halves(e)
  <2>1. PICK h : h = Append(<<>>, HeadOf(e)) /\ IsSeq(h) /\ Len(h) = 1 /\ h[1] = HeadOf(e)
    <3>1. 0 + 1 = 1
      OBVIOUS
    <3>2. IsSeq(Append(<<>>, HeadOf(e))) /\ Len(Append(<<>>, HeadOf(e))) = Len(<<>>) + 1
          /\ Append(<<>>, HeadOf(e))[Len(<<>>) + 1] = HeadOf(e)
      BY EmptyIsSeq, SeqAppend
    <3> QED
      BY <3>1, <3>2, EmptyIsSeq
  <2>2. PICK p : p = Append(h, TailOf(e)) /\ IsSeq(p) /\ Len(p) = Len(h) + 1
                 /\ p[Len(h) + 1] = TailOf(e) /\ \A i \in 1..Len(h) : p[i] = h[i]
    <3>1. IsSeq(h)
      BY <2>1
    <3>2. IsSeq(Append(h, TailOf(e))) /\ Len(Append(h, TailOf(e))) = Len(h) + 1
          /\ Append(h, TailOf(e))[Len(h) + 1] = TailOf(e)
          /\ \A i \in 1..Len(h) : Append(h, TailOf(e))[i] = h[i]
      BY <3>1, SeqAppend
    <3> QED
      BY <3>2
  <2>3. Len(p) = 2 /\ p[1] = HeadOf(e) /\ p[2] = TailOf(e)
    <3>1. 1 \in 1..1 /\ 1 + 1 = 2
      OBVIOUS
    <3> QED
      BY <2>1, <2>2, <3>1
  <2>4. p = Halves(e)
    <3>1. \A i \in 1..Len(p) : p[i] = Halves(e)[i]
      <4>1. 1..2 = {1, 2}
        OBVIOUS
      <4> QED
        BY <2>3, <4>1, HalvesSeq
    <3> QED
      BY <2>2, <2>3, <3>1, HalvesSeq, SameSeq
  <2> QED
    BY <2>1, <2>2, <2>4
<1>2. Halves(e)[1][1] = e /\ Len(Halves(e)) = 2
  BY HalvesSeq, ByteKinds
<1> QED
  BY <1>1, <1>2 DEF Parse

LEMMA ParseOther ==
    ASSUME NEW p, Len(p) # 2
    PROVE  Parse(p) = Unparseable
BY DEF Parse

\* What is read of the line's first half, of both, and of the newline.
Half(r, e) == Append(r.part, HeadOf(e))
Both(r, e) == Append(Half(r, e), TailOf(e))

LEMMA ReadHead ==
    ASSUME NEW f, Len(f) \in Nat, NEW n \in Nat, NEW e, NEW r, r = Reading(f)[n],
           n + 1 <= Len(f), f[n + 1] = HeadOf(e)
    PROVE  Reading(f)[n + 1] = [lines |-> r.lines, part |-> Half(r, e)]
<1>1. n + 1 \in 1..Len(f) /\ n + 1 - 1 = n
  OBVIOUS
<1>2. Reading(f)[n + 1] = ReadByte(r, HeadOf(e))
  BY <1>1, ReadSteps
<1> QED
  BY <1>2, ByteKinds DEF ReadByte, Half

LEMMA ReadBoth ==
    ASSUME NEW f, Len(f) \in Nat, NEW n \in Nat, NEW e, NEW r, r = Reading(f)[n],
           n + 2 <= Len(f), f[n + 1] = HeadOf(e), f[n + 2] = TailOf(e)
    PROVE  Reading(f)[n + 2] = [lines |-> r.lines, part |-> Both(r, e)]
<1>1. n + 2 \in 1..Len(f) /\ n + 2 - 1 = n + 1 /\ n + 1 <= Len(f)
  OBVIOUS
<1>2. Reading(f)[n + 1] = [lines |-> r.lines, part |-> Half(r, e)]
  BY <1>1, ReadHead
<1>3. Reading(f)[n + 2] = ReadByte([lines |-> r.lines, part |-> Half(r, e)], TailOf(e))
  BY <1>1, <1>2, ReadSteps
<1> QED
  BY <1>3, ByteKinds DEF ReadByte, Both

LEMMA ReadLine ==
    ASSUME NEW f, Len(f) \in Nat, NEW n \in Nat, NEW e, NEW r, r = Reading(f)[n],
           n + 3 <= Len(f), f[n + 1] = HeadOf(e), f[n + 2] = TailOf(e), f[n + 3] = NewLine
    PROVE  Reading(f)[n + 3] = [lines |-> Append(r.lines, Parse(Both(r, e))), part |-> <<>>]
<1>1. n + 3 \in 1..Len(f) /\ n + 3 - 1 = n + 2 /\ n + 2 <= Len(f)
  OBVIOUS
<1>2. Reading(f)[n + 2] = [lines |-> r.lines, part |-> Both(r, e)]
  BY <1>1, ReadBoth
<1>3. Reading(f)[n + 3] = ReadByte([lines |-> r.lines, part |-> Both(r, e)], NewLine)
  BY <1>1, <1>2, ReadSteps
<1> QED
  BY <1>3 DEF ReadByte

\* The file ends in the line of e, all of it after the first m bytes.
Ending(f, m, e) ==
    /\ Len(f) >= m + 3
    /\ f[Len(f) - 2] = HeadOf(e) /\ f[Len(f) - 1] = TailOf(e) /\ f[Len(f)] = NewLine

\* Once e is acknowledged, the file is sound again or will never verify.
LEMMA EndingRead ==
    ASSUME NEW f, Len(f) \in Nat, NEW m \in 0..Len(f), NEW a, IsSeq(a), NEW e,
           Sound(f, m, a), YoungFrom(f, m, Len(a)), Ending(f, m, e)
    PROVE  Sound(f, Len(f), Append(a, e)) \/ ~WellChained(Reading(f)[Len(f)].lines)
<1>0. PICK n \in Nat : n = Len(f) - 3
  BY DEF Ending
<1>1. n + 3 = Len(f) /\ n \in m..Len(f) /\ n \in 0..Len(f)
      /\ n + 1 = Len(f) - 2 /\ n + 2 = Len(f) - 1 /\ Len(f) \in m..Len(f)
  BY <1>0 DEF Ending
<1>2. PICK r : r = Reading(f)[n] /\ ReadSeqs(r) /\ Fresh(r, a)
  BY <1>1, ReadShape, FreshReading
<1>3. PICK p : p = Both(r, e) /\ p = Append(Append(r.part, HeadOf(e)), TailOf(e))
  BY DEF Both, Half
<1>4. PICK q : q = Reading(f)[Len(f)] /\ q = [lines |-> Append(r.lines, Parse(p)), part |-> <<>>]
  <2>1. n + 3 <= Len(f) /\ f[n + 1] = HeadOf(e) /\ f[n + 2] = TailOf(e) /\ f[n + 3] = NewLine
    BY <1>1 DEF Ending
  <2>2. Reading(f)[n + 3] = [lines |-> Append(r.lines, Parse(p)), part |-> <<>>]
    <3>1. r = Reading(f)[n] /\ ReadSeqs(r)
      BY <1>2
    <3>2. Reading(f)[n + 3] = [lines |-> Append(r.lines, Parse(Both(r, e))), part |-> <<>>]
      BY <2>1, <3>1, ReadLine
    <3> QED
      BY <1>3, <3>2
  <2> QED
    BY <1>1, <2>2
<1>5. PICK l : l = Parse(p) /\ q.lines = Append(r.lines, l) /\ q.part = <<>>
  BY <1>4
<1>6. PICK k \in Nat, j \in Nat : k = Len(a) /\ j = Len(r.lines) /\ k <= j
  BY <1>2 DEF Fresh, Extends
<1>7. IsSeq(q.lines) /\ Len(q.lines) = j + 1 /\ q.lines[j + 1] = l
  BY <1>2, <1>5, <1>6, SeqAppend DEF ReadSeqs
<1>8. DOMAIN q.lines = 1..(j + 1) /\ j + 1 \in 1..(j + 1)
  BY <1>6, <1>7, SeqBasic
<1>9. CASE j > k
  <2>1. Fresh(Reading(f)[Len(f)], a)
    BY <1>1, FreshReading
  <2>2. Fresh(q, a)
    BY <1>4, <2>1
  <2>3. YoungLine(l, k)
    BY <1>6, <1>7, <1>8, <1>9, <2>2 DEF Fresh
  <2>4. j + 1 - 1 # k
    BY <1>9
  <2>5. ~WellChained(q.lines)
    BY <1>7, <1>8, <2>3, <2>4 DEF WellChained, YoungLine
  <2> QED
    BY <1>4, <2>5
<1>10. CASE j = k /\ r.part # <<>>
  <2>1. Len(r.part) \in Nat /\ Len(r.part) # 0
    <3>1. IsSeq(r.part) /\ Len(r.part) \in Nat
      BY <1>2, SeqBasic DEF ReadSeqs
    <3>2. Len(r.part) = 0 => r.part = <<>>
      BY <3>1, EmptyIsSeq, SameSeq
    <3> QED
      BY <1>10, <3>1, <3>2
  <2>2. Len(p) # 2
    <3>1. IsSeq(Append(r.part, HeadOf(e))) /\ Len(Append(r.part, HeadOf(e))) = Len(r.part) + 1
      BY <1>2, SeqAppend DEF ReadSeqs
    <3>2. Len(p) = Len(r.part) + 1 + 1
      BY <1>3, <3>1, SeqAppend
    <3> QED
      BY <2>1, <3>2
  <2>3. l = Unparseable
    BY <1>5, <2>2, ParseOther
  <2>4. ~WellChained(q.lines)
    BY <1>7, <1>8, <2>3 DEF WellChained
  <2> QED
    BY <1>4, <2>4
<1>11. CASE j = k /\ r.part = <<>>
  <2>1. l = e
    BY <1>3, <1>5, <1>11, ParseHalves
  <2>2. r.lines = a
    <3>1. IsSeq(r.lines) /\ Len(r.lines) = Len(a) /\ \A i \in 1..Len(r.lines) : r.lines[i] = a[i]
      BY <1>2, <1>6, <1>11 DEF ReadSeqs, Fresh, Extends
    <3> QED
      BY <3>1, SameSeq
  <2> QED
    BY <1>4, <1>5, <2>1, <2>2 DEF Sound
<1> QED
  BY <1>6, <1>9, <1>10, <1>11

-----------------------------------------------------------------------------
(* The edits leave sequences of lines.                                     *)

LEMMA SeqPart ==
    ASSUME NEW s, IsSeq(s), NEW i \in Nat, NEW j \in Nat, 1 <= i, i <= Len(s) + 1, j <= Len(s)
    PROVE  IsSeq(SubSeq(s, i, j))
<1>1. PICK S : s \in Seq(S)
  BY DEF IsSeq
<1>2. SubSeq(s, i, j) \in Seq(S)
  BY <1>1
<1> QED
  BY <1>2 DEF IsSeq

LEMMA SeqExcept ==
    ASSUME NEW s, IsSeq(s), NEW i, NEW v
    PROVE  IsSeq([s EXCEPT ![i] = v])
<1>1. PICK n \in Nat : DOMAIN s = 1..n
  BY SeqBasic
<1>2. PICK t : t = [s EXCEPT ![i] = v]
  OBVIOUS
<1>3. t = [j \in 1..n |-> t[j]]
  BY <1>1, <1>2
<1> QED
  BY <1>2, <1>3, FunctionIsSeq

LEMMA EditedSeq ==
    ASSUME NEW s, IsSeq(s), NEW t \in Edited(s)
    PROVE  IsSeq(t)
<1>1. PICK n \in Nat : n = Len(s)
  BY SeqBasic
<1> DEFINE parsed == {i \in 1..Len(s) : s[i] # Unparseable}
<1>2. CASE t \in {[s EXCEPT ![i] = Unparseable] : i \in 1..Len(s)}
  BY <1>2, SeqExcept
<1>3. CASE t \in {[s EXCEPT ![i].id = 0] : i \in parsed}
  <2>1. PICK i : t = [s EXCEPT ![i] = [s[i] EXCEPT !.id = 0]]
    BY <1>3
  <2> QED
    BY <2>1, SeqExcept
<1>4. CASE t \in {[s EXCEPT ![i].seq = @ + 1] : i \in parsed}
  <2>1. PICK i : t = [s EXCEPT ![i] = [s[i] EXCEPT !.seq = @ + 1]]
    BY <1>4
  <2>2. PICK v : v = [s[i] EXCEPT !.seq = @ + 1]
    OBVIOUS
  <2> QED
    BY <2>1, <2>2, SeqExcept
<1>5. CASE t \in {[s EXCEPT ![i].version = v] : i \in parsed, v \in {"v2", "v3"}}
  <2>1. PICK i \in parsed, v \in {"v2", "v3"} : t = [s EXCEPT ![i].version = v]
    BY <1>5, SMT
  <2>2. t = [s EXCEPT ![i] = [s[i] EXCEPT !.version = v]]
    BY <2>1
  <2> QED
    BY <2>2, SeqExcept
<1>6. CASE t \in {[s EXCEPT ![i].session = "t"] : i \in parsed}
  <2>1. PICK i : t = [s EXCEPT ![i] = [s[i] EXCEPT !.session = "t"]]
    BY <1>6
  <2> QED
    BY <2>1, SeqExcept
<1>7. CASE t \in {[s EXCEPT ![i] = s[i + 1], ![i + 1] = s[i]] : i \in 1..(Len(s) - 1)}
  <2>1. PICK i \in 1..(Len(s) - 1) : t = [s EXCEPT ![i] = s[i + 1], ![i + 1] = s[i]]
    BY <1>7
  <2>2. PICK u : u = [s EXCEPT ![i] = s[i + 1]] /\ IsSeq(u)
    BY SeqExcept
  <2>3. t = [u EXCEPT ![i + 1] = s[i]]
    BY <2>1, <2>2
  <2> QED
    BY <2>2, <2>3, SeqExcept
<1>8. CASE t \in {RemoveAt(s, i) : i \in 1..Len(s)}
  <2>1. PICK i \in 1..Len(s) : t = SubSeq(s, 1, i - 1) \o SubSeq(s, i + 1, Len(s))
    BY <1>8 DEF RemoveAt
  <2>2. IsSeq(SubSeq(s, 1, i - 1)) /\ IsSeq(SubSeq(s, i + 1, Len(s)))
    BY <1>1, SeqPart
  <2> QED
    BY <2>1, <2>2, SeqConcat
<1>9. CASE t \in {InsertAt(s, i, s[i]) : i \in 1..Len(s)}
  <2>1. PICK i \in 1..Len(s) : t = SubSeq(s, 1, i - 1) \o <<s[i]>> \o SubSeq(s, i, Len(s))
    BY <1>9 DEF InsertAt
  <2>2. IsSeq(SubSeq(s, 1, i - 1)) /\ IsSeq(SubSeq(s, i, Len(s)))
    BY <1>1, SeqPart
  <2>3. IsSeq(<<s[i]>>)
    <3>1. <<s[i]>> \in Seq({s[i]})
      OBVIOUS
    <3> QED
      BY <3>1 DEF IsSeq
  <2>4. IsSeq(SubSeq(s, 1, i - 1) \o <<s[i]>>)
    BY <2>2, <2>3, SeqConcat
  <2> QED
    BY <2>1, <2>2, <2>4, SeqConcat
<1>10. CASE t \in {Chained([i \in 1..Len(s) |-> IF i = k \/ s[i] = Unparseable THEN 0 ELSE s[i].id])
                     : k \in 1..Len(s)}
  <2>1. PICK ids : t = Chained(ids) /\ Len(ids) \in Nat
    <3>1. PICK k \in 1..Len(s) :
            t = Chained([i \in 1..Len(s) |-> IF i = k \/ s[i] = Unparseable THEN 0 ELSE s[i].id])
      BY <1>10
    <3>2. PICK ids : ids = [i \in 1..n |-> IF i = k \/ s[i] = Unparseable THEN 0 ELSE s[i].id]
      OBVIOUS
    <3>3. ids = [i \in 1..n |-> ids[i]]
      BY <3>2
    <3>4. Len(ids) = n
      BY <3>3, FunctionIsSeq
    <3> QED
      BY <1>1, <3>1, <3>2, <3>4
  <2>2. Chained(ids) = [j \in 1..Len(ids) |-> Chained(ids)[j]]
    BY DEF Chained
  <2>3. t = [j \in 1..Len(ids) |-> t[j]]
    BY <2>1, <2>2
  <2> QED
    BY <2>1, <2>3, FunctionIsSeq
<1> QED
  BY <1>2, <1>3, <1>4, <1>5, <1>6, <1>7, <1>8, <1>9, <1>10 DEF Edited

-----------------------------------------------------------------------------
(* The inductive invariant.                                                *)

Types ==
    /\ IsSeq(disk) /\ IsSeq(buf) /\ IsSeq(rest) /\ IsSeq(acked) /\ IsSeq(copy)
    /\ durable \in Nat /\ durable <= Len(disk) /\ failures \in Nat

Control ==
    /\ writer \in {"open", "closing", "closed", "gone"}
    /\ pc \in {"idle", "drain", "direct", "flush", "sync"}
    /\ (pc # "idle" => writer \in {"open", "closing"})
    /\ (writer = "closing" => pc \in {"flush", "sync"})
    /\ (pc # "direct" => rest = <<>>)
    /\ (pc = "sync" => buf = <<>>)
    /\ (pc = "direct" => buf = <<>>)

\* The entry e continues the chain a of the acknowledged ones.
Continues(e, a) ==
    /\ e.seq = Len(a) /\ e.prev = Prev(a, Len(a) + 1)
    /\ e.version = "v1" /\ e.session = "s"

AckedChain(a) ==
    \A i \in 1..Len(a) :
        /\ a[i].seq = i - 1 /\ a[i].prev = Prev(a, i)
        /\ a[i].version = "v1" /\ a[i].session = "s"

ChainInv ==
    /\ AckedChain(acked)
    /\ nextSequence = Len(acked) /\ prevHash = Prev(acked, Len(acked) + 1)
    /\ (writer = "open" /\ pc # "idle" => Continues(entry, acked))

\* What the BufWriter or the running write will still send to the file, after it.
Pending == IF pc = "direct" THEN Append(rest, NewLine) ELSE buf
Stream == disk \o Pending

Busy == writer = "open" /\ pc \in {"direct", "flush", "sync"}

\* After byte m comes nothing old; before it are the acknowledged lines or a break.
Base(f, m, a) ==
    /\ Sound(f, m, a) \/ ~WellChained(Reading(f)[m].lines)
    /\ YoungFrom(f, m, Len(a))

\* After byte m comes at most the line of e.
Partial(f, m, a, e) ==
    /\ Sound(f, m, a) /\ Len(f) <= m + 3
    /\ \A i \in 1..3 : m + i <= Len(f) => f[m + i] = Bytes(e)[i]
    /\ (Len(f) > m => Continues(e, a))

Anchor(m) ==
    /\ Base(Stream, m, acked)
    /\ (Busy => Ending(Stream, m, entry))
    /\ (failures = 0 =>
          /\ Partial(Stream, m, acked, entry)
          /\ (Busy => Len(Stream) = m + 3)
          /\ (~Busy /\ writer # "gone" => Len(Stream) = m))
    /\ (copy # <<>> => failures = 0 /\ writer \in {"closed", "gone"} /\ Len(Stream) = m)

Anchored == \E m \in 0..durable : Anchor(m)

OnDisk(e) == \E k \in 1..(durable - 1) : disk[k] = HeadOf(e) /\ disk[k + 1] = TailOf(e)
AckedOnDisk == \A i \in 1..Len(acked) : OnDisk(acked[i])

LInv == Types /\ Control /\ ChainInv /\ Anchored /\ AckedOnDisk

mcVars == <<vars, copy, edits>>

LEMMA TypesStep ==
    ASSUME Types, Control, [MCNext]_mcVars
    PROVE  Types'
<1> USE DEF Types
<1>e. IsSeq(<<>>) /\ Len(<<>>) = 0
  BY EmptyIsSeq
<1>d. Len(disk) \in Nat
  BY SeqBasic
<1>1. CASE Begin /\ UNCHANGED <<copy, edits>>
  <2>1. PICK z : z = Bytes(Built) /\ IsSeq(z)
    BY BytesSeq
  <2>2. IsSeq(buf \o z)
    BY <2>1, SeqConcat
  <2>3. IsSeq(buf')
    BY <1>1, <2>1, <2>2 DEF Begin
  <2> QED
    BY <1>1, <2>3 DEF Begin
<1>2. CASE Write /\ UNCHANGED <<copy, edits>>
  <2>1. IsSeq(Tail(buf))
    BY <1>2, SeqTail DEF Write
  <2>2. PICK b : b = Head(buf)
    OBVIOUS
  <2>3. IsSeq(Append(disk, b)) /\ Len(Append(disk, b)) = Len(disk) + 1
    BY SeqAppend
  <2>4. disk' = Append(disk, b) /\ buf' = Tail(buf)
    BY <1>2, <2>2 DEF Write
  <2>5. IsSeq(disk') /\ Len(disk') = Len(disk) + 1 /\ IsSeq(buf')
    BY <2>1, <2>3, <2>4
  <2> QED
    BY <1>2, <1>d, <2>5 DEF Write
<1>3. CASE Drained /\ UNCHANGED <<copy, edits>>
  <2>1. PICK z : z = Bytes(entry) /\ IsSeq(z)
    BY BytesSeq
  <2>2. PICK h : h = Halves(entry) /\ IsSeq(h)
    BY HalvesSeq
  <2> QED
    BY <1>3, <2>1, <2>2 DEF Drained
<1>4. CASE WriteDirect /\ UNCHANGED <<copy, edits>>
  <2>1. IsSeq(Tail(rest))
    BY <1>4, SeqTail DEF WriteDirect
  <2>2. PICK b : b = Head(rest)
    OBVIOUS
  <2>3. IsSeq(Append(disk, b)) /\ Len(Append(disk, b)) = Len(disk) + 1
    BY SeqAppend
  <2>4. disk' = Append(disk, b) /\ rest' = Tail(rest)
    BY <1>4, <2>2 DEF WriteDirect
  <2>5. IsSeq(disk') /\ Len(disk') = Len(disk) + 1 /\ IsSeq(rest')
    BY <2>1, <2>3, <2>4
  <2>6. IsSeq(<<NewLine>>)
    <3>1. <<NewLine>> \in Seq({NewLine})
      OBVIOUS
    <3> QED
      BY <3>1 DEF IsSeq
  <2>7. IsSeq(buf')
    BY <1>4, <2>6 DEF WriteDirect
  <2> QED
    BY <1>4, <1>d, <2>5, <2>7 DEF WriteDirect
<1>5. CASE Flushed /\ UNCHANGED <<copy, edits>>
  BY <1>5 DEF Flushed
<1>6. CASE Synced /\ UNCHANGED <<copy, edits>>
  <2>1. IsSeq(Append(acked, entry))
    BY SeqAppend
  <2>2. IsSeq(acked')
    BY <1>6, <2>1 DEF Synced, Complete
  <2> QED
    BY <1>6, <1>d, <2>2 DEF Synced
<1>7. CASE Fail /\ UNCHANGED <<copy, edits>>
  BY <1>7, <1>e DEF Fail
<1>8. CASE Close /\ UNCHANGED <<copy, edits>>
  BY <1>8 DEF Close
<1>9. CASE Drop /\ UNCHANGED <<copy, edits>>
  <2>1. PICK n \in 0..Len(buf) : disk' = disk \o SubSeq(buf, 1, n)
    BY <1>9 DEF Drop
  <2>2. PICK z : z = SubSeq(buf, 1, n) /\ IsSeq(z)
    BY SeqPrefix
  <2>3. IsSeq(disk \o z) /\ Len(disk \o z) = Len(disk) + Len(z) /\ Len(z) \in Nat
    BY <2>2, SeqConcat
  <2>4. IsSeq(disk') /\ Len(disk') >= Len(disk) /\ Len(disk') \in Nat
    BY <1>d, <2>1, <2>2, <2>3
  <2> QED
    BY <1>9, <1>d, <1>e, <2>4 DEF Drop
<1>10. CASE Kill /\ UNCHANGED <<copy, edits>>
  BY <1>10, <1>e DEF Kill, Killed
<1>11. CASE PowerLoss /\ UNCHANGED <<copy, edits>>
  <2>1. PICK n \in durable..Len(disk) : disk' = SubSeq(disk, 1, n) /\ durable' = n
    BY <1>11 DEF PowerLoss
  <2>2. n \in 0..Len(disk)
    BY <1>d, <2>1
  <2>3. IsSeq(SubSeq(disk, 1, n)) /\ Len(SubSeq(disk, 1, n)) = n
    BY <2>2, SeqPrefix
  <2>4. IsSeq(disk') /\ Len(disk') = n /\ n \in Nat
    BY <2>1, <2>2, <2>3
  <2> QED
    BY <1>11, <1>e, <2>1, <2>4 DEF PowerLoss, Killed
<1>12. CASE Edit
  <2>1. IsSeq(Lines(disk))
    BY <1>d, LinesSeq
  <2>2. PICK s : IsSeq(s) /\ copy' \in Edited(s)
    BY <1>12, <2>1 DEF Edit
  <2>3. IsSeq(copy')
    BY <2>2, EditedSeq
  <2> QED
    BY <1>12, <2>3 DEF Edit, vars
<1>13. CASE UNCHANGED mcVars
  BY <1>13 DEF mcVars, vars
<1> QED
  BY <1>1, <1>2, <1>3, <1>4, <1>5, <1>6, <1>7, <1>8, <1>9, <1>10, <1>11, <1>12, <1>13 DEF MCNext, Next

LEMMA ControlStep ==
    ASSUME Types, Control, [MCNext]_mcVars
    PROVE  Control'
<1> USE DEF Control
<1>1. CASE Begin
  BY <1>1 DEF Begin
<1>2. CASE Write
  <2>1. buf # <<>> /\ pc \in {"drain", "flush"}
    BY <1>2 DEF Write
  <2> QED
    BY <1>2, <2>1 DEF Write
<1>3. CASE Drained
  BY <1>3 DEF Drained
<1>4. CASE WriteDirect
  BY <1>4 DEF WriteDirect
<1>5. CASE Flushed
  BY <1>5 DEF Flushed
<1>6. CASE Synced
  BY <1>6 DEF Synced, Complete
<1>7. CASE Fail
  BY <1>7 DEF Fail
<1>8. CASE Close
  BY <1>8 DEF Close
<1>9. CASE Drop
  BY <1>9 DEF Drop
<1>10. CASE Kill
  BY <1>10 DEF Kill, Killed
<1>11. CASE PowerLoss
  BY <1>11 DEF PowerLoss, Killed
<1>12. CASE Edit
  BY <1>12 DEF Edit, vars
<1>13. CASE UNCHANGED mcVars
  BY <1>13 DEF mcVars, vars
<1> QED
  BY <1>1, <1>2, <1>3, <1>4, <1>5, <1>6, <1>7, <1>8, <1>9, <1>10, <1>11, <1>12, <1>13 DEF MCNext, Next

\* The acknowledged entries are a well-formed chain, and so is it with the next.
LEMMA ChainGrows ==
    ASSUME NEW a, IsSeq(a), AckedChain(a), NEW e, Continues(e, a)
    PROVE  /\ AckedChain(Append(a, e)) /\ Len(Append(a, e)) = Len(a) + 1
           /\ Prev(Append(a, e), Len(Append(a, e)) + 1) = Hash(e)
<1>1. PICK b : b = Append(a, e)
  OBVIOUS
<1>2. PICK n \in Nat : n = Len(a) /\ Len(b) = n + 1 /\ b[n + 1] = e /\ \A i \in 1..n : b[i] = a[i]
  BY <1>1, SeqAppend
<1>3. ASSUME NEW i \in 1..(n + 1)
      PROVE  /\ b[i].seq = i - 1 /\ b[i].prev = Prev(b, i)
             /\ b[i].version = "v1" /\ b[i].session = "s"
  <2>1. Prev(b, i) = Prev(a, i)
    <3>1. i # 1 => i - 1 \in 1..n
      OBVIOUS
    <3> QED
      BY <1>2, <3>1 DEF Prev
  <2>2. CASE i = n + 1
    <3>1. b[i] = e /\ i - 1 = n
      BY <1>2, <2>2
    <3>2. e.seq = n /\ e.prev = Prev(a, i) /\ e.version = "v1" /\ e.session = "s"
      BY <1>2, <2>2 DEF Continues
    <3> QED
      BY <2>1, <3>1, <3>2
  <2>3. CASE i # n + 1
    <3>1. i \in 1..n
      BY <2>3
    <3>2. b[i] = a[i]
      BY <1>2, <3>1
    <3> QED
      BY <1>2, <2>1, <3>1, <3>2 DEF AckedChain
  <2> QED
    BY <2>2, <2>3
<1>4. AckedChain(b)
  BY <1>2, <1>3 DEF AckedChain
<1>5. Prev(b, Len(b) + 1) = Hash(e)
  <2>1. n + 1 + 1 # 1 /\ n + 1 + 1 - 1 = n + 1
    OBVIOUS
  <2> QED
    BY <1>2, <2>1 DEF Prev
<1> QED
  BY <1>1, <1>2, <1>4, <1>5

LEMMA ChainWell ==
    ASSUME NEW a, IsSeq(a), AckedChain(a)
    PROVE  WellChained(a)
<1>1. PICK n \in Nat : n = Len(a) /\ DOMAIN a = 1..n
  BY SeqBasic
<1>2. Unparseable.version = "none"
  BY DEF Unparseable
<1>3. ASSUME NEW i \in 1..n
      PROVE  /\ a[i] # Unparseable /\ a[i].version = a[1].version /\ a[i].session = a[1].session
             /\ a[i].version \in {"v1", "v2"} /\ a[i].seq = i - 1 /\ a[i].prev = Prev(a, i)
  <2>1. 1 \in 1..n
    OBVIOUS
  <2>2. a[i].version = "v1" /\ a[1].version = "v1" /\ a[i].session = "s" /\ a[1].session = "s"
    BY <1>1, <2>1 DEF AckedChain
  <2>3. a[i] # Unparseable
    BY <1>2, <2>2
  <2> QED
    BY <1>1, <2>2, <2>3 DEF AckedChain
<1> QED
  BY <1>1, <1>3 DEF WellChained

LEMMA ChainStep ==
    ASSUME Types, Control, ChainInv, [MCNext]_mcVars
    PROVE  ChainInv'
<1>1. CASE Begin
  <2>1. entry' = Built /\ acked' = acked /\ nextSequence' = nextSequence /\ prevHash' = prevHash
    BY <1>1 DEF Begin, Chain
  <2>2. Built.seq = nextSequence /\ Built.prev = prevHash /\ Built.version = "v1" /\ Built.session = "s"
    BY DEF Built, NoEntry
  <2>3. Continues(Built, acked)
    BY <2>2 DEF ChainInv, Continues
  <2> QED
    BY <2>1, <2>3 DEF ChainInv
<1>2. CASE Write
  BY <1>2 DEF Write, Chain, ChainInv
<1>3. CASE Drained
  BY <1>3 DEF Drained, Chain, ChainInv
<1>4. CASE WriteDirect
  BY <1>4 DEF WriteDirect, Chain, ChainInv
<1>5. CASE Flushed
  BY <1>5 DEF Flushed, Chain, ChainInv
<1>6. CASE Synced /\ writer = "closing"
  BY <1>6 DEF Synced, Complete, Chain, ChainInv
<1>7. CASE Synced /\ writer # "closing"
  <2>1. writer = "open" /\ pc = "sync" /\ pc' = "idle"
    BY <1>7 DEF Synced, Complete, Control
  <2>2. Continues(entry, acked) /\ AckedChain(acked) /\ IsSeq(acked)
    BY <2>1 DEF ChainInv, Types
  <2>3. acked' = Append(acked, entry) /\ prevHash' = Hash(entry) /\ nextSequence' = entry.seq + 1
    BY <1>7 DEF Synced, Complete
  <2>4. PICK b : b = Append(acked, entry) /\ AckedChain(b) /\ Len(b) = Len(acked) + 1
                 /\ Prev(b, Len(b) + 1) = Hash(entry)
    BY <2>2, ChainGrows
  <2>5. entry.seq + 1 = Len(b)
    BY <2>2, <2>4 DEF Continues
  <2> QED
    BY <2>1, <2>3, <2>4, <2>5 DEF ChainInv
<1>8. CASE Fail
  BY <1>8 DEF Fail, Chain, ChainInv
<1>9. CASE Close
  BY <1>9 DEF Close, Chain, ChainInv
<1>10. CASE Drop
  BY <1>10 DEF Drop, Chain, ChainInv
<1>11. CASE Kill
  BY <1>11 DEF Kill, Killed, Chain, ChainInv
<1>12. CASE PowerLoss
  BY <1>12 DEF PowerLoss, Killed, Chain, ChainInv
<1>13. CASE Edit
  BY <1>13 DEF Edit, vars, ChainInv
<1>14. CASE UNCHANGED mcVars
  BY <1>14 DEF mcVars, vars, ChainInv
<1> QED
  BY <1>1, <1>2, <1>3, <1>4, <1>5, <1>6, <1>7, <1>8, <1>9, <1>10, <1>11, <1>12, <1>13, <1>14
     DEF MCNext, Next

-----------------------------------------------------------------------------
(* How a longer or a shorter file keeps what is said of it.                *)

LEMMA SameReading ==
    ASSUME NEW f, NEW g, NEW m \in Nat, Extends(f, g), m <= Len(g)
    PROVE  Reading(f)[m] = Reading(g)[m]
<1>1. PICK k \in Nat : k = Len(g)
  BY DEF Extends
<1>2. Len(f) \in Nat /\ Len(g) \in Nat /\ k <= Len(f) /\ k <= Len(g) /\ \A i \in 1..k : f[i] = g[i]
  BY <1>1 DEF Extends
<1>3. \A n \in 0..k : Reading(f)[n] = Reading(g)[n]
  BY <1>2, ReadAgree
<1> QED
  BY <1>1, <1>3

\* Cut off after byte m.
LEMMA CutFile ==
    ASSUME NEW f, NEW g, NEW m \in Nat, NEW a, NEW e, Extends(f, g), m <= Len(g)
    PROVE  /\ (Base(f, m, a) => Base(g, m, a))
           /\ (Partial(f, m, a, e) => Partial(g, m, a, e))
<1>1. Reading(f)[m] = Reading(g)[m]
  BY SameReading
<1>2. PICK k \in Nat, l \in Nat : k = Len(g) /\ l = Len(f) /\ k <= l /\ \A i \in 1..k : f[i] = g[i]
  BY DEF Extends
<1>3. Sound(f, m, a) => Sound(g, m, a)
  BY <1>1 DEF Sound
<1>4. ASSUME Base(f, m, a) PROVE Base(g, m, a)
  <2>1. ASSUME NEW i \in (m + 1)..k PROVE Young(g[i], Len(a))
    <3>1. i \in (m + 1)..l /\ i \in 1..k
      BY <1>2
    <3> QED
      BY <1>2, <1>4, <3>1 DEF Base, YoungFrom
  <2> QED
    BY <1>1, <1>2, <1>3, <1>4, <2>1 DEF Base, YoungFrom
<1>5. ASSUME Partial(f, m, a, e) PROVE Partial(g, m, a, e)
  <2>1. l <= m + 3
    BY <1>2, <1>5 DEF Partial
  <2>2. ASSUME NEW i \in 1..3, m + i <= k PROVE g[m + i] = Bytes(e)[i]
    <3>1. m + i <= l /\ m + i \in 1..k
      BY <1>2, <2>2
    <3> QED
      BY <1>2, <1>5, <3>1 DEF Partial
  <2> QED
    BY <1>2, <1>3, <1>5, <2>1, <2>2 DEF Partial
<1> QED
  BY <1>4, <1>5

\* The next line is sent to the file.
LEMMA SendLine ==
    ASSUME NEW f, IsSeq(f), NEW m \in Nat, m <= Len(f), NEW a, NEW e, e.seq = Len(a), Base(f, m, a)
    PROVE  LET g == f \o Bytes(e) IN
           /\ Base(g, m, a) /\ Ending(g, m, e) /\ Len(g) = Len(f) + 3
           /\ (Sound(f, m, a) /\ Len(f) = m /\ Continues(e, a) => Partial(g, m, a, e))
<1>1. PICK b : b = Bytes(e) /\ IsSeq(b) /\ Len(b) = 3 /\ b[1] = HeadOf(e) /\ b[2] = TailOf(e)
               /\ b[3] = NewLine
  BY BytesSeq
<1>2. PICK g : g = f \o b
  OBVIOUS
<1>3. PICK n \in Nat : n = Len(f) /\ Len(g) = n + 3 /\ (\A i \in 1..n : g[i] = f[i])
                       /\ (\A i \in 1..3 : g[n + i] = b[i])
  <2>1. IsSeq(b)
    BY <1>1
  <2>2. /\ Len(f) \in Nat /\ Len(f \o b) = Len(f) + Len(b)
        /\ \A i \in 1..Len(f) : (f \o b)[i] = f[i]
        /\ \A i \in 1..Len(b) : (f \o b)[Len(f) + i] = b[i]
    BY <2>1, SeqConcat
  <2> QED
    BY <1>1, <1>2, <2>2
<1>4. Extends(g, f)
  BY <1>3 DEF Extends
<1>5. Reading(g)[m] = Reading(f)[m]
  BY <1>4, SameReading
<1>6. g[n + 1] = HeadOf(e) /\ g[n + 2] = TailOf(e) /\ g[n + 3] = NewLine
  <2>1. 1 \in 1..3 /\ 2 \in 1..3 /\ 3 \in 1..3
    OBVIOUS
  <2> QED
    BY <1>1, <1>3, <2>1
<1>7. Base(g, m, a)
  <2>1. ASSUME NEW i \in (m + 1)..(n + 3) PROVE Young(g[i], Len(a))
    <3>1. CASE i <= n
      <4>1. i \in 1..n /\ i \in (m + 1)..n
        BY <3>1
      <4> QED
        BY <1>3, <4>1 DEF Base, YoungFrom
    <3>2. CASE i = n + 1
      BY <1>6, <3>2, ByteKinds DEF Young
    <3>3. CASE i = n + 2
      BY <1>6, <3>3, ByteKinds DEF Young
    <3>4. CASE i = n + 3
      BY <1>6, <3>4 DEF Young
    <3>5. i <= n \/ i = n + 1 \/ i = n + 2 \/ i = n + 3
      OBVIOUS
    <3> QED
      BY <3>1, <3>2, <3>3, <3>4, <3>5
  <2> QED
    BY <1>3, <1>5, <2>1 DEF Base, YoungFrom, Sound
<1>8. Ending(g, m, e)
  <2>1. Len(g) - 2 = n + 1 /\ Len(g) - 1 = n + 2 /\ Len(g) >= m + 3
    BY <1>3
  <2> QED
    BY <1>3, <1>6, <2>1 DEF Ending
<1>9. ASSUME Sound(f, m, a), Len(f) = m, Continues(e, a) PROVE Partial(g, m, a, e)
  <2>1. \A i \in 1..3 : g[m + i] = Bytes(e)[i]
    BY <1>1, <1>3, <1>9
  <2>2. Len(g) <= m + 3
    BY <1>3, <1>9
  <2> QED
    BY <1>5, <1>9, <2>1, <2>2 DEF Partial, Sound
<1> QED
  BY <1>1, <1>2, <1>3, <1>7, <1>8, <1>9

\* A byte moves from what is pending to the file.
FirstAndRest(p, b, q) == Len(p) = Len(q) + 1 /\ p[1] = b /\ \A i \in 1..Len(q) : q[i] = p[i + 1]

LEMMA MoveByte ==
    ASSUME NEW d, IsSeq(d), NEW p, IsSeq(p), NEW q, IsSeq(q), NEW b, FirstAndRest(p, b, q)
    PROVE  Append(d, b) \o q = d \o p
<1>0. Len(p) = Len(q) + 1 /\ p[1] = b /\ \A i \in 1..Len(q) : q[i] = p[i + 1]
  BY DEF FirstAndRest
<1>1. PICK c : c = Append(d, b) /\ IsSeq(c)
  BY SeqAppend
<1>2. PICK n \in Nat, k \in Nat : n = Len(d) /\ k = Len(q) /\ Len(p) = k + 1
  BY <1>0, SeqBasic
<1>3. Len(c) = n + 1 /\ c[n + 1] = b /\ \A i \in 1..n : c[i] = d[i]
  BY <1>1, <1>2, SeqAppend
<1>4. PICK x : x = c \o q
  OBVIOUS
<1>5. IsSeq(x) /\ Len(x) = Len(c) + Len(q) /\ (\A i \in 1..Len(c) : x[i] = c[i])
      /\ (\A i \in 1..Len(q) : x[Len(c) + i] = q[i])
  BY <1>1, <1>4, SeqConcat
<1>6. PICK y : y = d \o p
  OBVIOUS
<1>7. IsSeq(y) /\ Len(y) = Len(d) + Len(p) /\ (\A i \in 1..Len(d) : y[i] = d[i])
      /\ (\A i \in 1..Len(p) : y[Len(d) + i] = p[i])
  BY <1>6, SeqConcat
<1>8. Len(x) = n + 1 + k /\ Len(y) = n + 1 + k
  BY <1>2, <1>3, <1>5, <1>7
<1>9. ASSUME NEW i \in 1..(n + 1 + k) PROVE x[i] = y[i]
  <2>1. CASE i <= n
    <3>1. i \in 1..n /\ i \in 1..(n + 1)
      BY <2>1
    <3> QED
      BY <1>2, <1>3, <1>5, <1>7, <3>1
  <2>2. CASE i = n + 1
    <3>1. i \in 1..(n + 1) /\ 1 \in 1..(k + 1)
      BY <2>2
    <3>2. x[i] = b
      BY <1>3, <1>5, <2>2, <3>1
    <3>3. y[n + 1] = p[1]
      BY <1>2, <1>7, <3>1
    <3> QED
      BY <1>0, <2>2, <3>2, <3>3
  <2>3. CASE i > n + 1
    <3>1. PICK j \in 1..k : i = n + 1 + j
      <4>1. i - (n + 1) \in 1..k /\ i = n + 1 + (i - (n + 1))
        BY <2>3
      <4> QED
        BY <4>1
    <3>2. x[n + 1 + j] = q[j]
      BY <1>2, <1>3, <1>5, <3>1
    <3>3. j + 1 \in 1..(k + 1) /\ n + (j + 1) = n + 1 + j
      BY <3>1
    <3>4. y[n + (j + 1)] = p[j + 1]
      BY <1>2, <1>7, <3>3
    <3>5. q[j] = p[j + 1]
      BY <1>0, <1>2, <3>1
    <3> QED
      BY <3>1, <3>2, <3>3, <3>4, <3>5
  <2> QED
    BY <2>1, <2>2, <2>3
<1>10. x = y
  BY <1>5, <1>7, <1>8, <1>9, SameSeq
<1> QED
  BY <1>1, <1>4, <1>6, <1>10

LEMMA ConcatEmpty ==
    ASSUME NEW d, IsSeq(d)
    PROVE  d \o <<>> = d
<1>1. PICK x : x = d \o <<>>
  OBVIOUS
<1>2. IsSeq(x) /\ Len(x) = Len(d) + Len(<<>>) /\ Len(d) \in Nat /\ (\A i \in 1..Len(d) : x[i] = d[i])
  BY <1>1, EmptyIsSeq, SeqConcat
<1>3. Len(x) = Len(d)
  BY <1>2, EmptyIsSeq
<1>4. \A i \in 1..Len(x) : x[i] = d[i]
  BY <1>2, <1>3
<1>5. x = d
  BY <1>2, <1>3, <1>4, SameSeq
<1> QED
  BY <1>1, <1>5

LEMMA PendingSeq ==
    ASSUME Types
    PROVE  /\ IsSeq(Pending) /\ IsSeq(Stream) /\ Extends(Stream, disk)
           /\ Len(disk) \in Nat /\ Len(Stream) \in Nat
<1>1. PICK p : p = Append(rest, NewLine) /\ IsSeq(p)
  BY SeqAppend DEF Types
<1>2. IsSeq(Pending)
  BY <1>1 DEF Pending, Types
<1>3. PICK q : q = Pending /\ IsSeq(q)
  BY <1>2
<1>4. IsSeq(disk \o q) /\ Len(disk) \in Nat /\ Len(q) \in Nat /\ Len(disk \o q) = Len(disk) + Len(q)
      /\ \A i \in 1..Len(disk) : (disk \o q)[i] = disk[i]
  BY <1>3, SeqConcat DEF Types
<1>5. PICK s : s = Stream /\ s = disk \o q
  BY <1>3 DEF Stream
<1>6. IsSeq(s) /\ Len(s) \in Nat /\ Len(disk) <= Len(s) /\ \A i \in 1..Len(disk) : s[i] = disk[i]
  BY <1>4, <1>5
<1> QED
  BY <1>2, <1>4, <1>5, <1>6 DEF Extends

\* What each step does to the stream.
LEMMA WriteStream ==
    ASSUME Types, Control, Write
    PROVE  Stream' = Stream
<1>1. buf # <<>> /\ pc # "direct" /\ pc' = pc /\ disk' = Append(disk, Head(buf)) /\ buf' = Tail(buf)
  BY DEF Write
<1>2. IsSeq(Tail(buf)) /\ Len(buf) \in Nat /\ Len(Tail(buf)) = Len(buf) - 1 /\ Head(buf) = buf[1]
      /\ \A i \in 1..(Len(buf) - 1) : Tail(buf)[i] = buf[i + 1]
  BY <1>1, SeqTail DEF Types
<1>3. PICK q, b : q = Tail(buf) /\ b = Head(buf)
  OBVIOUS
<1>4. IsSeq(q) /\ Len(buf) = Len(q) + 1 /\ buf[1] = b /\ \A i \in 1..Len(q) : q[i] = buf[i + 1]
  BY <1>2, <1>3
<1>5. Append(disk, b) \o q = disk \o buf
  <2>1. IsSeq(disk) /\ IsSeq(buf)
    BY DEF Types
  <2>2. QED
    <3>1. FirstAndRest(buf, b, q) /\ IsSeq(q)
      BY <1>4 DEF FirstAndRest
    <3> QED
      BY <2>1, <3>1, MoveByte, SMT
<1> QED
  BY <1>1, <1>3, <1>5 DEF Stream, Pending

LEMMA DirectStream ==
    ASSUME Types, Control, WriteDirect
    PROVE  Stream' = Stream
<1>1. rest # <<>> /\ pc = "direct" /\ disk' = Append(disk, Head(rest)) /\ rest' = Tail(rest)
  BY DEF WriteDirect
<1>2. IsSeq(Tail(rest)) /\ Len(rest) \in Nat /\ Len(Tail(rest)) = Len(rest) - 1 /\ Head(rest) = rest[1]
      /\ Len(rest) > 0
      /\ \A i \in 1..(Len(rest) - 1) : Tail(rest)[i] = rest[i + 1] /\ i + 1 \in 1..Len(rest)
  BY <1>1, SeqTail DEF Types
<1>3. PICK t, b : t = Tail(rest) /\ b = Head(rest)
  OBVIOUS
<1>4. PICK n \in Nat : n = Len(t) /\ Len(rest) = n + 1 /\ IsSeq(t) /\ rest[1] = b
                       /\ \A i \in 1..n : t[i] = rest[i + 1]
  BY <1>2, <1>3, SeqBasic
<1>5. PICK nl : nl = NewLine
  OBVIOUS
<1>6. PICK q : q = Append(t, nl) /\ IsSeq(q) /\ Len(q) = n + 1 /\ q[n + 1] = nl
               /\ \A i \in 1..n : q[i] = t[i]
  <2>1. IsSeq(t)
    BY <1>4
  <2>2. IsSeq(Append(t, nl)) /\ Len(Append(t, nl)) = Len(t) + 1 /\ Append(t, nl)[Len(t) + 1] = nl
        /\ \A i \in 1..Len(t) : Append(t, nl)[i] = t[i]
    BY <2>1, SeqAppend
  <2> QED
    BY <1>4, <2>2
<1>7. PICK p : p = Append(rest, nl) /\ IsSeq(p) /\ Len(p) = n + 1 + 1 /\ p[n + 1 + 1] = nl
               /\ \A i \in 1..(n + 1) : p[i] = rest[i]
  <2>1. IsSeq(rest)
    BY DEF Types
  <2>2. IsSeq(Append(rest, nl)) /\ Len(Append(rest, nl)) = Len(rest) + 1
        /\ Append(rest, nl)[Len(rest) + 1] = nl
        /\ \A i \in 1..Len(rest) : Append(rest, nl)[i] = rest[i]
    BY <2>1, SeqAppend
  <2> QED
    BY <1>4, <2>2
<1>8. Len(p) = Len(q) + 1 /\ p[1] = b
  <2>1. 1 \in 1..(n + 1)
    OBVIOUS
  <2> QED
    BY <1>4, <1>6, <1>7, <2>1
<1>9. ASSUME NEW i \in 1..Len(q) PROVE q[i] = p[i + 1]
  <2>1. CASE i = n + 1
    BY <1>6, <1>7, <2>1
  <2>2. CASE i # n + 1
    <3>1. i \in 1..n /\ i + 1 \in 1..(n + 1)
      BY <1>6, <2>2
    <3> QED
      BY <1>4, <1>6, <1>7, <3>1
  <2> QED
    BY <2>1, <2>2
<1>10. Append(disk, b) \o q = disk \o p
  <2>1. IsSeq(disk) /\ IsSeq(p) /\ IsSeq(q)
    BY <1>6, <1>7 DEF Types
  <2>2. QED
    <3>1. FirstAndRest(p, b, q)
      BY <1>8, <1>9 DEF FirstAndRest
    <3> QED
      BY <2>1, <3>1, MoveByte, SMT
<1>11. Pending = p
  BY <1>1, <1>5, <1>7 DEF Pending
<1>12. Pending' = q
  <2>1. CASE rest' = <<>>
    <3>1. pc' = "flush" /\ buf' = <<NewLine>>
      BY <2>1 DEF WriteDirect
    <3>2. Append(<<>>, nl) = <<nl>>
      OBVIOUS
    <3> QED
      BY <1>1, <1>3, <1>5, <1>6, <2>1, <3>1, <3>2 DEF Pending
  <2>2. CASE rest' # <<>>
    <3>1. pc' = "direct"
      BY <1>1, <2>2 DEF WriteDirect
    <3> QED
      BY <1>1, <1>3, <1>5, <1>6, <3>1 DEF Pending
  <2> QED
    BY <2>1, <2>2
<1> QED
  BY <1>1, <1>3, <1>10, <1>11, <1>12 DEF Stream

\* Begin of a line that fits, and Drained: the stream gets the entry's line.
LEMMA SendStream ==
    ASSUME Types, Control, (Begin /\ pc' # "drain") \/ Drained
    PROVE  Stream' = Stream \o Bytes(entry')
<1>2. CASE Begin /\ buf' = buf \o Bytes(Built) /\ pc' = "flush"
  <2>1. PICK z : z = Bytes(Built) /\ IsSeq(z)
    BY BytesSeq
  <2>2. pc = "idle" /\ entry' = Built /\ disk' = disk
    BY <1>2 DEF Begin
  <2>3. Stream' = disk \o (buf \o z) /\ Stream = disk \o buf
    BY <1>2, <2>1, <2>2 DEF Stream, Pending
  <2>4. disk \o (buf \o z) = (disk \o buf) \o z
    <3>1. IsSeq(disk) /\ IsSeq(buf) /\ IsSeq(z)
      BY <2>1 DEF Types
    <3>2. PICK B : disk \in Seq(B) /\ buf \in Seq(B)
      BY <3>1, CommonSet
    <3>3. PICK C : z \in Seq(C)
      BY <3>1 DEF IsSeq
    <3>4. disk \in Seq(B \cup C) /\ buf \in Seq(B \cup C) /\ z \in Seq(B \cup C)
      BY <3>2, <3>3
    <3> QED
      BY <3>4
  <2> QED
    BY <2>1, <2>2, <2>3, <2>4
<1>3. CASE Drained
  <2>1. pc = "drain" /\ buf = <<>> /\ disk' = disk /\ entry' = entry
    BY <1>3 DEF Drained
  <2>2. Pending' = Bytes(entry)
    BY <1>3 DEF Drained, Pending, Bytes
  <2>3. Stream = disk
    <3>1. Stream = disk \o <<>>
      BY <2>1 DEF Stream, Pending
    <3>2. IsSeq(disk)
      BY DEF Types
    <3> QED
      BY <3>1, <3>2, ConcatEmpty
  <2> QED
    BY <2>1, <2>2, <2>3 DEF Stream
<1> QED
  BY <1>2, <1>3 DEF Begin

\* What survives of the stream when the call fails or the process ends.
LEMMA CutStream ==
    ASSUME Types, Control, Fail \/ Drop \/ Kill \/ PowerLoss
    PROVE  Extends(Stream, Stream') /\ durable <= Len(Stream')
<1>0. IsSeq(disk) /\ IsSeq(buf) /\ Len(disk) \in Nat /\ Len(buf) \in Nat /\ durable \in Nat
      /\ durable <= Len(disk)
  BY SeqBasic DEF Types
<1>1. Extends(Stream, disk)
  BY PendingSeq
<1>2. Len(Stream) \in Nat
  BY PendingSeq
<1>3. CASE Fail /\ pc # "direct"
  <2>1. Stream' = Stream
    BY <1>3 DEF Fail, Stream, Pending
  <2> QED
    BY <1>0, <1>1, <1>2, <2>1 DEF Extends
<1>4. CASE (Fail /\ pc = "direct") \/ Kill
  <2>1. disk' = disk /\ pc' # "direct" /\ buf' = <<>>
    BY <1>4 DEF Fail, Kill, Killed, Control
  <2>2. Stream' = disk \o <<>>
    BY <2>1 DEF Stream, Pending
  <2>3. Stream' = disk
    BY <1>0, <2>2, ConcatEmpty
  <2> QED
    BY <1>0, <1>1, <2>3
<1>5. CASE Drop
  <2>1. PICK n \in 0..Len(buf) : disk' = disk \o SubSeq(buf, 1, n)
    BY <1>5 DEF Drop
  <2>2. pc = "idle" /\ pc' = "idle" /\ buf' = <<>>
    BY <1>5 DEF Drop
  <2>3. PICK z : z = SubSeq(buf, 1, n) /\ IsSeq(z) /\ Len(z) = n /\ \A i \in 1..n : z[i] = buf[i]
    BY <1>0, SeqPrefix
  <2>4. PICK y : y = disk \o z
    OBVIOUS
  <2>5. IsSeq(y) /\ Len(y) = Len(disk) + Len(z) /\ (\A i \in 1..Len(disk) : y[i] = disk[i])
        /\ (\A i \in 1..Len(z) : y[Len(disk) + i] = z[i])
    BY <1>0, <2>3, <2>4, SeqConcat
  <2>6. PICK x : x = disk \o buf
    OBVIOUS
  <2>7. IsSeq(x) /\ Len(x) = Len(disk) + Len(buf) /\ (\A i \in 1..Len(disk) : x[i] = disk[i])
        /\ (\A i \in 1..Len(buf) : x[Len(disk) + i] = buf[i])
    BY <1>0, <2>6, SeqConcat
  <2>8. Stream = x
    BY <2>2, <2>6 DEF Stream, Pending
  <2>9. Stream' = y
    <3>1. Stream' = y \o <<>>
      BY <2>1, <2>2, <2>3, <2>4 DEF Stream, Pending
    <3> QED
      BY <2>5, <3>1, ConcatEmpty
  <2>10. PICK d \in Nat, k \in Nat : d = Len(disk) /\ k = Len(buf)
    BY <1>0
  <2>11. ASSUME NEW i \in 1..(d + n) PROVE x[i] = y[i]
    <3>1. CASE i <= d
      BY <2>5, <2>7, <2>10, <3>1
    <3>2. CASE i > d
      <4>1. PICK j \in 1..n : i = d + j
        <5>1. i - d \in 1..n /\ i = d + (i - d)
          BY <3>2
        <5> QED
          BY <5>1
      <4>2. j \in 1..k
        BY <2>10, <4>1
      <4> QED
        BY <2>3, <2>5, <2>7, <2>10, <4>1, <4>2
    <3> QED
      BY <3>1, <3>2
  <2>12. Extends(x, y)
    BY <2>3, <2>5, <2>7, <2>10, <2>11 DEF Extends
  <2>13. durable <= Len(y)
    BY <1>0, <2>3, <2>5
  <2> QED
    BY <2>8, <2>9, <2>12, <2>13
<1>6. CASE PowerLoss
  <2>1. PICK n \in durable..Len(disk) : disk' = SubSeq(disk, 1, n)
    BY <1>6 DEF PowerLoss
  <2>2. n \in 0..Len(disk)
    BY <1>0, <2>1
  <2>3. PICK z : z = SubSeq(disk, 1, n) /\ IsSeq(z) /\ Len(z) = n /\ \A i \in 1..n : z[i] = disk[i]
    BY <1>0, <2>2, SeqPrefix
  <2>4. Stream' = z \o <<>>
    BY <1>6, <2>1, <2>3 DEF PowerLoss, Killed, Stream, Pending
  <2>5. Stream' = z
    BY <2>3, <2>4, ConcatEmpty
  <2>6. Extends(disk, z)
    BY <1>0, <2>2, <2>3 DEF Extends
  <2>7. Extends(Stream, z)
    BY <1>1, <2>6, ExtendsOn
  <2>8. durable <= Len(z)
    BY <1>0, <2>1, <2>3
  <2> QED
    BY <2>5, <2>7, <2>8
<1> QED
  BY <1>3, <1>4, <1>5, <1>6

\* What the invariant says at byte m, its parts named.
FailFree(m) ==
    /\ Partial(Stream, m, acked, entry)
    /\ (Busy => Len(Stream) = m + 3)
    /\ (~Busy /\ writer # "gone" => Len(Stream) = m)

Untouched(m) == failures = 0 /\ writer \in {"closed", "gone"} /\ Len(Stream) = m

LEMMA AnchorParts ==
    ASSUME NEW m
    PROVE  /\ Anchor(m) <=> /\ Base(Stream, m, acked)
                            /\ (Busy => Ending(Stream, m, entry))
                            /\ (failures = 0 => FailFree(m))
                            /\ (copy # <<>> => Untouched(m))
           /\ Anchor(m)' <=> /\ Base(Stream', m, acked')
                             /\ (Busy' => Ending(Stream', m, entry'))
                             /\ (failures' = 0 => FailFree(m)')
                             /\ (copy' # <<>> => Untouched(m)')
BY DEF Anchor, FailFree, Untouched

\* A step that leaves the stream alone.
LEMMA AnchorKept ==
    ASSUME Types, Control, ChainInv, NEW m \in Nat, Anchor(m),
           (Begin /\ Stream' = Stream /\ pc' = "drain") \/ Write \/ WriteDirect \/ Flushed \/ Close, copy' = copy
    PROVE  Anchor(m)'
<1>1. Stream' = Stream
  <2>1. CASE Flushed \/ Close
    <3>1. pc # "direct" /\ pc' # "direct" /\ disk' = disk /\ buf' = buf
      BY <2>1 DEF Flushed, Close
    <3> QED
      BY <3>1 DEF Stream, Pending
  <2> QED
    BY <2>1, WriteStream, DirectStream
<1>2. acked' = acked /\ failures' = failures /\ writer # "gone" /\ writer # "closed"
  BY DEF Begin, Write, WriteDirect, Flushed, Close, Control
<1>3. copy' = <<>>
  BY <1>2 DEF Anchor
<1>4. CASE Write \/ WriteDirect \/ Flushed
  <2>1. writer' = writer /\ entry' = entry /\ (Busy <=> Busy')
    BY <1>4 DEF Write, WriteDirect, Flushed, Busy
  <2> QED
    BY <1>1, <1>2, <1>3, <2>1 DEF Anchor
<1>5. CASE Begin /\ pc' = "drain"
  <2>1. ~Busy /\ ~Busy'
    BY <1>5 DEF Begin, Busy
  <2>2. ASSUME failures = 0 PROVE FailFree(m)'
    <3>1. Len(Stream) = m /\ Sound(Stream, m, acked)
      BY <1>2, <2>1, <2>2 DEF Anchor, Partial
    <3>2. Partial(Stream, m, acked, entry')
      BY <3>1 DEF Partial
    <3> QED
      BY <1>1, <1>2, <2>1, <3>1, <3>2 DEF FailFree
  <2> QED
    BY <1>1, <1>2, <1>3, <2>1, <2>2, AnchorParts
<1>6. CASE Close
  <2>1. ~Busy /\ ~Busy' /\ entry' = entry /\ writer = "open"
    BY <1>6 DEF Close, Busy
  <2> QED
    BY <1>1, <1>2, <1>3, <2>1 DEF Anchor
<1> QED
  BY <1>4, <1>5, <1>6

\* The line is sent to the file.
LEMMA AnchorSent ==
    ASSUME Types, Control, ChainInv, NEW m \in Nat, m <= durable, Anchor(m),
           (Begin /\ pc' # "drain") \/ Drained, Stream' = Stream \o Bytes(entry'), copy' = copy
    PROVE  Anchor(m)'
<1>1. acked' = acked /\ failures' = failures /\ writer = "open" /\ writer' = "open"
  BY DEF Begin, Drained, Control
<1>2. copy' = <<>>
  BY <1>1 DEF Anchor
<1>3. ~Busy /\ Busy'
  BY <1>1 DEF Begin, Drained, Busy
<1>4. Continues(entry', acked)
  <2>1. CASE Begin
    <3>1. entry' = Built /\ Built.seq = nextSequence /\ Built.prev = prevHash
          /\ Built.version = "v1" /\ Built.session = "s"
      BY <2>1 DEF Begin, Built, NoEntry
    <3> QED
      BY <3>1 DEF ChainInv, Continues
  <2>2. CASE Drained
    BY <1>1, <2>2 DEF Drained, ChainInv
  <2> QED
    BY <2>1, <2>2
<1>5. PICK f, e, a : f = Stream /\ e = entry' /\ a = acked
  OBVIOUS
<1>6. IsSeq(f) /\ m <= Len(f) /\ e.seq = Len(a) /\ Base(f, m, a) /\ Continues(e, a)
  <2>1. IsSeq(Stream) /\ m <= Len(Stream)
    BY PendingSeq DEF Types, Extends
  <2> QED
    BY <1>4, <1>5, <2>1 DEF Anchor, Continues
<1>7. PICK g : g = f \o Bytes(e)
  OBVIOUS
<1>8. Base(g, m, a) /\ Ending(g, m, e) /\ Len(g) = Len(f) + 3
      /\ (Sound(f, m, a) /\ Len(f) = m /\ Continues(e, a) => Partial(g, m, a, e))
  BY <1>6, <1>7, SendLine
<1>9. Stream' = g
  BY <1>5, <1>7
<1>10. ASSUME failures = 0 PROVE FailFree(m)'
  <2>1. Len(f) = m /\ Sound(f, m, a)
    BY <1>1, <1>3, <1>5, <1>10 DEF Anchor, Partial
  <2>2. Partial(g, m, a, e) /\ Len(g) = m + 3
    BY <1>6, <1>8, <2>1
  <2> QED
    BY <1>1, <1>3, <1>5, <1>9, <2>2 DEF FailFree
<1> QED
  BY <1>1, <1>2, <1>3, <1>5, <1>8, <1>9, <1>10, AnchorParts

\* The call fails or the process ends.
LEMMA AnchorCut ==
    ASSUME Types, Control, NEW m \in Nat, m <= durable, Anchor(m),
           Fail \/ Drop \/ Kill \/ PowerLoss, copy' = copy
    PROVE  Anchor(m)'
<1>1. Extends(Stream, Stream') /\ durable <= Len(Stream')
  BY CutStream
<1>2. m <= Len(Stream') /\ Len(Stream') \in Nat /\ Len(Stream) \in Nat /\ Len(Stream') <= Len(Stream)
  BY <1>1 DEF Extends, Types
<1>3. acked' = acked /\ entry' = entry /\ ~Busy'
  BY DEF Fail, Drop, Kill, Killed, PowerLoss, Busy
<1>4. PICK g : g = Stream'
  OBVIOUS
<1>5. Base(g, m, acked) /\ (Partial(Stream, m, acked, entry) => Partial(g, m, acked, entry))
  <2>1. Extends(Stream, g) /\ m <= Len(g) /\ Base(Stream, m, acked)
    BY <1>1, <1>2, <1>4 DEF Anchor
  <2> QED
    BY <2>1, CutFile
<1>6. ASSUME failures' = 0 PROVE FailFree(m)'
  <2>1. failures = 0 /\ writer' = "gone"
    BY <1>6 DEF Fail, Drop, Kill, Killed, PowerLoss, Types
  <2>2. Partial(g, m, acked, entry)
    BY <1>5, <2>1 DEF Anchor
  <2> QED
    BY <1>3, <1>4, <2>1, <2>2 DEF FailFree
<1>7. ASSUME copy' # <<>> PROVE Untouched(m)'
  <2>1. failures = 0 /\ writer \in {"closed", "gone"} /\ Len(Stream) = m
    BY <1>7 DEF Anchor
  <2>2. pc = "idle"
    BY <2>1 DEF Control
  <2>3. PowerLoss
    BY <2>1, <2>2 DEF Fail, Drop, Kill
  <2>4. failures' = failures /\ writer' = "gone"
    BY <2>3 DEF PowerLoss, Killed
  <2>5. Len(Stream') = m
    BY <1>2, <2>1
  <2> QED
    BY <2>1, <2>4, <2>5 DEF Untouched
<1> QED
  BY <1>3, <1>4, <1>5, <1>6, <1>7, AnchorParts

\* What is read of a file that ends within the line of e, or with it.
LEMMA PartialRead ==
    ASSUME NEW f, Len(f) \in Nat, NEW m \in Nat, m <= Len(f), NEW a, IsSeq(a), NEW e, Partial(f, m, a, e)
    PROVE  /\ (Len(f) = m => Lines(f) = a)
           /\ (Len(f) = m + 1 => Lines(f) = Append(a, Unparseable))
           /\ (Len(f) = m + 2 => Lines(f) = Append(a, e))
           /\ (Len(f) = m + 3 => Lines(f) = Append(a, e) /\ Sound(f, Len(f), Append(a, e)))
<1>1. PICK r : r = Reading(f)[m] /\ r.lines = a /\ r.part = <<>>
  BY DEF Partial, Sound
<1>2. PICK h : h = Half(r, e) /\ h = Append(<<>>, HeadOf(e)) /\ IsSeq(h) /\ Len(h) = 1
  <2>1. IsSeq(Append(<<>>, HeadOf(e))) /\ Len(Append(<<>>, HeadOf(e))) = Len(<<>>) + 1
    BY EmptyIsSeq, SeqAppend
  <2>2. Half(r, e) = Append(<<>>, HeadOf(e))
    BY <1>1 DEF Half
  <2>3. Len(<<>>) + 1 = 1
    BY EmptyIsSeq
  <2> QED
    BY <2>1, <2>2, <2>3
<1>3. PICK p : p = Both(r, e) /\ p = Append(h, TailOf(e)) /\ IsSeq(p) /\ Len(p) = 2 /\ Parse(p) = e
  <2>1. IsSeq(h)
    BY <1>2
  <2>2. IsSeq(Append(h, TailOf(e))) /\ Len(Append(h, TailOf(e))) = Len(h) + 1
    BY <2>1, SeqAppend
  <2>3. Both(r, e) = Append(h, TailOf(e))
    BY <1>2 DEF Both
  <2>4. Parse(Append(h, TailOf(e))) = e
    BY <1>2, ParseHalves
  <2>5. PICK p : p = Append(h, TailOf(e))
    OBVIOUS
  <2>6. IsSeq(p) /\ Len(p) = 1 + 1 /\ p = Both(r, e) /\ Parse(p) = e
    BY <1>2, <2>2, <2>3, <2>4, <2>5
  <2>7. Len(p) = 2
    BY <2>6
  <2> QED
    BY <2>5, <2>6, <2>7, Zenon
<1>4. h # <<>> /\ p # <<>>
  BY <1>2, <1>3, EmptyIsSeq
<1>5. Parse(h) = Unparseable
  BY <1>2, ParseOther
<1>6. 1 \in 1..3 /\ 2 \in 1..3 /\ 3 \in 1..3
  OBVIOUS
<1>7. (m + 1 <= Len(f) => f[m + 1] = HeadOf(e)) /\ (m + 2 <= Len(f) => f[m + 2] = TailOf(e))
      /\ (m + 3 <= Len(f) => f[m + 3] = NewLine)
  BY <1>6, BytesSeq DEF Partial
<1>8. CASE Len(f) = m
  BY <1>1, <1>8 DEF Lines
<1>9. CASE Len(f) = m + 1
  <2>1. m + 1 <= Len(f) /\ f[m + 1] = HeadOf(e)
    BY <1>7, <1>9
  <2>2. Reading(f)[m + 1] = [lines |-> r.lines, part |-> Half(r, e)]
    BY <1>1, <2>1, ReadHead
  <2>3. PICK q : q = Reading(f)[Len(f)] /\ q.lines = a /\ q.part = h
    BY <1>1, <1>2, <1>9, <2>2
  <2>4. Lines(f) = Append(a, Parse(h))
    BY <1>4, <2>3 DEF Lines
  <2> QED
    BY <1>5, <1>9, <2>4
<1>10. CASE Len(f) = m + 2
  <2>1. m + 2 <= Len(f) /\ m + 1 <= Len(f) /\ f[m + 1] = HeadOf(e) /\ f[m + 2] = TailOf(e)
    BY <1>7, <1>10
  <2>2. Reading(f)[m + 2] = [lines |-> r.lines, part |-> Both(r, e)]
    BY <1>1, <2>1, ReadBoth
  <2>3. PICK q : q = Reading(f)[Len(f)] /\ q.lines = a /\ q.part = p
    BY <1>1, <1>3, <1>10, <2>2
  <2>4. Lines(f) = Append(a, Parse(p))
    BY <1>4, <2>3 DEF Lines
  <2> QED
    BY <1>3, <1>10, <2>4
<1>11. CASE Len(f) = m + 3
  <2>1. m + 3 <= Len(f) /\ m + 2 <= Len(f) /\ m + 1 <= Len(f)
        /\ f[m + 1] = HeadOf(e) /\ f[m + 2] = TailOf(e) /\ f[m + 3] = NewLine
    BY <1>7, <1>11
  <2>2. Reading(f)[m + 3] = [lines |-> Append(r.lines, Parse(Both(r, e))), part |-> <<>>]
    BY <1>1, <2>1, ReadLine
  <2>3. PICK q : q = Reading(f)[Len(f)] /\ q.lines = Append(a, e) /\ q.part = <<>>
    BY <1>1, <1>3, <1>11, <2>2
  <2>4. Lines(f) = Append(a, e) /\ Sound(f, Len(f), Append(a, e))
    BY <2>3 DEF Lines, Sound
  <2> QED
    BY <1>11, <2>4
<1> QED
  BY <1>8, <1>9, <1>10, <1>11

\* A file that is broken after m bytes stays broken.
LEMMA BrokenStays ==
    ASSUME NEW f, Len(f) \in Nat, NEW m \in 0..Len(f), ~WellChained(Reading(f)[m].lines)
    PROVE  ~WellChained(Lines(f)) /\ ~WellChained(Reading(f)[Len(f)].lines)
<1>1. Len(f) \in 0..Len(f) /\ Len(f) \in m..Len(f)
  OBVIOUS
<1>2. IsSeq(Reading(f)[m].lines) /\ IsSeq(Reading(f)[Len(f)].lines)
  BY <1>1, ReadShape DEF ReadSeqs
<1>3. Extends(Reading(f)[Len(f)].lines, Reading(f)[m].lines)
  BY <1>1, ReadGrows
<1>4. IsSeq(Lines(f)) /\ Extends(Lines(f), Reading(f)[m].lines)
  BY LinesSeq
<1> QED
  BY <1>2, <1>3, <1>4, ChainedPrefix

LEMMA AnchorSynced ==
    ASSUME Types, Control, ChainInv, NEW m \in Nat, m <= durable, Anchor(m), Synced, copy' = copy
    PROVE  \E n \in 0..durable' : Anchor(n)'
<1>1. pc = "sync" /\ buf = <<>> /\ pc' = "idle" /\ buf' = <<>> /\ disk' = disk /\ durable' = Len(disk)
      /\ entry' = entry /\ failures' = failures /\ writer \in {"open", "closing"}
  BY DEF Synced, Complete, Control
<1>2. IsSeq(disk) /\ Len(disk) \in Nat /\ durable \in Nat /\ durable <= Len(disk) /\ IsSeq(acked)
  BY SeqBasic DEF Types
<1>3. Stream = disk /\ Stream' = disk
  <2>1. Stream = disk \o <<>> /\ Stream' = disk \o <<>>
    BY <1>1 DEF Stream, Pending
  <2> QED
    BY <1>2, <2>1, ConcatEmpty
<1>4. copy' = <<>>
  BY <1>1 DEF Anchor
<1>5. ~Busy'
  BY <1>1 DEF Busy
<1>6. CASE writer = "closing"
  <2>1. ~Busy /\ acked' = acked /\ writer' = "closed"
    BY <1>6 DEF Synced, Complete, Busy
  <2>2. Anchor(m)'
    BY <1>1, <1>3, <1>4, <1>5, <1>6, <2>1 DEF Anchor
  <2>3. m \in 0..durable'
    BY <1>1, <1>2
  <2> QED
    BY <2>2, <2>3
<1>7. CASE writer = "open"
  <2>1. acked' = Append(acked, entry) /\ writer' = "open" /\ Busy
    BY <1>1, <1>7 DEF Synced, Complete, Busy
  <2>2. PICK a, e, b : a = acked /\ e = entry /\ b = Append(a, e)
    OBVIOUS
  <2>3. m \in 0..Len(disk) /\ Len(disk) \in 0..durable' /\ IsSeq(a)
    BY <1>1, <1>2, <2>2
  <2>4. Base(disk, m, a) /\ Ending(disk, m, e)
    BY <1>3, <2>1, <2>2 DEF Anchor
  <2>5. Sound(disk, Len(disk), b) \/ ~WellChained(Reading(disk)[Len(disk)].lines)
    <3>1. CASE Sound(disk, m, a)
      <4>1. YoungFrom(disk, m, Len(a))
        BY <2>4 DEF Base
      <4> QED
        BY <1>2, <2>2, <2>3, <2>4, <3>1, <4>1, EndingRead
    <3>2. CASE ~WellChained(Reading(disk)[m].lines)
      BY <1>2, <2>3, <3>2, BrokenStays
    <3> QED
      BY <2>4, <3>1, <3>2 DEF Base
  <2>6. Base(disk, Len(disk), b)
    <3>1. \A i \in (Len(disk) + 1)..Len(disk) : FALSE
      BY <1>2
    <3> QED
      BY <2>5, <3>1 DEF Base, YoungFrom
  <2>7. ASSUME failures = 0
        PROVE  Partial(disk, Len(disk), b, e)
    <3>1. Partial(disk, m, a, e) /\ Len(disk) = m + 3
      BY <1>3, <2>1, <2>2, <2>7 DEF Anchor
    <3>2. Sound(disk, Len(disk), Append(a, e))
      BY <1>2, <2>3, <3>1, PartialRead
    <3>3. Len(disk) <= Len(disk) + 3 /\ ~(Len(disk) > Len(disk))
          /\ \A i \in 1..3 : ~(Len(disk) + i <= Len(disk))
      BY <1>2
    <3> QED
      BY <2>2, <3>2, <3>3 DEF Partial
  <2>8. PICK n : n = Len(disk)
    OBVIOUS
  <2>9. failures' = 0 => FailFree(n)'
    BY <1>1, <1>3, <1>5, <2>1, <2>2, <2>7, <2>8 DEF FailFree
  <2>10. Anchor(n)'
    BY <1>3, <1>4, <1>5, <2>1, <2>2, <2>6, <2>8, <2>9, AnchorParts
  <2> QED
    BY <2>3, <2>8, <2>10
<1> QED
  BY <1>1, <1>6, <1>7

LEMMA AnchoredStep ==
    ASSUME Types, Control, ChainInv, Anchored, [MCNext]_mcVars
    PROVE  Anchored'
<1>1. PICK m \in 0..durable : Anchor(m)
  BY DEF Anchored
<1>2. m \in Nat /\ m <= durable /\ durable \in Nat
  BY DEF Types
<1>3. ASSUME durable' = durable, Anchor(m)' PROVE Anchored'
  BY <1>3 DEF Anchored
<1>4. CASE (Begin \/ Drained) /\ UNCHANGED <<copy, edits>>
  <2>1. durable' = durable /\ copy' = copy
    BY <1>4 DEF Begin, Drained
  <2>2. CASE Begin /\ pc' = "drain"
    <3>1. Stream' = Stream
      BY <2>2 DEF Begin, Stream, Pending
    <3>2. Anchor(m)'
      BY <1>1, <1>2, <2>1, <2>2, <3>1, AnchorKept
    <3> QED
      BY <1>3, <2>1, <3>2
  <2>3. CASE (Begin /\ pc' # "drain") \/ Drained
    <3>1. Stream' = Stream \o Bytes(entry')
      BY <2>3, SendStream
    <3>2. Anchor(m)'
      BY <1>1, <1>2, <2>1, <2>3, <3>1, AnchorSent
    <3> QED
      BY <1>3, <2>1, <3>2
  <2> QED
    BY <1>4, <2>2, <2>3
<1>5. CASE (Write \/ WriteDirect \/ Flushed \/ Close) /\ UNCHANGED <<copy, edits>>
  <2>1. durable' = durable /\ copy' = copy
    BY <1>5 DEF Write, WriteDirect, Flushed, Close
  <2>2. Anchor(m)'
    BY <1>1, <1>2, <1>5, <2>1, AnchorKept
  <2> QED
    BY <1>3, <2>1, <2>2
<1>6. CASE Synced /\ UNCHANGED <<copy, edits>>
  <2>1. \E n \in 0..durable' : Anchor(n)'
    BY <1>1, <1>2, <1>6, AnchorSynced
  <2> QED
    BY <2>1 DEF Anchored
<1>7. CASE (Fail \/ Drop \/ Kill \/ PowerLoss) /\ UNCHANGED <<copy, edits>>
  <2>1. Anchor(m)'
    BY <1>1, <1>2, <1>7, AnchorCut
  <2>2. m \in 0..durable'
    <3>1. CASE Fail \/ Drop \/ Kill
      BY <3>1 DEF Fail, Drop, Kill
    <3>2. CASE PowerLoss
      <4>1. durable' \in durable..Len(disk)
        BY <3>2 DEF PowerLoss
      <4> QED
        BY <1>2, <4>1, PendingSeq
    <3> QED
      BY <1>7, <3>1, <3>2
  <2> QED
    BY <2>1, <2>2 DEF Anchored
<1>8. CASE Edit
  <2>1. UNCHANGED vars /\ writer = "closed" /\ failures = 0
    BY <1>8 DEF Edit
  <2>2. durable' = durable /\ Stream' = Stream /\ Busy' = Busy /\ ~Busy /\ acked' = acked /\ entry' = entry
        /\ writer' = writer /\ failures' = failures
    BY <2>1 DEF vars, Stream, Pending, Busy
  <2>3. Len(Stream) = m
    BY <1>1, <2>1, <2>2 DEF Anchor
  <2>4. Anchor(m)'
    BY <1>1, <2>1, <2>2, <2>3 DEF Anchor
  <2> QED
    BY <1>3, <2>2, <2>4
<1>9. CASE UNCHANGED mcVars
  BY <1>9 DEF mcVars, vars, Anchored, Anchor, Stream, Pending, Busy
<1> QED
  BY <1>4, <1>5, <1>6, <1>7, <1>8, <1>9 DEF MCNext, Next

\* What is durable stays where it is.
LEMMA DurableKept ==
    ASSUME Types, Control, [MCNext]_mcVars
    PROVE  durable' \in Nat /\ durable <= durable' /\ \A k \in 1..durable : disk'[k] = disk[k]
<1>0. IsSeq(disk) /\ IsSeq(buf) /\ Len(disk) \in Nat /\ Len(buf) \in Nat /\ durable \in Nat
      /\ durable <= Len(disk)
  BY SeqBasic DEF Types
<1>1. CASE disk' = disk /\ durable' = durable
  BY <1>0, <1>1
<1>2. CASE Write \/ WriteDirect
  <2>1. PICK b : disk' = Append(disk, b) /\ durable' = durable
    BY <1>2 DEF Write, WriteDirect
  <2>2. \A i \in 1..Len(disk) : Append(disk, b)[i] = disk[i]
    BY <1>0, SeqAppend
  <2> QED
    BY <1>0, <2>1, <2>2
<1>3. CASE Synced
  BY <1>0, <1>3 DEF Synced
<1>4. CASE Drop
  <2>1. PICK n \in 0..Len(buf) : disk' = disk \o SubSeq(buf, 1, n)
    BY <1>4 DEF Drop
  <2>2. PICK z : z = SubSeq(buf, 1, n) /\ IsSeq(z)
    BY <1>0, SeqPrefix
  <2>3. \A i \in 1..Len(disk) : (disk \o z)[i] = disk[i]
    BY <1>0, <2>2, SeqConcat
  <2>4. durable' = durable
    BY <1>4 DEF Drop
  <2> QED
    BY <1>0, <2>1, <2>2, <2>3, <2>4
<1>5. CASE PowerLoss
  <2>1. PICK n \in durable..Len(disk) : disk' = SubSeq(disk, 1, n) /\ durable' = n
    BY <1>5 DEF PowerLoss
  <2>2. n \in 0..Len(disk)
    BY <1>0, <2>1
  <2>3. \A i \in 1..n : SubSeq(disk, 1, n)[i] = disk[i]
    BY <1>0, <2>2, SeqPrefix
  <2> QED
    BY <1>0, <2>1, <2>2, <2>3
<1>6. CASE Begin \/ Drained \/ Flushed \/ Fail \/ Close \/ Kill \/ Edit \/ UNCHANGED mcVars
  BY <1>1, <1>6 DEF Begin, Drained, Flushed, Fail, Close, Kill, Edit, mcVars, vars
<1> QED
  BY <1>2, <1>3, <1>4, <1>5, <1>6 DEF MCNext, Next

LEMMA OnDiskStep ==
    ASSUME Types, Control, Anchored, AckedOnDisk, [MCNext]_mcVars
    PROVE  AckedOnDisk'
<1>1. durable' \in Nat /\ durable <= durable' /\ (\A k \in 1..durable : disk'[k] = disk[k])
      /\ durable \in Nat
  BY DurableKept DEF Types
<1>2. ASSUME NEW e, OnDisk(e) PROVE OnDisk(e)'
  <2>1. PICK k \in 1..(durable - 1) : disk[k] = HeadOf(e) /\ disk[k + 1] = TailOf(e)
    BY <1>2 DEF OnDisk
  <2>2. k \in 1..(durable' - 1) /\ k \in 1..durable /\ k + 1 \in 1..durable
    <3>1. PICK d \in Nat, n \in Nat : d = durable /\ n = durable' /\ d <= n
      BY <1>1
    <3>2. k \in Nat /\ 1 <= k /\ k + 1 <= d
      BY <2>1, <3>1
    <3>3. k + 1 <= n
      BY <3>1, <3>2
    <3>4. k \in 1..(n - 1)
      BY <3>2, <3>3
    <3>5. k \in 1..d /\ k + 1 \in 1..d
      BY <3>2
    <3> QED
      BY <3>1, <3>4, <3>5
  <2>3. disk'[k] = HeadOf(e) /\ disk'[k + 1] = TailOf(e)
    BY <1>1, <2>1, <2>2
  <2> QED
    BY <2>2, <2>3 DEF OnDisk
<1>3. CASE acked' = acked
  BY <1>2, <1>3 DEF AckedOnDisk
<1>4. CASE Synced /\ writer # "closing"
  <2>1. pc = "sync" /\ buf = <<>> /\ writer = "open" /\ acked' = Append(acked, entry)
        /\ disk' = disk /\ durable' = Len(disk)
    BY <1>4 DEF Synced, Complete, Control
  <2>2. PICK m \in 0..durable : Anchor(m)
    BY DEF Anchored
  <2>3. IsSeq(disk) /\ IsSeq(acked) /\ Len(disk) \in Nat
    BY SeqBasic DEF Types
  <2>4. Stream = disk
    <3>1. Stream = disk \o <<>>
      BY <2>1 DEF Stream, Pending
    <3> QED
      BY <2>3, <3>1, ConcatEmpty
  <2>5. Ending(disk, m, entry)
    BY <2>1, <2>2, <2>4 DEF Anchor, Busy
  <2>6. PICK k \in Nat : k = Len(disk) - 2 /\ k \in 1..(Len(disk) - 1) /\ k + 1 = Len(disk) - 1
    <3>1. Len(disk) >= m + 3 /\ m \in Nat
      BY <2>2, <2>5 DEF Ending, Types
    <3>2. Len(disk) - 2 \in Nat /\ Len(disk) - 2 \in 1..(Len(disk) - 1) /\ Len(disk) - 2 + 1 = Len(disk) - 1
      BY <2>3, <3>1
    <3> QED
      BY <3>2
  <2>7. disk[k] = HeadOf(entry) /\ disk[k + 1] = TailOf(entry)
    BY <2>5, <2>6 DEF Ending
  <2>9. PICK b, n : b = Append(acked, entry) /\ n = Len(acked)
    OBVIOUS
  <2>10. n \in Nat /\ Len(b) = n + 1 /\ b[n + 1] = entry /\ (\A i \in 1..n : b[i] = acked[i])
    BY <2>3, <2>9, SeqAppend
  <2>11. ASSUME NEW i \in 1..(n + 1) PROVE OnDisk(b[i])'
    <3>1. CASE i = n + 1
      <4>1. b[i] = entry /\ entry' = entry
        BY <1>4, <2>10, <3>1 DEF Synced
      <4> QED
        BY <2>1, <2>6, <2>7, <4>1 DEF OnDisk
    <3>2. CASE i # n + 1
      <4>1. i \in 1..n /\ b[i] = acked[i]
        BY <2>10, <3>2
      <4>2. OnDisk(b[i])
        BY <2>9, <4>1 DEF AckedOnDisk
      <4> QED
        BY <1>2, <4>2
    <3> QED
      BY <3>1, <3>2
  <2> QED
    BY <2>1, <2>9, <2>10, <2>11 DEF AckedOnDisk
<1>5. acked' = acked \/ (Synced /\ writer # "closing")
  BY DEF MCNext, Next, Begin, Write, Drained, WriteDirect, Flushed, Synced, Complete, Fail, Close,
         Drop, Kill, PowerLoss, Edit, mcVars, vars
<1> QED
  BY <1>3, <1>4, <1>5

LEMMA InitInv ==
    ASSUME MCInit
    PROVE  LInv
<1>1. IsSeq(<<>>) /\ Len(<<>>) = 0
  BY EmptyIsSeq
<1>2. disk = <<>> /\ buf = <<>> /\ rest = <<>> /\ acked = <<>> /\ copy = <<>> /\ durable = 0
      /\ failures = 0 /\ writer = "open" /\ pc = "idle" /\ nextSequence = 0 /\ prevHash = Genesis
  BY DEF MCInit, Init
<1>3. Types
  BY <1>1, <1>2 DEF Types
<1>4. Control
  BY <1>2 DEF Control
<1>5. ChainInv
  BY <1>1, <1>2 DEF ChainInv, AckedChain, Prev
<1>6. Anchored
  <2>1. Stream = <<>>
    <3>1. Stream = <<>> \o <<>>
      BY <1>2 DEF Stream, Pending
    <3> QED
      BY <1>1, <3>1, ConcatEmpty
  <2>2. Reading(<<>>)[0] = [lines |-> <<>>, part |-> <<>>]
    BY <1>1, ReadSteps
  <2>3. Sound(<<>>, 0, <<>>)
    BY <2>2 DEF Sound
  <2>4. Base(<<>>, 0, <<>>)
    BY <1>1, <2>3 DEF Base, YoungFrom
  <2>5. Partial(<<>>, 0, <<>>, entry)
    BY <1>1, <2>3 DEF Partial
  <2>6. Anchor(0)
    BY <1>1, <1>2, <2>1, <2>4, <2>5 DEF Anchor, Busy
  <2> QED
    BY <1>2, <2>6 DEF Anchored
<1>7. AckedOnDisk
  BY <1>1, <1>2 DEF AckedOnDisk
<1> QED
  BY <1>3, <1>4, <1>5, <1>6, <1>7 DEF LInv

LEMMA Invariance == MCSpec => []LInv
<1>1. MCInit => LInv
  BY InitInv
<1>2. LInv /\ [MCNext]_mcVars => LInv'
  BY TypesStep, ControlStep, ChainStep, AnchoredStep, OnDiskStep DEF LInv
<1>3. MCSpec => MCInit /\ [][MCNext]_mcVars
  BY PTL DEF MCSpec, mcVars
<1> QED
  BY <1>1, <1>2, <1>3, PTL

-----------------------------------------------------------------------------
(* What the invariant says of the file.                                    *)

\* The file is a beginning of the stream.
LEMMA DiskBase ==
    ASSUME LInv
    PROVE  \E m \in 0..Len(disk) :
              /\ Len(disk) \in Nat /\ IsSeq(acked) /\ AckedChain(acked)
              /\ Base(disk, m, acked)
              /\ (failures = 0 => Partial(disk, m, acked, entry))
              /\ (failures = 0 /\ writer = "closed" => Len(disk) = m)
              /\ (copy # <<>> => failures = 0 /\ Len(disk) = m)
<1>1. PICK m \in 0..durable : Anchor(m)
  BY DEF LInv, Anchored
<1>2. Types /\ Control
  BY DEF LInv
<1>3. Extends(Stream, disk) /\ Len(disk) \in Nat /\ Len(Stream) \in Nat /\ Len(disk) <= Len(Stream)
  BY <1>2, PendingSeq DEF Extends
<1>4. m \in Nat /\ m <= Len(disk)
  BY <1>1, <1>2, <1>3 DEF Types
<1>5. Base(disk, m, acked) /\ (Partial(Stream, m, acked, entry) => Partial(disk, m, acked, entry))
  <2>1. Base(Stream, m, acked)
    BY <1>1 DEF Anchor
  <2> QED
    BY <1>3, <1>4, <2>1, CutFile
<1>6. ASSUME failures = 0, writer = "closed" PROVE Len(disk) = m
  <2>1. Len(Stream) = m
    BY <1>1, <1>6 DEF Anchor, Busy
  <2> QED
    BY <1>3, <1>4, <2>1
<1>7. ASSUME copy # <<>> PROVE failures = 0 /\ Len(disk) = m
  <2>1. failures = 0 /\ Len(Stream) = m
    BY <1>1, <1>7 DEF Anchor
  <2> QED
    BY <1>3, <1>4, <2>1
<1>8. failures = 0 => Partial(disk, m, acked, entry)
  BY <1>1, <1>5 DEF Anchor
<1>9. IsSeq(acked) /\ AckedChain(acked)
  BY DEF LInv, Types, ChainInv
<1>10. m \in 0..Len(disk)
  BY <1>3, <1>4
<1> QED
  BY <1>3, <1>5, <1>6, <1>7, <1>8, <1>9, <1>10

(***************************************************************************)
(* verify_reader accepts a file exactly when it is a well-formed chain of  *)
(* one session and one version, whatever the writer left on the disk and   *)
(* however often a copy of it was edited.                                  *)
(***************************************************************************)
THEOREM VerifyExactly == MCSpec => []VerifyIsExact
<1>1. LInv => VerifyIsExact
  <2> SUFFICES ASSUME LInv PROVE VerifyIsExact
    OBVIOUS
  <2>1. Len(disk) \in Nat /\ IsSeq(copy)
    BY SeqBasic DEF LInv, Types
  <2>2. IsSeq(Lines(disk))
    BY <2>1, LinesSeq
  <2> QED
    BY <2>1, <2>2, VerifyExact DEF VerifyIsExact
<1> QED
  BY <1>1, Invariance, PTL

(***************************************************************************)
(* append returns Ok only after sync_all, so no later failure, kill or     *)
(* power loss takes a line from the disk that append has acknowledged.     *)
(***************************************************************************)
THEOREM AckedIsDurable == MCSpec => []AckedDurable
<1>1. LInv => AckedDurable
  <2> SUFFICES ASSUME LInv, NEW i \in DOMAIN acked
               PROVE  \E k \in 1..(durable - 1) : SubSeq(disk, k, k + 1) = Halves(acked[i])
    BY DEF AckedDurable
  <2>1. IsSeq(disk) /\ IsSeq(acked) /\ durable \in Nat /\ durable <= Len(disk) /\ Len(disk) \in Nat
    BY SeqBasic DEF LInv, Types
  <2>2. i \in 1..Len(acked)
    BY <2>1, SeqBasic
  <2>3. PICK k \in 1..(durable - 1) : disk[k] = HeadOf(acked[i]) /\ disk[k + 1] = TailOf(acked[i])
    BY <2>2 DEF LInv, AckedOnDisk, OnDisk
  <2>4. PICK S : disk \in Seq(S)
    BY <2>1 DEF IsSeq
  <2>5. k \in Nat /\ 1 <= k /\ k + 1 <= Len(disk)
    BY <2>1, <2>3
  <2>6. PICK z : z = SubSeq(disk, k, k + 1)
    OBVIOUS
  <2>7. z \in Seq(S) /\ Len(z) = 2 /\ z[1] = disk[k] /\ z[2] = disk[k + 1]
    BY <2>4, <2>5, <2>6
  <2>8. IsSeq(z)
    BY <2>7 DEF IsSeq
  <2>9. \A j \in 1..Len(z) : z[j] = Halves(acked[i])[j]
    <3>1. 1..2 = {1, 2}
      OBVIOUS
    <3> QED
      BY <2>3, <2>7, <3>1, HalvesSeq
  <2>10. z = Halves(acked[i])
    BY <2>7, <2>8, <2>9, HalvesSeq, SameSeq
  <2> QED
    BY <2>3, <2>6, <2>10
<1> QED
  BY <1>1, Invariance, PTL

(***************************************************************************)
(* An auditor who is shown a ledger that verifies sees every entry whose   *)
(* append returned Ok, in order, and at most one more at its end: a failed *)
(* append that leaves bytes behind, retried or not, can make the ledger    *)
(* unverifiable and never makes it verify as something else.               *)
(***************************************************************************)
THEOREM VerifiedIsAcked == MCSpec => []AcceptedIsAcked
<1>1. LInv => AcceptedIsAcked
  <2> SUFFICES ASSUME LInv, Accepted(disk)
               PROVE  IsPrefix(acked, Lines(disk)) /\ Len(Lines(disk)) <= Len(acked) + 1
    BY DEF AcceptedIsAcked
  <2>1. PICK m \in 0..Len(disk) : Len(disk) \in Nat /\ IsSeq(acked) /\ Base(disk, m, acked)
    BY DiskBase
  <2>2. PICK lines : lines = Lines(disk) /\ IsSeq(lines)
    BY <2>1, LinesSeq
  <2>3. WellChained(lines)
    BY <2>2, VerifyExact DEF Accepted
  <2>4. Sound(disk, m, acked) /\ YoungFrom(disk, m, Len(acked))
    <3>1. WellChained(Reading(disk)[m].lines)
      BY <2>1, <2>2, <2>3, BrokenStays
    <3> QED
      BY <2>1, <3>1 DEF Base
  <2>5. Extends(lines, acked) /\ \A i \in 1..Len(lines) : i > Len(acked) => YoungLine(lines[i], Len(acked))
    BY <2>1, <2>2, <2>4, FreshLines
  <2>6. PICK k \in Nat, n \in Nat : k = Len(acked) /\ n = Len(lines) /\ k <= n
    BY <2>5 DEF Extends
  <2>7. n <= k + 1
    <3>1. SUFFICES ASSUME n > k + 1 PROVE FALSE
      BY <2>6
    <3>2. n \in 1..n /\ n > k /\ n - 1 # k /\ DOMAIN lines = 1..n
      BY <2>2, <2>6, <3>1, SeqBasic
    <3>3. YoungLine(lines[n], k)
      BY <2>5, <2>6, <3>2
    <3>4. lines[n] # Unparseable /\ lines[n].seq = n - 1
      BY <2>3, <3>2 DEF WellChained
    <3> QED
      BY <3>2, <3>3, <3>4 DEF YoungLine
  <2>8. SubSeq(acked, 1, k) = SubSeq(lines, 1, k)
    <3>1. k \in 0..Len(acked) /\ k \in 0..Len(lines)
      BY <2>6
    <3>2. PICK x, y : x = SubSeq(acked, 1, k) /\ y = SubSeq(lines, 1, k)
      OBVIOUS
    <3>3. IsSeq(x) /\ Len(x) = k /\ \A i \in 1..k : x[i] = acked[i]
      BY <2>1, <3>1, <3>2, SeqPrefix
    <3>4. IsSeq(y) /\ Len(y) = k /\ \A i \in 1..k : y[i] = lines[i]
      BY <2>2, <3>1, <3>2, SeqPrefix
    <3>5. \A i \in 1..Len(x) : x[i] = y[i]
      BY <2>5, <2>6, <3>3, <3>4 DEF Extends
    <3> QED
      BY <3>2, <3>3, <3>4, <3>5, SameSeq
  <2> QED
    BY <2>2, <2>6, <2>7, <2>8 DEF IsPrefix
<1> QED
  BY <1>1, Invariance, PTL

(***************************************************************************)
(* The hash of a line commits to every line before it (hash_line chained   *)
(* through prevHash): an edited copy that verifies and shares a line with  *)
(* the honest ledger shares everything before it.                          *)
(***************************************************************************)
THEOREM HashesCommit == MCSpec => []HashCommits
<1>1. LInv => HashCommits
  <2> SUFFICES ASSUME LInv, V!Accepts(copy), NEW i \in DOMAIN copy \cap DOMAIN Lines(disk),
                      copy[i] = Lines(disk)[i]
               PROVE  SubSeq(copy, 1, i) = SubSeq(Lines(disk), 1, i)
    BY DEF HashCommits
  <2>1. IsSeq(copy)
    BY DEF LInv, Types
  <2>2. PICK k \in Nat : k = Len(copy) /\ DOMAIN copy = 1..k
    BY <2>1, SeqBasic
  <2>3. copy # <<>>
    <3>1. i \in 1..k
      BY <2>2
    <3> QED
      BY <2>2, <3>1, EmptyIsSeq
  <2>4. PICK h : h = Lines(disk)
    OBVIOUS
  <2>5. IsSeq(h) /\ WellChained(h)
    <3>1. PICK m \in 0..Len(disk) :
            /\ Len(disk) \in Nat /\ IsSeq(acked) /\ AckedChain(acked) /\ Partial(disk, m, acked, entry)
            /\ Len(disk) = m
      BY <2>3, DiskBase
    <3>2. Lines(disk) = acked
      BY <3>1, PartialRead
    <3> QED
      BY <2>4, <3>1, <3>2, ChainWell
  <2>6. PICK n \in Nat : n = Len(h) /\ DOMAIN h = 1..n
    BY <2>5, SeqBasic
  <2>7. WellChained(copy)
    BY <2>1, VerifyExact
  <2>8. i \in Nat /\ i \in 1..k /\ i \in 1..n /\ copy[i] = h[i]
    BY <2>2, <2>4, <2>6
  <2> DEFINE T == {j \in 0..(i - 1) : copy[i - j] = h[i - j]}
  <2>9. 0 \in T
    BY <2>8
  <2>10. ASSUME NEW j \in Nat, j < i - 1, j \in T PROVE j + 1 \in T
    <3>1. PICK l \in Nat : l = i - j /\ l \in 1..k /\ l \in 1..n /\ l # 1 /\ l - 1 = i - (j + 1)
                           /\ copy[l] = h[l]
      <4>1. i - j \in Nat /\ i - j \in 1..k /\ i - j \in 1..n /\ i - j # 1 /\ (i - j) - 1 = i - (j + 1)
        BY <2>8, <2>10
      <4> QED
        BY <2>10, <4>1
    <3>2. copy[l].prev = Hash(copy[l - 1]) /\ h[l].prev = Hash(h[l - 1])
      BY <2>2, <2>5, <2>6, <2>7, <3>1 DEF WellChained, Prev
    <3>3. copy[l - 1] = h[l - 1]
      BY <3>1, <3>2 DEF Hash
    <3>4. j + 1 \in 0..(i - 1)
      BY <2>8, <2>10
    <3> QED
      BY <3>1, <3>3, <3>4
  <2>11. \A j \in 0..(i - 1) : j \in T
    <3> HIDE DEF T
    <3>1. i - 1 \in Nat
      BY <2>8
    <3> QED
      BY <2>9, <2>10, <3>1, Upwards
  <2>12. ASSUME NEW l \in 1..i PROVE copy[l] = h[l]
    <3>1. i - l \in 0..(i - 1) /\ i - (i - l) = l
      BY <2>8
    <3>2. i - l \in T
      BY <2>11, <3>1
    <3> QED
      BY <3>1, <3>2
  <2>13. PICK x, y : x = SubSeq(copy, 1, i) /\ y = SubSeq(h, 1, i)
    OBVIOUS
  <2>14. i \in 0..Len(copy) /\ i \in 0..Len(h)
    BY <2>2, <2>6, <2>8
  <2>15. IsSeq(x) /\ Len(x) = i /\ \A l \in 1..i : x[l] = copy[l]
    BY <2>1, <2>13, <2>14, SeqPrefix
  <2>16. IsSeq(y) /\ Len(y) = i /\ \A l \in 1..i : y[l] = h[l]
    BY <2>5, <2>13, <2>14, SeqPrefix
  <2>17. x = y
    BY <2>12, <2>15, <2>16, SameSeq
  <2> QED
    BY <2>4, <2>13, <2>17
<1> QED
  BY <1>1, Invariance, PTL

\* A file whose reading ends between two lines ends in a newline.
LEMMA EndsInNewLine ==
    ASSUME NEW f, Len(f) \in Nat, NEW a, Sound(f, Len(f), a), Len(f) # 0
    PROVE  f[Len(f)] = NewLine
<1>1. SUFFICES ASSUME f[Len(f)] # NewLine PROVE FALSE
  OBVIOUS
<1>2. PICK n \in Nat : n = Len(f) - 1 /\ n \in 0..Len(f) /\ Len(f) \in 1..Len(f)
  <2>1. Len(f) - 1 \in Nat /\ Len(f) - 1 \in 0..Len(f) /\ Len(f) \in 1..Len(f)
    OBVIOUS
  <2> QED
    BY <2>1
<1>3. PICK r, b : r = Reading(f)[n] /\ b = f[Len(f)]
  OBVIOUS
<1>4. ReadSeqs(r)
  BY <1>2, <1>3, ReadShape
<1>5. Reading(f)[Len(f)] = ReadByte(r, b)
  BY <1>2, <1>3, ReadSteps
<1>6. ReadByte(r, b).part = Append(r.part, b)
  BY <1>1, <1>3 DEF ReadByte
<1>7. Append(r.part, b) = <<>>
  BY <1>5, <1>6 DEF Sound
<1>8. Len(r.part) \in Nat /\ Len(Append(r.part, b)) = Len(r.part) + 1
  BY <1>4, SeqAppend DEF ReadSeqs
<1>9. Len(r.part) + 1 = 0
  BY <1>7, <1>8, EmptyIsSeq
<1> QED
  BY <1>8, <1>9

\* The file without a torn last line is the acknowledged lines, or one more.
LEMMA WholeLines ==
    ASSUME NEW f, IsSeq(f), NEW m \in 0..Len(f), NEW a, IsSeq(a), NEW e, Partial(f, m, a, e)
    PROVE  Lines(Whole(f)) = a \/ (Lines(Whole(f)) = Append(a, e) /\ Continues(e, a))
<1>1. PICK n \in Nat : n = Len(f) /\ m \in Nat /\ m <= n /\ n <= m + 3
  BY SeqBasic DEF Partial
<1>2. /\ (Len(f) = m => Lines(f) = a)
      /\ (Len(f) = m + 1 => Lines(f) = Append(a, Unparseable))
      /\ (Len(f) = m + 2 => Lines(f) = Append(a, e))
      /\ (Len(f) = m + 3 => Lines(f) = Append(a, e) /\ Sound(f, Len(f), Append(a, e)))
  BY <1>1, PartialRead
<1>3. n > m => Continues(e, a)
  BY <1>1 DEF Partial
<1>4. f = <<>> => n = 0
  BY <1>1, EmptyIsSeq
<1>5. CASE n = m
  <2>1. Sound(f, Len(f), a)
    BY <1>1, <1>5 DEF Partial
  <2>2. n # 0 => f[Len(f)] = NewLine
    BY <1>1, <2>1, EndsInNewLine
  <2>3. n = 0 => f = <<>>
    <3>1. PICK z : z = <<>> /\ IsSeq(z) /\ Len(z) = 0
      BY EmptyIsSeq
    <3>2. ASSUME n = 0 PROVE Len(f) = Len(z) /\ \A i \in 1..Len(f) : f[i] = z[i]
      BY <1>1, <3>1, <3>2
    <3>3. n = 0 => f = z
      BY <3>1, <3>2, SameSeq
    <3> QED
      BY <3>1, <3>3
  <2>4. Whole(f) = f
    BY <2>2, <2>3 DEF Whole
  <2> QED
    BY <1>1, <1>2, <1>5, <2>4
<1>6. CASE n = m + 1
  <2>1. f[Len(f)] # NewLine
    <3>1. 1 \in 1..3 /\ m + 1 <= Len(f)
      BY <1>1, <1>6
    <3>2. f[m + 1] = HeadOf(e)
      BY <3>1, BytesSeq DEF Partial
    <3> QED
      BY <1>1, <1>6, <3>2, ByteKinds
  <2>2. PICK l : l = Lines(f) /\ l = Append(a, Unparseable)
    BY <1>1, <1>2, <1>6
  <2>3. l[Len(l)] = Unparseable
    <3>1. Len(Append(a, Unparseable)) = Len(a) + 1 /\ Append(a, Unparseable)[Len(a) + 1] = Unparseable
      BY SeqAppend
    <3> QED
      BY <2>2, <3>1
  <2>4. f # <<>>
    BY <1>1, <1>4, <1>6
  <2>5. PICK g : g = SubSeq(f, 1, m) /\ g = Whole(f)
    <3>1. Len(f) - 1 = m
      BY <1>1, <1>6
    <3> QED
      BY <2>1, <2>2, <2>3, <2>4, <3>1 DEF Whole
  <2>6. IsSeq(g) /\ Len(g) = m /\ \A i \in 1..m : g[i] = f[i]
    BY <2>5, SeqPrefix
  <2>7. Extends(f, g) /\ m <= Len(g)
    BY <1>1, <2>6 DEF Extends
  <2>8. Partial(g, m, a, e)
    BY <1>1, <2>7, CutFile
  <2>9. Lines(g) = a
    BY <1>1, <2>6, <2>8, PartialRead
  <2> QED
    BY <2>5, <2>9
<1>7. CASE n = m + 2
  <2>1. PICK l : l = Lines(f) /\ l = Append(a, e)
    BY <1>1, <1>2, <1>7
  <2>2. l[Len(l)] = e
    <3>1. Len(Append(a, e)) = Len(a) + 1 /\ Append(a, e)[Len(a) + 1] = e
      BY SeqAppend
    <3> QED
      BY <2>1, <3>1
  <2>3. Continues(e, a)
    BY <1>3, <1>7, <1>1
  <2>4. e # Unparseable
    <3>1. Unparseable.version = "none"
      BY DEF Unparseable
    <3> QED
      BY <2>3, <3>1 DEF Continues
  <2>5. Whole(f) = f
    BY <2>1, <2>2, <2>4 DEF Whole
  <2> QED
    BY <2>1, <2>3, <2>5
<1>8. CASE n = m + 3
  <2>1. Lines(f) = Append(a, e) /\ Sound(f, Len(f), Append(a, e))
    BY <1>1, <1>2, <1>8
  <2>2. f[Len(f)] = NewLine
    <3>1. Len(f) \in Nat /\ Len(f) # 0
      BY <1>1, <1>8
    <3>2. PICK b : Sound(f, Len(f), b)
      BY <2>1
    <3> QED
      BY <3>1, <3>2, EndsInNewLine
  <2>3. Whole(f) = f
    BY <2>2 DEF Whole
  <2>4. Continues(e, a)
    BY <1>1, <1>3, <1>8
  <2> QED
    BY <2>1, <2>3, <2>4
<1> QED
  BY <1>1, <1>5, <1>6, <1>7, <1>8

(***************************************************************************)
(* As long as no append has failed, a stop at any step of any append       *)
(* leaves a file that verifies once its torn last line is cut off, and the *)
(* root that close reports is the root verify computes from the file.      *)
(***************************************************************************)
THEOREM StopsLeaveChain == MCSpec => []CrashLeavesChain
<1>1. LInv => CrashLeavesChain
  <2> SUFFICES ASSUME LInv, failures = 0
               PROVE  Accepted(Whole(disk)) /\ (writer = "closed" => V!Root(Lines(disk)) = prevHash)
    BY DEF CrashLeavesChain
  <2>1. PICK m \in 0..Len(disk) :
          /\ Len(disk) \in Nat /\ IsSeq(acked) /\ AckedChain(acked) /\ Partial(disk, m, acked, entry)
          /\ (writer = "closed" => Len(disk) = m)
    BY DiskBase
  <2>2. IsSeq(disk)
    BY DEF LInv, Types
  <2>3. PICK l : l = Lines(Whole(disk)) /\ (l = acked \/ (l = Append(acked, entry) /\ Continues(entry, acked)))
    BY <2>1, <2>2, WholeLines
  <2>4. IsSeq(l) /\ AckedChain(l)
    <3>1. CASE l = acked
      BY <2>1, <3>1
    <3>2. CASE l = Append(acked, entry) /\ Continues(entry, acked)
      <4>1. IsSeq(Append(acked, entry))
        BY <2>1, SeqAppend
      <4> QED
        BY <2>1, <3>2, <4>1, ChainGrows
    <3> QED
      BY <2>3, <3>1, <3>2
  <2>5. V!Accepts(l)
    BY <2>4, ChainWell, VerifyExact
  <2>6. ASSUME writer = "closed" PROVE V!Root(Lines(disk)) = prevHash
    <3>1. Len(disk) = m
      BY <2>1, <2>6
    <3>2. Lines(disk) = acked
      BY <2>1, <3>1, PartialRead
    <3>3. V!Root(acked) = Prev(acked, Len(acked) + 1)
      BY <2>1, ChainWell, VerifyExact
    <3> QED
      BY <3>2, <3>3 DEF LInv, ChainInv
  <2> QED
    BY <2>3, <2>5, <2>6 DEF Accepted
<1> QED
  BY <1>1, Invariance, PTL
====
