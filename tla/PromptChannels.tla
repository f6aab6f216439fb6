--------------------------- MODULE PromptChannels ---------------------------
(***************************************************************************)
(* The three other approval channels (crates/approval-gate/src): tty.rs    *)
(* asks on the terminal and leaves a reader thread behind at a timeout,    *)
(* file.rs polls a decision file that it never consumes, mtls.rs serves    *)
(* the connections of one listener one at a time inside one timeout.  A    *)
(* session has one channel; `kind` is chosen when it starts.               *)
(***************************************************************************)
EXTENDS Naturals, Sequences, FiniteSets

CONSTANTS
    Kinds,         \* the channels a session may have
    MaxRequests,   \* bound on the calls of request_approval
    MaxDecisions   \* bound on what operators type, write or connect with

VARIABLES
    kind,
    requests,      \* how many requests there have been
    caller,     \* request_approval: "idle", "waiting", or "reading" the file
    overdue,       \* the deadline of the last request passed
    results,       \* what request_approval returned: [result, by]
    decisions,     \* ghost: everything operators gave, in order
    readers,       \* tty: reader threads (by request) that have not read a line
    holder,        \* tty: the one that holds stdin's lock, 0 for none
    stdin,         \* tty: typed lines (decision numbers) not read yet
    reply,         \* tty: the mpsc channel of the request: <<>> or one line
    file,          \* file: [n, whole]: the decision in it, n = 0 if there is none
    backlog,       \* mtls: connections not accepted yet
    serving,       \* mtls: [n, shown]: the connection being served, n = 0 if none
    shownTo        \* ghost: the admitted connections the request was written to

tty == <<readers, holder, stdin, reply>>
peers == <<backlog, serving, shownTo>>
vars == <<kind, requests, caller, overdue, results, decisions, tty, file, peers>>

Verdicts == {"granted", "rejected"}
NoFile == [n |-> 0, whole |-> FALSE]
NoPeer == [n |-> 0, shown |-> FALSE]

\* What an operator may give: on the terminal everything but y and yes rejects, also
\* an empty line or ^D; "closed" ends stdin for good.  "other" is a decision string
\* the channel does not know, "unusable" is no JSON or, in a line, no UTF-8.
Offers(k) ==
    CASE k = "tty" -> [verdict : Verdicts \cup {"unusable", "closed"}, by : {"approver"}]
      [] k = "file" -> [verdict : Verdicts \cup {"other", "unusable"}, by : {"approver"}]
      [] k = "mtls" -> [verdict : Verdicts \cup {"other", "unusable", "silent"},
                        by : {"approver"}]
                       \cup [verdict : {"granted", "silent"}, by : {"untrusted", "stranger"}]
      [] OTHER -> {}

Init ==
    /\ kind \in Kinds
    /\ requests = 0 /\ caller = "idle" /\ overdue = FALSE /\ results = <<>>
    /\ decisions = <<>>
    /\ readers = {} /\ holder = 0 /\ stdin = <<>> /\ reply = <<>>
    /\ file = NoFile /\ backlog = <<>> /\ serving = NoPeer /\ shownTo = {}

-----------------------------------------------------------------------------
(* The caller's thread.                                                    *)

Return(r, n) ==
    /\ results' = Append(results, [result |-> r, by |-> n])
    /\ caller' = "idle"

\* request_approval starts; the terminal's prompt is written and a reader spawned.
Ask ==
    /\ kind \in {"tty", "file", "mtls"}
    /\ caller = "idle" /\ requests < MaxRequests
    /\ requests' = requests + 1 /\ caller' = "waiting" /\ overdue' = FALSE
    /\ reply' = <<>> /\ shownTo' = {}
    /\ readers' = IF kind = "tty" THEN readers \cup {requests + 1} ELSE readers
    /\ UNCHANGED <<kind, results, decisions, holder, stdin, file, backlog, serving>>

\* The prompt cannot be written.
AskFails ==
    /\ kind = "tty"
    /\ caller = "idle" /\ requests < MaxRequests
    /\ requests' = requests + 1 /\ Return("error", 0)
    /\ UNCHANGED <<kind, overdue, decisions, tty, file, peers>>

\* The clock reaches the deadline.
Expire ==
    /\ caller # "idle" /\ ~overdue
    /\ overdue' = TRUE
    /\ UNCHANGED <<kind, requests, caller, results, decisions, tty, file, peers>>

Finished ==
    /\ requests = MaxRequests /\ caller = "idle"
    /\ UNCHANGED vars

-----------------------------------------------------------------------------
(* The terminal.                                                           *)

Closed == \E n \in DOMAIN decisions : decisions[n].verdict = "closed"

\* The operator types a line or closes stdin, whether or not a prompt waits.
Type ==
    /\ kind = "tty" /\ Len(decisions) < MaxDecisions /\ ~Closed
    /\ \E d \in Offers("tty") : decisions' = Append(decisions, d)
    /\ stdin' = Append(stdin, Len(decisions'))
    /\ UNCHANGED <<kind, requests, caller, overdue, results, readers, holder, reply,
                   file, peers>>

\* A reader gets stdin's lock: whichever of the waiting ones the mutex lets in.
Lock(r) ==
    /\ r \in readers /\ holder = 0
    /\ holder' = r
    /\ UNCHANGED <<kind, requests, caller, overdue, results, decisions, readers, stdin,
                   reply, file, peers>>

\* Its line reaches the request it was spawned for, if that one still listens.
Send(r, l) == reply' = IF r = requests /\ caller = "waiting" THEN l ELSE reply

\* Faulty variant: a reader whose request is over goes on reading.
ReadLineGoesOn ==
    /\ holder # 0 /\ stdin # <<>>
    /\ Send(holder, <<Head(stdin)>>)
    /\ stdin' = Tail(stdin) /\ holder' = 0
    /\ readers' = IF holder = requests THEN readers \ {holder} ELSE readers
    /\ UNCHANGED <<kind, requests, caller, overdue, results, decisions, file, peers>>

\* What is left to read: the end of a closed stdin stays where it is.
Rest == IF decisions[Head(stdin)].verdict = "closed" THEN stdin ELSE Tail(stdin)

\* read_line returns the next line, none at the end, or an error, and the thread ends.
ReadLine ==
    /\ holder # 0 /\ stdin # <<>>
    /\ Send(holder, <<Head(stdin)>>)
    /\ stdin' = Rest /\ holder' = 0 /\ readers' = readers \ {holder}
    /\ UNCHANGED <<kind, requests, caller, overdue, results, decisions, file, peers>>

\* An empty read rejects; a read that failed is the channel's error.
Reading(d) ==
    CASE d.verdict = "closed" -> "rejected"
      [] d.verdict = "unusable" -> "error"
      [] OTHER -> d.verdict

\* recv_timeout: a reading, or the deadline if there is none.  (The reader always
\* sends before it ends, so the channel is not seen disconnected.)
Receive ==
    /\ kind = "tty" /\ caller = "waiting"
    /\ \/ reply # <<>> /\ Return(Reading(decisions[reply[1]]), reply[1])
       \/ reply = <<>> /\ overdue /\ Return("timed_out", 0)
    /\ UNCHANGED <<kind, requests, overdue, decisions, tty, file, peers>>

-----------------------------------------------------------------------------
(* The decision file.                                                      *)

\* Somebody creates or overwrites the file: truncated first, then whole.
Write ==
    /\ kind = "file" /\ Len(decisions) < MaxDecisions
    /\ \E d \in Offers("file") : decisions' = Append(decisions, d)
    /\ file' = [n |-> Len(decisions'), whole |-> FALSE]
    /\ UNCHANGED <<kind, requests, caller, overdue, results, tty, peers>>

WriteDone ==
    /\ file.n # 0 /\ ~file.whole
    /\ file' = [file EXCEPT !.whole = TRUE]
    /\ UNCHANGED <<kind, requests, caller, overdue, results, decisions, tty, peers>>

Remove ==
    /\ file.n # 0
    /\ file' = NoFile
    /\ UNCHANGED <<kind, requests, caller, overdue, results, decisions, tty, peers>>

\* One pass of the loop: path.exists, else the deadline, else sleep.
Poll ==
    /\ kind = "file" /\ caller = "waiting"
    /\ \/ file.n # 0 /\ caller' = "reading" /\ UNCHANGED results
       \/ file.n = 0 /\ overdue /\ Return("timed_out", 0)
    /\ UNCHANGED <<kind, requests, overdue, decisions, tty, file, peers>>

\* read and from_slice: a file that is gone, torn or not a known decision errs.
ReadFile ==
    /\ kind = "file" /\ caller = "reading"
    /\ IF file.whole /\ decisions[file.n].verdict \in Verdicts
       THEN Return(decisions[file.n].verdict, file.n)
       ELSE Return("error", file.n)
    /\ UNCHANGED <<kind, requests, overdue, decisions, tty, file, peers>>

-----------------------------------------------------------------------------
(* The mTLS listener.  It is bound for the whole session, so a connection  *)
(* made while no request waits stays in the backlog.                       *)

Connect ==
    /\ kind = "mtls" /\ Len(decisions) < MaxDecisions
    /\ \E d \in Offers("mtls") : decisions' = Append(decisions, d)
    /\ backlog' = Append(backlog, Len(decisions'))
    /\ UNCHANGED <<kind, requests, caller, overdue, results, tty, file, serving, shownTo>>

Accept ==
    /\ kind = "mtls" /\ caller = "waiting" /\ serving.n = 0 /\ backlog # <<>>
    /\ serving' = [n |-> Head(backlog), shown |-> FALSE] /\ backlog' = Tail(backlog)
    /\ UNCHANGED <<kind, requests, caller, overdue, results, decisions, tty, file, shownTo>>

\* listener.accept fails.
AcceptFails ==
    /\ kind = "mtls" /\ caller = "waiting" /\ serving.n = 0
    /\ Return("error", 0)
    /\ UNCHANGED <<kind, requests, overdue, decisions, tty, file, peers>>

Peer == decisions[serving.n]

\* Faulty variant: the allowlist is not looked at.
AdmittedAnyone(d) == d.by # "untrusted"

\* WebPkiClientVerifier, approver_spiffe_id and the allowlist let the peer in.
Admitted(d) == d.by = "approver"

\* The handshake: the peer is dropped, or the request is written to it.
Handshake ==
    /\ serving.n # 0 /\ ~serving.shown
    /\ ~(Peer.by = "untrusted" /\ Peer.verdict = "silent")
    /\ IF Admitted(Peer)
       THEN serving' = [serving EXCEPT !.shown = TRUE] /\ shownTo' = shownTo \cup {serving.n}
       ELSE serving' = NoPeer /\ UNCHANGED shownTo
    /\ UNCHANGED <<kind, requests, caller, overdue, results, decisions, tty, file, backlog>>

\* The peer goes away before the request is written or the line is read.
HangUp ==
    /\ serving.n # 0
    /\ serving' = NoPeer
    /\ UNCHANGED <<kind, requests, caller, overdue, results, decisions, tty, file, backlog, shownTo>>

\* The peer's line: no JSON drops it, an unknown decision is an error.
Decide ==
    /\ serving.shown /\ Peer.verdict # "silent"
    /\ \/ /\ Peer.verdict \in Verdicts \cup {"other"}
          /\ Return(IF Peer.verdict = "other" THEN "error" ELSE Peer.verdict, serving.n)
       \/ Peer.verdict = "unusable" /\ UNCHANGED <<results, caller>>
    /\ serving' = NoPeer
    /\ UNCHANGED <<kind, requests, overdue, decisions, tty, file, backlog, shownTo>>

\* Faulty variant: the timeout is put around listener.accept only.
TimeoutAccept ==
    /\ kind = "mtls" /\ caller = "waiting" /\ overdue /\ serving.n = 0
    /\ Return("timed_out", 0)
    /\ UNCHANGED <<kind, requests, overdue, decisions, tty, file, peers>>

\* timeout drops accept_loop, and with it the connection being served.
Timeout ==
    /\ kind = "mtls" /\ caller = "waiting" /\ overdue
    /\ Return("timed_out", 0) /\ serving' = NoPeer
    /\ UNCHANGED <<kind, requests, overdue, decisions, tty, file, backlog, shownTo>>

Next ==
    \/ Ask \/ AskFails \/ Expire \/ Finished
    \/ Type \/ (\E r \in readers : Lock(r)) \/ ReadLine \/ Receive
    \/ Write \/ WriteDone \/ Remove \/ Poll \/ ReadFile
    \/ Connect \/ Accept \/ AcceptFails \/ Handshake \/ HangUp \/ Decide \/ Timeout

Spec == Init /\ [][Next]_vars

\* Time passes, and the caller's thread runs; operators and peers need not move.
Fairness == WF_vars(Expire) /\ WF_vars(Receive) /\ WF_vars(Poll) /\ WF_vars(ReadFile)
            /\ WF_vars(Timeout)

FairSpec == Spec /\ Fairness

-----------------------------------------------------------------------------
(***************************************************************************)
(* Every request returns, whoever stays silent: the terminal's operator, a *)
(* file nobody writes, a peer that connects and says nothing (recv_timeout,*)
(* the deadline of the poll loop, the timeout around accept_loop).         *)
(***************************************************************************)
RequestReturns == caller # "idle" ~> caller = "idle"

Used == {results[i].by : i \in 1..Len(results)} \ {0}
Lost == (1..Len(decisions)) \ (Used \cup {stdin[i] : i \in 1..Len(stdin)}
                                    \cup {reply[i] : i \in 1..Len(reply)})
TimedOut == {i \in 1..Len(results) : results[i].result = "timed_out"}

(***************************************************************************)
(* A reader thread left behind by a timeout takes a line typed for a later *)
(* prompt, but at most one: no more lines are lost than requests timed out,*)
(* so an operator who repeats the answer is heard (thread::spawn in        *)
(* tty.rs's request_approval).                                             *)
(***************************************************************************)
LinesLostBounded ==
    kind = "tty" => Cardinality(Lost) <= Cardinality(TimedOut)

\* What the mTLS channel looks like to its caller; other kinds stand still.
Mtls(x, y) == IF kind = "mtls" THEN x ELSE y

Channel == INSTANCE ApprovalChannel WITH
    asked <- Mtls(requests, 0),
    outstanding <- Mtls(caller = "waiting", FALSE),
    expired <- Mtls(overdue, FALSE),
    votes <- Mtls({decisions[n].verdict : n \in
                      {m \in shownTo : decisions[m].by = "approver"}} \cap Verdicts, {}),
    outcomes <- Mtls([i \in 1..Len(results) |-> results[i].result], <<>>)

(***************************************************************************)
(* The mTLS channel implements the trait's contract: a decision counts for *)
(* the request that was written to that approver's connection, and for no  *)
(* other, and only peers on the allowlist decide.                          *)
(***************************************************************************)
MtlsImplementsChannel == Channel!Spec
=============================================================================
