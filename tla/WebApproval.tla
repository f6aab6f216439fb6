----------------------------- MODULE WebApproval -----------------------------
(***************************************************************************)
(* The web approval channel (crates/approval-gate/src/web.rs).  The        *)
(* mediator's thread waits in request_approval on a condition variable;    *)
(* one server thread takes the HTTP requests one at a time.  For a POST it *)
(* reads the body outside the lock and then records the decision under it; *)
(* for a GET it keeps the lock until its answer is written to the client.  *)
(* Both threads share the table `pending`; the lock is held across steps   *)
(* by a GET only, and what else is done under it is one step.              *)
(***************************************************************************)
EXTENDS Naturals, Sequences, FiniteSets

CONSTANTS
    MaxAsked,     \* bound on the approval requests
    MaxPosts,     \* bound on the POST requests
    MaxGets       \* bound on the GET requests

VARIABLES
    requester,    \* the mediator's thread: "idle", "locking" for the mutex the
                  \* first time, or "waiting" in wait_timeout
    asked,        \* how many requests it made; also the last one's number
    expired,      \* the deadline of the last one passed
    notified,     \* the condition variable has a wake-up for it
    pending,      \* State.pending: request id -> decision, "none" at first
    server,       \* the server thread: "listening", "reading" a body, "listing"
                  \* the table to a client with the mutex held, "stopped"
    current,      \* the POST it handles
    posts,        \* POSTs on their way
    gets,         \* number of GETs answered or being answered
    shown,        \* ghost: the requests that a GET listed
    sent,         \* ghost: the decisions approvers sent with the token
    answered,     \* ghost: the decisions answered with 200, and how many outcomes
                  \* there were by then
    stopping,     \* Drop called unblock
    outcomes      \* what request_approval returned

vars == <<requester, asked, expired, notified, pending, server, current, posts,
          gets, shown, sent, answered, stopping, outcomes>>

Verdicts == {"granted", "rejected"}

\* Faulty variant: every request has the same id.
RequestIdReused(n) == 1

\* Uuid::now_v7: the n-th request has an id of its own.
RequestId(n) == n

\* A POST to grant or reject; `about` is the request its sender had in front.
Posts == [id : {RequestId(n) : n \in 1..asked}, about : 1..asked, decision : Verdicts,
          token : BOOLEAN]

NoPost == [id |-> 0, about |-> 0, decision |-> "none", token |-> FALSE]

Init ==
    /\ requester = "idle" /\ asked = 0 /\ expired = FALSE /\ notified = FALSE
    /\ pending = <<>>
    /\ server = "listening" /\ current = NoPost
    /\ posts = {} /\ gets = 0 /\ shown = {} /\ sent = {} /\ answered = <<>>
    /\ stopping = FALSE /\ outcomes = <<>>

Table == <<pending, expired, notified, outcomes>>
Wire == <<server, current, posts, gets, shown, sent, answered>>

\* The server thread keeps the mutex only while it answers a GET.
Unlocked == server # "listing"

-----------------------------------------------------------------------------
(* The mediator's thread.                                                  *)

Id == RequestId(asked)

\* request_approval up to `pending.lock()`: the deadline runs already.
Ask ==
    /\ requester = "idle" /\ ~stopping /\ asked < MaxAsked
    /\ asked' = asked + 1
    /\ requester' = "locking" /\ expired' = FALSE /\ notified' = FALSE
    /\ UNCHANGED <<Wire, pending, stopping, outcomes>>

\* The entry is made; the first pass of the loop finds no decision in it.
Enter ==
    /\ requester = "locking" /\ Unlocked
    /\ IF expired
       THEN outcomes' = Append(outcomes, "timed_out") /\ requester' = "idle"
            /\ UNCHANGED pending
       ELSE pending' = [i \in DOMAIN pending \cup {Id} |-> IF i = Id THEN "none"
                                                          ELSE pending[i]]
            /\ requester' = "waiting" /\ UNCHANGED outcomes
    /\ UNCHANGED <<Wire, asked, expired, notified, stopping>>

Removed(i) == [j \in DOMAIN pending \ {i} |-> pending[j]]

Return(o) ==
    /\ outcomes' = Append(outcomes, o) /\ pending' = Removed(Id)
    /\ requester' = "idle"

\* Faulty variants: the deadline is looked at first; a timeout leaves the entry.
LoopDeadlineFirst ==
    \/ expired /\ Return("timed_out")
    \/ ~expired /\ pending[Id] # "none" /\ Return(pending[Id])
    \/ ~expired /\ pending[Id] = "none" /\ UNCHANGED <<outcomes, pending, requester>>

LoopKeepsEntry ==
    \/ pending[Id] # "none" /\ Return(pending[Id])
    \/ /\ pending[Id] = "none" /\ expired
       /\ outcomes' = Append(outcomes, "timed_out") /\ requester' = "idle"
       /\ UNCHANGED pending
    \/ pending[Id] = "none" /\ ~expired /\ UNCHANGED <<outcomes, pending, requester>>

\* One pass of the loop: a decision on record counts even after the deadline.
Loop ==
    \/ pending[Id] # "none" /\ Return(pending[Id])
    \/ pending[Id] = "none" /\ expired /\ Return("timed_out")
    \/ pending[Id] = "none" /\ ~expired /\ UNCHANGED <<outcomes, pending, requester>>

\* wait_timeout returns, with the mutex: on a notification, or because the time is
\* over.  (It may also return for no reason; then the loop waits again.)
Wake ==
    /\ requester = "waiting" /\ (notified \/ expired) /\ Unlocked
    /\ Loop /\ notified' = FALSE
    /\ UNCHANGED <<Wire, asked, expired, stopping>>

Expire ==
    /\ requester # "idle" /\ ~expired
    /\ expired' = TRUE
    /\ UNCHANGED <<Wire, requester, asked, notified, pending, stopping, outcomes>>

-----------------------------------------------------------------------------
(* Approvers and the server thread.                                        *)

\* respond_list: the undecided requests are listed under the lock, which is kept
\* while the answer is written to the client.  (Without the token: 401, no lock.)
List ==
    /\ server = "listening" /\ gets < MaxGets
    /\ gets' = gets + 1 /\ server' = "listing"
    /\ shown' = shown \cup {n \in 1..asked : /\ RequestId(n) \in DOMAIN pending
                                            /\ pending[RequestId(n)] = "none"}
    /\ UNCHANGED <<Table, requester, asked, current, posts, sent, answered, stopping>>

\* request.respond returns: the client has read its answer, or is gone.
Listed ==
    /\ server = "listing"
    /\ server' = "listening"
    /\ UNCHANGED <<Table, requester, asked, current, posts, gets, shown, sent, answered,
                   stopping>>

(***************************************************************************)
(* Somebody posts a decision about a request that a GET showed, with or    *)
(* without the bearer token.                                               *)
(***************************************************************************)
Post ==
    /\ Cardinality(posts) + Len(answered) < MaxPosts
    /\ \E p \in Posts :
          /\ p.about \in shown /\ p.id = RequestId(p.about) /\ p \notin posts
          /\ posts' = posts \cup {p}
          /\ sent' = IF p.token THEN sent \cup {p} ELSE sent
    /\ UNCHANGED <<Table, requester, asked, server, current, gets, shown, answered,
                   stopping>>

\* serve takes the next POST; without the token it answers 401.
Receive ==
    /\ server = "listening"
    /\ \E p \in posts :
          /\ posts' = posts \ {p}
          /\ IF p.token THEN server' = "reading" /\ current' = p
             ELSE UNCHANGED <<server, current>>
    /\ UNCHANGED <<Table, requester, asked, gets, shown, sent, answered, stopping>>

\* resolve, once the body is read, which may take its sender for ever: under the
\* lock an unknown id is ignored and a second decision wins.  200 in any case.
Recorded ==
    pending' = IF current.id \in DOMAIN pending
               THEN [pending EXCEPT ![current.id] = current.decision]
               ELSE pending

Resolve ==
    /\ server = "reading"
    /\ Recorded /\ notified' = (requester = "waiting")
    /\ answered' = Append(answered, [id |-> current.id, decision |-> current.decision,
                                     after |-> Len(outcomes)])
    /\ server' = "listening" /\ current' = NoPost
    /\ UNCHANGED <<requester, asked, expired, posts, gets, shown, sent, stopping,
                   outcomes>>

\* Drop: unblock, then join the thread, which ends between two requests.
Unblock ==
    /\ requester = "idle" /\ ~stopping
    /\ stopping' = TRUE
    /\ UNCHANGED <<Table, Wire, requester, asked>>

Stop ==
    /\ stopping /\ server = "listening"
    /\ server' = "stopped"
    /\ UNCHANGED <<Table, requester, asked, current, posts, gets, shown, sent, answered,
                   stopping>>

Joined == server = "stopped" /\ UNCHANGED vars

Next ==
    \/ Ask \/ Enter \/ Wake \/ Expire
    \/ List \/ Listed \/ Post \/ Receive \/ Resolve
    \/ Unblock \/ Stop \/ Joined

Spec == Init /\ [][Next]_vars

\* The mediator's thread runs whenever it has the mutex; the rest need not happen.
FairSpec == Spec /\ WF_vars(Enter) /\ WF_vars(Wake)

-----------------------------------------------------------------------------
(***************************************************************************)
(* The table holds the outstanding request and nothing else, so nothing    *)
(* can be granted after its outcome (request_approval removes its entry on *)
(* every return).                                                          *)
(***************************************************************************)
OnlyOutstandingPending ==
    DOMAIN pending = IF requester = "waiting" THEN {Id} ELSE {}

\* The decisions about request n that were answered with 200 before its outcome.
InTime(n) == {k \in DOMAIN answered :
                 answered[k].id = RequestId(n) /\ answered[k].after < n}

(***************************************************************************)
(* Whoever was answered in time was heard: the outcome of a request is the *)
(* last decision about it that the server answered with 200 before         *)
(* request_approval returned, also one that came after the deadline, and a *)
(* request times out only if there was none (resolve, the loop of          *)
(* request_approval and the mutex between them).                           *)
(***************************************************************************)
AnsweredAreHeard ==
    \A n \in DOMAIN outcomes :
        IF InTime(n) = {} THEN outcomes[n] = "timed_out"
        ELSE \E k \in InTime(n) : /\ \A j \in InTime(n) : j <= k
                                  /\ outcomes[n] = answered[k].decision

\* The deadline of the outstanding request passed, or its decision is on record.
Due == requester # "idle" /\ (expired \/ (Id \in DOMAIN pending /\ pending[Id] # "none"))

(***************************************************************************)
(* request_approval returns once its deadline passed or a decision is on   *)
(* record: "Implementations are responsible for honoring `req.timeout`     *)
(* and returning `ApprovalOutcome::TimedOut` when it elapses"              *)
(* (approval-gate/src/lib.rs, trait ApprovalChannel).                      *)
(***************************************************************************)
TimeoutHonoured == Due ~> requester = "idle"

(***************************************************************************)
(* As long as no client leaves its GET unread for ever, no wake-up is lost *)
(* and the deadline ends the wait, whatever a sender stalled in a body     *)
(* does (Condvar, notify_all, wait_timeout; resolve reads outside the      *)
(* lock).                                                                  *)
(***************************************************************************)
RequestAnswered == []<>Unlocked => TimeoutHonoured

\* The channel the trait promises, with the votes sent about the last request.
Channel == INSTANCE ApprovalChannel WITH
    outstanding <- (requester # "idle"),
    votes <- {p.decision : p \in {q \in sent : q.about = asked}}

\* request_approval and the server thread implement the trait's contract.
ImplementsChannel == Channel!Spec
=============================================================================
