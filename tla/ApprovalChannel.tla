--------------------------- MODULE ApprovalChannel ---------------------------
(***************************************************************************)
(* What the mediator relies on when it calls request_approval              *)
(* (crates/approval-gate/src/lib.rs, trait ApprovalChannel): requests and  *)
(* their outcomes alternate, a grant or a rejection was given by an        *)
(* approver for that very request, and a timeout comes at its deadline.    *)
(* A channel that fails returns an error, which grants nothing.            *)
(***************************************************************************)
EXTENDS Naturals, Sequences

VARIABLES
    asked,        \* how many requests there have been
    outstanding,  \* whether the last one still waits
    expired,      \* whether its deadline passed
    votes,        \* the decisions approvers gave for it
    outcomes      \* the outcome of each answered request

channelVars == <<asked, outstanding, expired, votes, outcomes>>

Verdicts == {"granted", "rejected"}

Init ==
    /\ asked = 0 /\ ~outstanding /\ ~expired /\ votes = {} /\ outcomes = <<>>

Ask ==
    /\ ~outstanding
    /\ asked' = asked + 1 /\ outstanding' = TRUE /\ expired' = FALSE /\ votes' = {}
    /\ UNCHANGED outcomes

\* A vote that comes after the outcome counts for nothing.
Vote(d) ==
    /\ asked > 0
    /\ votes' = votes \cup {d}
    /\ UNCHANGED <<asked, outstanding, expired, outcomes>>

Expire ==
    /\ outstanding
    /\ expired' = TRUE
    /\ UNCHANGED <<asked, outstanding, votes, outcomes>>

Answer(o) ==
    /\ outstanding
    /\ o \in votes \/ (o = "timed_out" /\ expired) \/ o = "error"
    /\ outcomes' = Append(outcomes, o) /\ outstanding' = FALSE
    /\ UNCHANGED <<asked, expired, votes>>

Next ==
    \/ Ask
    \/ \E d \in Verdicts : Vote(d)
    \/ Expire
    \/ \E o \in Verdicts \cup {"timed_out", "error"} : Answer(o)

Spec == Init /\ [][Next]_channelVars
=============================================================================
