--------------------------- MODULE ChannelsProof ---------------------------
(***************************************************************************)
(* What a session waits for, proved for every number of requests, posts,   *)
(* typed lines, connections, MCP servers and tool calls: the web and the   *)
(* mTLS channel implement the channel's contract, the terminal loses no    *)
(* more lines than requests timed out, and a tool call returns the answer  *)
(* to that call.                                                           *)
(***************************************************************************)
EXTENDS MCChannels, FiniteSetTheorems, TLAPS

-----------------------------------------------------------------------------
(* The web channel.                                                        *)

\* The decision of post p stands for a vote that was sent about request n.
Sent(d, n) == \E q \in sent : q.about = n /\ q.decision = d

WebType ==
    /\ requester \in {"idle", "locking", "waiting"} /\ asked \in Nat
    /\ expired \in BOOLEAN /\ notified \in BOOLEAN
    /\ posts \subseteq Posts /\ sent \subseteq Posts
    /\ server \in {"listening", "reading", "listing", "stopped"}

(***************************************************************************)
(* Where a decision is on its way (a post with the token, the request in   *)
(* the server thread, the table), it was sent about the request whose id   *)
(* it carries.                                                             *)
(***************************************************************************)
DecisionsSent ==
    /\ \A p \in posts : p.token => Sent(p.decision, p.id)
    /\ server = "reading" =>
          current.decision \in Verdicts /\ Sent(current.decision, current.id)
    /\ \A i \in DOMAIN pending :
          pending[i] # "none" => pending[i] \in Verdicts /\ Sent(pending[i], i)

OutcomesType ==
    /\ outcomes \in Seq(Verdicts \cup {"timed_out"})
    /\ asked = IF requester = "idle" THEN Len(outcomes) ELSE Len(outcomes) + 1

(***************************************************************************)
(* Nobody decides about a request that no GET has shown, and none shows    *)
(* one that waits for the mutex to enter the table.                        *)
(***************************************************************************)
ShownFirst ==
    /\ shown \subseteq 1..asked
    /\ requester = "locking" => asked \notin shown
    /\ \A p \in posts : p.id \in shown
    /\ server = "reading" => current.id \in shown
    /\ \A k \in DOMAIN answered : answered[k].id \in shown

Answers == [id : Nat, decision : Verdicts, after : Nat]

\* The last decision about request n answered in time is d.
LastWord(n, d) == \E k \in InTime(n) : /\ \A j \in InTime(n) : j <= k
                                      /\ d = answered[k].decision

(***************************************************************************)
(* The table has what was answered: the outstanding request's entry is the *)
(* last decision about it answered with 200, or none was.                  *)
(***************************************************************************)
TableHeard ==
    /\ answered \in Seq(Answers)
    /\ \A k \in DOMAIN answered : answered[k].after <= Len(outcomes)
    /\ requester = "waiting" =>
          IF pending[Id] = "none" THEN InTime(asked) = {}
          ELSE LastWord(asked, pending[Id])

WebInv ==
    /\ WebType /\ OnlyOutstandingPending /\ DecisionsSent /\ OutcomesType
    /\ ShownFirst /\ TableHeard /\ AnsweredAreHeard

-----------------------------------------------------------------------------
(* The invariant.                                                          *)

\* Types and the sent votes.
LEMMA WebTypeStep ==
    ASSUME WebType, [Next]_vars
    PROVE  WebType'
<1>. USE DEF WebType
<1>0. asked' = asked => Posts' = Posts
  BY DEF Posts
<1>1. CASE Ask
  <2>1. asked' = asked + 1
    BY <1>1 DEF Ask
  <2>2. ASSUME NEW p \in Posts PROVE p \in Posts'
    <3>1. {RequestId(n) : n \in 1..asked} \subseteq {RequestId(n) : n \in 1..asked'}
      BY <2>1
    <3>2. 1..asked \subseteq 1..asked'
      BY <2>1
    <3>. QED
      BY <3>1, <3>2 DEF Posts
  <2>3. posts' \subseteq Posts' /\ sent' \subseteq Posts'
    <3>1. posts' = posts /\ sent' = sent
      BY <1>1 DEF Ask, Wire
    <3>. QED
      BY <2>2, <3>1
  <2>4. requester' \in {"idle", "locking", "waiting"} /\ asked' \in Nat
           /\ server' \in {"listening", "reading", "listing", "stopped"}
    BY <1>1 DEF Ask, Wire
  <2>5. expired' \in BOOLEAN /\ notified' \in BOOLEAN
    BY <1>1 DEF Ask
  <2>. QED
    BY <2>3, <2>4, <2>5
<1>2. CASE Wake \/ Enter
  BY <1>0, <1>2 DEF Wake, Enter, Loop, Return, Wire
<1>3. CASE Expire
  BY <1>0, <1>3 DEF Expire, Wire
<1>4. CASE Post
  BY <1>0, <1>4 DEF Post, Table
<1>5. CASE Receive
  BY <1>0, <1>5 DEF Receive, Table
<1>6. CASE List \/ Listed
  BY <1>0, <1>6 DEF List, Listed, Table
<1>7. CASE Resolve
  BY <1>0, <1>7 DEF Resolve
<1>8. CASE Unblock \/ Stop \/ Joined \/ UNCHANGED vars
  BY <1>0, <1>8 DEF Unblock, Stop, Joined, vars, Table, Wire
<1>. QED
  BY <1>1, <1>2, <1>3, <1>4, <1>5, <1>6, <1>7, <1>8 DEF Next

\* request_approval removes its entry on every return.
LEMMA TableStep ==
    ASSUME WebType, OnlyOutstandingPending, [Next]_vars
    PROVE  OnlyOutstandingPending'
<1>. USE DEF WebType, OnlyOutstandingPending, Id, RequestId
<1>1. CASE Ask \/ Enter
  BY <1>1 DEF Ask, Enter
<1>2. CASE Wake
  BY <1>2 DEF Wake, Loop, Return, Removed
<1>3. CASE Resolve
  BY <1>3 DEF Resolve, Recorded
<1>4. CASE Expire \/ Post \/ Receive \/ List \/ Listed
  BY <1>4 DEF Expire, Post, Receive, List, Listed, Table
<1>5. CASE Unblock \/ Stop \/ Joined \/ UNCHANGED vars
  BY <1>5 DEF Unblock, Stop, Joined, vars, Table
<1>. QED
  BY <1>1, <1>2, <1>3, <1>4, <1>5 DEF Next

\* Nothing but a post with the token brings a decision into the table.
LEMMA DecisionsStep ==
    ASSUME WebInv, [Next]_vars
    PROVE  DecisionsSent'
<1>. USE DEF WebInv, WebType, DecisionsSent, Sent
<1>1. CASE Ask \/ Enter
  BY <1>1 DEF Ask, Enter, Wire
<1>2. CASE Wake
  BY <1>2 DEF Wake, Loop, Return, Removed, Wire
<1>3. CASE Expire
  BY <1>3 DEF Expire, Wire
<1>4. CASE Post
  BY <1>4 DEF Post, Table, Posts, RequestId
<1>5. CASE Receive
  BY <1>5 DEF Receive, Table, Posts
<1>6. CASE List \/ Listed
  BY <1>6 DEF List, Listed, Table
<1>7. CASE Resolve
  BY <1>7 DEF Resolve, Recorded
<1>8. CASE Unblock \/ Stop \/ Joined \/ UNCHANGED vars
  BY <1>8 DEF Unblock, Stop, Joined, vars, Table, Wire
<1>. QED
  BY <1>1, <1>2, <1>3, <1>4, <1>5, <1>6, <1>7, <1>8 DEF Next

\* A pass of the loop returns what the table has, or a timeout.
LEMMA WakeReturns ==
    ASSUME WebInv, Wake
    PROVE  /\ requester = "waiting" /\ UNCHANGED <<Wire, asked, expired>>
           /\ \/ /\ pending[Id] \in Verdicts /\ requester' = "idle"
                 /\ outcomes' = Append(outcomes, pending[Id])
              \/ /\ pending[Id] = "none" /\ expired /\ requester' = "idle"
                 /\ outcomes' = Append(outcomes, "timed_out")
              \/ /\ pending[Id] = "none" /\ UNCHANGED <<outcomes, pending, requester>>
BY DEF Wake, Loop, Return, WebInv, OnlyOutstandingPending, DecisionsSent

\* An outcome is a decision of the table or a timeout, one for each request.
LEMMA OutcomesStep ==
    ASSUME WebInv, [Next]_vars
    PROVE  OutcomesType'
<1>. USE DEF WebInv, WebType, OutcomesType
<1>1. CASE Wake
  <2>1. requester = "waiting" /\ asked' = asked /\ asked = Len(outcomes) + 1
    BY <1>1, WakeReturns
  <2>2. CASE UNCHANGED <<outcomes, pending, requester>>
    BY <2>1, <2>2
  <2>3. ASSUME NEW o \in Verdicts \cup {"timed_out"}, outcomes' = Append(outcomes, o),
               requester' = "idle"
        PROVE  OutcomesType'
    BY <2>1, <2>3
  <2>. QED
    BY <1>1, <2>2, <2>3, WakeReturns
<1>2. CASE Ask \/ Expire \/ Post \/ Receive \/ List \/ Listed \/ Resolve
  BY <1>2 DEF Ask, Expire, Post, Receive, List, Listed, Resolve, Table
<1>3. CASE Enter
  BY <1>3 DEF Enter
<1>4. CASE Unblock \/ Stop \/ Joined \/ UNCHANGED vars
  BY <1>4 DEF Unblock, Stop, Joined, vars, Table
<1>. QED
  BY <1>1, <1>2, <1>3, <1>4 DEF Next

\* What is posted, read and answered is about what was shown.
LEMMA ShownStep ==
    ASSUME WebInv, [Next]_vars
    PROVE  ShownFirst'
<1>. USE DEF WebInv, WebType, ShownFirst, RequestId
<1>1. CASE Ask
  BY <1>1 DEF Ask, Wire
<1>2. CASE Enter \/ Wake
  BY <1>2 DEF Enter, Wake, Loop, Return, Wire
<1>3. CASE Expire
  BY <1>3 DEF Expire, Wire
<1>4. CASE Post
  BY <1>4 DEF Post, Table
<1>5. CASE Receive
  BY <1>5 DEF Receive, Table
<1>6. CASE List
  <2>1. requester = "locking" => asked \notin DOMAIN pending
    BY DEF OnlyOutstandingPending
  <2>. QED
    BY <1>6, <2>1 DEF List, Table
<1>7. CASE Resolve
  <2>1. answered' = Append(answered, [id |-> current.id, decision |-> current.decision,
                                      after |-> Len(outcomes)])
           /\ server = "reading" /\ server' = "listening"
           /\ UNCHANGED <<requester, asked, posts, shown>>
    BY <1>7 DEF Resolve
  <2>2. answered \in Seq(Answers)
    BY DEF TableHeard
  <2>3. \A k \in DOMAIN answered' : answered'[k].id \in shown
    BY <2>1, <2>2
  <2>. QED
    BY <2>1, <2>3
<1>8. CASE Listed
  BY <1>8 DEF Listed, Table
<1>9. CASE Unblock \/ Stop \/ Joined \/ UNCHANGED vars
  BY <1>9 DEF Unblock, Stop, Joined, vars, Table, Wire
<1>. QED
  BY <1>1, <1>2, <1>3, <1>4, <1>5, <1>6, <1>7, <1>8, <1>9 DEF Next

\* resolve: the answer is the last word about the request it names, if that waits.
LEMMA ResolveHeard ==
    ASSUME WebInv, Resolve
    PROVE  TableHeard' /\ AnsweredAreHeard'
<1>. DEFINE new == [id |-> current.id, decision |-> current.decision,
                    after |-> Len(outcomes)]
<1>1. /\ answered' = Append(answered, new)
      /\ UNCHANGED <<requester, asked, outcomes>> /\ server = "reading"
  BY DEF Resolve
<1>2. /\ answered \in Seq(Answers) /\ outcomes \in Seq(Verdicts \cup {"timed_out"})
      /\ Len(outcomes) \in Nat /\ asked \in Nat
  BY DEF WebInv, TableHeard, OutcomesType, WebType
<1>3. new \in Answers
  <2>1. current.id \in shown /\ shown \subseteq 1..asked /\ current.decision \in Verdicts
    BY <1>1 DEF WebInv, DecisionsSent, ShownFirst
  <2>2. current.id \in Nat
    <3>1. current.id \in 1..asked
      BY <2>1
    <3>. QED
      BY <1>2, <3>1
  <2>. QED
    BY <1>2, <2>1, <2>2 DEF Answers
<1>4. /\ answered' \in Seq(Answers)
      /\ DOMAIN answered' = DOMAIN answered \cup {Len(answered) + 1}
      /\ \A k \in DOMAIN answered : answered'[k] = answered[k]
      /\ answered'[Len(answered) + 1] = new /\ Len(answered) \in Nat
  BY <1>1, <1>2, <1>3
<1>5. \A k \in DOMAIN answered' : answered'[k].after <= Len(outcomes')
  BY <1>1, <1>2, <1>4 DEF WebInv, TableHeard
<1>6. ASSUME NEW n \in Nat, n <= Len(outcomes) \/ current.id # n
      PROVE  InTime(n)' = InTime(n)
  BY <1>1, <1>2, <1>4, <1>6 DEF InTime, RequestId
<1>7. AnsweredAreHeard'
  <2>. SUFFICES ASSUME NEW n \in DOMAIN outcomes
       PROVE  IF InTime(n)' = {} THEN outcomes[n] = "timed_out"
              ELSE \E k \in InTime(n)' : /\ \A j \in InTime(n)' : j <= k
                                         /\ outcomes[n] = answered'[k].decision
    BY <1>1 DEF AnsweredAreHeard
  <2>1. InTime(n)' = InTime(n) /\ InTime(n) \subseteq DOMAIN answered
    BY <1>2, <1>6 DEF InTime
  <2>. QED
    BY <1>4, <2>1 DEF WebInv, AnsweredAreHeard
<1>8. ASSUME requester = "waiting"
      PROVE  (IF pending[Id] = "none" THEN InTime(asked) = {}
              ELSE LastWord(asked, pending[Id]))'
  <2>1. Id = asked /\ Id' = asked /\ DOMAIN pending = {asked} /\ asked = Len(outcomes) + 1
    BY <1>1, <1>8 DEF WebInv, OnlyOutstandingPending, OutcomesType, Id, RequestId
  <2>2. CASE current.id = asked
    <3>1. pending'[asked] = current.decision /\ current.decision # "none"
      BY <1>1, <2>1, <2>2 DEF Resolve, Recorded, WebInv, DecisionsSent, Verdicts
    <3>2. Len(answered) + 1 \in InTime(asked)'
      BY <1>1, <1>2, <1>4, <2>1, <2>2 DEF InTime, RequestId
    <3>3. \A j \in InTime(asked)' : j <= Len(answered) + 1
      BY <1>2, <1>4 DEF InTime
    <3>. QED
      BY <1>1, <1>4, <2>1, <3>1, <3>2, <3>3 DEF LastWord
  <2>3. CASE current.id # asked
    <3>1. pending' = pending
      BY <2>1, <2>3 DEF Resolve, Recorded
    <3>2. InTime(asked)' = InTime(asked) /\ InTime(asked) \subseteq DOMAIN answered
      BY <1>1, <1>2, <1>6, <2>3 DEF InTime
    <3>. QED
      BY <1>1, <1>4, <1>8, <2>1, <3>1, <3>2 DEF WebInv, TableHeard, LastWord
  <2>. QED
    BY <2>2, <2>3
<1>9. TableHeard'
  BY <1>1, <1>4, <1>5, <1>8 DEF TableHeard
<1>. QED
  BY <1>7, <1>9

\* A request that returns was told the last word about it.
LEMMA ReturnHeard ==
    ASSUME WebInv, NEW o,
           requester # "idle", outcomes' = Append(outcomes, o), requester' = "idle",
           UNCHANGED <<asked, answered>>,
           \/ o = "timed_out" /\ InTime(asked) = {}
           \/ o \in Verdicts /\ LastWord(asked, o)
    PROVE  TableHeard' /\ AnsweredAreHeard'
<1>1. /\ outcomes \in Seq(Verdicts \cup {"timed_out"}) /\ answered \in Seq(Answers)
      /\ asked = Len(outcomes) + 1 /\ Len(outcomes) \in Nat
  BY DEF WebInv, OutcomesType, TableHeard
<1>2. /\ Len(outcomes') = asked /\ DOMAIN outcomes' = DOMAIN outcomes \cup {asked}
      /\ outcomes'[asked] = o /\ \A n \in DOMAIN outcomes : outcomes'[n] = outcomes[n]
  BY <1>1 DEF Verdicts
<1>3. TableHeard'
  <2>1. \A k \in DOMAIN answered : answered[k].after \in Nat /\ answered[k].after <= Len(outcomes)
    <3>1. \A k \in DOMAIN answered : answered[k] \in Answers
      BY <1>1
    <3>2. \A k \in DOMAIN answered : answered[k].after <= Len(outcomes)
      BY DEF WebInv, TableHeard
    <3>. QED
      BY <3>1, <3>2 DEF Answers
  <2>2. Len(outcomes) <= Len(outcomes')
    BY <1>1, <1>2
  <2>3. \A k \in DOMAIN answered' : answered'[k].after <= Len(outcomes')
    BY <1>1, <1>2, <2>1, <2>2
  <2>. QED
    BY <1>1, <2>3 DEF TableHeard
<1>4. \A n : InTime(n)' = InTime(n)
  BY DEF InTime, RequestId
<1>5. (InTime(asked) # {}) <=> o # "timed_out"
  BY DEF LastWord, Verdicts
<1>6. AnsweredAreHeard'
  <2>. SUFFICES ASSUME NEW n \in DOMAIN outcomes'
       PROVE  IF InTime(n) = {} THEN outcomes'[n] = "timed_out"
              ELSE \E k \in InTime(n) : /\ \A j \in InTime(n) : j <= k
                                        /\ outcomes'[n] = answered[k].decision
    BY <1>4 DEF AnsweredAreHeard
  <2>1. CASE n = asked
    BY <1>2, <1>5, <2>1 DEF LastWord
  <2>2. CASE n \in DOMAIN outcomes
    BY <1>2, <2>2 DEF WebInv, AnsweredAreHeard
  <2>. QED
    BY <1>2, <2>1, <2>2
<1>. QED
  BY <1>3, <1>6

\* Steps that leave the request, its entry, the answers and the outcomes alone.
LEMMA SameHeard ==
    ASSUME WebInv, UNCHANGED <<requester, asked, pending, answered, outcomes>>
    PROVE  TableHeard' /\ AnsweredAreHeard'
<1>1. \A n : InTime(n)' = InTime(n)
  BY DEF InTime, RequestId
<1>2. \A n, d : LastWord(n, d)' = LastWord(n, d)
  BY <1>1 DEF LastWord
<1>3. TableHeard'
  BY <1>1, <1>2 DEF WebInv, TableHeard, Id, RequestId
<1>. QED
  BY <1>1, <1>3 DEF WebInv, AnsweredAreHeard

\* A request that starts has no answer yet, and one that waits has the last of them.
LEMMA HeardStep ==
    ASSUME WebInv, [Next]_vars
    PROVE  TableHeard' /\ AnsweredAreHeard'
<1>0. \A n : answered' = answered => InTime(n)' = InTime(n)
  BY DEF InTime, RequestId
<1>1. CASE Ask
  <2>1. requester' = "locking" /\ UNCHANGED <<answered, outcomes>>
    BY <1>1 DEF Ask, Wire
  <2>. QED
    BY <1>0, <2>1 DEF WebInv, TableHeard, AnsweredAreHeard
<1>2. CASE Enter
  <2>1. InTime(asked) = {}
    BY <1>2 DEF Enter, InTime, RequestId, WebInv, ShownFirst
  <2>2. CASE expired
    BY <1>2, <2>1, <2>2, ReturnHeard DEF Enter, Wire
  <2>3. CASE ~expired
    <3>1. requester' = "waiting" /\ UNCHANGED <<asked, answered, outcomes>>
             /\ pending'[Id'] = "none"
      BY <1>2, <2>3 DEF Enter, Wire, Id, RequestId
    <3>. QED
      BY <1>0, <2>1, <3>1 DEF WebInv, TableHeard, AnsweredAreHeard
  <2>. QED
    BY <2>2, <2>3
<1>3. CASE Wake
  <2>1. /\ requester = "waiting" /\ UNCHANGED <<Wire, asked, expired>>
        /\ IF pending[Id] = "none" THEN InTime(asked) = {} ELSE LastWord(asked, pending[Id])
    BY <1>3, WakeReturns DEF WebInv, TableHeard
  <2>2. CASE UNCHANGED <<outcomes, pending, requester>>
    BY <2>1, <2>2, SameHeard DEF Wire
  <2>3. CASE pending[Id] \in Verdicts /\ requester' = "idle"
                /\ outcomes' = Append(outcomes, pending[Id])
    BY <2>1, <2>3, ReturnHeard DEF Wire, Verdicts
  <2>4. CASE pending[Id] = "none" /\ requester' = "idle"
                /\ outcomes' = Append(outcomes, "timed_out")
    BY <2>1, <2>4, ReturnHeard DEF Wire
  <2>. QED
    BY <1>3, <2>2, <2>3, <2>4, WakeReturns
<1>4. CASE Resolve
  BY <1>4, ResolveHeard
<1>5. CASE Expire \/ Post \/ Receive \/ List \/ Listed
  BY <1>5, SameHeard DEF Expire, Post, Receive, List, Listed, Table, Wire
<1>6. CASE Unblock \/ Stop \/ Joined \/ UNCHANGED vars
  BY <1>6, SameHeard DEF Unblock, Stop, Joined, vars, Table, Wire
<1>. QED
  BY <1>1, <1>2, <1>3, <1>4, <1>5, <1>6 DEF Next

\* The invariant holds in every state (request_approval, serve, resolve).
LEMMA WebInvariant == Spec => []WebInv
<1>1. Init => WebInv
  <2>. SUFFICES ASSUME Init PROVE WebInv
    OBVIOUS
  <2>1. DOMAIN pending = {}
    BY DEF Init
  <2>2. OutcomesType
    BY DEF Init, OutcomesType
  <2>3. ShownFirst /\ TableHeard /\ AnsweredAreHeard
    BY DEF Init, ShownFirst, TableHeard, AnsweredAreHeard
  <2>. QED
    BY <2>1, <2>2, <2>3 DEF Init, WebInv, WebType, OnlyOutstandingPending, DecisionsSent
<1>2. WebInv /\ [Next]_vars => WebInv'
  BY WebTypeStep, TableStep, DecisionsStep, OutcomesStep, ShownStep, HeardStep DEF WebInv
<1>. QED
  BY <1>1, <1>2, PTL DEF Spec

-----------------------------------------------------------------------------
(* The theorems.                                                           *)

(***************************************************************************)
(* Nothing can be granted after its outcome: the table holds the request   *)
(* that waits and no other (request_approval).                             *)
(***************************************************************************)
THEOREM TableIsOutstanding == Spec => []OnlyOutstandingPending
<1>1. WebInv => OnlyOutstandingPending
  BY DEF WebInv
<1>. QED
  BY <1>1, WebInvariant, PTL

(***************************************************************************)
(* Whoever was answered with 200 before a request returned was heard: its  *)
(* outcome is the last of these decisions, and a request only times out    *)
(* if there is none (request_approval, respond_list, resolve).             *)
(***************************************************************************)
THEOREM AnsweredHeard == Spec => []AnsweredAreHeard
<1>1. WebInv => AnsweredAreHeard
  BY DEF WebInv
<1>. QED
  BY <1>1, WebInvariant, PTL

\* A pass of the loop that returns gives an outcome the contract allows.
LEMMA WakeAnswers ==
    ASSUME WebInv, Wake
    PROVE  [Channel!Next]_Channel!channelVars
<1>. USE DEF WebInv, WebType, OnlyOutstandingPending, DecisionsSent, Sent, Id, RequestId
<1>1. CASE pending[Id] # "none"
  <2>1. requester = "waiting" /\ requester' = "idle"
           /\ outcomes' = Append(outcomes, pending[Id]) /\ UNCHANGED <<asked, expired, sent>>
    BY <1>1 DEF Wake, Loop, Return, Wire
  <2>2. pending[Id] \in Verdicts
           /\ pending[Id] \in {p.decision : p \in {q \in sent : q.about = asked}}
    BY <1>1, <2>1
  <2>3. Channel!Answer(pending[Id])
    BY <2>1, <2>2 DEF Channel!Answer
  <2>. QED
    BY <2>2, <2>3 DEF Channel!Next, Channel!Verdicts, Verdicts
<1>2. CASE pending[Id] = "none" /\ expired
  <2>1. requester = "waiting" /\ requester' = "idle"
           /\ outcomes' = Append(outcomes, "timed_out") /\ UNCHANGED <<asked, expired, sent>>
    BY <1>2 DEF Wake, Loop, Return, Wire
  <2>2. Channel!Answer("timed_out")
    BY <1>2, <2>1 DEF Channel!Answer
  <2>. QED
    BY <2>2 DEF Channel!Next
<1>3. CASE pending[Id] = "none" /\ ~expired
  BY <1>3 DEF Wake, Loop, Wire, Channel!channelVars
<1>. QED
  BY <1>1, <1>2, <1>3

\* A post is a vote if it has the token and is about the last request.
LEMMA PostVotes ==
    ASSUME WebInv, Post
    PROVE  [Channel!Next]_Channel!channelVars
<1>. USE DEF WebInv, WebType
<1>1. PICK p \in Posts :
         sent' = IF p.token THEN sent \cup {p} ELSE sent
  BY DEF Post
<1>2. UNCHANGED <<requester, asked, expired, outcomes>>
  BY DEF Post, Table
<1>3. CASE p.token /\ p.about = asked
  <2>1. {q.decision : q \in {r \in sent' : r.about = asked'}}
           = {q.decision : q \in {r \in sent : r.about = asked}} \cup {p.decision}
    BY <1>1, <1>2, <1>3
  <2>2. asked > 0 /\ p.decision \in Verdicts
    BY <1>1, <1>3 DEF Posts
  <2>3. Channel!Vote(p.decision)
    BY <1>2, <2>1, <2>2 DEF Channel!Vote
  <2>. QED
    BY <2>2, <2>3 DEF Channel!Next, Channel!Verdicts, Verdicts
<1>4. CASE ~(p.token /\ p.about = asked)
  <2>1. {r \in sent' : r.about = asked'} = {r \in sent : r.about = asked}
    BY <1>1, <1>2, <1>4
  <2>. QED
    BY <1>2, <2>1 DEF Channel!channelVars
<1>. QED
  BY <1>3, <1>4

(***************************************************************************)
(* The web channel implements the contract the mediator relies on: every   *)
(* outcome is a vote sent about that very request, or a timeout after its  *)
(* deadline (WebApprovalChannel, trait ApprovalChannel).                   *)
(***************************************************************************)
THEOREM WebImplementsChannel == Spec => ImplementsChannel
<1>1. Init => Channel!Init
  BY DEF Init, Channel!Init
<1>2. WebInv /\ [Next]_vars => [Channel!Next]_Channel!channelVars
  <2>. SUFFICES ASSUME WebInv, [Next]_vars PROVE [Channel!Next]_Channel!channelVars
    OBVIOUS
  <2>0. CASE Enter
    <3>1. UNCHANGED <<asked, expired, sent>> /\ requester = "locking"
      BY <2>0 DEF Enter, Wire
    <3>2. CASE expired
      BY <2>0, <3>1, <3>2 DEF Enter, Channel!Answer, Channel!Next
    <3>3. CASE ~expired
      BY <2>0, <3>1, <3>3 DEF Enter, Channel!channelVars
    <3>. QED
      BY <3>2, <3>3
  <2>1. CASE Ask
    <3>1. {r \in sent' : r.about = asked'} = {}
      BY <2>1 DEF Ask, Wire, WebInv, WebType, Posts
    <3>2. Channel!Ask
      BY <2>1, <3>1 DEF Ask, Channel!Ask, WebInv, WebType
    <3>. QED
      BY <3>2 DEF Channel!Next
  <2>2. CASE Wake
    BY <2>2, WakeAnswers
  <2>3. CASE Expire
    BY <2>3 DEF Expire, Wire, Channel!Next, Channel!Expire
  <2>4. CASE Post
    BY <2>4, PostVotes
  <2>5. CASE Receive \/ List \/ Listed \/ Resolve
    BY <2>5 DEF Receive, List, Listed, Resolve, Table, Channel!channelVars
  <2>6. CASE Unblock \/ Stop \/ Joined \/ UNCHANGED vars
    BY <2>6 DEF Unblock, Stop, Joined, vars, Table, Wire, Channel!channelVars
  <2>. QED
    BY <2>0, <2>1, <2>2, <2>3, <2>4, <2>5, <2>6 DEF Next
<1>. QED
  BY <1>1, <1>2, WebInvariant, PTL DEF Spec, ImplementsChannel, Channel!Spec

\* Beside the other channels and the MCP client the web channel runs as it does alone,
\* so what is proved of Spec holds of AllSpec.
LEMMA WebAmongAll == AllSpec => Spec
<1>1. AllInit => Init
  BY DEF AllInit
<1>2. [AllNext]_allVars => [Next]_vars
  BY DEF AllNext, allVars
<1> QED
  BY <1>1, <1>2, PTL DEF AllSpec, Spec

-----------------------------------------------------------------------------
(* The prompt channels, for every number of requests and decisions.        *)

Given == [verdict : {"granted", "rejected", "other", "unusable", "silent", "closed"},
          by : {"approver", "untrusted", "stranger"}]
Returned == [result : {"granted", "rejected", "other", "unusable", "silent", "closed",
                       "error", "timed_out"},
             by : Nat]

CallerType ==
    /\ requests \in Nat /\ caller \in {"idle", "waiting", "reading"}
    /\ results \in Seq(Returned) /\ decisions \in Seq(Given)

TtyType ==
    /\ readers \subseteq 1..requests /\ holder \in {0} \cup readers
    /\ stdin \in Seq(DOMAIN decisions) /\ reply \in Seq(DOMAIN decisions)

FileType ==
    /\ file \in [n : {0} \cup DOMAIN decisions, whole : BOOLEAN]
    /\ file.whole => file.n # 0

PeersType ==
    /\ backlog \in Seq(DOMAIN decisions)
    /\ serving \in [n : {0} \cup DOMAIN decisions, shown : BOOLEAN]
    /\ shownTo \subseteq DOMAIN decisions

PromptType == CallerType /\ TtyType /\ FileType /\ PeersType

(***************************************************************************)
(* The mTLS channel: a connection is served for the request that waits,    *)
(* and the one that may decide was admitted and shown that request.        *)
(***************************************************************************)
MtlsInv ==
    kind = "mtls" =>
        /\ caller # "reading"
        /\ caller = "waiting" => requests > 0
        /\ serving.n # 0 => caller = "waiting"
        /\ serving.shown => /\ serving.n # 0 /\ serving.n \in shownTo
                            /\ decisions[serving.n].by = "approver"

\* What operators may give is of the type of decisions.
LEMMA OffersGiven == /\ Prompt!Offers("tty") \subseteq Given
                     /\ Prompt!Offers("file") \subseteq Given
                     /\ Prompt!Offers("mtls") \subseteq Given
BY DEF Prompt!Offers, Prompt!Verdicts, Given

\* What a read of the terminal answers is never a timeout.
LEMMA ReadingIs ==
    ASSUME NEW d \in Given
    PROVE  Prompt!Reading(d) \in {"granted", "rejected", "other", "silent", "error"}
BY DEF Prompt!Reading, Given

\* The start.
LEMMA PromptInit == Prompt!Init => PromptType /\ MtlsInv
<1> SUFFICES ASSUME Prompt!Init PROVE PromptType /\ MtlsInv
  OBVIOUS
<1>1. CallerType
  BY DEF Prompt!Init, CallerType
<1>2. TtyType
  BY DEF Prompt!Init, TtyType
<1>3. FileType
  BY DEF Prompt!Init, FileType, Prompt!NoFile
<1>4. PeersType
  BY DEF Prompt!Init, PeersType, Prompt!NoPeer
<1>5. MtlsInv
  BY DEF Prompt!Init, MtlsInv, Prompt!NoPeer
<1> QED
  BY <1>1, <1>2, <1>3, <1>4, <1>5 DEF PromptType

\* A return adds one result and ends the wait.
LEMMA ReturnType ==
    ASSUME PromptType, NEW r \in {"granted", "rejected", "other", "unusable", "silent", "error", "timed_out"},
           NEW n \in Nat, Prompt!Return(r, n)
    PROVE  /\ results' \in Seq(Returned) /\ caller' = "idle"
           /\ Len(results') = Len(results) + 1
           /\ \A i \in 1..Len(results) : results'[i] = results[i]
           /\ results'[Len(results) + 1] = [result |-> r, by |-> n]
<1>1. [result |-> r, by |-> n] \in Returned
  BY DEF Returned
<1> QED
  BY <1>1 DEF Prompt!Return, PromptType, CallerType

\* One more decision leaves the earlier ones as they are.
LEMMA DecisionAdded ==
    ASSUME PromptType, NEW d \in Given, decisions' = Append(decisions, d)
    PROVE  /\ decisions' \in Seq(Given) /\ Len(decisions') = Len(decisions) + 1
           /\ DOMAIN decisions = 1..Len(decisions) /\ DOMAIN decisions' = 1..(Len(decisions) + 1)
           /\ DOMAIN decisions \subseteq DOMAIN decisions' /\ Len(decisions) + 1 \in DOMAIN decisions'
           /\ \A i \in DOMAIN decisions : decisions'[i] = decisions[i]
BY DEF PromptType, CallerType

\* A sequence of numbers of decisions is one still when there is one more.
LEMMA NumbersKept ==
    ASSUME NEW S, NEW T, S \subseteq T, NEW s \in Seq(S)
    PROVE  s \in Seq(T)
OBVIOUS

\* Sequences keep their type.
LEMMA AppendTyped ==
    ASSUME NEW S, NEW s \in Seq(S), NEW e \in S
    PROVE  Append(s, e) \in Seq(S)
OBVIOUS

\* What is in a sequence has its type.
LEMMA ElementTyped ==
    ASSUME NEW S, NEW s \in Seq(S), NEW i \in 1..Len(s)
    PROVE  s[i] \in S
OBVIOUS

\* The caller's variables keep their types.
LEMMA CallerTypeNext == ASSUME PromptType, Prompt!Next PROVE CallerType'
<1> USE DEF PromptType, CallerType
<1>1. CASE Prompt!Ask \/ Prompt!Expire
  BY <1>1 DEF Prompt!Ask, Prompt!Expire
<1>2. CASE Prompt!AskFails \/ Prompt!AcceptFails \/ Prompt!Timeout
  <2>1. \E r \in {"error", "timed_out"} : Prompt!Return(r, 0)
    BY <1>2 DEF Prompt!AskFails, Prompt!AcceptFails, Prompt!Timeout
  <2>2. results' \in Seq(Returned) /\ caller' = "idle"
    BY <2>1, ReturnType
  <2>3. requests' \in Nat /\ decisions' = decisions
    BY <1>2 DEF Prompt!AskFails, Prompt!AcceptFails, Prompt!Timeout
  <2> QED
    BY <2>2, <2>3
<1>3. CASE Prompt!Type \/ Prompt!Write \/ Prompt!Connect
  <2>1. \E d \in Given : decisions' = Append(decisions, d)
    BY <1>3, OffersGiven DEF Prompt!Type, Prompt!Write, Prompt!Connect
  <2>2. decisions' \in Seq(Given)
    BY <2>1, DecisionAdded
  <2>3. UNCHANGED <<requests, caller, results>>
    BY <1>3 DEF Prompt!Type, Prompt!Write, Prompt!Connect
  <2> QED
    BY <2>2, <2>3
<1>4. CASE Prompt!Receive
  <2>0. UNCHANGED <<requests, decisions>>
    BY <1>4 DEF Prompt!Receive
  <2>1. CASE reply # <<>> /\ Prompt!Return(Prompt!Reading(decisions[reply[1]]), reply[1])
    <3>1. reply[1] \in DOMAIN decisions
      BY <2>1 DEF TtyType
    <3>2. decisions[reply[1]] \in Given /\ reply[1] \in Nat
      BY <3>1
    <3>3. results' \in Seq(Returned) /\ caller' = "idle"
      <4>1. Prompt!Reading(decisions[reply[1]]) \in {"granted", "rejected", "other", "silent", "error"}
        BY <3>2, ReadingIs
      <4> QED
        BY <2>1, <3>2, <4>1, ReturnType
    <3> QED
      BY <2>0, <3>3
  <2>2. CASE Prompt!Return("timed_out", 0)
    BY <2>0, <2>2, ReturnType
  <2> QED
    BY <1>4, <2>1, <2>2 DEF Prompt!Receive
<1>5. CASE Prompt!Poll
  BY <1>5, ReturnType DEF Prompt!Poll
<1>6. CASE Prompt!ReadFile
  <2>0. UNCHANGED <<requests, decisions>>
    BY <1>6 DEF Prompt!ReadFile
  <2>1. file.n \in Nat
    BY DEF FileType
  <2>2. CASE \E r \in {"granted", "rejected"} : Prompt!Return(r, file.n)
    BY <2>0, <2>1, <2>2, ReturnType
  <2>3. CASE Prompt!Return("error", file.n)
    BY <2>0, <2>1, <2>3, ReturnType
  <2> QED
    BY <1>6, <2>2, <2>3 DEF Prompt!ReadFile, Prompt!Verdicts
<1>7. CASE Prompt!Decide
  <2>0. UNCHANGED <<requests, decisions>>
    BY <1>7 DEF Prompt!Decide
  <2>1. serving.n \in Nat
    BY DEF PeersType
  <2>2. CASE UNCHANGED <<results, caller>>
    BY <2>0, <2>2
  <2>3. CASE \E r \in {"granted", "rejected", "error"} : Prompt!Return(r, serving.n)
    BY <2>0, <2>1, <2>3, ReturnType
  <2> QED
    BY <1>7, <2>2, <2>3 DEF Prompt!Decide, Prompt!Verdicts
<1>8. CASE UNCHANGED <<requests, caller, results, decisions>>
  BY <1>8
<1> QED
  BY <1>1, <1>2, <1>3, <1>4, <1>5, <1>6, <1>7, <1>8
  DEF Prompt!Next, Prompt!Finished, Prompt!vars, Prompt!Lock, Prompt!ReadLine, Prompt!WriteDone,
      Prompt!Remove, Prompt!Accept, Prompt!Handshake, Prompt!HangUp

\* The terminal's variables keep their types.
LEMMA TtyTypeNext == ASSUME PromptType, Prompt!Next PROVE TtyType'
<1> USE DEF PromptType, TtyType
<1>a. requests \in Nat
  BY DEF CallerType
<1>1. CASE Prompt!Ask
  <2>1. requests' = requests + 1 /\ readers' \subseteq readers \cup {requests + 1}
        /\ UNCHANGED <<holder, stdin, decisions>> /\ reply' = <<>>
        /\ readers \subseteq readers'
    BY <1>1 DEF Prompt!Ask
  <2>2. 1..(requests + 1) = 1..requests \cup {requests + 1}
    BY <1>a
  <2> QED
    BY <2>1, <2>2
<1>2. CASE Prompt!AskFails
  <2>1. requests' = requests + 1 /\ UNCHANGED <<readers, holder, stdin, reply, decisions>>
    BY <1>2 DEF Prompt!AskFails, Prompt!tty
  <2>2. 1..(requests + 1) = 1..requests \cup {requests + 1}
    BY <1>a
  <2> QED
    BY <2>1, <2>2
<1>3. CASE Prompt!Type \/ Prompt!Write \/ Prompt!Connect
  <2>1. \E d \in Given : decisions' = Append(decisions, d)
    BY <1>3, OffersGiven DEF Prompt!Type, Prompt!Write, Prompt!Connect
  <2>2. /\ DOMAIN decisions \subseteq DOMAIN decisions' /\ Len(decisions') \in DOMAIN decisions'
    BY <2>1, DecisionAdded
  <2>3. UNCHANGED <<requests, readers, holder, reply>>
        /\ (stdin' = stdin \/ stdin' = Append(stdin, Len(decisions')))
    BY <1>3 DEF Prompt!Type, Prompt!Write, Prompt!Connect, Prompt!tty
  <2>4. stdin \in Seq(DOMAIN decisions') /\ reply \in Seq(DOMAIN decisions')
    BY <2>2, NumbersKept
  <2>5. stdin' \in Seq(DOMAIN decisions')
    <3>1. Append(stdin, Len(decisions')) \in Seq(DOMAIN decisions')
      BY <2>2, <2>4, AppendTyped
    <3> QED
      BY <2>3, <2>4, <3>1
  <2> QED
    BY <2>3, <2>4, <2>5
<1>4. CASE \E r \in readers : Prompt!Lock(r)
  BY <1>4 DEF Prompt!Lock
<1>5. CASE Prompt!ReadLine
  <2>1. /\ stdin # <<>> /\ (stdin' = Tail(stdin) \/ stdin' = stdin) /\ holder' = 0
        /\ readers' = readers \ {holder} /\ (reply' = <<Head(stdin)>> \/ reply' = reply)
        /\ UNCHANGED <<requests, decisions>>
    BY <1>5 DEF Prompt!ReadLine, Prompt!Send, Prompt!Rest
  <2>2. stdin' \in Seq(DOMAIN decisions) /\ Head(stdin) \in DOMAIN decisions
    <3>1. Tail(stdin) \in Seq(DOMAIN decisions) /\ Head(stdin) \in DOMAIN decisions
      BY <2>1
    <3> QED
      BY <2>1, <3>1
  <2>3. <<Head(stdin)>> \in Seq(DOMAIN decisions)
    BY <2>2
  <2> QED
    BY <2>1, <2>2, <2>3
<1>6. CASE UNCHANGED <<requests, readers, holder, stdin, reply, decisions>>
  BY <1>6
<1> QED
  BY <1>1, <1>2, <1>3, <1>4, <1>5, <1>6
  DEF Prompt!Next, Prompt!Finished, Prompt!vars, Prompt!tty, Prompt!Expire, Prompt!Receive,
      Prompt!WriteDone, Prompt!Remove, Prompt!Poll, Prompt!ReadFile, Prompt!Accept,
      Prompt!AcceptFails, Prompt!Handshake, Prompt!HangUp, Prompt!Decide, Prompt!Timeout

\* The decision file keeps its type.
LEMMA FileTypeNext == ASSUME PromptType, Prompt!Next PROVE FileType'
<1> USE DEF PromptType, FileType
<1>1. CASE Prompt!Type \/ Prompt!Write \/ Prompt!Connect
  <2>1. \E d \in Given : decisions' = Append(decisions, d)
    BY <1>1, OffersGiven DEF Prompt!Type, Prompt!Write, Prompt!Connect
  <2>2. /\ DOMAIN decisions \subseteq DOMAIN decisions' /\ Len(decisions') \in DOMAIN decisions'
    BY <2>1, DecisionAdded
  <2>3. file' = file \/ file' = [n |-> Len(decisions'), whole |-> FALSE]
    BY <1>1 DEF Prompt!Type, Prompt!Write, Prompt!Connect
  <2>4. CASE file' = file
    BY <2>2, <2>4
  <2>5. CASE file' = [n |-> Len(decisions'), whole |-> FALSE]
    <3>1. file' \in [n : {0} \cup DOMAIN decisions', whole : BOOLEAN]
      BY <2>2, <2>5
    <3> QED
      BY <3>1, <2>5
  <2> QED
    BY <2>3, <2>4, <2>5
<1>2. CASE Prompt!WriteDone
  BY <1>2 DEF Prompt!WriteDone
<1>3. CASE Prompt!Remove
  BY <1>3 DEF Prompt!Remove, Prompt!NoFile
<1>4. CASE UNCHANGED <<file, decisions>>
  BY <1>4
<1> QED
  BY <1>1, <1>2, <1>3, <1>4
  DEF Prompt!Next, Prompt!Finished, Prompt!vars, Prompt!Ask, Prompt!AskFails, Prompt!Lock,
      Prompt!ReadLine, Prompt!Expire, Prompt!Receive, Prompt!Poll, Prompt!ReadFile, Prompt!Accept,
      Prompt!AcceptFails, Prompt!Handshake, Prompt!HangUp, Prompt!Decide, Prompt!Timeout

\* The listener's variables keep their types.
LEMMA PeersTypeNext == ASSUME PromptType, Prompt!Next PROVE PeersType'
<1> USE DEF PromptType, PeersType
<1>1. CASE Prompt!Type \/ Prompt!Write \/ Prompt!Connect
  <2>1. \E d \in Given : decisions' = Append(decisions, d)
    BY <1>1, OffersGiven DEF Prompt!Type, Prompt!Write, Prompt!Connect
  <2>2. /\ DOMAIN decisions \subseteq DOMAIN decisions' /\ Len(decisions') \in DOMAIN decisions'
    BY <2>1, DecisionAdded
  <2>3. UNCHANGED <<serving, shownTo>>
        /\ (backlog' = backlog \/ backlog' = Append(backlog, Len(decisions')))
    BY <1>1 DEF Prompt!Type, Prompt!Write, Prompt!Connect, Prompt!peers
  <2>4. backlog \in Seq(DOMAIN decisions')
    BY <2>2, NumbersKept
  <2> QED
    BY <2>2, <2>3, <2>4
<1>2. CASE Prompt!Accept
  <2>1. /\ backlog # <<>> /\ backlog' = Tail(backlog) /\ UNCHANGED <<shownTo, decisions>>
        /\ serving' = [n |-> Head(backlog), shown |-> FALSE]
    BY <1>2 DEF Prompt!Accept
  <2>2. backlog' \in Seq(DOMAIN decisions) /\ Head(backlog) \in DOMAIN decisions
    BY <2>1
  <2> QED
    BY <2>1, <2>2
<1>3. CASE Prompt!Handshake
  <2>1. /\ UNCHANGED <<backlog, decisions>> /\ serving.n # 0
        /\ \/ serving' = [serving EXCEPT !.shown = TRUE] /\ shownTo' = shownTo \cup {serving.n}
           \/ serving' = Prompt!NoPeer /\ shownTo' = shownTo
    BY <1>3 DEF Prompt!Handshake
  <2>2. CASE serving' = [serving EXCEPT !.shown = TRUE] /\ shownTo' = shownTo \cup {serving.n}
    <3>1. serving.n \in DOMAIN decisions
      BY <2>1
    <3>2. serving' \in [n : {0} \cup DOMAIN decisions, shown : BOOLEAN]
      BY <2>2
    <3> QED
      BY <2>1, <2>2, <3>1, <3>2
  <2>3. CASE serving' = Prompt!NoPeer /\ shownTo' = shownTo
    <3>1. serving' \in [n : {0} \cup DOMAIN decisions, shown : BOOLEAN]
      BY <2>3 DEF Prompt!NoPeer
    <3> QED
      BY <2>1, <2>3, <3>1
  <2> QED
    BY <2>1, <2>2, <2>3
<1>4. CASE /\ UNCHANGED <<backlog, decisions>> /\ serving' \in {serving, Prompt!NoPeer}
           /\ shownTo' \in {shownTo, {}}
  <2>1. Prompt!NoPeer \in [n : {0} \cup DOMAIN decisions, shown : BOOLEAN]
    BY DEF Prompt!NoPeer
  <2>2. serving' \in [n : {0} \cup DOMAIN decisions, shown : BOOLEAN]
    BY <1>4, <2>1
  <2>3. shownTo' \subseteq DOMAIN decisions
    BY <1>4
  <2> QED
    BY <1>4, <2>2, <2>3
<1> QED
  BY <1>1, <1>2, <1>3, <1>4
  DEF Prompt!Next, Prompt!Finished, Prompt!vars, Prompt!Ask, Prompt!AskFails, Prompt!Lock,
      Prompt!ReadLine, Prompt!Expire, Prompt!Receive, Prompt!Poll, Prompt!ReadFile,
      Prompt!AcceptFails, Prompt!HangUp, Prompt!Decide, Prompt!Timeout, Prompt!peers,
      Prompt!WriteDone, Prompt!Remove

\* All of them.
LEMMA PromptTypeNext == PromptType /\ Prompt!Next => PromptType'
BY CallerTypeNext, TtyTypeNext, FileTypeNext, PeersTypeNext DEF PromptType

\* Every step keeps the mTLS invariant.
LEMMA MtlsInvNext == PromptType /\ MtlsInv /\ Prompt!Next => MtlsInv'
<1> SUFFICES ASSUME PromptType, MtlsInv, Prompt!Next, kind' = "mtls" PROVE MtlsInv'
  BY DEF MtlsInv
<1>k. kind = "mtls"
  BY DEF Prompt!Next, Prompt!Finished, Prompt!vars, Prompt!Ask, Prompt!AskFails, Prompt!Lock,
      Prompt!ReadLine, Prompt!Expire, Prompt!Receive, Prompt!Poll, Prompt!ReadFile,
      Prompt!AcceptFails, Prompt!HangUp, Prompt!Decide, Prompt!Timeout, Prompt!peers,
      Prompt!WriteDone, Prompt!Remove, Prompt!Connect, Prompt!Type, Prompt!Write, Prompt!Accept,
      Prompt!Handshake
<1>n. requests \in Nat /\ serving.n \in {0} \cup DOMAIN decisions
      /\ DOMAIN serving = {"n", "shown"} /\ serving = [n |-> serving.n, shown |-> serving.shown]
  BY DEF PromptType, CallerType, PeersType
<1>i. /\ caller # "reading"
      /\ (caller = "waiting" => requests > 0)
      /\ (serving.n # 0 => caller = "waiting")
      /\ (serving.shown => /\ serving.n # 0 /\ serving.n \in shownTo
                            /\ decisions[serving.n].by = "approver")
  BY <1>k DEF MtlsInv
<1>1. CASE Prompt!Ask
  <2>1. requests' = requests + 1 /\ caller' = "waiting" /\ UNCHANGED <<decisions, serving>>
        /\ caller = "idle"
    BY <1>1 DEF Prompt!Ask
  <2>2. ~ serving.shown /\ requests' > 0
    BY <1>n, <1>i, <2>1
  <2> QED
    BY <2>1, <2>2 DEF MtlsInv
<1>2. CASE Prompt!Connect
  <2>1. PICK d \in Given : decisions' = Append(decisions, d)
    BY <1>2, OffersGiven DEF Prompt!Connect
  <2>2. \A i \in DOMAIN decisions : decisions'[i] = decisions[i]
    BY <2>1, DecisionAdded
  <2>3. UNCHANGED <<requests, caller, serving, shownTo>>
    BY <1>2 DEF Prompt!Connect
  <2>4. serving.n # 0 => decisions'[serving.n] = decisions[serving.n]
    BY <2>2, <1>n
  <2> QED
    BY <1>i, <2>3, <2>4 DEF MtlsInv
<1>3. CASE Prompt!Accept
  <2>1. serving' = [n |-> Head(backlog), shown |-> FALSE] /\ caller = "waiting"
        /\ UNCHANGED <<requests, caller>>
    BY <1>3 DEF Prompt!Accept
  <2>2. serving'.shown = FALSE
    BY <2>1
  <2> QED
    BY <1>i, <2>1, <2>2 DEF MtlsInv
<1>4. CASE Prompt!Handshake
  <2>1. UNCHANGED <<requests, caller, decisions>> /\ serving.n # 0
    BY <1>4 DEF Prompt!Handshake
  <2>2. CASE Prompt!Admitted(Prompt!Peer)
    <3>1. serving' = [serving EXCEPT !.shown = TRUE] /\ shownTo' = shownTo \cup {serving.n}
          /\ decisions[serving.n].by = "approver"
      BY <1>4, <2>2 DEF Prompt!Handshake, Prompt!Admitted, Prompt!Peer
    <3>2. serving'.n = serving.n
      BY <3>1, <1>n
    <3> QED
      BY <1>i, <2>1, <3>1, <3>2 DEF MtlsInv
  <2>3. CASE serving' = Prompt!NoPeer
    <3>1. serving'.n = 0 /\ serving'.shown = FALSE
      BY <2>3 DEF Prompt!NoPeer
    <3> QED
      BY <1>i, <2>1, <3>1 DEF MtlsInv
  <2> QED
    BY <1>4, <2>2, <2>3 DEF Prompt!Handshake
<1>5. CASE serving' = Prompt!NoPeer /\ caller' \in {caller, "idle"} /\ requests' = requests
  <2>1. serving'.n = 0 /\ serving'.shown = FALSE
    BY <1>5 DEF Prompt!NoPeer
  <2> QED
    BY <1>i, <1>5, <2>1 DEF MtlsInv
<1>6. CASE Prompt!AcceptFails
  <2>1. serving.n = 0 /\ caller' = "idle" /\ UNCHANGED <<serving>>
    BY <1>6 DEF Prompt!AcceptFails, Prompt!Return, Prompt!peers
  <2> QED
    BY <1>i, <2>1 DEF MtlsInv
<1>7. CASE UNCHANGED <<requests, caller, decisions, serving, shownTo>>
  BY <1>i, <1>7 DEF MtlsInv
<1> QED
  BY <1>1, <1>2, <1>3, <1>4, <1>5, <1>6, <1>7, <1>k
  DEF Prompt!Next, Prompt!Finished, Prompt!vars, Prompt!AskFails, Prompt!Lock,
      Prompt!ReadLine, Prompt!Expire, Prompt!Receive, Prompt!Poll, Prompt!ReadFile,
      Prompt!HangUp, Prompt!Decide, Prompt!Timeout, Prompt!peers, Prompt!Return,
      Prompt!WriteDone, Prompt!Remove, Prompt!Type, Prompt!Write

-----------------------------------------------------------------------------
(* What the caller of the mTLS channel sees.                               *)

Votes == {decisions[n].verdict : n \in {m \in shownTo : decisions[m].by = "approver"}}
         \cap {"granted", "rejected"}
Outs == [i \in 1..Len(results) |-> results[i].result]

\* A session keeps its channel.
LEMMA KindKept == Prompt!Next => kind' = kind
BY DEF Prompt!Next, Prompt!Finished, Prompt!vars, Prompt!Ask, Prompt!AskFails, Prompt!Lock,
      Prompt!ReadLine, Prompt!Expire, Prompt!Receive, Prompt!Poll, Prompt!ReadFile,
      Prompt!AcceptFails, Prompt!HangUp, Prompt!Decide, Prompt!Timeout, Prompt!peers,
      Prompt!WriteDone, Prompt!Remove, Prompt!Connect, Prompt!Type, Prompt!Write, Prompt!Accept,
      Prompt!Handshake

\* Under another channel the mTLS view stands still.
LEMMA OtherKindsStandStill ==
    kind # "mtls" /\ kind' = kind => UNCHANGED Prompt!Channel!channelVars
BY DEF Prompt!Channel!channelVars, Prompt!Mtls

\* A return adds its result to the outcomes seen.
LEMMA OutsReturn ==
    ASSUME PromptType, NEW r \in {"granted", "rejected", "other", "unusable", "silent", "error", "timed_out"},
           NEW n \in Nat, Prompt!Return(r, n)
    PROVE  Outs' = Append(Outs, r)
<1>1. /\ results' \in Seq(Returned) /\ Len(results') = Len(results) + 1
      /\ \A i \in 1..Len(results) : results'[i] = results[i]
      /\ results'[Len(results) + 1] = [result |-> r, by |-> n]
  BY ReturnType
<1>2. results \in Seq(Returned) /\ Len(results) \in Nat
  BY DEF PromptType, CallerType
<1>3. PICK k \in Nat : k = Len(results)
  BY <1>2
<1>4. Outs = [i \in 1..k |-> results[i].result]
  BY <1>3 DEF Outs
<1>5. Outs' = [i \in 1..(k + 1) |-> results'[i].result]
  BY <1>1, <1>3 DEF Outs
<1>6. \A i \in 1..k : results'[i].result = results[i].result
  BY <1>1, <1>3
<1>7. results'[k + 1].result = r
  BY <1>1, <1>3
<1>8. Append(Outs, r) = [i \in 1..(k + 1) |-> IF i = k + 1 THEN r ELSE results[i].result]
  BY <1>4
<1> QED
  BY <1>5, <1>6, <1>7, <1>8

\* Every step is a step of the contract or leaves the caller's view alone.
LEMMA MtlsStep ==
    ASSUME PromptType, MtlsInv, Prompt!Next
    PROVE  [Prompt!Channel!Next]_(Prompt!Channel!channelVars)
<1>k. kind' = kind
  BY KindKept
<1>o. CASE kind # "mtls"
  BY <1>o, <1>k, OtherKindsStandStill
<1>m. CASE kind = "mtls"
  <2>k. kind = "mtls" /\ kind' = "mtls"
    BY <1>k, <1>m
  <2>a. Prompt!Channel!channelVars = <<requests, caller = "waiting", overdue, Votes, Outs>>
    BY <2>k DEF Prompt!Channel!channelVars, Prompt!Mtls, Votes, Outs, Prompt!Verdicts
  <2>b. (Prompt!Channel!channelVars)' = <<requests', caller' = "waiting", overdue', Votes', Outs'>>
    BY <2>k DEF Prompt!Channel!channelVars, Prompt!Mtls, Votes, Outs, Prompt!Verdicts
  <2>i. /\ (caller = "waiting" => requests > 0)
        /\ (serving.n # 0 => caller = "waiting")
        /\ (serving.shown => /\ serving.n # 0 /\ serving.n \in shownTo
                              /\ decisions[serving.n].by = "approver")
    BY <2>k DEF MtlsInv
  <2>n. serving.n \in {0} \cup DOMAIN decisions
    BY DEF PromptType, PeersType
  <2>1. CASE Prompt!Ask
    <3>1. Votes' = {} /\ Outs' = Outs
      BY <2>1 DEF Votes, Outs, Prompt!Ask
    <3>2. Prompt!Channel!Ask
      BY <2>k, <2>1, <3>1 DEF Prompt!Channel!Ask, Prompt!Ask, Prompt!Mtls, Votes, Outs, Prompt!Verdicts
    <3> QED
      BY <3>2 DEF Prompt!Channel!Next
  <2>2. CASE Prompt!Expire
    <3>1. caller = "waiting"
      BY <2>k, <2>2 DEF Prompt!Expire, MtlsInv, PromptType, CallerType
    <3>2. Votes' = Votes /\ Outs' = Outs
      BY <2>2 DEF Votes, Outs, Prompt!Expire, Prompt!peers
    <3>3. Prompt!Channel!Expire
      BY <2>k, <2>2, <3>1, <3>2 DEF Prompt!Channel!Expire, Prompt!Expire, Prompt!Mtls, Votes, Outs,
         Prompt!Verdicts
    <3> QED
      BY <3>3 DEF Prompt!Channel!Next
  <2>3. CASE Prompt!Handshake
    <3>1. UNCHANGED <<requests, caller, overdue, decisions, results>> /\ serving.n # 0
      BY <2>3 DEF Prompt!Handshake
    <3>2. Outs' = Outs
      BY <3>1 DEF Outs
    <3>3. CASE UNCHANGED shownTo
      <4>1. Votes' = Votes
        BY <3>1, <3>3 DEF Votes
      <4> QED
        BY <2>a, <2>b, <3>1, <3>2, <4>1
    <3>4. CASE Prompt!Admitted(Prompt!Peer)
      <4>1. shownTo' = shownTo \cup {serving.n} /\ decisions[serving.n].by = "approver"
        BY <2>3, <3>4 DEF Prompt!Handshake, Prompt!Admitted, Prompt!Peer
      <4>2. Votes' = Votes \cup ({decisions[serving.n].verdict} \cap {"granted", "rejected"})
        BY <3>1, <4>1 DEF Votes
      <4>3. CASE decisions[serving.n].verdict \in {"granted", "rejected"}
        <5>1. PICK d \in {"granted", "rejected"} : d = decisions[serving.n].verdict
          BY <4>3
        <5>2. Votes' = Votes \cup {d}
          BY <4>2, <5>1
        <5>3. requests > 0
          BY <2>i, <3>1
        <5>4. Prompt!Channel!Vote(d)
          BY <2>k, <3>1, <3>2, <5>2, <5>3 DEF Prompt!Channel!Vote, Prompt!Mtls, Votes, Outs,
             Prompt!Verdicts
        <5> QED
          BY <5>4 DEF Prompt!Channel!Next, Prompt!Channel!Verdicts
      <4>4. CASE decisions[serving.n].verdict \notin {"granted", "rejected"}
        <5>1. Votes' = Votes
          BY <4>2, <4>4
        <5> QED
          BY <2>a, <2>b, <3>1, <3>2, <5>1
      <4> QED
        BY <4>3, <4>4
    <3> QED
      BY <2>3, <3>3, <3>4 DEF Prompt!Handshake
  <2>4. ASSUME NEW o \in {"granted", "rejected", "timed_out", "error"}, NEW n \in Nat,
               Prompt!Return(o, n), caller = "waiting",
               UNCHANGED <<requests, overdue, decisions, shownTo>>,
               o \in Votes \/ (o = "timed_out" /\ overdue) \/ o = "error"
        PROVE  Prompt!Channel!Next
    <3>1. Outs' = Append(Outs, o)
      BY <2>4, OutsReturn
    <3>2. Votes' = Votes
      BY <2>4 DEF Votes
    <3>3. caller' = "idle"
      BY <2>4 DEF Prompt!Return
    <3>4. Prompt!Channel!Answer(o)
      BY <2>k, <2>4, <3>1, <3>2, <3>3 DEF Prompt!Channel!Answer, Prompt!Mtls, Votes, Outs,
         Prompt!Verdicts
    <3> QED
      BY <3>4 DEF Prompt!Channel!Next, Prompt!Channel!Verdicts
  <2>5. CASE Prompt!AcceptFails \/ Prompt!Timeout
    BY <2>5, <2>4 DEF Prompt!AcceptFails, Prompt!Timeout, Prompt!peers
  <2>6. CASE Prompt!Decide
    <3>1. UNCHANGED <<requests, overdue, decisions, shownTo>> /\ serving.shown
      BY <2>6 DEF Prompt!Decide
    <3>2. /\ caller = "waiting" /\ serving.n \in shownTo /\ serving.n \in Nat
          /\ decisions[serving.n].by = "approver"
      BY <2>i, <2>n, <3>1 DEF PromptType, CallerType
    <3>3. CASE Prompt!Peer.verdict \in {"granted", "rejected"} /\ Prompt!Return(Prompt!Peer.verdict, serving.n)
      <4>1. Prompt!Peer.verdict \in Votes
        BY <3>2, <3>3 DEF Votes, Prompt!Peer
      <4> QED
        BY <2>4, <3>1, <3>2, <3>3, <4>1
    <3>4. CASE Prompt!Return("error", serving.n)
      BY <2>4, <3>1, <3>2, <3>4
    <3>5. CASE UNCHANGED <<results, caller>>
      <4>1. Votes' = Votes /\ Outs' = Outs
        BY <3>1, <3>5 DEF Votes, Outs
      <4> QED
        BY <2>a, <2>b, <3>1, <3>5, <4>1
    <3> QED
      BY <2>6, <3>3, <3>4, <3>5 DEF Prompt!Decide, Prompt!Verdicts
  <2>7. CASE Prompt!Connect
    <3>1. UNCHANGED <<requests, caller, overdue, results, shownTo>>
      BY <2>7 DEF Prompt!Connect
    <3>2. \E d \in Given : decisions' = Append(decisions, d)
      BY <2>7, OffersGiven DEF Prompt!Connect
    <3>3. \A i \in shownTo : decisions'[i] = decisions[i]
      BY <3>2, DecisionAdded DEF PromptType, PeersType
    <3>4. Votes' = Votes
      BY <3>1, <3>3 DEF Votes
    <3>5. Outs' = Outs
      BY <3>1 DEF Outs
    <3> QED
      BY <2>a, <2>b, <3>1, <3>4, <3>5
  <2>8. CASE UNCHANGED <<requests, caller, overdue, results, decisions, shownTo>>
    <3>1. Votes' = Votes /\ Outs' = Outs
      BY <2>8 DEF Votes, Outs
    <3> QED
      BY <2>a, <2>b, <2>8, <3>1
  <2> QED
    BY <2>1, <2>2, <2>3, <2>5, <2>6, <2>7, <2>8, <2>k
    DEF Prompt!Next, Prompt!Finished, Prompt!vars, Prompt!AskFails, Prompt!Lock, Prompt!peers,
      Prompt!ReadLine, Prompt!Receive, Prompt!Poll, Prompt!ReadFile, Prompt!HangUp,
      Prompt!WriteDone, Prompt!Remove, Prompt!Type, Prompt!Write, Prompt!Accept
<1> QED
  BY <1>o, <1>m

-----------------------------------------------------------------------------
(* The terminal: what becomes of typed lines.                              *)

Elements(s) == {s[i] : i \in 1..Len(s)}

\* The reader threads whose request is over.
Stale == IF caller = "waiting" THEN readers \ {requests} ELSE readers

\* Typed lines that nobody has got yet, or that decided.
Kept == Prompt!Used \cup Elements(stdin) \cup Elements(reply)

(***************************************************************************)
(* Each line lost was taken by a reader left behind by a timeout, and such *)
(* a reader takes one line: lines lost and readers left behind are         *)
(* together no more than the timeouts.  A request whose own reader waits   *)
(* has no reply yet, and a reply that is left over has been returned.      *)
(***************************************************************************)
TtyInv ==
    kind = "tty" =>
        /\ Cardinality(Prompt!Lost) + Cardinality(Stale) <= Cardinality(Prompt!TimedOut)
        /\ Len(reply) <= 1
        /\ (caller = "waiting" /\ requests \in readers => reply = <<>>)
        /\ (caller # "waiting" => Elements(reply) \subseteq Prompt!Used)
        /\ serving.n = 0 /\ ~serving.shown

\* What is in a sequence with one more element.
LEMMA ElementsAppend ==
    ASSUME NEW S, NEW s \in Seq(S), NEW e
    PROVE  Elements(Append(s, e)) = Elements(s) \cup {e}
<1>1. PICK n \in Nat : n = Len(s)
  OBVIOUS
<1>2. Len(Append(s, e)) = n + 1 /\ Append(s, e)[n + 1] = e /\ \A i \in 1..n : Append(s, e)[i] = s[i]
  BY <1>1
<1>3. 1..(n + 1) = 1..n \cup {n + 1}
  BY <1>1
<1> QED
  BY <1>1, <1>2, <1>3 DEF Elements

\* What is in a sequence but for its head.
LEMMA ElementsTail ==
    ASSUME NEW S, NEW s \in Seq(S), s # <<>>
    PROVE  Elements(s) = Elements(Tail(s)) \cup {Head(s)}
<1>1. PICK n \in Nat : n = Len(s) /\ n > 0
  OBVIOUS
<1>2. Len(Tail(s)) = n - 1 /\ Head(s) = s[1] /\ \A i \in 1..(n - 1) : Tail(s)[i] = s[i + 1]
  BY <1>1
<1>3. ASSUME NEW x \in Elements(s) PROVE x \in Elements(Tail(s)) \cup {Head(s)}
  <2>1. PICK i \in 1..n : x = s[i]
    BY <1>1, <1>3 DEF Elements
  <2>2. CASE i = 1
    BY <2>1, <2>2, <1>2
  <2>3. CASE i # 1
    <3>1. i - 1 \in 1..(n - 1) /\ (i - 1) + 1 = i
      BY <2>3, <1>1
    <3>2. Tail(s)[i - 1] = s[i]
      BY <1>2, <3>1
    <3> QED
      BY <3>1, <3>2, <2>1, <1>2 DEF Elements
  <2> QED
    BY <2>2, <2>3
<1>4. ASSUME NEW x \in Elements(Tail(s)) PROVE x \in Elements(s)
  <2>1. PICK i \in 1..(n - 1) : x = Tail(s)[i]
    BY <1>2, <1>4 DEF Elements
  <2>2. i + 1 \in 1..n /\ x = s[i + 1]
    BY <2>1, <1>1, <1>2
  <2> QED
    BY <2>2, <1>1 DEF Elements
<1>5. Head(s) \in Elements(s)
  BY <1>1, <1>2 DEF Elements
<1> QED
  BY <1>3, <1>4, <1>5

\* A lost line is typed and not kept.
LEMMA LostIs == /\ Prompt!Lost = (1..Len(decisions)) \ Kept
                /\ Prompt!Lost' = (1..Len(decisions')) \ Kept'
BY DEF Prompt!Lost, Kept, Elements

\* The sets that are counted are finite.
LEMMA TtySets ==
    ASSUME PromptType
    PROVE  /\ IsFiniteSet(Prompt!Lost) /\ IsFiniteSet(Stale) /\ IsFiniteSet(Prompt!TimedOut)
           /\ Cardinality(Prompt!Lost) \in Nat /\ Cardinality(Stale) \in Nat
           /\ Cardinality(Prompt!TimedOut) \in Nat
<1>1. requests \in Nat /\ Len(decisions) \in Nat /\ Len(results) \in Nat /\ readers \subseteq 1..requests
  BY DEF PromptType, CallerType, TtyType
<1>2. /\ IsFiniteSet(1..requests) /\ IsFiniteSet(1..Len(decisions)) /\ IsFiniteSet(1..Len(results))
  BY <1>1, FS_Interval
<1>3. /\ Prompt!Lost \subseteq 1..Len(decisions) /\ Stale \subseteq 1..requests
      /\ Prompt!TimedOut \subseteq 1..Len(results)
  BY <1>1 DEF Prompt!Lost, Stale, Prompt!TimedOut
<1>4. IsFiniteSet(Prompt!Lost) /\ IsFiniteSet(Stale) /\ IsFiniteSet(Prompt!TimedOut)
  BY <1>2, <1>3, FS_Subset
<1> QED
  BY <1>4, FS_CardinalityType

\* What a return does to the lines that decided and to the timeouts.
LEMMA TtyReturn ==
    ASSUME PromptType, NEW r \in {"granted", "rejected", "other", "unusable", "silent", "error", "timed_out"},
           NEW n \in Nat, Prompt!Return(r, n)
    PROVE  /\ Prompt!Used' = Prompt!Used \cup ({n} \ {0})
           /\ (r # "timed_out" => Prompt!TimedOut' = Prompt!TimedOut)
           /\ (r = "timed_out" =>
                 Cardinality(Prompt!TimedOut') = Cardinality(Prompt!TimedOut) + 1)
<1>1. PICK k \in Nat : k = Len(results)
  BY DEF PromptType, CallerType
<1>2. /\ Len(results') = k + 1 /\ \A i \in 1..k : results'[i] = results[i]
      /\ results'[k + 1] = [result |-> r, by |-> n]
  BY <1>1, ReturnType
<1>3. 1..(k + 1) = 1..k \cup {k + 1} /\ k + 1 \notin 1..k
  BY <1>1
<1>4. Prompt!Used = {results[i].by : i \in 1..k} \ {0}
  BY <1>1 DEF Prompt!Used
<1>5. Prompt!Used' = {results'[i].by : i \in 1..(k + 1)} \ {0}
  BY <1>2 DEF Prompt!Used
<1>6. {results'[i].by : i \in 1..(k + 1)} = {results[i].by : i \in 1..k} \cup {n}
  BY <1>2, <1>3
<1>7. Prompt!TimedOut = {i \in 1..k : results[i].result = "timed_out"}
  BY <1>1 DEF Prompt!TimedOut
<1>8. Prompt!TimedOut' = {i \in 1..(k + 1) : results'[i].result = "timed_out"}
  BY <1>2 DEF Prompt!TimedOut
<1>9. results'[k + 1].result = r
  BY <1>2
<1>10. CASE r # "timed_out"
  BY <1>2, <1>3, <1>4, <1>5, <1>6, <1>7, <1>8, <1>9, <1>10
<1>11. CASE r = "timed_out"
  <2>1. Prompt!TimedOut' = Prompt!TimedOut \cup {k + 1} /\ k + 1 \notin Prompt!TimedOut
    BY <1>2, <1>3, <1>7, <1>8, <1>9, <1>11
  <2>2. IsFiniteSet(Prompt!TimedOut)
    BY TtySets
  <2>3. Cardinality(Prompt!TimedOut \cup {k + 1}) = Cardinality(Prompt!TimedOut) + 1
    BY <2>1, <2>2, FS_AddElement
  <2> QED
    BY <1>4, <1>5, <1>6, <1>11, <2>1, <2>3
<1> QED
  BY <1>10, <1>11

\* Every step keeps the count.
LEMMA TtyInvNext == PromptType /\ TtyInv /\ Prompt!Next => TtyInv'
<1> SUFFICES ASSUME PromptType, TtyInv, Prompt!Next, kind' = "tty" PROVE TtyInv'
  BY DEF TtyInv
<1>k. kind = "tty"
  BY KindKept
<1>t. PromptType'
  BY PromptTypeNext
<1>i. /\ Cardinality(Prompt!Lost) + Cardinality(Stale) <= Cardinality(Prompt!TimedOut)
      /\ Len(reply) <= 1
      /\ (caller = "waiting" /\ requests \in readers => reply = <<>>)
      /\ (caller # "waiting" => Elements(reply) \subseteq Prompt!Used)
      /\ serving.n = 0 /\ ~serving.shown
  BY <1>k DEF TtyInv
<1>c. /\ Cardinality(Prompt!Lost) \in Nat /\ Cardinality(Stale) \in Nat
      /\ Cardinality(Prompt!TimedOut) \in Nat /\ IsFiniteSet(Prompt!Lost) /\ IsFiniteSet(Stale)
  BY TtySets
<1>e. /\ Elements(<<>>) = {}
  BY DEF Elements
<1>y. /\ requests \in Nat /\ readers \subseteq 1..requests /\ holder \in {0} \cup readers
      /\ stdin \in Seq(DOMAIN decisions) /\ reply \in Seq(DOMAIN decisions)
      /\ decisions \in Seq(Given)
  BY DEF PromptType, CallerType, TtyType
<1>1. CASE Prompt!Ask
  <2>1. /\ requests' = requests + 1 /\ caller' = "waiting" /\ caller = "idle" /\ reply' = <<>>
        /\ readers' = readers \cup {requests + 1}
        /\ UNCHANGED <<results, decisions, stdin, serving>>
    BY <1>1, <1>k DEF Prompt!Ask
  <2>2. Kept' = Kept
    BY <1>e, <1>i, <2>1 DEF Kept, Prompt!Used
  <2>3. Prompt!Lost' = Prompt!Lost
    BY <2>1, <2>2, LostIs
  <2>4. Stale' = Stale
    <3>1. requests + 1 \notin readers
      BY <1>y
    <3> QED
      BY <2>1, <3>1 DEF Stale
  <2>5. Prompt!TimedOut' = Prompt!TimedOut
    BY <2>1 DEF Prompt!TimedOut
  <2>6. Len(reply') <= 1
    BY <2>1
  <2> QED
    BY <1>i, <2>1, <2>3, <2>4, <2>5, <2>6 DEF TtyInv
<1>2. CASE Prompt!AskFails
  <2>1. /\ caller' = "idle" /\ caller = "idle" /\ Prompt!Return("error", 0)
        /\ UNCHANGED <<decisions, readers, stdin, reply, serving>>
    BY <1>2 DEF Prompt!AskFails, Prompt!Return, Prompt!tty, Prompt!peers
  <2>2. Prompt!Used' = Prompt!Used /\ Prompt!TimedOut' = Prompt!TimedOut
    BY <2>1, TtyReturn
  <2>3. Kept' = Kept
    BY <2>1, <2>2 DEF Kept
  <2>4. Prompt!Lost' = Prompt!Lost /\ Stale' = Stale
    BY <2>1, <2>3, LostIs DEF Stale
  <2> QED
    BY <1>i, <2>1, <2>2, <2>4 DEF TtyInv
<1>3. CASE Prompt!Type
  <2>1. PICK d \in Given : decisions' = Append(decisions, d)
    BY <1>3, OffersGiven DEF Prompt!Type
  <2>2. /\ stdin' = Append(stdin, Len(decisions'))
        /\ UNCHANGED <<requests, caller, results, readers, reply, serving>>
    BY <1>3 DEF Prompt!Type, Prompt!peers
  <2>3. PICK n \in Nat : n = Len(decisions)
    BY <1>y
  <2>4. Len(decisions') = n + 1
    BY <2>1, <2>3, DecisionAdded
  <2>5. Elements(stdin') = Elements(stdin) \cup {n + 1}
    BY <1>y, <2>2, <2>4, ElementsAppend
  <2>6. Kept' = Kept \cup {n + 1}
    BY <2>2, <2>5 DEF Kept, Prompt!Used
  <2>7. 1..(n + 1) = 1..n \cup {n + 1}
    BY <2>3
  <2>8. Prompt!Lost' = (1..(n + 1)) \ Kept'
    BY <2>4, LostIs
  <2>9. Prompt!Lost' \subseteq Prompt!Lost
    BY <2>3, <2>6, <2>7, <2>8, LostIs
  <2>10. Cardinality(Prompt!Lost') <= Cardinality(Prompt!Lost) /\ Cardinality(Prompt!Lost') \in Nat
    BY <2>9, <1>c, FS_Subset, FS_CardinalityType
  <2>11. Stale' = Stale /\ Prompt!TimedOut' = Prompt!TimedOut /\ Prompt!Used' = Prompt!Used
    BY <2>2 DEF Stale, Prompt!TimedOut, Prompt!Used
  <2>12. Cardinality(Prompt!Lost') + Cardinality(Stale') <= Cardinality(Prompt!TimedOut')
    BY <1>i, <1>c, <2>10, <2>11
  <2> QED
    BY <1>i, <2>2, <2>11, <2>12 DEF TtyInv
<1>4. CASE Prompt!ReadLine
  <2>1. /\ holder # 0 /\ holder \in readers /\ stdin # <<>>
        /\ (stdin' = Tail(stdin) \/ stdin' = stdin)
        /\ readers' = readers \ {holder}
        /\ UNCHANGED <<requests, caller, results, decisions, serving>>
    BY <1>4, <1>y DEF Prompt!ReadLine, Prompt!Rest, Prompt!peers
  <2>2. Elements(stdin) = Elements(stdin') \cup {Head(stdin)}
    <3>1. Elements(stdin) = Elements(Tail(stdin)) \cup {Head(stdin)}
      BY <1>y, <2>1, ElementsTail
    <3> QED
      BY <2>1, <3>1
  <2>3. Prompt!Used' = Prompt!Used /\ Prompt!TimedOut' = Prompt!TimedOut
    BY <2>1 DEF Prompt!Used, Prompt!TimedOut
  <2>4. CASE holder = requests /\ caller = "waiting"
    <3>1. reply' = <<Head(stdin)>> /\ reply = <<>>
      BY <1>4, <1>i, <2>1, <2>4 DEF Prompt!ReadLine, Prompt!Send
    <3>2. Elements(reply') = {Head(stdin)} /\ Len(reply') <= 1
      BY <3>1 DEF Elements
    <3>3. Kept' = Kept
      BY <1>e, <2>2, <2>3, <3>1, <3>2 DEF Kept
    <3>4. Prompt!Lost' = Prompt!Lost
      BY <2>1, <3>3, LostIs
    <3>5. Stale' = Stale /\ requests' \notin readers' /\ caller' = "waiting"
      BY <2>1, <2>4 DEF Stale
    <3> QED
      BY <1>i, <2>1, <2>3, <3>2, <3>4, <3>5 DEF TtyInv
  <2>5. CASE ~(holder = requests /\ caller = "waiting")
    <3>1. reply' = reply
      BY <1>4, <2>5 DEF Prompt!ReadLine, Prompt!Send
    <3>2. holder \in Stale /\ Stale' = Stale \ {holder}
      BY <2>1, <2>5 DEF Stale
    <3>3. Cardinality(Stale') = Cardinality(Stale) - 1
      BY <3>2, <1>c, FS_RemoveElement
    <3>4. Kept \subseteq Kept' \cup {Head(stdin)}
      BY <2>2, <2>3, <3>1 DEF Kept
    <3>5. Prompt!Lost' \subseteq Prompt!Lost \cup {Head(stdin)}
      BY <2>1, <3>4, LostIs
    <3>6. /\ IsFiniteSet(Prompt!Lost \cup {Head(stdin)})
          /\ Cardinality(Prompt!Lost \cup {Head(stdin)}) <= Cardinality(Prompt!Lost) + 1
      <4>1. IsFiniteSet(Prompt!Lost \cup {Head(stdin)})
            /\ (Cardinality(Prompt!Lost \cup {Head(stdin)}) = Cardinality(Prompt!Lost)
                \/ Cardinality(Prompt!Lost \cup {Head(stdin)}) = Cardinality(Prompt!Lost) + 1)
        BY <1>c, FS_AddElement
      <4> QED
        BY <4>1, <1>c
    <3>7. /\ Cardinality(Prompt!Lost') \in Nat
          /\ Cardinality(Prompt!Lost') <= Cardinality(Prompt!Lost \cup {Head(stdin)})
          /\ Cardinality(Prompt!Lost \cup {Head(stdin)}) \in Nat
      BY <3>5, <3>6, FS_Subset, FS_CardinalityType
    <3>8. Cardinality(Prompt!Lost') + Cardinality(Stale') <= Cardinality(Prompt!TimedOut')
      BY <1>i, <1>c, <2>3, <3>3, <3>6, <3>7
    <3> QED
      BY <1>i, <2>1, <2>3, <3>1, <3>8 DEF TtyInv
  <2> QED
    BY <2>4, <2>5
<1>5. CASE Prompt!Receive
  <2>1. /\ caller = "waiting" /\ caller' = "idle"
        /\ UNCHANGED <<requests, decisions, readers, stdin, reply, serving>>
    BY <1>5 DEF Prompt!Receive, Prompt!Return, Prompt!tty, Prompt!peers
  <2>2. CASE reply # <<>> /\ Prompt!Return(Prompt!Reading(decisions[reply[1]]), reply[1])
    <3>0. Len(reply) \in Nat /\ Len(reply) # 0 /\ Len(reply) <= 1
      BY <1>i, <1>y, <2>2
    <3>b. PICK k \in Nat : k = Len(reply)
      BY <3>0
    <3>a. Len(reply) = 1
      <4>1. k # 0 /\ k <= 1
        BY <3>0, <3>b
      <4>2. k = 1
        BY <4>1
      <4> QED
        BY <4>2, <3>b
    <3>c. 1 \in 1..Len(reply)
      BY <3>a
    <3>d. reply[1] \in DOMAIN decisions
      BY <1>y, <3>c, ElementTyped
    <3>1. Len(reply) = 1 /\ reply[1] \in DOMAIN decisions
      BY <3>a, <3>d
    <3>2. decisions[reply[1]] \in Given /\ reply[1] \in Nat /\ reply[1] # 0
      BY <3>1, <1>y
    <3>3. Elements(reply) = {reply[1]}
      BY <3>1 DEF Elements
    <3>4. Prompt!Used' = Prompt!Used \cup {reply[1]} /\ Prompt!TimedOut' = Prompt!TimedOut
      BY <2>2, <3>2, ReadingIs, TtyReturn
    <3>5. Kept' = Kept
      BY <2>1, <3>3, <3>4 DEF Kept
    <3>6. Prompt!Lost' = Prompt!Lost
      BY <2>1, <3>5, LostIs
    <3>7. Stale' = Stale
      BY <1>i, <2>1, <2>2 DEF Stale
    <3>8. Elements(reply') \subseteq Prompt!Used'
      BY <2>1, <3>3, <3>4
    <3> QED
      BY <1>i, <2>1, <3>4, <3>6, <3>7, <3>8 DEF TtyInv
  <2>3. CASE reply = <<>> /\ Prompt!Return("timed_out", 0)
    <3>1. /\ Prompt!Used' = Prompt!Used
          /\ Cardinality(Prompt!TimedOut') = Cardinality(Prompt!TimedOut) + 1
      BY <2>3, TtyReturn
    <3>2. Kept' = Kept
      BY <2>1, <3>1 DEF Kept
    <3>3. Prompt!Lost' = Prompt!Lost
      BY <2>1, <3>2, LostIs
    <3>4. Stale' \subseteq Stale \cup {requests}
      BY <2>1 DEF Stale
    <3>5. IsFiniteSet(Stale \cup {requests})
            /\ (Cardinality(Stale \cup {requests}) = Cardinality(Stale)
                \/ Cardinality(Stale \cup {requests}) = Cardinality(Stale) + 1)
      BY <1>c, FS_AddElement
    <3>6. /\ Cardinality(Stale') \in Nat
          /\ Cardinality(Stale') <= Cardinality(Stale \cup {requests})
      BY <3>4, <3>5, FS_Subset, FS_CardinalityType
    <3>7. Cardinality(Prompt!Lost') + Cardinality(Stale') <= Cardinality(Prompt!TimedOut')
      BY <1>i, <1>c, <3>1, <3>3, <3>5, <3>6
    <3>8. Elements(reply') \subseteq Prompt!Used'
      BY <1>e, <2>1, <2>3
    <3> QED
      BY <1>i, <2>1, <3>7, <3>8 DEF TtyInv
  <2> QED
    BY <1>5, <2>2, <2>3 DEF Prompt!Receive
<1>6. CASE UNCHANGED <<requests, caller, results, decisions, readers, stdin, reply, serving>>
  <2>1. /\ Stale' = Stale /\ Prompt!TimedOut' = Prompt!TimedOut /\ Prompt!Used' = Prompt!Used
        /\ Prompt!Lost' = Prompt!Lost
    BY <1>6 DEF Stale, Prompt!TimedOut, Prompt!Used, Prompt!Lost
  <2> QED
    BY <1>i, <1>6, <2>1 DEF TtyInv
<1> QED
  BY <1>1, <1>2, <1>3, <1>4, <1>5, <1>6, <1>k, <1>i
  DEF Prompt!Next, Prompt!Finished, Prompt!vars, Prompt!Lock, Prompt!peers, Prompt!tty,
      Prompt!Expire, Prompt!Poll, Prompt!ReadFile, Prompt!HangUp, Prompt!Decide, Prompt!Timeout,
      Prompt!WriteDone, Prompt!Remove, Prompt!Write, Prompt!Accept, Prompt!Connect,
      Prompt!AcceptFails, Prompt!Handshake

-----------------------------------------------------------------------------
(* The theorems.                                                           *)

PromptInv == PromptType /\ MtlsInv /\ TtyInv

\* The start.
LEMMA PromptInvInit == Prompt!Init => PromptInv
<1> SUFFICES ASSUME Prompt!Init PROVE TtyInv
  BY PromptInit DEF PromptInv
<1>1. /\ Len(reply) = 0 /\ Elements(reply) = {} /\ serving.n = 0 /\ ~serving.shown
  BY DEF Prompt!Init, Elements, Prompt!NoPeer
<1>2. Prompt!Lost = {} /\ Stale = {} /\ Prompt!TimedOut = {}
  BY DEF Prompt!Init, Prompt!Lost, Stale, Prompt!TimedOut
<1>3. Cardinality(Prompt!Lost) + Cardinality(Stale) <= Cardinality(Prompt!TimedOut)
  BY <1>2, FS_EmptySet
<1> QED
  BY <1>1, <1>3 DEF TtyInv, Prompt!Init

\* Every step keeps the invariant.
LEMMA PromptInvNext == PromptInv /\ [AllNext]_allVars => PromptInv'
<1> SUFFICES ASSUME PromptInv, [AllNext]_allVars PROVE PromptInv'
  OBVIOUS
<1>1. CASE Prompt!Next
  BY <1>1, PromptTypeNext, MtlsInvNext, TtyInvNext DEF PromptInv
<1>2. CASE UNCHANGED promptVars
  <2>1. CallerType' /\ TtyType' /\ FileType' /\ PeersType'
    BY <1>2 DEF promptVars, PromptInv, PromptType, CallerType, TtyType, FileType, PeersType
  <2>2. MtlsInv'
    BY <1>2 DEF promptVars, PromptInv, MtlsInv
  <2>3. /\ Prompt!Lost' = Prompt!Lost /\ Prompt!Used' = Prompt!Used
        /\ Prompt!TimedOut' = Prompt!TimedOut /\ Stale' = Stale
    BY <1>2 DEF promptVars, Prompt!Lost, Prompt!Used, Prompt!TimedOut, Stale
  <2>4. TtyInv'
    BY <1>2, <2>3 DEF promptVars, PromptInv, TtyInv
  <2> QED
    BY <2>1, <2>2, <2>4 DEF PromptInv, PromptType
<1> QED
  BY <1>1, <1>2 DEF AllNext, allVars

(***************************************************************************)
(* A reader thread that a timeout left behind takes one typed line at      *)
(* most: in any session on the terminal no more lines are lost than        *)
(* requests timed out (request_approval of tty.rs).                        *)
(***************************************************************************)
THEOREM LinesBounded == AllSpec => []LinesLostBounded
<1>1. AllSpec => AllInit /\ [][AllNext]_allVars
  BY PTL DEF AllSpec
<1>2. AllInit => PromptInv
  BY PromptInvInit DEF AllInit
<1>3. PromptInv => LinesLostBounded
  <2> SUFFICES ASSUME PromptInv, kind = "tty"
               PROVE  Cardinality(Prompt!Lost) <= Cardinality(Prompt!TimedOut)
    <3>1. /\ Prompt!Cardinality(Prompt!Lost) = Cardinality(Prompt!Lost)
          /\ Prompt!Cardinality(Prompt!TimedOut) = Cardinality(Prompt!TimedOut)
      BY DEF Prompt!Cardinality, Cardinality
    <3> QED
      BY <3>1 DEF LinesLostBounded, Prompt!LinesLostBounded
  <2>1. /\ Cardinality(Prompt!Lost) + Cardinality(Stale) <= Cardinality(Prompt!TimedOut)
    BY DEF PromptInv, TtyInv
  <2>2. Cardinality(Prompt!Lost) \in Nat /\ Cardinality(Stale) \in Nat
        /\ Cardinality(Prompt!TimedOut) \in Nat
    BY TtySets DEF PromptInv
  <2> QED
    BY <2>1, <2>2
<1> QED
  BY <1>1, <1>2, <1>3, PromptInvNext, PTL

(***************************************************************************)
(* The mTLS channel implements the contract the mediator relies on: every  *)
(* outcome is the vote of an approver that this very request was written   *)
(* to, an error, or a timeout after the deadline (accept_loop and the      *)
(* timeout around it in mtls.rs).                                          *)
(***************************************************************************)
THEOREM MtlsIsChannel == AllSpec => MtlsImplementsChannel
<1>1. AllSpec => AllInit /\ [][AllNext]_allVars
  BY PTL DEF AllSpec
<1>2. AllInit => PromptInv
  BY PromptInvInit DEF AllInit
<1>3. AllInit => Prompt!Channel!Init
  BY DEF AllInit, Prompt!Init, Prompt!Channel!Init, Prompt!Mtls
<1>4. PromptInv /\ [AllNext]_allVars => [Prompt!Channel!Next]_(Prompt!Channel!channelVars)
  <2> SUFFICES ASSUME PromptInv, [AllNext]_allVars
               PROVE  [Prompt!Channel!Next]_(Prompt!Channel!channelVars)
    OBVIOUS
  <2>1. CASE Prompt!Next
    BY <2>1, MtlsStep DEF PromptInv
  <2>2. CASE UNCHANGED promptVars
    BY <2>2 DEF promptVars, Prompt!Channel!channelVars, Prompt!Mtls
  <2> QED
    BY <2>1, <2>2 DEF AllNext, allVars
<1> QED
  BY <1>1, <1>2, <1>3, <1>4, PromptInvNext, PTL
     DEF MtlsImplementsChannel, Prompt!MtlsImplementsChannel, Prompt!Channel!Spec

-----------------------------------------------------------------------------
(* The MCP client.                                                         *)

Methods == {"initialize", "initialized", "tools/call"}
Asked == [id : Nat, method : Methods, call : Nat]
Said == [id : Nat, body : {"result", "error", "neither", "garbage"}, call : Nat]
ChildRecords ==
    [server : Servers, alive : BOOLEAN, nextId : Nat, stdin : Seq(Asked), stdout : Seq(Said),
     seen : Seq(Methods), pending : SUBSET Asked, orphan : BOOLEAN]
CallRecords == [result : {"none", "ok", "error"}, answers : Nat]

Connecting == client \in {"spawn", "handshake", "initialized"}
Calling == client \in {"call", "reply"}

McpType ==
    /\ client \in {"idle", "spawn", "handshake", "initialized", "call", "reply", "dropped"}
    /\ children \in Seq(ChildRecords) /\ calls \in Seq(CallRecords)
    /\ cached \in [Servers -> {0} \cup DOMAIN children]
    /\ (Connecting \/ Calling => target \in DOMAIN children /\ Len(calls) > 0)

\* The first line to a server is initialize, the second initialized, and no other is.
Placed(i, m) == (m = "initialize" <=> i = 1) /\ (m = "initialized" <=> i = 2)

\* How many lines the client has written to a child.
Written(c) == Len(c.seen) + Len(c.stdin)

\* What is in a child's pipes has an id the connection has given out.
ChildOk(c) ==
    /\ c.nextId > 0
    /\ \A i \in 1..Len(c.stdin) : c.stdin[i].method # "initialized" => c.stdin[i].id < c.nextId
    /\ \A r \in c.pending : r.id < c.nextId
    /\ \A i \in 1..Len(c.stdout) : c.stdout[i].id < c.nextId
    /\ \A i \in 1..Len(c.seen) : Placed(i, c.seen[i])
    /\ \A i \in 1..Len(c.stdin) : Placed(Len(c.seen) + i, c.stdin[i].method)

\* Whatever bears the last id is about call n.
Fresh(c, n) ==
    /\ c.nextId > 1
    /\ \A i \in 1..Len(c.stdin) :
          c.stdin[i].method # "initialized" /\ c.stdin[i].id = c.nextId - 1 => c.stdin[i].call = n
    /\ \A r \in c.pending : r.id = c.nextId - 1 => r.call = n
    /\ \A i \in 1..Len(c.stdout) : c.stdout[i].id = c.nextId - 1 => c.stdout[i].call = n

Pipes ==
    /\ \A k \in DOMAIN children : ChildOk(children[k])
    /\ (client \in {"handshake", "reply"} => Fresh(children[target], Len(calls)))

Counts ==
    /\ (client = "spawn" => Written(children[target]) = 0)
    /\ (client \in {"handshake", "initialized"} => Written(children[target]) = 1)
    /\ \A s \in Servers : cached[s] # 0 => Written(children[cached[s]]) >= 2

Owned ==
    /\ \A k \in DOMAIN children :
          \/ \E s \in Servers : cached[s] = k
          \/ children[k].orphan
          \/ k = target /\ Connecting
    /\ (Connecting => cached[children[target].server] = 0)
    /\ (Calling => \E s \in Servers : cached[s] = target)
    /\ (client = "dropped" => \A k \in DOMAIN children : children[k].alive => children[k].orphan)

Answered == \A i \in DOMAIN calls : calls[i].result = "ok" => calls[i].answers = i

McpInv == McpType /\ Pipes /\ Counts /\ Owned /\ Answered

-----------------------------------------------------------------------------
(* What the steps do to one child.                                         *)

\* Appending to a sequence.
LEMMA SeqAppend ==
    ASSUME NEW S, NEW s \in Seq(S), NEW e \in S
    PROVE  /\ Append(s, e) \in Seq(S) /\ Len(s) \in Nat /\ Len(Append(s, e)) = Len(s) + 1
           /\ 1..(Len(s) + 1) = 1..Len(s) \cup {Len(s) + 1}
           /\ Append(s, e)[Len(s) + 1] = e
           /\ \A i \in 1..Len(s) : Append(s, e)[i] = s[i]
OBVIOUS

\* Taking the head off a sequence.
LEMMA SeqTail ==
    ASSUME NEW S, NEW s \in Seq(S), s # <<>>
    PROVE  /\ Tail(s) \in Seq(S) /\ Len(s) \in Nat /\ Len(s) > 0 /\ Len(Tail(s)) = Len(s) - 1
           /\ Head(s) = s[1] /\ s[1] \in S
           /\ \A i \in 1..(Len(s) - 1) : Tail(s)[i] = s[i + 1] /\ i + 1 \in 1..Len(s)
OBVIOUS

\* The fields of a child.
LEMMA ChildFields ==
    ASSUME NEW c \in ChildRecords
    PROVE  /\ c.server \in Servers /\ c.nextId \in Nat /\ c.stdin \in Seq(Asked)
           /\ c.stdout \in Seq(Said) /\ c.seen \in Seq(Methods) /\ c.pending \subseteq Asked
           /\ c.alive \in BOOLEAN /\ c.orphan \in BOOLEAN
           /\ Len(c.stdin) \in Nat /\ Len(c.stdout) \in Nat /\ Len(c.seen) \in Nat
           /\ \A i \in 1..Len(c.stdin) : c.stdin[i] \in Asked
           /\ \A i \in 1..Len(c.stdout) : c.stdout[i] \in Said
BY DEF ChildRecords

\* A count of lines is a number.
LEMMA WrittenType == ASSUME NEW c \in ChildRecords PROVE Written(c) \in Nat
<1>1. PICK a \in Nat, b \in Nat : a = Len(c.seen) /\ b = Len(c.stdin)
  BY ChildFields
<1>2. a + b \in Nat
  OBVIOUS
<1> QED
  BY <1>1, <1>2 DEF Written

\* d is c after a step that keeps what has been written, and what is fresh.
Carried(c, d) ==
    /\ d \in ChildRecords /\ ChildOk(d) /\ Written(d) = Written(c) /\ d.server = c.server
    /\ \A n \in Nat : Fresh(c, n) => Fresh(d, n)

\* c with one more line to read, of method m, for call n.
WrittenTo(c, m, n) ==
    [c EXCEPT !.stdin = Append(c.stdin, [id |-> c.nextId, method |-> m, call |-> n]),
              !.nextId = c.nextId + (IF m = "initialized" THEN 0 ELSE 1)]

\* A line written to a child.
LEMMA WriteChild ==
    ASSUME NEW c \in ChildRecords, ChildOk(c), NEW m \in Methods, NEW n \in Nat,
           Placed(Written(c) + 1, m), NEW d, d = WrittenTo(c, m, n)
    PROVE  /\ d \in ChildRecords /\ ChildOk(d) /\ Written(d) = Written(c) + 1
           /\ d.server = c.server /\ (m # "initialized" => Fresh(d, n))
<1>1. PICK r : r = [id |-> c.nextId, method |-> m, call |-> n]
  OBVIOUS
<1>2. r \in Asked /\ r.id = c.nextId /\ r.method = m /\ r.call = n
  BY <1>1, ChildFields DEF Asked
<1>3. PICK x : x = c.nextId + (IF m = "initialized" THEN 0 ELSE 1)
  OBVIOUS
<1>4. x \in Nat /\ c.nextId \in Nat /\ x >= c.nextId /\ (m # "initialized" => x = c.nextId + 1)
  BY <1>3, ChildFields
<1>5. /\ Append(c.stdin, r) \in Seq(Asked) /\ Len(Append(c.stdin, r)) = Len(c.stdin) + 1
      /\ Append(c.stdin, r)[Len(c.stdin) + 1] = r
      /\ 1..(Len(c.stdin) + 1) = 1..Len(c.stdin) \cup {Len(c.stdin) + 1}
      /\ \A i \in 1..Len(c.stdin) : Append(c.stdin, r)[i] = c.stdin[i]
  BY <1>2, ChildFields, SeqAppend
<1>6. d = [c EXCEPT !.stdin = Append(c.stdin, r), !.nextId = x]
  BY <1>1, <1>3 DEF WrittenTo
<1>7. d \in ChildRecords
  BY <1>4, <1>5, <1>6 DEF ChildRecords
<1>8. /\ d.stdin = Append(c.stdin, r) /\ d.nextId = x /\ d.stdout = c.stdout /\ d.seen = c.seen
      /\ d.pending = c.pending /\ d.server = c.server
  BY <1>6 DEF ChildRecords
<1>9. Written(d) = Written(c) + 1
  <2>1. PICK a \in Nat, b \in Nat : a = Len(c.seen) /\ b = Len(c.stdin)
    BY ChildFields
  <2>2. Len(d.seen) = a /\ Len(d.stdin) = b + 1
    BY <2>1, <1>5, <1>8
  <2>3. a + (b + 1) = (a + b) + 1
    OBVIOUS
  <2> QED
    BY <2>1, <2>2, <2>3 DEF Written
<1>10. ChildOk(d)
  <2>1. \A i \in 1..Len(d.stdin) : d.stdin[i].method # "initialized" => d.stdin[i].id < d.nextId
    <3> SUFFICES ASSUME NEW i \in 1..Len(d.stdin), d.stdin[i].method # "initialized"
                 PROVE  d.stdin[i].id < d.nextId
      OBVIOUS
    <3>1. CASE i = Len(c.stdin) + 1
      BY <3>1, <1>2, <1>4, <1>5, <1>8
    <3>2. CASE i \in 1..Len(c.stdin)
      <4>1. d.stdin[i] = c.stdin[i] /\ c.stdin[i] \in Asked
        BY <3>2, <1>5, <1>8, ChildFields
      <4>2. c.stdin[i].id < c.nextId /\ c.stdin[i].id \in Nat
        BY <3>2, <4>1 DEF ChildOk, Asked
      <4> QED
        BY <4>1, <4>2, <1>4, <1>8
    <3> QED
      BY <3>1, <3>2, <1>5, <1>8
  <2>2. \A r2 \in d.pending : r2.id < d.nextId
    <3> SUFFICES ASSUME NEW r2 \in c.pending PROVE r2.id < x
      BY <1>8
    <3>1. r2.id \in Nat /\ r2.id < c.nextId
      BY ChildFields DEF ChildOk, Asked
    <3> QED
      BY <3>1, <1>4
  <2>3. \A i \in 1..Len(d.stdout) : d.stdout[i].id < d.nextId
    <3> SUFFICES ASSUME NEW i \in 1..Len(c.stdout) PROVE c.stdout[i].id < x
      BY <1>8
    <3>1. c.stdout[i].id \in Nat /\ c.stdout[i].id < c.nextId
      BY ChildFields DEF ChildOk, Said
    <3> QED
      BY <3>1, <1>4
  <2>4. \A i \in 1..Len(d.seen) : Placed(i, d.seen[i])
    BY <1>8 DEF ChildOk
  <2>5. \A i \in 1..Len(d.stdin) : Placed(Len(d.seen) + i, d.stdin[i].method)
    <3> SUFFICES ASSUME NEW i \in 1..Len(d.stdin)
                 PROVE  Placed(Len(d.seen) + i, d.stdin[i].method)
      OBVIOUS
    <3>1. CASE i = Len(c.stdin) + 1
      <4>1. Len(c.seen) + i = Written(c) + 1
        <5>1. PICK a \in Nat, b \in Nat : a = Len(c.seen) /\ b = Len(c.stdin)
          BY ChildFields
        <5>2. a + (b + 1) = (a + b) + 1
          OBVIOUS
        <5> QED
          BY <3>1, <5>1, <5>2 DEF Written
      <4>2. d.stdin[i].method = m
        BY <3>1, <1>2, <1>5, <1>8
      <4> QED
        BY <4>1, <4>2, <1>8
    <3>2. CASE i \in 1..Len(c.stdin)
      <4>1. d.stdin[i] = c.stdin[i] /\ Placed(Len(c.seen) + i, c.stdin[i].method)
        BY <3>2, <1>5, <1>8 DEF ChildOk
      <4> QED
        BY <4>1, <1>8
    <3> QED
      BY <3>1, <3>2, <1>5, <1>8
  <2>6. d.nextId > 0
    BY <1>4, <1>8 DEF ChildOk
  <2> QED
    BY <2>1, <2>2, <2>3, <2>4, <2>5, <2>6 DEF ChildOk
<1>11. ASSUME m # "initialized" PROVE Fresh(d, n)
  <2>0. d.nextId = c.nextId + 1 /\ d.nextId - 1 = c.nextId /\ d.nextId > 1
    BY <1>4, <1>8, <1>11 DEF ChildOk
  <2>1. ASSUME NEW i \in 1..Len(d.stdin), d.stdin[i].method # "initialized", d.stdin[i].id = d.nextId - 1
        PROVE  d.stdin[i].call = n
    <3>1. CASE i = Len(c.stdin) + 1
      BY <3>1, <1>2, <1>5, <1>8
    <3>2. CASE i \in 1..Len(c.stdin)
      <4>1. d.stdin[i] = c.stdin[i] /\ c.stdin[i] \in Asked
        BY <3>2, <1>5, <1>8, ChildFields
      <4>2. c.stdin[i].id < c.nextId /\ c.stdin[i].id \in Nat
        BY <3>2, <4>1, <2>1 DEF ChildOk, Asked
      <4> QED
        BY <4>1, <4>2, <2>0, <2>1, <1>4
    <3> QED
      BY <3>1, <3>2, <1>5, <1>8
  <2>2. ASSUME NEW r2 \in d.pending, r2.id = d.nextId - 1 PROVE r2.call = n
    <3>1. r2.id \in Nat /\ r2.id < c.nextId
      BY <1>8, ChildFields DEF ChildOk, Asked
    <3> QED
      BY <3>1, <2>0, <2>2, <1>4
  <2>3. ASSUME NEW i \in 1..Len(d.stdout), d.stdout[i].id = d.nextId - 1 PROVE d.stdout[i].call = n
    <3>1. c.stdout[i].id \in Nat /\ c.stdout[i].id < c.nextId
      BY <1>8, ChildFields DEF ChildOk, Said
    <3> QED
      BY <3>1, <2>0, <2>3, <1>4, <1>8
  <2> QED
    BY <2>0, <2>1, <2>2, <2>3 DEF Fresh
<1> QED
  BY <1>7, <1>8, <1>9, <1>10, <1>11

\* The pipes as they are.
LEMMA SamePipes ==
    ASSUME NEW c \in ChildRecords, ChildOk(c), NEW a \in BOOLEAN, NEW o \in BOOLEAN,
           NEW d, d = [c EXCEPT !.alive = a, !.orphan = o]
    PROVE  Carried(c, d) /\ d.alive = a /\ d.orphan = o
<1>1. d \in ChildRecords
  BY DEF ChildRecords
<1>2. /\ d.stdin = c.stdin /\ d.nextId = c.nextId /\ d.stdout = c.stdout /\ d.seen = c.seen
      /\ d.pending = c.pending /\ d.server = c.server
  BY DEF ChildRecords
<1>3. d.alive = a /\ d.orphan = o
  BY Zenon DEF ChildRecords
<1>4. ChildOk(d) /\ Written(d) = Written(c)
  BY <1>2 DEF ChildOk, Written
<1>5. \A n \in Nat : Fresh(c, n) => Fresh(d, n)
  BY <1>2 DEF Fresh
<1> QED
  BY <1>1, <1>2, <1>3, <1>4, <1>5 DEF Carried

\* A line of the server is read.
ReadFrom(c, o) == [c EXCEPT !.stdout = Tail(c.stdout), !.orphan = o]

LEMMA ReadChild ==
    ASSUME NEW c \in ChildRecords, ChildOk(c), c.stdout # <<>>, NEW o \in BOOLEAN,
           NEW d, d = ReadFrom(c, o)
    PROVE  /\ Carried(c, d) /\ d.alive = c.alive /\ d.orphan = o
           /\ Head(c.stdout) \in Said
           /\ \A n \in Nat : Fresh(c, n) /\ Head(c.stdout).id = c.nextId - 1 => Head(c.stdout).call = n
<1>0. /\ c.stdout \in Seq(Said) /\ Tail(c.stdout) \in Seq(Said) /\ Len(c.stdout) \in Nat
      /\ Len(c.stdout) > 0 /\ Len(Tail(c.stdout)) = Len(c.stdout) - 1
      /\ Head(c.stdout) = c.stdout[1] /\ c.stdout[1] \in Said
      /\ \A i \in 1..(Len(c.stdout) - 1) : Tail(c.stdout)[i] = c.stdout[i + 1] /\ i + 1 \in 1..Len(c.stdout)
  BY ChildFields, SeqTail
<1>1. d \in ChildRecords
  BY <1>0 DEF ChildRecords, ReadFrom
<1>2. /\ d.stdin = c.stdin /\ d.nextId = c.nextId /\ d.stdout = Tail(c.stdout) /\ d.seen = c.seen
      /\ d.pending = c.pending /\ d.server = c.server
  BY DEF ChildRecords, ReadFrom
<1>3. d.alive = c.alive /\ d.orphan = o
  BY Zenon DEF ChildRecords, ReadFrom
<1>4. \A i \in 1..Len(d.stdout) : d.stdout[i] = c.stdout[i + 1] /\ i + 1 \in 1..Len(c.stdout)
  BY <1>0, <1>2
<1>5. Written(d) = Written(c)
  BY <1>2 DEF Written
<1>6. ChildOk(d)
  BY <1>2, <1>4 DEF ChildOk
<1>7. \A n \in Nat : Fresh(c, n) => Fresh(d, n)
  BY <1>2, <1>4 DEF Fresh
<1>8. 1 \in 1..Len(c.stdout)
  BY <1>0
<1>9. \A n \in Nat : Fresh(c, n) /\ Head(c.stdout).id = c.nextId - 1 => Head(c.stdout).call = n
  BY <1>0, <1>8 DEF Fresh
<1> QED
  BY <1>0, <1>1, <1>2, <1>3, <1>5, <1>6, <1>7, <1>9 DEF Carried

\* The server says something: about a request it has, or with no id.
SaidBy(c, l, P) == [c EXCEPT !.stdout = Append(c.stdout, l), !.pending = P]

LEMMA SayChild ==
    ASSUME NEW c \in ChildRecords, ChildOk(c), NEW l \in Said, NEW P, P \subseteq c.pending,
           l.id = 0 \/ \E r \in c.pending : l.id = r.id /\ l.call = r.call,
           NEW d, d = SaidBy(c, l, P)
    PROVE  /\ Carried(c, d) /\ d.alive = c.alive /\ d.orphan = c.orphan
<1>0. /\ c.stdout \in Seq(Said) /\ Append(c.stdout, l) \in Seq(Said)
      /\ Len(Append(c.stdout, l)) = Len(c.stdout) + 1 /\ Len(c.stdout) \in Nat
      /\ Append(c.stdout, l)[Len(c.stdout) + 1] = l
      /\ 1..(Len(c.stdout) + 1) = 1..Len(c.stdout) \cup {Len(c.stdout) + 1}
      /\ \A i \in 1..Len(c.stdout) : Append(c.stdout, l)[i] = c.stdout[i]
  BY ChildFields, SeqAppend
<1>p. P \subseteq Asked
  BY ChildFields
<1>1. d \in ChildRecords
  BY <1>0, <1>p DEF ChildRecords, SaidBy
<1>2. /\ d.stdin = c.stdin /\ d.nextId = c.nextId /\ d.stdout = Append(c.stdout, l) /\ d.seen = c.seen
      /\ d.pending = P /\ d.server = c.server
  BY DEF ChildRecords, SaidBy
<1>3. d.alive = c.alive /\ d.orphan = c.orphan
  BY Zenon DEF ChildRecords, SaidBy
<1>4. \A i \in 1..Len(d.stdout) : d.stdout[i] = l \/ (i \in 1..Len(c.stdout) /\ d.stdout[i] = c.stdout[i])
  BY <1>0, <1>2
<1>5. Written(d) = Written(c)
  BY <1>2 DEF Written
<1>n. c.nextId \in Nat /\ c.nextId > 0
  BY ChildFields DEF ChildOk
<1>l. l.id < c.nextId
  BY <1>n DEF ChildOk
<1>6. ChildOk(d)
  <2>1. \A i \in 1..Len(d.stdout) : d.stdout[i].id < d.nextId
    BY <1>l, <1>2, <1>4 DEF ChildOk
  <2> QED
    BY <1>2, <2>1 DEF ChildOk
<1>7. ASSUME NEW n \in Nat, Fresh(c, n) PROVE Fresh(d, n)
  <2>1. c.nextId > 1
    BY <1>7 DEF Fresh
  <2>2. l.id = c.nextId - 1 => l.call = n
    <3>1. CASE l.id = 0
      BY <3>1, <2>1, <1>n
    <3>2. CASE \E r \in c.pending : l.id = r.id /\ l.call = r.call
      BY <3>2, <1>7 DEF Fresh
    <3> QED
      BY <3>1, <3>2
  <2>3. \A i \in 1..Len(d.stdout) : d.stdout[i].id = d.nextId - 1 => d.stdout[i].call = n
    BY <1>7, <2>2, <1>2, <1>4 DEF Fresh
  <2> QED
    BY <1>7, <1>2, <2>3 DEF Fresh
<1> QED
  BY <1>1, <1>2, <1>3, <1>5, <1>6, <1>7 DEF Carried

\* The server reads a line of the client.
HeardBy(c, r) ==
    [c EXCEPT !.stdin = Tail(c.stdin), !.seen = Append(c.seen, r.method),
              !.pending = IF r.method = "initialized" THEN c.pending ELSE c.pending \cup {r}]

LEMMA HearChild ==
    ASSUME NEW c \in ChildRecords, ChildOk(c), c.stdin # <<>>, NEW r, r = Head(c.stdin),
           NEW d, d = HeardBy(c, r)
    PROVE  /\ Carried(c, d) /\ d.alive = c.alive /\ d.orphan = c.orphan
<1>0. /\ c.stdin \in Seq(Asked) /\ Tail(c.stdin) \in Seq(Asked) /\ Len(c.stdin) \in Nat
      /\ Len(c.stdin) > 0 /\ Len(Tail(c.stdin)) = Len(c.stdin) - 1
      /\ r = c.stdin[1] /\ r \in Asked
      /\ \A i \in 1..(Len(c.stdin) - 1) : Tail(c.stdin)[i] = c.stdin[i + 1] /\ i + 1 \in 1..Len(c.stdin)
  BY ChildFields, SeqTail
<1>m. r.method \in Methods
  BY <1>0 DEF Asked
<1>s. /\ Append(c.seen, r.method) \in Seq(Methods) /\ Len(c.seen) \in Nat
      /\ Len(Append(c.seen, r.method)) = Len(c.seen) + 1
      /\ Append(c.seen, r.method)[Len(c.seen) + 1] = r.method
      /\ 1..(Len(c.seen) + 1) = 1..Len(c.seen) \cup {Len(c.seen) + 1}
      /\ \A i \in 1..Len(c.seen) : Append(c.seen, r.method)[i] = c.seen[i]
  BY <1>m, ChildFields, SeqAppend
<1>q. PICK Q : Q = IF r.method = "initialized" THEN c.pending ELSE c.pending \cup {r}
  OBVIOUS
<1>p. Q \subseteq Asked
  BY <1>q, <1>0, ChildFields
<1>e. d = [c EXCEPT !.stdin = Tail(c.stdin), !.seen = Append(c.seen, r.method), !.pending = Q]
  BY <1>q DEF HeardBy
<1>1. d \in ChildRecords
  BY <1>0, <1>p, <1>s, <1>e DEF ChildRecords
<1>2. /\ d.stdin = Tail(c.stdin) /\ d.nextId = c.nextId /\ d.stdout = c.stdout
      /\ d.seen = Append(c.seen, r.method) /\ d.pending = Q /\ d.server = c.server
  BY <1>e DEF ChildRecords
<1>3. d.alive = c.alive /\ d.orphan = c.orphan
  BY <1>e, Zenon DEF ChildRecords
<1>x. PICK a \in Nat, b \in Nat : a = Len(c.seen) /\ b = Len(c.stdin)
  BY <1>0, <1>s
<1>y. b > 0 /\ Len(d.seen) = a + 1 /\ Len(d.stdin) = b - 1 /\ (a + 1) + (b - 1) = a + b
  <2>1. b > 0 /\ Len(d.seen) = a + 1 /\ Len(d.stdin) = b - 1
    BY <1>x, <1>0, <1>s, <1>2
  <2>2. (a + 1) + (b - 1) = a + b
    OBVIOUS
  <2> QED
    BY <2>1, <2>2
<1>4. \A i \in 1..Len(d.stdin) : d.stdin[i] = c.stdin[i + 1] /\ i + 1 \in 1..Len(c.stdin)
  BY <1>0, <1>2
<1>5. Written(d) = Written(c)
  BY <1>x, <1>y DEF Written
<1>f. 1 \in 1..Len(c.stdin)
  BY <1>0
<1>6. ChildOk(d)
  <2>1. \A i \in 1..Len(d.stdin) : d.stdin[i].method # "initialized" => d.stdin[i].id < d.nextId
    BY <1>2, <1>4 DEF ChildOk
  <2>2. r.method # "initialized" => r.id < c.nextId
    BY <1>0, <1>f DEF ChildOk
  <2>3. \A q \in d.pending : q.id < d.nextId
    BY <2>2, <1>q, <1>2 DEF ChildOk
  <2>4. \A i \in 1..Len(d.seen) : Placed(i, d.seen[i])
    <3> SUFFICES ASSUME NEW i \in 1..Len(d.seen) PROVE Placed(i, d.seen[i])
      OBVIOUS
    <3>1. CASE i \in 1..Len(c.seen)
      BY <3>1, <1>s, <1>2 DEF ChildOk
    <3>2. CASE i = Len(c.seen) + 1
      <4>1. Placed(Len(c.seen) + 1, c.stdin[1].method)
        BY <1>f DEF ChildOk
      <4> QED
        BY <3>2, <4>1, <1>0, <1>s, <1>2
    <3> QED
      BY <3>1, <3>2, <1>s, <1>2
  <2>5. \A i \in 1..Len(d.stdin) : Placed(Len(d.seen) + i, d.stdin[i].method)
    <3> SUFFICES ASSUME NEW i \in 1..Len(d.stdin) PROVE Placed(Len(d.seen) + i, d.stdin[i].method)
      OBVIOUS
    <3>0. i \in Nat
      BY <1>4
    <3>1. i \in Nat /\ (a + 1) + i = a + (i + 1)
      BY <3>0
    <3>2. Placed(a + (i + 1), c.stdin[i + 1].method)
      BY <1>4, <1>x DEF ChildOk
    <3> QED
      BY <3>1, <3>2, <1>4, <1>y
  <2> QED
    BY <2>1, <2>3, <2>4, <2>5, <1>2 DEF ChildOk
<1>7. ASSUME NEW n \in Nat, Fresh(c, n) PROVE Fresh(d, n)
  <2>1. r.method # "initialized" /\ r.id = c.nextId - 1 => r.call = n
    BY <1>7, <1>0, <1>f DEF Fresh
  <2>2. \A q \in d.pending : q.id = d.nextId - 1 => q.call = n
    BY <2>1, <1>7, <1>q, <1>2 DEF Fresh
  <2>3. \A i \in 1..Len(d.stdin) :
          d.stdin[i].method # "initialized" /\ d.stdin[i].id = d.nextId - 1 => d.stdin[i].call = n
    BY <1>7, <1>2, <1>4 DEF Fresh
  <2> QED
    BY <1>7, <1>2, <2>2, <2>3 DEF Fresh
<1> QED
  BY <1>1, <1>2, <1>3, <1>5, <1>6, <1>7 DEF Carried

\* A number is used up though nothing could be written.
LEMMA SkipId ==
    ASSUME NEW c \in ChildRecords, ChildOk(c), NEW d, d = [c EXCEPT !.nextId = c.nextId + 1]
    PROVE  /\ d \in ChildRecords /\ ChildOk(d) /\ Written(d) = Written(c) /\ d.server = c.server
           /\ d.alive = c.alive /\ d.orphan = c.orphan
<1>n. c.nextId \in Nat /\ c.nextId + 1 \in Nat
  BY ChildFields
<1>1. d \in ChildRecords
  BY <1>n DEF ChildRecords
<1>2. /\ d.stdin = c.stdin /\ d.nextId = c.nextId + 1 /\ d.stdout = c.stdout /\ d.seen = c.seen
      /\ d.pending = c.pending /\ d.server = c.server
  BY DEF ChildRecords
<1>3. d.alive = c.alive /\ d.orphan = c.orphan
  BY Zenon DEF ChildRecords
<1>4. Written(d) = Written(c)
  BY <1>2 DEF Written
<1>5. /\ \A i \in 1..Len(c.stdin) : c.stdin[i].id \in Nat
      /\ \A i \in 1..Len(c.stdout) : c.stdout[i].id \in Nat
      /\ \A r \in c.pending : r.id \in Nat
  BY ChildFields DEF Asked, Said
<1>6. \A x \in Nat : x < c.nextId => x < c.nextId + 1
  BY <1>n
<1>7. ChildOk(d)
  <2>1. /\ \A i \in 1..Len(d.stdin) : d.stdin[i].method # "initialized" => d.stdin[i].id < d.nextId
        /\ \A r \in d.pending : r.id < d.nextId
        /\ \A i \in 1..Len(d.stdout) : d.stdout[i].id < d.nextId
    BY <1>2, <1>5, <1>6 DEF ChildOk
  <2>2. d.nextId > 0
    BY <1>2, <1>n
  <2> QED
    BY <2>1, <2>2, <1>2 DEF ChildOk
<1> QED
  BY <1>1, <1>2, <1>3, <1>4, <1>7

-----------------------------------------------------------------------------
(* The steps.                                                              *)

\* One child changes, and has been written to as much as before.
LEMMA ReplaceChild ==
    ASSUME McpInv, NEW k \in DOMAIN children, NEW d \in ChildRecords, ChildOk(d),
           Written(d) >= Written(children[k]), children' = [children EXCEPT ![k] = d]
    PROVE  /\ children' \in Seq(ChildRecords) /\ DOMAIN children' = DOMAIN children
           /\ children'[k] = d /\ \A j \in DOMAIN children : j # k => children'[j] = children[j]
           /\ \A j \in DOMAIN children' : ChildOk(children'[j])
           /\ \A s \in Servers : cached[s] # 0 => Written(children'[cached[s]]) >= 2
<1>1. /\ children' \in Seq(ChildRecords) /\ DOMAIN children' = DOMAIN children
      /\ children'[k] = d /\ \A j \in DOMAIN children : j # k => children'[j] = children[j]
  BY DEF McpInv, McpType
<1>2. \A j \in DOMAIN children' : ChildOk(children'[j])
  BY <1>1 DEF McpInv, Pipes
<1>3. ASSUME NEW s \in Servers, cached[s] # 0 PROVE Written(children'[cached[s]]) >= 2
  <2>1. cached[s] \in DOMAIN children /\ Written(children[cached[s]]) >= 2
    BY <1>3 DEF McpInv, McpType, Counts
  <2>2. CASE cached[s] = k
    <3>1. children[k] \in ChildRecords
      BY DEF McpInv, McpType
    <3>2. Written(children[k]) \in Nat /\ Written(d) \in Nat
      BY <3>1, WrittenType
    <3> QED
      BY <2>1, <2>2, <3>2, <1>1
  <2> QED
    BY <2>1, <2>2, <1>1
<1> QED
  BY <1>1, <1>2, <1>3

\* A step of a server, or of the client that skips a line.
LEMMA QuietStep ==
    ASSUME McpInv, NEW k \in DOMAIN children, NEW d, Carried(children[k], d),
           d.alive => children[k].alive, d.orphan = children[k].orphan,
           children' = [children EXCEPT ![k] = d], UNCHANGED <<client, target, cached, calls>>
    PROVE  McpInv'
<1>w. /\ children[k] \in ChildRecords /\ Written(children[k]) \in Nat
      /\ Written(d) = Written(children[k])
  <2>1. children[k] \in ChildRecords
    BY DEF McpInv, McpType
  <2> QED
    BY <2>1, WrittenType DEF Carried
<1>g. d \in ChildRecords /\ ChildOk(d) /\ Written(d) >= Written(children[k])
  BY <1>w DEF Carried
<1>1. /\ children' \in Seq(ChildRecords) /\ DOMAIN children' = DOMAIN children
      /\ children'[k] = d /\ \A j \in DOMAIN children : j # k => children'[j] = children[j]
      /\ \A j \in DOMAIN children' : ChildOk(children'[j])
      /\ \A s \in Servers : cached[s] # 0 => Written(children'[cached[s]]) >= 2
  BY <1>g, ReplaceChild
<1>2. McpType'
  BY <1>1 DEF McpInv, McpType, Connecting, Calling
<1>3. Pipes'
  <2>1. ASSUME client \in {"handshake", "reply"} PROVE Fresh(children'[target], Len(calls))
    <3>1. target \in DOMAIN children /\ Len(calls) \in Nat /\ Fresh(children[target], Len(calls))
      BY <2>1 DEF McpInv, McpType, Pipes, Connecting, Calling
    <3> QED
      BY <3>1, <1>1 DEF Carried
  <2> QED
    BY <1>1, <2>1 DEF Pipes
<1>4. Counts'
  <2>1. \A j \in DOMAIN children : Written(children'[j]) = Written(children[j])
    BY <1>1, <1>w
  <2>2. client \in {"spawn", "handshake", "initialized"} => target \in DOMAIN children
    BY DEF McpInv, McpType, Connecting
  <2> QED
    BY <1>1, <2>1, <2>2 DEF McpInv, Counts
<1>5. Owned'
  <2>1. \A j \in DOMAIN children : /\ children'[j].orphan = children[j].orphan
                                   /\ children'[j].server = children[j].server
                                   /\ (children'[j].alive => children[j].alive)
    BY <1>1, Zenon DEF Carried
  <2>2. Connecting => target \in DOMAIN children
    BY DEF McpInv, McpType
  <2>3. \A j \in DOMAIN children' : \/ \E s \in Servers : cached[s] = j
                                    \/ children'[j].orphan
                                    \/ j = target /\ Connecting
    BY <1>1, <2>1 DEF McpInv, Owned
  <2>4. Connecting => cached[children'[target].server] = 0
    BY <2>1, <2>2 DEF McpInv, Owned
  <2>5. client = "dropped" => \A j \in DOMAIN children' : children'[j].alive => children'[j].orphan
    BY <1>1, <2>1 DEF McpInv, Owned
  <2>6. Calling => \E s \in Servers : cached[s] = target
    BY DEF McpInv, Owned
  <2> QED
    BY <2>3, <2>4, <2>5, <2>6 DEF Owned, Connecting, Calling
<1>6. Answered'
  BY DEF McpInv, Answered
<1> QED
  BY <1>2, <1>3, <1>4, <1>5, <1>6 DEF McpInv

\* call_tool returns.
LEMMA ReturnStep ==
    ASSUME McpInv, Len(calls) > 0, NEW r \in {"ok", "error"}, NEW l, l.call \in Nat,
           r = "ok" => l.call = Len(calls), Mcp!Return(r, l)
    PROVE  calls' \in Seq(CallRecords) /\ Answered' /\ client' = "idle"
<1>1. PICK n \in Nat : n = Len(calls)
  BY DEF McpInv, McpType
<1>2. PICK e : e = [result |-> r, answers |-> l.call]
  OBVIOUS
<1>3. e \in CallRecords /\ e.result = r /\ e.answers = l.call
  BY <1>2 DEF CallRecords
<1>4. calls' = [calls EXCEPT ![n] = e] /\ client' = "idle" /\ n \in DOMAIN calls
  BY <1>1, <1>2 DEF Mcp!Return, McpInv, McpType
<1>5. calls' \in Seq(CallRecords)
  BY <1>3, <1>4 DEF McpInv, McpType
<1>6. DOMAIN calls' = DOMAIN calls /\ calls'[n] = e /\ \A i \in DOMAIN calls : i # n => calls'[i] = calls[i]
  BY <1>4 DEF McpInv, McpType
<1>7. Answered'
  BY <1>1, <1>3, <1>6 DEF McpInv, Answered
<1> QED
  BY <1>4, <1>5, <1>7

\* call_tool returns an error.
LEMMA ErrorStep ==
    ASSUME McpInv, Len(calls) > 0, Mcp!Error
    PROVE  calls' \in Seq(CallRecords) /\ Answered' /\ client' = "idle"
<1>1. Mcp!Line(0, "none", 0).call = 0
  BY DEF Mcp!Line
<1> QED
  BY <1>1, ReturnStep DEF Mcp!Error

\* The state after call_tool returned with the target's child as it then is.
LEMMA Finish ==
    ASSUME McpInv, Connecting \/ Calling, NEW d \in ChildRecords, ChildOk(d),
           Written(d) = Written(children[target]), d.server = children[target].server,
           children' = [children EXCEPT ![target] = d], cached' = cached,
           calls' \in Seq(CallRecords), Answered', client' = "idle",
           Connecting => d.orphan
    PROVE  McpInv'
<1>t. target \in DOMAIN children
  BY DEF McpInv, McpType
<1>w. Written(d) >= Written(children[target])
  <2>1. Written(d) \in Nat
    BY WrittenType
  <2> QED
    BY <2>1
<1>1. /\ children' \in Seq(ChildRecords) /\ DOMAIN children' = DOMAIN children
      /\ children'[target] = d /\ \A j \in DOMAIN children : j # target => children'[j] = children[j]
      /\ \A j \in DOMAIN children' : ChildOk(children'[j])
      /\ \A s \in Servers : cached[s] # 0 => Written(children'[cached[s]]) >= 2
  BY <1>t, <1>w, ReplaceChild
<1>2. McpType'
  BY <1>1 DEF McpInv, McpType, Connecting, Calling
<1>3. Pipes' /\ Counts'
  BY <1>1 DEF Pipes, Counts
<1>5. Owned'
  <2>1. ASSUME NEW j \in DOMAIN children PROVE (\E s \in Servers : cached[s] = j) \/ children'[j].orphan
    <3>1. CASE j = target /\ Connecting
      BY <1>1, <3>1
    <3>2. CASE j = target /\ Calling
      BY <3>2 DEF McpInv, Owned
    <3>3. CASE j # target
      BY <1>1, <3>3 DEF McpInv, Owned
    <3> QED
      BY <3>1, <3>2, <3>3
  <2> QED
    BY <1>1, <2>1 DEF Owned, Connecting, Calling
<1> QED
  BY <1>2, <1>3, <1>5 DEF McpInv

\* A child that was just spawned.
LEMMA NewChildOk ==
    ASSUME NEW s \in Servers, NEW d, d = Mcp!NewChild(s)
    PROVE  d \in ChildRecords /\ ChildOk(d) /\ Written(d) = 0 /\ d.server = s
<1>1. d \in ChildRecords
  BY DEF ChildRecords, Mcp!NewChild
<1>2. /\ d.nextId = 1 /\ d.stdin = <<>> /\ d.stdout = <<>> /\ d.seen = <<>> /\ d.pending = {}
      /\ d.server = s
  BY DEF Mcp!NewChild
<1>3. Len(d.stdin) = 0 /\ Len(d.stdout) = 0 /\ Len(d.seen) = 0
  BY <1>2
<1> QED
  BY <1>1, <1>2, <1>3 DEF ChildOk, Written

\* One more call on record.
LEMMA CallAdded ==
    ASSUME McpInv, NEW r \in {"none", "error"}, calls' = Append(calls, [result |-> r, answers |-> 0])
    PROVE  calls' \in Seq(CallRecords) /\ Answered' /\ Len(calls') > 0
<1>1. PICK e : e = [result |-> r, answers |-> 0]
  OBVIOUS
<1>2. e \in CallRecords /\ e.result = r
  BY <1>1 DEF CallRecords
<1>3. calls \in Seq(CallRecords) /\ calls' = Append(calls, e)
  BY <1>1 DEF McpInv, McpType
<1>4. PICK n \in Nat : n = Len(calls)
  BY <1>3
<1>5. /\ calls' \in Seq(CallRecords) /\ Len(calls') = n + 1 /\ calls'[n + 1] = e
      /\ \A i \in 1..n : calls'[i] = calls[i]
  BY <1>2, <1>3, <1>4
<1>6. DOMAIN calls = 1..n /\ DOMAIN calls' = 1..(n + 1) /\ 1..(n + 1) = 1..n \cup {n + 1}
  BY <1>3, <1>4, <1>5
<1>7. Answered'
  BY <1>2, <1>5, <1>6 DEF McpInv, Answered
<1> QED
  BY <1>5, <1>7

\* call_tool starts.
LEMMA CallToolStep ==
    ASSUME McpInv, NEW s \in Servers, Mcp!CallTool(s)
    PROVE  McpInv'
<1>0. client = "idle" /\ cached' = cached
  BY DEF Mcp!CallTool
<1>c. calls' \in Seq(CallRecords) /\ Answered' /\ Len(calls') > 0
  BY CallAdded DEF Mcp!CallTool
<1>1. CASE cached[s] = 0
  <2>1. PICK d : d = Mcp!NewChild(s)
    OBVIOUS
  <2>2. /\ client' = "spawn" /\ children' = Append(children, d) /\ target' = Len(children')
    BY <1>1, <2>1 DEF Mcp!CallTool
  <2>3. d \in ChildRecords /\ ChildOk(d) /\ Written(d) = 0 /\ d.server = s
    BY <2>1, NewChildOk
  <2>4. children \in Seq(ChildRecords)
    BY DEF McpInv, McpType
  <2>5. PICK n \in Nat : n = Len(children)
    BY <2>4
  <2>6. /\ children' \in Seq(ChildRecords) /\ Len(children') = n + 1 /\ children'[n + 1] = d
        /\ \A j \in 1..n : children'[j] = children[j]
    BY <2>2, <2>3, <2>4, <2>5
  <2>7. DOMAIN children = 1..n /\ DOMAIN children' = 1..(n + 1) /\ 1..(n + 1) = 1..n \cup {n + 1}
    BY <2>4, <2>5, <2>6
  <2>8. target' = n + 1 /\ target' \in DOMAIN children' /\ children'[target'] = d
    BY <2>2, <2>6, <2>7
  <2>9. McpType'
    BY <1>0, <1>c, <2>2, <2>6, <2>7, <2>8 DEF McpInv, McpType, Connecting, Calling
  <2>10. Pipes'
    BY <2>2, <2>3, <2>6, <2>7 DEF McpInv, Pipes
  <2>11. Counts'
    <3>1. \A t \in Servers : cached[t] # 0 => cached[t] \in 1..n
      BY <2>7 DEF McpInv, McpType
    <3>2. \A t \in Servers : cached[t] # 0 => Written(children'[cached[t]]) >= 2
      BY <3>1, <2>6 DEF McpInv, Counts
    <3> QED
      BY <1>0, <2>2, <2>3, <2>8, <3>2 DEF Counts
  <2>12. Owned'
    <3>1. \A j \in 1..n : (\E t \in Servers : cached[t] = j) \/ children'[j].orphan
      BY <1>0, <2>6, <2>7 DEF McpInv, Owned, Connecting
    <3>2. Connecting'
      BY <2>2 DEF Connecting
    <3>3. ~Calling' /\ client' # "dropped"
      BY <2>2 DEF Calling
    <3> QED
      BY <1>0, <1>1, <2>3, <2>7, <2>8, <3>1, <3>2, <3>3 DEF Owned
  <2> QED
    BY <1>c, <2>9, <2>10, <2>11, <2>12 DEF McpInv
<1>2. CASE cached[s] # 0
  <2>1. client' = "call" /\ target' = cached[s] /\ UNCHANGED children
    BY <1>2 DEF Mcp!CallTool
  <2>2. cached[s] \in DOMAIN children
    BY <1>2 DEF McpInv, McpType
  <2>3. McpType'
    BY <1>0, <1>c, <2>1, <2>2 DEF McpInv, McpType, Connecting, Calling
  <2>4. Pipes' /\ Counts'
    BY <1>0, <2>1 DEF McpInv, Pipes, Counts
  <2>5. Owned'
    <3>1. ~Connecting' /\ client' # "dropped" /\ ~Connecting
      BY <1>0, <2>1 DEF Connecting
    <3> QED
      BY <1>0, <2>1, <3>1 DEF McpInv, Owned
  <2> QED
    BY <1>c, <2>3, <2>4, <2>5 DEF McpInv
<1> QED
  BY <1>1, <1>2

\* call_tool fails to spawn.
LEMMA SpawnFailsStep ==
    ASSUME McpInv, NEW s \in Servers, Mcp!SpawnFails(s)
    PROVE  McpInv'
<1>1. client = "idle" /\ UNCHANGED <<client, target, cached, children>>
  BY DEF Mcp!SpawnFails
<1>2. calls' \in Seq(CallRecords) /\ Answered'
  BY CallAdded DEF Mcp!SpawnFails
<1> QED
  BY <1>1, <1>2 DEF McpInv, McpType, Pipes, Counts, Owned, Connecting, Calling

\* What a line written to the target makes of it.
LEMMA WroteStep ==
    ASSUME McpInv, Connecting \/ Calling, NEW m \in Methods, Mcp!Wrote(m),
           Placed(Written(children[target]) + 1, m)
    PROVE  \E d \in ChildRecords :
              /\ children' = [children EXCEPT ![target] = d]
              /\ ChildOk(d) /\ Written(d) = Written(children[target]) + 1
              /\ d.server = children[target].server /\ (m # "initialized" => Fresh(d, Len(calls)))
<1>1. target \in DOMAIN children /\ children[target] \in ChildRecords /\ Len(calls) \in Nat
  BY DEF McpInv, McpType
<1>2. PICK c \in ChildRecords : c = children[target]
  BY <1>1
<1>3. PICK d : d = WrittenTo(c, m, Len(calls))
  OBVIOUS
<1>4. children' = [children EXCEPT ![target] = d]
  BY <1>1, <1>2, <1>3 DEF WrittenTo, Mcp!Wrote, Mcp!Child, Mcp!Request, McpInv, McpType, ChildRecords
<1>5. ChildOk(c)
  BY <1>1, <1>2 DEF McpInv, Pipes
<1>6. /\ d \in ChildRecords /\ ChildOk(d) /\ Written(d) = Written(c) + 1
      /\ d.server = c.server /\ (m # "initialized" => Fresh(d, Len(calls)))
  <2>1. Placed(Written(c) + 1, m)
    BY <1>2
  <2>2. PICK n \in Nat : n = Len(calls)
    BY <1>1
  <2>3. d = WrittenTo(c, m, n)
    BY <1>3, <2>2
  <2>4. /\ d \in ChildRecords /\ ChildOk(d) /\ Written(d) = Written(c) + 1
        /\ d.server = c.server /\ (m # "initialized" => Fresh(d, n))
    BY <1>5, <2>1, <2>3, WriteChild
  <2> QED
    BY <2>2, <2>4
<1> QED
  BY <1>2, <1>4, <1>6

\* The connection fails before it is cached: the child is left to itself.
LEMMA AbandonStep ==
    ASSUME McpInv, Connecting, Mcp!Error, Mcp!Abandoned, cached' = cached
    PROVE  McpInv'
<1>1. target \in DOMAIN children /\ children[target] \in ChildRecords /\ Len(calls) > 0
  BY DEF McpInv, McpType
<1>2. PICK c \in ChildRecords : c = children[target]
  BY <1>1
<1>3. ChildOk(c)
  BY <1>1, <1>2 DEF McpInv, Pipes
<1>a. PICK a \in BOOLEAN : a = c.alive
  BY ChildFields
<1>4. PICK d : d = [c EXCEPT !.alive = a, !.orphan = TRUE]
  OBVIOUS
<1>5. children' = [children EXCEPT ![target] = d]
  <2>1. d = [c EXCEPT !.orphan = TRUE]
    BY <1>a, <1>4 DEF ChildRecords
  <2> QED
    BY <1>1, <1>2, <2>1 DEF Mcp!Abandoned, McpInv, McpType
<1>6. Carried(c, d) /\ d.orphan = TRUE
  BY <1>3, <1>4, SamePipes
<1>7. calls' \in Seq(CallRecords) /\ Answered' /\ client' = "idle"
  BY <1>1, ErrorStep
<1>8. d \in ChildRecords /\ ChildOk(d) /\ Written(d) = Written(children[target])
      /\ d.server = children[target].server /\ d.orphan
  BY <1>2, <1>6 DEF Carried
<1> QED
  BY <1>5, <1>7, <1>8, Finish

\* The initialize request.
LEMMA InitializeStep == ASSUME McpInv, Mcp!Initialize PROVE McpInv'
<1>0. client = "spawn" /\ Connecting /\ cached' = cached
  BY DEF Mcp!Initialize, Connecting
<1>1. CASE Mcp!Wrote("initialize") /\ client' = "handshake" /\ UNCHANGED <<target, calls>>
  <2>1. Written(children[target]) = 0
    BY <1>0 DEF McpInv, Counts
  <2>2. Placed(Written(children[target]) + 1, "initialize")
    BY <2>1 DEF Placed
  <2>3. PICK d \in ChildRecords :
              /\ children' = [children EXCEPT ![target] = d]
              /\ ChildOk(d) /\ Written(d) = Written(children[target]) + 1
              /\ d.server = children[target].server /\ Fresh(d, Len(calls))
    BY <1>0, <1>1, <2>2, WroteStep DEF Methods
  <2>t. target \in DOMAIN children /\ Written(d) = 1 /\ Written(d) >= Written(children[target])
    BY <1>0, <2>1, <2>3 DEF McpInv, McpType
  <2>4. /\ children' \in Seq(ChildRecords) /\ DOMAIN children' = DOMAIN children
        /\ children'[target] = d /\ \A j \in DOMAIN children : j # target => children'[j] = children[j]
        /\ \A j \in DOMAIN children' : ChildOk(children'[j])
        /\ \A s \in Servers : cached[s] # 0 => Written(children'[cached[s]]) >= 2
    BY <2>3, <2>t, ReplaceChild
  <2>5. Connecting' /\ ~Calling' /\ client' # "dropped"
    BY <1>1 DEF Connecting, Calling
  <2>6. McpType'
    BY <1>0, <1>1, <2>4, <2>5 DEF McpInv, McpType
  <2>7. Pipes' /\ Counts'
    BY <1>0, <1>1, <2>3, <2>4, <2>t DEF Pipes, Counts
  <2>8. Owned'
    BY <1>0, <1>1, <2>3, <2>4, <2>5 DEF McpInv, Owned
  <2>9. Answered'
    BY <1>1 DEF McpInv, Answered
  <2> QED
    BY <2>6, <2>7, <2>8, <2>9 DEF McpInv
<1>2. CASE Mcp!Error /\ Mcp!Abandoned
  BY <1>0, <1>2, AbandonStep
<1> QED
  BY <1>1, <1>2 DEF Mcp!Initialize

\* The initialized notification; the child is cached.
LEMMA InitializedStep == ASSUME McpInv, Mcp!Initialized PROVE McpInv'
<1>0. client = "initialized" /\ Connecting
  BY DEF Mcp!Initialized, Connecting
<1>1. CASE /\ Mcp!Wrote("initialized") /\ client' = "call" /\ UNCHANGED <<target, calls>>
           /\ cached' = [cached EXCEPT ![children[target].server] = target]
  <2>1. Written(children[target]) = 1
    BY <1>0 DEF McpInv, Counts
  <2>2. Placed(Written(children[target]) + 1, "initialized")
    BY <2>1 DEF Placed
  <2>3. PICK d \in ChildRecords :
              /\ children' = [children EXCEPT ![target] = d]
              /\ ChildOk(d) /\ Written(d) = Written(children[target]) + 1
              /\ d.server = children[target].server
    BY <1>0, <1>1, <2>2, WroteStep DEF Methods
  <2>t. target \in DOMAIN children /\ Written(d) = 2 /\ Written(d) >= Written(children[target])
    BY <1>0, <2>1, <2>3 DEF McpInv, McpType
  <2>4. /\ children' \in Seq(ChildRecords) /\ DOMAIN children' = DOMAIN children
        /\ children'[target] = d /\ \A j \in DOMAIN children : j # target => children'[j] = children[j]
        /\ \A j \in DOMAIN children' : ChildOk(children'[j])
        /\ \A s \in Servers : cached[s] # 0 => Written(children'[cached[s]]) >= 2
    BY <2>3, <2>t, ReplaceChild
  <2>5. ~Connecting' /\ Calling' /\ client' # "dropped"
    BY <1>1 DEF Connecting, Calling
  <2>s. PICK v \in Servers : v = children[target].server /\ cached[v] = 0
    BY <1>0, <2>t, ChildFields DEF McpInv, McpType, Owned
  <2>c. /\ cached' = [cached EXCEPT ![v] = target] /\ cached \in [Servers -> {0} \cup DOMAIN children]
        /\ cached'[v] = target /\ \A s \in Servers : s # v => cached'[s] = cached[s]
    BY <1>1, <2>s DEF McpInv, McpType
  <2>6. McpType'
    BY <1>0, <1>1, <2>4, <2>5, <2>c, <2>t DEF McpInv, McpType, Connecting
  <2>7. Pipes' /\ Counts'
    <3>1. \A s \in Servers : cached'[s] # 0 => Written(children'[cached'[s]]) >= 2
      BY <2>4, <2>c, <2>t
    <3> QED
      BY <1>1, <2>4, <3>1 DEF Pipes, Counts
  <2>8. Owned'
    <3>1. ASSUME NEW j \in DOMAIN children PROVE (\E s \in Servers : cached'[s] = j) \/ children'[j].orphan
      <4>1. CASE j = target
        BY <4>1, <2>c
      <4>2. CASE j # target /\ \E s \in Servers : cached[s] = j
        <5>1. PICK s \in Servers : cached[s] = j
          BY <4>2
        <5>2. j # 0
          BY DEF McpInv, McpType
        <5> QED
          BY <5>1, <5>2, <2>s, <2>c
      <4>3. CASE j # target /\ children[j].orphan
        BY <4>3, <2>4
      <4> QED
        BY <4>1, <4>2, <4>3 DEF McpInv, Owned
    <3>2. \E s \in Servers : cached'[s] = target'
      BY <1>1, <2>c
    <3> QED
      BY <2>4, <2>5, <3>1, <3>2 DEF Owned
  <2>9. Answered'
    BY <1>1 DEF McpInv, Answered
  <2> QED
    BY <2>6, <2>7, <2>8, <2>9 DEF McpInv
<1>2. CASE Mcp!Error /\ Mcp!Abandoned /\ UNCHANGED cached
  BY <1>0, <1>2, AbandonStep
<1> QED
  BY <1>1, <1>2 DEF Mcp!Initialized, Mcp!Child

\* The tools/call request.
LEMMA CallStep == ASSUME McpInv, Mcp!Call PROVE McpInv'
<1>0. client = "call" /\ Calling /\ cached' = cached /\ ~Connecting
  BY DEF Mcp!Call, Connecting, Calling
<1>t. target \in DOMAIN children /\ children[target] \in ChildRecords /\ Len(calls) > 0
      /\ ChildOk(children[target])
  BY <1>0 DEF McpInv, McpType, Pipes
<1>w. Written(children[target]) >= 2 /\ Written(children[target]) \in Nat
  <2>1. PICK s \in Servers : cached[s] = target
    BY <1>0 DEF McpInv, Owned
  <2>2. target # 0
    BY <1>t DEF McpInv, McpType
  <2> QED
    BY <2>1, <2>2, <1>t, WrittenType DEF McpInv, Counts
<1>1. CASE Mcp!Wrote("tools/call") /\ client' = "reply" /\ UNCHANGED <<target, calls>>
  <2>1. PICK x \in Nat : x = Written(children[target]) /\ x >= 2
    BY <1>w
  <2>2. Placed(Written(children[target]) + 1, "tools/call")
    <3>1. x + 1 # 1 /\ x + 1 # 2
      BY <2>1
    <3> QED
      BY <2>1, <3>1 DEF Placed
  <2>3. PICK d \in ChildRecords :
              /\ children' = [children EXCEPT ![target] = d]
              /\ ChildOk(d) /\ Written(d) = Written(children[target]) + 1
              /\ d.server = children[target].server /\ Fresh(d, Len(calls))
    BY <1>0, <1>1, <2>2, WroteStep DEF Methods
  <2>g. Written(d) >= Written(children[target])
    BY <2>1, <2>3
  <2>4. /\ children' \in Seq(ChildRecords) /\ DOMAIN children' = DOMAIN children
        /\ children'[target] = d /\ \A j \in DOMAIN children : j # target => children'[j] = children[j]
        /\ \A j \in DOMAIN children' : ChildOk(children'[j])
        /\ \A s \in Servers : cached[s] # 0 => Written(children'[cached[s]]) >= 2
    BY <2>3, <2>g, <1>t, ReplaceChild
  <2>5. ~Connecting' /\ Calling' /\ client' # "dropped"
    BY <1>1 DEF Connecting, Calling
  <2>6. McpType'
    BY <1>0, <1>1, <2>4, <2>5 DEF McpInv, McpType
  <2>7. Pipes' /\ Counts'
    BY <1>0, <1>1, <2>3, <2>4 DEF Pipes, Counts
  <2>8. Owned'
    <3>1. ASSUME NEW j \in DOMAIN children PROVE (\E s \in Servers : cached[s] = j) \/ children'[j].orphan
      <4>1. CASE j = target
        BY <4>1, <1>0 DEF McpInv, Owned
      <4>2. CASE j # target
        BY <4>2, <2>4, <1>0 DEF McpInv, Owned
      <4> QED
        BY <4>1, <4>2
    <3>2. \E s \in Servers : cached[s] = target
      BY <1>0 DEF McpInv, Owned
    <3> QED
      BY <1>0, <1>1, <2>4, <2>5, <3>1, <3>2 DEF Owned
  <2>9. Answered'
    BY <1>1 DEF McpInv, Answered
  <2> QED
    BY <2>6, <2>7, <2>8, <2>9 DEF McpInv
<1>2. CASE Mcp!Error /\ children' = [children EXCEPT ![target].nextId = @ + 1]
  <2>1. PICK c \in ChildRecords : c = children[target]
    BY <1>t
  <2>2. PICK d : d = [c EXCEPT !.nextId = c.nextId + 1]
    OBVIOUS
  <2>3. children' = [children EXCEPT ![target] = d]
    BY <1>2, <1>t, <2>1, <2>2 DEF McpInv, McpType, ChildRecords
  <2>4. d \in ChildRecords /\ ChildOk(d) /\ Written(d) = Written(c) /\ d.server = c.server
    BY <1>t, <2>1, <2>2, SkipId
  <2>5. calls' \in Seq(CallRecords) /\ Answered' /\ client' = "idle"
    BY <1>2, <1>t, ErrorStep
  <2> QED
    BY <1>0, <2>1, <2>3, <2>4, <2>5, Finish
<1> QED
  BY <1>1, <1>2 DEF Mcp!Call

\* A line for nobody is skipped.
LEMMA SkipStep == ASSUME McpInv, Mcp!Skip PROVE McpInv'
<1>0. /\ Connecting \/ Calling
      /\ children[target].stdout # <<>>
      /\ children' = [children EXCEPT ![target].stdout = Tail(@)]
      /\ UNCHANGED <<client, target, cached, calls>>
  BY DEF Mcp!Skip, Mcp!Reading, Mcp!Child, Connecting, Calling
<1>t. target \in DOMAIN children /\ children[target] \in ChildRecords /\ ChildOk(children[target])
      /\ children[target].stdout # <<>>
  BY DEF Mcp!Skip, Mcp!Reading, Mcp!Child, Connecting, Calling, McpInv, McpType, Pipes
<1>1. PICK c \in ChildRecords : c = children[target]
  BY <1>t
<1>a. PICK o \in BOOLEAN : o = c.orphan
  BY ChildFields
<1>2. PICK d : d = ReadFrom(c, o)
  OBVIOUS
<1>3. Carried(c, d) /\ d.alive = c.alive /\ d.orphan = o
  <2>1. ChildOk(c) /\ c.stdout # <<>>
    BY <1>t, <1>1
  <2> QED
    BY <1>2, <2>1, ReadChild
<1>4. children' = [children EXCEPT ![target] = d]
  <2>1. d = [c EXCEPT !.stdout = Tail(c.stdout)]
    BY <1>a, <1>2 DEF ReadFrom, ChildRecords
  <2> QED
    BY <1>t, <1>0, <1>1, <2>1 DEF McpInv, McpType
<1>5. (d.alive => children[target].alive) /\ d.orphan = children[target].orphan
  BY <1>1, <1>3, <1>a
<1> QED
  BY <1>0, <1>t, <1>1, <1>3, <1>4, <1>5, QuietStep

\* The answer is read.
LEMMA ReadAnswerStep == ASSUME McpInv, Mcp!ReadAnswer PROVE McpInv'
<1>r. client \in {"handshake", "reply"} /\ (Connecting \/ Calling) /\ cached' = cached
      /\ children[target].stdout # <<>> /\ Head(children[target].stdout).id = children[target].nextId - 1
  BY DEF Mcp!ReadAnswer, Mcp!Reading, Mcp!Child, Mcp!Matches, Mcp!Expected, Connecting, Calling
<1>t. /\ target \in DOMAIN children /\ children[target] \in ChildRecords
      /\ ChildOk(children[target]) /\ Len(calls) \in Nat /\ Len(calls) > 0
      /\ Fresh(children[target], Len(calls))
  BY <1>r DEF McpInv, McpType, Pipes
<1>c. PICK c \in ChildRecords : c = children[target]
  BY <1>t
<1>k. PICK ok \in BOOLEAN : ok = (\/ Head(c.stdout).body = "result"
                                  \/ (client = "handshake" /\ Head(c.stdout).body = "neither"))
  OBVIOUS
<1>o. PICK o \in BOOLEAN : o = (client = "handshake" /\ ~ok)
  OBVIOUS
<1>d. PICK d : d = ReadFrom(c, o)
  OBVIOUS
<1>1. children' = [children EXCEPT ![target] = d]
  <2>1. children' = [children EXCEPT ![target].stdout = Tail(@), ![target].orphan = o]
    BY <1>k, <1>o, <1>c DEF Mcp!ReadAnswer, Mcp!Child
  <2> QED
    BY <2>1, <1>t, <1>c, <1>d DEF ReadFrom, McpInv, McpType
<1>2. /\ Carried(c, d) /\ d.alive = c.alive /\ d.orphan = o /\ Head(c.stdout) \in Said
      /\ \A n \in Nat : Fresh(c, n) /\ Head(c.stdout).id = c.nextId - 1 => Head(c.stdout).call = n
  <2>1. ChildOk(c) /\ c.stdout # <<>>
    BY <1>r, <1>t, <1>c
  <2> QED
    BY <1>d, <2>1, ReadChild
<1>3. Head(c.stdout).call = Len(calls)
  BY <1>r, <1>t, <1>c, <1>2
<1>g. /\ d \in ChildRecords /\ ChildOk(d) /\ Written(d) = Written(children[target])
      /\ d.server = children[target].server
  BY <1>c, <1>2 DEF Carried
<1>4. CASE client = "handshake" /\ ok
  <2>1. client' = "initialized" /\ UNCHANGED <<target, calls>>
    BY <1>4, <1>k, <1>c DEF Mcp!ReadAnswer, Mcp!Child
  <2>w. Written(d) >= Written(children[target]) /\ Written(children[target]) = 1
    BY <1>4, <1>g DEF McpInv, Counts
  <2>4. /\ children' \in Seq(ChildRecords) /\ DOMAIN children' = DOMAIN children
        /\ children'[target] = d /\ \A j \in DOMAIN children : j # target => children'[j] = children[j]
        /\ \A j \in DOMAIN children' : ChildOk(children'[j])
        /\ \A s \in Servers : cached[s] # 0 => Written(children'[cached[s]]) >= 2
    BY <1>g, <1>1, <2>w, <1>t, ReplaceChild
  <2>5. Connecting' /\ Connecting /\ ~Calling' /\ client' # "dropped"
    BY <1>4, <2>1 DEF Connecting, Calling
  <2>6. McpType'
    BY <1>r, <2>1, <2>4, <2>5 DEF McpInv, McpType
  <2>7. Pipes' /\ Counts'
    BY <1>r, <2>1, <1>g, <2>4, <2>w DEF Pipes, Counts
  <2>8. Owned'
    BY <1>r, <2>1, <1>g, <2>4, <2>5 DEF McpInv, Owned
  <2>9. Answered'
    BY <2>1 DEF McpInv, Answered
  <2> QED
    BY <2>6, <2>7, <2>8, <2>9 DEF McpInv
<1>5. CASE ~(client = "handshake" /\ ok)
  <2>1. PICK r \in {"ok", "error"} : Mcp!Return(r, Head(c.stdout))
    BY <1>5, <1>k, <1>c DEF Mcp!ReadAnswer, Mcp!Child
  <2>2. Head(c.stdout).call \in Nat
    BY <1>3, <1>t
  <2>3. calls' \in Seq(CallRecords) /\ Answered' /\ client' = "idle"
    BY <1>t, <1>3, <2>1, <2>2, ReturnStep
  <2>4. Connecting => d.orphan
    BY <1>r, <1>2, <1>o, <1>5 DEF Connecting
  <2> QED
    BY <1>r, <1>1, <1>g, <2>3, <2>4, Finish
<1> QED
  BY <1>4, <1>5

\* A line that does not decode, or the end of stdout.
LEMMA ReadFailsStep == ASSUME McpInv, Mcp!ReadFails PROVE McpInv'
<1>r. client \in {"handshake", "reply"} /\ (Connecting \/ Calling) /\ cached' = cached /\ Mcp!Error
  BY DEF Mcp!ReadFails, Mcp!Reading, Connecting, Calling
<1>t. /\ target \in DOMAIN children /\ children[target] \in ChildRecords
      /\ ChildOk(children[target]) /\ Len(calls) > 0
  BY <1>r DEF McpInv, McpType, Pipes
<1>c. PICK c \in ChildRecords : c = children[target]
  BY <1>t
<1>o. PICK o \in BOOLEAN : o = (client = "handshake")
  OBVIOUS
<1>q. Connecting => o
  BY <1>r, <1>o DEF Connecting
<1>e. calls' \in Seq(CallRecords) /\ Answered' /\ client' = "idle"
  BY <1>r, <1>t, ErrorStep
<1>1. CASE /\ children[target].stdout # <<>>
           /\ children' = [children EXCEPT ![target].stdout = Tail(@), ![target].orphan = (client = "handshake")]
  <2>1. PICK d : d = ReadFrom(c, o)
    OBVIOUS
  <2>2. children' = [children EXCEPT ![target] = d]
    BY <1>1, <1>t, <1>c, <1>o, <2>1 DEF ReadFrom, McpInv, McpType
  <2>3. Carried(c, d) /\ d.orphan = o
    <3>1. ChildOk(c) /\ c.stdout # <<>>
      BY <1>1, <1>t, <1>c
    <3> QED
      BY <2>1, <3>1, ReadChild
  <2>4. /\ d \in ChildRecords /\ ChildOk(d) /\ Written(d) = Written(children[target])
        /\ d.server = children[target].server /\ (Connecting => d.orphan)
    BY <1>c, <1>q, <2>3 DEF Carried
  <2> QED
    BY <1>r, <1>e, <2>2, <2>4, Finish
<1>2. CASE children' = [children EXCEPT ![target].orphan = (client = "handshake")]
  <2>a. PICK a \in BOOLEAN : a = c.alive
    BY ChildFields
  <2>1. PICK d : d = [c EXCEPT !.alive = a, !.orphan = o]
    OBVIOUS
  <2>2. children' = [children EXCEPT ![target] = d]
    <3>1. d = [c EXCEPT !.orphan = o]
      BY <2>a, <2>1 DEF ChildRecords
    <3> QED
      BY <1>2, <1>t, <1>c, <1>o, <3>1 DEF McpInv, McpType
  <2>k. ChildOk(c)
    BY <1>t, <1>c
  <2>3. Carried(c, d) /\ d.orphan = o
    BY <2>1, <2>k, SamePipes
  <2>4. /\ d \in ChildRecords /\ ChildOk(d) /\ Written(d) = Written(children[target])
        /\ d.server = children[target].server /\ (Connecting => d.orphan)
    BY <1>c, <1>q, <2>3 DEF Carried
  <2> QED
    BY <1>r, <1>e, <2>2, <2>4, Finish
<1> QED
  BY <1>1, <1>2 DEF Mcp!ReadFails, Mcp!Child

\* The cached children are killed.
LEMMA DropStep == ASSUME McpInv, Mcp!Drop PROVE McpInv'
<1>0. /\ client = "idle" /\ client' = "dropped" /\ UNCHANGED <<target, cached, calls>>
      /\ ~Connecting /\ ~Connecting' /\ ~Calling'
  BY DEF Mcp!Drop, Connecting, Calling
<1>1. children \in Seq(ChildRecords) /\ DOMAIN children' = DOMAIN children
  BY DEF Mcp!Drop, McpInv, McpType
<1>2. ASSUME NEW k \in DOMAIN children
      PROVE  /\ children'[k] \in ChildRecords /\ ChildOk(children'[k])
             /\ Written(children'[k]) = Written(children[k])
             /\ children'[k].orphan = children[k].orphan
             /\ (children'[k].alive => ~ \E s \in Servers : cached[s] = k)
  <2>1. PICK c \in ChildRecords : c = children[k]
    BY <1>1
  <2>2. PICK a \in BOOLEAN : a = (c.alive /\ k \notin {cached[s] : s \in Servers})
    OBVIOUS
  <2>3. PICK o \in BOOLEAN : o = c.orphan
    BY ChildFields
  <2>4. PICK d : d = [c EXCEPT !.alive = a, !.orphan = o]
    OBVIOUS
  <2>5. children'[k] = d
    <3>1. d = [c EXCEPT !.alive = a]
      BY <2>3, <2>4 DEF ChildRecords
    <3> QED
      BY <2>1, <2>2, <3>1 DEF Mcp!Drop
  <2>6. ChildOk(c)
    BY <2>1 DEF McpInv, Pipes
  <2>7. Carried(c, d) /\ d.alive = a /\ d.orphan = o
    BY <2>4, <2>6, SamePipes
  <2>8. a => ~ \E s \in Servers : cached[s] = k
    BY <2>2
  <2> QED
    BY <2>1, <2>3, <2>5, <2>7, <2>8 DEF Carried
<1>3. children' \in Seq(ChildRecords)
  <2>1. PICK n \in Nat : DOMAIN children = 1..n
    BY <1>1
  <2>2. children' = [k \in 1..n |-> children'[k]]
    BY <2>1 DEF Mcp!Drop
  <2> QED
    BY <1>2, <2>1, <2>2
<1>4. McpType'
  BY <1>0, <1>1, <1>3 DEF McpInv, McpType
<1>5. Pipes'
  BY <1>0, <1>1, <1>2 DEF Pipes
<1>6. Counts'
  <2>1. \A s \in Servers : cached[s] # 0 => cached[s] \in DOMAIN children
    BY DEF McpInv, McpType
  <2> QED
    BY <1>0, <1>2, <2>1 DEF McpInv, Counts
<1>7. Owned'
  BY <1>0, <1>1, <1>2 DEF McpInv, Owned
<1>8. Answered'
  BY <1>0 DEF McpInv, Answered
<1> QED
  BY <1>4, <1>5, <1>6, <1>7, <1>8 DEF McpInv

-----------------------------------------------------------------------------
(* The servers.                                                            *)

\* A server reads a line.
LEMMA ReceiveStep == ASSUME McpInv, NEW k \in DOMAIN children, Mcp!Receive(k) PROVE McpInv'
<1>c. PICK c \in ChildRecords : c = children[k]
  BY DEF McpInv, McpType
<1>1. ChildOk(c) /\ c.stdin # <<>> /\ UNCHANGED <<client, target, cached, calls>>
  BY <1>c DEF Mcp!Receive, McpInv, Pipes
<1>r. PICK r : r = Head(c.stdin)
  OBVIOUS
<1>d. PICK d : d = HeardBy(c, r)
  OBVIOUS
<1>2. children' = [children EXCEPT ![k] = d]
  BY <1>c, <1>r, <1>d DEF HeardBy, Mcp!Receive, McpInv, McpType, ChildRecords
<1>3. Carried(c, d) /\ d.alive = c.alive /\ d.orphan = c.orphan
  BY <1>1, <1>r, <1>d, HearChild
<1> QED
  BY <1>1, <1>2, <1>3, <1>c, QuietStep

\* A server's line, whatever it takes from `pending`.
LEMMA SaysStep ==
    ASSUME McpInv, NEW k \in DOMAIN children, NEW l \in Said, NEW P, P \subseteq children[k].pending,
           l.id = 0 \/ \E r \in children[k].pending : l.id = r.id /\ l.call = r.call,
           children' = [children EXCEPT ![k].stdout = Append(@, l), ![k].pending = P],
           UNCHANGED <<client, target, cached, calls>>
    PROVE  McpInv'
<1>c. PICK c \in ChildRecords : c = children[k]
  BY DEF McpInv, McpType
<1>1. ChildOk(c) /\ P \subseteq c.pending
      /\ (l.id = 0 \/ \E r \in c.pending : l.id = r.id /\ l.call = r.call)
  BY <1>c DEF McpInv, Pipes
<1>d. PICK d : d = SaidBy(c, l, P)
  OBVIOUS
<1>2. children' = [children EXCEPT ![k] = d]
  BY <1>c, <1>d DEF SaidBy, McpInv, McpType, ChildRecords
<1>3. Carried(c, d) /\ d.alive = c.alive /\ d.orphan = c.orphan
  BY <1>1, <1>d, SayChild
<1> QED
  BY <1>2, <1>3, <1>c, QuietStep

\* A server answers.
LEMMA AnswerStep == ASSUME McpInv, NEW k \in DOMAIN children, Mcp!Answer(k) PROVE McpInv'
<1>1. PICK r \in children[k].pending, b \in {"result", "error", "neither"} :
         children' = [children EXCEPT ![k].stdout = Append(@, Mcp!Line(r.id, b, r.call)),
                                      ![k].pending = @ \ {r}]
  BY DEF Mcp!Answer
<1>2. r \in Asked
  BY ChildFields DEF McpInv, McpType
<1>3. PICK l : l = Mcp!Line(r.id, b, r.call)
  OBVIOUS
<1>4. l \in Said /\ l.id = r.id /\ l.call = r.call
  BY <1>2, <1>3 DEF Mcp!Line, Said, Asked
<1>5. PICK P : P = children[k].pending \ {r}
  OBVIOUS
<1>6. children' = [children EXCEPT ![k].stdout = Append(@, l), ![k].pending = P]
  BY <1>1, <1>3, <1>5 DEF McpInv, McpType, ChildRecords
<1>7. UNCHANGED <<client, target, cached, calls>>
  BY DEF Mcp!Answer
<1>8. l.id = 0 \/ \E q \in children[k].pending : l.id = q.id /\ l.call = q.call
  BY <1>4
<1>9. P \subseteq children[k].pending
  BY <1>5
<1> QED
  BY <1>4, <1>6, <1>7, <1>8, <1>9, SaysStep

\* A server sends something else.
LEMMA NoiseStep == ASSUME McpInv, NEW k \in DOMAIN children, Mcp!Noise(k) PROVE McpInv'
<1>7. UNCHANGED <<client, target, cached, calls>>
  BY DEF Mcp!Noise
<1>c. PICK P : P = children[k].pending
  OBVIOUS
<1>1. PICK l \in Said : /\ l.id = 0 \/ \E r \in children[k].pending : l.id = r.id /\ l.call = r.call
                        /\ children' = [children EXCEPT ![k].stdout = Append(@, l)]
  <2>1. CASE \E b \in {"neither", "garbage"} : Mcp!Says(k, Mcp!Line(0, b, 0))
    <3>1. PICK b \in {"neither", "garbage"} : Mcp!Says(k, Mcp!Line(0, b, 0))
      BY <2>1
    <3>2. Mcp!Line(0, b, 0) \in Said /\ Mcp!Line(0, b, 0).id = 0
      BY DEF Mcp!Line, Said
    <3> QED
      BY <3>1, <3>2 DEF Mcp!Says
  <2>2. CASE \E r \in children[k].pending : Mcp!Says(k, Mcp!Line(r.id, "result", r.call))
    <3>1. PICK r \in children[k].pending : Mcp!Says(k, Mcp!Line(r.id, "result", r.call))
      BY <2>2
    <3>2. r \in Asked
      BY ChildFields DEF McpInv, McpType
    <3>3. PICK l : l = Mcp!Line(r.id, "result", r.call)
      OBVIOUS
    <3>4. l \in Said /\ l.id = r.id /\ l.call = r.call
      BY <3>2, <3>3 DEF Mcp!Line, Said, Asked
    <3> QED
      BY <3>1, <3>3, <3>4 DEF Mcp!Says
  <2> QED
    BY <2>1, <2>2 DEF Mcp!Noise
<1>2. children' = [children EXCEPT ![k].stdout = Append(@, l), ![k].pending = P]
  BY <1>1, <1>c DEF McpInv, McpType, ChildRecords
<1> QED
  BY <1>1, <1>2, <1>7, <1>c, SaysStep

\* A server exits.
LEMMA ExitStep == ASSUME McpInv, NEW k \in DOMAIN children, Mcp!Exit(k) PROVE McpInv'
<1>c. PICK c \in ChildRecords : c = children[k]
  BY DEF McpInv, McpType
<1>o. PICK o \in BOOLEAN : o = c.orphan
  BY ChildFields
<1>1. ChildOk(c) /\ UNCHANGED <<client, target, cached, calls>>
  BY <1>c DEF Mcp!Exit, McpInv, Pipes
<1>d. PICK d : d = [c EXCEPT !.alive = FALSE, !.orphan = o]
  OBVIOUS
<1>2. children' = [children EXCEPT ![k] = d]
  <2>1. d = [c EXCEPT !.alive = FALSE]
    BY <1>o, <1>d DEF ChildRecords
  <2> QED
    BY <1>c, <2>1 DEF Mcp!Exit, McpInv, McpType
<1>3. Carried(c, d) /\ d.alive = FALSE /\ d.orphan = o
  BY <1>1, <1>d, SamePipes
<1>4. (d.alive => children[k].alive) /\ d.orphan = children[k].orphan
  BY <1>3, <1>c, <1>o
<1> QED
  BY <1>1, <1>2, <1>3, <1>4, <1>c, QuietStep

\* The start.
LEMMA McpInvInit == Mcp!Init => McpInv
<1> SUFFICES ASSUME Mcp!Init PROVE McpInv
  OBVIOUS
<1>1. /\ client = "idle" /\ children = <<>> /\ DOMAIN children = {} /\ calls = <<>>
      /\ DOMAIN calls = {} /\ cached = [s \in Servers |-> 0]
  BY DEF Mcp!Init
<1>2. ~Connecting /\ ~Calling
  BY <1>1 DEF Connecting, Calling
<1>3. McpType
  BY <1>1, <1>2 DEF McpType
<1> QED
  BY <1>1, <1>2, <1>3 DEF McpInv, Pipes, Counts, Owned, Answered

\* Every step keeps the invariant.
LEMMA McpInvNext == McpInv /\ [AllNext]_allVars => McpInv'
<1> SUFFICES ASSUME McpInv, [AllNext]_allVars PROVE McpInv'
  OBVIOUS
<1>1. CASE UNCHANGED mcpVars
  BY <1>1 DEF mcpVars, McpInv, McpType, Pipes, Counts, Owned, Answered, Connecting, Calling
<1>2. CASE Mcp!Next
  <2>1. CASE Mcp!Dropped
    BY <2>1, <1>1 DEF Mcp!Dropped, Mcp!mcpVars, mcpVars
  <2> QED
    BY <1>2, <2>1, CallToolStep, SpawnFailsStep, InitializeStep, InitializedStep, CallStep, SkipStep,
       ReadAnswerStep, ReadFailsStep, DropStep, ReceiveStep, AnswerStep, NoiseStep, ExitStep
    DEF Mcp!Next
<1> QED
  BY <1>1, <1>2 DEF AllNext, allVars

(***************************************************************************)
(* A tool call that succeeds returns the answer to that call, a server is  *)
(* initialised once and before its first call, and a session's end leaves  *)
(* no child running but those that never got through the handshake         *)
(* (read_response_for_id, ensure_connection, Drop for StdioMcpClient).     *)
(***************************************************************************)
THEOREM McpCorrect == AllSpec => []McpFaithful
<1>1. AllSpec => AllInit /\ [][AllNext]_allVars
  BY PTL DEF AllSpec
<1>2. AllInit => McpInv
  BY McpInvInit DEF AllInit
<1>3. McpInv => McpFaithful
  <2> SUFFICES ASSUME McpInv PROVE McpFaithful
    OBVIOUS
  <2>1. ASSUME NEW k \in DOMAIN children, NEW i \in DOMAIN children[k].seen
        PROVE  Placed(i, children[k].seen[i])
    <3>1. children[k] \in ChildRecords /\ ChildOk(children[k])
      BY DEF McpInv, McpType, Pipes
    <3>2. i \in 1..Len(children[k].seen)
      BY <3>1, ChildFields
    <3> QED
      BY <3>1, <3>2 DEF ChildOk
  <2> QED
    BY <2>1 DEF McpFaithful, Mcp!McpFaithful, McpInv, Owned, Answered, Placed
<1> QED
  BY <1>1, <1>2, <1>3, McpInvNext, PTL
=============================================================================
