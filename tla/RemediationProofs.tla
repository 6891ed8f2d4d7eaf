--------------------------- MODULE RemediationProofs ---------------------------
(* Proofs about Remediation, for all sets of messages, fetches and applies,  *)
(* every batch size and every request.                                       *)
EXTENDS Remediation, TLAPS

(* The next iteration's message, and what is left of the request after it.   *)
LEMMA HeadTail ==
    ASSUME NEW s \in Seq(Messages), s # <<>>
    PROVE  Head(s) \in Messages /\ Tail(s) \in Seq(Messages)
OBVIOUS

(* A message of a request that visits one.                                   *)
LEMMA VisitingType ==
    ASSUME TypeOK, NEW a \in Applies, NEW m, Visiting(a, m)
    PROVE  m \in Messages /\ pc[a] = "loop" /\ Tail(todo[a]) \in Seq(Messages)
BY HeadTail DEF TypeOK, Visiting

(* What the end of an iteration does to the variables it writes.             *)
LEMMA ReportType ==
    ASSUME TypeOK, NEW a \in Applies, NEW m \in Messages,
           NEW status \in {"ok", "error", "missing"}, Report(a, m, status),
           Tail(todo[a]) \in Seq(Messages)
    PROVE  /\ messages' \in [Fetches -> SUBSET Messages]
           /\ todo' \in [Applies -> Seq(Messages)]
           /\ results' \in [Applies -> SUBSET (Messages \X {"ok", "error", "missing"})]
<1>1. messages' \in [Fetches -> SUBSET Messages]
  BY DEF TypeOK, Report
<1>2. todo' \in [Applies -> Seq(Messages)]
  BY DEF TypeOK, Report
<1>3. results' \in [Applies -> SUBSET (Messages \X {"ok", "error", "missing"})]
  BY DEF TypeOK, Report
<1> QED BY <1>1, <1>2, <1>3

(* Whatever reaches the server leaves it in one of its states.               *)
LEMMA ServerType ==
    ASSUME TypeOK, NEW m \in Messages, NEW act \in Actions
    PROVE  /\ Answered(m, act) \in [Messages -> {"waiting", "delivered", "acked", "termed"}]
           /\ \A n \in Messages : Settled(n) =>
                Answered(m, act)[n] \in {"acked", "termed"}
BY DEF TypeOK, Answered, Settled, Actions, Outcome

-----------------------------------------------------------------------------
(* The inductive invariant.                                                *)

\* A request that found its session knows it; one that did not, knows nothing.
RequestsKnowTheirSession ==
    \A a \in Applies :
        IF target[a] = None
        THEN pc[a] \in {"idle", "rejected"} /\ results[a] = {}
        ELSE /\ pc[a] \in {"loop", "acking", "done"}
             /\ action[a] \in Actions
             /\ session[target[a]] \in {"live", "gone"}

\* A request waits for the ack of the message it visits.
AckingVisits ==
    \A a \in Applies : pc[a] = "acking" => action[a] = "ack" /\ todo[a] # <<>>

Ready == TypeOK /\ RequestsKnowTheirSession /\ AckingVisits

IInv ==
    /\ Ready
    /\ SessionOffersUnhandled
    /\ EmptySessionIsGone
    /\ ReportedAckIsFinal

\* A step that ends the visit of m in request a.
Iteration(a, m) ==
    /\ m = Head(todo[a])
    /\ \/ Missing(a, m) \/ Send(a, m) \/ AckRefused(a, m)
       \/ AckConfirmed(a) \/ AckTimesOut(a)

(* An iteration that ends with a status keeps the types, reports ok for an    *)
(* ack only when the message is settled, and unsettles none.                  *)
LEMMA IterationStep ==
    ASSUME Ready, NEW a \in Applies, NEW m, Iteration(a, m)
    PROVE  /\ TypeOK'
           /\ m \in Messages /\ Active(a)
           /\ \E status \in {"ok", "error", "missing"} :
                /\ Report(a, m, status)
                /\ action[a] = "ack" /\ status = "ok" => Settled(m)'
           /\ pc' = [pc EXCEPT ![a] = "loop"]
           /\ UNCHANGED <<session, expired, fetched, request>>
           /\ \A n \in Messages : Settled(n) => Settled(n)'
<1> m = Head(todo[a])
  BY DEF Iteration
<1>0. TypeOK
  BY DEF Ready
<1>1. CASE Missing(a, m)
  <2>1. m \in Messages /\ pc[a] = "loop" /\ Tail(todo[a]) \in Seq(Messages)
    BY <1>0, <1>1, VisitingType DEF Missing
  <2>2. Report(a, m, "missing")
    BY <1>1 DEF Missing
  <2>3. pc' = [pc EXCEPT ![a] = "loop"]
    BY <1>0, <1>1, <2>1 DEF Missing, TypeOK
  <2>4. TypeOK'
    BY <1>0, <1>1, <2>1, <2>2, ReportType DEF Missing, TypeOK, nats, handles, request
  <2> QED BY <1>1, <2>1, <2>2, <2>3, <2>4 DEF Missing, nats, handles, Settled, Active
<1>2. CASE Send(a, m)
  <2>1. m \in Messages /\ pc[a] = "loop" /\ Tail(todo[a]) \in Seq(Messages)
    BY <1>0, <1>2, VisitingType DEF Send
  <2>2. action[a] # "ack" /\ target[a] # None
    BY <1>2, <2>1 DEF Send, Ready, RequestsKnowTheirSession
  <2>3. action[a] \in Actions /\ didAck' \in [Fetches -> SUBSET Messages]
    <3>1. action[a] \in Actions
      BY <2>2 DEF Ready, RequestsKnowTheirSession
    <3>2. \/ didAck' = didAck
          \/ didAck' = [didAck EXCEPT ![target[a]] = @ \cup {m}]
      BY <1>2 DEF Send
    <3>3. didAck \in [Fetches -> SUBSET Messages]
      BY <1>0 DEF TypeOK
    <3> QED BY <2>1, <3>1, <3>2, <3>3
  <2>4. /\ \E status \in {"ok", "error"} : Report(a, m, status)
        /\ server' \in {Answered(m, action[a]), server}
    BY <1>2 DEF Send, Publish
  <2>5. pc' = [pc EXCEPT ![a] = "loop"]
    BY <1>0, <1>2, <2>1 DEF Send, TypeOK
  <2>6. TypeOK'
    <3>1. server' \in [Messages -> {"waiting", "delivered", "acked", "termed"}]
      BY <1>0, <2>1, <2>3, <2>4, ServerType DEF TypeOK
    <3> QED BY <1>0, <1>2, <2>1, <2>3, <2>4, <3>1, ReportType DEF Send, TypeOK, request
  <2>7. \A n \in Messages : Settled(n) => Settled(n)'
    BY <1>0, <2>1, <2>3, <2>4, ServerType DEF Settled
  <2> QED BY <1>2, <2>1, <2>2, <2>4, <2>5, <2>6, <2>7 DEF Send, Active
<1>3. CASE AckRefused(a, m)
  <2>1. m \in Messages /\ pc[a] = "loop" /\ Tail(todo[a]) \in Seq(Messages)
    BY <1>0, <1>3, VisitingType DEF AckRefused
  <2>2. Report(a, m, "error")
    BY <1>3 DEF AckRefused
  <2>3. pc' = [pc EXCEPT ![a] = "loop"]
    BY <1>0, <1>3, <2>1 DEF AckRefused, TypeOK
  <2>4. TypeOK'
    BY <1>0, <1>3, <2>1, <2>2, ReportType DEF AckRefused, TypeOK, nats, handles, request
  <2> QED BY <1>3, <2>1, <2>2, <2>3, <2>4 DEF AckRefused, nats, handles, Settled, Active
<1>4. CASE AckConfirmed(a)
  <2>1. m \in Messages /\ Tail(todo[a]) \in Seq(Messages) /\ action[a] = "ack" /\ pc[a] = "acking"
    BY <1>0, <1>4, HeadTail DEF AckConfirmed, Ready, AckingVisits, TypeOK
  <2>2. Report(a, m, "ok") /\ server' = Answered(m, "ack")
    BY <1>4 DEF AckConfirmed
  <2>3. TypeOK'
    <3>1. server' \in [Messages -> {"waiting", "delivered", "acked", "termed"}]
      BY <1>0, <2>1, <2>2, ServerType DEF Actions
    <3> QED BY <1>0, <1>4, <2>1, <2>2, <3>1, ReportType DEF AckConfirmed, TypeOK, request
  <2>4. \A n \in Messages : Settled(n) => Settled(n)'
    BY <1>0, <2>1, <2>2, ServerType DEF Settled, Actions
  <2>5. Settled(m)'
    <3>1. server \in [Messages -> {"waiting", "delivered", "acked", "termed"}]
      BY <1>0 DEF TypeOK
    <3>2. server' = IF Settled(m) THEN server ELSE [server EXCEPT ![m] = "acked"]
      BY <2>2 DEF Answered, Outcome
    <3>3. CASE Settled(m)
      BY <3>2, <3>3 DEF Settled
    <3>4. CASE ~Settled(m)
      BY <2>1, <3>1, <3>2, <3>4 DEF Settled
    <3> QED BY <3>3, <3>4
  <2> QED BY <1>4, <2>1, <2>2, <2>3, <2>4, <2>5 DEF AckConfirmed, Active
<1>5. CASE AckTimesOut(a)
  <2>1. m \in Messages /\ Tail(todo[a]) \in Seq(Messages) /\ pc[a] = "acking"
    BY <1>0, <1>5, HeadTail DEF AckTimesOut, Ready, AckingVisits, TypeOK
  <2>2. Report(a, m, "error") /\ server' \in {Answered(m, "ack"), server}
    BY <1>5 DEF AckTimesOut, Publish
  <2>3. TypeOK'
    <3>1. server' \in [Messages -> {"waiting", "delivered", "acked", "termed"}]
      BY <1>0, <2>1, <2>2, ServerType DEF Actions, TypeOK
    <3> QED BY <1>0, <1>5, <2>1, <2>2, <3>1, ReportType DEF AckTimesOut, TypeOK, request
  <2>4. \A n \in Messages : Settled(n) => Settled(n)'
    BY <1>0, <2>1, <2>2, ServerType DEF Settled, Actions
  <2> QED BY <1>5, <2>1, <2>2, <2>3, <2>4 DEF AckTimesOut, Active
<1> QED BY <1>1, <1>2, <1>3, <1>4, <1>5 DEF Iteration

(* Type correctness: every step keeps the variables well typed.              *)
LEMMA ReadyStep == Ready /\ [Next]_vars => Ready'
<1> SUFFICES ASSUME Ready, [Next]_vars PROVE Ready'
  OBVIOUS
<1>0. TypeOK /\ RequestsKnowTheirSession /\ AckingVisits
  BY DEF Ready
<1> USE DEF nats, handles, request
<1>1. ASSUME NEW m \in Messages, Redeliver(m) PROVE Ready'
  BY <1>0, <1>1 DEF Redeliver, Ready, TypeOK, RequestsKnowTheirSession, AckingVisits
<1>2. CASE LoseConnection
  BY <1>0, <1>2 DEF LoseConnection, Ready, TypeOK, RequestsKnowTheirSession, AckingVisits
<1>3. ASSUME NEW f \in Fetches,
             Fetch(f) \/ CreateSession(f) \/ FetchFails(f) \/ Expire(f) \/ Timer(f)
      PROVE  Ready'
  <2>1. \/ session' = session
        \/ session[f] = "none" /\ session' = [session EXCEPT ![f] = "fetching"]
        \/ session[f] = "fetching" /\ session' = [session EXCEPT ![f] = "live"]
        \/ session[f] \in {"none", "fetching"} /\ session' = [session EXCEPT ![f] = "failed"]
        \/ session[f] = "live" /\ session' = [session EXCEPT ![f] = "gone"]
    BY <1>0, <1>3 DEF Fetch, CreateSession, FetchFails, Expire, Timer, DeleteSession, TypeOK
  <2>2. /\ UNCHANGED <<server, link, fetched, didAck, pc, target, action, todo, results>>
        /\ expired' = expired \/ expired' = [expired EXCEPT ![f] = TRUE]
        /\ messages' = messages \/ messages' = [messages EXCEPT ![f] = fetched[f]]
    BY <1>3 DEF Fetch, CreateSession, FetchFails, Expire, Timer
  <2>3. session' \in [Fetches -> {"none", "fetching", "live", "gone", "failed"}]
    BY <1>0, <2>1 DEF TypeOK
  <2>4. expired' \in [Fetches -> BOOLEAN]
    BY <1>0, <2>2, Zenon DEF TypeOK
  <2>5. messages' \in [Fetches -> SUBSET Messages]
    BY <1>0, <2>2 DEF TypeOK
  <2>6. TypeOK'
    BY <1>0, <2>2, <2>3, <2>4, <2>5 DEF TypeOK
  <2>7. RequestsKnowTheirSession'
    <3>1. \A g \in Fetches : session[g] \in {"live", "gone"} => session'[g] \in {"live", "gone"}
      BY <1>0, <2>1 DEF TypeOK
    <3> QED BY <1>0, <2>2, <3>1 DEF TypeOK, RequestsKnowTheirSession
  <2>8. AckingVisits'
    BY <1>0, <2>2 DEF AckingVisits
  <2> QED BY <2>6, <2>7, <2>8 DEF Ready
<1>4. ASSUME NEW f \in Fetches, NEW m \in Messages, Deliver(f, m) PROVE Ready'
  BY <1>0, <1>4 DEF Deliver, Ready, TypeOK, RequestsKnowTheirSession, AckingVisits
<1>5. ASSUME NEW a \in Applies, NEW f \in Fetches, NEW act \in Actions, NEW seqs \in Requests,
             Apply(a, f, act, seqs)
      PROVE  Ready'
  <2>0. seqs \in Seq(Messages)
    BY BoundsAreNat DEF Requests
  <2>1. TypeOK'
    BY <1>0, <1>5, <2>0 DEF Apply, TypeOK
  <2>2. RequestsKnowTheirSession'
    BY <1>0, <1>5, NoneIsNoFetch DEF Apply, TypeOK, RequestsKnowTheirSession
  <2>3. AckingVisits'
    BY <1>0, <1>5 DEF Apply, TypeOK, AckingVisits
  <2> QED BY <2>1, <2>2, <2>3 DEF Ready
<1>6. ASSUME NEW a \in Applies, NEW f \in Fetches, ApplyRejected(a, f) PROVE Ready'
  <2>1. \/ session' = session
        \/ session[f] = "live" /\ session' = [session EXCEPT ![f] = "gone"]
    <3>1. CASE session[f] = "live" /\ expired[f]
      BY <1>6, <3>1 DEF ApplyRejected, DeleteSession
    <3>2. CASE session[f] # "live"
      BY <1>6, <3>2 DEF ApplyRejected
    <3>3. CASE ~expired[f]
      BY <1>6, <3>3 DEF ApplyRejected
    <3> QED BY <3>1, <3>2, <3>3
  <2>2. /\ UNCHANGED <<server, link, expired, fetched, messages, didAck, target, action, todo, results>>
        /\ pc[a] = "idle" /\ pc' = [pc EXCEPT ![a] = "rejected"]
    BY <1>6 DEF ApplyRejected
  <2>3. TypeOK'
    BY <1>0, <2>1, <2>2 DEF TypeOK
  <2>4. RequestsKnowTheirSession'
    <3>1. \A g \in Fetches : session[g] \in {"live", "gone"} => session'[g] \in {"live", "gone"}
      BY <1>0, <2>1 DEF TypeOK
    <3>2. pc'[a] = "rejected" /\ \A b \in Applies \ {a} : pc'[b] = pc[b]
      BY <1>0, <2>2 DEF TypeOK
    <3> QED BY <1>0, <2>2, <3>1, <3>2 DEF TypeOK, RequestsKnowTheirSession
  <2>5. AckingVisits'
    BY <1>0, <2>2 DEF TypeOK, AckingVisits
  <2> QED BY <2>3, <2>4, <2>5 DEF Ready
<1>7. ASSUME NEW a \in Applies, NEW m, Iteration(a, m)
      PROVE  Ready'
  <2>1. /\ TypeOK' /\ pc' = [pc EXCEPT ![a] = "loop"] /\ Active(a)
        /\ UNCHANGED <<session, request>>
        /\ \E r : results' = [results EXCEPT ![a] = r]
        /\ \E t : todo' = [todo EXCEPT ![a] = t]
    BY <1>0, <1>7, IterationStep DEF Ready, Report
  <2>2. RequestsKnowTheirSession'
    BY <1>0, <2>1 DEF TypeOK, RequestsKnowTheirSession, Active
  <2>3. AckingVisits'
    BY <1>0, <2>1 DEF TypeOK, AckingVisits
  <2> QED BY <2>1, <2>2, <2>3 DEF Ready
<1>8. ASSUME NEW a \in Applies, NEW m \in Messages, Ack(a, m) PROVE Ready'
  <2>1. pc[a] = "loop" /\ todo[a] # <<>>
    BY <1>8 DEF Ack, Visiting
  <2>2. UNCHANGED <<server, link, session, expired, fetched, messages, target, action, todo, results>>
    BY <1>8 DEF Ack
  <2>3. pc' = [pc EXCEPT ![a] = "acking"] /\ action[a] = "ack"
    BY <1>8 DEF Ack
  <2>4. TypeOK'
    <3>1. didAck' = didAck \/ didAck' = [didAck EXCEPT ![target[a]] = @ \cup {m}]
      BY <1>8 DEF Ack
    <3> didAck \in [Fetches -> SUBSET Messages]
      BY <1>0 DEF TypeOK
    <3>2. didAck' \in [Fetches -> SUBSET Messages]
      BY <3>1
    <3>3. pc' \in [Applies -> {"idle", "loop", "acking", "done", "rejected"}]
      BY <1>0, <2>3 DEF TypeOK
    <3> QED BY <1>0, <2>2, <3>2, <3>3 DEF TypeOK
  <2>5. RequestsKnowTheirSession'
    BY <1>0, <2>1, <2>2, <2>3 DEF TypeOK, RequestsKnowTheirSession
  <2>6. AckingVisits'
    BY <1>0, <2>1, <2>2, <2>3 DEF TypeOK, AckingVisits
  <2> QED BY <2>4, <2>5, <2>6 DEF Ready
<1>9. ASSUME NEW a \in Applies, Finish(a) PROVE Ready'
  BY <1>0, <1>9 DEF Finish, DeleteSession, Ready, TypeOK, RequestsKnowTheirSession, AckingVisits
<1>10. CASE UNCHANGED vars
  BY <1>0, <1>10 DEF vars, Ready, TypeOK, RequestsKnowTheirSession, AckingVisits
<1>11. ASSUME NEW a \in Applies, NEW m \in Messages,
              Missing(a, m) \/ Send(a, m) \/ AckRefused(a, m)
       PROVE  Ready'
  <2>1. Iteration(a, m)
    BY <1>11 DEF Missing, Send, AckRefused, Visiting, Iteration
  <2> QED BY <1>7, <2>1
<1>12. ASSUME NEW a \in Applies, AckConfirmed(a) \/ AckTimesOut(a) PROVE Ready'
  BY <1>7, <1>12 DEF Iteration
<1> QED
  BY <1>1, <1>2, <1>3, <1>4, <1>5, <1>6, <1>7, <1>8, <1>9, <1>10, <1>11, <1>12
     DEF Next, Visit

(* The steps that touch neither the offer of a session nor the results of a  *)
(* request: they may end a session, deliver to one that is being filled,     *)
(* lose an answer, suspend a request, but settle or unsettle no message.     *)
Aside ==
    /\ UNCHANGED <<messages, target, action, results>>
    /\ \A f \in Fetches :
         /\ session'[f] = "live" => session[f] = "live"
         /\ session'[f] \in {"live", "gone"} =>
              session[f] \in {"live", "gone"} /\ fetched'[f] = fetched[f]
    /\ \A a \in Applies : Active(a) => Active(a)'
    /\ \A m \in Messages : Settled(m) => Settled(m)'

LEMMA StepKinds ==
    ASSUME Ready, [Next]_vars
    PROVE  \/ Aside
           \/ \E f \in Fetches : CreateSession(f)
           \/ \E a \in Applies, f \in Fetches, act \in Actions, seqs \in Requests :
                Apply(a, f, act, seqs)
           \/ \E a \in Applies : \E m : Iteration(a, m)
           \/ \E a \in Applies : Finish(a)
<1>0. TypeOK /\ RequestsKnowTheirSession
  BY DEF Ready
<1> USE DEF nats, handles, request
<1>1. ASSUME NEW m \in Messages, Redeliver(m) PROVE Aside
  BY <1>0, <1>1 DEF Redeliver, Aside, Active, Settled, TypeOK
<1>2. CASE LoseConnection
  BY <1>2 DEF LoseConnection, Aside, Active, Settled
<1>3. ASSUME NEW f \in Fetches, Fetch(f) \/ FetchFails(f) \/ Expire(f) \/ Timer(f) PROVE Aside
  <2>1. UNCHANGED <<server, fetched, messages, pc, target, action, results>>
    BY <1>3 DEF Fetch, FetchFails, Expire, Timer
  <2>2. \/ session' = session
        \/ session[f] = "none" /\ session' = [session EXCEPT ![f] = "fetching"]
        \/ session' = [session EXCEPT ![f] = "failed"]
        \/ session[f] = "live" /\ session' = [session EXCEPT ![f] = "gone"]
    BY <1>0, <1>3 DEF Fetch, FetchFails, Expire, Timer, DeleteSession, TypeOK
  <2>3. session \in [Fetches -> {"none", "fetching", "live", "gone", "failed"}]
    BY <1>0 DEF TypeOK
  <2> QED BY <2>1, <2>2, <2>3 DEF Aside, Active, Settled
<1>4. ASSUME NEW f \in Fetches, NEW m \in Messages, Deliver(f, m) PROVE Aside
  <2>1. UNCHANGED <<session, messages, pc, target, action, results>>
    BY <1>4 DEF Deliver
  <2>2. \A n \in Messages : Settled(n) => Settled(n)'
    BY <1>0, <1>4 DEF Deliver, Settled, TypeOK
  <2>3. \A g \in Fetches : session[g] \in {"live", "gone"} => fetched'[g] = fetched[g]
    BY <1>0, <1>4 DEF Deliver, TypeOK
  <2> QED BY <2>1, <2>2, <2>3 DEF Aside, Active
<1>5. ASSUME NEW a \in Applies, NEW f \in Fetches, ApplyRejected(a, f) PROVE Aside
  <2>1. /\ UNCHANGED <<server, fetched, messages, target, action, results>>
        /\ pc[a] = "idle" /\ pc' = [pc EXCEPT ![a] = "rejected"]
    BY <1>5 DEF ApplyRejected
  <2>2. \/ session' = session
        \/ session[f] = "live" /\ session' = [session EXCEPT ![f] = "gone"]
    BY <1>5 DEF ApplyRejected, DeleteSession
  <2> QED BY <1>0, <2>1, <2>2 DEF Aside, Active, Settled, TypeOK
<1>6. ASSUME NEW a \in Applies, NEW m \in Messages, Ack(a, m) PROVE Aside
  <2>1. /\ UNCHANGED <<server, session, fetched, messages, target, action, results>>
        /\ pc' = [pc EXCEPT ![a] = "acking"]
    BY <1>6 DEF Ack
  <2> QED BY <1>0, <2>1 DEF Aside, Active, Settled, TypeOK
<1>7. ASSUME NEW a \in Applies, NEW m \in Messages, Missing(a, m) \/ Send(a, m) \/ AckRefused(a, m)
      PROVE  Iteration(a, m)
  BY <1>7 DEF Iteration, Missing, Send, AckRefused, Visiting
<1>8. ASSUME NEW a \in Applies, AckConfirmed(a) \/ AckTimesOut(a)
      PROVE  Iteration(a, Head(todo[a]))
  BY <1>8 DEF Iteration
<1>9. CASE UNCHANGED vars
  BY <1>9 DEF vars, Aside, Active, Settled
<1> QED
  BY <1>1, <1>2, <1>3, <1>4, <1>5, <1>6, <1>7, <1>8, <1>9 DEF Next, Visit

(* What a session offers is what was fetched and not handled.                *)
LEMMA OffersStep ==
    ASSUME Ready, Ready', [Next]_vars, SessionOffersUnhandled
    PROVE  SessionOffersUnhandled'
<1> SUFFICES ASSUME NEW f \in Fetches, session'[f] \in {"live", "gone"}
             PROVE  messages'[f] = {m \in fetched'[f] :
                      \A a \in Applies : target'[a] = f => ~Handled(a, m)'}
  BY DEF SessionOffersUnhandled
<1>0. TypeOK /\ RequestsKnowTheirSession
  BY DEF Ready
<1>1. CASE Aside
  BY <1>1 DEF Aside, SessionOffersUnhandled, Handled
<1> DEFINE Offer == messages'[f] = {m \in fetched'[f] :
                      \A a \in Applies : target'[a] = f => ~Handled(a, m)'}
<1>2. ASSUME NEW g \in Fetches, CreateSession(g) PROVE Offer
  <2>1. /\ session[g] = "fetching" /\ session' = [session EXCEPT ![g] = "live"]
        /\ messages' = [messages EXCEPT ![g] = fetched[g]]
        /\ UNCHANGED <<fetched, target, action, results>>
    BY <1>2 DEF CreateSession, handles, request
  <2>2. CASE f = g
    <3>1. messages'[f] = fetched[f]
      BY <1>0, <2>1, <2>2 DEF TypeOK
    <3>2. \A a \in Applies : target[a] # f
      BY <1>0, <2>1, <2>2, NoneIsNoFetch DEF RequestsKnowTheirSession
    <3> QED BY <2>1, <3>1, <3>2
  <2>3. CASE f # g
    <3>1. messages'[f] = messages[f] /\ session'[f] = session[f]
      BY <1>0, <2>1, <2>3 DEF TypeOK
    <3> QED BY <2>1, <3>1 DEF SessionOffersUnhandled, Handled
  <2> QED BY <2>2, <2>3
<1>3. ASSUME NEW a \in Applies, NEW g \in Fetches, NEW act \in Actions, NEW seqs \in Requests,
             Apply(a, g, act, seqs)
      PROVE  Offer
  <2>1. /\ pc[a] = "idle"
        /\ target' = [target EXCEPT ![a] = g]
        /\ action' = [action EXCEPT ![a] = act]
        /\ UNCHANGED <<session, fetched, messages, results>>
    BY <1>3 DEF Apply, handles
  <2>2. results[a] = {}
    BY <1>0, <2>1 DEF RequestsKnowTheirSession
  <2>3. \A m : ~Handled(a, m) /\ ~Handled(a, m)'
    BY <2>1, <2>2 DEF Handled
  <2>4. \A b \in Applies \ {a} : target'[b] = target[b] /\ action'[b] = action[b]
    BY <1>0, <2>1 DEF TypeOK
  <2>5. \A b \in Applies \ {a} : \A m : Handled(b, m)' <=> Handled(b, m)
    BY <2>1, <2>4 DEF Handled
  <2>6. \A m : (\A b \in Applies : target'[b] = f => ~Handled(b, m)')
               <=> (\A b \in Applies : target[b] = f => ~Handled(b, m))
    BY <2>3, <2>4, <2>5
  <2>7. messages[f] = {m \in fetched[f] : \A b \in Applies : target[b] = f => ~Handled(b, m)}
    BY <2>1 DEF SessionOffersUnhandled
  <2> QED BY <2>1, <2>6, <2>7
<1>4. ASSUME NEW a \in Applies, NEW n, Iteration(a, n) PROVE Offer
  <2>1. PICK status \in {"ok", "error", "missing"} : Report(a, n, status)
    BY <1>4, IterationStep
  <2>2. n \in Messages /\ Active(a) /\ UNCHANGED <<session, fetched, target, action>>
    BY <1>4, IterationStep DEF request
  <2>3. target[a] # None
    BY <1>0, <2>2 DEF RequestsKnowTheirSession, Active
  <2>4. \A b \in Applies \ {a} : \A m : Handled(b, m)' <=> Handled(b, m)
    BY <1>0, <2>1, <2>2 DEF Report, TypeOK, Handled
  <2>5. results'[a] = results[a] \cup {<<n, status>>}
    BY <1>0, <2>1 DEF Report, TypeOK
  <2>6. messages[f] = {m \in fetched[f] : \A b \in Applies : target[b] = f => ~Handled(b, m)}
    BY <2>2 DEF SessionOffersUnhandled
  <2>7. CASE status = "ok" /\ action[a] # "working"
    <3>1. \A m : Handled(a, m)' <=> Handled(a, m) \/ m = n
      BY <2>2, <2>5, <2>7 DEF Handled
    <3>2. messages' = [messages EXCEPT ![target[a]] = @ \ {n}]
      BY <2>1, <2>7 DEF Report
    <3>3. CASE f = target[a]
      <4>1. messages'[f] = messages[f] \ {n}
        BY <1>0, <3>2, <3>3 DEF TypeOK
      <4>2. \A m : (\A b \in Applies : target[b] = f => ~Handled(b, m)')
                   <=> m # n /\ \A b \in Applies : target[b] = f => ~Handled(b, m)
        BY <2>4, <3>1, <3>3
      <4> QED BY <2>2, <2>6, <4>1, <4>2
    <3>4. CASE f # target[a]
      <4>1. messages'[f] = messages[f]
        BY <1>0, <3>2, <3>4 DEF TypeOK
      <4>2. \A m : (\A b \in Applies : target[b] = f => ~Handled(b, m)')
                   <=> \A b \in Applies : target[b] = f => ~Handled(b, m)
        BY <2>4, <3>4
      <4> QED BY <2>2, <2>6, <4>1, <4>2
    <3> QED BY <3>3, <3>4
  <2>8. CASE ~(status = "ok" /\ action[a] # "working")
    <3>1. \A m : Handled(a, m)' <=> Handled(a, m)
      BY <2>2, <2>5, <2>8 DEF Handled
    <3>2. messages' = messages
      BY <2>1, <2>8 DEF Report
    <3>3. \A m : (\A b \in Applies : target[b] = f => ~Handled(b, m)')
                 <=> \A b \in Applies : target[b] = f => ~Handled(b, m)
      BY <2>4, <3>1
    <3> QED BY <2>2, <2>6, <3>2, <3>3
  <2> QED BY <2>7, <2>8
<1>5. ASSUME NEW a \in Applies, Finish(a) PROVE Offer
  <2>1. UNCHANGED <<fetched, messages, target, action, results>>
    BY <1>5 DEF Finish, handles, request
  <2>2. session[f] \in {"live", "gone"}
    BY <1>0, <1>5 DEF Finish, DeleteSession, TypeOK
  <2> QED BY <2>1, <2>2 DEF SessionOffersUnhandled, Handled
<1> QED BY <1>1, <1>2, <1>3, <1>4, <1>5, StepKinds

(* A session with nothing left is deleted by the last request at work on it. *)
LEMMA EmptyStep ==
    ASSUME Ready, Ready', [Next]_vars, EmptySessionIsGone
    PROVE  EmptySessionIsGone'
<1> DEFINE Kept(f) == fetched[f] = {} \/ \E a \in Applies : Active(a) /\ target[a] = f
<1> SUFFICES ASSUME NEW f \in Fetches, session'[f] = "live", messages'[f] = {}
             PROVE  Kept(f)'
  BY DEF EmptySessionIsGone
<1>0. TypeOK /\ RequestsKnowTheirSession
  BY DEF Ready
<1>1. CASE Aside
  <2>1. Kept(f) /\ fetched'[f] = fetched[f]
    BY <1>1 DEF Aside, EmptySessionIsGone
  <2>2. \A a \in Applies : Active(a) => Active(a)' /\ target'[a] = target[a]
    BY <1>1 DEF Aside
  <2> QED BY <2>1, <2>2
<1>2. ASSUME NEW g \in Fetches, CreateSession(g) PROVE Kept(f)'
  <2>1. /\ session' = [session EXCEPT ![g] = "live"]
        /\ messages' = [messages EXCEPT ![g] = fetched[g]]
        /\ UNCHANGED <<fetched, pc, target>>
    BY <1>2 DEF CreateSession, handles, request
  <2>2. CASE f = g
    <3>1. fetched'[f] = {}
      BY <1>0, <2>1, <2>2 DEF TypeOK
    <3> QED BY <3>1
  <2>3. CASE f # g
    <3>1. messages[f] = {} /\ session[f] = "live"
      BY <1>0, <2>1, <2>3 DEF TypeOK
    <3>2. Kept(f)
      BY <3>1 DEF EmptySessionIsGone
    <3> QED BY <2>1, <3>2 DEF Active
  <2> QED BY <2>2, <2>3
<1>3. ASSUME NEW a \in Applies, NEW g \in Fetches, NEW act \in Actions, NEW seqs \in Requests,
             Apply(a, g, act, seqs)
      PROVE  Kept(f)'
  <2>1. /\ pc[a] = "idle" /\ pc' = [pc EXCEPT ![a] = "loop"]
        /\ target' = [target EXCEPT ![a] = g]
        /\ UNCHANGED <<session, fetched, messages>>
    BY <1>3 DEF Apply, handles
  <2>2. Kept(f)
    BY <2>1 DEF EmptySessionIsGone
  <2>3. \A b \in Applies : Active(b) => Active(b)' /\ target'[b] = target[b]
    BY <1>0, <2>1 DEF TypeOK, Active
  <2> QED BY <2>1, <2>2, <2>3
<1>4. ASSUME NEW a \in Applies, NEW n, Iteration(a, n) PROVE Kept(f)'
  <2>1. PICK status \in {"ok", "error", "missing"} : Report(a, n, status)
    BY <1>4, IterationStep
  <2>2. /\ UNCHANGED <<session, fetched, target>>
        /\ pc' = [pc EXCEPT ![a] = "loop"]
    BY <1>4, IterationStep DEF request
  <2>3. \A b \in Applies : Active(b) => Active(b)' /\ target'[b] = target[b]
    BY <1>0, <2>2 DEF TypeOK, Active
  <2>4. CASE f = target[a]
    <3>1. Active(a)'
      BY <1>0, <2>2 DEF TypeOK, Active
    <3> QED BY <2>2, <2>4, <3>1
  <2>5. CASE f # target[a]
    <3>1. messages'[f] = messages[f]
      BY <1>0, <2>1, <2>5 DEF Report, TypeOK
    <3>2. Kept(f)
      BY <2>2, <3>1 DEF EmptySessionIsGone
    <3> QED BY <2>2, <2>3, <3>2
  <2> QED BY <2>4, <2>5
<1>5. ASSUME NEW a \in Applies, Finish(a) PROVE Kept(f)'
  <2>1. /\ UNCHANGED <<fetched, messages, target>>
        /\ pc' = [pc EXCEPT ![a] = "done"]
    BY <1>5 DEF Finish, handles, request
  <2>2. session[f] = "live" /\ target[a] # f
    <3>1. CASE messages[target[a]] = {}
      <4>1. session' = [session EXCEPT ![target[a]] = IF @ = "live" THEN "gone" ELSE @]
        BY <1>5, <3>1 DEF Finish, DeleteSession
      <4> QED BY <1>0, <4>1 DEF TypeOK
    <3>2. CASE messages[target[a]] # {}
      BY <1>5, <2>1, <3>2 DEF Finish
    <3> QED BY <3>1, <3>2
  <2>3. Kept(f)
    BY <2>1, <2>2 DEF EmptySessionIsGone
  <2>4. \A b \in Applies \ {a} : Active(b) => Active(b)' /\ target'[b] = target[b]
    BY <1>0, <2>1 DEF TypeOK, Active
  <2> QED BY <2>1, <2>2, <2>3, <2>4
<1> QED BY <1>1, <1>2, <1>3, <1>4, <1>5, StepKinds

(* An ack is reported ok only once its message is settled, and settled       *)
(* messages stay so.                                                         *)
LEMMA AckFinalStep ==
    ASSUME Ready, [Next]_vars, ReportedAckIsFinal
    PROVE  ReportedAckIsFinal'
<1> SUFFICES ASSUME NEW b \in Applies, NEW m \in Messages,
                    action'[b] = "ack", <<m, "ok">> \in results'[b]
             PROVE  Settled(m)'
  BY DEF ReportedAckIsFinal
<1>0. TypeOK /\ RequestsKnowTheirSession
  BY DEF Ready
<1>1. CASE Aside
  BY <1>1 DEF Aside, ReportedAckIsFinal
<1>2. ASSUME NEW g \in Fetches, CreateSession(g) PROVE Settled(m)'
  BY <1>2 DEF CreateSession, nats, request, ReportedAckIsFinal, Settled
<1>3. ASSUME NEW a \in Applies, NEW g \in Fetches, NEW act \in Actions, NEW seqs \in Requests,
             Apply(a, g, act, seqs)
      PROVE  Settled(m)'
  <2>1. /\ pc[a] = "idle"
        /\ action' = [action EXCEPT ![a] = act]
        /\ UNCHANGED <<server, results>>
    BY <1>3 DEF Apply, nats
  <2>2. results[a] = {}
    BY <1>0, <2>1 DEF RequestsKnowTheirSession
  <2>3. b # a /\ action[b] = "ack"
    BY <1>0, <2>1, <2>2 DEF TypeOK
  <2> QED BY <2>1, <2>3 DEF ReportedAckIsFinal, Settled
<1>4. ASSUME NEW a \in Applies, NEW n, Iteration(a, n) PROVE Settled(m)'
  <2>1. PICK status \in {"ok", "error", "missing"} :
          Report(a, n, status) /\ (action[a] = "ack" /\ status = "ok" => Settled(n)')
    BY <1>4, IterationStep
  <2>2. UNCHANGED action /\ \A k \in Messages : Settled(k) => Settled(k)'
    BY <1>4, IterationStep DEF request
  <2>3. CASE <<m, "ok">> \in results[b]
    BY <2>2, <2>3 DEF ReportedAckIsFinal
  <2>4. CASE <<m, "ok">> \notin results[b]
    <3>1. b = a /\ m = n /\ status = "ok"
      BY <1>0, <2>1, <2>4 DEF Report, TypeOK
    <3> QED BY <2>1, <2>2, <3>1
  <2> QED BY <2>3, <2>4
<1>5. ASSUME NEW a \in Applies, Finish(a) PROVE Settled(m)'
  BY <1>5 DEF Finish, nats, request, ReportedAckIsFinal, Settled
<1> QED BY <1>1, <1>2, <1>3, <1>4, <1>5, StepKinds

-----------------------------------------------------------------------------
(* The initial states satisfy the invariant.                                 *)
LEMMA InitIInv == Init => IInv
<1> SUFFICES ASSUME Init PROVE IInv
  OBVIOUS
<1>1. TypeOK
  BY DEF Init, TypeOK
<1>2. RequestsKnowTheirSession /\ AckingVisits
  BY DEF Init, RequestsKnowTheirSession, AckingVisits
<1>3. SessionOffersUnhandled /\ EmptySessionIsGone /\ ReportedAckIsFinal
  BY DEF Init, SessionOffersUnhandled, EmptySessionIsGone, ReportedAckIsFinal, Handled
<1> QED BY <1>1, <1>2, <1>3 DEF IInv, Ready

(* The conjunction of the three properties is inductive over the types and   *)
(* what a request knows of its session.                                      *)
LEMMA Inductive == Spec => []IInv
<1>1. IInv /\ [Next]_vars => IInv'
  BY ReadyStep, OffersStep, EmptyStep, AckFinalStep DEF IInv
<1> QED BY InitIInv, <1>1, PTL DEF Spec

(* Every variable keeps its type in every behaviour of the service.          *)
THEOREM TypeCorrect == Spec => []TypeOK
<1>1. IInv => TypeOK
  BY DEF IInv, Ready
<1> QED BY <1>1, Inductive, PTL

(* A session offers exactly the deliveries it fetched that no request handled *)
(* yet, whatever requests overlap and wherever errors and timeouts strike.   *)
THEOREM OffersUnhandled == Spec => []SessionOffersUnhandled
<1>1. IInv => SessionOffersUnhandled
  BY DEF IInv
<1> QED BY <1>1, Inductive, PTL

(* A session with nothing left in it is deleted, unless its fetch found      *)
(* nothing or a request on it is still at work.                              *)
THEOREM EmptyGone == Spec => []EmptySessionIsGone
<1>1. IInv => EmptySessionIsGone
  BY DEF IInv
<1> QED BY <1>1, Inductive, PTL

(* A message whose ack was reported ok is never delivered again, also when   *)
(* it was in several sessions and other requests timed out on it.            *)
THEOREM AckFinal == Spec => []ReportedAckIsFinal
<1>1. IInv => ReportedAckIsFinal
  BY DEF IInv
<1> QED BY <1>1, Inductive, PTL

-----------------------------------------------------------------------------
(* How long a request runs, behind AppliesAreAnswered.                       *)

\* The steps a request may still take: two for a sequence whose ack is awaited.
StepsLeft(a) ==
    CASE pc[a] = "idle"   -> 2 * MaxSequences + 2
      [] pc[a] = "loop"   -> 2 * Len(todo[a]) + 1
      [] pc[a] = "acking" -> 2 * Len(todo[a])
      [] OTHER -> 0

\* No request is longer than what the service takes.
RequestsAreShort == \A a \in Applies : Len(todo[a]) <= MaxSequences

\* The moves of a request: on to the next sequence, into the wait for an ack, out
\* of the loop.
Moves(a) ==
    \/ /\ Active(a) /\ todo[a] # <<>>
       /\ pc'[a] = "loop" /\ todo'[a] = Tail(todo[a])
    \/ pc[a] = "loop" /\ pc'[a] \in {"acking", "done"} /\ todo'[a] = todo[a]

LEMMA IterationMoves ==
    ASSUME Ready, NEW a \in Applies, NEW m, Iteration(a, m)
    PROVE  /\ Moves(a)
           /\ \A b \in Applies \ {a} : pc'[b] = pc[b] /\ todo'[b] = todo[b]
<1>0. TypeOK /\ AckingVisits
  BY DEF Ready
<1>1. /\ Active(a) /\ pc' = [pc EXCEPT ![a] = "loop"]
      /\ todo' = [todo EXCEPT ![a] = Tail(@)]
  BY IterationStep DEF Report
<1>2. todo[a] # <<>>
  BY <1>0 DEF Iteration, Missing, Send, AckRefused, AckConfirmed, AckTimesOut, Visiting,
              AckingVisits
<1> QED BY <1>0, <1>1, <1>2 DEF Moves, TypeOK

LEMMA VisitMoves ==
    ASSUME Ready, NEW a \in Applies, Visit(a) \/ AckConfirmed(a)
    PROVE  /\ Moves(a)
           /\ \A b \in Applies \ {a} : pc'[b] = pc[b] /\ todo'[b] = todo[b]
<1>0. TypeOK
  BY DEF Ready
<1>1. ASSUME NEW m \in Messages, Ack(a, m)
      PROVE  /\ pc[a] = "loop" /\ pc' = [pc EXCEPT ![a] = "acking"] /\ todo' = todo
  BY <1>1 DEF Ack, Visiting
<1>2. ASSUME Finish(a)
      PROVE  /\ pc[a] = "loop" /\ pc' = [pc EXCEPT ![a] = "done"] /\ todo' = todo
  BY <1>2 DEF Finish
<1>3. ASSUME NEW m \in Messages, Missing(a, m) \/ Send(a, m) \/ AckRefused(a, m)
      PROVE  Iteration(a, m)
  BY <1>3 DEF Iteration, Missing, Send, AckRefused, Visiting
<1>4. ASSUME AckConfirmed(a) \/ AckTimesOut(a)
      PROVE  Iteration(a, Head(todo[a]))
  BY <1>4 DEF Iteration
<1>5. \/ \E m : Iteration(a, m)
      \/ /\ pc[a] = "loop" /\ todo' = todo
         /\ \E place \in {"acking", "done"} : pc' = [pc EXCEPT ![a] = place]
  BY <1>1, <1>2, <1>3, <1>4 DEF Visit
<1>6. CASE \E m : Iteration(a, m)
  BY <1>6, IterationMoves
<1>7. CASE /\ pc[a] = "loop" /\ todo' = todo
           /\ \E place \in {"acking", "done"} : pc' = [pc EXCEPT ![a] = place]
  BY <1>0, <1>7 DEF Moves, TypeOK
<1> QED BY <1>5, <1>6, <1>7

(* What a step of the service is to one request.                             *)
LEMMA StepsOfApply ==
    ASSUME Ready, [Next]_vars, NEW b \in Applies
    PROVE  \/ pc'[b] = pc[b] /\ todo'[b] = todo[b]
           \/ pc[b] = "idle" /\ pc'[b] = "loop" /\ todo'[b] \in Requests
           \/ pc[b] = "idle" /\ pc'[b] = "rejected" /\ todo'[b] = todo[b]
           \/ Moves(b)
<1>0. TypeOK
  BY DEF Ready
<1>1. ASSUME \/ \E m \in Messages : Redeliver(m)
             \/ LoseConnection
             \/ \E f \in Fetches : Fetch(f) \/ CreateSession(f) \/ FetchFails(f) \/ Expire(f) \/ Timer(f)
             \/ \E f \in Fetches, m \in Messages : Deliver(f, m)
             \/ UNCHANGED vars
      PROVE  UNCHANGED <<pc, todo>>
  BY <1>1 DEF Redeliver, LoseConnection, Fetch, CreateSession, FetchFails, Expire, Timer,
              Deliver, vars
<1>2. ASSUME NEW a \in Applies, NEW f \in Fetches, NEW act \in Actions, NEW seqs \in Requests,
             Apply(a, f, act, seqs)
      PROVE  /\ pc[a] = "idle" /\ pc' = [pc EXCEPT ![a] = "loop"]
             /\ todo' = [todo EXCEPT ![a] = seqs]
  BY <1>2 DEF Apply
<1>3. ASSUME NEW a \in Applies, NEW f \in Fetches, ApplyRejected(a, f)
      PROVE  pc[a] = "idle" /\ pc' = [pc EXCEPT ![a] = "rejected"] /\ todo' = todo
  BY <1>3 DEF ApplyRejected
<1>4. \/ UNCHANGED <<pc, todo>>
      \/ \E a \in Applies, seqs \in Requests :
            /\ pc[a] = "idle" /\ pc' = [pc EXCEPT ![a] = "loop"]
            /\ todo' = [todo EXCEPT ![a] = seqs]
      \/ \E a \in Applies :
            pc[a] = "idle" /\ pc' = [pc EXCEPT ![a] = "rejected"] /\ todo' = todo
      \/ \E a \in Applies : Visit(a) \/ AckConfirmed(a)
  BY <1>1, <1>2, <1>3 DEF Next
<1>5. CASE UNCHANGED <<pc, todo>>
  BY <1>5
<1>6. CASE \E a \in Applies, seqs \in Requests :
              /\ pc[a] = "idle" /\ pc' = [pc EXCEPT ![a] = "loop"]
              /\ todo' = [todo EXCEPT ![a] = seqs]
  BY <1>0, <1>6 DEF TypeOK
<1>7. CASE \E a \in Applies :
              pc[a] = "idle" /\ pc' = [pc EXCEPT ![a] = "rejected"] /\ todo' = todo
  BY <1>0, <1>7 DEF TypeOK
<1>8. CASE \E a \in Applies : Visit(a) \/ AckConfirmed(a)
  BY <1>8, VisitMoves
<1> QED BY <1>4, <1>5, <1>6, <1>7, <1>8

(* Len and Tail of what a request has left.                                  *)
LEMMA TailIsShorter ==
    ASSUME NEW s \in Seq(Messages), s # <<>>
    PROVE  Len(s) \in Nat \ {0} /\ Len(Tail(s)) = Len(s) - 1
OBVIOUS

LEMMA ShortStep ==
    ASSUME Ready, RequestsAreShort, [Next]_vars
    PROVE  RequestsAreShort'
<1> SUFFICES ASSUME NEW b \in Applies PROVE Len(todo'[b]) <= MaxSequences
  BY DEF RequestsAreShort
<1>1. todo[b] \in Seq(Messages) /\ Len(todo[b]) \in Nat /\ Len(todo[b]) <= MaxSequences
  BY DEF Ready, TypeOK, RequestsAreShort
<1>2. CASE todo'[b] = todo[b]
  BY <1>1, <1>2
<1>3. CASE todo'[b] \in Requests
  BY <1>3, BoundsAreNat DEF Requests
<1>4. CASE todo[b] # <<>> /\ todo'[b] = Tail(todo[b])
  BY <1>1, <1>4, TailIsShorter, BoundsAreNat
<1> QED BY <1>2, <1>3, <1>4, StepsOfApply DEF Moves

LEMMA MovesRunDown ==
    ASSUME Ready, NEW a \in Applies, Moves(a)
    PROVE  StepsLeft(a)' < StepsLeft(a)
<1>1. todo[a] \in Seq(Messages) /\ Len(todo[a]) \in Nat
  BY DEF Ready, TypeOK
<1>2. CASE /\ Active(a) /\ todo[a] # <<>>
           /\ pc'[a] = "loop" /\ todo'[a] = Tail(todo[a])
  BY <1>1, <1>2, TailIsShorter DEF StepsLeft, Active
<1>3. CASE pc[a] = "loop" /\ pc'[a] \in {"acking", "done"} /\ todo'[a] = todo[a]
  BY <1>1, <1>3 DEF StepsLeft
<1> QED BY <1>2, <1>3 DEF Moves

\* Every step of a request brings its answer nearer, and nobody else's step moves it
\* away: not the other requests, the end of its session, nor the lost connection.
AppliesRunDown ==
    [][\A a \in Applies :
          /\ StepsLeft(a)' <= StepsLeft(a)
          /\ Visit(a) \/ AckConfirmed(a) => StepsLeft(a)' < StepsLeft(a)]_vars

(* A request visits each of its sequences once, whatever its session goes    *)
(* through meanwhile: it ends after two steps per sequence and two more.     *)
THEOREM AppliesAreBounded ==
    Spec => AppliesRunDown /\ [](\A a \in Applies : StepsLeft(a) \in 0 .. 2 * MaxSequences + 2)
<1>1. ASSUME Ready, Ready', RequestsAreShort, RequestsAreShort', [Next]_vars, NEW a \in Applies
      PROVE  /\ StepsLeft(a)' <= StepsLeft(a)
             /\ Visit(a) \/ AckConfirmed(a) => StepsLeft(a)' < StepsLeft(a)
  <2>1. /\ Len(todo[a]) \in Nat /\ Len(todo'[a]) \in Nat /\ MaxSequences \in Nat
        /\ Len(todo[a]) <= MaxSequences /\ Len(todo'[a]) <= MaxSequences
    BY <1>1, BoundsAreNat DEF Ready, TypeOK, RequestsAreShort
  <2>2. Moves(a) => StepsLeft(a)' < StepsLeft(a)
    BY <1>1, MovesRunDown
  <2>3. StepsLeft(a) \in Nat /\ StepsLeft(a)' \in Nat
    BY <2>1 DEF StepsLeft
  <2>4. ASSUME pc'[a] = pc[a], todo'[a] = todo[a] PROVE StepsLeft(a)' <= StepsLeft(a)
    BY <2>1, <2>3, <2>4 DEF StepsLeft
  <2>5. ASSUME pc[a] = "idle", pc'[a] \in {"loop", "rejected"}
        PROVE  StepsLeft(a)' <= StepsLeft(a)
    BY <2>1, <2>5 DEF StepsLeft
  <2>6. StepsLeft(a)' <= StepsLeft(a)
    BY <1>1, <2>2, <2>3, <2>4, <2>5, StepsOfApply
  <2>7. Visit(a) \/ AckConfirmed(a) => Moves(a)
    BY <1>1, VisitMoves
  <2> QED BY <2>2, <2>6, <2>7
<1>2. ASSUME Ready, RequestsAreShort, NEW a \in Applies
      PROVE  StepsLeft(a) \in 0 .. 2 * MaxSequences + 2
  <2>1. Len(todo[a]) \in Nat /\ MaxSequences \in Nat /\ Len(todo[a]) <= MaxSequences
    BY <1>2, BoundsAreNat DEF Ready, TypeOK, RequestsAreShort
  <2> QED BY <2>1 DEF StepsLeft
<1>3. Init => RequestsAreShort
  BY BoundsAreNat DEF Init, RequestsAreShort
<1>4. Ready /\ RequestsAreShort /\ [Next]_vars => RequestsAreShort'
  BY ShortStep
<1>5. IInv => Ready
  BY DEF IInv
<1>6. Ready /\ Ready' /\ RequestsAreShort /\ RequestsAreShort' /\ [Next]_vars =>
        [\A a \in Applies :
            /\ StepsLeft(a)' <= StepsLeft(a)
            /\ Visit(a) \/ AckConfirmed(a) => StepsLeft(a)' < StepsLeft(a)]_vars
  BY <1>1
<1>7. Ready /\ RequestsAreShort => \A a \in Applies : StepsLeft(a) \in 0 .. 2 * MaxSequences + 2
  BY <1>2
<1> QED BY <1>3, <1>4, <1>5, <1>6, <1>7, Inductive, PTL DEF Spec, AppliesRunDown

-----------------------------------------------------------------------------
(* How often a delivery is handled.                                        *)

(* Only Ack makes a request wait.                                            *)
LEMMA WaitBegins ==
    ASSUME Ready, [Next]_vars, NEW a \in Applies, NEW m \in Messages, Waits(a, m)'
    PROVE  Waits(a, m) \/ Ack(a, m)
<1>0. TypeOK
  BY DEF Ready
<1>1. ASSUME \/ \E n \in Messages : Redeliver(n)
             \/ LoseConnection
             \/ \E f \in Fetches : Fetch(f) \/ CreateSession(f) \/ FetchFails(f) \/ Expire(f) \/ Timer(f)
             \/ \E f \in Fetches, n \in Messages : Deliver(f, n)
             \/ UNCHANGED vars
      PROVE  UNCHANGED <<pc, todo>>
  BY <1>1 DEF Redeliver, LoseConnection, Fetch, CreateSession, FetchFails, Expire, Timer,
              Deliver, vars
<1>2. ASSUME \/ \E c \in Applies, f \in Fetches, act \in Actions, seqs \in Requests :
                   Apply(c, f, act, seqs)
             \/ \E c \in Applies, f \in Fetches : ApplyRejected(c, f)
             \/ \E c \in Applies : Finish(c)
      PROVE  \E c \in Applies, place \in {"loop", "rejected", "done"} : pc' = [pc EXCEPT ![c] = place]
  BY <1>2 DEF Apply, ApplyRejected, Finish
<1>3. ASSUME NEW c \in Applies, NEW n, Iteration(c, n)
      PROVE  pc' = [pc EXCEPT ![c] = "loop"]
  BY <1>3, IterationStep
<1>4. ASSUME NEW c \in Applies,
             \/ \E n \in Messages : Missing(c, n) \/ Send(c, n) \/ AckRefused(c, n)
             \/ AckConfirmed(c) \/ AckTimesOut(c)
      PROVE  \E n : Iteration(c, n)
  BY <1>4 DEF Iteration, Missing, Send, AckRefused, Visiting
<1>5. \/ UNCHANGED <<pc, todo>>
      \/ \E c \in Applies, place \in {"loop", "rejected", "done"} : pc' = [pc EXCEPT ![c] = place]
      \/ \E c \in Applies, n \in Messages : Ack(c, n)
  BY <1>1, <1>2, <1>3, <1>4 DEF Next, Visit
<1>6. CASE UNCHANGED <<pc, todo>>
  BY <1>6 DEF Waits
<1>7. CASE pc[a] = "acking"
  <2>1. pc'[a] = "acking" /\ m = Head(todo'[a])
    BY DEF Waits
  <2>2. todo'[a] = todo[a]
    BY <1>7, <2>1, StepsOfApply DEF Moves
  <2> QED BY <1>7, <2>1, <2>2 DEF Waits
<1>8. ASSUME pc[a] # "acking", NEW c \in Applies, NEW place \in {"loop", "rejected", "done"},
             pc' = [pc EXCEPT ![c] = place]
      PROVE  FALSE
  BY <1>0, <1>8 DEF Waits, TypeOK
<1>9. ASSUME pc[a] # "acking", NEW c \in Applies, NEW n \in Messages, Ack(c, n)
      PROVE  Ack(a, m)
  <2>1. c = a
    BY <1>0, <1>9 DEF Ack, Waits, TypeOK
  <2>2. n = m
    BY <1>9, <2>1 DEF Ack, Visiting, Waits
  <2> QED BY <1>9, <2>1, <2>2
<1> QED BY <1>5, <1>6, <1>7, <1>8, <1>9

(* What a request reports handled was in the session, unless its ack waited. *)
LEMMA HandlingVisits ==
    ASSUME Ready, [Next]_vars, NEW a \in Applies, NEW m \in Messages, target[a] # None,
           Handled(a, m)', ~Handled(a, m)
    PROVE  Waits(a, m) \/ m \in messages[target[a]]
<1>0. TypeOK /\ RequestsKnowTheirSession
  BY DEF Ready
<1>1. CASE Aside \/ \E f \in Fetches : CreateSession(f)
  <2>1. UNCHANGED <<action, results>>
    BY <1>1 DEF Aside, CreateSession, request
  <2> QED BY <2>1 DEF Handled
<1>2. ASSUME NEW c \in Applies, NEW f \in Fetches, NEW act \in Actions, NEW seqs \in Requests,
             Apply(c, f, act, seqs)
      PROVE  FALSE
  <2>1. pc[c] = "idle" /\ action' = [action EXCEPT ![c] = act] /\ UNCHANGED results
    BY <1>2 DEF Apply
  <2>2. c # a
    BY <1>0, <2>1 DEF RequestsKnowTheirSession
  <2> QED BY <1>0, <2>1, <2>2 DEF TypeOK, Handled
<1>3. ASSUME NEW c \in Applies, NEW n, Iteration(c, n)
      PROVE  Waits(a, m) \/ m \in messages[target[a]]
  <2>1. PICK status \in {"ok", "error", "missing"} : Report(c, n, status)
    BY <1>3, IterationStep
  <2>2. UNCHANGED action
    BY <1>3, IterationStep DEF request
  <2>3. results' = [results EXCEPT ![c] = @ \cup {<<n, status>>}]
    BY <2>1 DEF Report
  <2>4. c = a /\ n = m /\ status = "ok"
    BY <1>0, <2>2, <2>3 DEF TypeOK, Handled
  <2>5. ~Missing(a, m)
    <3>1. ASSUME Missing(a, m) PROVE results'[a] = results[a] \cup {<<m, "missing">>}
      BY <1>0, <3>1 DEF Missing, Report, TypeOK
    <3> QED BY <2>2, <3>1 DEF Handled
  <2> QED BY <1>3, <2>4, <2>5 DEF Iteration, Send, AckRefused, AckConfirmed, AckTimesOut, Waits
<1>4. ASSUME NEW c \in Applies, Finish(c) PROVE FALSE
  <2>1. UNCHANGED <<action, results>>
    BY <1>4 DEF Finish, request
  <2> QED BY <2>1 DEF Handled
<1> QED BY <1>1, <1>2, <1>3, <1>4, StepKinds

(* A delivery that was handled is not taken up by another request on its     *)
(* session, unless its ack was waiting: whatever overlaps, it was no longer  *)
(* offered.                                                                  *)
THEOREM Once == Spec => HandledOnce
<1>1. ASSUME IInv, [Next]_vars, NEW a \in Applies, NEW b \in Applies, NEW m \in Messages,
             target[a] = target[b], Handled(b, m)
      PROVE  /\ Waits(a, m)' => Waits(a, m)
             /\ Handled(a, m)' => Handled(a, m) \/ Waits(a, m)
  <2>0. Ready /\ TypeOK /\ RequestsKnowTheirSession /\ SessionOffersUnhandled
    BY <1>1 DEF IInv, Ready
  <2>1. target[b] # None /\ session[target[b]] \in {"live", "gone"}
    BY <1>1, <2>0 DEF RequestsKnowTheirSession, Handled
  <2>2. target[b] \in Fetches
    BY <2>0, <2>1 DEF TypeOK
  <2>3. m \notin messages[target[a]]
    BY <1>1, <2>0, <2>1, <2>2 DEF SessionOffersUnhandled
  <2>4. ~Ack(a, m)
    BY <2>3 DEF Ack
  <2> QED BY <1>1, <2>0, <2>1, <2>3, <2>4, WaitBegins, HandlingVisits
<1>2. IInv /\ [Next]_vars =>
        [\A a, b \in Applies, m \in Messages :
            target[a] = target[b] /\ Handled(b, m) =>
                /\ Waits(a, m)' => Waits(a, m)
                /\ Handled(a, m)' => Handled(a, m) \/ Waits(a, m)]_vars
  BY <1>1
<1> QED BY <1>2, Inductive, PTL DEF Spec, HandledOnce
=============================================================================
