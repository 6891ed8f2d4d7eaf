------------------------------ MODULE Remediation ------------------------------
(***************************************************************************)
(* MessageRemediationService: a fetch takes deliveries of a pull consumer  *)
(* into a session, requests apply ack, nak, term or working to them until  *)
(* the session is empty or its two minutes are over.                       *)
(*                                                                         *)
(* The JetStream server and the message handles of the NATS library are    *)
(* external.  A handle sends one final answer: didAck is set by then, and  *)
(* later answers are dropped, silently for nak and term.  An ack waits for *)
(* the server's confirmation, nak, term and working are published only.    *)
(* One loop iteration of an apply is one step, two when it waits for an    *)
(* ack; the Map of sessions and the connection change in between.          *)
(***************************************************************************)
EXTENDS Naturals, Sequences, FiniteSets

CONSTANTS
    Messages,       \* stream sequences the consumer can deliver
    Fetches,        \* fetch requests; a session is named by its fetch
    Applies,        \* requests to .../remediation/actions
    BatchSize,      \* batch_size of the fetches
    MaxSequences,   \* bound on the length of stream_sequences
    None

Actions == {"ack", "nak", "term", "working"}

ASSUME BoundsAreNat == BatchSize \in Nat \ {0} /\ MaxSequences \in Nat \ {0}
ASSUME NoneIsNoFetch == None \notin Fetches

VARIABLES
    server,    \* server[m]: the consumer's state of a message
    link,      \* TRUE while the NATS connection of the sessions is open
    session,   \* session[f]: "none", being filled, in the Map, or out of it
    expired,   \* expired[f]: expiresAtMs has passed
    fetched,   \* fetched[f]: the messages the fetch put into its session
    messages,  \* messages[f]: session.messages
    didAck,    \* didAck[f]: the messages whose handle has sent its final answer
    pc,        \* where an apply request is suspended
    target,    \* target[a]: the session of the request
    action,    \* action[a]: its action
    todo,      \* todo[a]: the stream_sequences left to visit
    results    \* results[a]: the results so far, pairs of message and status

vars == <<server, link, session, expired, fetched, messages, didAck,
          pc, target, action, todo, results>>

nats    == <<server, link>>
handles == <<fetched, didAck>>
request == <<target, action>>

TypeOK ==
    /\ server \in [Messages -> {"waiting", "delivered", "acked", "termed"}]
    /\ link \in BOOLEAN
    /\ session \in [Fetches -> {"none", "fetching", "live", "gone", "failed"}]
    /\ expired \in [Fetches -> BOOLEAN]
    /\ fetched \in [Fetches -> SUBSET Messages]
    /\ messages \in [Fetches -> SUBSET Messages]
    /\ didAck \in [Fetches -> SUBSET Messages]
    /\ pc \in [Applies -> {"idle", "loop", "acking", "done", "rejected"}]
    /\ target \in [Applies -> Fetches \cup {None}]
    /\ action \in [Applies -> Actions \cup {None}]
    /\ todo \in [Applies -> Seq(Messages)]
    /\ results \in [Applies -> SUBSET (Messages \X {"ok", "error", "missing"})]

Init ==
    /\ server = [m \in Messages |-> "waiting"]
    /\ link = TRUE
    /\ session = [f \in Fetches |-> "none"]
    /\ expired = [f \in Fetches |-> FALSE]
    /\ fetched = [f \in Fetches |-> {}]
    /\ messages = [f \in Fetches |-> {}]
    /\ didAck = [f \in Fetches |-> {}]
    /\ pc = [a \in Applies |-> "idle"]
    /\ target = [a \in Applies |-> None]
    /\ action = [a \in Applies |-> None]
    /\ todo = [a \in Applies |-> <<>>]
    /\ results = [a \in Applies |-> {}]

-----------------------------------------------------------------------------
(* The consumer and the connection, external.                              *)

Settled(m) == server[m] \in {"acked", "termed"}

\* ack_wait passes without an answer that reached the server.
Redeliver(m) ==
    /\ server[m] = "delivered"
    /\ server' = [server EXCEPT ![m] = "waiting"]
    /\ UNCHANGED <<link, session, expired, handles, messages, pc, request, todo, results>>

\* The connection is replaced, removed or lost; sessions keep its handles.
LoseConnection ==
    /\ link
    /\ link' = FALSE
    /\ UNCHANGED <<server, session, expired, handles, messages, pc, request, todo, results>>

\* What the server makes of an answer it receives.
Outcome == [ack |-> "acked", nak |-> "waiting", term |-> "termed"]

Answered(m, act) ==
    IF Settled(m) \/ act = "working" THEN server
    ELSE [server EXCEPT ![m] = Outcome[act]]

\* An answer was published: it arrives, or is lost with the connection.
Publish(m, act) == server' \in {Answered(m, act), server}

-----------------------------------------------------------------------------
(* Fetching into a session.                                                *)

\* consumers.info, the push-consumer check and consumers.get succeed.
Fetch(f) ==
    /\ link
    /\ session[f] = "none"
    /\ session' = [session EXCEPT ![f] = "fetching"]
    /\ UNCHANGED <<nats, expired, handles, messages, pc, request, todo, results>>

\* An iteration of the loop over the deliveries: a new handle.  handles.set
\* replaces the handle of a message that was delivered again; the batch is
\* bounded by the distinct messages, a repeated one does not count here.
Deliver(f, m) ==
    /\ link
    /\ session[f] = "fetching"
    /\ server[m] = "waiting"
    /\ Cardinality(fetched[f]) < BatchSize
    /\ server' = [server EXCEPT ![m] = "delivered"]
    /\ fetched' = [fetched EXCEPT ![f] = @ \cup {m}]
    /\ UNCHANGED <<link, session, expired, messages, didAck, pc, request, todo, results>>

\* The deliveries are closed and createRemediationSession runs.
CreateSession(f) ==
    /\ session[f] = "fetching"
    /\ session' = [session EXCEPT ![f] = "live"]
    /\ messages' = [messages EXCEPT ![f] = fetched[f]]
    /\ UNCHANGED <<nats, expired, handles, pc, request, todo, results>>

\* The request is refused, or fails with its handles: no session.
FetchFails(f) ==
    /\ session[f] \in {"none", "fetching"}
    /\ session' = [session EXCEPT ![f] = "failed"]
    /\ UNCHANGED <<nats, expired, handles, messages, pc, request, todo, results>>

\* expiresAtMs passes; the timer fires at that time or later.
Expire(f) ==
    /\ session[f] = "live" /\ ~expired[f]
    /\ expired' = [expired EXCEPT ![f] = TRUE]
    /\ UNCHANGED <<nats, session, handles, messages, pc, request, todo, results>>

DeleteSession(f) ==
    session' = [session EXCEPT ![f] = IF @ = "live" THEN "gone" ELSE @]

\* The timer of the session, which nothing but its deletion clears.
Timer(f) ==
    /\ expired[f] /\ session[f] = "live"
    /\ DeleteSession(f)
    /\ UNCHANGED <<nats, expired, handles, messages, pc, request, todo, results>>

-----------------------------------------------------------------------------
(* Applying an action.                                                     *)

Active(a) == pc[a] \in {"loop", "acking"}

\* getRemediationSession finds the session, and the loop starts.
Apply(a, f, act, seqs) ==
    /\ pc[a] = "idle"
    /\ session[f] = "live" /\ ~expired[f]
    /\ pc' = [pc EXCEPT ![a] = "loop"]
    /\ target' = [target EXCEPT ![a] = f]
    /\ action' = [action EXCEPT ![a] = act]
    /\ todo' = [todo EXCEPT ![a] = seqs]
    /\ UNCHANGED <<nats, session, expired, handles, messages, results>>

\* The session is gone or belongs to another consumer; an expired one is deleted.
ApplyRejected(a, f) ==
    /\ pc[a] = "idle"
    /\ IF session[f] = "live" /\ expired[f] THEN DeleteSession(f) ELSE UNCHANGED session
    /\ pc' = [pc EXCEPT ![a] = "rejected"]
    /\ UNCHANGED <<nats, expired, handles, messages, request, todo, results>>

\* Mutant: the message leaves the session whatever came of it.
ReportDropsAll(a, m, status) ==
    /\ results' = [results EXCEPT ![a] = @ \cup {<<m, status>>}]
    /\ todo' = [todo EXCEPT ![a] = Tail(@)]
    /\ messages' = [messages EXCEPT ![target[a]] = @ \ {m}]

\* Mutant: handled messages stay in the session.
ReportKeeps(a, m, status) ==
    /\ results' = [results EXCEPT ![a] = @ \cup {<<m, status>>}]
    /\ todo' = [todo EXCEPT ![a] = Tail(@)]
    /\ UNCHANGED messages

\* The iteration ends with a status; what is handled leaves the session.
Report(a, m, status) ==
    /\ results' = [results EXCEPT ![a] = @ \cup {<<m, status>>}]
    /\ todo' = [todo EXCEPT ![a] = Tail(@)]
    /\ messages' = IF status = "ok" /\ action[a] # "working"
                   THEN [messages EXCEPT ![target[a]] = @ \ {m}]
                   ELSE messages

Visiting(a, m) == pc[a] = "loop" /\ todo[a] # <<>> /\ m = Head(todo[a])

\* The message is not, or no longer, in the session.
Missing(a, m) ==
    /\ Visiting(a, m)
    /\ m \notin messages[target[a]]
    /\ Report(a, m, "missing")
    /\ UNCHANGED <<nats, session, expired, handles, pc, request>>

\* nak, term or working: a publish that throws when the connection is closed,
\* and nothing when the handle has sent its final answer.
Send(a, m) ==
    /\ Visiting(a, m)
    /\ m \in messages[target[a]]
    /\ action[a] # "ack"
    /\ IF m \in didAck[target[a]]
       THEN UNCHANGED <<server, didAck>> /\ Report(a, m, "ok")
       ELSE /\ didAck' = IF action[a] = "working" THEN didAck
                         ELSE [didAck EXCEPT ![target[a]] = @ \cup {m}]
            /\ IF link
               THEN Publish(m, action[a]) /\ Report(a, m, "ok")
               ELSE UNCHANGED server /\ Report(a, m, "error")
    /\ UNCHANGED <<link, session, expired, fetched, pc, request>>

\* ackAck is called.  Whether the handle counts as answered before the
\* confirmation is left open.
Ack(a, m) ==
    /\ Visiting(a, m)
    /\ m \in messages[target[a]]
    /\ action[a] = "ack"
    /\ m \notin didAck[target[a]]
    /\ didAck' \in {didAck, [didAck EXCEPT ![target[a]] = @ \cup {m}]}
    /\ pc' = [pc EXCEPT ![a] = "acking"]
    /\ UNCHANGED <<nats, session, expired, fetched, messages, request, todo, results>>

\* The server confirms within the timeout.
AckConfirmed(a) ==
    LET m == Head(todo[a]) IN
    /\ pc[a] = "acking"
    /\ link
    /\ server' = Answered(m, "ack")
    /\ didAck' = [didAck EXCEPT ![target[a]] = @ \cup {m}]
    /\ Report(a, m, "ok")
    /\ pc' = [pc EXCEPT ![a] = "loop"]
    /\ UNCHANGED <<link, session, expired, fetched, request>>

\* Mutant: no timeout, only a closed connection ends the wait.
AckWaits(a) ==
    LET m == Head(todo[a]) IN
    /\ pc[a] = "acking" /\ ~link
    /\ Publish(m, "ack")
    /\ didAck' = [didAck EXCEPT ![target[a]] = @ \cup {m}]
    /\ Report(a, m, "error")
    /\ pc' = [pc EXCEPT ![a] = "loop"]
    /\ UNCHANGED <<link, session, expired, fetched, request>>

\* No confirmation: the ack, or its confirmation, is lost or late.
AckTimesOut(a) ==
    LET m == Head(todo[a]) IN
    /\ pc[a] = "acking"
    /\ Publish(m, "ack")
    /\ didAck' = [didAck EXCEPT ![target[a]] = @ \cup {m}]
    /\ Report(a, m, "error")
    /\ pc' = [pc EXCEPT ![a] = "loop"]
    /\ UNCHANGED <<link, session, expired, fetched, request>>

\* Mutant: the boolean that ackAck resolves to is ignored.
AckUnconfirmed(a, m) ==
    /\ Visiting(a, m)
    /\ m \in messages[target[a]] \cap didAck[target[a]]
    /\ action[a] = "ack"
    /\ Report(a, m, "ok")
    /\ UNCHANGED <<nats, session, expired, handles, pc, request>>

\* Mutant: a status of its own.
AckRefusedAnew(a, m) ==
    /\ Visiting(a, m)
    /\ m \in messages[target[a]] \cap didAck[target[a]]
    /\ action[a] = "ack"
    /\ Report(a, m, "refused")
    /\ UNCHANGED <<nats, session, expired, handles, pc, request>>

\* ackAck of an answered handle resolves to false, which is an error.
AckRefused(a, m) ==
    /\ Visiting(a, m)
    /\ m \in messages[target[a]] \cap didAck[target[a]]
    /\ action[a] = "ack"
    /\ Report(a, m, "error")
    /\ UNCHANGED <<nats, session, expired, handles, pc, request>>

\* Mutant: an empty session is left to its timer.
FinishLeavesEmpty(a) ==
    /\ pc[a] = "loop" /\ todo[a] = <<>>
    /\ pc' = [pc EXCEPT ![a] = "done"]
    /\ UNCHANGED <<nats, session, expired, handles, messages, request, todo, results>>

\* After the loop an empty session is deleted, and the request is answered.
Finish(a) ==
    /\ pc[a] = "loop" /\ todo[a] = <<>>
    /\ IF messages[target[a]] = {} THEN DeleteSession(target[a]) ELSE UNCHANGED session
    /\ pc' = [pc EXCEPT ![a] = "done"]
    /\ UNCHANGED <<nats, expired, handles, messages, request, todo, results>>

-----------------------------------------------------------------------------
\* The requests with up to MaxSequences sequences, repetitions included.
Requests == UNION {[1 .. n -> Messages] : n \in 1 .. MaxSequences}

Visit(a) ==
    \/ \E m \in Messages : Missing(a, m) \/ Send(a, m) \/ Ack(a, m) \/ AckRefused(a, m)
    \/ AckTimesOut(a)
    \/ Finish(a)

Next ==
    \/ \E m \in Messages : Redeliver(m)
    \/ LoseConnection
    \/ \E f \in Fetches : Fetch(f) \/ CreateSession(f) \/ FetchFails(f) \/ Expire(f) \/ Timer(f)
    \/ \E f \in Fetches, m \in Messages : Deliver(f, m)
    \/ \E a \in Applies, f \in Fetches, act \in Actions, seqs \in Requests :
          Apply(a, f, act, seqs)
    \/ \E a \in Applies, f \in Fetches : ApplyRejected(a, f)
    \/ \E a \in Applies : AckConfirmed(a) \/ Visit(a)

Spec == Init /\ [][Next]_vars

\* The event loop runs what is ready, and ackAck has a timeout.  No fairness for
\* what the server or the connection do.
Fairness == \A a \in Applies : WF_vars(Visit(a))

FairSpec == Spec /\ Fairness

-----------------------------------------------------------------------------
(* Safety.                                                                 *)

\* Request a handled m for good: ack, nak or term, reported ok.
Handled(a, m) == <<m, "ok">> \in results[a] /\ action[a] # "working"

\* A session offers exactly what was fetched and not handled: an error keeps the
\* message for a retry, also when requests overlap and the session expires.
SessionOffersUnhandled ==
    \A f \in Fetches :
        session[f] \in {"live", "gone"} =>
            messages[f] = {m \in fetched[f] :
                             \A a \in Applies : target[a] = f => ~Handled(a, m)}

\* An ack that is reported ok is final: the server never delivers it again.
ReportedAckIsFinal ==
    \A a \in Applies, m \in Messages :
        action[a] = "ack" /\ <<m, "ok">> \in results[a] => Settled(m)

\* No session lingers with nothing left in it, but for one whose fetch found
\* nothing, or whose last request is about to delete it.
EmptySessionIsGone ==
    \A f \in Fetches :
        session[f] = "live" /\ messages[f] = {} =>
            fetched[f] = {} \/ \E a \in Applies : Active(a) /\ target[a] = f

\* Request a waits for the confirmation of its ack of m.
Waits(a, m) == pc[a] = "acking" /\ m = Head(todo[a])

\* Once a request has handled a delivery, no request on the session takes it up: none
\* comes to wait for its ack, and none reports it handled but one whose ack was waiting
\* by then.  What clients do one after the other handles it once, whatever overlaps.
HandledOnce ==
    [][\A a, b \in Applies, m \in Messages :
          target[a] = target[b] /\ Handled(b, m) =>
              /\ Waits(a, m)' => Waits(a, m)
              /\ Handled(a, m)' => Handled(a, m) \/ Waits(a, m)]_vars

-----------------------------------------------------------------------------
(* Liveness.                                                               *)

\* Every request is answered, whether the server confirms its acks or not.
AppliesAreAnswered == \A a \in Applies : Active(a) ~> pc[a] = "done"
=============================================================================
