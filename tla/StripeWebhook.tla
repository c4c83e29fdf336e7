---------------------------- MODULE StripeWebhook ----------------------------
(***************************************************************************)
(* StripeWebhookHandler.handle                                             *)
(* (src/modules/payments/webhooks/stripe.webhook.handler.ts).  Stripe      *)
(* delivers an event again until it is told of a success, so deliveries of *)
(* one event overlap.  Each runs handle in a transaction of its own, at    *)
(* the isolation PostgreSQL gives by default: it looks for the event among *)
(* the committed ProcessedWebhook rows, runs the effect, inserts the row   *)
(* and commits.                                                            *)
(*                                                                         *)
(* The primary key of ProcessedWebhook makes the second insert of an event *)
(* wait for the transaction that made the first, and fail once that one    *)
(* has committed.  What processPaymentSuccess changes is a stub in the     *)
(* source; it is given the transaction, so the model counts its committed  *)
(* runs.                                                                   *)
(***************************************************************************)
EXTENDS Integers

CONSTANTS
    Events,
    Payments,   \* the events of type checkout.session.completed
    Deliveries, \* the deliveries handled at the same time
    None

ASSUME EventAssumption == Payments \subseteq Events /\ None \notin Events

VARIABLES
    processed,      \* the committed ProcessedWebhook rows
    effects,        \* committed runs of processPaymentSuccess, per event
    acknowledged,   \* the events of which a delivery has returned in success
    tx              \* tx[d]: the transaction of d

vars == <<processed, effects, acknowledged, tx>>
dbVars == <<processed, effects>>

\* ran: the transaction has run the effect; it is undone by a rollback.
Transaction == [at : {"idle", "check", "effect", "mark", "commit"},
                event : Events \cup {None}, ran : BOOLEAN]

NoTransaction == [at |-> "idle", event |-> None, ran |-> FALSE]

Init ==
    /\ processed = {}
    /\ effects = [e \in Events |-> 0]
    /\ acknowledged = {}
    /\ tx = [d \in Deliveries |-> NoTransaction]

Close(d) == tx' = [tx EXCEPT ![d] = NoTransaction]

\* Wrong on purpose, for Deliver: the id of the event is not passed on.
DeliverWithoutId(d, e) ==
    /\ tx[d].at = "idle"
    /\ tx' = [tx EXCEPT ![d] = [at |-> "check", event |-> None, ran |-> FALSE]]
    /\ UNCHANGED <<dbVars, acknowledged>>

Deliver(d, e) ==
    /\ tx[d].at = "idle"
    /\ tx' = [tx EXCEPT ![d] = [at |-> "check", event |-> e, ran |-> FALSE]]
    /\ UNCHANGED <<dbVars, acknowledged>>

\* findUnique: an event on record is answered and nothing else happens.
Skip(d) ==
    /\ tx[d].at = "check"
    /\ tx[d].event \in processed
    /\ acknowledged' = acknowledged \cup {tx[d].event}
    /\ Close(d)
    /\ UNCHANGED dbVars

Accept(d) ==
    /\ tx[d].at = "check"
    /\ tx[d].event \notin processed
    /\ tx' = [tx EXCEPT ![d].at = "effect"]
    /\ UNCHANGED <<dbVars, acknowledged>>

\* Wrong on purpose, for ProcessPayment: the effect is committed on its own.
ProcessPaymentOutside(d) ==
    /\ tx[d].at = "effect"
    /\ tx' = [tx EXCEPT ![d].at = "mark"]
    /\ effects' = IF tx[d].event \in Payments
                  THEN [effects EXCEPT ![tx[d].event] = @ + 1] ELSE effects
    /\ UNCHANGED <<processed, acknowledged>>

\* processPaymentSuccess, for the one event type that has an effect.
ProcessPayment(d) ==
    /\ tx[d].at = "effect"
    /\ tx' = [tx EXCEPT ![d].at = "mark",
                        ![d].ran = tx[d].event \in Payments]
    /\ UNCHANGED <<dbVars, acknowledged>>

\* An uncommitted row of the same event makes an insert wait.
KeyTaken(e) == \E d \in Deliveries : tx[d].at = "commit" /\ tx[d].event = e

\* Wrong on purpose, for Mark: the event id is not a key of the table.
MarkWithoutKey(d) ==
    /\ tx[d].at = "mark"
    /\ tx' = [tx EXCEPT ![d].at = "commit"]
    /\ UNCHANGED <<dbVars, acknowledged>>

Mark(d) ==
    /\ tx[d].at = "mark"
    /\ ~KeyTaken(tx[d].event)
    /\ tx[d].event \notin processed
    /\ tx' = [tx EXCEPT ![d].at = "commit"]
    /\ UNCHANGED <<dbVars, acknowledged>>

\* Wrong on purpose, for Duplicate: the insert is tried for ever.
DuplicateTriesAgain(d) ==
    /\ tx[d].at = "mark"
    /\ tx[d].event \in processed
    /\ UNCHANGED vars

\* A row of the same key has been committed since the check: the insert fails
\* and the transaction, its effect with it, is rolled back.
Duplicate(d) ==
    /\ tx[d].at = "mark"
    /\ tx[d].event \in processed
    /\ Close(d)
    /\ UNCHANGED <<dbVars, acknowledged>>

Commit(d) ==
    /\ tx[d].at = "commit"
    /\ processed' = processed \cup {tx[d].event}
    /\ effects' = IF tx[d].ran THEN [effects EXCEPT ![tx[d].event] = @ + 1]
                               ELSE effects
    /\ acknowledged' = acknowledged \cup {tx[d].event}
    /\ Close(d)

\* An error, a timeout of the transaction or a crash rolls back.
Rollback(d) ==
    /\ tx[d].at # "idle"
    /\ Close(d)
    /\ UNCHANGED <<dbVars, acknowledged>>

Next ==
    \/ \E d \in Deliveries, e \in Events : Deliver(d, e)
    \/ \E d \in Deliveries : Skip(d)
    \/ \E d \in Deliveries : Accept(d)
    \/ \E d \in Deliveries : ProcessPayment(d)
    \/ \E d \in Deliveries : Mark(d)
    \/ \E d \in Deliveries : Duplicate(d)
    \/ \E d \in Deliveries : Commit(d)
    \/ \E d \in Deliveries : Rollback(d)

Spec == Init /\ [][Next]_vars

\* The database answers every statement, and a transaction that waits for a key
\* is woken each time the holder ends, so others that take the key and roll back
\* do not keep it out for ever.  A rollback is never owed.
Fairness ==
    \A d \in Deliveries :
       /\ WF_vars(Skip(d) \/ Accept(d) \/ ProcessPayment(d) \/ Commit(d))
       /\ SF_vars(Mark(d) \/ Duplicate(d))

FairSpec == Spec /\ Fairness

-----------------------------------------------------------------------------
\* Type invariant: rows are well formed and an open transaction has an event.
TypeOK ==
    /\ processed \subseteq Events
    /\ effects \in [Events -> Nat]
    /\ acknowledged \subseteq Events
    /\ tx \in [Deliveries -> Transaction]
    /\ \A d \in Deliveries : tx[d].at # "idle" => tx[d].event \in Events

\* The order is paid once: an event that is on record has had its effect
\* exactly once, and one that is not has had none, whatever deliveries
\* overlapped, failed or came again (stripe.webhook.handler.ts:7-27).
EffectOnce ==
    \A e \in Events :
       effects[e] = IF e \in processed \cap Payments THEN 1 ELSE 0

\* Stripe stops delivering an event once it is told of a success, so no event
\* may be acknowledged before it is on record for good.
AcknowledgedIsProcessed == acknowledged \subseteq processed

\* Behind AppliesOnce: two transactions never hold the key of one event, what
\* is about to be committed is not committed yet, and the effect has been run
\* in the transaction that commits it exactly when the event has one.
KeyHeld ==
    \A d \in Deliveries :
       /\ tx[d].at = "commit" =>
             /\ tx[d].event \notin processed
             /\ \A c \in Deliveries :
                   tx[c].at = "commit" /\ tx[c].event = tx[d].event => c = d
       /\ tx[d].at \in {"mark", "commit"} =>
             (tx[d].ran <=> tx[d].event \in Payments)

IInv == TypeOK /\ KeyHeld /\ EffectOnce /\ AcknowledgedIsProcessed

\* The handler implements the atomic idempotency check of docs/adr/0012.
Promise == INSTANCE OncePerEvent
AppliesOnce == Promise!Spec

\* No delivery waits for ever, for the key of its event or otherwise.
DeliveriesEnd ==
    \A d \in Deliveries : tx[d].at # "idle" ~> tx[d].at = "idle"
=============================================================================
