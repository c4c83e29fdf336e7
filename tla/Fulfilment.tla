----------------------------- MODULE Fulfilment -----------------------------
(***************************************************************************)
(* The in-memory event bus (src/shared/event-bus.ts) and who publishes on  *)
(* it: label generation with its retries                                   *)
(* (fulfillment/services/label-generation.service.ts), the carrier's       *)
(* webhooks (fulfillment/webhooks/carrier.webhook.adapter.ts) and orders   *)
(* that are paid (fulfillment/subscribers/order-paid.subscriber.ts).       *)
(*                                                                         *)
(* publish puts the event off to a later turn of the event loop, in order, *)
(* and returns; the turn calls every subscriber of its type, whose errors  *)
(* go no further.  Queue, subscriptions, job statuses and retries are in   *)
(* memory.  An event is its number, in the order of publication over all   *)
(* lives of the process.  It carries the order whose label failed; what    *)
(* other events carry, and their context, is left out.                     *)
(***************************************************************************)
EXTENDS Naturals, Sequences, FiniteSets

CONSTANTS
    Orders,
    Calls,          \* label generations that may be under way at once
    Handlers,       \* subscriptions that the program makes
    HandlerType,    \* the type of event each subscribes to
    MaxEvents,      \* bound of the events published
    None

Types == {"order.paid", "tracking", "labelFailed"}
Event == [type : Types, order : Orders \cup {None}]
MaxAttempts == 3

ASSUME HandlerAssumption == HandlerType \in [Handlers -> Types]
ASSUME EventsAssumption == MaxEvents \in Nat

VARIABLES
    published,      \* published[n]: event number n
    queue,          \* the numbers of the events put off, in order
    since,          \* since[h]: the last event before those h is called with
    received,       \* received[h]: the events h was called with, in order
    jobStatuses,    \* the orders whose label needs a person
    call            \* call[c]: the progress of label generation c

busVars == <<published, queue, since, received>>
vars == <<busVars, jobStatuses, call>>

Call == [at : {"idle", "ask", "wait"}, order : Orders \cup {None},
         attempt : 0..MaxAttempts]
NoCall == [at |-> "idle", order |-> None, attempt |-> 0]

Init ==
    /\ published = <<>>
    /\ queue = <<>>
    /\ since = [h \in Handlers |-> None]
    /\ received = [h \in Handlers |-> <<>>]
    /\ jobStatuses = {}
    /\ call = [c \in Calls |-> NoCall]

\* Every label generation that is under way may still publish an event.
Room == Len(published) + Cardinality({c \in Calls : call[c].at # "idle"}) < MaxEvents

-----------------------------------------------------------------------------
(* The event bus                                                           *)

\* A listener that is added now is called with the events that wait as well.
Subscribe(h) ==
    /\ since[h] = None
    /\ since' = [since EXCEPT ![h] = Len(published) - Len(queue)]
    /\ UNCHANGED <<published, queue, received, jobStatuses, call>>

Publish(type, o) ==
    /\ published' = Append(published, [type |-> type, order |-> o])
    /\ queue' = Append(queue, Len(published) + 1)
    /\ UNCHANGED <<since, received>>

\* Wrong on purpose, for Called: a subscriber that throws ends the round.
CalledUntilThrow(type) ==
    LET all == {h \in Handlers : since[h] # None /\ HandlerType[h] = type}
    IN  CHOOSE some \in SUBSET all : all = {} \/ some # all

\* emit calls all listeners of the type, each in its own try.
Called(type) == {h \in Handlers : since[h] # None /\ HandlerType[h] = type}

\* The next callback of setImmediate.
Turn ==
    LET n == Head(queue) IN
    /\ queue # <<>>
    /\ queue' = Tail(queue)
    /\ received' = [h \in Handlers |-> IF h \in Called(published[n].type)
                                       THEN Append(received[h], n) ELSE received[h]]
    /\ UNCHANGED <<published, since, jobStatuses, call>>

-----------------------------------------------------------------------------
(* Who publishes                                                           *)

\* An order is paid, or a carrier's webhook has been normalized; one that
\* cannot be throws, before anything is published.
Happens(type) ==
    /\ Room
    /\ type # "labelFailed"
    /\ Publish(type, None)
    /\ UNCHANGED <<jobStatuses, call>>

GenerateLabel(c, o) ==
    /\ call[c].at = "idle"
    /\ Room
    /\ call' = [call EXCEPT ![c] = [at |-> "ask", order |-> o, attempt |-> 1]]
    /\ UNCHANGED <<busVars, jobStatuses>>

\* createLabel returns a label.
LabelCreated(c) ==
    /\ call[c].at = "ask"
    /\ call' = [call EXCEPT ![c] = NoCall]
    /\ UNCHANGED <<busVars, jobStatuses>>

\* It throws, whether or not the carrier has made the label; there is another
\* attempt after a pause.
AttemptFails(c) ==
    /\ call[c].at = "ask" /\ call[c].attempt < MaxAttempts
    /\ call' = [call EXCEPT ![c].at = "wait"]
    /\ UNCHANGED <<busVars, jobStatuses>>

NextAttempt(n) == n + 1

BackoffEnds(c) ==
    /\ call[c].at = "wait"
    /\ call' = [call EXCEPT ![c].at = "ask", ![c].attempt = NextAttempt(@)]
    /\ UNCHANGED <<busVars, jobStatuses>>

\* Wrong on purpose, for TerminalFailure: the job is marked and nobody is told.
TerminalFailureSilent(c) ==
    /\ call[c].at = "ask" /\ call[c].attempt >= MaxAttempts
    /\ jobStatuses' = jobStatuses \cup {call[c].order}
    /\ call' = [call EXCEPT ![c] = NoCall]
    /\ UNCHANGED busVars

\* The last attempt throws: the job is marked, the event published and the
\* error thrown.
TerminalFailure(c) ==
    /\ call[c].at = "ask" /\ call[c].attempt >= MaxAttempts
    /\ jobStatuses' = jobStatuses \cup {call[c].order}
    /\ Publish("labelFailed", call[c].order)
    /\ call' = [call EXCEPT ![c] = NoCall]

\* The process stops and starts again.
Restart ==
    /\ queue' = <<>>
    /\ since' = [h \in Handlers |-> None]
    /\ received' = [h \in Handlers |-> <<>>]
    /\ jobStatuses' = {}
    /\ call' = [c \in Calls |-> NoCall]
    /\ UNCHANGED published

Next ==
    \/ \E h \in Handlers : Subscribe(h)
    \/ Turn
    \/ \E type \in Types : Happens(type)
    \/ \E c \in Calls, o \in Orders : GenerateLabel(c, o)
    \/ \E c \in Calls : LabelCreated(c)
    \/ \E c \in Calls : AttemptFails(c)
    \/ \E c \in Calls : BackoffEnds(c)
    \/ \E c \in Calls : TerminalFailure(c)
    \/ Restart

Spec == Init /\ [][Next]_vars

\* The event loop turns, the timers of the pauses end, and the provider's call
\* is answered or throws.
Fairness ==
    /\ WF_vars(Turn)
    /\ \A c \in Calls :
          /\ WF_vars(BackoffEnds(c))
          /\ WF_vars(LabelCreated(c) \/ AttemptFails(c) \/ TerminalFailure(c))

FairSpec == Spec /\ Fairness

-----------------------------------------------------------------------------
Numbers(s) == {s[i] : i \in 1..Len(s)}

\* Type invariant.
TypeOK ==
    /\ published \in Seq(Event) /\ queue \in Seq(Nat)
    /\ since \in [Handlers -> Nat \cup {None}]
    /\ received \in [Handlers -> Seq(Nat)]
    /\ jobStatuses \subseteq Orders
    /\ call \in [Calls -> Call]
    /\ \A c \in Calls :
          /\ call[c].at # "idle" => call[c].order \in Orders /\ call[c].attempt >= 1
          /\ call[c].at = "wait" => call[c].attempt < MaxAttempts

\* A subscriber is called with every event of its type that was published or
\* waiting since it subscribed and is not waiting any more, with no other, each
\* once and in the order of publication, whatever the other subscribers do with
\* theirs (event-bus.ts:29-61).
DeliveredInOrder ==
    \A h \in Handlers : since[h] # None =>
       /\ \A i, j \in 1..Len(received[h]) : i < j => received[h][i] < received[h][j]
       /\ Numbers(received[h]) =
             {n \in 1..Len(published) : /\ n > since[h] /\ n \notin Numbers(queue)
                                        /\ published[n].type = HandlerType[h]}

\* The failures of o's label that h has to be told of.
Failures(h, o) ==
    {n \in 1..Len(published) : /\ since[h] # None /\ n > since[h]
                               /\ published[n] = [type |-> "labelFailed", order |-> o]}

\* A label generation ends.  One that is at its last attempt either gets its label,
\* and then its order is neither marked nor anybody told of a failure, or the order
\* is marked for a person and who had subscribed is called with the failure of that
\* order (once, DeliveredInOrder says); and so every event gets to its subscribers,
\* unless the process stops before (label-generation.service.ts:22-49,
\* event-bus.ts:57-59).
FailuresAreTold ==
    /\ \A c \in Calls : call[c].at # "idle" ~> call[c].at = "idle"
    /\ \A c \in Calls, o \in Orders, h \in Handlers :
          (/\ call[c].at = "ask" /\ call[c].attempt = MaxAttempts /\ call[c].order = o
           /\ o \notin jobStatuses
           /\ since[h] # None /\ HandlerType[h] = "labelFailed")
            ~> (\/ call[c].at = "idle" /\ o \notin jobStatuses /\ Failures(h, o) = {}
                \/ o \in jobStatuses /\ Failures(h, o) \cap Numbers(received[h]) # {}
                \/ since[h] = None)
    /\ \A h \in Handlers, n \in 1..MaxEvents :
          (n \in Numbers(queue) /\ since[h] # None /\ since[h] < n
              /\ published[n].type = HandlerType[h])
            ~> (n \in Numbers(received[h]) \/ since[h] = None)
=============================================================================
