-------------------------- MODULE FulfilmentProofs --------------------------
(***************************************************************************)
(* For any number of subscribers, publishers and events: each subscriber   *)
(* is called with exactly the events it is due, in order.                  *)
(***************************************************************************)
EXTENDS Fulfilment, TLAPS

\* The events that wait are the last ones that were published.
QueueIsLast ==
    /\ Len(queue) <= Len(published)
    /\ \A i \in 1..Len(queue) : queue[i] = Len(published) - Len(queue) + i

\* A subscriber has been called with events up to the first that waits.
Due ==
    \A h \in Handlers :
       IF since[h] = None THEN received[h] = <<>>
                          ELSE since[h] <= Len(published) - Len(queue)

IInv == TypeOK /\ QueueIsLast /\ Due /\ DeliveredInOrder

\* What waits, as numbers.
LEMMA Waiting ==
  ASSUME NEW q \in Seq(Nat), NEW N \in Nat, Len(q) <= N,
         \A i \in 1..Len(q) : q[i] = N - Len(q) + i
  PROVE  \A n \in 1..N : n \in Numbers(q) <=> n > N - Len(q)
<1>0. Len(q) \in Nat
  OBVIOUS
<1>1. ASSUME NEW n \in 1..N, n > N - Len(q)
      PROVE  n \in Numbers(q)
  <2>1. n - (N - Len(q)) \in 1..Len(q)
    BY <1>0, <1>1
  <2>2. q[n - (N - Len(q))] = n
    BY <1>0, <2>1
  <2> QED BY <2>1, <2>2 DEF Numbers
<1>2. ASSUME NEW n \in 1..N, n \in Numbers(q)
      PROVE  n > N - Len(q)
  BY <1>2 DEF Numbers
<1> QED BY <1>1, <1>2

LEMMA QueueWaits ==
  ASSUME IInv
  PROVE  \A n \in 1..Len(published) :
            n \in Numbers(queue) <=> n > Len(published) - Len(queue)
<1>1. /\ queue \in Seq(Nat) /\ Len(published) \in Nat
      /\ Len(queue) <= Len(published)
      /\ \A i \in 1..Len(queue) : queue[i] = Len(published) - Len(queue) + i
  BY DEF IInv, TypeOK, QueueIsLast
<1> QED BY <1>1, Waiting

\* Nobody publishes, subscribes or is called.
LEMMA QuietStep ==
  ASSUME IInv, TypeOK', UNCHANGED busVars
  PROVE  IInv'
BY DEF IInv, QueueIsLast, Due, DeliveredInOrder, Numbers, busVars

LEMMA InitEstablishes == Init => IInv
BY EventsAssumption
   DEF Init, IInv, TypeOK, QueueIsLast, Due, DeliveredInOrder, Numbers, NoCall, Call,
       MaxAttempts

\* An event is put off behind those that wait.
LEMMA PublishStep ==
  ASSUME IInv, TypeOK', NEW type \in Types, NEW o \in Orders \cup {None},
         Publish(type, o)
  PROVE  IInv'
<1> DEFINE N == Len(published)
           e == [type |-> type, order |-> o]
<1>0. e \in Event
  BY DEF Event
<1>1. /\ N \in Nat /\ Len(queue) \in Nat
      /\ published' = Append(published, e) /\ Len(published') = N + 1
      /\ published'[N + 1] = e /\ \A n \in 1..N : published'[n] = published[n]
      /\ queue' = Append(queue, N + 1) /\ Len(queue') = Len(queue) + 1
      /\ queue'[Len(queue) + 1] = N + 1
      /\ \A i \in 1..Len(queue) : queue'[i] = queue[i]
      /\ UNCHANGED <<since, received>>
  BY <1>0 DEF Publish, IInv, TypeOK
<1>2. QueueIsLast'
  <2>1. /\ Len(queue) <= N
        /\ \A i \in 1..Len(queue) : queue[i] = N - Len(queue) + i
    BY DEF IInv, QueueIsLast
  <2>2. Len(queue') <= Len(published')
    BY <1>1, <2>1
  <2>3. ASSUME NEW i \in 1..Len(queue')
        PROVE  queue'[i] = Len(published') - Len(queue') + i
    <3> HIDE DEF N
    <3>1. CASE i \in 1..Len(queue)
      BY <1>1, <2>1, <3>1
    <3>2. CASE i = Len(queue) + 1
      BY <1>1, <3>2
    <3> QED BY <1>1, <3>1, <3>2
  <2> QED BY <2>2, <2>3 DEF QueueIsLast
<1>3. Due'
  BY <1>1 DEF IInv, Due
<1>4. Numbers(queue') = Numbers(queue) \cup {N + 1}
  <2>1. Numbers(queue') \subseteq Numbers(queue) \cup {N + 1}
    BY <1>1 DEF Numbers
  <2>2. Numbers(queue) \subseteq Numbers(queue')
    BY <1>1 DEF Numbers
  <2>3. N + 1 \in Numbers(queue')
    BY <1>1 DEF Numbers
  <2> QED BY <2>1, <2>2, <2>3
<1>5. DeliveredInOrder'
  <2> SUFFICES ASSUME NEW h \in Handlers, since[h] # None
               PROVE  Numbers(received[h]) =
                        {n \in 1..N + 1 : /\ n > since[h] /\ n \notin Numbers(queue')
                                          /\ published'[n].type = HandlerType[h]}
    BY <1>1 DEF IInv, DeliveredInOrder
  <2>1. Numbers(received[h]) =
          {n \in 1..N : /\ n > since[h] /\ n \notin Numbers(queue)
                        /\ published[n].type = HandlerType[h]}
    BY DEF IInv, DeliveredInOrder
  <2>2. \A n \in 1..N + 1 : n \in 1..N \/ n = N + 1
    BY <1>1
  <2>3. 1..N \subseteq 1..N + 1 /\ N + 1 \notin 1..N
    BY <1>1
  <2> HIDE DEF N
  <2> QED BY <1>1, <1>4, <2>1, <2>2, <2>3
<1> QED BY <1>2, <1>3, <1>5 DEF IInv

\* The first event that waits goes to its subscribers.
LEMMA TurnStep ==
  ASSUME IInv, TypeOK', Turn
  PROVE  IInv'
<1> DEFINE N == Len(published)
           n == Head(queue)
<1>1. /\ N \in Nat /\ Len(queue) \in Nat \ {0}
      /\ n = queue[1]
      /\ Len(queue') = Len(queue) - 1
      /\ \A i \in 1..Len(queue') : queue'[i] = queue[i + 1]
      /\ UNCHANGED <<published, since>>
  BY DEF Turn, IInv, TypeOK
<1>2. n = N - Len(queue) + 1 /\ n \in 1..N
  BY <1>1 DEF IInv, QueueIsLast
<1>3. QueueIsLast'
  BY <1>1 DEF IInv, QueueIsLast
<1>4. Due'
  <2>1. ASSUME NEW h \in Handlers, since[h] = None PROVE received'[h] = <<>>
    BY <2>1 DEF Turn, Called, IInv, Due
  <2>2. ASSUME NEW h \in Handlers, since[h] # None
        PROVE  since[h] <= N - Len(queue')
    BY <1>1, <2>2 DEF IInv, Due, TypeOK
  <2> QED BY <1>1, <2>1, <2>2 DEF Due
<1>5. \A m \in 1..N : m \in Numbers(queue') <=> m \in Numbers(queue) /\ m # n
  <2>1. \A m \in 1..N : m \in Numbers(queue) <=> m > N - Len(queue)
    BY QueueWaits
  <2>2. \A m \in 1..N : m \in Numbers(queue') <=> m > N - Len(queue')
    <3>1. queue' \in Seq(Nat) /\ published' = published
      BY <1>1 DEF TypeOK
    <3> QED BY <1>1, <1>3, <3>1, Waiting DEF QueueIsLast
  <2> QED BY <1>1, <1>2, <2>1, <2>2
<1>6. DeliveredInOrder'
  <2> SUFFICES ASSUME NEW h \in Handlers, since[h] # None
               PROVE  /\ \A i, j \in 1..Len(received'[h]) :
                            i < j => received'[h][i] < received'[h][j]
                      /\ Numbers(received'[h]) =
                           {m \in 1..N : /\ m > since[h] /\ m \notin Numbers(queue')
                                         /\ published[m].type = HandlerType[h]}
    BY <1>1 DEF DeliveredInOrder
  <2>1. /\ \A i, j \in 1..Len(received[h]) : i < j => received[h][i] < received[h][j]
        /\ Numbers(received[h]) =
             {m \in 1..N : /\ m > since[h] /\ m \notin Numbers(queue)
                           /\ published[m].type = HandlerType[h]}
    BY DEF IInv, DeliveredInOrder
  <2>2. received[h] \in Seq(Nat) /\ n > since[h] /\ n \in Numbers(queue)
    BY <1>1, <1>2, QueueWaits DEF IInv, TypeOK, Due
  <2>3. CASE published[n].type = HandlerType[h]
    <3>1. received'[h] = Append(received[h], n)
      BY <2>3 DEF Turn, Called
    <3>2. /\ Len(received'[h]) = Len(received[h]) + 1 /\ Len(received[h]) \in Nat
          /\ received'[h][Len(received[h]) + 1] = n
          /\ \A i \in 1..Len(received[h]) : received'[h][i] = received[h][i]
      BY <1>2, <2>2, <3>1
    <3>3. \A i \in 1..Len(received[h]) : received[h][i] < n
      <4> SUFFICES ASSUME NEW i \in 1..Len(received[h]) PROVE received[h][i] < n
        OBVIOUS
      <4>1. received[h][i] \in 1..N /\ received[h][i] \notin Numbers(queue)
        BY <2>1 DEF Numbers
      <4> QED BY <1>1, <1>2, <4>1, QueueWaits
    <3>4. Numbers(received'[h]) = Numbers(received[h]) \cup {n}
      <4>1. Numbers(received'[h]) \subseteq Numbers(received[h]) \cup {n}
        BY <3>2 DEF Numbers
      <4>2. Numbers(received[h]) \subseteq Numbers(received'[h])
        BY <3>2 DEF Numbers
      <4>3. n \in Numbers(received'[h])
        BY <3>2 DEF Numbers
      <4> QED BY <4>1, <4>2, <4>3
    <3>5. \A i, j \in 1..Len(received'[h]) : i < j => received'[h][i] < received'[h][j]
      BY <2>1, <3>2, <3>3
    <3> HIDE DEF n, N
    <3> QED BY <1>2, <1>5, <2>1, <2>2, <2>3, <3>4, <3>5
  <2>4. CASE published[n].type # HandlerType[h]
    <3>1. received'[h] = received[h]
      BY <2>4 DEF Turn, Called
    <3> HIDE DEF n, N
    <3> QED BY <1>5, <2>1, <2>4, <3>1
  <2> QED BY <2>3, <2>4
<1> QED BY <1>3, <1>4, <1>6 DEF IInv

\* A listener that is added will be called with what waits.
LEMMA SubscribeStep ==
  ASSUME IInv, TypeOK', NEW h \in Handlers, Subscribe(h)
  PROVE  IInv'
<1> DEFINE N == Len(published)
<1>1. /\ N \in Nat /\ Len(queue) \in Nat /\ Len(queue) <= N
      /\ since' = [since EXCEPT ![h] = N - Len(queue)]
      /\ since'[h] = N - Len(queue)
      /\ \A g \in Handlers \ {h} : since'[g] = since[g]
      /\ UNCHANGED <<published, queue, received>> /\ received[h] = <<>>
  BY DEF Subscribe, IInv, TypeOK, QueueIsLast, Due
<1>2. QueueIsLast' /\ Due'
  BY <1>1 DEF IInv, QueueIsLast, Due
<1>3. Numbers(received[h]) = {}
  BY <1>1 DEF Numbers
<1>4. \A n \in 1..N : n > since'[h] => n \in Numbers(queue)
  BY <1>1, QueueWaits
<1>5. DeliveredInOrder'
  <2>1. \A i, j \in 1..Len(received[h]) : i < j => received[h][i] < received[h][j]
    BY <1>1
  <2>2. {n \in 1..N : /\ n > since'[h] /\ n \notin Numbers(queue)
                      /\ published[n].type = HandlerType[h]} = {}
    BY <1>4
  <2> QED BY <1>1, <1>3, <2>1, <2>2 DEF IInv, DeliveredInOrder
<1> QED BY <1>2, <1>5 DEF IInv

\* The types are kept.
LEMMA TypeStep ==
  ASSUME TypeOK, QueueIsLast, [Next]_vars
  PROVE  TypeOK'
<1> USE DEF TypeOK, busVars
<1>1. ASSUME NEW h \in Handlers, Subscribe(h) PROVE TypeOK'
  BY <1>1 DEF Subscribe, QueueIsLast
<1>2. CASE Turn
  <2>1. queue' \in Seq(Nat) /\ Head(queue) \in Nat
    BY <1>2 DEF Turn
  <2>2. received' \in [Handlers -> Seq(Nat)]
    BY <1>2, <2>1 DEF Turn
  <2> QED BY <1>2, <2>1, <2>2 DEF Turn
<1>3. ASSUME NEW type \in Types, NEW o \in Orders \cup {None}, Publish(type, o)
      PROVE  /\ published' \in Seq(Event) /\ queue' \in Seq(Nat)
             /\ UNCHANGED <<since, received>>
  BY <1>3 DEF Publish, Event
<1>4. ASSUME NEW type \in Types, Happens(type) PROVE TypeOK'
  BY <1>3, <1>4 DEF Happens
<1>5. NoCall \in Call /\ NoCall.at = "idle"
  BY DEF NoCall, Call, MaxAttempts
<1>6. ASSUME NEW c \in Calls, TerminalFailure(c) PROVE TypeOK'
  <2>1. "labelFailed" \in Types /\ call[c].order \in Orders
    BY <1>6 DEF Types, TerminalFailure
  <2> QED BY <1>3, <1>5, <1>6, <2>1 DEF TerminalFailure
<1>7. ASSUME NEW c \in Calls, NEW r \in Call, call' = [call EXCEPT ![c] = r],
             UNCHANGED <<busVars, jobStatuses>>,
             r.at # "idle" => r.order \in Orders /\ r.attempt >= 1,
             r.at = "wait" => r.attempt < MaxAttempts
      PROVE  TypeOK'
  BY <1>7
<1>8. ASSUME NEW c \in Calls, NEW o \in Orders, GenerateLabel(c, o) PROVE TypeOK'
  <2> DEFINE r == [at |-> "ask", order |-> o, attempt |-> 1]
  <2>1. r \in Call /\ r.order \in Orders /\ r.attempt >= 1 /\ r.at = "ask"
    BY DEF Call, MaxAttempts
  <2>2. call' = [call EXCEPT ![c] = r] /\ UNCHANGED <<busVars, jobStatuses>>
    BY <1>8 DEF GenerateLabel
  <2> HIDE DEF r
  <2> QED BY <1>7, <2>1, <2>2
<1>9. ASSUME NEW c \in Calls, LabelCreated(c) PROVE TypeOK'
  BY <1>5, <1>7, <1>9 DEF LabelCreated
<1>10. ASSUME NEW c \in Calls, AttemptFails(c) PROVE TypeOK'
  <2> DEFINE r == [call[c] EXCEPT !.at = "wait"]
  <2>1. call[c] \in Call /\ call[c].at = "ask" /\ call[c].attempt < MaxAttempts
    BY <1>10 DEF AttemptFails
  <2>2. r \in Call /\ r.order = call[c].order /\ r.attempt = call[c].attempt
    BY <2>1 DEF Call
  <2>3. call' = [call EXCEPT ![c] = r] /\ UNCHANGED <<busVars, jobStatuses>>
    BY <1>10 DEF AttemptFails
  <2> HIDE DEF r
  <2> QED BY <1>7, <2>1, <2>2, <2>3
<1>11. ASSUME NEW c \in Calls, BackoffEnds(c) PROVE TypeOK'
  <2> DEFINE n == call[c].attempt + 1
             r == [call[c] EXCEPT !.at = "ask", !.attempt = n]
  <2>1. call[c] \in Call /\ call[c].at = "wait" /\ call[c].attempt < MaxAttempts
    BY <1>11 DEF BackoffEnds
  <2>2. n \in 0..MaxAttempts /\ n >= 1
    BY <2>1 DEF Call, MaxAttempts
  <2>3. call' = [call EXCEPT ![c] = r] /\ UNCHANGED <<busVars, jobStatuses>>
    BY <1>11 DEF BackoffEnds, NextAttempt
  <2> HIDE DEF n
  <2>4. r \in Call /\ r.order = call[c].order /\ r.attempt >= 1 /\ r.at = "ask"
    BY <2>1, <2>2 DEF Call
  <2> HIDE DEF r
  <2> QED BY <1>7, <2>1, <2>3, <2>4
<1>12. CASE Restart
  BY <1>5, <1>12 DEF Restart
<1>13. CASE UNCHANGED vars
  BY <1>13 DEF vars
<1> QED BY <1>1, <1>2, <1>4, <1>6, <1>8, <1>9, <1>10, <1>11, <1>12, <1>13 DEF Next

LEMMA NextKeeps ==
  ASSUME IInv, [Next]_vars
  PROVE  IInv'
<1>1. TypeOK'
  BY TypeStep DEF IInv
<1>2. ASSUME UNCHANGED busVars PROVE IInv'
  BY <1>1, <1>2, QuietStep
<1>3. ASSUME NEW type \in Types, NEW o \in Orders \cup {None}, Publish(type, o)
      PROVE  IInv'
  BY <1>1, <1>3, PublishStep
<1>4. CASE Turn
  BY <1>1, <1>4, TurnStep
<1>5. ASSUME NEW h \in Handlers, Subscribe(h) PROVE IInv'
  BY <1>1, <1>5, SubscribeStep
<1>6. CASE Restart
  <2>1. QueueIsLast' /\ Due' /\ DeliveredInOrder'
    BY <1>1, <1>6 DEF Restart, QueueIsLast, Due, DeliveredInOrder, IInv, TypeOK
  <2> QED BY <1>1, <2>1 DEF IInv
<1>7. "labelFailed" \in Types /\ \A c \in Calls : call[c].order \in Orders \cup {None}
  BY DEF Types, IInv, TypeOK, Call
<1> QED
  BY <1>2, <1>3, <1>4, <1>5, <1>6, <1>7
     DEF Next, vars, Happens, GenerateLabel, LabelCreated, AttemptFails, BackoffEnds,
         TerminalFailure

\* The inductive invariant holds in every reachable state.
THEOREM Invariance == Spec => []IInv
<1>1. IInv /\ [Next]_vars => IInv'
  BY NextKeeps
<1> QED BY <1>1, InitEstablishes, PTL DEF Spec

\* Events, subscribers and label generations keep their types, and no attempt is
\* made beyond the last (label-generation.service.ts:23-38).
THEOREM TypeCorrect == Spec => []TypeOK
<1>1. IInv => TypeOK
  BY DEF IInv
<1> QED BY <1>1, Invariance, PTL

\* For any number of subscribers and events, and any restarts, a subscriber is
\* called with what it is due, once and in order (event-bus.ts:29-61).
THEOREM Delivery == Spec => []DeliveredInOrder
<1>1. IInv => DeliveredInOrder
  BY DEF IInv
<1> QED BY <1>1, Invariance, PTL
=============================================================================
