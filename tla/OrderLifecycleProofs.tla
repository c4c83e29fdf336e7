------------------------ MODULE OrderLifecycleProofs ------------------------
(***************************************************************************)
(* For every set of orders, callers and reconciliations: rows and calls    *)
(* stay well formed, reconciliations complete only what was reported       *)
(* delivered to the try they are in, and a cancellation that nothing       *)
(* overlaps is final.                                                      *)
(***************************************************************************)
EXTENDS OrderLifecycle, TLAPS

\* One call changes, to another that the invariant allows.
LEMMA CallStep ==
  ASSUME IInv, NEW p \in Procs, NEW c \in Call,
         call' = [call EXCEPT ![p] = c],
         status' \in [Orders -> Statuses],
         paymentStatus' \in [Orders -> {"UNPAID", "PAID"}],
         UNCHANGED delivered,
         c.at # "idle" => c.order \in Orders,
         p \in Jobs => /\ c.nextStatus = "COMPLETED"
                       /\ c.at \in {"read", "write"} => c.reported
                       /\ c.at = "track" /\ c.order \in delivered => c.reported,
         p \in Callers => c.at # "track"
  PROVE  IInv'
<1> USE DEF IInv
<1>1. /\ call'[p] = c
      /\ \A q \in Procs \ {p} : call'[q] = call[q]
      /\ call' \in [Procs -> Call]
  BY DEF TypeOK
<1>2. TypeOK'
  BY <1>1 DEF TypeOK
<1>3. JobsOnlyComplete'
  BY <1>1 DEF JobsOnlyComplete, Procs
<1>4. JobsTrackFirst'
  BY <1>1 DEF JobsTrackFirst, Procs
<1> QED BY <1>2, <1>3, <1>4

\* A call that returns.
LEMMA ReturnStep ==
  ASSUME IInv, NEW p \in Procs, Return(p),
         status' \in [Orders -> Statuses],
         paymentStatus' \in [Orders -> {"UNPAID", "PAID"}],
         UNCHANGED delivered
  PROVE  IInv'
<1>1. NoCall \in Call /\ NoCall.at = "idle" /\ NoCall.nextStatus = "COMPLETED"
  BY DEF NoCall, Call, Targets
<1> QED BY <1>1, CallStep DEF Return

LEMMA TransitionStep ==
  ASSUME IInv, NEW p \in Procs,
         TransitionRead(p) \/ TransitionWrite(p) \/ Fail(p)
  PROVE  IInv'
<1>1. call[p] \in Call /\ TypeOK
  BY DEF IInv, TypeOK
<1>2. CASE TransitionRead(p) /\ status[call[p].order] # "CANCELLED"
  <2> DEFINE c == [call[p] EXCEPT !.at = "write"]
  <2>1. c \in Call /\ c.at = "write" /\ c.order = call[p].order
        /\ c.nextStatus = call[p].nextStatus /\ c.reported = call[p].reported
    BY <1>1 DEF Call
  <2>2. call' = [call EXCEPT ![p] = c] /\ UNCHANGED <<rowVars, delivered>>
    BY <1>2 DEF TransitionRead
  <2>3. call[p].order \in Orders
    BY <1>1, <1>2 DEF TransitionRead, TypeOK
  <2>4. p \in Jobs => call[p].nextStatus = "COMPLETED" /\ call[p].reported
    BY <1>2 DEF TransitionRead, IInv, JobsTrackFirst, JobsOnlyComplete
  <2> HIDE DEF c
  <2> QED BY <1>1, <2>1, <2>2, <2>3, <2>4, CallStep DEF rowVars, TypeOK
<1>3. CASE TransitionRead(p) /\ status[call[p].order] = "CANCELLED"
  BY <1>1, <1>3, ReturnStep DEF TransitionRead, rowVars, TypeOK
<1>4. CASE TransitionWrite(p)
  <2>1. call[p].nextStatus \in Statuses
    BY <1>1 DEF Call, Statuses
  <2>2. status' \in [Orders -> Statuses]
    BY <1>1, <1>4, <2>1 DEF TransitionWrite, TypeOK
  <2> QED BY <1>1, <1>4, <2>2, ReturnStep DEF TransitionWrite, TypeOK
<1>5. CASE Fail(p)
  BY <1>1, <1>5, ReturnStep DEF Fail, rowVars, TypeOK
<1> QED BY <1>2, <1>3, <1>4, <1>5

LEMMA JobStep ==
  ASSUME IInv, NEW j \in Jobs, Track(j) \/ Conflict(j)
  PROVE  IInv'
<1>1. j \in Procs /\ call[j] \in Call /\ TypeOK /\ j \notin Callers
  BY WriterAssumption DEF IInv, TypeOK, Procs
<1>2. call[j].order \in Orders /\ call[j].nextStatus = "COMPLETED"
  BY DEF Track, Conflict, IInv, TypeOK, JobsOnlyComplete, Procs
<1>3. CASE Track(j) /\ call[j].order \in delivered
  <2> DEFINE c == [call[j] EXCEPT !.at = "read"]
  <2>1. c \in Call /\ c.at = "read" /\ c.order = call[j].order
        /\ c.nextStatus = call[j].nextStatus /\ c.reported = call[j].reported
    BY <1>1 DEF Call
  <2>2. call' = [call EXCEPT ![j] = c] /\ UNCHANGED <<rowVars, delivered>>
    BY <1>3 DEF Track
  <2>3. call[j].reported
    BY <1>3 DEF Track, IInv, JobsOnlyComplete
  <2> HIDE DEF c
  <2> QED BY <1>1, <1>2, <2>1, <2>2, <2>3, CallStep DEF rowVars, TypeOK
<1>4. CASE Conflict(j) /\ ~call[j].isRetry
  <2> DEFINE told == call[j].order \in delivered
             b == [call[j] EXCEPT !.at = "track", !.isRetry = TRUE]
             c == [b EXCEPT !.reported = told]
  <2>1. b \in Call /\ b.at = "track" /\ b.order = call[j].order
        /\ b.nextStatus = call[j].nextStatus
    BY <1>1 DEF Call
  <2>2. /\ c \in Call /\ c.at = "track" /\ c.order = call[j].order
        /\ c.nextStatus = call[j].nextStatus
        /\ c.order \in delivered => c.reported
    <3>1. told \in BOOLEAN
      OBVIOUS
    <3> HIDE DEF b
    <3> QED BY <2>1, <3>1 DEF Call
  <2>3. call' = [call EXCEPT ![j] = c] /\ UNCHANGED <<rowVars, delivered>>
    BY <1>4 DEF Conflict, Again
  <2> HIDE DEF c
  <2> QED BY <1>1, <1>2, <2>2, <2>3, CallStep DEF rowVars, TypeOK
<1>5. CASE Return(j) /\ UNCHANGED <<rowVars, delivered>>
  BY <1>1, <1>5, ReturnStep DEF rowVars, TypeOK
<1> QED BY <1>3, <1>4, <1>5 DEF Track, Conflict

LEMMA BeginStep ==
  ASSUME IInv, NEW p \in Procs, NEW o \in Orders, NEW s \in Targets,
         \/ p \in Callers /\ CallTransition(p, o, s)
         \/ p \in Jobs /\ reconcile(p, o)
  PROVE  IInv'
<1>1. CASE p \in Callers /\ CallTransition(p, o, s)
  <2> DEFINE c == [at |-> "read", order |-> o, nextStatus |-> s, isRetry |-> FALSE,
                   reported |-> FALSE]
  <2>1. c \in Call
    BY DEF Call
  <2> QED BY <1>1, <2>1, CallStep, WriterAssumption
          DEF CallTransition, rowVars, IInv, TypeOK
<1>2. CASE p \in Jobs /\ reconcile(p, o)
  <2> DEFINE told == o \in delivered
             c == [at |-> "track", order |-> o, nextStatus |-> "COMPLETED",
                   isRetry |-> FALSE, reported |-> told]
  <2>0. told \in BOOLEAN
    OBVIOUS
  <2>1. c \in Call
    <3> HIDE DEF told
    <3> QED BY <2>0 DEF Call, Targets
  <2> QED BY <1>2, <2>1, CallStep, WriterAssumption
          DEF reconcile, rowVars, IInv, TypeOK
<1> QED BY <1>1, <1>2

\* What the carrier reports changes what the jobs that are about to ask know.
LEMMA CarrierStep ==
  ASSUME IInv, NEW o \in Orders, Deliver(o) \/ Withdraw(o)
  PROVE  IInv'
<1> USE DEF IInv
<1>1. ASSUME NEW p \in Procs
      PROVE  /\ call'[p] \in Call /\ call'[p].at = call[p].at
             /\ call'[p].order = call[p].order
             /\ call'[p].nextStatus = call[p].nextStatus
             /\ call[p].reported => call'[p].reported
             /\ call[p].at = "track" /\ call[p].order \in delivered' \ delivered
                   => call'[p].reported
  <2>1. call[p] \in Call
    BY DEF TypeOK
  <2>2. CASE Deliver(o) /\ call[p].at = "track" /\ call[p].order = o
    <3>1. call'[p] = [call[p] EXCEPT !.reported = TRUE]
      BY <2>2 DEF Deliver
    <3> QED BY <2>1, <3>1 DEF Call
  <2>3. CASE Deliver(o) /\ ~(call[p].at = "track" /\ call[p].order = o)
    BY <2>1, <2>3 DEF Deliver
  <2>4. CASE Withdraw(o)
    BY <2>1, <2>4 DEF Withdraw
  <2> QED BY <2>2, <2>3, <2>4
<1>2. call' \in [Procs -> Call]
  <2>1. CASE Deliver(o)
    <3> DEFINE new == call'
    <3>1. new = [p \in Procs |-> new[p]]
      BY <2>1 DEF Deliver
    <3>2. \A p \in Procs : new[p] \in Call
      BY <1>1
    <3> HIDE DEF new
    <3>3. new \in [Procs -> Call]
      BY <3>1, <3>2
    <3> QED BY <3>3 DEF new
  <2>2. CASE Withdraw(o)
    BY <2>2 DEF Withdraw, TypeOK
  <2> QED BY <2>1, <2>2
<1>3. UNCHANGED rowVars /\ delivered' \subseteq Orders
  BY DEF Deliver, Withdraw, TypeOK
<1>4. TypeOK'
  BY <1>1, <1>2, <1>3 DEF TypeOK, rowVars
<1>5. JobsOnlyComplete'
  BY <1>1 DEF JobsOnlyComplete, Procs
<1>6. JobsTrackFirst'
  BY <1>1 DEF JobsTrackFirst, Procs
<1> QED BY <1>4, <1>5, <1>6

LEMMA Step == IInv /\ [Next]_vars => IInv'
<1> SUFFICES ASSUME IInv, [Next]_vars PROVE IInv'
  OBVIOUS
<1>1. ASSUME NEW p \in Procs, TransitionRead(p) \/ TransitionWrite(p) \/ Fail(p)
      PROVE  IInv'
  BY <1>1, TransitionStep
<1>2. ASSUME NEW j \in Jobs, Track(j) \/ Conflict(j)
      PROVE  IInv'
  BY <1>2, JobStep
<1>3. ASSUME NEW p \in Callers, NEW o \in Orders, NEW s \in Targets,
             CallTransition(p, o, s)
      PROVE  IInv'
  BY <1>3, BeginStep DEF Procs
<1>4. ASSUME NEW j \in Jobs, NEW o \in Orders, reconcile(j, o)
      PROVE  IInv'
  BY <1>4, BeginStep DEF Procs, Targets
<1>5. ASSUME NEW o \in Orders, handleWebhook(o)
      PROVE  IInv'
  <2>1. TypeOK'
    BY <1>5 DEF handleWebhook, IInv, TypeOK, Statuses, Targets
  <2>2. JobsOnlyComplete' /\ JobsTrackFirst'
    BY <1>5 DEF handleWebhook, IInv, JobsOnlyComplete, JobsTrackFirst
  <2> QED BY <2>1, <2>2 DEF IInv
<1>6. CASE UNCHANGED vars
  BY <1>6 DEF vars, IInv, TypeOK, JobsOnlyComplete, JobsTrackFirst
<1> QED BY <1>1, <1>2, <1>3, <1>4, <1>5, <1>6, CarrierStep DEF Next

\* Every reachable state has the invariant.
THEOREM InvariantHolds == Spec => []IInv
<1>1. Init => IInv
  BY DEF Init, IInv, TypeOK, JobsOnlyComplete, JobsTrackFirst, Statuses, Procs,
         NoCall, Call, Targets
<1> QED BY <1>1, Step, PTL DEF Spec

\* Rows and calls stay well formed.
THEOREM TypeCorrect == Spec => []TypeOK
<1>1. IInv => TypeOK
  BY DEF IInv
<1> QED BY <1>1, InvariantHolds, PTL

\* JobsTrackFirst: a reconciliation completes only what the carrier has reported
\* delivered to the try it is in, the second one included
\* (reconciliation.service.ts:42-52).
THEOREM DeliveredFirst == Spec => []JobsTrackFirst
<1>1. IInv => JobsTrackFirst
  BY DEF IInv
<1> QED BY <1>1, InvariantHolds, PTL

\* A step does not disturb a settled cancellation.
LEMMA SettledStep ==
  ASSUME TypeOK, [Next]_vars, NEW o \in Orders, Settled(o)
  PROVE  Settled(o)'
<1> USE DEF Settled
<1>1. ASSUME NEW p \in Procs, TransitionRead(p)
      PROVE  Settled(o)'
  <2>1. \A q \in Procs \ {p} : call'[q] = call[q]
    BY <1>1 DEF TransitionRead, Return, TypeOK
  <2>2. ~(call'[p].at = "write" /\ call'[p].order = o)
    <3>1. CASE status[call[p].order] = "CANCELLED"
      BY <1>1, <3>1 DEF TransitionRead, Return, TypeOK, NoCall
    <3>2. CASE status[call[p].order] # "CANCELLED"
      <4>1. call[p].order # o
        BY <3>2
      <4> QED BY <1>1, <3>2, <4>1 DEF TransitionRead, TypeOK, Call
    <3> QED BY <3>1, <3>2
  <2> QED BY <1>1, <2>1, <2>2 DEF TransitionRead, rowVars, PastCheck
<1>2. ASSUME NEW p \in Procs, TransitionWrite(p)
      PROVE  Settled(o)'
  <2>1. call[p].order # o
    BY <1>2 DEF TransitionWrite, PastCheck
  <2>2. status'[o] = status[o]
    BY <1>2, <2>1 DEF TransitionWrite, TypeOK
  <2>3. ~PastCheck(o)'
    BY <1>2 DEF TransitionWrite, Return, NoCall, PastCheck, TypeOK
  <2> QED BY <2>2, <2>3
<1>3. ASSUME NEW p \in Procs, Fail(p)
      PROVE  Settled(o)'
  BY <1>3 DEF Fail, Return, NoCall, PastCheck, TypeOK, rowVars
<1>4. ASSUME NEW p \in Procs, NEW a \in Orders, NEW s \in Targets,
             CallTransition(p, a, s) \/ reconcile(p, a)
      PROVE  Settled(o)'
  BY <1>4 DEF CallTransition, reconcile, PastCheck, TypeOK, rowVars
<1>5. ASSUME NEW j \in Procs, Track(j) \/ Conflict(j)
      PROVE  Settled(o)'
  <2>1. call'[j].at # "write" /\ \A q \in Procs \ {j} : call'[q] = call[q]
    BY <1>5 DEF Track, Conflict, Again, Return, NoCall, TypeOK, Call
  <2> QED BY <1>5, <2>1 DEF Track, Conflict, Again, PastCheck, rowVars
<1>6. ASSUME NEW a \in Orders, handleWebhook(a)
      PROVE  Settled(o)'
  BY <1>6 DEF handleWebhook, PastCheck, TypeOK
<1>8. ASSUME NEW a \in Orders, Deliver(a) \/ Withdraw(a)
      PROVE  Settled(o)'
  <2>1. \A p \in Procs : call'[p].at = call[p].at /\ call'[p].order = call[p].order
    BY <1>8 DEF Deliver, Withdraw, TypeOK, Call
  <2> QED BY <1>8, <2>1 DEF Deliver, Withdraw, PastCheck, rowVars
<1>7. CASE UNCHANGED vars
  BY <1>7 DEF vars, PastCheck
<1> QED BY <1>1, <1>2, <1>3, <1>4, <1>5, <1>6, <1>7, <1>8 DEF Next, Procs, Targets

\* A cancellation that no transition overlaps, of an order without a payment
\* callback, is final.
THEOREM CancellationIsFinal == Spec => CancellationSettles
<1>1. TypeOK /\ [Next]_vars => [\A o \in Orders : Settled(o) => Settled(o)']_vars
  BY SettledStep
<1> QED BY <1>1, TypeCorrect, PTL DEF Spec, CancellationSettles
=============================================================================
