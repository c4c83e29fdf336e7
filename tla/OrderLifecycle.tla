--------------------------- MODULE OrderLifecycle ---------------------------
(***************************************************************************)
(* What happens to an order row once it exists.  Three writers share its   *)
(* status and none of them locks it:                                       *)
(*   - OrderStateService.transition (orders/order.state.service.ts), which *)
(*     reads the row, refuses a cancelled order, and then writes;          *)
(*   - PaymentsService.handleWebhook (payments/payments.service.ts), one   *)
(*     UPDATE with no check at all;                                        *)
(*   - ReconciliationService (fulfillment/services/                        *)
(*     reconciliation.service.ts), which asks the carrier and drives       *)
(*     transition, retrying once on an optimistic lock conflict.           *)
(*                                                                         *)
(* The row is written only with the four statuses of transition's type.    *)
(* Nothing in the repository throws OptimisticLockException: it is what    *)
(* the state service injected into ReconciliationService may do, as its    *)
(* test does.                                                              *)
(***************************************************************************)
CONSTANTS
    Orders,
    Callers,    \* whoever calls transition to advance or cancel an order
    Jobs,       \* reconciliations that run at the same time
    Paying,     \* the orders for which the payment gateway calls back
    None

ASSUME WriterAssumption == Callers \cap Jobs = {}
ASSUME OrderAssumption == Paying \subseteq Orders /\ None \notin Orders

Procs == Callers \cup Jobs

Targets == {"PAID", "SHIPPED", "COMPLETED", "CANCELLED"}
Statuses == {"PENDING"} \cup Targets

VARIABLES
    status,         \* Order.status
    paymentStatus,  \* Order.paymentStatus
    delivered,      \* the orders whose parcel the carrier reports delivered
    call            \* call[p]: the transition or reconciliation p is in

vars == <<status, paymentStatus, delivered, call>>
rowVars == <<status, paymentStatus>>

\* Only a job tracks; isRetry is its second try.  reported is a history that
\* no step depends on: the carrier has reported the parcel delivered at some
\* time since the try of the job began.
Call == [at : {"idle", "track", "read", "write"}, order : Orders \cup {None},
         nextStatus : Targets, isRetry : BOOLEAN, reported : BOOLEAN]

NoCall == [at |-> "idle", order |-> None, nextStatus |-> "COMPLETED",
           isRetry |-> FALSE, reported |-> FALSE]

Init ==
    /\ status = [o \in Orders |-> "PENDING"]
    /\ paymentStatus = [o \in Orders |-> "UNPAID"]
    /\ delivered = {}
    /\ call = [p \in Procs |-> NoCall]

Return(p) == call' = [call EXCEPT ![p] = NoCall]

-----------------------------------------------------------------------------
(* OrderStateService.transition                                            *)

CallTransition(p, o, nextStatus) ==
    /\ call[p].at = "idle"
    /\ call' = [call EXCEPT ![p] = [at |-> "read", order |-> o,
                                    nextStatus |-> nextStatus,
                                    isRetry |-> FALSE, reported |-> FALSE]]
    /\ UNCHANGED <<rowVars, delivered>>

\* Wrong on purpose, for TransitionRead: a cancelled order is not refused.
TransitionReadOnly(p) ==
    /\ call[p].at = "read"
    /\ call' = [call EXCEPT ![p].at = "write"]
    /\ UNCHANGED <<rowVars, delivered>>

\* The row is read and a cancelled order refused: the caller gets the error,
\* and so does a reconciliation, which only catches conflicts.
TransitionRead(p) ==
    /\ call[p].at = "read"
    /\ IF status[call[p].order] = "CANCELLED"
       THEN Return(p)
       ELSE call' = [call EXCEPT ![p].at = "write"]
    /\ UNCHANGED <<rowVars, delivered>>

\* The update names the order alone: what was read is not part of its WHERE.
TransitionWrite(p) ==
    /\ call[p].at = "write"
    /\ status' = [status EXCEPT ![call[p].order] = call[p].nextStatus]
    /\ Return(p)
    /\ UNCHANGED <<paymentStatus, delivered>>

-----------------------------------------------------------------------------
(* ReconciliationService                                                   *)

reconcile(j, o) ==
    /\ call[j].at = "idle"
    /\ call' = [call EXCEPT ![j] = [at |-> "track", order |-> o,
                                    nextStatus |-> "COMPLETED",
                                    isRetry |-> FALSE,
                                    reported |-> o \in delivered]]
    /\ UNCHANGED <<rowVars, delivered>>

\* getTrackingInfo: an order that is not delivered is left alone.
Track(j) ==
    /\ call[j].at = "track"
    /\ IF call[j].order \in delivered
       THEN call' = [call EXCEPT ![j].at = "read"]
       ELSE Return(j)
    /\ UNCHANGED <<rowVars, delivered>>

\* A further try on the same order.
Again(j, at, isRetry) ==
    call' = [call EXCEPT ![j].at = at, ![j].isRetry = isRetry,
                         ![j].reported = (call[j].order \in delivered)]

\* Wrong on purpose, for Conflict: the second try does not know it is one.
ConflictRetriesAlways(j) ==
    /\ call[j].at = "write"
    /\ Again(j, "track", FALSE)
    /\ UNCHANGED <<rowVars, delivered>>

\* Wrong on purpose, for Conflict: only the transition is tried again.
ConflictRetriesUntracked(j) ==
    /\ call[j].at = "write"
    /\ IF call[j].isRetry THEN Return(j) ELSE Again(j, "read", TRUE)
    /\ UNCHANGED <<rowVars, delivered>>

\* transition throws OptimisticLockException.  getCurrentOrderState always
\* answers SHIPPED, so the first conflict starts over; the second is thrown.
Conflict(j) ==
    /\ call[j].at = "write"
    /\ IF call[j].isRetry THEN Return(j) ELSE Again(j, "track", TRUE)
    /\ UNCHANGED <<rowVars, delivered>>

\* Any other error of the database or of the carrier ends the call.
Fail(p) ==
    /\ call[p].at # "idle"
    /\ Return(p)
    /\ UNCHANGED <<rowVars, delivered>>

-----------------------------------------------------------------------------
\* Wrong on purpose, for handleWebhook: the gateway's status is stored.
WebhookStoresSuccess(o) ==
    /\ o \in Paying
    /\ status' = [status EXCEPT ![o] = "SUCCESS"]
    /\ paymentStatus' = [paymentStatus EXCEPT ![o] = "PAID"]
    /\ UNCHANGED <<delivered, call>>

\* PaymentsService.handleWebhook with SUCCESS: early, late or again.
handleWebhook(o) ==
    /\ o \in Paying
    /\ status' = [status EXCEPT ![o] = "PAID"]
    /\ paymentStatus' = [paymentStatus EXCEPT ![o] = "PAID"]
    /\ UNCHANGED <<delivered, call>>

\* The carrier, an environment: what was shipped arrives, and a report that was
\* wrong is taken back.
Deliver(o) ==
    /\ status[o] = "SHIPPED"
    /\ delivered' = delivered \cup {o}
    /\ call' = [p \in Procs |-> IF call[p].at = "track" /\ call[p].order = o
                                THEN [call[p] EXCEPT !.reported = TRUE]
                                ELSE call[p]]
    /\ UNCHANGED rowVars

Withdraw(o) ==
    /\ o \in delivered
    /\ delivered' = delivered \ {o}
    /\ UNCHANGED <<rowVars, call>>

Next ==
    \/ \E p \in Callers, o \in Orders, s \in Targets : CallTransition(p, o, s)
    \/ \E p \in Procs : TransitionRead(p)
    \/ \E p \in Procs : TransitionWrite(p)
    \/ \E p \in Procs : Fail(p)
    \/ \E j \in Jobs, o \in Orders : reconcile(j, o)
    \/ \E j \in Jobs : Track(j)
    \/ \E j \in Jobs : Conflict(j)
    \/ \E o \in Orders : handleWebhook(o)
    \/ \E o \in Orders : Deliver(o)
    \/ \E o \in Orders : Withdraw(o)

Spec == Init /\ [][Next]_vars

\* Every awaited call of a carrier or of the database is answered, somehow.
Fairness ==
    \A j \in Jobs : WF_vars(\/ Track(j) \/ TransitionRead(j)
                            \/ TransitionWrite(j) \/ Conflict(j) \/ Fail(j))

FairSpec == Spec /\ Fairness

-----------------------------------------------------------------------------
\* Type invariant: rows and calls are well formed, and a call under way has an
\* order.
TypeOK ==
    /\ status \in [Orders -> Statuses]
    /\ paymentStatus \in [Orders -> {"UNPAID", "PAID"}]
    /\ delivered \subseteq Orders
    /\ call \in [Procs -> Call]
    /\ \A p \in Procs : call[p].at # "idle" => call[p].order \in Orders

\* PastCheck(o): some transition has read o, found it not cancelled, and is
\* still to write it.
PastCheck(o) ==
    \E p \in Procs : call[p].at = "write" /\ call[p].order = o

\* Settled(o): o is cancelled and nothing that began before can undo it.
Settled(o) ==
    status[o] = "CANCELLED" /\ o \notin Paying /\ ~PastCheck(o)

\* The check of order.state.service.ts:11 does protect a cancellation from
\* every transition that begins after it: once the transitions that overlapped
\* the cancellation are over, the order stays cancelled for good, whatever the
\* callers and the reconciliation still attempt.
CancellationSettles ==
    [][\A o \in Orders : Settled(o) => Settled(o)']_vars

\* A reconciliation that goes on to complete an order was told by the carrier,
\* in the try it is in, that the parcel is delivered: a second try after a
\* conflict does not rest on the answer to the first, which may have been taken
\* back meanwhile (reconciliation.service.ts:42-52).
JobsTrackFirst ==
    \A j \in Jobs : call[j].at \in {"read", "write"} => call[j].reported

\* Behind these: a job never asks for anything but completion, only a job
\* tracks, and what the carrier reports while a job is about to ask counts.
JobsOnlyComplete ==
    /\ \A j \in Jobs : call[j].nextStatus = "COMPLETED"
    /\ \A p \in Callers : call[p].at # "track"
    /\ \A j \in Jobs : call[j].at = "track" /\ call[j].order \in delivered
                         => call[j].reported

IInv == TypeOK /\ JobsOnlyComplete /\ JobsTrackFirst

\* A reconciliation ends even when every try meets a conflict: the second one
\* is not retried (reconciliation.service.ts:48).
ReconcileEnds ==
    \A j \in Jobs : call[j].at # "idle" ~> call[j].at = "idle"
=============================================================================
