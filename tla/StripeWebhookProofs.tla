------------------------- MODULE StripeWebhookProofs -------------------------
(***************************************************************************)
(* For every set of events and any number of overlapping deliveries: the   *)
(* invariant of StripeWebhook is inductive, and the handler implements     *)
(* OncePerEvent.                                                           *)
(***************************************************************************)
EXTENDS StripeWebhook, TLAPS

\* A transaction ends and nothing else changes.
LEMMA CloseStep ==
  ASSUME IInv, NEW d \in Deliveries, Close(d), UNCHANGED dbVars,
         acknowledged' \subseteq processed
  PROVE  IInv'
<1> USE DEF IInv, dbVars
<1>1. /\ tx'[d] = NoTransaction
      /\ \A c \in Deliveries \ {d} : tx'[c] = tx[c]
      /\ tx' \in [Deliveries -> Transaction]
  BY DEF Close, TypeOK, Transaction, NoTransaction
<1>2. TypeOK'
  BY <1>1 DEF TypeOK, NoTransaction
<1>3. KeyHeld'
  BY <1>1 DEF KeyHeld, NoTransaction
<1> QED BY <1>2, <1>3 DEF EffectOnce, AcknowledgedIsProcessed

\* A transaction moves on, within what the invariant says of it, and the
\* database does not change.
LEMMA MoveStep ==
  ASSUME IInv, NEW d \in Deliveries, NEW t \in Transaction,
         tx' = [tx EXCEPT ![d] = t], UNCHANGED <<dbVars, acknowledged>>,
         t.event \in Events,
         t.at = "commit" => t.event \notin processed /\ ~KeyTaken(t.event),
         t.at \in {"mark", "commit"} => (t.ran <=> t.event \in Payments)
  PROVE  IInv'
<1> USE DEF IInv, dbVars
<1>1. /\ tx'[d] = t
      /\ \A c \in Deliveries \ {d} : tx'[c] = tx[c]
      /\ tx' \in [Deliveries -> Transaction]
  BY DEF TypeOK
<1>2. TypeOK'
  BY <1>1 DEF TypeOK
<1>3. KeyHeld'
  BY <1>1 DEF KeyHeld, KeyTaken
<1> QED BY <1>2, <1>3 DEF EffectOnce, AcknowledgedIsProcessed

LEMMA CommitStep ==
  ASSUME IInv, NEW d \in Deliveries, Commit(d)
  PROVE  IInv' /\ Promise!Apply(tx[d].event)
<1> USE DEF IInv
<1> DEFINE e == tx[d].event
<1>1. e \in Events /\ e \notin processed /\ (tx[d].ran <=> e \in Payments)
  BY DEF Commit, TypeOK, KeyHeld
<1>2. /\ tx'[d] = NoTransaction
      /\ \A c \in Deliveries \ {d} : tx'[c] = tx[c]
      /\ tx' \in [Deliveries -> Transaction]
  BY DEF Commit, Close, TypeOK, Transaction, NoTransaction
<1>3. /\ processed' = processed \cup {e}
      /\ acknowledged' = acknowledged \cup {e}
      /\ effects' = IF e \in Payments THEN [effects EXCEPT ![e] = @ + 1] ELSE effects
  BY <1>1 DEF Commit
<1>4. TypeOK'
  <2>1. effects' \in [Events -> Nat]
    BY <1>1, <1>3 DEF TypeOK
  <2> QED BY <1>1, <1>2, <1>3, <2>1 DEF TypeOK, NoTransaction
<1>5. KeyHeld'
  BY <1>2, <1>3 DEF KeyHeld, NoTransaction, Commit
<1>6. EffectOnce'
  BY <1>1, <1>3 DEF EffectOnce, TypeOK
<1>7. AcknowledgedIsProcessed'
  BY <1>3 DEF AcknowledgedIsProcessed
<1>8. Promise!Apply(e)
  BY <1>1, <1>3 DEF Promise!Apply
<1> QED BY <1>4, <1>5, <1>6, <1>7, <1>8

\* Every step keeps the invariant, and is a step of the promise or a stutter.
LEMMA Step ==
  ASSUME IInv, [Next]_vars
  PROVE  IInv' /\ [Promise!Next]_(Promise!vars)
<1> USE DEF Promise!vars
<1>1. ASSUME NEW d \in Deliveries, NEW e \in Events, Deliver(d, e)
      PROVE  IInv' /\ UNCHANGED Promise!vars
  <2> DEFINE t == [at |-> "check", event |-> e, ran |-> FALSE]
  <2>1. t \in Transaction
    BY DEF Transaction
  <2> QED BY <1>1, <2>1, MoveStep DEF Deliver, dbVars
<1>2. ASSUME NEW d \in Deliveries, Skip(d)
      PROVE  IInv' /\ Promise!Next
  <2>1. tx[d].event \in Events
    BY <1>2 DEF Skip, IInv, TypeOK
  <2>2. IInv'
    BY <1>2, CloseStep DEF Skip, IInv, AcknowledgedIsProcessed
  <2>3. Promise!Repeat(tx[d].event)
    BY <1>2 DEF Skip, dbVars, Promise!Repeat
  <2> QED BY <2>1, <2>2, <2>3 DEF Promise!Next
<1>3. ASSUME NEW d \in Deliveries, Accept(d) \/ ProcessPayment(d) \/ Mark(d)
      PROVE  IInv' /\ UNCHANGED Promise!vars
  <2>1. tx[d] \in Transaction /\ tx[d].event \in Events
    BY <1>3 DEF Accept, ProcessPayment, Mark, IInv, TypeOK
  <2>2. CASE Accept(d)
    <3> DEFINE t == [tx[d] EXCEPT !.at = "effect"]
    <3>1. t \in Transaction /\ t.event = tx[d].event /\ t.at = "effect"
      BY <2>1 DEF Transaction
    <3>2. tx' = [tx EXCEPT ![d] = t]
      BY <2>2 DEF Accept
    <3> QED BY <2>1, <2>2, <3>1, <3>2, MoveStep DEF Accept, dbVars
  <2>3. CASE ProcessPayment(d)
    <3> DEFINE ran == tx[d].event \in Payments
               t == [tx[d] EXCEPT !.at = "mark", !.ran = ran]
    <3>0. ran \in BOOLEAN
      OBVIOUS
    <3>1. t \in Transaction /\ t.event = tx[d].event /\ t.at = "mark"
          /\ (t.ran <=> t.event \in Payments)
      <4>1. t \in Transaction /\ t.event = tx[d].event /\ t.at = "mark" /\ t.ran = ran
        <5> HIDE DEF ran
        <5> QED BY <2>1, <3>0 DEF Transaction
      <4> HIDE DEF t
      <4> QED BY <4>1
    <3>2. tx' = [tx EXCEPT ![d] = t]
      BY <2>3 DEF ProcessPayment
    <3> QED BY <2>1, <2>3, <3>1, <3>2, MoveStep DEF ProcessPayment, dbVars
  <2>4. CASE Mark(d)
    <3> DEFINE t == [tx[d] EXCEPT !.at = "commit"]
    <3>1. t \in Transaction /\ t.event = tx[d].event /\ t.ran = tx[d].ran
          /\ t.at = "commit"
      BY <2>1 DEF Transaction
    <3>2. tx' = [tx EXCEPT ![d] = t]
      BY <2>4 DEF Mark
    <3>3. tx[d].ran <=> tx[d].event \in Payments
      BY <2>4 DEF Mark, IInv, KeyHeld
    <3> QED BY <2>1, <2>4, <3>1, <3>2, <3>3, MoveStep DEF Mark, dbVars
  <2> QED BY <1>3, <2>2, <2>3, <2>4
<1>4. ASSUME NEW d \in Deliveries, Duplicate(d) \/ Rollback(d)
      PROVE  IInv' /\ UNCHANGED Promise!vars
  BY <1>4, CloseStep DEF Duplicate, Rollback, dbVars, IInv, AcknowledgedIsProcessed
<1>5. ASSUME NEW d \in Deliveries, Commit(d)
      PROVE  IInv' /\ Promise!Next
  <2>1. tx[d].event \in Events
    BY <1>5 DEF Commit, IInv, TypeOK
  <2> QED BY <1>5, <2>1, CommitStep DEF Promise!Next
<1>6. CASE UNCHANGED vars
  BY <1>6 DEF vars, IInv, TypeOK, KeyHeld, EffectOnce, AcknowledgedIsProcessed
<1> QED BY <1>1, <1>2, <1>3, <1>4, <1>5, <1>6 DEF Next

LEMMA Initially == Init => IInv /\ Promise!Init
<1> SUFFICES ASSUME Init PROVE IInv /\ Promise!Init
  OBVIOUS
<1>1. TypeOK
  BY DEF Init, TypeOK, Transaction, NoTransaction
<1>2. KeyHeld /\ EffectOnce /\ AcknowledgedIsProcessed
  BY DEF Init, KeyHeld, EffectOnce, AcknowledgedIsProcessed, NoTransaction
<1>3. Promise!Init
  BY DEF Init, Promise!Init
<1> QED BY <1>1, <1>2, <1>3 DEF IInv

\* Every reachable state has the invariant.
THEOREM InvariantHolds == Spec => []IInv
<1>1. Init => IInv
  BY Initially
<1>2. IInv /\ [Next]_vars => IInv'
  BY Step
<1> QED BY <1>1, <1>2, PTL DEF Spec

\* Rows and transactions stay well formed.
THEOREM TypeCorrect == Spec => []TypeOK
<1>1. IInv => TypeOK
  BY DEF IInv
<1> QED BY <1>1, InvariantHolds, PTL

\* An order is paid once however its event is delivered.
THEOREM PaidOnce == Spec => []EffectOnce
<1>1. IInv => EffectOnce
  BY DEF IInv
<1> QED BY <1>1, InvariantHolds, PTL

\* The handler keeps the promise of OncePerEvent: its transactions appear to
\* their sender as single steps that check and apply an event.
THEOREM ImplementsPromise == Spec => AppliesOnce
<1>1. Init => Promise!Init
  BY Initially
<1>2. IInv /\ [Next]_vars => [Promise!Next]_(Promise!vars)
  BY Step
<1> QED BY <1>1, <1>2, InvariantHolds, PTL DEF Spec, AppliesOnce, Promise!Spec
=============================================================================
