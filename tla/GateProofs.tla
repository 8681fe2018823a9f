------------------------------ MODULE GateProofs ------------------------------
(* Theorems about the two gates of a step: about HitlApproval, for any     *)
(* steps, attempts and desktops, and about PaymentGateway, for any steps,  *)
(* attempts and callbacks. *)
EXTENDS HitlApproval, PaymentGateway, TLAPS

-----------------------------------------------------------------------------
(* A request, and the set of those that are open, once more.               *)
LEMMA RequestType ==
  ASSUME TypeOK, NEW g \in Gated, Waiting(g)
  PROVE  attempt[g] # 0 => Request(g) \in Requests
BY HitlAssumption DEF TypeOK, Request, Requests

(* A step that waits has begun an attempt. *)
Begun == \A g \in Gated : Waiting(g) => attempt[g] # 0

LEMMA OpenType == ASSUME TypeOK, Begun PROVE Open \subseteq Requests
<1>. SUFFICES ASSUME NEW g \in Gated, pc[g] \in {"store", "poll"} PROVE Request(g) \in Requests
  BY DEF Open
<1>. QED
  BY RequestType DEF Begun, Waiting

THEOREM TypeCorrect == Spec => [](TypeOK /\ Begun)
<1>. USE HitlAssumption
<1>1. Init => TypeOK /\ Begun
  BY DEF Init, TypeOK, Begun, Waiting
<1>2. TypeOK /\ Begun /\ [Next]_vars => TypeOK' /\ Begun'
  <2>. SUFFICES ASSUME TypeOK, Begun, [Next]_vars PROVE TypeOK' /\ Begun'
    OBVIOUS
  <2>. USE DEF steps, desks
  <2>1. ASSUME NEW g \in Gated, Ask(g) PROVE TypeOK' /\ Begun'
    BY <2>1 DEF TypeOK, Begun, Waiting, Ask
  <2>2. ASSUME NEW g \in Gated, StorePending(g) PROVE TypeOK' /\ Begun'
    <3>1. Request(g) \in Requests
      BY <2>2, RequestType DEF StorePending, Begun, Waiting
    <3>. QED
      BY <2>2, <3>1 DEF TypeOK, Begun, Waiting, StorePending
  <2>3. ASSUME NEW g \in Gated, Take(g) PROVE TypeOK' /\ Begun'
    BY <2>3 DEF TypeOK, Begun, Waiting, Take
  <2>4. ASSUME NEW g \in Gated, Consume(g) PROVE TypeOK' /\ Begun'
    BY <2>4 DEF TypeOK, Begun, Waiting, Consume
  <2>5. ASSUME NEW g \in Gated, Timeout(g) PROVE TypeOK' /\ Begun'
    BY <2>5 DEF TypeOK, Begun, Waiting, Timeout
  <2>6. ASSUME NEW g \in Gated, Return(g) PROVE TypeOK' /\ Begun'
    <3>2. pc' \in [Gated -> {"idle", "store", "poll", "consume", "clean", "acted", "done"}]
      BY <2>6 DEF TypeOK, Return
    <3>3. Begun'
      BY <2>6 DEF TypeOK, Begun, Waiting, Return
    <3>. QED
      BY <2>6, <3>2, <3>3 DEF TypeOK, Return
  <2>12. ASSUME NEW g \in Gated, Finish(g) \/ RaiseAfterApproval(g) PROVE TypeOK' /\ Begun'
    BY <2>12 DEF TypeOK, Begun, Waiting, Finish, RaiseAfterApproval
  <2>7. CASE Die
    <3>1. {Request(g) : g \in {h \in Gated : Waiting(h)}} \subseteq Requests
      BY RequestType DEF Begun
    <3>2. pc' \in [Gated -> {"idle", "store", "poll", "consume", "clean", "acted", "done"}]
      BY <2>7 DEF TypeOK, InProgress, Die
    <3>3. Begun'
      BY <2>7 DEF Begun, Waiting, InProgress, Die
    <3>. QED
      BY <2>7, <3>1, <3>2, <3>3 DEF TypeOK, Die
  <2>8. ASSUME NEW v \in Desks, NEW c \in {"approve", "reject"}, Show(v) \/ Click(v, c) \/ Validate(v)
        PROVE  TypeOK' /\ Begun'
    <3>1. CASE Show(v)
      BY <3>1 DEF TypeOK, Begun, Waiting, Show
    <3>2. CASE Click(v, c)
      BY <3>2 DEF TypeOK, Begun, Waiting, Click
    <3>3. CASE Validate(v)
      BY <3>3 DEF TypeOK, Begun, Waiting, Validate
    <3>. QED
      BY <2>8, <3>1, <3>2, <3>3
  <2>9. ASSUME NEW v \in Desks, WriteDecision(v) PROVE TypeOK' /\ Begun'
    <3>1. decision' \in Decision
      BY <2>9, OpenType DEF TypeOK, WriteDecision, Decision
    <3>. QED
      BY <2>9, <3>1 DEF TypeOK, Begun, Waiting, WriteDecision
  <2>10. ASSUME NEW d \in {"approve", "reject", "timeout"}, ResolveDirectly(d)
         PROVE  TypeOK' /\ Begun'
    <3>1. decision' \in Decision
      BY <2>10, OpenType DEF TypeOK, ResolveDirectly, Decision
    <3>. QED
      BY <2>10, <3>1 DEF TypeOK, Begun, Waiting, ResolveDirectly
  <2>11. CASE ExpireDecision \/ ExpirePending \/ UNCHANGED vars
    BY <2>11 DEF TypeOK, Begun, Waiting, ExpireDecision, ExpirePending, vars
  <2>. QED
    BY <2>1, <2>2, <2>3, <2>4, <2>5, <2>6, <2>7, <2>8, <2>9, <2>10, <2>11, <2>12
    DEF Next, StepOf, DeskOf
<1>. QED
  BY <1>1, <1>2, PTL DEF Spec

-----------------------------------------------------------------------------
(* What makes DecidedAfterAsked inductive: a decision in Redis was written *)
(* while every request that may still take it was open.                    *)
DecisionFresh ==
  decision # None => \A g \in Gated : pc[g] \in {"store", "poll"} => Request(g) \in decision.during

(* No supervisor's click, early, late or on an old card, answers a request *)
(* asked after it was written. *)
THEOREM FreshDecisions == Spec => []DecidedAfterAsked
<1>1. Init => DecisionFresh /\ DecidedAfterAsked
  BY DEF Init, DecisionFresh, DecidedAfterAsked
<1>2. TypeOK /\ DecisionFresh /\ DecidedAfterAsked /\ [Next]_vars
      => DecisionFresh' /\ DecidedAfterAsked'
  <2>. SUFFICES ASSUME TypeOK, DecisionFresh, DecidedAfterAsked, [Next]_vars
                PROVE  DecisionFresh' /\ DecidedAfterAsked'
    OBVIOUS
  <2>. USE DEF TypeOK, DecisionFresh, DecidedAfterAsked, Request, steps, desks
  <2>1. ASSUME NEW g \in Gated, Ask(g) PROVE DecisionFresh' /\ DecidedAfterAsked'
    BY <2>1 DEF Ask
  <2>2. ASSUME NEW g \in Gated, StorePending(g) PROVE DecisionFresh' /\ DecidedAfterAsked'
    BY <2>2 DEF StorePending
  <2>3. ASSUME NEW g \in Gated, Take(g) PROVE DecisionFresh' /\ DecidedAfterAsked'
    BY <2>3 DEF Take
  <2>4. ASSUME NEW g \in Gated, Consume(g) PROVE DecisionFresh' /\ DecidedAfterAsked'
    BY <2>4 DEF Consume
  <2>5. ASSUME NEW g \in Gated, Timeout(g) \/ Return(g) \/ Finish(g) \/ RaiseAfterApproval(g)
        PROVE  DecisionFresh' /\ DecidedAfterAsked'
    BY <2>5 DEF Timeout, Return, Finish, RaiseAfterApproval
  <2>6. CASE Die
    <3>1. \A g \in Gated : pc'[g] \in {"store", "poll"} => pc[g] \in {"store", "poll"}
      BY <2>6 DEF Die
    <3>. QED
      BY <2>6, <3>1 DEF Die
  <2>7. ASSUME UNCHANGED <<pc, attempt, taken>>,
               decision' # None => decision' = decision \/ decision'.during = Open
        PROVE  DecisionFresh' /\ DecidedAfterAsked'
    BY <2>7 DEF Open
  <2>8. ASSUME NEW v \in Desks, DeskOf(v) PROVE DecisionFresh' /\ DecidedAfterAsked'
    <3>1. CASE WriteDecision(v)
      BY <3>1, <2>7 DEF WriteDecision
    <3>2. CASE ~WriteDecision(v)
      <4>1. UNCHANGED <<decision, pc, attempt, taken>>
        BY <2>8, <3>2 DEF DeskOf, Show, Click, Validate
      <4>. QED
        BY <4>1, <2>7
    <3>. QED
      BY <3>1, <3>2
  <2>9. ASSUME NEW d \in {"approve", "reject", "timeout"}, ResolveDirectly(d)
        PROVE  DecisionFresh' /\ DecidedAfterAsked'
    BY <2>9, <2>7 DEF ResolveDirectly
  <2>10. CASE ExpireDecision \/ ExpirePending \/ UNCHANGED vars
    BY <2>10, <2>7 DEF ExpireDecision, ExpirePending, vars
  <2>. QED
    BY <2>1, <2>2, <2>3, <2>4, <2>5, <2>6, <2>8, <2>9, <2>10 DEF Next, StepOf
<1>. QED
  BY <1>1, <1>2, TypeCorrect, PTL DEF Spec

-----------------------------------------------------------------------------
(* Nothing that was answered stays on the supervisors' list.               *)
THEOREM ListIsCurrent == Spec => []ListedIsWaiting
<1>1. Init => ListedIsWaiting
  BY DEF Init, ListedIsWaiting
<1>2. TypeOK /\ ListedIsWaiting /\ [Next]_vars => ListedIsWaiting'
  <2>. SUFFICES ASSUME TypeOK, ListedIsWaiting, [Next]_vars PROVE ListedIsWaiting'
    OBVIOUS
  <2>. USE DEF TypeOK, ListedIsWaiting, Request, Requests, steps, desks
  <2>1. ASSUME NEW g \in Gated, Ask(g) PROVE ListedIsWaiting'
    BY <2>1 DEF Ask
  <2>2. ASSUME NEW g \in Gated, StorePending(g) PROVE ListedIsWaiting'
    BY <2>2 DEF StorePending
  <2>3. ASSUME NEW g \in Gated, Take(g) \/ Consume(g) \/ Timeout(g) PROVE ListedIsWaiting'
    BY <2>3 DEF Take, Consume, Timeout
  <2>4. ASSUME NEW g \in Gated, Return(g) \/ Finish(g) \/ RaiseAfterApproval(g)
        PROVE  ListedIsWaiting'
    BY <2>4 DEF Return, Finish, RaiseAfterApproval
  <2>5. CASE Die
    <3>. SUFFICES ASSUME pending' # None, pending' \notin orphans'
                  PROVE  FALSE
      OBVIOUS
    <3>1. pending # None /\ pending \notin orphans /\ pending' = pending
      BY <2>5 DEF Die
    <3>2. pending[1] \in Gated /\ Waiting(pending[1]) /\ pending = Request(pending[1])
      BY <3>1 DEF Waiting
    <3>. QED
      BY <2>5, <3>1, <3>2 DEF Die, InProgress
  <2>6. ASSUME UNCHANGED <<pc, attempt, orphans>>, pending' \in {pending, None} PROVE ListedIsWaiting'
    BY <2>6
  <2>7. ASSUME NEW v \in Desks, DeskOf(v) PROVE ListedIsWaiting'
    BY <2>7, <2>6 DEF DeskOf, Show, Click, Validate, WriteDecision
  <2>8. ASSUME NEW d \in {"approve", "reject", "timeout"}, ResolveDirectly(d)
        PROVE  ListedIsWaiting'
    BY <2>8, <2>6 DEF ResolveDirectly
  <2>9. CASE ExpireDecision \/ ExpirePending \/ UNCHANGED vars
    BY <2>9, <2>6 DEF ExpireDecision, ExpirePending, vars
  <2>. QED
    BY <2>1, <2>2, <2>3, <2>4, <2>5, <2>7, <2>8, <2>9 DEF Next, StepOf
<1>. QED
  BY <1>1, <1>2, TypeCorrect, PTL DEF Spec

-----------------------------------------------------------------------------
(* A step with a request in progress has begun an attempt, so that the     *)
(* request is one of Requests. *)
PayBegun == \A p \in Payers : AtPayment(p) => payAttempt[p] # 0

THEOREM PaymentTypeCorrect == PaymentSpec => [](PaymentTypeOK /\ PayBegun)
<1>. USE PaymentAssumption DEF PaymentAssumption
<1>1. PaymentInit => PaymentTypeOK /\ PayBegun
  BY DEF PaymentInit, PaymentTypeOK, PayBegun, AtPayment
<1>2. PaymentTypeOK /\ PayBegun /\ [PaymentNext]_paymentVars => PaymentTypeOK' /\ PayBegun'
  <2>. SUFFICES ASSUME PaymentTypeOK, PayBegun, [PaymentNext]_paymentVars
                PROVE  PaymentTypeOK' /\ PayBegun'
    OBVIOUS
  <2>. USE DEF payers
  <2>1. ASSUME NEW p \in Payers, RequestLink(p) PROVE PaymentTypeOK' /\ PayBegun'
    BY <2>1 DEF PaymentTypeOK, PayBegun, AtPayment, RequestLink
  <2>2. ASSUME NEW p \in Payers, LinkSent(p) PROVE PaymentTypeOK' /\ PayBegun'
    <3>1. LinkOf(p) \in Links
      BY <2>2 DEF LinkSent, LinkOf, Links, PaymentTypeOK, PayBegun, AtPayment
    <3>. QED
      BY <2>2, <3>1 DEF PaymentTypeOK, PayBegun, AtPayment, LinkSent
  <2>3. ASSUME NEW p \in Payers, DispatchFails(p) \/ NoLink(p)
        PROVE  PaymentTypeOK' /\ PayBegun'
    <3>1. LinkOf(p) \in Links
      BY <2>3 DEF DispatchFails, NoLink, LinkOf, Links, PaymentTypeOK, PayBegun, AtPayment
    <3>. QED
      BY <2>3, <3>1 DEF PaymentTypeOK, PayBegun, AtPayment, DispatchFails, NoLink
  <2>4. ASSUME NEW p \in Payers, TakeStatus(p) \/ ConsumeStatus(p) \/ LinkTimeout(p)
        PROVE  PaymentTypeOK' /\ PayBegun'
    BY <2>4 DEF PaymentTypeOK, PayBegun, AtPayment, TakeStatus, ConsumeStatus, LinkTimeout
  <2>5. ASSUME NEW p \in Payers, ReturnStatus(p) \/ Succeed(p) \/ RaiseAfterPayment(p)
        PROVE  PaymentTypeOK' /\ PayBegun'
    BY <2>5 DEF PaymentTypeOK, PayBegun, AtPayment, ReturnStatus, Again, Succeed,
       RaiseAfterPayment
  <2>6. CASE PipelineDies
    BY <2>6 DEF PaymentTypeOK, PayBegun, AtPayment, PipelineDies, Again
  <2>7. Asked \subseteq Links
    BY DEF Asked, LinkOf, Links, PaymentTypeOK, PayBegun, AtPayment
  <2>8. ASSUME NEW r \in Links, NEW report \in Reports, Webhook(r, report) \/ PostStatus(r, report)
        PROVE  PaymentTypeOK' /\ PayBegun'
    <3>1. PICK says \in Says : Receive(r, says)
      BY <2>8 DEF Webhook, PostStatus, Says
    <3>2. status' \in Status
      BY <2>7, <3>1 DEF Receive, Status
    <3>. QED
      BY <3>1, <3>2 DEF PaymentTypeOK, PayBegun, AtPayment, Receive
  <2>9. CASE Cancel \/ Expire \/ UNCHANGED paymentVars
    BY <2>7, <2>9 DEF PaymentTypeOK, PayBegun, AtPayment, Cancel, Expire, Status,
       Says, paymentVars
  <2>. QED
    BY <2>1, <2>2, <2>3, <2>4, <2>5, <2>6, <2>7, <2>8, <2>9 DEF PaymentNext, PayerStep
<1>. QED
  BY <1>1, <1>2, PTL DEF PaymentSpec

-----------------------------------------------------------------------------
(* What makes ReportedAfterAsked inductive: a status in Redis was written  *)
(* while every request that may still take it was open.                    *)
StatusFresh == status # Nothing => Asked \subseteq status.during

(* No report that is late, repeated or left over by a crash completes or   *)
(* fails a payment requested after it. *)
THEOREM FreshReports == PaymentSpec => []ReportedAfterAsked
<1>. DEFINE Fresh == StatusFresh /\ ReportedAfterAsked
<1>1. PaymentInit => Fresh
  BY DEF PaymentInit, StatusFresh, ReportedAfterAsked
<1>2. PaymentTypeOK /\ Fresh /\ [PaymentNext]_paymentVars => Fresh'
  <2>. SUFFICES ASSUME PaymentTypeOK, Fresh, [PaymentNext]_paymentVars PROVE Fresh'
    OBVIOUS
  <2>. USE DEF PaymentTypeOK, StatusFresh, ReportedAfterAsked, Asked, LinkOf, payers
  <2>1. ASSUME NEW p \in Payers, RequestLink(p) PROVE Fresh'
    BY <2>1 DEF RequestLink
  <2>2. ASSUME NEW p \in Payers, LinkSent(p) \/ DispatchFails(p) \/ NoLink(p) PROVE Fresh'
    BY <2>2 DEF LinkSent, DispatchFails, NoLink
  <2>3. ASSUME NEW p \in Payers, TakeStatus(p) PROVE Fresh'
    BY <2>3 DEF TakeStatus
  <2>4. ASSUME NEW p \in Payers, ConsumeStatus(p) \/ LinkTimeout(p) PROVE Fresh'
    BY <2>4 DEF ConsumeStatus, LinkTimeout
  <2>5. ASSUME NEW p \in Payers, ReturnStatus(p) \/ Succeed(p) \/ RaiseAfterPayment(p)
        PROVE  Fresh'
    BY <2>5 DEF ReturnStatus, Succeed, RaiseAfterPayment, Again
  <2>6. CASE PipelineDies
    <3>1. Asked' \subseteq Asked
      BY <2>6 DEF PipelineDies, Again
    <3>. QED
      BY <2>6, <3>1 DEF PipelineDies
  <2>7. ASSUME UNCHANGED <<paying, payAttempt, payTaken>>,
               status' # Nothing => status' = status \/ status'.during = Asked
        PROVE  Fresh'
    BY <2>7
  <2>8. ASSUME NEW r \in Links, NEW report \in Reports, Webhook(r, report) \/ PostStatus(r, report)
        PROVE  Fresh'
    <3>1. PICK says \in Says : Receive(r, says)
      BY <2>8 DEF Webhook, PostStatus, Says
    <3>. QED
      BY <3>1, <2>7 DEF Receive
  <2>9. CASE Cancel \/ Expire \/ UNCHANGED paymentVars
    BY <2>9, <2>7 DEF Cancel, Expire, paymentVars
  <2>. QED
    BY <2>1, <2>2, <2>3, <2>4, <2>5, <2>6, <2>8, <2>9 DEF PaymentNext, PayerStep
<1>. QED
  BY <1>1, <1>2, PaymentTypeCorrect, PTL DEF PaymentSpec
===============================================================================
