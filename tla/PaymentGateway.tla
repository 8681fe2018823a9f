---------------------------- MODULE PaymentGateway ----------------------------
(***************************************************************************)
(* services/ai-pipeline/payment_gateway.py with the payment gate of        *)
(* master_worker.py (_execute_sme_with_hitl) and the callback receiver of  *)
(* platform-api/src/autonomous/hitl.controller.ts: the payments of one     *)
(* call.  A step sends the caller a payment link and polls the key         *)
(* payment_status, named by the CID alone, which the provider's callback   *)
(* writes.  A step that raises, for want of the payment or after it, is    *)
(* attempted again by _execute_step of the saga.                           *)
(***************************************************************************)
EXTENDS Integers, FiniteSets

CONSTANTS
  Payers,        \* the steps of the saga that require a payment
  PayerAttempts, \* retry_count of these steps
  Dispatches,    \* payment_config.retry_count
  PayersOverlap, \* TRUE: the steps are one parallel batch
  Callbacks      \* bound on the provider's reports

ASSUME PaymentAssumption ==
  /\ PayerAttempts \in Nat
  /\ Dispatches \in Nat
  /\ PayersOverlap \in BOOLEAN
  /\ Callbacks \in Nat \ {0}

(* A payment request, which is also the link it sends. *)
Links == Payers \X (1..PayerAttempts)

(* The absent key. *)
Nothing == <<>>

(* A status with its history: the link it is about (Nothing for a          *)
(* cancellation by cancel_payment) and the requests that were open when it *)
(* was written.  The statuses failed and cancelled, which the step treats  *)
(* alike, are both "unpaid". *)
Says == {"completed", "unpaid"}
Status == [says : Says, link : Links \cup {Nothing}, during : SUBSET Links]

(* What a report says of the payment: one of these, a status unknown to    *)
(* the receivers, or nothing. *)
Reports == Says \cup {"unknown", "none"}

VARIABLES
  \* Redis
  status,      \* payment_status
  \* the steps
  paying,      \* where the step awaits
  payAttempt,  \* its current attempt
  tries,       \* failed dispatches of the current request
  payTaken,    \* what the current request returned: a Status, or Nothing
  \* the provider
  made,        \* the links it has created
  callbacks    \* how many times it has reported

payers == <<paying, payAttempt, tries, payTaken>>
paymentVars == <<status, paying, payAttempt, tries, payTaken, made, callbacks>>

LinkOf(p) == <<p, payAttempt[p]>>

(* The requests whose answer is still to come. *)
Asked == {LinkOf(p) : p \in {q \in Payers : paying[q] \in {"dispatch", "poll"}}}

AtPayment(p) == paying[p] \in {"dispatch", "poll", "consume", "return", "paid"}

PaymentTypeOK ==
  /\ status \in Status \cup {Nothing}
  /\ paying \in [Payers -> {"idle", "dispatch", "poll", "consume", "return", "paid",
                        "done", "failed"}]
  /\ payAttempt \in [Payers -> 0..PayerAttempts]
  /\ tries \in [Payers -> 0..Dispatches]
  /\ payTaken \in [Payers -> Status \cup {Nothing}]
  /\ made \subseteq Links
  /\ callbacks \in 0..Callbacks

PaymentInit ==
  /\ status = Nothing
  /\ paying = [p \in Payers |-> "idle"]
  /\ payAttempt = [p \in Payers |-> 0]
  /\ tries = [p \in Payers |-> 0]
  /\ payTaken = [p \in Payers |-> Nothing]
  /\ made = {}
  /\ callbacks = 0

-----------------------------------------------------------------------------
(* Mutant of RequestLink: the status of an earlier request is left. *)
RequestKeepsStatus(p) ==
  /\ paying[p] = "idle"
  /\ payAttempt[p] < PayerAttempts
  /\ ~PayersOverlap => \A q \in Payers : ~AtPayment(q)
  /\ payAttempt' = [payAttempt EXCEPT ![p] = @ + 1]
  /\ tries' = [tries EXCEPT ![p] = 0]
  /\ payTaken' = [payTaken EXCEPT ![p] = Nothing]
  /\ paying' = [paying EXCEPT ![p] = "dispatch"]
  /\ UNCHANGED <<status, made, callbacks>>

(* The step's execute_fn gets to its payment gate (payment_details were    *)
(* returned by the SME) and request_payment_link deletes the keys. *)
RequestLink(p) ==
  /\ paying[p] = "idle"
  /\ payAttempt[p] < PayerAttempts
  /\ ~PayersOverlap => \A q \in Payers : ~AtPayment(q)
  /\ payAttempt' = [payAttempt EXCEPT ![p] = @ + 1]
  /\ tries' = [tries EXCEPT ![p] = 0]
  /\ payTaken' = [payTaken EXCEPT ![p] = Nothing]
  /\ status' = Nothing
  /\ paying' = [paying EXCEPT ![p] = "dispatch"]
  /\ UNCHANGED <<made, callbacks>>

(* _dispatch_payment_link: a post is answered with a link, which is stored *)
(* and may be sent to the caller ... *)
LinkSent(p) ==
  /\ paying[p] = "dispatch"
  /\ tries[p] < Dispatches
  /\ made' = made \cup {LinkOf(p)}
  /\ paying' = [paying EXCEPT ![p] = "poll"]
  /\ UNCHANGED <<status, payAttempt, tries, payTaken, callbacks>>

(* ... or fails and is tried again: one that times out may have made the   *)
(* link all the same ... *)
DispatchFails(p) ==
  /\ paying[p] = "dispatch"
  /\ tries[p] < Dispatches
  /\ tries' = [tries EXCEPT ![p] = @ + 1]
  /\ made' \in {made, made \cup {LinkOf(p)}}
  /\ UNCHANGED <<status, paying, payAttempt, payTaken, callbacks>>

(* ... until the tries are used up. *)
NoLink(p) ==
  /\ paying[p] = "dispatch"
  /\ tries[p] = Dispatches
  /\ paying' = [paying EXCEPT ![p] = "return"]
  /\ UNCHANGED <<status, payAttempt, tries, payTaken, made, callbacks>>

(* _await_payment_completion: a poll finds a status ... *)
TakeStatus(p) ==
  /\ paying[p] = "poll"
  /\ status # Nothing
  /\ payTaken' = [payTaken EXCEPT ![p] = status]
  /\ paying' = [paying EXCEPT ![p] = "consume"]
  /\ UNCHANGED <<status, payAttempt, tries, made, callbacks>>

(* ... and deletes the key, whatever it holds by now. *)
ConsumeStatus(p) ==
  /\ paying[p] = "consume"
  /\ status' = Nothing
  /\ paying' = [paying EXCEPT ![p] = "return"]
  /\ UNCHANGED <<payAttempt, tries, payTaken, made, callbacks>>

(* Mutant of LinkTimeout: the deadline is looked at only once there is a       *)
(* status. *)
TimeoutIfAnswered(p) ==
  /\ paying[p] = "poll"
  /\ status # Nothing
  /\ paying' = [paying EXCEPT ![p] = "return"]
  /\ UNCHANGED <<status, payAttempt, tries, payTaken, made, callbacks>>

(* link_timeout_s have passed when the loop wakes. *)
LinkTimeout(p) ==
  /\ paying[p] = "poll"
  /\ paying' = [paying EXCEPT ![p] = "return"]
  /\ UNCHANGED <<status, payAttempt, tries, payTaken, made, callbacks>>

(* A payment that is not completed makes the step raise ... *)
Completed(p) == payTaken[p] # Nothing /\ payTaken[p].says = "completed"
Again(p) == IF payAttempt[p] < PayerAttempts THEN "idle" ELSE "failed"

ReturnStatus(p) ==
  /\ paying[p] = "return"
  /\ paying' = [paying EXCEPT ![p] = IF Completed(p) THEN "paid" ELSE Again(p)]
  /\ UNCHANGED <<status, payAttempt, tries, payTaken, made, callbacks>>

(* ... and so does, after the payment, an SME result of status failed. *)
Succeed(p) ==
  /\ paying[p] = "paid"
  /\ paying' = [paying EXCEPT ![p] = "done"]
  /\ UNCHANGED <<status, payAttempt, tries, payTaken, made, callbacks>>

RaiseAfterPayment(p) ==
  /\ paying[p] = "paid"
  /\ paying' = [paying EXCEPT ![p] = Again(p)]
  /\ UNCHANGED <<status, payAttempt, tries, payTaken, made, callbacks>>

(* The pipeline dies: a resumed saga attempts the steps in progress again. *)
PipelineDies ==
  /\ \E p \in Payers : AtPayment(p)
  /\ paying' = [p \in Payers |-> IF AtPayment(p) THEN Again(p) ELSE paying[p]]
  /\ UNCHANGED <<status, payAttempt, tries, payTaken, made, callbacks>>

-----------------------------------------------------------------------------
(* A report about link r overwrites the status of the call, whenever it    *)
(* comes: nothing ties it to a request, or to a payment that was made. *)
Receive(r, says) ==
  /\ r \in made
  /\ callbacks < Callbacks
  /\ callbacks' = callbacks + 1
  /\ status' = [says |-> says, link |-> r, during |-> Asked]
  /\ UNCHANGED <<payers, made>>

(* PaymentWebhookController refuses a report without a status and takes    *)
(* one it does not know for failed ... *)
Webhook(r, report) ==
  /\ report # "none"
  /\ Receive(r, IF report = "completed" THEN "completed" ELSE "unpaid")

(* ... POST /session/{cid}/payment-status refuses a status it does not     *)
(* know and takes a report without one for completed. *)
PostStatus(r, report) ==
  /\ report # "unknown"
  /\ Receive(r, IF report = "unpaid" THEN "unpaid" ELSE "completed")

(* cancel_payment. *)
Cancel ==
  /\ status' = [says |-> "unpaid", link |-> Nothing, during |-> Asked]
  /\ UNCHANGED <<payers, made, callbacks>>

(* A status nobody polls for expires after 60 or 360 s. *)
Expire ==
  /\ status # Nothing
  /\ status' = Nothing
  /\ UNCHANGED <<payers, made, callbacks>>

-----------------------------------------------------------------------------
PayerStep(p) ==
  \/ RequestLink(p) \/ LinkSent(p) \/ DispatchFails(p) \/ NoLink(p)
  \/ TakeStatus(p) \/ ConsumeStatus(p) \/ LinkTimeout(p) \/ ReturnStatus(p)
  \/ Succeed(p) \/ RaiseAfterPayment(p)

PaymentNext ==
  \/ \E p \in Payers : PayerStep(p)
  \/ PipelineDies
  \/ \E r \in Links, report \in Reports : Webhook(r, report) \/ PostStatus(r, report)
  \/ Cancel
  \/ Expire

PaymentSpec == PaymentInit /\ [][PaymentNext]_paymentVars

(* The event loop runs the steps; dispatches are bounded by their HTTP     *)
(* timeout and the polls by link_timeout_s.  Nobody has to report. *)
PaymentFairSpec == PaymentSpec /\ \A p \in Payers : WF_paymentVars(PayerStep(p))

-----------------------------------------------------------------------------
(* What a request is told of its payment was reported after it was made:   *)
(* no late report on an earlier attempt, cancellation or report that       *)
(* nobody took completes or fails it, whatever overlaps and crashes. *)
ReportedAfterAsked ==
  \A p \in Payers : payTaken[p] # Nothing => LinkOf(p) \in payTaken[p].during

(* payment_gateway.py l.91: the request awaits the confirmed completion of *)
(* its own link.  Does not hold: the key is the call's, and a report on    *)
(* another link of the call that comes while the request waits is taken    *)
(* for its own. *)
OwnPayment ==
  \A p \in Payers : Completed(p) => payTaken[p].link = LinkOf(p)

(* Every request returns, and every step ends. *)
StepEnds == \A p \in Payers : AtPayment(p) ~> ~AtPayment(p)
=============================================================================
