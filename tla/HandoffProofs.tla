---------------------------- MODULE HandoffProofs ----------------------------
(* Theorems about HandoffDesk, for any calls, desks and clicks, and any    *)
(* number of handoffs of a call, and, in the second part, about DeskCall,  *)
(* for any calls, requests and losses of the socket. *)
EXTENDS HandoffDesk, DeskCall, FiniteSetTheorems, SequenceTheorems, TLAPS

Says == {"incoming", "taken"}

-----------------------------------------------------------------------------
(* What is on its way to a desk after a notice is emitted, delivered, or   *)
(* lost. *)
LEMMA EmittedOnItsWay ==
  ASSUME TypeOK, NEW says \in Says, NEW c \in Calls, inbox' = Emitted(says, c),
         NEW s \in Says, NEW x \in Calls, NEW d \in Desks
  PROVE  OnItsWay(s, x, d)' <=> OnItsWay(s, x, d) \/ (d \in online /\ s = says /\ x = c)
<1>. DEFINE new == [says |-> says, cid |-> c]
            old == inbox[d]
<1>1. old \in Seq(Notice) /\ new \in Notice
  BY DEF TypeOK, Notice, Says
<1>2. CASE d \notin online
  BY <1>2 DEF OnItsWay, Emitted
<1>3. CASE d \in online
  <2>1. inbox'[d] = Append(old, new)
    BY <1>3 DEF Emitted
  <2>2. /\ Len(Append(old, new)) = Len(old) + 1
        /\ Len(old) \in Nat
        /\ \A i \in 1..Len(old) : Append(old, new)[i] = old[i]
        /\ Append(old, new)[Len(old) + 1] = new
    BY <1>1
  <2>3. [says |-> s, cid |-> x] = new <=> s = says /\ x = c
    OBVIOUS
  <2>. QED
    BY <1>3, <2>1, <2>2, <2>3 DEF OnItsWay
<1>. QED
  BY <1>2, <1>3

LEMMA DeliveredOnItsWay ==
  ASSUME TypeOK, NEW d \in Desks, Deliver(d), NEW s \in Says, NEW x \in Calls, NEW e \in Desks
  PROVE  OnItsWay(s, x, e) <=>
           OnItsWay(s, x, e)' \/ (e = d /\ Head(inbox[d]) = [says |-> s, cid |-> x])
<1>. DEFINE old == inbox[d]
<1>1. old \in Seq(Notice) /\ old # <<>> /\ inbox' = [inbox EXCEPT ![d] = Tail(old)]
  BY DEF TypeOK, Deliver
<1>2. CASE e # d
  BY <1>1, <1>2 DEF OnItsWay, TypeOK
<1>3. CASE e = d
  <2>1. inbox'[e] = Tail(old)
    BY <1>1, <1>3 DEF TypeOK
  <2>2. /\ Len(old) \in Nat /\ Len(old) > 0
        /\ Len(Tail(old)) = Len(old) - 1
        /\ \A i \in 1..Len(Tail(old)) : Tail(old)[i] = old[i + 1]
        /\ Head(old) = old[1]
    BY <1>1
  <2>3. ASSUME OnItsWay(s, x, e)
        PROVE  OnItsWay(s, x, e)' \/ Head(old) = [says |-> s, cid |-> x]
    <3>1. PICK i \in 1..Len(old) : old[i] = [says |-> s, cid |-> x]
      BY <1>3, <2>3 DEF OnItsWay
    <3>2. CASE i = 1
      BY <3>1, <3>2, <2>2
    <3>3. CASE i > 1
      <4>1. i - 1 \in 1..Len(Tail(old)) /\ Tail(old)[i - 1] = [says |-> s, cid |-> x]
        BY <3>1, <3>3, <2>2
      <4>. QED
        BY <4>1, <2>1 DEF OnItsWay
    <3>. QED
      BY <3>2, <3>3, <2>2
  <2>4. ASSUME OnItsWay(s, x, e)' PROVE OnItsWay(s, x, e)
    <3>1. PICK i \in 1..Len(Tail(old)) : Tail(old)[i] = [says |-> s, cid |-> x]
      BY <2>1, <2>4 DEF OnItsWay
    <3>2. i + 1 \in 1..Len(old) /\ old[i + 1] = [says |-> s, cid |-> x]
      BY <3>1, <2>2
    <3>. QED
      BY <1>3, <3>2 DEF OnItsWay
  <2>5. ASSUME Head(old) = [says |-> s, cid |-> x] PROVE OnItsWay(s, x, e)
    <3>1. 1 \in 1..Len(old) /\ old[1] = [says |-> s, cid |-> x]
      BY <2>2, <2>5
    <3>. QED
      BY <1>3, <3>1 DEF OnItsWay
  <2>. QED
    BY <1>3, <2>3, <2>4, <2>5
<1>. QED
  BY <1>2, <1>3

LEMMA LostOnItsWay ==
  ASSUME TypeOK, NEW d \in Desks, inbox' = [inbox EXCEPT ![d] = <<>>],
         NEW s \in Says, NEW x \in Calls, NEW e \in Desks
  PROVE  /\ OnItsWay(s, x, e)' => OnItsWay(s, x, e)
         /\ e # d /\ OnItsWay(s, x, e) => OnItsWay(s, x, e)'
BY DEF OnItsWay, TypeOK

-----------------------------------------------------------------------------
(* The entries of the queue: at most one per request that has pushed, and  *)
(* one less once the call is claimed. *)
LEMMA PushedFinite ==
  ASSUME NEW c \in Calls
  PROVE  /\ IsFiniteSet(Pushed(c))
         /\ Cardinality(Pushed(c)) \in 0..MaxHandoffs
<1>1. IsFiniteSet(1..MaxHandoffs) /\ Cardinality(1..MaxHandoffs) = MaxHandoffs
  BY FS_Interval, HandoffAssumption
<1>2. Pushed(c) \subseteq 1..MaxHandoffs
  BY DEF Pushed
<1>3. /\ IsFiniteSet(Pushed(c))
      /\ Cardinality(Pushed(c)) <= Cardinality(1..MaxHandoffs)
  BY <1>1, <1>2, FS_Subset
<1>4. Cardinality(Pushed(c)) \in Nat
  BY <1>3, FS_CardinalityType
<1>. QED
  BY <1>1, <1>3, <1>4, HandoffAssumption

LEMMA QueueStep == ASSUME HandoffInv, Next PROVE QueueInv'
<1>. SUFFICES ASSUME NEW c \in Calls
              PROVE  queued'[c] + (IF Claimed(c)' THEN 1 ELSE 0) <= Cardinality(Pushed(c)')
  BY DEF QueueInv
<1>. DEFINE Kept == /\ queued'[c] = queued[c]
                    /\ Pushed(c)' = Pushed(c)
                    /\ Claimed(c)' => Claimed(c)
<1>. USE DEF redis, desks, history
<1>1. /\ queued[c] \in Nat /\ Cardinality(Pushed(c)) \in Nat
      /\ queued[c] + (IF Claimed(c) THEN 1 ELSE 0) <= Cardinality(Pushed(c))
  BY PushedFinite, HandoffAssumption DEF HandoffInv, TypeOK, QueueInv
<1>2. SUFFICES ASSUME ~Kept
               PROVE  queued'[c] + (IF Claimed(c)' THEN 1 ELSE 0) <= Cardinality(Pushed(c)')
  BY <1>1
<1>3. ASSUME NEW h \in Handoffs, HandoffStep(h), ~Push(h) PROVE FALSE
  <2>1. UNCHANGED <<queued, holder, apc, clicked>>
    BY <1>3 DEF HandoffStep, Execute, StoreContext, Publish, ExecuteFails
  <2>2. Pushed(c)' = Pushed(c)
    BY <1>3 DEF HandoffStep, Execute, StoreContext, Publish, ExecuteFails, Pushed, HandoffInv,
                TypeOK, Handoffs
  <2>. QED
    BY <2>1, <2>2, <1>2 DEF Claimed, CallOf
<1>4. ASSUME NEW h \in Handoffs, Push(h)
      PROVE  queued'[c] + (IF Claimed(c)' THEN 1 ELSE 0) <= Cardinality(Pushed(c)')
  <2>1. h = <<h[1], h[2]>> /\ h[1] \in Calls /\ h[2] \in 1..MaxHandoffs
    BY DEF Handoffs
  <2>2. Claimed(c)' <=> Claimed(c)
    BY <1>4 DEF Push, Claimed, CallOf
  <2>3. CASE h[1] = c
    <3>0. PICK n \in 1..MaxHandoffs : h = <<c, n>>
      BY <2>1, <2>3
    <3>1. Pushed(c)' = Pushed(c) \cup {n} /\ n \notin Pushed(c)
      <4>1. /\ hpc[<<c, n>>] = "push"
            /\ \A i \in 1..MaxHandoffs :
                 hpc'[<<c, i>>] = IF i = n THEN "publish" ELSE hpc[<<c, i>>]
        BY <1>4, <3>0 DEF Push, HandoffInv, TypeOK, Handoffs
      <4>. QED
        BY <4>1 DEF Pushed
    <3>2. Cardinality(Pushed(c)') = Cardinality(Pushed(c)) + 1
      BY <3>1, PushedFinite, FS_AddElement
    <3>3. queued'[c] = queued[c] + 1
      BY <1>4, <2>3 DEF Push, HandoffInv, TypeOK
    <3>. QED
      BY <1>1, <2>2, <3>2, <3>3
  <2>4. CASE h[1] # c
    <3>1. Pushed(c)' = Pushed(c) /\ queued'[c] = queued[c]
      BY <1>4, <2>1, <2>4 DEF Push, Pushed, HandoffInv, TypeOK, Handoffs
    <3>. QED
      BY <1>2, <2>2, <3>1
  <2>. QED
    BY <2>3, <2>4
<1>5. ASSUME NEW a \in Accepts, Remove(a)
      PROVE  queued'[c] + (IF Claimed(c)' THEN 1 ELSE 0) <= Cardinality(Pushed(c)')
  <2>1. Pushed(c)' = Pushed(c)
    BY <1>5 DEF Remove, Pushed
  <2>2. CASE CallOf(a) = c
    <3>1. Pushed(c) # {}
      BY <1>5, <2>2 DEF Remove, Pushed, HandoffInv, HeardInv, Heard
    <3>2. Cardinality(Pushed(c)) > 0
      BY <1>1, <3>1, PushedFinite, FS_EmptySet
    <3>3. queued'[c] = IF queued[c] > 0 THEN queued[c] - 1 ELSE 0
      BY <1>5, <2>2 DEF Remove, HandoffInv, TypeOK
    <3>. QED
      BY <1>1, <2>1, <3>2, <3>3
  <2>3. CASE CallOf(a) # c
    <3>1. queued'[c] = queued[c]
      BY <1>5, <2>3 DEF Remove, HandoffInv, TypeOK
    <3>2. Claimed(c)' => Claimed(c)
      BY <1>5, <2>3 DEF Remove, Claimed, CallOf, HandoffInv, TypeOK
    <3>. QED
      BY <1>2, <2>1, <3>1, <3>2
  <2>. QED
    BY <2>2, <2>3
<1>6. ASSUME NEW a \in Accepts, AcceptStep(a), ~Remove(a) PROVE FALSE
  <2>1. UNCHANGED <<queued, hpc>>
    BY <1>6 DEF AcceptStep, Click, Assign, Announce, AcceptFails, Reply, Open, OpenFails
  <2>2. Pushed(c)' = Pushed(c)
    BY <2>1 DEF Pushed
  <2>3. CASE Assign(a)
    BY <2>3, <2>1, <2>2, <1>2 DEF Assign, Claimed, CallOf, DeskOf, HandoffInv, TypeOK
  <2>4. CASE \E d \in Desks, x \in Calls : Click(a, d, x)
    BY <2>4, <2>1, <2>2, <1>2 DEF Click, Claimed, CallOf, HandoffInv, TypeOK
  <2>5. CASE Announce(a) \/ AcceptFails(a) \/ Reply(a) \/ Open(a) \/ OpenFails(a)
    BY <2>5, <2>1, <2>2, <1>2
       DEF Announce, AcceptFails, Reply, Open, OpenFails, Claimed, CallOf, HandoffInv, TypeOK
  <2>. QED
    BY <1>6, <2>3, <2>4, <2>5 DEF AcceptStep
<1>7. ASSUME NEW x \in Calls, ExpireContext(x) PROVE FALSE
  BY <1>7, <1>2 DEF ExpireContext, Pushed, Claimed, CallOf
<1>8. ASSUME NEW d \in Desks, DeskStep(d) PROVE FALSE
  <2>1. UNCHANGED <<redis, hpc, apc, clicked>>
    BY <1>8 DEF DeskStep, WrapUp, Deliver, Disconnect, Reconnect, QueueFetched
  <2>. QED
    BY <2>1, <1>2 DEF Pushed, Claimed, CallOf
<1>. QED
  BY <1>3, <1>4, <1>5, <1>6, <1>7, <1>8 DEF Next

-----------------------------------------------------------------------------
(* Types.  The bound of the queue is the one of the lemma above. *)
LEMMA EmittedType ==
  ASSUME TypeOK, NEW says \in Says, NEW c \in Calls
  PROVE  Emitted(says, c) \in [Desks -> Seq(Notice)]
<1>1. [says |-> says, cid |-> c] \in Notice
  BY DEF Notice, Says
<1>2. \A d \in Desks : Append(inbox[d], [says |-> says, cid |-> c]) \in Seq(Notice)
  BY <1>1 DEF TypeOK
<1>. QED
  BY <1>2 DEF Emitted, TypeOK

LEMMA CountUpAndDown ==
  ASSUME NEW f \in [Calls -> Nat], NEW c \in Calls
  PROVE  /\ [f EXCEPT ![c] = @ + 1] \in [Calls -> Nat]
         /\ [f EXCEPT ![c] = IF @ > 0 THEN @ - 1 ELSE 0] \in [Calls -> Nat]
OBVIOUS

LEMMA TypeStep == ASSUME HandoffInv, Next PROVE TypeOK'
<1>. USE DEF redis, desks, history
<1>1. TypeOK /\ ClickInv
  BY DEF HandoffInv
<1>2. SUFFICES ASSUME queued' \in [Calls -> Nat] PROVE TypeOK'
  <2>1. CASE queued' \in [Calls -> Nat]
    BY <1>2, <2>1
  <2>2. queued' \in [Calls -> Nat]
    <3>1. ASSUME NEW h \in Handoffs, Push(h) PROVE queued' \in [Calls -> Nat]
      <4>1. queued \in [Calls -> Nat] /\ queued' = [queued EXCEPT ![h[1]] = @ + 1]
        BY <1>1, <3>1, HandoffAssumption DEF TypeOK, Push
      <4>2. h[1] \in Calls
        BY DEF Handoffs
      <4>. QED
        BY <4>1, <4>2, CountUpAndDown
    <3>2. ASSUME NEW a \in Accepts, Remove(a) PROVE queued' \in [Calls -> Nat]
      <4>1. /\ queued \in [Calls -> Nat]
            /\ queued' = [queued EXCEPT ![CallOf(a)] = IF @ > 0 THEN @ - 1 ELSE 0]
        BY <1>1, <3>2, HandoffAssumption DEF TypeOK, Remove
      <4>2. CallOf(a) \in Calls
        BY <1>1, <3>2 DEF ClickInv, Remove, CallOf
      <4>. QED
        BY <4>1, <4>2, CountUpAndDown
    <3>3. CASE UNCHANGED queued
      BY <1>1, <3>3, HandoffAssumption DEF TypeOK
    <3>4. ASSUME NEW h \in Handoffs, HandoffStep(h), ~Push(h) PROVE UNCHANGED queued
      BY <3>4 DEF HandoffStep, Execute, StoreContext, Publish, ExecuteFails
    <3>5. ASSUME NEW a \in Accepts, AcceptStep(a), ~Remove(a) PROVE UNCHANGED queued
      BY <3>5 DEF AcceptStep, Click, Assign, Announce, AcceptFails, Reply, Open, OpenFails
    <3>6. ASSUME NEW d \in Desks, DeskStep(d) PROVE UNCHANGED queued
      BY <3>6 DEF DeskStep, WrapUp, Deliver, Disconnect, Reconnect, QueueFetched
    <3>. QED
      BY <3>1, <3>2, <3>3, <3>4, <3>5, <3>6 DEF Next, ExpireContext
  <2>. QED
    BY <2>1, <2>2
<1>3. queued' \in [Calls -> 0..MaxHandoffs]
  <2>1. ASSUME NEW c \in Calls PROVE queued'[c] \in 0..MaxHandoffs
    <3>1. queued'[c] + (IF Claimed(c)' THEN 1 ELSE 0) <= Cardinality(Pushed(c)')
      BY QueueStep DEF QueueInv
    <3>2. Cardinality(Pushed(c)') \in 0..MaxHandoffs
      <4>1. IsFiniteSet(1..MaxHandoffs) /\ Cardinality(1..MaxHandoffs) = MaxHandoffs
        BY FS_Interval, HandoffAssumption
      <4>2. Pushed(c)' \subseteq 1..MaxHandoffs
        BY DEF Pushed
      <4>3. /\ IsFiniteSet(Pushed(c)')
            /\ Cardinality(Pushed(c)') <= Cardinality(1..MaxHandoffs)
        BY <4>1, <4>2, FS_Subset
      <4>. QED
        BY <4>1, <4>3, FS_CardinalityType, HandoffAssumption
    <3>. QED
      BY <1>2, <3>1, <3>2, HandoffAssumption
  <2>. QED
    BY <1>2, <2>1
<1>4. ASSUME NEW h \in Handoffs, HandoffStep(h) PROVE TypeOK'
  <2>1. h[1] \in Calls
    BY DEF Handoffs
  <2>2. CASE Publish(h)
    BY <1>1, <1>3, <2>1, <2>2, EmittedType DEF TypeOK, Publish, Says
  <2>3. CASE Execute(h) \/ StoreContext(h) \/ Push(h)
    BY <1>1, <1>3, <2>1, <2>3 DEF TypeOK, Execute, StoreContext, Push
  <2>4. CASE ExecuteFails(h)
    BY <1>1, <1>3, <2>4 DEF TypeOK, ExecuteFails
  <2>. QED
    BY <1>4, <2>2, <2>3, <2>4 DEF HandoffStep
<1>5. ASSUME NEW a \in Accepts, AcceptStep(a) PROVE TypeOK'
  <2>1. CASE \E d \in Desks, c \in Calls : Click(a, d, c)
    <3>1. PICK d \in Desks, c \in Calls : Click(a, d, c)
      BY <2>1
    <3>2. <<d, c>> \in Desks \X Calls
      OBVIOUS
    <3>3. clicked' \in [Accepts -> (Desks \X Calls) \cup {NoCall}]
      BY <1>1, <3>1, <3>2 DEF TypeOK, Click
    <3>. QED
      BY <1>1, <1>3, <3>1, <3>3 DEF TypeOK, Click, InHandler
  <2>2. CASE ~\E d \in Desks, c \in Calls : Click(a, d, c)
    <3>1. apc[a] # "idle"
      BY <1>5, <2>2
         DEF AcceptStep, Remove, Assign, Announce, AcceptFails, Reply, Open, OpenFails, InHandler
    <3>2. CallOf(a) \in Calls /\ DeskOf(a) \in Desks
      BY <1>1, <3>1 DEF ClickInv, CallOf, DeskOf
    <3>3. CASE Announce(a)
      BY <1>1, <1>3, <3>2, <3>3, EmittedType DEF TypeOK, Announce, Says, InHandler
    <3>4. CASE Remove(a)
      BY <1>1, <1>3, <3>2, <3>4 DEF TypeOK, Remove, InHandler
    <3>7. CASE Assign(a)
      BY <1>1, <1>3, <3>2, <3>7 DEF TypeOK, Assign, InHandler
    <3>8. CASE AcceptFails(a) \/ OpenFails(a)
      BY <1>1, <1>3, <3>2, <3>8 DEF TypeOK, AcceptFails, OpenFails, InHandler
    <3>5. CASE Reply(a)
      <4>1. cards' \in [Desks -> SUBSET Calls]
        <5>1. CASE DeskOf(a) \in broken
          BY <1>1, <3>5, <5>1 DEF TypeOK, Reply
        <5>2. CASE DeskOf(a) \notin broken
          <6>1. cards' = [cards EXCEPT ![DeskOf(a)] = @ \ {CallOf(a)}]
            BY <3>5, <5>2 DEF Reply
          <6>. QED
            BY <1>1, <3>2, <6>1 DEF TypeOK
        <5>. QED
          BY <5>1, <5>2
      <4>2. apc' \in [Accepts -> InHandler \cup {"idle", "reply", "open", "done", "failed"}]
        BY <1>1, <3>5 DEF TypeOK, Reply
      <4>. QED
        BY <1>1, <1>3, <3>5, <4>1, <4>2 DEF TypeOK, Reply
    <3>6. CASE Open(a)
      BY <1>1, <1>3, <3>2, <3>6 DEF TypeOK, Open, InHandler
    <3>. QED
      BY <1>5, <2>2, <3>3, <3>4, <3>5, <3>6, <3>7, <3>8 DEF AcceptStep
  <2>. QED
    BY <2>1, <2>2
<1>6. ASSUME NEW c \in Calls, ExpireContext(c) PROVE TypeOK'
  BY <1>1, <1>3, <1>6 DEF TypeOK, ExpireContext
<1>7. ASSUME NEW d \in Desks, DeskStep(d) PROVE TypeOK'
  <2>1. <<>> \in Seq(Notice)
    OBVIOUS
  <2>2. CASE Deliver(d)
    <3>1. inbox[d] \in Seq(Notice) /\ inbox[d] # <<>>
      BY <1>1, <2>2 DEF TypeOK, Deliver
    <3>2. Tail(inbox[d]) \in Seq(Notice) /\ Head(inbox[d]) \in Notice
      BY <3>1
    <3>3. Head(inbox[d]).cid \in Calls
      BY <3>2 DEF Notice
    <3>. QED
      BY <1>1, <1>3, <2>2, <3>2, <3>3 DEF TypeOK, Deliver
  <2>3. CASE Disconnect(d)
    BY <1>1, <1>3, <2>1, <2>3 DEF TypeOK, Disconnect
  <2>4. CASE QueueFetched(d)
    BY <1>1, <1>3, <2>1, <2>4 DEF TypeOK, QueueFetched
  <2>5. CASE WrapUp(d) \/ Reconnect(d)
    BY <1>1, <1>3, <2>5 DEF TypeOK, WrapUp, Reconnect
  <2>. QED
    BY <1>7, <2>2, <2>3, <2>4, <2>5 DEF DeskStep
<1>. QED
  BY <1>4, <1>5, <1>6, <1>7 DEF Next

-----------------------------------------------------------------------------
(* A call is heard of after its context is stored and its CID pushed. *)
LEMMA StoredStep == ASSUME HandoffInv, Next PROVE StoredInv' /\ OpenedWithContext'
<1>. USE DEF redis, desks, history
<1>1. TypeOK /\ ClickInv /\ StoredInv /\ HeardInv /\ OpenedWithContext
  BY DEF HandoffInv
<1>2. CASE \E h \in Handoffs : HandoffStep(h)
  <2>1. PICK c \in Calls, n \in 1..MaxHandoffs : HandoffStep(<<c, n>>)
    BY <1>2 DEF Handoffs
  <2>2. <<c, n>> \in Handoffs
    BY DEF Handoffs
  <2>3. \A x \in Calls, i \in 1..MaxHandoffs :
          <<x, i>> \in Handoffs /\ (<<x, i>> = <<c, n>> <=> x = c /\ i = n)
    BY DEF Handoffs
  <2>4. UNCHANGED <<expired, bare>>
    BY <2>1 DEF HandoffStep, Execute, StoreContext, Push, Publish, ExecuteFails
  <2>5. CASE StoreContext(<<c, n>>)
    <3>1. context' = context \cup {c}
      BY <2>5 DEF StoreContext
    <3>2. \A x \in Calls, i \in 1..MaxHandoffs :
            hpc'[<<x, i>>] = IF x = c /\ i = n THEN "push" ELSE hpc[<<x, i>>]
      BY <1>1, <2>2, <2>3, <2>5 DEF StoreContext, TypeOK
    <3>. QED
      BY <1>1, <2>4, <3>1, <3>2 DEF StoredInv, OpenedWithContext
  <2>6. CASE ~StoreContext(<<c, n>>)
    <3>1. context' = context
      BY <2>1, <2>6 DEF HandoffStep, Execute, StoreContext, Push, Publish, ExecuteFails
    <3>2. \A x \in Calls, i \in 1..MaxHandoffs :
            \/ hpc'[<<x, i>>] = hpc[<<x, i>>]
            \/ hpc'[<<x, i>>] \in {"store", "failed"}
            \/ hpc[<<x, i>>] \in {"push", "publish"}
      BY <1>1, <2>1, <2>2, <2>3, <2>6
         DEF HandoffStep, Execute, Push, Publish, ExecuteFails, TypeOK
    <3>. QED
      BY <1>1, <2>4, <3>1, <3>2 DEF StoredInv, OpenedWithContext
  <2>. QED
    BY <2>5, <2>6
<1>3. CASE \E c \in Calls : ExpireContext(c)
  BY <1>1, <1>3 DEF ExpireContext, StoredInv, OpenedWithContext
<1>4. ASSUME NEW a \in Accepts, Open(a) PROVE StoredInv' /\ OpenedWithContext'
  <2>1. CallOf(a) \in Calls
    BY <1>1, <1>4 DEF Open, ClickInv, CallOf
  <2>2. CallOf(a) \in context \cup expired
    BY <1>1, <1>4, <2>1 DEF Open, HeardInv, Heard, StoredInv
  <2>. QED
    BY <1>1, <1>4, <2>2 DEF Open, StoredInv, OpenedWithContext
<1>5. CASE UNCHANGED <<hpc, context, expired, bare>>
  BY <1>1, <1>5 DEF StoredInv, OpenedWithContext
<1>6. ASSUME NEW a \in Accepts, AcceptStep(a), ~Open(a)
      PROVE  UNCHANGED <<hpc, context, expired, bare>>
  BY <1>6 DEF AcceptStep, Click, Remove, Assign, Announce, AcceptFails, Reply, OpenFails
<1>7. ASSUME NEW d \in Desks, DeskStep(d) PROVE UNCHANGED <<hpc, context, expired, bare>>
  BY <1>7 DEF DeskStep, WrapUp, Deliver, Disconnect, Reconnect, QueueFetched
<1>. QED
  BY <1>2, <1>3, <1>4, <1>5, <1>6, <1>7 DEF Next

LEMMA HeardKept ==
  ASSUME HandoffInv, Next, NEW c \in Calls, Heard(c)
  PROVE  Heard(c)'
<1>. USE DEF redis, desks, history
<1>1. PICK i \in 1..MaxHandoffs : hpc[<<c, i>>] = "done"
  BY DEF Heard
<1>2. <<c, i>> \in Handoffs
  BY DEF Handoffs
<1>3. ASSUME NEW h \in Handoffs, HandoffStep(h) PROVE hpc'[<<c, i>>] = "done"
  BY <1>1, <1>2, <1>3
     DEF HandoffStep, Execute, StoreContext, Push, Publish, ExecuteFails, HandoffInv, TypeOK
<1>4. ASSUME UNCHANGED hpc PROVE hpc'[<<c, i>>] = "done"
  BY <1>1, <1>4
<1>5. ASSUME NEW a \in Accepts, AcceptStep(a) PROVE UNCHANGED hpc
  BY <1>5
     DEF AcceptStep, Click, Remove, Assign, Announce, AcceptFails, Reply, Open, OpenFails
<1>6. ASSUME NEW d \in Desks, DeskStep(d) PROVE UNCHANGED hpc
  BY <1>6 DEF DeskStep, WrapUp, Deliver, Disconnect, Reconnect, QueueFetched
<1>7. hpc'[<<c, i>>] = "done"
  BY <1>3, <1>4, <1>5, <1>6 DEF Next, ExpireContext
<1>. QED
  BY <1>7 DEF Heard

LEMMA ClickStep == ASSUME HandoffInv, Next PROVE ClickInv'
<1>. USE DEF redis, desks, history
<1>1. TypeOK /\ ClickInv
  BY DEF HandoffInv
<1>2. ASSUME NEW a \in Accepts, NEW d \in Desks, NEW c \in Calls, Click(a, d, c) PROVE ClickInv'
  BY <1>1, <1>2 DEF Click, ClickInv, TypeOK
<1>3. CASE UNCHANGED clicked /\ \A a \in Accepts : apc[a] = "idle" => apc'[a] = "idle"
  BY <1>1, <1>3 DEF ClickInv
<1>4. ASSUME NEW a \in Accepts, AcceptStep(a), ~\E d \in Desks, c \in Calls : Click(a, d, c)
      PROVE  UNCHANGED clicked /\ \A b \in Accepts : apc[b] = "idle" => apc'[b] = "idle"
  BY <1>1, <1>4
     DEF AcceptStep, Remove, Assign, Announce, AcceptFails, Reply, Open, OpenFails, TypeOK,
         InHandler
<1>5. ASSUME NEW h \in Handoffs, HandoffStep(h) PROVE UNCHANGED <<apc, clicked>>
  BY <1>5 DEF HandoffStep, Execute, StoreContext, Push, Publish, ExecuteFails
<1>6. ASSUME NEW d \in Desks, DeskStep(d) PROVE UNCHANGED <<apc, clicked>>
  BY <1>6 DEF DeskStep, WrapUp, Deliver, Disconnect, Reconnect, QueueFetched
<1>. QED
  BY <1>2, <1>3, <1>4, <1>5, <1>6 DEF Next, ExpireContext
-----------------------------------------------------------------------------
(* Most steps leave the sockets and the cards alone. *)
LEMMA Untouched ==
  ASSUME Next
  PROVE  \/ UNCHANGED <<inbox, cards>>
         \/ \E h \in Handoffs : Publish(h)
         \/ \E a \in Accepts : Announce(a) \/ Reply(a)
         \/ \E d \in Desks : Deliver(d) \/ Disconnect(d) \/ QueueFetched(d)
<1>. USE DEF redis, desks, history
<1>1. ASSUME NEW h \in Handoffs, HandoffStep(h), ~Publish(h) PROVE UNCHANGED <<inbox, cards>>
  BY <1>1 DEF HandoffStep, Execute, StoreContext, Push, ExecuteFails
<1>2. ASSUME NEW a \in Accepts, AcceptStep(a), ~(Announce(a) \/ Reply(a))
      PROVE  UNCHANGED <<inbox, cards>>
  BY <1>2 DEF AcceptStep, Click, Remove, Assign, AcceptFails, Open, OpenFails
<1>3. ASSUME NEW d \in Desks, DeskStep(d), ~(Deliver(d) \/ Disconnect(d) \/ QueueFetched(d))
      PROVE  UNCHANGED <<inbox, cards>>
  BY <1>3 DEF DeskStep, WrapUp, Reconnect
<1>. QED
  BY <1>1, <1>2, <1>3 DEF Next, ExpireContext

LEMMA HeardStep == ASSUME HandoffInv, Next PROVE HeardInv'
<1>. USE DEF redis, desks, history
<1>0. TypeOK /\ HeardInv /\ ClickInv
  BY DEF HandoffInv
<1>1. ASSUME NEW x \in Calls, NEW e \in Desks, x \in cards'[e] \/ OnItsWay("incoming", x, e)'
      PROVE  Heard(x)'
  <2>1. SUFFICES ASSUME ~(x \in cards[e] \/ OnItsWay("incoming", x, e)) PROVE Heard(x)'
    BY <1>0, HeardKept DEF HeardInv
  <2>2. CASE UNCHANGED <<inbox, cards>>
    BY <1>1, <2>1, <2>2 DEF OnItsWay
  <2>3. ASSUME NEW h \in Handoffs, Publish(h) PROVE Heard(x)'
    <3>1. PICK c \in Calls, n \in 1..MaxHandoffs : h = <<c, n>>
      BY DEF Handoffs
    <3>2. inbox' = Emitted("incoming", c) /\ cards' = cards /\ hpc'[<<c, n>>] = "done"
      BY <1>0, <2>3, <3>1 DEF Publish, TypeOK
    <3>3. x = c
      BY <1>0, <1>1, <2>1, <3>2, EmittedOnItsWay DEF Says
    <3>. QED
      BY <3>2, <3>3 DEF Heard
  <2>4. ASSUME NEW a \in Accepts, Announce(a) PROVE FALSE
    <3>1. CallOf(a) \in Calls
      BY <1>0, <2>4 DEF Announce, ClickInv, CallOf
    <3>2. inbox' = Emitted("taken", CallOf(a)) /\ cards' = cards
      BY <2>4 DEF Announce
    <3>. QED
      BY <1>0, <1>1, <2>1, <3>1, <3>2, EmittedOnItsWay DEF Says
  <2>5. ASSUME NEW a \in Accepts, Reply(a) PROVE FALSE
    <3>1. inbox' = inbox
      BY <2>5 DEF Reply
    <3>2. CASE DeskOf(a) \in broken
      BY <1>1, <2>1, <2>5, <3>1, <3>2 DEF Reply, OnItsWay
    <3>3. CASE DeskOf(a) \notin broken
      <4>1. cards' = [cards EXCEPT ![DeskOf(a)] = @ \ {CallOf(a)}]
        BY <2>5, <3>3 DEF Reply
      <4>2. cards'[e] \subseteq cards[e]
        BY <1>0, <4>1 DEF TypeOK
      <4>. QED
        BY <1>1, <2>1, <3>1, <4>2 DEF OnItsWay
    <3>. QED
      BY <3>2, <3>3
  <2>6. ASSUME NEW d \in Desks, Deliver(d) PROVE FALSE
    <3>1. ~OnItsWay("incoming", x, e)'
      BY <1>0, <2>1, <2>6, DeliveredOnItsWay DEF Says
    <3>2. e = d => Head(inbox[d]) # [says |-> "incoming", cid |-> x]
      BY <1>0, <2>1, <2>6, DeliveredOnItsWay DEF Says
    <3>3. Head(inbox[d]) \in Notice
      BY <1>0, <2>6 DEF Deliver, TypeOK
    <3>4. x \in cards'[e] => e = d /\ Head(inbox[d]).says # "taken" /\ Head(inbox[d]).cid = x
      BY <1>0, <2>1, <2>6 DEF Deliver, TypeOK
    <3>5. Head(inbox[d]).says # "taken" /\ Head(inbox[d]).cid = x
            => Head(inbox[d]) = [says |-> "incoming", cid |-> x]
      BY <3>3 DEF Notice
    <3>. QED
      BY <1>1, <3>1, <3>2, <3>4, <3>5
  <2>7. ASSUME NEW d \in Desks, Disconnect(d) \/ QueueFetched(d) PROVE FALSE
    <3>1. inbox' = [inbox EXCEPT ![d] = <<>>] /\ cards'[e] \subseteq cards[e]
      BY <1>0, <2>7 DEF Disconnect, QueueFetched, TypeOK
    <3>. QED
      BY <1>0, <1>1, <2>1, <3>1, LostOnItsWay DEF Says
  <2>. QED
    BY <2>2, <2>3, <2>4, <2>5, <2>6, <2>7, Untouched
<1>2. ASSUME NEW b \in Accepts, apc'[b] # "idle" PROVE Heard(CallOf(b))'
  <2>1. CASE apc[b] # "idle" /\ clicked'[b] = clicked[b]
    BY <1>0, <2>1, HeardKept DEF HeardInv, ClickInv, CallOf
  <2>2. ASSUME NEW d \in Desks, NEW c \in Calls, NEW a \in Accepts, Click(a, d, c)
        PROVE  (apc[b] # "idle" /\ clicked'[b] = clicked[b]) \/ Heard(CallOf(b))'
    <3>1. CASE b = a
      <4>1. CallOf(b)' = c
        BY <1>0, <2>2, <3>1 DEF Click, CallOf, TypeOK
      <4>2. Heard(c)
        BY <1>0, <2>2 DEF Click, HeardInv
      <4>. QED
        BY <4>1, <4>2, HeardKept
    <3>2. CASE b # a
      BY <1>0, <1>2, <2>2, <3>2 DEF Click, TypeOK
    <3>. QED
      BY <3>1, <3>2
  <2>3. ASSUME NEW a \in Accepts, AcceptStep(a), ~\E d \in Desks, c \in Calls : Click(a, d, c)
        PROVE  apc[b] # "idle" /\ clicked'[b] = clicked[b]
    BY <1>0, <1>2, <2>3
       DEF AcceptStep, Remove, Assign, Announce, AcceptFails, Reply, Open, OpenFails, TypeOK,
           InHandler
  <2>4. ASSUME NEW h \in Handoffs, HandoffStep(h) PROVE UNCHANGED <<apc, clicked>>
    BY <2>4 DEF HandoffStep, Execute, StoreContext, Push, Publish, ExecuteFails
  <2>5. ASSUME NEW d \in Desks, DeskStep(d) PROVE UNCHANGED <<apc, clicked>>
    BY <2>5 DEF DeskStep, WrapUp, Deliver, Disconnect, Reconnect, QueueFetched
  <2>. QED
    BY <1>2, <2>1, <2>2, <2>3, <2>4, <2>5 DEF Next, ExpireContext
<1>. QED
  BY <1>1, <1>2 DEF HeardInv, Heard, CallOf, OnItsWay
-----------------------------------------------------------------------------
(* A call that has an agent keeps one, and a click is moved by its own     *)
(* steps only. *)
LEMMA HolderKept ==
  ASSUME HandoffInv, Next, NEW c \in Calls
  PROVE  /\ holder[c] # NoDesk => holder'[c] # NoDesk
         /\ \/ holder'[c] = holder[c]
            \/ \E a \in Accepts : Assign(a) /\ CallOf(a) = c
<1>. USE DEF redis, desks, history
<1>0. TypeOK /\ ClickInv
  BY DEF HandoffInv
<1>1. ASSUME NEW h \in Handoffs, HandoffStep(h) PROVE UNCHANGED holder
  BY <1>1 DEF HandoffStep, Execute, StoreContext, Push, Publish, ExecuteFails
<1>2. ASSUME NEW a \in Accepts, AcceptStep(a), ~Assign(a) PROVE UNCHANGED holder
  BY <1>2 DEF AcceptStep, Click, Remove, Announce, AcceptFails, Reply, Open, OpenFails
<1>3. ASSUME NEW d \in Desks, DeskStep(d) PROVE UNCHANGED holder
  BY <1>3 DEF DeskStep, WrapUp, Deliver, Disconnect, Reconnect, QueueFetched
<1>4. ASSUME NEW a \in Accepts, Assign(a)
      PROVE  /\ holder[c] # NoDesk => holder'[c] # NoDesk
             /\ holder'[c] = holder[c] \/ CallOf(a) = c
  <2>1. DeskOf(a) \in Desks /\ DeskOf(a) # NoDesk
    BY <1>0, <1>4, HandoffAssumption DEF Assign, ClickInv, DeskOf
  <2>2. holder'[c] = IF CallOf(a) = c THEN DeskOf(a) ELSE holder[c]
    BY <1>0, <1>4 DEF Assign, TypeOK
  <2>. QED
    BY <2>1, <2>2
<1>. QED
  BY <1>1, <1>2, <1>3, <1>4 DEF Next, ExpireContext

LEMMA OwnSteps ==
  ASSUME HandoffInv, Next, NEW b \in Accepts
  PROVE  AcceptStep(b) \/ (apc'[b] = apc[b] /\ clicked'[b] = clicked[b])
<1>. USE DEF redis, desks, history
<1>1. ASSUME NEW h \in Handoffs, HandoffStep(h) PROVE UNCHANGED <<apc, clicked>>
  BY <1>1 DEF HandoffStep, Execute, StoreContext, Push, Publish, ExecuteFails
<1>2. ASSUME NEW a \in Accepts, a # b, AcceptStep(a)
      PROVE  apc'[b] = apc[b] /\ clicked'[b] = clicked[b]
  BY <1>2
     DEF AcceptStep, Click, Remove, Assign, Announce, AcceptFails, Reply, Open, OpenFails,
         HandoffInv, TypeOK
<1>3. ASSUME NEW d \in Desks, DeskStep(d) PROVE UNCHANGED <<apc, clicked>>
  BY <1>3 DEF DeskStep, WrapUp, Deliver, Disconnect, Reconnect, QueueFetched
<1>. QED
  BY <1>1, <1>2, <1>3 DEF Next, ExpireContext

LEMMA TakenStep == ASSUME HandoffInv, Next PROVE TakenInv'
<1>. USE DEF redis, desks, history
<1>0. TypeOK /\ ClickInv /\ TakenInv
  BY DEF HandoffInv
<1>1. ASSUME NEW b \in Accepts, apc'[b] \in {"announce", "reply", "open", "done"}
      PROVE  holder'[CallOf(b)'] # NoDesk
  <2>1. CASE /\ apc[b] \in {"announce", "reply", "open", "done"}
             /\ clicked'[b] = clicked[b]
    <3>1. CallOf(b) \in Calls /\ CallOf(b)' = CallOf(b)
      BY <1>0, <2>1 DEF ClickInv, CallOf
    <3>. QED
      BY <1>0, <2>1, <3>1, HolderKept DEF TakenInv
  <2>2. CASE Assign(b)
    <3>1. CallOf(b) \in Calls /\ DeskOf(b) \in Desks /\ CallOf(b)' = CallOf(b)
      BY <1>0, <2>2 DEF Assign, ClickInv, CallOf, DeskOf
    <3>2. holder'[CallOf(b)] = DeskOf(b)
      BY <1>0, <2>2, <3>1 DEF Assign, TypeOK
    <3>. QED
      BY <3>1, <3>2, HandoffAssumption
  <2>3. ASSUME AcceptStep(b), ~Assign(b)
        PROVE  /\ apc[b] \in {"announce", "reply", "open", "done"}
               /\ clicked'[b] = clicked[b]
    BY <1>0, <1>1, <2>3
       DEF AcceptStep, Click, Remove, Announce, AcceptFails, Reply, Open, OpenFails, TypeOK
  <2>. QED
    BY <1>1, <2>1, <2>2, <2>3, OwnSteps
<1>2. ASSUME NEW x \in Calls, NEW e \in Desks, OnItsWay("taken", x, e)'
      PROVE  holder'[x] # NoDesk
  <2>1. SUFFICES ASSUME ~OnItsWay("taken", x, e) PROVE holder'[x] # NoDesk
    BY <1>0, HolderKept DEF TakenInv
  <2>2. CASE UNCHANGED <<inbox, cards>>
    BY <1>2, <2>1, <2>2 DEF OnItsWay
  <2>3. ASSUME NEW h \in Handoffs, Publish(h) PROVE FALSE
    <3>1. h[1] \in Calls /\ inbox' = Emitted("incoming", h[1])
      BY <2>3 DEF Publish, Handoffs
    <3>. QED
      BY <1>0, <1>2, <2>1, <3>1, EmittedOnItsWay DEF Says
  <2>4. ASSUME NEW a \in Accepts, Announce(a) PROVE holder'[x] # NoDesk
    <3>1. CallOf(a) \in Calls /\ inbox' = Emitted("taken", CallOf(a))
      BY <1>0, <2>4 DEF Announce, ClickInv, CallOf
    <3>2. x = CallOf(a)
      BY <1>0, <1>2, <2>1, <3>1, EmittedOnItsWay DEF Says
    <3>3. holder[CallOf(a)] # NoDesk
      BY <1>0, <2>4 DEF Announce, TakenInv
    <3>. QED
      BY <3>2, <3>3, HolderKept
  <2>5. ASSUME NEW a \in Accepts, Reply(a) PROVE FALSE
    BY <1>2, <2>1, <2>5 DEF Reply, OnItsWay
  <2>6. ASSUME NEW d \in Desks, Deliver(d) PROVE FALSE
    BY <1>0, <1>2, <2>1, <2>6, DeliveredOnItsWay DEF Says
  <2>7. ASSUME NEW d \in Desks, Disconnect(d) \/ QueueFetched(d) PROVE FALSE
    <3>1. inbox' = [inbox EXCEPT ![d] = <<>>]
      BY <2>7 DEF Disconnect, QueueFetched
    <3>. QED
      BY <1>0, <1>2, <2>1, <3>1, LostOnItsWay DEF Says
  <2>. QED
    BY <2>2, <2>3, <2>4, <2>5, <2>6, <2>7, Untouched
<1>. QED
  BY <1>1, <1>2 DEF TakenInv, CallOf, OnItsWay

-----------------------------------------------------------------------------
(* A card leaves a desk by its reply, by the notice that the call is       *)
(* taken, or with the page. *)
LEMMA CardKept ==
  ASSUME HandoffInv, Next, NEW c \in Calls, NEW d \in Desks, c \in cards[d], holder'[c] = NoDesk
  PROVE  c \in cards'[d] \/ d \in broken'
<1>. USE DEF redis, desks, history
<1>0. TypeOK /\ ClickInv /\ TakenInv
  BY DEF HandoffInv
<1>1. holder[c] = NoDesk
  BY HolderKept
<1>2. CASE UNCHANGED <<inbox, cards>>
  BY <1>2
<1>3. ASSUME NEW h \in Handoffs, Publish(h) PROVE c \in cards'[d]
  BY <1>3 DEF Publish
<1>4. ASSUME NEW a \in Accepts, Announce(a) PROVE c \in cards'[d]
  BY <1>4 DEF Announce
<1>5. ASSUME NEW a \in Accepts, Reply(a) PROVE c \in cards'[d]
  <2>1. CallOf(a) # c
    BY <1>0, <1>1, <1>5 DEF Reply, TakenInv
  <2>2. CASE DeskOf(a) \in broken
    BY <1>5, <2>2 DEF Reply
  <2>3. CASE DeskOf(a) \notin broken
    <3>1. cards' = [cards EXCEPT ![DeskOf(a)] = @ \ {CallOf(a)}]
      BY <1>5, <2>3 DEF Reply
    <3>. QED
      BY <1>0, <2>1, <3>1 DEF TypeOK
  <2>. QED
    BY <2>2, <2>3
<1>6. ASSUME NEW e \in Desks, Deliver(e) PROVE c \in cards'[d]
  <2>1. CASE Head(inbox[e]) = [says |-> "taken", cid |-> c]
    <3>1. OnItsWay("taken", c, e)
      BY <1>0, <1>6, <2>1, DeliveredOnItsWay DEF Says
    <3>. QED
      BY <1>0, <1>1, <3>1 DEF TakenInv
  <2>2. CASE Head(inbox[e]) # [says |-> "taken", cid |-> c]
    <3>1. Head(inbox[e]) \in Notice
      BY <1>0, <1>6 DEF Deliver, TypeOK
    <3>2. Head(inbox[e]).says = "taken" => Head(inbox[e]).cid # c
      BY <2>2, <3>1 DEF Notice
    <3>. QED
      BY <1>0, <1>6, <3>2 DEF Deliver, TypeOK
  <2>. QED
    BY <2>1, <2>2
<1>7. ASSUME NEW e \in Desks, Disconnect(e) PROVE c \in cards'[d]
  BY <1>7 DEF Disconnect
<1>8. ASSUME NEW e \in Desks, QueueFetched(e) PROVE c \in cards'[d] \/ d \in broken'
  BY <1>0, <1>8 DEF QueueFetched, TypeOK
<1>. QED
  BY <1>2, <1>3, <1>4, <1>5, <1>6, <1>7, <1>8, Untouched

LEMMA BrokenKept == ASSUME Next, NEW d \in Desks, d \in broken PROVE d \in broken'
<1>. USE DEF redis, desks, history
<1>1. ASSUME NEW h \in Handoffs, HandoffStep(h) PROVE UNCHANGED broken
  BY <1>1 DEF HandoffStep, Execute, StoreContext, Push, Publish, ExecuteFails
<1>2. ASSUME NEW a \in Accepts, AcceptStep(a) PROVE UNCHANGED broken
  BY <1>2 DEF AcceptStep, Click, Remove, Assign, Announce, AcceptFails, Reply, Open, OpenFails
<1>3. ASSUME NEW e \in Desks, DeskStep(e) PROVE d \in broken'
  BY <1>3 DEF DeskStep, WrapUp, Deliver, Disconnect, Reconnect, QueueFetched
<1>. QED
  BY <1>1, <1>2, <1>3 DEF Next, ExpireContext

LEMMA CardStep == ASSUME HandoffInv, Next PROVE CardInv'
<1>. USE DEF redis, desks, history
<1>0. TypeOK /\ ClickInv /\ TakenInv /\ CardInv
  BY DEF HandoffInv
<1>1. ASSUME NEW b \in Accepts, apc'[b] \in {"remove", "assign", "failed"},
             holder'[CallOf(b)'] = NoDesk
      PROVE  CallOf(b)' \in cards'[DeskOf(b)'] \/ DeskOf(b)' \in broken'
  <2>1. CASE /\ apc[b] \in {"remove", "assign", "failed"}
             /\ clicked'[b] = clicked[b]
    <3>1. /\ CallOf(b) \in Calls /\ CallOf(b)' = CallOf(b)
          /\ DeskOf(b) \in Desks /\ DeskOf(b)' = DeskOf(b)
      BY <1>0, <2>1 DEF ClickInv, CallOf, DeskOf
    <3>2. holder[CallOf(b)] = NoDesk
      BY <1>1, <3>1, HolderKept
    <3>3. CallOf(b) \in cards[DeskOf(b)] \/ DeskOf(b) \in broken
      BY <1>0, <2>1, <3>2 DEF CardInv
    <3>. QED
      BY <1>1, <3>1, <3>3, CardKept, BrokenKept
  <2>2. ASSUME NEW d \in Desks, NEW c \in Calls, Click(b, d, c)
        PROVE  CallOf(b)' \in cards'[DeskOf(b)']
    <3>1. CallOf(b)' = c /\ DeskOf(b)' = d
      BY <1>0, <2>2 DEF Click, CallOf, DeskOf, TypeOK
    <3>. QED
      BY <2>2, <3>1 DEF Click
  <2>3. ASSUME AcceptStep(b), ~\E d \in Desks, c \in Calls : Click(b, d, c)
        PROVE  /\ clicked'[b] = clicked[b]
               /\ apc[b] \in {"remove", "assign"} \/ apc[b] \in {"announce", "reply", "open"}
    BY <1>0, <1>1, <2>3
       DEF AcceptStep, Remove, Assign, Announce, AcceptFails, Reply, Open, OpenFails, TypeOK,
           InHandler
  <2>4. ASSUME apc[b] \in {"announce", "reply", "open"}, clicked'[b] = clicked[b] PROVE FALSE
    <3>1. CallOf(b) \in Calls /\ CallOf(b)' = CallOf(b) /\ holder[CallOf(b)] # NoDesk
      BY <1>0, <2>4 DEF ClickInv, CallOf, TakenInv
    <3>. QED
      BY <1>1, <3>1, HolderKept
  <2>. QED
    BY <1>1, <2>1, <2>2, <2>3, <2>4, OwnSteps
<1>. QED
  BY <1>1 DEF CardInv, CallOf, DeskOf
-----------------------------------------------------------------------------
(* Who was told of a call, and has been online since. *)
LEMMA ReachStep ==
  ASSUME HandoffInv, Next
  PROVE  /\ ReachInv'
         /\ \A c \in Calls : \A d \in reach'[c] :
              \/ d \in reach[c]
              \/ \E h \in Handoffs : Publish(h) /\ h[1] = c /\ d \in online
<1>. USE DEF redis, desks, history
<1>0. TypeOK /\ ReachInv
  BY DEF HandoffInv
<1>1. CASE UNCHANGED <<online, broken, reach>>
  BY <1>0, <1>1 DEF ReachInv
<1>2. ASSUME NEW h \in Handoffs, HandoffStep(h), ~Publish(h)
      PROVE  UNCHANGED <<online, broken, reach>>
  BY <1>2 DEF HandoffStep, Execute, StoreContext, Push, ExecuteFails
<1>3. ASSUME NEW a \in Accepts, AcceptStep(a) PROVE UNCHANGED <<online, broken, reach>>
  BY <1>3 DEF AcceptStep, Click, Remove, Assign, Announce, AcceptFails, Reply, Open, OpenFails
<1>4. ASSUME NEW h \in Handoffs, Publish(h)
      PROVE  /\ ReachInv'
             /\ \A c \in Calls : reach'[c] = IF c = h[1] THEN reach[c] \cup online ELSE reach[c]
  <2>1. \A c \in Calls : reach'[c] = IF c = h[1] THEN reach[c] \cup online ELSE reach[c]
    BY <1>0, <1>4 DEF Publish, TypeOK
  <2>2. UNCHANGED <<online, broken>>
    BY <1>4 DEF Publish
  <2>. QED
    BY <1>0, <2>1, <2>2 DEF ReachInv
<1>5. ASSUME NEW d \in Desks, Disconnect(d) \/ QueueFetched(d)
      PROVE  ReachInv' /\ \A c \in Calls : reach'[c] \subseteq reach[c]
  <2>1. /\ reach' = [c \in Calls |-> reach[c] \ {d}]
        /\ online' = online \ {d}
        /\ broken' \subseteq broken \cup {d}
    BY <1>5 DEF Disconnect, QueueFetched
  <2>. QED
    BY <1>0, <2>1 DEF ReachInv
<1>6. ASSUME NEW d \in Desks, Reconnect(d)
      PROVE  ReachInv' /\ \A c \in Calls : reach'[c] \subseteq reach[c]
  <2>1. reach' = reach /\ online' = online \cup {d} /\ broken' = broken /\ d \notin broken
    BY <1>6 DEF Reconnect
  <2>. QED
    BY <1>0, <2>1 DEF ReachInv
<1>7. ASSUME NEW d \in Desks, WrapUp(d) \/ Deliver(d) PROVE UNCHANGED <<online, broken, reach>>
  BY <1>7 DEF WrapUp, Deliver
<1>. QED
  BY <1>1, <1>2, <1>3, <1>4, <1>5, <1>6, <1>7 DEF Next, ExpireContext, DeskStep

LEMMA WaitingStep == ASSUME HandoffInv, Next PROVE WaitingIsShown'
<1>. USE DEF redis, desks, history
<1>0. TypeOK /\ ClickInv /\ WaitingIsShown
  BY DEF HandoffInv
<1>. SUFFICES ASSUME NEW c \in Calls, holder'[c] = NoDesk, NEW d \in reach'[c]
              PROVE  c \in cards'[d] \/ OnItsWay("incoming", c, d)'
  BY DEF WaitingIsShown, OnItsWay
<1>1. d \in Desks
  BY TypeStep DEF TypeOK
<1>2. holder[c] = NoDesk
  BY HolderKept
<1>3. d \in online' /\ d \notin broken'
  BY ReachStep DEF ReachInv
<1>4. ASSUME NEW h \in Handoffs, Publish(h), h[1] = c, d \in online
      PROVE  OnItsWay("incoming", c, d)'
  BY <1>0, <1>1, <1>4, EmittedOnItsWay DEF Publish, Says
<1>5. CASE c \in cards[d]
  BY <1>1, <1>3, <1>5, CardKept
<1>6. CASE OnItsWay("incoming", c, d)
  <2>1. CASE UNCHANGED <<inbox, cards>>
    BY <1>6, <2>1 DEF OnItsWay
  <2>2. ASSUME NEW h \in Handoffs, Publish(h) PROVE OnItsWay("incoming", c, d)'
    <3>1. h[1] \in Calls /\ inbox' = Emitted("incoming", h[1])
      BY <2>2 DEF Publish, Handoffs
    <3>. QED
      BY <1>0, <1>1, <1>6, <3>1, EmittedOnItsWay DEF Says
  <2>3. ASSUME NEW a \in Accepts, Announce(a) PROVE OnItsWay("incoming", c, d)'
    <3>1. CallOf(a) \in Calls /\ inbox' = Emitted("taken", CallOf(a))
      BY <1>0, <2>3 DEF Announce, ClickInv, CallOf
    <3>. QED
      BY <1>0, <1>1, <1>6, <3>1, EmittedOnItsWay DEF Says
  <2>4. ASSUME NEW a \in Accepts, Reply(a) PROVE OnItsWay("incoming", c, d)'
    BY <1>6, <2>4 DEF Reply, OnItsWay
  <2>5. ASSUME NEW e \in Desks, Deliver(e)
        PROVE  c \in cards'[d] \/ OnItsWay("incoming", c, d)'
    <3>1. CASE d = e /\ Head(inbox[e]) = [says |-> "incoming", cid |-> c]
      <4>1. Head(inbox[d]).says # "taken" /\ Head(inbox[d]).cid = c
        BY <3>1
      <4>2. cards'[d] = cards[d] \cup {c}
        BY <1>0, <1>1, <2>5, <3>1, <4>1 DEF Deliver, TypeOK
      <4>. QED
        BY <4>2
    <3>2. CASE ~(d = e /\ Head(inbox[e]) = [says |-> "incoming", cid |-> c])
      BY <1>0, <1>1, <1>6, <2>5, <3>2, DeliveredOnItsWay DEF Says
    <3>. QED
      BY <3>1, <3>2
  <2>6. ASSUME NEW e \in Desks, Disconnect(e) \/ QueueFetched(e)
        PROVE  OnItsWay("incoming", c, d)'
    <3>1. inbox' = [inbox EXCEPT ![e] = <<>>] /\ e \notin online'
      BY <2>6 DEF Disconnect, QueueFetched
    <3>2. d # e
      BY <1>3, <3>1
    <3>. QED
      BY <1>0, <1>1, <1>6, <3>1, <3>2, LostOnItsWay DEF Says
  <2>. QED
    BY <2>1, <2>2, <2>3, <2>4, <2>5, <2>6, Untouched
<1>7. d \in reach[c] => c \in cards[d] \/ OnItsWay("incoming", c, d)
  BY <1>0, <1>2 DEF WaitingIsShown
<1>. QED
  BY <1>4, <1>5, <1>6, <1>7, ReachStep

-----------------------------------------------------------------------------
(* An entry leaves the queue by an accept, which then assigns the call or  *)
(* fails. *)
LEMMA UnclaimedStep == ASSUME HandoffInv, Next PROVE UnclaimedIsOnOffer'
<1>. USE DEF redis, desks, history
<1>0. TypeOK /\ ClickInv /\ UnclaimedIsOnOffer
  BY DEF HandoffInv
<1>. SUFFICES ASSUME NEW c \in Calls, Pushed(c)' # {}, holder'[c] = NoDesk
              PROVE  \/ queued'[c] > 0
                     \/ \E a \in Accepts : apc'[a] \in {"assign", "failed"} /\ CallOf(a)' = c
  BY CardStep DEF UnclaimedIsOnOffer, CardInv, Pushed, CallOf, DeskOf
<1>1. holder[c] = NoDesk
  BY HolderKept
<1>2. ASSUME NEW h \in Handoffs, Push(h), h[1] = c PROVE queued'[c] > 0
  BY <1>0, <1>2, HandoffAssumption DEF Push, TypeOK
<1>3. Pushed(c) # {} \/ \E h \in Handoffs : Push(h) /\ h[1] = c
  <2>1. ASSUME NEW h \in Handoffs, HandoffStep(h), ~(Push(h) /\ h[1] = c)
        PROVE  Pushed(c)' \subseteq Pushed(c)
    <3>1. PICK x \in Calls, n \in 1..MaxHandoffs : h = <<x, n>>
      BY DEF Handoffs
    <3>2. CASE Push(h)
      <4>1. x # c
        BY <2>1, <3>1, <3>2
      <4>2. \A i \in 1..MaxHandoffs : hpc'[<<c, i>>] = hpc[<<c, i>>]
        BY <1>0, <3>1, <3>2, <4>1 DEF Push, TypeOK, Handoffs
      <4>. QED
        BY <4>2 DEF Pushed
    <3>3. CASE ~Push(h)
      <4>1. \A i \in 1..MaxHandoffs :
              \/ hpc'[<<c, i>>] = hpc[<<c, i>>]
              \/ hpc'[<<c, i>>] \in {"store", "push", "failed"}
              \/ hpc[<<c, i>>] = "publish"
        <5>1. SUFFICES ASSUME NEW g \in Handoffs
                       PROVE  \/ hpc'[g] = hpc[g]
                              \/ hpc'[g] \in {"store", "push", "failed"}
                              \/ hpc[g] = "publish"
          BY DEF Handoffs
        <5>. QED
          BY <1>0, <2>1, <3>3
             DEF HandoffStep, Execute, StoreContext, Publish, ExecuteFails, TypeOK
      <4>. QED
        BY <4>1 DEF Pushed
    <3>. QED
      BY <3>2, <3>3
  <2>2. ASSUME NEW a \in Accepts, AcceptStep(a) PROVE UNCHANGED hpc
    BY <2>2
       DEF AcceptStep, Click, Remove, Assign, Announce, AcceptFails, Reply, Open, OpenFails
  <2>3. ASSUME NEW d \in Desks, DeskStep(d) PROVE UNCHANGED hpc
    BY <2>3 DEF DeskStep, WrapUp, Deliver, Disconnect, Reconnect, QueueFetched
  <2>. QED
    BY <2>1, <2>2, <2>3 DEF Next, ExpireContext, Pushed
<1>4. ASSUME NEW a \in Accepts, Remove(a), CallOf(a) = c
      PROVE  apc'[a] = "assign" /\ CallOf(a)' = c
  BY <1>0, <1>4 DEF Remove, CallOf, TypeOK
<1>5. ASSUME queued[c] > 0
      PROVE  queued'[c] > 0 \/ \E a \in Accepts : Remove(a) /\ CallOf(a) = c
  <2>1. ASSUME NEW h \in Handoffs, HandoffStep(h) PROVE queued'[c] > 0
    <3>1. CASE Push(h)
      BY <1>0, <1>5, <3>1, HandoffAssumption DEF Push, TypeOK
    <3>2. CASE ~Push(h)
      BY <1>5, <2>1, <3>2 DEF HandoffStep, Execute, StoreContext, Publish, ExecuteFails
    <3>. QED
      BY <3>1, <3>2
  <2>2. ASSUME NEW a \in Accepts, AcceptStep(a), ~(Remove(a) /\ CallOf(a) = c)
        PROVE  queued'[c] > 0
    <3>1. CASE Remove(a)
      BY <1>0, <1>5, <2>2, <3>1 DEF Remove, TypeOK
    <3>2. CASE ~Remove(a)
      BY <1>5, <2>2, <3>2
         DEF AcceptStep, Click, Assign, Announce, AcceptFails, Reply, Open, OpenFails
    <3>. QED
      BY <3>1, <3>2
  <2>3. ASSUME NEW d \in Desks, DeskStep(d) PROVE queued'[c] > 0
    BY <1>5, <2>3 DEF DeskStep, WrapUp, Deliver, Disconnect, Reconnect, QueueFetched
  <2>. QED
    BY <1>5, <2>1, <2>2, <2>3 DEF Next, ExpireContext
<1>6. ASSUME NEW a \in Accepts, apc[a] \in {"assign", "failed"}, CallOf(a) = c
      PROVE  apc'[a] \in {"assign", "failed"} /\ CallOf(a)' = c
  <2>1. ~Assign(a)
    BY <1>0, <1>6, HandoffAssumption DEF Assign, TypeOK, ClickInv, DeskOf
  <2>2. ASSUME AcceptStep(a) PROVE apc'[a] = "failed" /\ clicked'[a] = clicked[a]
    BY <1>0, <1>6, <2>1, <2>2
       DEF AcceptStep, Click, Remove, Announce, AcceptFails, Reply, Open, OpenFails, TypeOK,
           InHandler
  <2>. QED
    BY <1>6, <2>2, OwnSteps DEF CallOf
<1>7. \/ queued[c] > 0
      \/ \E a \in Accepts : apc[a] \in {"assign", "failed"} /\ CallOf(a) = c
      \/ \E h \in Handoffs : Push(h) /\ h[1] = c
  BY <1>0, <1>1, <1>3 DEF UnclaimedIsOnOffer
<1>. QED
  BY <1>2, <1>4, <1>5, <1>6, <1>7

-----------------------------------------------------------------------------
LEMMA HandoffInit == ASSUME Init PROVE HandoffInv
<1>1. TypeOK
  <2>1. <<>> \in Seq(Notice)
    OBVIOUS
  <2>. QED
    BY <2>1, HandoffAssumption DEF Init, TypeOK
<1>2. \A c \in Calls, i \in 1..MaxHandoffs : hpc[<<c, i>>] = "idle"
  BY DEF Init, Handoffs
<1>3. \A c \in Calls : Pushed(c) = {}
  BY <1>2 DEF Pushed
<1>4. \A s \in Says, c \in Calls, d \in Desks : ~OnItsWay(s, c, d)
  BY DEF Init, OnItsWay
<1>5. QueueInv
  <2>1. \A c \in Calls : ~Claimed(c) /\ queued[c] = 0
    BY DEF Init, Claimed
  <2>. QED
    BY <1>3, <2>1, FS_EmptySet DEF QueueInv
<1>6. StoredInv /\ ClickInv /\ CardInv /\ OpenedWithContext
  BY <1>2 DEF Init, StoredInv, ClickInv, CardInv, OpenedWithContext
<1>7. HeardInv /\ TakenInv
  BY <1>4 DEF Init, HeardInv, TakenInv, Says
<1>8. ReachInv /\ UnclaimedIsOnOffer /\ WaitingIsShown
  BY <1>3 DEF Init, ReachInv, UnclaimedIsOnOffer, WaitingIsShown
<1>. QED
  BY <1>1, <1>5, <1>6, <1>7, <1>8 DEF HandoffInv

LEMMA HandoffStutter == ASSUME HandoffInv, UNCHANGED vars PROVE HandoffInv'
<1>. USE DEF HandoffInv, vars
<1>1. TypeOK' /\ StoredInv' /\ OpenedWithContext' /\ ReachInv'
  BY DEF TypeOK, StoredInv, OpenedWithContext, ReachInv
<1>2. HeardInv' /\ ClickInv' /\ TakenInv' /\ CardInv'
  BY DEF HeardInv, Heard, OnItsWay, ClickInv, TakenInv, CardInv, CallOf, DeskOf
<1>3. \A c \in Calls : Pushed(c)' = Pushed(c) /\ (Claimed(c)' <=> Claimed(c))
  BY DEF Pushed, Claimed, CallOf
<1>4. QueueInv'
  BY <1>3 DEF QueueInv
<1>5. UnclaimedIsOnOffer'
  BY <1>3 DEF UnclaimedIsOnOffer, CallOf, DeskOf
<1>6. WaitingIsShown'
  BY DEF WaitingIsShown, OnItsWay
<1>. QED
  BY <1>1, <1>2, <1>4, <1>5, <1>6

(* The invariant of the handoff: it holds initially, and every step of a   *)
(* handoff, an accept, or a desk keeps it. *)
THEOREM HandoffInvariant == Spec => []HandoffInv
<1>1. Init => HandoffInv
  BY HandoffInit
<1>2. HandoffInv /\ [Next]_vars => HandoffInv'
  <2>1. ASSUME HandoffInv, Next PROVE HandoffInv'
    BY <2>1, TypeStep, StoredStep, HeardStep, ClickStep, TakenStep, CardStep, QueueStep,
       ReachStep, UnclaimedStep, WaitingStep DEF HandoffInv
  <2>. QED
    BY <2>1, HandoffStutter
<1>. QED
  BY <1>1, <1>2, PTL DEF Spec

(* Every variable keeps its type; among them the queue, which never holds  *)
(* more entries of a call than requests to hand it off were made. *)
THEOREM TypeCorrect == Spec => []TypeOK
<1>1. HandoffInv => TypeOK
  BY DEF HandoffInv
<1>. QED
  BY <1>1, HandoffInvariant, PTL

(* No interleaving loses a call: handoff.service.ts pushes it, and while   *)
(* it has no agent it is queued, or an accept of desktop.controller.ts     *)
(* took it off the queue and is to assign it or has failed. *)
THEOREM UnclaimedCallsOnOffer == Spec => []UnclaimedIsOnOffer
<1>1. HandoffInv => UnclaimedIsOnOffer
  BY DEF HandoffInv
<1>. QED
  BY <1>1, HandoffInvariant, PTL

(* A desk that stays online shows every waiting call it was told of: no    *)
(* order of notices and replies takes a card off too early. *)
THEOREM WaitingCallsShown == Spec => []WaitingIsShown
<1>1. HandoffInv => WaitingIsShown
  BY DEF HandoffInv
<1>. QED
  BY <1>1, HandoffInvariant, PTL

(* acceptCall takes a call off the queue, unless it was pushed again. *)
THEOREM TakenLeaves == Spec => []TakenLeavesQueue
<1>1. HandoffInv => TakenLeavesQueue
  <2>. SUFFICES ASSUME HandoffInv, NEW c \in Calls, holder[c] # NoDesk, queued[c] > 0
                PROVE  Cardinality(Pushed(c)) > 1
    BY DEF TakenLeavesQueue
  <2>1. queued[c] + 1 <= Cardinality(Pushed(c))
    BY DEF HandoffInv, QueueInv, Claimed
  <2>2. queued[c] \in Nat /\ Cardinality(Pushed(c)) \in Nat
    BY PushedFinite, HandoffAssumption DEF HandoffInv, TypeOK
  <2>. QED
    BY <2>1, <2>2
<1>. QED
  BY <1>1, HandoffInvariant, PTL

(* An agent opens a call with its context, unless it has expired. *)
THEOREM ContextAtOpening == Spec => []OpenedWithContext
<1>1. HandoffInv => OpenedWithContext
  BY DEF HandoffInv
<1>. QED
  BY <1>1, HandoffInvariant, PTL

-----------------------------------------------------------------------------
(* The page of an agent.  Requests, by what they are about.                *)
CallOps == {"accept", "end", "transfer", "disposition"}

LEMMA RequestFields ==
  ASSUME NEW r \in Request
  PROVE  /\ r.op \in Switches => r.cid \in Cids /\ r.val \in BOOLEAN
         /\ r.op \in CallOps => r.cid \in Cids /\ r.val \in Cids \cup {None}
         /\ r.op = "status" => r.cid = None /\ r.val \in Statuses
         /\ r.op \in Switches \cup CallOps \cup {"status"}
         /\ r.no \in 1..MaxActs
         /\ \A a : LET moved == [r EXCEPT !.at = a]
                   IN /\ moved.op = r.op /\ moved.cid = r.cid /\ moved.val = r.val
                      /\ moved.at = a
BY DEF Request, Switches, CallOps

LEMMA MovedType ==
  ASSUME NEW r \in Request, NEW a \in {"stored", "done", "lost"},
         a = "stored" => r.op = "status"
  PROVE  [r EXCEPT !.at = a] \in Request
BY DEF Request, Switches

LEMMA MovesType ==
  ASSUME PageTypeOK, NEW r \in requests, NEW a \in {"stored", "done", "lost"},
         a = "stored" => r.op = "status", Moves(r, a)
  PROVE  requests' \subseteq Request
<1>1. r \in Request
  BY DEF PageTypeOK
<1>. QED
  BY <1>1, MovedType DEF Moves, PageTypeOK

LEMMA SendsType ==
  ASSUME PageTypeOK, NEW op, NEW c, NEW val, Sends(op, c, val),
         \/ op \in Switches /\ c \in Cids /\ val \in BOOLEAN
         \/ op \in CallOps /\ c \in Cids /\ val \in Cids \cup {None}
         \/ op = "status" /\ c = None /\ val \in Statuses
  PROVE  requests' \subseteq Request /\ acts' \in 0..MaxActs
<1>1. acts' \in 1..MaxActs
  BY DeskAssumption DEF DeskAssumption, Sends, PageTypeOK
<1>2. [op |-> op, cid |-> c, val |-> val, no |-> acts', at |-> "sent"] \in Request
  BY <1>1 DEF Request, CallOps
<1>. QED
  BY <1>1, <1>2 DEF Sends, PageTypeOK

(* Answers to the requests for a caller's history.                         *)
LEMMA AnsweredType ==
  ASSUME PageTypeOK, NEW i \in 1..Len(lookups), HistoryAnswered(i)
  PROVE  /\ lookups' \in Seq(Cids)
         /\ i = 1 => lookups' = Tail(lookups)
         /\ lookups[i] \in Cids
<1>. DEFINE before == SubSeq(lookups, 1, i - 1)
            after == SubSeq(lookups, i + 1, Len(lookups))
<1>1. lookups \in Seq(Cids) /\ Len(lookups) \in Nat /\ i \in Nat
  BY DEF PageTypeOK
<1>2. lookups' = before \o after
  BY DEF HistoryAnswered, Seqs!RemoveAt
<1>3. before \in Seq(Cids) /\ after \in Seq(Cids)
  <2>1. \A j \in 1..(i - 1) : lookups[j] \in Cids
    BY <1>1
  <2>2. \A j \in (i + 1)..Len(lookups) : lookups[j] \in Cids
    BY <1>1
  <2>3. before \in Seq(Cids)
    BY <1>1, <2>1, SubSeqProperties
  <2>. QED
    BY <1>1, <2>2, <2>3, SubSeqProperties
<1>4. lookups' \in Seq(Cids)
  BY <1>2, <1>3
<1>5. ASSUME i = 1 PROVE lookups' = Tail(lookups)
  <2>1. before = <<>>
    BY <1>5, <1>1, SubSeqEmpty
  <2>2. Tail(lookups) = after
    BY <1>1, <1>5, TailIsSubSeq
  <2>. QED
    BY <1>2, <1>3, <2>1, <2>2, ConcatEmptySeq
<1>. QED
  BY <1>1, <1>4, <1>5

-----------------------------------------------------------------------------
(* The types. *)
Message == [says : {"join", "leave"}, cid : Cids]

LEMMA ActiveChangedDoes ==
  ASSUME PageTypeOK, ActiveChanged
  PROVE  \E mid \in Seq(Message) :
           /\ mid = IF ref = None THEN up ELSE Append(up, [says |-> "leave", cid |-> ref])
           /\ up' = IF activeCall = None THEN mid
                    ELSE Append(mid, [says |-> "join", cid |-> activeCall])
           /\ up' \in Seq(Message)
<1>. DEFINE leaves == IF ref = None THEN <<>> ELSE <<[says |-> "leave", cid |-> ref]>>
            joins == IF activeCall = None THEN <<>> ELSE <<[says |-> "join", cid |-> activeCall]>>
            mid == IF ref = None THEN up ELSE Append(up, [says |-> "leave", cid |-> ref])
<1>1. up \in Seq(Message)
  BY DEF PageTypeOK, Message
<1>2. ref # None => [says |-> "leave", cid |-> ref] \in Message
  BY DEF PageTypeOK, Message
<1>3. activeCall # None => [says |-> "join", cid |-> activeCall] \in Message
  BY DEF PageTypeOK, Message
<1>4. mid \in Seq(Message) /\ up \o leaves = mid
  BY <1>1, <1>2, AppendIsConcat, ConcatEmptySeq, AppendProperties
<1>5. mid \o joins = IF activeCall = None THEN mid
                     ELSE Append(mid, [says |-> "join", cid |-> activeCall])
  BY <1>3, <1>4, AppendIsConcat, ConcatEmptySeq
<1>6. up' = mid \o joins
  BY <1>4 DEF ActiveChanged
<1>7. up' \in Seq(Message)
  BY <1>3, <1>4, <1>5, <1>6, AppendProperties
<1>. QED
  BY <1>4, <1>5, <1>6, <1>7

LEMMA PageTypeStep == ASSUME PageTypeOK, [PageNext]_pageVars PROVE PageTypeOK'
<1>. USE DEF page, panel, socket, api, supervisor, traces
<1>1. ASSUME NEW c \in Cids, ClickAccept(c) PROVE PageTypeOK'
  <2>1. requests' \subseteq Request /\ acts' \in 0..MaxActs
    BY <1>1, SendsType DEF ClickAccept, CallOps
  <2>. QED
    BY <1>1, <2>1 DEF ClickAccept, PageTypeOK
<1>2. ASSUME NEW s \in Switches, ClickSwitch(s) PROVE PageTypeOK'
  <2>1. requests' \subseteq Request /\ acts' \in 0..MaxActs
    BY <1>2, SendsType DEF ClickSwitch, PageTypeOK
  <2>. QED
    BY <1>2, <2>1 DEF ClickSwitch, PageTypeOK
<1>3. CASE ClickEndCall \/ HandleTransfer \/ HandleSubmit
  <2>1. requests' \subseteq Request /\ acts' \in 0..MaxActs
    BY <1>3, SendsType DEF ClickEndCall, HandleTransfer, HandleSubmit, CallOps, PageTypeOK
  <2>. QED
    BY <1>3, <2>1 DEF ClickEndCall, HandleTransfer, HandleSubmit, PageTypeOK
<1>4. CASE ShowTransfer \/ CloseTransfer \/ ShowWrapUp \/ ChooseCode \/ CancelWrapUp
  BY <1>4 DEF ShowTransfer, CloseTransfer, ShowWrapUp, ChooseCode, CancelWrapUp, Clicks, OnClose,
              PageTypeOK
<1>5. CASE OpenHistory \/ CloseHistory
  <2>1. ASSUME ref = None \/ CloseHistory PROVE lookups' \in Seq(Cids)
    <3>1. lookups' = <<>>
      BY <1>5, <2>1 DEF OpenHistory, CloseHistory
    <3>. QED
      BY <3>1
  <2>2. ASSUME ref # None, OpenHistory PROVE lookups' \in Seq(Cids)
    <3>1. lookups' = <<ref>> /\ ref \in Cids
      BY <2>2 DEF OpenHistory, PageTypeOK
    <3>. QED
      BY <3>1
  <2>3. lookups' \in Seq(Cids)
    BY <1>5, <2>1, <2>2
  <2>. QED
    BY <1>5, <2>3 DEF OpenHistory, CloseHistory, PageTypeOK
<1>6. ASSUME NEW i \in 1..Len(lookups), HistoryAnswered(i) PROVE PageTypeOK'
  <2>1. lookups' \in Seq(Cids) /\ lookups[i] \in Cids
    BY <1>6, AnsweredType
  <2>. QED
    BY <1>6, <2>1 DEF HistoryAnswered, PageTypeOK
<1>7. CASE ActiveChanged
  <2>1. up' \in Seq(Message)
    BY <1>7, ActiveChangedDoes
  <2>2. lookups' \in Seq(Cids)
    BY <1>7 DEF ActiveChanged, PageTypeOK
  <2>. QED
    BY <1>7, <2>1, <2>2 DEF ActiveChanged, PageTypeOK, Message
<1>8. CASE PageThrows \/ LoseSocket
  <2>1. <<>> \in Seq(Message) /\ <<>> \in Seq(Statuses)
    OBVIOUS
  <2>2. CASE PageThrows
    BY <2>1, <2>2 DEF PageThrows, PageTypeOK, Message
  <2>3. CASE LoseSocket
    <3>1. drops' \in 0..MaxDrops
      BY <2>3, DeskAssumption DEF DeskAssumption, LoseSocket, PageTypeOK
    <3>. QED
      BY <2>1, <2>3, <3>1 DEF LoseSocket, PageTypeOK, Message
  <2>. QED
    BY <1>8, <2>2, <2>3
<1>9. ASSUME NEW r \in requests, Serve(r) PROVE PageTypeOK'
  <2>1. r \in Request
    BY DEF PageTypeOK
  <2>2. requests' \subseteq Request
    BY <1>9, MovesType DEF Serve
  <2>3. issued' \in [Cids -> [Switches -> BOOLEAN]] /\ saved' \in [Cids -> Cids \cup {None}]
    <3>1. CASE ServesSwitch(r)
      BY <3>1, <2>1, RequestFields DEF ServesSwitch, PageTypeOK
    <3>2. CASE SaveDisposition(r)
      BY <3>2, <2>1, RequestFields DEF SaveDisposition, PageTypeOK, CallOps
    <3>3. CASE ServesOther(r)
      BY <3>3 DEF ServesOther, PageTypeOK
    <3>. QED
      BY <1>9, <3>1, <3>2, <3>3 DEF Serve
  <2>. QED
    BY <1>9, <2>2, <2>3 DEF Serve, PageTypeOK
<1>10. ASSUME NEW r \in requests, Lose(r) PROVE PageTypeOK'
  <2>1. r \in Request
    BY DEF PageTypeOK
  <2>2. requests' \subseteq Request
    BY <1>10, MovesType DEF Lose
  <2>3. unsure' \subseteq Cids \X Switches
    BY <1>10, <2>1, RequestFields DEF Lose, PageTypeOK
  <2>. QED
    BY <1>10, <2>2, <2>3 DEF Lose, PageTypeOK
<1>11. ASSUME NEW r \in requests, Fail(r) PROVE PageTypeOK'
  BY <1>11 DEF Fail, PageTypeOK
<1>12. ASSUME NEW r \in requests, SetActiveCall(r) PROVE PageTypeOK'
  <2>1. r.cid \in Cids
    BY <1>12, RequestFields DEF SetActiveCall, PageTypeOK, CallOps
  <2>2. unsure' \subseteq Cids \X Switches
    BY <1>12, <2>1 DEF SetActiveCall, PageTypeOK
  <2>. QED
    BY <1>12, <2>1, <2>2 DEF SetActiveCall, Answered, KeepsRest, PageTypeOK
<1>13. ASSUME NEW r \in requests, SwitchAnswered(r) PROVE PageTypeOK'
  <2>1. r.op \in Switches /\ r.val \in BOOLEAN
    BY <1>13, RequestFields DEF SwitchAnswered, PageTypeOK
  <2>2. unsure' \subseteq Cids \X Switches
    BY <1>13, <2>1 DEF SwitchAnswered, PageTypeOK
  <2>. QED
    BY <1>13, <2>1, <2>2 DEF SwitchAnswered, Answered, KeepsRest, PageTypeOK
<1>14. ASSUME NEW r \in requests, EndAnswered(r) \/ TransferAnswered(r) PROVE PageTypeOK'
  BY <1>14 DEF EndAnswered, TransferAnswered, Answered, KeepsRest, PageTypeOK
<1>15. ASSUME NEW r \in requests, DispositionAnswered(r) PROVE PageTypeOK'
  BY <1>15 DEF DispositionAnswered, OnClose, Answered, KeepsRest, PageTypeOK
<1>16. ASSUME NEW r \in requests, StoreStatus(r) \/ PublishStatus(r) PROVE PageTypeOK'
  <2>1. r \in Request /\ r.val \in Statuses
    BY <1>16, RequestFields DEF StoreStatus, PublishStatus, PageTypeOK
  <2>2. requests' \subseteq Request
    <3>1. CASE StoreStatus(r)
      BY <3>1, MovesType DEF StoreStatus
    <3>2. CASE PublishStatus(r)
      BY <3>2 DEF PublishStatus, PageTypeOK
    <3>. QED
      BY <1>16, <3>1, <3>2
  <2>3. notices' \in Seq(Statuses)
    <3>1. notices \in Seq(Statuses) /\ notices' \in {notices, Append(notices, r.val)}
      BY <1>16 DEF StoreStatus, PublishStatus, PageTypeOK
    <3>. QED
      BY <2>1, <3>1, AppendProperties
  <2>. QED
    BY <1>16, <2>1, <2>2, <2>3 DEF StoreStatus, PublishStatus, PageTypeOK
<1>17. CASE HandleCallJoin \/ HandleCallLeave
  <2>1. Head(up) \in Message /\ Tail(up) \in Seq(Message)
    BY <1>17, HeadTailProperties DEF HandleCallJoin, HandleCallLeave, PageTypeOK, Message
  <2>. QED
    BY <1>17, <2>1 DEF HandleCallJoin, HandleCallLeave, PageTypeOK, Message
<1>18. CASE Connect
  <2>1. up \in Seq(Message) /\ (ref # None => [says |-> "join", cid |-> ref] \in Message)
    BY DEF PageTypeOK, Message
  <2>2. up' \in Seq(Message)
    BY <1>18, <2>1, AppendProperties DEF Connect
  <2>. QED
    BY <1>18, <2>2 DEF Connect, PageTypeOK, Message
<1>19. ASSUME NEW s \in Statuses, HandleSetStatus(s) PROVE PageTypeOK'
  <2>1. requests' \subseteq Request /\ acts' \in 0..MaxActs
    BY <1>19, SendsType DEF HandleSetStatus
  <2>. QED
    BY <1>19, <2>1 DEF HandleSetStatus, PageTypeOK
<1>20. CASE UpdateTeamMemberStatus
  BY <1>20, HeadTailProperties DEF UpdateTeamMemberStatus, PageTypeOK
<1>21. ASSUME NEW f \in Fetches, AskTeam(f) \/ GetTeam(f) \/ SetTeam(f) \/ FetchFails(f)
       PROVE  PageTypeOK'
  BY <1>21 DEF AskTeam, GetTeam, SetTeam, FetchFails, PageTypeOK
<1>22. CASE UNCHANGED pageVars
  BY <1>22 DEF pageVars, PageTypeOK
<1>. QED
  BY <1>1, <1>2, <1>3, <1>4, <1>5, <1>6, <1>7, <1>8, <1>9, <1>10, <1>11, <1>12, <1>13, <1>14,
     <1>15, <1>16, <1>17, <1>18, <1>19, <1>20, <1>21, <1>22
  DEF PageNext, HandleHold, HandleMute, Switches

-----------------------------------------------------------------------------
(* The rooms.  Once the gateway has handled u, a socket that is in the     *)
(* rooms r is in the room of c. *)
InRoom(u, r, c) ==
  \/ \E i \in 1..Len(u) : /\ u[i] = [says |-> "join", cid |-> c]
                          /\ \A j \in (i + 1)..Len(u) : u[j].cid # c
  \/ c \in r /\ \A i \in 1..Len(u) : u[i].cid # c

(* What is on its way takes a connected socket to the room of ref, and no  *)
(* other; a socket that is lost may be taken to no room but that one. *)
RoomInv ==
  \A c \in Cids : /\ InRoom(up, rooms, c) => c = ref
                  /\ connected /\ c = ref => InRoom(up, rooms, c)

LEMMA InRoomAppend ==
  ASSUME NEW u \in Seq(Message), NEW m \in Message, NEW r, NEW c \in Cids
  PROVE  InRoom(Append(u, m), r, c) <=> IF m.cid = c THEN m.says = "join" ELSE InRoom(u, r, c)
<1>. DEFINE v == Append(u, m)
            n == Len(u)
<1>1. /\ n \in Nat /\ Len(v) = n + 1 /\ v[n + 1] = m
      /\ \A i \in 1..n : v[i] = u[i]
  OBVIOUS
<1>. HIDE DEF v, n
<1>2. CASE m.cid = c
  <2>1. ~\A j \in 1..Len(v) : v[j].cid # c
    BY <1>1, <1>2
  <2>2. \A i \in 1..n : ~\A j \in (i + 1)..Len(v) : v[j].cid # c
    BY <1>1, <1>2
  <2>3. m.says = "join" => v[n + 1] = [says |-> "join", cid |-> c]
    BY <1>1, <1>2 DEF Message
  <2>4. InRoom(v, r, c) <=> m.says = "join"
    BY <1>1, <1>2, <2>1, <2>2, <2>3 DEF InRoom
  <2>. QED
    BY <1>2, <2>4 DEF v
<1>3. CASE m.cid # c
  <2>1. (\A j \in 1..Len(v) : v[j].cid # c) <=> \A j \in 1..n : u[j].cid # c
    BY <1>1, <1>3
  <2>2. ASSUME NEW i \in 1..n
        PROVE  (\A j \in (i + 1)..Len(v) : v[j].cid # c) <=> \A j \in (i + 1)..n : u[j].cid # c
    BY <1>1, <1>3
  <2>3. v[n + 1] # [says |-> "join", cid |-> c]
    BY <1>1, <1>3
  <2>4. (\E i \in 1..Len(v) : /\ v[i] = [says |-> "join", cid |-> c]
                              /\ \A j \in (i + 1)..Len(v) : v[j].cid # c)
        <=> \E i \in 1..n : /\ u[i] = [says |-> "join", cid |-> c]
                            /\ \A j \in (i + 1)..n : u[j].cid # c
    <3>1. \A i \in 1..Len(v) : i = n + 1 \/ i \in 1..n
      BY <1>1
    <3>2. \A i \in 1..n : i \in 1..Len(v) /\ v[i] = u[i]
      BY <1>1
    <3>. QED
      BY <2>2, <2>3, <3>1, <3>2
  <2>5. InRoom(v, r, c) <=> InRoom(u, r, c)
    BY <2>1, <2>4 DEF InRoom, n
  <2>. QED
    BY <1>3, <2>5 DEF v
<1>. QED
  BY <1>2, <1>3

LEMMA InRoomHandled ==
  ASSUME NEW u \in Seq(Message), u # <<>>, NEW r, NEW s, NEW c \in Cids,
         Head(u).says = "join" => s = r \cup {Head(u).cid},
         Head(u).says = "leave" => s = r \ {Head(u).cid}
  PROVE  InRoom(Tail(u), s, c) <=> InRoom(u, r, c)
<1>. DEFINE v == Tail(u)
            n == Len(u)
<1>1. /\ n \in Nat \ {0} /\ Len(v) = n - 1 /\ Head(u) = u[1] /\ u[1] \in Message
      /\ \A i \in 1..(n - 1) : v[i] = u[i + 1]
  OBVIOUS
<1>. HIDE DEF v, n
<1>2. ASSUME NEW i \in 0..(n - 1)
      PROVE  (\A j \in (i + 1)..Len(v) : v[j].cid # c) <=> \A j \in (i + 2)..n : u[j].cid # c
  <2>1. \A j \in (i + 1)..Len(v) : v[j] = u[j + 1] /\ j + 1 \in (i + 2)..n
    BY <1>1
  <2>2. \A j \in (i + 2)..n : u[j] = v[j - 1] /\ j - 1 \in (i + 1)..Len(v)
    BY <1>1
  <2>. QED
    BY <2>1, <2>2
<1>3. (\E i \in 1..Len(v) : /\ v[i] = [says |-> "join", cid |-> c]
                            /\ \A j \in (i + 1)..Len(v) : v[j].cid # c)
      <=> \E i \in 2..n : /\ u[i] = [says |-> "join", cid |-> c]
                          /\ \A j \in (i + 1)..n : u[j].cid # c
  <2>1. \A i \in 1..Len(v) : i + 1 \in 2..n /\ v[i] = u[i + 1]
    BY <1>1
  <2>2. \A i \in 2..n : i - 1 \in 1..Len(v) /\ v[i - 1] = u[i]
    BY <1>1
  <2>3. ASSUME NEW i \in 1..Len(v), v[i] = [says |-> "join", cid |-> c],
               \A j \in (i + 1)..Len(v) : v[j].cid # c
        PROVE  \E k \in 2..n : /\ u[k] = [says |-> "join", cid |-> c]
                               /\ \A j \in (k + 1)..n : u[j].cid # c
    <3>1. i \in 0..(n - 1) /\ (i + 1) + 1 = i + 2
      BY <1>1
    <3>2. \A j \in ((i + 1) + 1)..n : u[j].cid # c
      BY <1>2, <2>3, <3>1
    <3>. QED
      BY <2>1, <2>3, <3>2
  <2>4. ASSUME NEW k \in 2..n, u[k] = [says |-> "join", cid |-> c],
               \A j \in (k + 1)..n : u[j].cid # c
        PROVE  \E i \in 1..Len(v) : /\ v[i] = [says |-> "join", cid |-> c]
                                    /\ \A j \in (i + 1)..Len(v) : v[j].cid # c
    <3>1. k - 1 \in 0..(n - 1) /\ (k - 1) + 2 = k + 1
      BY <1>1
    <3>2. \A j \in ((k - 1) + 1)..Len(v) : v[j].cid # c
      BY <1>2, <2>4, <3>1
    <3>. QED
      BY <2>2, <2>4, <3>2
  <2>. QED
    BY <2>3, <2>4
<1>4. (\A j \in 1..Len(v) : v[j].cid # c) <=> \A j \in 2..n : u[j].cid # c
  <2>1. 0 \in 0..(n - 1) /\ 0 + 1 = 1 /\ 0 + 2 = 2
    BY <1>1
  <2>. QED
    BY <1>2, <2>1
<1>5. InRoom(v, s, c) <=> \/ \E i \in 2..n : /\ u[i] = [says |-> "join", cid |-> c]
                                             /\ \A j \in (i + 1)..n : u[j].cid # c
                          \/ c \in s /\ \A j \in 2..n : u[j].cid # c
  BY <1>3, <1>4 DEF InRoom
<1>6. c \in s <=> u[1] = [says |-> "join", cid |-> c] \/ (c \in r /\ u[1].cid # c)
  BY <1>1 DEF Message
<1>7. InRoom(u, r, c) <=> \/ \E i \in 1..n : /\ u[i] = [says |-> "join", cid |-> c]
                                             /\ \A j \in (i + 1)..n : u[j].cid # c
                          \/ c \in r /\ \A j \in 1..n : u[j].cid # c
  BY DEF InRoom, n
<1>8. (\E i \in 1..n : /\ u[i] = [says |-> "join", cid |-> c]
                       /\ \A j \in (i + 1)..n : u[j].cid # c)
      <=> \/ \E i \in 2..n : /\ u[i] = [says |-> "join", cid |-> c]
                             /\ \A j \in (i + 1)..n : u[j].cid # c
          \/ u[1] = [says |-> "join", cid |-> c] /\ \A j \in 2..n : u[j].cid # c
  <2>1. \A i \in 1..n : i = 1 \/ i \in 2..n
    BY <1>1
  <2>2. 1 \in 1..n /\ 1 + 1 = 2 /\ \A i \in 2..n : i \in 1..n
    BY <1>1
  <2>. QED
    BY <2>1, <2>2
<1>9. (\A j \in 1..n : u[j].cid # c) <=> u[1].cid # c /\ \A j \in 2..n : u[j].cid # c
  BY <1>1
<1>10. InRoom(v, s, c) <=> InRoom(u, r, c)
  BY <1>5, <1>6, <1>7, <1>8, <1>9
<1>. QED
  BY <1>10 DEF v

LEMMA SocketSteps ==
  ASSUME [PageNext]_pageVars
  PROVE  \/ ActiveChanged \/ PageThrows \/ HandleCallJoin \/ HandleCallLeave
         \/ LoseSocket \/ Connect
         \/ UNCHANGED <<ref, connected, up, rooms>>
<1>. USE DEF socket
<1>1. CASE \/ \E c \in Cids : ClickAccept(c)
           \/ HandleHold \/ HandleMute \/ ClickEndCall \/ HandleTransfer \/ HandleSubmit
  BY <1>1 DEF ClickAccept, HandleHold, HandleMute, ClickSwitch, ClickEndCall, HandleTransfer,
              HandleSubmit
<1>2. CASE ShowTransfer \/ CloseTransfer \/ ShowWrapUp \/ ChooseCode \/ CancelWrapUp
  BY <1>2 DEF ShowTransfer, CloseTransfer, ShowWrapUp, ChooseCode, CancelWrapUp, Clicks
<1>3. CASE OpenHistory \/ CloseHistory \/ \E i \in 1..Len(lookups) : HistoryAnswered(i)
  BY <1>3 DEF OpenHistory, CloseHistory, HistoryAnswered
<1>4. ASSUME NEW r \in requests,
             \/ Serve(r) \/ Lose(r) \/ Fail(r) \/ StoreStatus(r) \/ PublishStatus(r)
             \/ SetActiveCall(r) \/ SwitchAnswered(r) \/ EndAnswered(r)
             \/ TransferAnswered(r) \/ DispositionAnswered(r)
      PROVE  UNCHANGED <<ref, connected, up, rooms>>
  BY <1>4 DEF Serve, Lose, Fail, StoreStatus, PublishStatus, SetActiveCall, SwitchAnswered,
              EndAnswered, TransferAnswered, DispositionAnswered, KeepsRest
<1>5. CASE (\E s \in Statuses : HandleSetStatus(s)) \/ UpdateTeamMemberStatus
  BY <1>5 DEF HandleSetStatus, UpdateTeamMemberStatus
<1>6. CASE \E f \in Fetches : AskTeam(f) \/ GetTeam(f) \/ SetTeam(f) \/ FetchFails(f)
  BY <1>6 DEF AskTeam, GetTeam, SetTeam, FetchFails
<1>7. CASE UNCHANGED pageVars
  BY <1>7 DEF pageVars
<1>. QED
  BY <1>1, <1>2, <1>3, <1>4, <1>5, <1>6, <1>7 DEF PageNext

LEMMA RoomStep == ASSUME PageTypeOK, RoomInv, [PageNext]_pageVars PROVE RoomInv'
<1>1. up \in Seq(Message)
  BY DEF PageTypeOK, Message
<1>2. CASE UNCHANGED <<ref, connected, up, rooms>>
  BY <1>2 DEF RoomInv
<1>3. CASE ActiveChanged
  <2>1. PICK mid \in Seq(Message) :
          /\ mid = IF ref = None THEN up ELSE Append(up, [says |-> "leave", cid |-> ref])
          /\ up' = IF activeCall = None THEN mid
                   ELSE Append(mid, [says |-> "join", cid |-> activeCall])
    BY <1>3, ActiveChangedDoes
  <2>2. ASSUME NEW c \in Cids PROVE ~InRoom(mid, rooms, c)
    <3>1. CASE ref = None
      BY <2>1, <3>1, DeskAssumption DEF RoomInv, DeskAssumption
    <3>2. CASE ref # None
      <4>. DEFINE m == [says |-> "leave", cid |-> ref]
      <4>1. m \in Message
        BY <3>2 DEF PageTypeOK, Message
      <4>2. InRoom(mid, rooms, c) <=> IF m.cid = c THEN m.says = "join" ELSE InRoom(up, rooms, c)
        BY <1>1, <2>1, <3>2, <4>1, InRoomAppend
      <4>. QED
        BY <4>2 DEF RoomInv
    <3>. QED
      BY <3>1, <3>2
  <2>3. rooms' = rooms /\ ref' = activeCall
    BY <1>3 DEF ActiveChanged
  <2>4. ASSUME NEW c \in Cids PROVE InRoom(up', rooms', c) <=> c = activeCall
    <3>1. CASE activeCall = None
      BY <2>1, <2>2, <2>3, <3>1, DeskAssumption DEF DeskAssumption
    <3>2. CASE activeCall # None
      <4>. DEFINE m == [says |-> "join", cid |-> activeCall]
      <4>1. m \in Message
        BY <3>2 DEF PageTypeOK, Message
      <4>2. InRoom(up', rooms, c) <=> IF m.cid = c THEN m.says = "join" ELSE InRoom(mid, rooms, c)
        BY <2>1, <3>2, <4>1, InRoomAppend
      <4>. QED
        BY <2>2, <2>3, <4>2
    <3>. QED
      BY <3>1, <3>2
  <2>. QED
    BY <2>3, <2>4 DEF RoomInv
<1>4. CASE PageThrows \/ LoseSocket
  <2>1. up' = <<>> /\ rooms' = {} /\ ~connected'
    BY <1>4 DEF PageThrows, LoseSocket
  <2>. QED
    BY <2>1 DEF RoomInv, InRoom
<1>5. CASE HandleCallJoin \/ HandleCallLeave
  <2>1. \A c \in Cids : InRoom(up', rooms', c) <=> InRoom(up, rooms, c)
    <3>. SUFFICES ASSUME NEW c \in Cids PROVE InRoom(up', rooms', c) <=> InRoom(up, rooms, c)
      OBVIOUS
    <3>1. up # <<>> /\ up' = Tail(up) /\ Head(up).says \in {"join", "leave"}
      BY <1>5 DEF HandleCallJoin, HandleCallLeave
    <3>2. CASE Head(up).says = "join"
      <4>1. rooms' = rooms \cup {Head(up).cid}
        BY <1>5, <3>2 DEF HandleCallJoin, HandleCallLeave
      <4>. QED
        BY <1>1, <3>1, <3>2, <4>1, InRoomHandled
    <3>3. CASE Head(up).says = "leave"
      <4>1. rooms' = rooms \ {Head(up).cid}
        BY <1>5, <3>3 DEF HandleCallJoin, HandleCallLeave
      <4>. QED
        BY <1>1, <3>1, <3>3, <4>1, InRoomHandled
    <3>. QED
      BY <3>1, <3>2, <3>3
  <2>2. UNCHANGED <<ref, connected>>
    BY <1>5 DEF HandleCallJoin, HandleCallLeave
  <2>. QED
    BY <2>1, <2>2 DEF RoomInv
<1>6. CASE Connect
  <2>1. UNCHANGED <<ref, rooms>>
    BY <1>6 DEF Connect
  <2>2. CASE ref = None
    <3>1. up' = up
      BY <1>6, <2>2 DEF Connect
    <3>. QED
      BY <2>1, <2>2, <3>1, DeskAssumption DEF RoomInv, DeskAssumption
  <2>3. CASE ref # None
    <3>. DEFINE m == [says |-> "join", cid |-> ref]
    <3>1. m \in Message /\ up' = Append(up, m)
      BY <1>6, <2>3 DEF Connect, PageTypeOK, Message
    <3>2. ASSUME NEW c \in Cids PROVE InRoom(up', rooms, c) <=> c = ref
      <4>1. InRoom(up', rooms, c) <=> IF m.cid = c THEN m.says = "join" ELSE InRoom(up, rooms, c)
        BY <1>1, <3>1, InRoomAppend
      <4>. QED
        BY <4>1 DEF RoomInv
    <3>. QED
      BY <2>1, <3>2 DEF RoomInv
  <2>. QED
    BY <2>2, <2>3
<1>. QED
  BY <1>2, <1>3, <1>4, <1>5, <1>6, SocketSteps

(* The state the page and its socket keep stays of its types. *)
THEOREM PageTypeCorrect == PageSpec => []PageTypeOK
<1>1. PageInit => PageTypeOK
  <2>. SUFFICES ASSUME PageInit PROVE PageTypeOK
    OBVIOUS
  <2>1. /\ lookups \in Seq(Cids) /\ notices \in Seq(Statuses)
        /\ up \in Seq([says : {"join", "leave"}, cid : Cids])
    BY DEF PageInit
  <2>2. /\ duty \in Duties
        /\ acts \in 0..MaxActs /\ drops \in 0..MaxDrops
    BY DeskAssumption DEF DeskAssumption, PageInit
  <2>3. {wrapUp, transfer, tab, thrown, connected, crossed} \subseteq BOOLEAN
    BY DEF PageInit
  <2>4. /\ flag \in [Switches -> BOOLEAN]
        /\ issued \in [Cids -> [Switches -> BOOLEAN]]
        /\ saved \in [Cids -> Cids \cup {None}]
    BY DEF PageInit
  <2>5. /\ stored \in Statuses /\ team \in Statuses
        /\ fetch \in [Fetches -> Statuses \cup {"none", "asked"}]
    BY DeskAssumption DEF DeskAssumption, PageInit
  <2>. QED
    BY <2>1, <2>2, <2>3, <2>4, <2>5 DEF PageInit, PageTypeOK
<1>. QED
  BY <1>1, PageTypeStep, PTL DEF PageSpec

(* Whatever calls are opened and whatever sockets are lost and come back,  *)
(* a page whose messages have been handled is in the room of the call it   *)
(* shows and in no other. *)
THEOREM RoomOfTheCall == PageSpec => []RoomIsCall
<1>1. PageInit => RoomInv
  BY DeskAssumption DEF DeskAssumption, PageInit, RoomInv, InRoom
<1>2. PageTypeOK /\ RoomInv => RoomIsCall
  <2>. SUFFICES ASSUME PageTypeOK, RoomInv, connected, up = <<>>, ref = activeCall
                PROVE  rooms = {activeCall} \ {None}
    BY DEF RoomIsCall
  <2>1. \A c \in Cids : InRoom(up, rooms, c) <=> c \in rooms
    BY DEF InRoom
  <2>2. rooms \subseteq Cids /\ activeCall \in Cids \cup {None}
    BY DEF PageTypeOK
  <2>. QED
    BY <2>1, <2>2, DeskAssumption DEF RoomInv, DeskAssumption
<1>. QED
  BY <1>1, <1>2, RoomStep, PageTypeCorrect, PTL DEF PageSpec

-----------------------------------------------------------------------------
(* The switches and the wrap-up dialog.  Most steps leave alone what they  *)
(* are about, and the requests that change it. *)
Marked == Switches \cup {"disposition"}

Quiet ==
  /\ UNCHANGED <<activeCall, flag, wrapUp, form, issued, saved>>
  /\ UNCHANGED <<unsure, carried, overtaken, completed>>
  /\ \A q : q.op \in Marked => (q \in requests' <=> q \in requests)

LEMMA QuietMove ==
  ASSUME PageTypeOK, NEW r \in requests, r.op \notin Marked,
         NEW a \in {"stored", "done", "lost"}, Moves(r, a)
  PROVE  \A q : q.op \in Marked => (q \in requests' <=> q \in requests)
<1>1. [r EXCEPT !.at = a].op = r.op
  BY RequestFields DEF PageTypeOK
<1>. QED
  BY <1>1 DEF Moves

LEMMA QuietSend ==
  ASSUME NEW op, op \notin Marked, NEW c, NEW val, Sends(op, c, val)
  PROVE  \A q : q.op \in Marked => (q \in requests' <=> q \in requests)
BY DEF Sends

LEMMA QuietSteps ==
  ASSUME PageTypeOK, [PageNext]_pageVars
  PROVE  \/ Quiet
         \/ HandleSubmit \/ ShowWrapUp \/ ChooseCode \/ CancelWrapUp
         \/ \E s \in Switches : ClickSwitch(s)
         \/ \E r \in requests : r.op \in Marked /\ (Serve(r) \/ Lose(r) \/ Fail(r))
         \/ \E r \in requests : \/ SetActiveCall(r) \/ SwitchAnswered(r) \/ EndAnswered(r)
                                \/ DispositionAnswered(r)
<1>. USE DEF page, api, traces
<1>. DEFINE Same == /\ UNCHANGED <<activeCall, flag, wrapUp, form, issued, saved>>
                    /\ UNCHANGED <<unsure, carried, overtaken, completed>>
<1>1. ASSUME NEW c \in Cids, ClickAccept(c) PROVE Quiet
  <2>1. Sends("accept", c, None) /\ Same
    BY <1>1 DEF ClickAccept
  <2>. QED
    BY <2>1, QuietSend DEF Quiet, Marked, Switches
<1>2. ASSUME ClickEndCall \/ HandleTransfer PROVE Quiet
  <2>1. (Sends("end", activeCall, None) \/ Sends("transfer", activeCall, None)) /\ Same
    BY <1>2 DEF ClickEndCall, HandleTransfer
  <2>. QED
    BY <2>1, QuietSend DEF Quiet, Marked, Switches
<1>3. ASSUME NEW s \in Statuses, HandleSetStatus(s) PROVE Quiet
  <2>1. Sends("status", None, s) /\ Same
    BY <1>3 DEF HandleSetStatus
  <2>. QED
    BY <2>1, QuietSend DEF Quiet, Marked, Switches
<1>4. ASSUME NEW r \in requests, r.op \notin Marked, Serve(r) \/ Lose(r) PROVE Quiet
  <2>1. Same
    BY <1>4 DEF Serve, Lose, ServesSwitch, SaveDisposition, ServesOther, Marked
  <2>. QED
    BY <1>4, <2>1, QuietMove DEF Quiet, Serve, Lose
<1>5. ASSUME NEW r \in requests, r.op \notin Marked, Fail(r) PROVE Quiet
  BY <1>5 DEF Fail, Quiet
<1>6. ASSUME NEW r \in requests, TransferAnswered(r) PROVE Quiet
  BY <1>6 DEF TransferAnswered, Answered, KeepsRest, Quiet, Marked, Switches
<1>7. ASSUME NEW r \in requests, StoreStatus(r) PROVE Quiet
  <2>1. Moves(r, "stored") /\ r.op \notin Marked /\ Same
    BY <1>7 DEF StoreStatus, Marked, Switches
  <2>. QED
    BY <2>1, QuietMove DEF Quiet
<1>8. ASSUME NEW r \in requests, PublishStatus(r) PROVE Quiet
  BY <1>8 DEF PublishStatus, Quiet, Marked, Switches
<1>9. ASSUME Same, UNCHANGED requests PROVE Quiet
  BY <1>9 DEF Quiet
<1>10. CASE ShowTransfer \/ CloseTransfer
  BY <1>10, <1>9 DEF ShowTransfer, CloseTransfer, Clicks
<1>11. CASE OpenHistory \/ CloseHistory \/ \E i \in 1..Len(lookups) : HistoryAnswered(i)
  BY <1>11, <1>9 DEF OpenHistory, CloseHistory, HistoryAnswered
<1>12. CASE \/ ActiveChanged \/ PageThrows \/ HandleCallJoin
            \/ HandleCallLeave \/ LoseSocket \/ Connect
  BY <1>12, <1>9 DEF ActiveChanged, PageThrows, HandleCallJoin, HandleCallLeave, LoseSocket, Connect
<1>13. CASE UpdateTeamMemberStatus
  BY <1>13, <1>9 DEF UpdateTeamMemberStatus
<1>14. CASE \E f \in Fetches : AskTeam(f) \/ GetTeam(f) \/ SetTeam(f) \/ FetchFails(f)
  BY <1>14, <1>9 DEF AskTeam, GetTeam, SetTeam, FetchFails
<1>15. CASE UNCHANGED pageVars
  BY <1>15, <1>9 DEF pageVars
<1>16. CASE HandleHold \/ HandleMute
  BY <1>16 DEF HandleHold, HandleMute, Switches
<1>. QED
  BY <1>1, <1>2, <1>3, <1>4, <1>5, <1>6, <1>7, <1>8, <1>10, <1>11, <1>12, <1>13, <1>14, <1>15,
     <1>16 DEF PageNext

-----------------------------------------------------------------------------
(* The flag of a switch is what was commanded last, but for the command    *)
(* under way, of which there is one; one whose answer is there has been    *)
(* carried out, one that was lost has not. *)
FlagInv ==
  \A s \in Switches :
    activeCall # None /\ <<activeCall, s>> \notin unsure =>
      \/ Pending(s, activeCall) = {} /\ flag[s] = issued[activeCall][s]
      \/ \E r \in requests :
           /\ Pending(s, activeCall) = {r}
           /\ issued[activeCall][s] = IF r.at = "done" THEN r.val ELSE flag[s]

LEMMA FlagKept ==
  ASSUME FlagInv, activeCall' \in {activeCall, None}, UNCHANGED <<flag, issued, unsure>>,
         \A q : q.op \in Switches => (q \in requests' <=> q \in requests)
  PROVE  FlagInv'
<1>. SUFFICES ASSUME NEW s \in Switches, activeCall' # None, <<activeCall', s>> \notin unsure'
              PROVE  \/ Pending(s, activeCall)' = {} /\ flag'[s] = issued'[activeCall'][s]
                     \/ \E r \in requests' :
                          /\ Pending(s, activeCall)' = {r}
                          /\ issued'[activeCall'][s] = IF r.at = "done" THEN r.val ELSE flag'[s]
  BY DEF FlagInv
<1>1. activeCall' = activeCall
  OBVIOUS
<1>2. Pending(s, activeCall)' = Pending(s, activeCall)
  BY <1>1 DEF Pending
<1>3. \A r : r \in Pending(s, activeCall) => r \in requests'
  BY DEF Pending
<1>. QED
  BY <1>1, <1>2, <1>3 DEF FlagInv

(* A command under way is carried out, gets lost or fails. *)
LEMMA FlagMoved ==
  ASSUME PageTypeOK, FlagInv, NEW r \in requests, r.op \in Switches,
         Serve(r) \/ Lose(r) \/ Fail(r)
  PROVE  FlagInv'
<1>. USE DEF page
<1>1. /\ r \in Request /\ r.cid \in Cids
      /\ \A a : LET m == [r EXCEPT !.at = a]
                IN m.op = r.op /\ m.cid = r.cid /\ m.val = r.val /\ m.at = a
  BY RequestFields DEF PageTypeOK
<1>2. UNCHANGED <<activeCall, flag>> /\ unsure \subseteq unsure'
  BY DEF Serve, Lose, Fail, traces
<1>. SUFFICES ASSUME NEW s \in Switches, activeCall # None, <<activeCall, s>> \notin unsure'
              PROVE  \/ Pending(s, activeCall)' = {} /\ flag[s] = issued'[activeCall][s]
                     \/ \E q \in requests' :
                          /\ Pending(s, activeCall)' = {q}
                          /\ issued'[activeCall][s] = IF q.at = "done" THEN q.val ELSE flag[s]
  BY <1>2 DEF FlagInv
<1>3. <<activeCall, s>> \notin unsure /\ activeCall \in Cids
  BY <1>2 DEF PageTypeOK
<1>4. issued' = IF Serve(r) THEN [issued EXCEPT ![r.cid][r.op] = r.val] ELSE issued
  BY DEF Serve, Lose, Fail, ServesSwitch, SaveDisposition, ServesOther, api, Switches
<1>5. CASE r.op # s \/ r.cid # activeCall
  <2>1. issued'[activeCall][s] = issued[activeCall][s]
    BY <1>1, <1>3, <1>4, <1>5 DEF PageTypeOK
  <2>2. Pending(s, activeCall)' = Pending(s, activeCall)
    <3>1. PICK a : Moves(r, a) \/ requests' = requests \ {r}
      BY DEF Serve, Lose, Fail
    <3>2. LET m == [r EXCEPT !.at = a] IN m.op = r.op /\ m.cid = r.cid
      BY <1>1
    <3>3. \A q : q.op = s /\ q.cid = activeCall => (q \in requests' <=> q \in requests)
      BY <1>5, <3>1, <3>2 DEF Moves
    <3>. QED
      BY <1>2, <3>3 DEF Pending
  <2>3. \A q \in Pending(s, activeCall)' : q \in requests'
    BY <1>2 DEF Pending
  <2>. QED
    BY <1>3, <2>1, <2>2, <2>3 DEF FlagInv
<1>6. CASE r.op = s /\ r.cid = activeCall
  <2>1. /\ Pending(s, activeCall) = {r}
        /\ issued[activeCall][s] = IF r.at = "done" THEN r.val ELSE flag[s]
    BY <1>3, <1>6 DEF FlagInv, Pending
  <2>2. ASSUME NEW a, Moves(r, a) PROVE Pending(s, activeCall)' = {[r EXCEPT !.at = a]}
    <3>. DEFINE m == [r EXCEPT !.at = a]
    <3>1. m.op = s /\ m.cid = activeCall
      BY <1>1, <1>6
    <3>2. requests' = (requests \ {r}) \cup {m} /\ activeCall' = activeCall
      BY <1>2, <2>2 DEF Moves
    <3>. HIDE DEF m
    <3>3. \A q \in requests : q.op = s /\ q.cid = activeCall => q = r
      BY <2>1 DEF Pending
    <3>4. Pending(s, activeCall)' = {m}
      BY <3>1, <3>2, <3>3 DEF Pending
    <3>. QED
      BY <3>4 DEF m
  <2>3. CASE Serve(r)
    <3>1. Moves(r, "done") /\ issued'[activeCall][s] = r.val
      BY <1>1, <1>3, <1>4, <1>6, <2>3 DEF Serve, PageTypeOK
    <3>. QED
      BY <1>1, <2>2, <3>1 DEF Moves
  <2>4. CASE Lose(r)
    <3>1. Moves(r, "lost") /\ issued' = issued /\ r.at # "done"
      BY <1>6, <2>4 DEF Lose, api
    <3>2. [r EXCEPT !.at = "lost"] \in requests' /\ [r EXCEPT !.at = "lost"].at # "done"
      BY <1>1, <3>1 DEF Moves
    <3>. QED
      BY <2>1, <2>2, <3>1, <3>2
  <2>5. CASE Fail(r)
    <3>1. Pending(s, activeCall)' = {} /\ issued' = issued /\ r.at # "done"
      BY <1>2, <1>6, <2>1, <2>5 DEF Fail, Pending, api
    <3>. QED
      BY <2>1, <3>1
  <2>. QED
    BY <2>3, <2>4, <2>5
<1>. QED
  BY <1>5, <1>6

LEMMA FlagStep == ASSUME PageTypeOK, FlagInv, [PageNext]_pageVars PROVE FlagInv'
<1>. USE DEF page, api, traces
<1>1. CASE Quiet
  BY <1>1, FlagKept DEF Quiet, Marked
<1>2. CASE HandleSubmit
  BY <1>2, FlagKept DEF HandleSubmit, Sends, Switches
<1>3. CASE ShowWrapUp \/ ChooseCode \/ CancelWrapUp
  BY <1>3, FlagKept DEF ShowWrapUp, ChooseCode, CancelWrapUp, Clicks, OnClose
<1>4. ASSUME NEW t \in Switches, ClickSwitch(t) PROVE FlagInv'
  <2>1. UNCHANGED <<activeCall, flag, issued>> /\ unsure \subseteq unsure'
    BY <1>4 DEF ClickSwitch
  <2>. DEFINE q == [op |-> t, cid |-> activeCall, val |-> ~flag[t], no |-> acts', at |-> "sent"]
  <2>2. /\ q.op = t /\ q.cid = activeCall /\ q.at = "sent"
        /\ requests' = requests \cup {q}
    BY <1>4 DEF ClickSwitch, Sends
  <2>. HIDE DEF q
  <2>. SUFFICES ASSUME NEW s \in Switches, activeCall # None, <<activeCall, s>> \notin unsure'
                PROVE  \/ Pending(s, activeCall)' = {} /\ flag[s] = issued[activeCall][s]
                       \/ \E r \in requests' :
                            /\ Pending(s, activeCall)' = {r}
                            /\ issued[activeCall][s] = IF r.at = "done" THEN r.val ELSE flag[s]
    BY <2>1 DEF FlagInv
  <2>3. CASE s = t
    <3>1. Pending(s, activeCall) = {}
      BY <1>4, <2>3 DEF ClickSwitch
    <3>2. Pending(s, activeCall)' = {q}
      BY <2>1, <2>2, <2>3, <3>1 DEF Pending
    <3>3. flag[s] = issued[activeCall][s]
      BY <2>1, <3>1 DEF FlagInv
    <3>. QED
      BY <2>2, <3>2, <3>3
  <2>4. CASE s # t
    <3>1. Pending(s, activeCall)' = Pending(s, activeCall)
      BY <2>1, <2>2, <2>4 DEF Pending
    <3>. QED
      BY <2>1, <2>2, <3>1 DEF FlagInv
  <2>. QED
    BY <2>3, <2>4
<1>5. ASSUME NEW r \in requests, r.op \in Marked, Serve(r) \/ Lose(r) \/ Fail(r) PROVE FlagInv'
  <2>1. CASE r.op \in Switches
    BY <1>5, <2>1, FlagMoved
  <2>2. CASE r.op = "disposition"
    <3>1. \A a : [r EXCEPT !.at = a].op = r.op
      BY RequestFields DEF PageTypeOK
    <3>2. \A q : q.op \in Switches => (q \in requests' <=> q \in requests)
      BY <1>5, <2>2, <3>1 DEF Serve, Lose, Fail, Moves, Switches
    <3>3. UNCHANGED <<activeCall, flag, issued, unsure>>
      BY <1>5, <2>2 DEF Serve, Lose, Fail, ServesSwitch, SaveDisposition, ServesOther, Switches
    <3>. QED
      BY <3>2, <3>3, FlagKept
  <2>. QED
    BY <1>5, <2>1, <2>2 DEF Marked
<1>6. ASSUME NEW r \in requests, SetActiveCall(r) PROVE FlagInv'
  <2>1. /\ activeCall' = r.cid /\ requests' = requests \ {r} /\ r.op = "accept"
        /\ issued' = issued /\ flag' = [s \in Switches |-> FALSE]
        /\ \A s \in Switches :
             issued[r.cid][s] \/ Pending(s, r.cid) # {} => <<r.cid, s>> \in unsure'
    BY <1>6 DEF SetActiveCall, Answered, KeepsRest
  <2>2. r.cid \in Cids
    BY <2>1, RequestFields DEF PageTypeOK, CallOps
  <2>3. \A s \in Switches : issued[r.cid][s] \in BOOLEAN
    BY <2>2 DEF PageTypeOK
  <2>4. \A s \in Switches : Pending(s, activeCall)' \subseteq Pending(s, r.cid)
    BY <2>1 DEF Pending
  <2>. QED
    BY <2>1, <2>3, <2>4 DEF FlagInv
<1>7. ASSUME NEW r \in requests, SwitchAnswered(r) PROVE FlagInv'
  <2>1. /\ UNCHANGED <<activeCall, issued>> /\ requests' = requests \ {r} /\ r.at = "done"
        /\ r.op \in Switches /\ r.val \in BOOLEAN /\ unsure \subseteq unsure'
        /\ activeCall # None => flag' = [flag EXCEPT ![r.op] = r.val]
        /\ activeCall \notin {None, r.cid} => <<activeCall, r.op>> \in unsure'
    BY <1>7, RequestFields DEF SwitchAnswered, Answered, KeepsRest, PageTypeOK
  <2>. SUFFICES ASSUME NEW s \in Switches, activeCall # None, <<activeCall, s>> \notin unsure'
                PROVE  \/ Pending(s, activeCall)' = {} /\ flag'[s] = issued[activeCall][s]
                       \/ \E q \in requests' :
                            /\ Pending(s, activeCall)' = {q}
                            /\ issued[activeCall][s] = IF q.at = "done" THEN q.val ELSE flag'[s]
    BY <2>1 DEF FlagInv
  <2>2. <<activeCall, s>> \notin unsure
    BY <2>1
  <2>3. CASE r.op = s
    <3>1. r.cid = activeCall
      BY <2>1, <2>3
    <3>2. Pending(s, activeCall) = {r} /\ issued[activeCall][s] = r.val
      BY <2>1, <2>2, <2>3, <3>1 DEF FlagInv, Pending
    <3>3. Pending(s, activeCall)' = {}
      BY <2>1, <3>2 DEF Pending
    <3>4. flag'[s] = r.val
      BY <2>1, <2>3 DEF PageTypeOK
    <3>. QED
      BY <3>2, <3>3, <3>4
  <2>4. CASE r.op # s
    <3>1. Pending(s, activeCall)' = Pending(s, activeCall)
      BY <2>1, <2>4 DEF Pending
    <3>2. flag'[s] = flag[s]
      BY <2>1, <2>4 DEF PageTypeOK
    <3>3. \A q \in Pending(s, activeCall)' : q \in requests'
      BY DEF Pending
    <3>. QED
      BY <2>2, <3>1, <3>2, <3>3 DEF FlagInv
  <2>. QED
    BY <2>3, <2>4
<1>8. ASSUME NEW r \in requests, EndAnswered(r) \/ DispositionAnswered(r) PROVE FlagInv'
  BY <1>8, FlagKept DEF EndAnswered, DispositionAnswered, OnClose, Answered, KeepsRest, Switches
<1>. QED
  BY <1>1, <1>2, <1>3, <1>4, <1>5, <1>6, <1>7, <1>8, QuietSteps

(* Whatever commands, answers and losses interleave, the page shows hold   *)
(* and mute as they were commanded last, but for what its property names. *)
THEOREM SwitchesShown == PageSpec => []SwitchIsShown
<1>1. PageInit => FlagInv
  BY DEF PageInit, FlagInv
<1>2. FlagInv => SwitchIsShown
  BY DEF FlagInv, SwitchIsShown
<1>. QED
  BY <1>1, <1>2, FlagStep, PageTypeCorrect, PTL DEF PageSpec

-----------------------------------------------------------------------------
(* The wrap-up dialog has a code only while it is open on a call, and of   *)
(* that call; a disposition under way is of the call it names, which the   *)
(* page has not left for another behind its back, and is saved by the time *)
(* its answer is there. *)
FormInv ==
  /\ activeCall = None \/ ~wrapUp => form = None
  /\ activeCall \notin carried => form \in {None, activeCall}

Underway(r) ==
  /\ r.val # None
  /\ r.cid \notin carried => r.val = r.cid
  /\ activeCall \in overtaken \cup {None, r.cid}
  /\ r.at = "done" => saved[r.cid] # None

DialogInv ==
  /\ FormInv
  /\ \A r \in requests : r.op = "disposition" => Underway(r)
  /\ DispositionIsOfTheCall
  /\ CompletedIsSaved

LEMMA DialogKept ==
  ASSUME DialogInv, UNCHANGED <<activeCall, form, saved, carried, overtaken, completed>>,
         wrapUp => wrapUp',
         \A q : q.op = "disposition" /\ q \in requests' => q \in requests
  PROVE  DialogInv'
<1>1. FormInv'
  BY DEF DialogInv, FormInv
<1>2. ASSUME NEW r \in requests', r.op = "disposition" PROVE Underway(r)'
  BY <1>2 DEF DialogInv, Underway
<1>3. DispositionIsOfTheCall' /\ CompletedIsSaved'
  BY DEF DialogInv, DispositionIsOfTheCall, CompletedIsSaved
<1>. QED
  BY <1>1, <1>2, <1>3 DEF DialogInv

(* A disposition under way is saved, gets lost or fails. *)
LEMMA DialogMoved ==
  ASSUME PageTypeOK, DialogInv, NEW r \in requests, r.op = "disposition",
         Serve(r) \/ Lose(r) \/ Fail(r)
  PROVE  DialogInv'
<1>1. /\ r \in Request /\ r.cid \in Cids /\ r.val \in Cids \cup {None}
      /\ \A a : LET m == [r EXCEPT !.at = a]
                IN m.op = r.op /\ m.cid = r.cid /\ m.val = r.val /\ m.at = a
  BY RequestFields DEF PageTypeOK, CallOps
<1>2. UNCHANGED <<activeCall, form, wrapUp, carried, overtaken, completed>>
  BY DEF Serve, Lose, Fail, page, traces
<1>3. saved' = IF Serve(r) THEN [saved EXCEPT ![r.cid] = r.val] ELSE saved
  BY DEF Serve, Lose, Fail, ServesSwitch, SaveDisposition, ServesOther, api, Switches
<1>4. Underway(r)
  BY DEF DialogInv
<1>5. \A c \in Cids : saved[c] # None => saved'[c] # None
  BY <1>1, <1>3, <1>4 DEF PageTypeOK, Underway
<1>6. ASSUME NEW q \in requests', q.op = "disposition" PROVE Underway(q)'
  <2>1. CASE q \in requests
    <3>1. Underway(q) /\ q.cid \in Cids
      BY <1>6, <2>1, RequestFields DEF DialogInv, PageTypeOK, CallOps
    <3>. QED
      BY <1>2, <1>5, <3>1 DEF Underway
  <2>2. CASE q \notin requests
    <3>1. PICK a : q = [r EXCEPT !.at = a] /\ (a = "done" => Serve(r))
      BY <1>6, <2>2 DEF Serve, Lose, Fail, Moves
    <3>2. q.cid = r.cid /\ q.val = r.val /\ q.at = a
      BY <1>1, <3>1
    <3>3. a = "done" => saved'[r.cid] # None
      BY <1>1, <1>3, <1>4, <3>1 DEF PageTypeOK, Underway
    <3>. QED
      BY <1>2, <1>4, <3>2, <3>3 DEF Underway
  <2>. QED
    BY <2>1, <2>2
<1>7. DispositionIsOfTheCall'
  BY <1>1, <1>2, <1>3, <1>4 DEF DialogInv, DispositionIsOfTheCall, Underway, PageTypeOK
<1>8. CompletedIsSaved'
  BY <1>2, <1>5 DEF DialogInv, CompletedIsSaved, PageTypeOK
<1>9. FormInv'
  BY <1>2 DEF DialogInv, FormInv
<1>. QED
  BY <1>6, <1>7, <1>8, <1>9 DEF DialogInv

LEMMA DialogStep == ASSUME PageTypeOK, DialogInv, [PageNext]_pageVars PROVE DialogInv'
<1>. USE DEF page, api, traces
<1>1. CASE Quiet
  BY <1>1, DialogKept DEF Quiet, Marked
<1>2. CASE HandleSubmit
  <2>. PICK q : q = [op |-> "disposition", cid |-> activeCall, val |-> form, no |-> acts',
                     at |-> "sent"]
    OBVIOUS
  <2>1. /\ q.op = "disposition" /\ q.cid = activeCall /\ q.val = form /\ q.at = "sent"
        /\ requests' = requests \cup {q}
        /\ form # None
        /\ UNCHANGED <<activeCall, form, wrapUp, saved, carried, overtaken, completed>>
    BY <1>2 DEF HandleSubmit, Sends
  <2>2. Underway(q)'
    BY <2>1 DEF DialogInv, FormInv, Underway
  <2>3. \A r \in requests : r.op = "disposition" => Underway(r)'
    BY <2>1 DEF DialogInv, Underway
  <2>4. FormInv' /\ DispositionIsOfTheCall' /\ CompletedIsSaved'
    BY <2>1 DEF DialogInv, FormInv, DispositionIsOfTheCall, CompletedIsSaved
  <2>. QED
    BY <2>1, <2>2, <2>3, <2>4 DEF DialogInv
<1>3. CASE ShowWrapUp
  BY <1>3, DialogKept DEF ShowWrapUp, Clicks
<1>4. ASSUME ChooseCode \/ CancelWrapUp PROVE DialogInv'
  <2>1. /\ UNCHANGED <<requests, saved, carried, overtaken, completed>>
        /\ activeCall' \in {activeCall, None}
        /\ form' \in {None, activeCall'}
        /\ (activeCall' = None \/ ~wrapUp') => form' = None
    BY <1>4 DEF ChooseCode, CancelWrapUp, Clicks, OnClose
  <2>2. \A r \in requests : r.op = "disposition" => Underway(r)'
    BY <2>1 DEF DialogInv, Underway
  <2>3. FormInv' /\ DispositionIsOfTheCall' /\ CompletedIsSaved'
    BY <2>1 DEF DialogInv, FormInv, DispositionIsOfTheCall, CompletedIsSaved
  <2>. QED
    BY <2>1, <2>2, <2>3 DEF DialogInv
<1>5. ASSUME NEW s \in Switches, ClickSwitch(s) PROVE DialogInv'
  <2>1. \A q : q.op = "disposition" /\ q \in requests' => q \in requests
    BY <1>5 DEF ClickSwitch, Sends, Switches
  <2>. QED
    BY <1>5, <2>1, DialogKept DEF ClickSwitch
<1>6. ASSUME NEW r \in requests, r.op \in Marked, Serve(r) \/ Lose(r) \/ Fail(r) PROVE DialogInv'
  <2>1. CASE r.op = "disposition"
    BY <1>6, <2>1, DialogMoved
  <2>2. CASE r.op \in Switches
    <3>1. \A a : [r EXCEPT !.at = a].op = r.op
      BY RequestFields DEF PageTypeOK
    <3>2. \A q : q.op = "disposition" /\ q \in requests' => q \in requests
      BY <1>6, <2>2, <3>1 DEF Serve, Lose, Fail, Moves, Switches
    <3>3. UNCHANGED <<activeCall, form, wrapUp, saved, carried, overtaken, completed>>
      BY <1>6, <2>2 DEF Serve, Lose, Fail, ServesSwitch, SaveDisposition, ServesOther, Switches
    <3>. QED
      BY <3>2, <3>3, DialogKept
  <2>. QED
    BY <1>6, <2>1, <2>2 DEF Marked
<1>7. ASSUME NEW r \in requests, SetActiveCall(r) PROVE DialogInv'
  <2>1. /\ activeCall' = r.cid /\ requests' \subseteq requests
        /\ UNCHANGED <<saved, wrapUp, form, completed>>
        /\ carried \subseteq carried' /\ overtaken \subseteq overtaken'
        /\ activeCall # None /\ wrapUp /\ activeCall # r.cid => r.cid \in carried'
        /\ (\E q \in requests : q.op = "disposition") => r.cid \in overtaken'
    BY <1>7 DEF SetActiveCall, Answered, KeepsRest
  <2>2. r.cid # None
    BY <1>7, RequestFields, DeskAssumption DEF SetActiveCall, PageTypeOK, CallOps, DeskAssumption
  <2>3. FormInv'
    BY <2>1, <2>2 DEF DialogInv, FormInv
  <2>4. \A q \in requests' : q.op = "disposition" => Underway(q)'
    BY <2>1 DEF DialogInv, Underway
  <2>5. DispositionIsOfTheCall' /\ CompletedIsSaved'
    BY <2>1 DEF DialogInv, DispositionIsOfTheCall, CompletedIsSaved
  <2>. QED
    BY <2>3, <2>4, <2>5 DEF DialogInv
<1>8. ASSUME NEW r \in requests, SwitchAnswered(r) \/ EndAnswered(r) PROVE DialogInv'
  BY <1>8, DialogKept DEF SwitchAnswered, EndAnswered, Answered, KeepsRest
<1>9. ASSUME NEW r \in requests, DispositionAnswered(r) PROVE DialogInv'
  <2>1. /\ activeCall' = None /\ form' = None /\ requests' \subseteq requests
        /\ UNCHANGED <<saved, carried, overtaken>>
        /\ completed' = IF activeCall = None THEN completed ELSE completed \cup {activeCall}
        /\ r.op = "disposition" /\ r.at = "done"
    BY <1>9 DEF DispositionAnswered, OnClose, Answered, KeepsRest
  <2>2. Underway(r)
    BY <2>1 DEF DialogInv
  <2>3. CompletedIsSaved'
    BY <2>1, <2>2 DEF DialogInv, CompletedIsSaved, Underway
  <2>4. \A q \in requests' : q.op = "disposition" => Underway(q)'
    BY <2>1 DEF DialogInv, Underway
  <2>5. FormInv' /\ DispositionIsOfTheCall'
    BY <2>1 DEF DialogInv, FormInv, DispositionIsOfTheCall
  <2>. QED
    BY <2>3, <2>4, <2>5 DEF DialogInv
<1>. QED
  BY <1>1, <1>2, <1>3, <1>4, <1>5, <1>6, <1>7, <1>8, <1>9, QuietSteps

-----------------------------------------------------------------------------
(* While no answer crossed an older request, the newest request for a      *)
(* history is of the call the effects ran for last; so are its items, when *)
(* all answers are there. *)
HistoryInv ==
  tab /\ ~crossed /\ ref # None =>
    IF lookups = <<>> THEN items \in {ref, None} ELSE lookups[Len(lookups)] = ref

LEMMA PanelSteps ==
  ASSUME [PageNext]_pageVars
  PROVE  \/ OpenHistory \/ CloseHistory \/ \E i \in 1..Len(lookups) : HistoryAnswered(i)
         \/ ActiveChanged
         \/ UNCHANGED <<tab, items, lookups, crossed, ref>>
<1>. USE DEF socket, panel
<1>1. CASE \/ \E c \in Cids : ClickAccept(c)
           \/ HandleHold \/ HandleMute \/ ClickEndCall \/ HandleTransfer \/ HandleSubmit
  BY <1>1 DEF ClickAccept, HandleHold, HandleMute, ClickSwitch, ClickEndCall, HandleTransfer,
              HandleSubmit
<1>2. CASE ShowTransfer \/ CloseTransfer \/ ShowWrapUp \/ ChooseCode \/ CancelWrapUp
  BY <1>2 DEF ShowTransfer, CloseTransfer, ShowWrapUp, ChooseCode, CancelWrapUp, Clicks
<1>3. CASE PageThrows \/ HandleCallJoin \/ HandleCallLeave \/ LoseSocket \/ Connect
  BY <1>3 DEF PageThrows, HandleCallJoin, HandleCallLeave, LoseSocket, Connect
<1>4. ASSUME NEW r \in requests,
             \/ Serve(r) \/ Lose(r) \/ Fail(r) \/ StoreStatus(r) \/ PublishStatus(r)
             \/ SetActiveCall(r) \/ SwitchAnswered(r) \/ EndAnswered(r)
             \/ TransferAnswered(r) \/ DispositionAnswered(r)
      PROVE  UNCHANGED <<tab, items, lookups, crossed, ref>>
  BY <1>4 DEF Serve, Lose, Fail, StoreStatus, PublishStatus, SetActiveCall, SwitchAnswered,
              EndAnswered, TransferAnswered, DispositionAnswered, KeepsRest
<1>5. CASE (\E s \in Statuses : HandleSetStatus(s)) \/ UpdateTeamMemberStatus
  BY <1>5 DEF HandleSetStatus, UpdateTeamMemberStatus
<1>6. CASE \E f \in Fetches : AskTeam(f) \/ GetTeam(f) \/ SetTeam(f) \/ FetchFails(f)
  BY <1>6 DEF AskTeam, GetTeam, SetTeam, FetchFails
<1>7. CASE UNCHANGED pageVars
  BY <1>7 DEF pageVars
<1>. QED
  BY <1>1, <1>2, <1>3, <1>4, <1>5, <1>6, <1>7 DEF PageNext

LEMMA HistoryStep == ASSUME PageTypeOK, HistoryInv, [PageNext]_pageVars PROVE HistoryInv'
<1>1. CASE OpenHistory
  <2>1. ref' = ref /\ items' = None /\ lookups' = IF ref = None THEN <<>> ELSE <<ref>>
    BY <1>1 DEF OpenHistory, socket
  <2>2. <<ref>>[Len(<<ref>>)] = ref
    OBVIOUS
  <2>. QED
    BY <2>1, <2>2 DEF HistoryInv
<1>2. CASE CloseHistory
  BY <1>2 DEF CloseHistory, HistoryInv
<1>3. ASSUME NEW i \in 1..Len(lookups), HistoryAnswered(i) PROVE HistoryInv'
  <2>. SUFFICES ASSUME tab, ~crossed', ref # None
                PROVE  IF lookups' = <<>> THEN items' \in {ref, None}
                                          ELSE lookups'[Len(lookups')] = ref
    BY <1>3 DEF HistoryAnswered, HistoryInv, socket
  <2>1. i = 1 /\ ~crossed /\ items' \in {lookups[1], None}
    <3>1. crossed' = (crossed \/ i > 1) /\ items' \in {lookups[i], None}
      BY <1>3 DEF HistoryAnswered
    <3>2. ~crossed /\ ~(i > 1)
      BY <3>1
    <3>3. i = 1
      BY <3>2 DEF PageTypeOK
    <3>. QED
      BY <3>1, <3>2, <3>3
  <2>2. lookups' = Tail(lookups)
    BY <1>3, <2>1, AnsweredType
  <2>3. /\ lookups \in Seq(Cids) /\ lookups # <<>> /\ Len(lookups) \in Nat \ {0}
        /\ lookups' \in Seq(Cids) /\ Len(lookups') = Len(lookups) - 1
        /\ \A j \in 1..Len(lookups') : lookups'[j] = lookups[j + 1]
    BY <2>2, HeadTailProperties DEF PageTypeOK
  <2>4. lookups[Len(lookups)] = ref
    BY <2>1, <2>3 DEF HistoryInv
  <2>5. CASE Len(lookups) = 1
    BY <2>1, <2>3, <2>4, <2>5
  <2>6. CASE Len(lookups) # 1
    <3>1. Len(lookups') \in 1..Len(lookups') /\ Len(lookups') + 1 = Len(lookups)
      BY <2>3, <2>6
    <3>2. lookups'[Len(lookups')] = ref
      BY <2>3, <2>4, <3>1
    <3>. QED
      BY <3>1, <3>2
  <2>. QED
    BY <2>5, <2>6
<1>4. CASE ActiveChanged
  <2>1. /\ UNCHANGED <<tab, items, crossed>> /\ ref' = activeCall
        /\ tab /\ activeCall # None => lookups' = Append(lookups, activeCall)
    BY <1>4 DEF ActiveChanged
  <2>2. ASSUME activeCall # None
        PROVE  LET l == Append(lookups, activeCall) IN l # <<>> /\ l[Len(l)] = activeCall
    BY <2>2, AppendProperties DEF PageTypeOK
  <2>. QED
    BY <2>1, <2>2 DEF HistoryInv
<1>5. CASE UNCHANGED <<tab, items, lookups, crossed, ref>>
  BY <1>5 DEF HistoryInv
<1>. QED
  BY <1>1, <1>2, <1>3, <1>4, <1>5, PanelSteps

(* Whatever the agent opens, completes or cancels while answers are late   *)
(* or lost: dispositions are saved of the call they were chosen for, and   *)
(* before it is taken off the page; the history is of the caller. *)
THEOREM PageOfTheCall == PageSpec => []PageIsOfTheCall
<1>1. PageInit => DialogInv /\ HistoryInv
  BY DEF PageInit, DialogInv, FormInv, DispositionIsOfTheCall, CompletedIsSaved, HistoryInv
<1>2. DialogInv /\ HistoryInv => PageIsOfTheCall
  BY DEF DialogInv, HistoryInv, HistoryIsOfTheCaller, PageIsOfTheCall
<1>. QED
  BY <1>1, <1>2, DialogStep, HistoryStep, PageTypeCorrect, PTL DEF PageSpec
=============================================================================
