---------------------------- MODULE TelephonyProofs ----------------------------
(* Theorems about what platform-api and the pipeline hang on a call: about *)
(* SilenceWatchdog, for any turns, enders and watchdogs, and about         *)
(* EslLink, for any calls, requests and failures. *)
EXTENDS SilenceWatchdog, EslLink, FiniteSetTheorems, TLAPS

(* Only a watchdog that was created is registered or at work, one that     *)
(* sleeps or prompts has a configuration to be at, and none starts         *)
(* another. *)
TypeInv ==
  /\ TypeOK
  /\ registry <= spawned
  /\ \A d \in Dogs : pc[d] \in {"sleep", "prompt"} => config[d] <= FinalTier
  /\ \A d \in Dogs : d > spawned => pc[d] = "idle"
  /\ \A d \in Dogs : call[d].op \in {"none", "end"}

LEMMA WhoIsATask ==
  /\ Opening \in Tasks /\ Turns \subseteq Tasks /\ Enders \subseteq Tasks /\ Dogs \subseteq Tasks
  /\ NoDog \notin Dogs
  /\ \A a \in Dogs \cup Enders : a # Opening /\ a \notin Turns
  /\ Enders \cap Dogs = {}
BY WatchdogAssumption DEF WatchdogAssumption, Tasks, Callers, Dogs, NoDog

LEMMA InitTyped == Init => TypeInv
<1>. SUFFICES ASSUME Init PROVE TypeInv
  OBVIOUS
<1>. USE DEF Init
<1>1. spawned \in 0..MaxDogs /\ registry <= spawned
  BY WatchdogAssumption DEF WatchdogAssumption, NoDog
<1>2. /\ \A d \in Dogs : pc[d] = "idle"
      /\ \A d \in Dogs : call[d].op \in {"none", "end"}
  BY WhoIsATask DEF NoCall
<1>3. /\ start \in [Dogs -> 0..FinalTier] /\ config \in [Dogs -> 0..(FinalTier + 1)]
      /\ tier \in 0..FinalTier
  BY DEF FinalTier
<1>4. /\ call \in [Tasks -> [op : {"none", "start", "reset", "end"}, next : {"tier", "done"}]]
      /\ target \in [Tasks -> Dogs \cup {NoDog}]
  BY DEF NoCall
<1>. QED
  BY <1>1, <1>2, <1>3, <1>4 DEF TypeInv, TypeOK

LEMMA SpawnDoes ==
  ASSUME TypeInv, NEW a \in Tasks, Spawn(a)
  PROVE  /\ spawned' = spawned + 1 /\ registry' = spawned + 1 /\ spawned + 1 \in Dogs
         /\ pc' = [[pc EXCEPT ![a] = call[a].next] EXCEPT ![spawned + 1] = "load"]
         /\ call[a].next \in {"tier", "done"}
         /\ a \notin Dogs /\ pc[spawned + 1] = "idle"
<1>1. spawned \in 0..MaxDogs /\ spawned < MaxDogs /\ MaxDogs \in Nat
  BY WatchdogAssumption DEF WatchdogAssumption, TypeInv, TypeOK, Spawn
<1>2. spawned + 1 \in Dogs /\ spawned + 1 > spawned
  BY <1>1 DEF Dogs
<1>3. a \notin Dogs
  BY DEF Spawn, TypeInv
<1>. QED
  BY <1>2, <1>3 DEF Spawn, TypeInv, TypeOK

LEMMA TypeKept == TypeInv /\ [Next]_vars => TypeInv'
<1>. SUFFICES ASSUME TypeInv, [Next]_vars PROVE TypeInv'
  OBVIOUS
<1>. USE WhoIsATask DEF TypeInv, TypeOK, Goto, Hset, Enter, redis, dogs, calls, world
(* Whatever a task does but create a watchdog, cancel one or go on in its  *)
(* loop. *)
<1>0. ASSUME NEW a \in Tasks, pc[a] # "idle" \/ a \notin Dogs,
             NEW l \in {"first", "stt", "llm", "handoff", "play", "tier", "spawn", "mark", "hangup",
                        "flush", "done"},
             Goto(a, l), hash' \in {hash, "whole", "remnant"}, tier' \in {tier, 0},
             registry' \in {registry, NoDog}, cancelled' \subseteq cancelled,
             call' \in {call, [call EXCEPT ![a] = NoCall]},
             target' \in {target, [target EXCEPT ![a] = NoDog]},
             UNCHANGED dogs \/ LoopEnds(a),
             line' \in {"up", "down"}, failed' \in BOOLEAN, UNCHANGED <<spawned, overlaps>>
      PROVE  TypeInv'
  <2>1. tier' \in 0..FinalTier /\ registry' \in Dogs \cup {NoDog} /\ registry' <= spawned'
    BY <1>0, WatchdogAssumption DEF FinalTier, NoDog, WatchdogAssumption
  <2>2. /\ start' \in [Dogs -> 0..FinalTier] /\ config' \in [Dogs -> 0..(FinalTier + 1)]
        /\ \A d \in Dogs : pc'[d] \in {"sleep", "prompt"} => config'[d] <= FinalTier
    <3>1. CASE UNCHANGED dogs
      BY <1>0, <3>1
    <3>2. CASE LoopEnds(a)
      <4>1. 0 \in 0..FinalTier /\ 0 \in 0..(FinalTier + 1) /\ 0 <= FinalTier
        BY DEF FinalTier
      <4>2. \A d \in Dogs : config'[d] \in {config[d], 0}
        BY <3>2 DEF LoopEnds
      <4>3. \A d \in Dogs : pc'[d] \in {"sleep", "prompt"} => pc[d] \in {"sleep", "prompt"}
        BY <1>0
      <4>4. start' \in [Dogs -> 0..FinalTier] /\ config' \in [Dogs -> 0..(FinalTier + 1)]
        BY <3>2, <4>1 DEF LoopEnds
      <4>. QED
        BY <4>1, <4>2, <4>3, <4>4
    <3>. QED
      BY <1>0, <3>1, <3>2
  <2>3. call' \in [Tasks -> [op : {"none", "start", "reset", "end"}, next : {"tier", "done"}]]
    BY <1>0 DEF NoCall
  <2>4. \A d \in Dogs : call'[d].op \in {"none", "end"}
    BY <1>0 DEF NoCall
  <2>5. pc' \in [Tasks -> {"idle", "first", "stt", "llm", "handoff", "play", "tier",
                           "cancel", "await", "spawn", "load", "sleep", "prompt",
                           "mark", "hangup", "flush", "done"}]
    BY <1>0
  <2>6. \A d \in Dogs : d > spawned' => pc'[d] = "idle"
    BY <1>0
  <2>7. target' \in [Tasks -> Dogs \cup {NoDog}]
    BY <1>0
  <2>8. hash' \in {"absent", "whole", "deleted", "remnant"} /\ cancelled' \subseteq 1..spawned'
    BY <1>0
  <2>. QED
    BY <1>0, <2>1, <2>2, <2>3, <2>4, <2>5, <2>6, <2>7, <2>8
<1>1. ASSUME NEW a \in Tasks, WatchdogCall(a) PROVE TypeInv'
  <2>1. CASE Cancel(a)
    <3>1. registry \in Dogs /\ registry \in 1..spawned
      BY <2>1, WatchdogAssumption DEF Cancel, Alive, Dogs, NoDog, WatchdogAssumption
    <3>. QED
      BY <2>1, <3>1 DEF Cancel
  <2>2. CASE Spawn(a)
    <3>0. spawned' = spawned + 1 /\ registry' = spawned + 1 /\ spawned + 1 \in Dogs /\ a \notin Dogs
      BY <2>2, SpawnDoes
    <3>1. /\ spawned' \in 0..MaxDogs /\ spawned \in Int /\ registry' <= spawned'
          /\ registry' \in Dogs
      BY <3>0, WatchdogAssumption DEF WatchdogAssumption, Dogs
    <3>2. pc' \in [Tasks -> {"idle", "first", "stt", "llm", "handoff", "play", "tier",
                             "cancel", "await", "spawn", "load", "sleep", "prompt",
                             "mark", "hangup", "flush", "done"}]
      BY <2>2, SpawnDoes
    <3>3. 1..spawned \subseteq 1..spawned'
      BY <3>0, <3>1
    <3>4. cancelled' \subseteq 1..spawned'
      BY <2>2, <3>3 DEF Spawn
    <3>5. \A d \in Dogs : pc'[d] \in {"sleep", "prompt"} => config'[d] <= FinalTier
      BY <2>2, SpawnDoes DEF Spawn
    <3>6. \A d \in Dogs : d > spawned' => pc'[d] = "idle"
      <4>1. \A d \in Dogs : d > spawned' => d > spawned /\ d # spawned + 1 /\ d # a
        BY <3>0, <3>1 DEF Dogs
      <4>. QED
        BY <2>2, <4>1, SpawnDoes
    <3>7. /\ call' \in [Tasks -> [op : {"none", "start", "reset", "end"}, next : {"tier", "done"}]]
          /\ \A d \in Dogs : call'[d].op \in {"none", "end"}
          /\ target' \in [Tasks -> Dogs \cup {NoDog}]
      BY <2>2 DEF Spawn, Returns, NoCall
    <3>. QED
      BY <2>2, <3>1, <3>2, <3>4, <3>5, <3>6, <3>7 DEF Spawn, Returns
  <2>3. CASE ZeroTier(a)
    BY <1>0, <2>3 DEF ZeroTier, Cleared
  <2>4. CASE Unregister(a)
    BY <1>0, <2>4 DEF Unregister, Returns, Cleared
  <2>. QED
    BY <1>1, <2>1, <2>2, <2>3, <2>4 DEF WatchdogCall
<1>2. ASSUME NEW a \in Dogs \cup Enders, EndCall(a) PROVE TypeInv'
  <2>1. CASE Mark(a)
    BY <1>0, <2>1 DEF Mark
  <2>2. CASE RequestHangup(a)
    BY <1>0, <2>2 DEF RequestHangup
  <2>3. CASE Flush(a)
    BY <2>3 DEF Flush
  <2>. QED
    BY <1>2, <2>1, <2>2, <2>3 DEF EndCall
<1>3. ASSUME NEW d \in Dogs, DogStep(d) \/ WatchdogRaises(d) PROVE TypeInv'
  <2>0. ASSUME pc[d] # "idle", Over(d), registry' \in {registry, NoDog}, UNCHANGED calls \/ Returns(d),
               failed' \in BOOLEAN, UNCHANGED <<hash, tier, spawned, line>>
        PROVE  TypeInv'
    BY <1>0, <2>0 DEF Over, Returns
  <2>1. CASE Load(d)
    <3>1. CASE tier < FinalTier
      <4>1. tier \in 0..FinalTier /\ tier + 1 \in 0..FinalTier + 1 /\ tier + 1 <= FinalTier
        BY <3>1 DEF FinalTier
      <4>2. /\ start' = [start EXCEPT ![d] = tier] /\ config' = [config EXCEPT ![d] = tier + 1]
            /\ pc' = [pc EXCEPT ![d] = "sleep"] /\ pc[d] = "load"
            /\ UNCHANGED <<redis, registry, cancelled, spawned, calls, world>>
        BY <2>1, <3>1 DEF Load
      <4>3. start' \in [Dogs -> 0..FinalTier] /\ config' \in [Dogs -> 0..(FinalTier + 1)]
        BY <4>1, <4>2
      <4>4. \A e \in Dogs : pc'[e] \in {"sleep", "prompt"} => config'[e] <= FinalTier
        BY <4>1, <4>2
      <4>. QED
        BY <4>2, <4>3, <4>4
    <3>2. CASE ~(tier < FinalTier)
      BY <2>0, <2>1, <3>2 DEF Load
    <3>. QED
      BY <3>1, <3>2
  <2>2. CASE Wake(d)
    BY <2>2 DEF Wake
  <2>5. CASE Leave(d)
    BY <2>0, <2>5 DEF Leave
  <2>6. CASE WatchdogRaises(d)
    BY <2>0, <2>6 DEF WatchdogRaises
  <2>3. CASE Prompted(d)
    <3>1. /\ config[d] \in 0..FinalTier /\ config[d] + 1 \in 0..(FinalTier + 1)
          /\ config[d] # FinalTier => config[d] + 1 <= FinalTier
      BY <2>3 DEF Prompted, FinalTier
    <3>2. tier' \in 0..FinalTier
      BY <2>3, <3>1 DEF Prompted
    <3>3. start' \in [Dogs -> 0..FinalTier] /\ config' \in [Dogs -> 0..(FinalTier + 1)]
      <4>1. CASE config[d] = FinalTier
        <5>1. 0 \in 0..FinalTier /\ 0 \in 0..(FinalTier + 1)
          BY DEF FinalTier
        <5>2. LoopEnds(d)
          BY <2>3, <4>1 DEF Prompted
        <5>. QED
          BY <5>1, <5>2 DEF LoopEnds
      <4>2. CASE config[d] # FinalTier
        BY <2>3, <3>1, <4>2 DEF Prompted
      <4>. QED
        BY <4>1, <4>2
    <3>4. \A e \in Dogs : pc'[e] \in {"sleep", "prompt"} => config'[e] <= FinalTier
      BY <2>3, <3>1 DEF Prompted, LoopEnds
    <3>. QED
      BY <2>3, <3>2, <3>3, <3>4 DEF Prompted
  <2>4. CASE Die(d)
    BY <2>0, <2>4 DEF Die
  <2>. QED
    BY <1>1, <1>2, <1>3, <2>1, <2>2, <2>3, <2>4, <2>5, <2>6 DEF DogStep
<1>4. ASSUME NEW t \in Turns, Speak(t) \/ TurnStep(t) \/ \E e \in Enders : EndCallTool(t, e)
      PROVE  TypeInv'
  <2>0. ASSUME NEW op \in {"start", "reset"}, NEW l \in {"tier", "done"}, Enter(t, op, l),
               UNCHANGED <<redis, registry, spawned, cancelled, target, dogs, world>>
        PROVE  TypeInv'
    BY <2>0
  <2>1. CASE NotUnderstood(t) \/ Understood(t) \/ LlmFails(t) \/ Played(t)
    BY <2>0, <2>1 DEF NotUnderstood, Understood, LlmFails, Played
  <2>2. CASE Speak(t) \/ Answered(t) \/ Interrupted(t)
    BY <1>0, <2>2 DEF Speak, Answered, Interrupted
  <2>4. CASE ZeroAgain(t) \/ HandOff(t)
    BY <1>0, <2>4 DEF ZeroAgain, HandOff
  <2>3. CASE \E e \in Enders : EndCallTool(t, e)
    BY <2>3 DEF EndCallTool
  <2>. QED
    BY <1>1, <1>4, <2>1, <2>2, <2>3, <2>4 DEF TurnStep
<1>5. CASE Answer \/ FirstPlayed \/ FirstFailed \/ HangUp \/ SessionEnd
  <2>1. CASE Answer
    BY <1>0, <2>1 DEF Answer
  <2>2. CASE FirstPlayed
    BY <2>2 DEF FirstPlayed
  <2>3. CASE FirstFailed
    BY <1>0, <2>3 DEF FirstFailed
  <2>4. CASE HangUp
    BY <2>4 DEF HangUp
  <2>5. CASE SessionEnd
    BY <2>5 DEF SessionEnd, FinalTier
  <2>. QED
    BY <1>5, <2>1, <2>2, <2>3, <2>4, <2>5
<1>6. ASSUME NEW a \in Turns \cup Enders, Raises(a) PROVE TypeInv'
  BY <1>0, <1>6 DEF Raises, Returns
<1>7. CASE UNCHANGED vars
  BY <1>7 DEF vars
<1>. QED
  BY <1>1, <1>2, <1>3, <1>4, <1>5, <1>6, <1>7 DEF Next, OpeningStep, EnderStep

(* The type invariant of the tasks of a call and of its watchdogs. *)
THEOREM WatchdogTypeCorrect == Spec => []TypeOK
<1>1. TypeInv => TypeOK
  BY DEF TypeInv
<1>. QED
  BY <1>1, InitTyped, TypeKept, PTL DEF Spec

-----------------------------------------------------------------------------
(* Every lost watchdog is paid for by a call that overlapped another.  The *)
(* calls in progress, all but one, have paid and may still lose one; and a *)
(* call that will not look at the registry again, while the watchdog       *)
(* registered now is active, will lose that one.                           *)
Active(d) == pc[d] \notin {"idle", "done"}
Out == {d \in Dogs : Active(d) /\ registry # d}
Blind == {a \in Inside : pc[a] = "spawn" \/ (pc[a] = "await" /\ target[a] # registry)}
Doomed == registry \in Dogs /\ Active(registry) /\ Blind # {}
Spare(S) == IF S = {} THEN 0 ELSE Cardinality(S) - 1

Debts ==
  /\ IsFiniteSet(Inside)
  /\ Cardinality(Out) + Spare(Inside) + (IF Doomed THEN 1 ELSE 0) <= overlaps

LEMMA DogsAreFinite ==
  ASSUME NEW S \in SUBSET Dogs
  PROVE  IsFiniteSet(S) /\ Cardinality(S) \in Nat
<1>1. IsFiniteSet(Dogs)
  BY WatchdogAssumption, FS_Interval DEF WatchdogAssumption, Dogs
<1>. QED
  BY <1>1, FS_Subset, FS_CardinalityType

LEMMA SpareOfASubset ==
  ASSUME NEW S, IsFiniteSet(S), NEW R \in SUBSET S
  PROVE  IsFiniteSet(R) /\ Spare(R) \in Nat /\ Spare(S) \in Nat /\ Spare(R) <= Spare(S)
<1>1. /\ IsFiniteSet(R) /\ Cardinality(R) \in Nat /\ Cardinality(S) \in Nat
      /\ Cardinality(R) <= Cardinality(S)
  BY FS_Subset, FS_CardinalityType
<1>2. /\ R # {} => Cardinality(R) # 0
      /\ S # {} => Cardinality(S) # 0
  BY <1>1, FS_EmptySet
<1>. QED
  BY <1>1, <1>2 DEF Spare

LEMMA SpareWithout ==
  ASSUME NEW S, IsFiniteSet(S), NEW a \in S
  PROVE  IF S \ {a} = {} THEN Spare(S) = 0 ELSE Spare(S \ {a}) = Spare(S) - 1
<1>1. Cardinality(S \ {a}) = Cardinality(S) - 1 /\ Cardinality(S) \in Nat
  BY FS_RemoveElement, FS_CardinalityType
<1>2. S \ {a} = {} => Cardinality(S) = 1
  BY <1>1, FS_EmptySet
<1>. QED
  BY <1>1, <1>2 DEF Spare

LEMMA SpareWith ==
  ASSUME NEW S, IsFiniteSet(S), NEW a, a \notin S
  PROVE  /\ IsFiniteSet(S \cup {a})
         /\ Spare(S \cup {a}) = IF S = {} THEN 0 ELSE Spare(S) + 1
<1>1. /\ IsFiniteSet(S \cup {a}) /\ Cardinality(S \cup {a}) = Cardinality(S) + 1
      /\ Cardinality(S) \in Nat
  BY FS_AddElement, FS_CardinalityType
<1>2. S = {} => Cardinality(S) = 0
  BY FS_EmptySet
<1>. QED
  BY <1>1, <1>2 DEF Spare

(* A step that loses no watchdog, dooms none and enters no function. *)
LEMMA DebtKept ==
  ASSUME TypeInv, Debts, Inside' \subseteq Inside, Out' \subseteq Out, Doomed' => Doomed,
         UNCHANGED overlaps
  PROVE  Debts'
<1>1. /\ Cardinality(Out) \in Nat /\ Cardinality(Out') \in Nat
      /\ Cardinality(Out') <= Cardinality(Out)
  BY DogsAreFinite, FS_Subset DEF Out
<1>2. /\ IsFiniteSet(Inside') /\ Spare(Inside') \in Nat /\ Spare(Inside) \in Nat
      /\ Spare(Inside') <= Spare(Inside)
  BY SpareOfASubset DEF Debts
<1>3. Spare(Inside)' = Spare(Inside')
  BY DEF Spare
<1>4. Cardinality(Out)' = Cardinality(Out')
  OBVIOUS
<1>. QED
  BY <1>1, <1>2, <1>3, <1>4 DEF Debts, TypeInv, TypeOK

LEMMA OneMore ==
  ASSUME NEW r, Out' \subseteq Out \cup {r}
  PROVE  /\ Cardinality(Out) \in Nat /\ Cardinality(Out') \in Nat
         /\ Cardinality(Out') <= Cardinality(Out) + 1
<1>1. IsFiniteSet(Out) /\ Cardinality(Out) \in Nat /\ Cardinality(Out') \in Nat
  BY DogsAreFinite DEF Out
<1>2. /\ IsFiniteSet(Out \cup {r})
      /\ Cardinality(Out \cup {r}) \in {Cardinality(Out), Cardinality(Out) + 1}
  BY <1>1, FS_AddElement
<1>3. Cardinality(Out') <= Cardinality(Out \cup {r})
  BY <1>2, FS_Subset
<1>. QED
  BY <1>1, <1>2, <1>3

(* A step that loses the doomed one. *)
LEMMA DebtMoved ==
  ASSUME TypeInv, Debts, Inside' \subseteq Inside, NEW r, Out' \subseteq Out \cup {r},
         Doomed, ~Doomed', UNCHANGED overlaps
  PROVE  Debts'
<1>1. /\ Cardinality(Out) \in Nat /\ Cardinality(Out') \in Nat
      /\ Cardinality(Out') <= Cardinality(Out) + 1
  BY OneMore
<1>2. /\ IsFiniteSet(Inside') /\ Spare(Inside') \in Nat /\ Spare(Inside) \in Nat
      /\ Spare(Inside') <= Spare(Inside)
  BY SpareOfASubset DEF Debts
<1>3. Spare(Inside)' = Spare(Inside')
  BY DEF Spare
<1>. QED
  BY <1>1, <1>2, <1>3 DEF Debts, TypeInv, TypeOK

(* A step in which a lost watchdog ends and pops the entry of another. *)
LEMMA DebtSwapped ==
  ASSUME TypeInv, Debts, Inside' \subseteq Inside, NEW d \in Out, NEW r,
         Out' \subseteq (Out \ {d}) \cup {r}, ~Doomed', UNCHANGED overlaps
  PROVE  Debts'
<1>1. /\ Cardinality(Out) \in Nat /\ Cardinality(Out') \in Nat
      /\ Cardinality(Out') <= Cardinality(Out)
  <2>1. IsFiniteSet(Out) /\ Cardinality(Out) \in Nat /\ Cardinality(Out') \in Nat
    BY DogsAreFinite DEF Out
  <2>2. IsFiniteSet(Out \ {d}) /\ Cardinality(Out \ {d}) = Cardinality(Out) - 1
    BY <2>1, FS_RemoveElement
  <2>3. /\ IsFiniteSet((Out \ {d}) \cup {r})
        /\ Cardinality((Out \ {d}) \cup {r}) \in {Cardinality(Out) - 1, Cardinality(Out)}
    BY <2>1, <2>2, FS_AddElement
  <2>4. Cardinality(Out') <= Cardinality((Out \ {d}) \cup {r})
    BY <2>3, FS_Subset
  <2>. QED
    BY <2>1, <2>3, <2>4
<1>2. /\ IsFiniteSet(Inside') /\ Spare(Inside') \in Nat /\ Spare(Inside) \in Nat
      /\ Spare(Inside') <= Spare(Inside)
  BY SpareOfASubset DEF Debts
<1>3. Spare(Inside)' = Spare(Inside')
  BY DEF Spare
<1>. QED
  BY <1>1, <1>2, <1>3 DEF Debts, TypeInv, TypeOK

(* A task that moves outside the functions of the watchdog, or leaves      *)
(* them, the registry being what it was. *)
LEMMA MovesOn ==
  ASSUME TypeInv, Debts, NEW a \in Tasks, NEW l, Goto(a, l),
         l \notin {"cancel", "await", "spawn"}, a \in Dogs => Active(a),
         target' \in {target, [target EXCEPT ![a] = NoDog]}, UNCHANGED <<registry, overlaps>>
  PROVE  Debts'
<1>1. /\ pc'[a] = l /\ \A b \in Tasks \ {a} : pc'[b] = pc[b]
      /\ \A b \in Tasks \ {a} : target'[b] = target[b]
  BY DEF Goto, TypeInv, TypeOK
<1>2. Inside' \subseteq Inside /\ a \notin Inside'
  BY <1>1 DEF Inside
<1>3. \A d \in Dogs : Active(d)' => Active(d)
  BY <1>1, WhoIsATask DEF Active
<1>4. Out' \subseteq Out
  BY <1>3 DEF Out
<1>5. Blind' \subseteq Blind
  BY <1>1, <1>2 DEF Blind, Inside
<1>6. Doomed' => Doomed
  BY <1>3, <1>5 DEF Doomed
<1>. QED
  BY <1>2, <1>4, <1>6, DebtKept

LEMMA Enters ==
  ASSUME TypeInv, Debts, NEW a \in Tasks, NEW op, NEW next, Enter(a, op, next),
         a \notin Inside, a \in Dogs => Active(a), UNCHANGED <<registry, target>>
  PROVE  Debts'
<1>1. pc'[a] = "cancel" /\ \A b \in Tasks \ {a} : pc'[b] = pc[b]
  BY DEF Enter, Goto, TypeInv, TypeOK
<1>2. Inside' = Inside \cup {a}
  BY <1>1 DEF Inside
<1>3. \A d \in Dogs : Active(d)' <=> Active(d)
  BY <1>1, WhoIsATask DEF Active
<1>4. Out' = Out
  BY <1>3 DEF Out
<1>5. Blind' = Blind
  BY <1>1, <1>2 DEF Blind, Inside
<1>6. Doomed' <=> Doomed
  BY <1>3, <1>5 DEF Doomed
<1>7. /\ IsFiniteSet(Inside') /\ Spare(Inside') = IF Inside = {} THEN 0 ELSE Spare(Inside) + 1
      /\ Inside = {} => Spare(Inside) = 0
      /\ Spare(Inside) \in Nat
  BY <1>2, SpareWith, SpareOfASubset DEF Debts, Spare
<1>8. Spare(Inside)' = Spare(Inside') /\ Cardinality(Out)' = Cardinality(Out)
  BY <1>4 DEF Spare
<1>9. Cardinality(Out) \in Nat /\ overlaps \in Nat
  BY DogsAreFinite DEF Out, TypeInv, TypeOK
<1>10. overlaps' = IF Inside = {} THEN overlaps ELSE overlaps + 1
  BY DEF Enter
<1>. QED
  BY <1>6, <1>7, <1>8, <1>9, <1>10 DEF Debts

(* A watchdog that ends pops the registry entry, or it leaves it. *)
LEMMA DogEnds ==
  ASSUME TypeInv, Debts, NEW d \in Dogs, Active(d), Goto(d, "done"),
         registry' \in {registry, NoDog},
         target' \in {target, [target EXCEPT ![d] = NoDog]}, UNCHANGED overlaps
  PROVE  Debts'
<1>1. CASE registry' = registry
  BY <1>1, MovesOn, WhoIsATask
<1>2. CASE registry' = NoDog
  <2>1. pc'[d] = "done" /\ \A b \in Tasks \ {d} : pc'[b] = pc[b]
    BY WhoIsATask DEF Goto, TypeInv, TypeOK
  <2>2. Inside' \subseteq Inside
    BY <2>1 DEF Inside
  <2>3. ~Doomed'
    BY <1>2, WhoIsATask DEF Doomed
  <2>4. \A e \in Dogs : Active(e)' => Active(e) /\ e # d
    BY <2>1, WhoIsATask DEF Active
  <2>5. CASE registry = d
    <3>1. Out' \subseteq Out
      BY <2>4, <2>5 DEF Out
    <3>. QED
      BY <2>2, <2>3, <3>1, DebtKept
  <2>6. CASE registry # d
    <3>1. d \in Out /\ Out' \subseteq (Out \ {d}) \cup {registry}
      BY <2>4, <2>6 DEF Out
    <3>. QED
      BY <2>2, <2>3, <3>1, DebtSwapped
  <2>. QED
    BY <2>5, <2>6
<1>. QED
  BY <1>1, <1>2

(* Who goes on without the registered watchdog, though it is active, did   *)
(* not look at it. *)
LEMMA ClearedIsBlind ==
  ASSUME TypeInv, NEW a \in Tasks \ Dogs, Cleared(a), registry \in Dogs, Active(registry)
  PROVE  a \in Blind /\ Doomed
<1>1. Alive(registry) /\ registry # a
  BY WhoIsATask DEF Alive, Active
<1>2. pc[a] = "await" /\ target[a] # registry
  BY <1>1 DEF Cleared
<1>. QED
  BY <1>2 DEF Blind, Inside, Doomed

LEMMA CallKeepsDebts ==
  ASSUME TypeInv, Debts, NEW a \in Tasks, WatchdogCall(a)
  PROVE  Debts'
<1>1. CASE Cancel(a)
  <2>1. /\ pc[a] = "cancel" /\ pc'[a] = "await" /\ \A b \in Tasks \ {a} : pc'[b] = pc[b]
        /\ target'[a] = registry /\ \A b \in Tasks \ {a} : target'[b] = target[b]
        /\ UNCHANGED <<registry, overlaps>>
    BY <1>1 DEF Cancel, Goto, TypeInv, TypeOK
  <2>2. Inside' = Inside
    BY <2>1 DEF Inside
  <2>3. \A d \in Dogs : Active(d)' => Active(d)
    BY <2>1, WhoIsATask DEF Active
  <2>4. Out' \subseteq Out
    BY <2>1, <2>3 DEF Out
  <2>5. Blind' \subseteq Blind
    BY <2>1, <2>2 DEF Blind, Inside
  <2>6. Doomed' => Doomed
    BY <2>1, <2>3, <2>5 DEF Doomed
  <2>. QED
    BY <2>1, <2>2, <2>4, <2>6, DebtKept
<1>2. CASE ZeroTier(a)
  <2>1. a \notin Dogs
    BY <1>2 DEF ZeroTier, TypeInv
  <2>2. /\ pc[a] \in {"cancel", "await"} /\ pc'[a] = "spawn"
        /\ \A b \in Tasks \ {a} : pc'[b] = pc[b] /\ target'[b] = target[b]
        /\ UNCHANGED <<registry, overlaps>>
    BY <1>2 DEF ZeroTier, Cleared, Goto, TypeInv, TypeOK
  <2>3. Inside' \subseteq Inside
    BY <2>2 DEF Inside
  <2>4. \A d \in Dogs : Active(d)' <=> Active(d)
    BY <2>1, <2>2, WhoIsATask DEF Active
  <2>5. Out' \subseteq Out
    BY <2>2, <2>4 DEF Out
  <2>6. Doomed' => Doomed
    BY <1>2, <2>1, <2>2, <2>4, ClearedIsBlind DEF Doomed, ZeroTier
  <2>. QED
    BY <2>2, <2>3, <2>5, <2>6, DebtKept
<1>3. CASE Spawn(a)
  <2>0. /\ a \in Tasks \ Dogs /\ registry' = spawned + 1 /\ spawned + 1 \in Dogs
        /\ pc' = [[pc EXCEPT ![a] = call[a].next] EXCEPT ![spawned + 1] = "load"]
        /\ call[a].next \in {"tier", "done"} /\ pc[spawned + 1] = "idle"
    BY <1>3, SpawnDoes
  <2>1. /\ pc'[a] \notin {"cancel", "await", "spawn"} /\ pc'[spawned + 1] = "load"
        /\ \A b \in Tasks \ {a, spawned + 1} : pc'[b] = pc[b]
        /\ \A b \in Tasks \ {a} : target'[b] = target[b]
        /\ a \in Inside /\ UNCHANGED overlaps
    BY <1>3, <2>0, WhoIsATask DEF Spawn, Cleared, Returns, Inside, TypeInv, TypeOK
  <2>2. Inside' = Inside \ {a}
    BY <2>0, <2>1, WhoIsATask DEF Inside
  <2>3. Out' \subseteq Out \cup {registry}
    BY <2>0, <2>1, WhoIsATask DEF Out, Active
  <2>4. CASE registry \in Dogs /\ Active(registry)
    <3>1. a \in Blind /\ Doomed
      BY <1>3, <2>0, <2>1, <2>4, ClearedIsBlind DEF Spawn, Blind, Doomed
    <3>2. CASE Inside' = {}
      <4>1. ~Doomed'
        BY <3>2 DEF Doomed, Blind
      <4>. QED
        BY <2>1, <2>2, <2>3, <3>1, <4>1, DebtMoved
    <3>3. CASE Inside' # {}
      <4>1. /\ IsFiniteSet(Inside') /\ Spare(Inside') = Spare(Inside) - 1
            /\ Spare(Inside) \in Nat /\ Spare(Inside') \in Nat
        BY <2>1, <2>2, <3>3, SpareWithout, SpareOfASubset DEF Debts
      <4>2. /\ Cardinality(Out') <= Cardinality(Out) + 1
            /\ Cardinality(Out) \in Nat /\ Cardinality(Out') \in Nat
        BY <2>3, OneMore
      <4>3. Spare(Inside)' = Spare(Inside')
        BY DEF Spare
      <4>. QED
        BY <2>1, <3>1, <4>1, <4>2, <4>3 DEF Debts, TypeInv, TypeOK
    <3>. QED
      BY <3>2, <3>3
  <2>5. CASE ~(registry \in Dogs /\ Active(registry))
    <3>1. Out' \subseteq Out /\ ~Doomed
      BY <2>0, <2>1, <2>5, WhoIsATask DEF Out, Active, Doomed
    <3>2. CASE Inside' = {}
      <4>1. ~Doomed'
        BY <3>2 DEF Doomed, Blind
      <4>. QED
        BY <2>1, <2>2, <3>1, <4>1, DebtKept
    <3>3. CASE Inside' # {}
      <4>1. /\ IsFiniteSet(Inside') /\ Spare(Inside') = Spare(Inside) - 1
            /\ Spare(Inside) \in Nat /\ Spare(Inside') \in Nat
        BY <2>1, <2>2, <3>3, SpareWithout, SpareOfASubset DEF Debts
      <4>2. /\ Cardinality(Out') <= Cardinality(Out)
            /\ Cardinality(Out) \in Nat /\ Cardinality(Out') \in Nat
        BY <3>1, DogsAreFinite, FS_Subset DEF Out
      <4>3. Spare(Inside)' = Spare(Inside')
        BY DEF Spare
      <4>. QED
        BY <2>1, <3>1, <4>1, <4>2, <4>3 DEF Debts, TypeInv, TypeOK
    <3>. QED
      BY <3>2, <3>3
  <2>. QED
    BY <2>4, <2>5
<1>4. CASE Unregister(a)
  <2>1. /\ pc[a] \in {"cancel", "await"} /\ Goto(a, "done") /\ registry' = NoDog
        /\ target' = [target EXCEPT ![a] = NoDog] /\ UNCHANGED overlaps
    BY <1>4 DEF Unregister, Cleared, Returns
  <2>2. CASE a \in Dogs
    BY <2>1, <2>2, DogEnds DEF Active
  <2>3. CASE a \notin Dogs
    <3>1. pc'[a] = "done" /\ \A b \in Tasks \ {a} : pc'[b] = pc[b]
      BY <2>1 DEF Goto, TypeInv, TypeOK
    <3>2. Inside' \subseteq Inside /\ ~Doomed'
      BY <2>1, <3>1, WhoIsATask DEF Inside, Doomed
    <3>3. CASE registry \in Dogs /\ Active(registry)
      <4>1. Doomed
        BY <1>4, <2>3, <3>3, ClearedIsBlind DEF Unregister
      <4>2. Out' \subseteq Out \cup {registry}
        BY <2>3, <3>1, WhoIsATask DEF Out, Active
      <4>. QED
        BY <2>1, <3>2, <4>1, <4>2, DebtMoved
    <3>4. CASE ~(registry \in Dogs /\ Active(registry))
      <4>1. Out' \subseteq Out
        BY <2>3, <3>1, <3>4, WhoIsATask DEF Out, Active
      <4>. QED
        BY <2>1, <3>2, <4>1, DebtKept
    <3>. QED
      BY <3>3, <3>4
  <2>. QED
    BY <2>2, <2>3
<1>. QED
  BY <1>1, <1>2, <1>3, <1>4 DEF WatchdogCall

LEMMA DebtsKept == TypeInv /\ Debts /\ [Next]_vars => Debts'
<1>. SUFFICES ASSUME TypeInv, Debts, [Next]_vars PROVE Debts'
  OBVIOUS
<1>. USE WhoIsATask DEF redis, dogs, calls, world
<1>1. ASSUME NEW a \in Dogs \cup Enders, EndCall(a) PROVE Debts'
  <2>1. CASE Mark(a) \/ RequestHangup(a)
    BY <1>1, <2>1, MovesOn DEF Mark, RequestHangup, Active
  <2>2. CASE Flush(a)
    BY <1>1, <2>2, Enters DEF Flush, Inside, Active
  <2>. QED
    BY <1>1, <2>1, <2>2 DEF EndCall
<1>2. ASSUME NEW d \in Dogs, DogStep(d) \/ WatchdogRaises(d) PROVE Debts'
  <2>1. CASE Load(d)
    <3>1. CASE tier < FinalTier
      <4>1. /\ pc[d] = "load" /\ Goto(d, "sleep") /\ UNCHANGED <<registry, target, overlaps>>
        BY <2>1, <3>1 DEF Load, FinalTier
      <4>. QED
        BY <4>1, MovesOn DEF Active
    <3>2. CASE ~(tier < FinalTier)
      BY <2>1, <3>2, DogEnds DEF Load, Over, Active
    <3>. QED
      BY <3>1, <3>2
  <2>2. CASE Wake(d) \/ Prompted(d)
    BY <2>2, MovesOn DEF Wake, Prompted, Active
  <2>3. CASE Leave(d) \/ WatchdogRaises(d)
    BY <2>3, DogEnds DEF Leave, WatchdogRaises, Over, Active
  <2>4. CASE Die(d)
    BY <2>4, DogEnds DEF Die, Over, Returns, Active
  <2>. QED
    BY <1>1, <1>2, <2>1, <2>2, <2>3, <2>4, CallKeepsDebts DEF DogStep
<1>3. ASSUME NEW t \in Turns, Speak(t) \/ TurnStep(t) \/ \E e \in Enders : EndCallTool(t, e)
      PROVE  Debts'
  <2>0. t \notin Dogs
    BY <1>3
  <2>1. CASE NotUnderstood(t) \/ Understood(t) \/ LlmFails(t) \/ Played(t)
    BY <2>0, <2>1, Enters DEF NotUnderstood, Understood, LlmFails, Played, Inside
  <2>2. CASE Speak(t) \/ Answered(t) \/ Interrupted(t) \/ ZeroAgain(t) \/ HandOff(t)
    BY <2>0, <2>2, MovesOn DEF Speak, Answered, Interrupted, ZeroAgain, HandOff
  <2>3. CASE \E e \in Enders : EndCallTool(t, e)
    BY <2>3, MovesOn DEF EndCallTool
  <2>. QED
    BY <1>3, <2>1, <2>2, <2>3, CallKeepsDebts DEF TurnStep
<1>4. ASSUME NEW a \in Turns \cup Enders, Raises(a) PROVE Debts'
  BY <1>4, MovesOn DEF Raises, Returns
<1>5. CASE Answer \/ FirstPlayed \/ FirstFailed
  <2>1. Opening \notin Dogs
    OBVIOUS
  <2>2. CASE Answer \/ FirstFailed
    BY <2>1, <2>2, MovesOn DEF Answer, FirstFailed
  <2>3. CASE FirstPlayed
    BY <2>1, <2>3, Enters DEF FirstPlayed, Inside
  <2>. QED
    BY <1>5, <2>2, <2>3
<1>6. CASE HangUp \/ SessionEnd \/ UNCHANGED vars
  <2>1. UNCHANGED <<pc, registry, target, overlaps>>
    BY <1>6 DEF HangUp, SessionEnd, vars
  <2>. QED
    BY <2>1 DEF Debts, Inside, Out, Active, Doomed, Blind, Spare
<1>. QED
  BY <1>1, <1>2, <1>3, <1>4, <1>5, <1>6, CallKeepsDebts DEF Next, OpeningStep, EnderStep

(* The watchdogs that a reset or an end cannot find are never more than    *)
(* the calls of its functions that began inside another, for any number of *)
(* turns and enders, whatever fails or is cancelled on the way. *)
THEOREM WatchdogsLostByOverlap == Spec => []LostByOverlap
<1>1. Init => TypeInv /\ Debts
  <2>. SUFFICES ASSUME Init PROVE Debts
    BY InitTyped
  <2>1. Inside = {} /\ Out = {} /\ ~Doomed
    BY WhoIsATask DEF Init, Inside, Out, Active, Doomed, Blind
  <2>. QED
    BY <2>1, FS_EmptySet DEF Debts, Spare, Init
<1>2. TypeInv /\ Debts => LostByOverlap
  <2>. SUFFICES ASSUME TypeInv, Debts PROVE Cardinality(Lost) <= overlaps
    BY DEF LostByOverlap
  <2>1. Lost \subseteq Out
    BY DEF Lost, Out, AtWork, Active
  <2>2. /\ Cardinality(Lost) <= Cardinality(Out)
        /\ Cardinality(Lost) \in Nat /\ Cardinality(Out) \in Nat
    BY <2>1, DogsAreFinite, FS_Subset DEF Out, Lost
  <2>3. Spare(Inside) \in Nat
    BY SpareOfASubset DEF Debts
  <2>. QED
    BY <2>2, <2>3 DEF Debts, TypeInv, TypeOK
<1>. QED
  BY <1>1, <1>2, TypeKept, DebtsKept, PTL DEF Spec

-----------------------------------------------------------------------------
(* The link to FreeSWITCH.  Sockets are created one after the other, and   *)
(* each failure pays for two of them: what it has not yet caused, a failed *)
(* or a closing socket or a timer still will. *)
Failed == {s \in Sockets : sock[s] = "failed"}
Closing == {s \in Sockets : sock[s] = "closing"}

Paid ==
  /\ \A s \in Sockets : sock[s] = "none" <=> s > client
  /\ client - 1 + timers + 2 * Cardinality(Failed) + Cardinality(Closing) <= 2 * faults

LinkTypeInv == LinkTypeOK /\ Paid

LEMMA SomeSockets ==
  ASSUME MaxFaults \in Nat
  PROVE  /\ IsFiniteSet(Failed) /\ Cardinality(Failed) \in Nat
         /\ IsFiniteSet(Closing) /\ Cardinality(Closing) \in Nat
         /\ 1 \in Sockets /\ Sockets \subseteq Nat \ {0} /\ IsFiniteSet(Sockets)
<1>1. IsFiniteSet(Sockets)
  BY FS_Interval DEF Sockets
<1>2. Failed \subseteq Sockets /\ Closing \subseteq Sockets
  BY DEF Failed, Closing
<1>3. 1 \in Sockets /\ Sockets \subseteq Nat \ {0}
  BY DEF Sockets
<1>. QED
  BY <1>1, <1>2, <1>3, FS_Subset, FS_CardinalityType

LEMMA SocketMoves ==
  ASSUME MaxFaults \in Nat, LinkTypeOK, NEW s \in Sockets, NEW l, sock' = [sock EXCEPT ![s] = l]
  PROVE  /\ Cardinality(Failed') = Cardinality(Failed)
              + (IF l = "failed" THEN 1 ELSE 0) - (IF sock[s] = "failed" THEN 1 ELSE 0)
         /\ Cardinality(Closing') = Cardinality(Closing)
              + (IF l = "closing" THEN 1 ELSE 0) - (IF sock[s] = "closing" THEN 1 ELSE 0)
<1>. USE SomeSockets
<1>1. sock'[s] = l /\ \A r \in Sockets \ {s} : sock'[r] = sock[r]
  BY DEF LinkTypeOK
<1>2. ASSUME NEW k \in {"failed", "closing"}, NEW A, NEW B, IsFiniteSet(A),
             A = {r \in Sockets : sock[r] = k}, B = {r \in Sockets : sock'[r] = k}
      PROVE  Cardinality(B) = Cardinality(A)
               + (IF l = k THEN 1 ELSE 0) - (IF sock[s] = k THEN 1 ELSE 0)
  <2>1. Cardinality(A) \in Nat
    BY <1>2, FS_CardinalityType
  <2>2. CASE l = k /\ sock[s] # k
    <3>1. B = A \cup {s} /\ s \notin A
      BY <1>1, <1>2, <2>2
    <3>2. Cardinality(B) = Cardinality(A) + 1
      BY <1>2, <3>1, FS_AddElement
    <3>. QED
      BY <2>1, <2>2, <3>2
  <2>3. CASE l # k /\ sock[s] = k
    <3>1. B = A \ {s} /\ s \in A
      BY <1>1, <1>2, <2>3
    <3>2. Cardinality(A \ {s}) = Cardinality(A) - 1
      BY <1>2, <3>1, FS_RemoveElement
    <3>3. Cardinality(B) = Cardinality(A) - 1
      BY <3>1, <3>2
    <3>. QED
      BY <2>1, <2>3, <3>3
  <2>4. CASE (l = k) = (sock[s] = k)
    <3>1. B = A
      BY <1>1, <1>2, <2>4
    <3>. QED
      BY <2>1, <2>4, <3>1
  <2>. QED
    BY <2>2, <2>3, <2>4
<1>3. Failed' = {r \in Sockets : sock'[r] = "failed"}
  BY DEF Failed
<1>4. Closing' = {r \in Sockets : sock'[r] = "closing"}
  BY DEF Closing
<1>. QED
  BY <1>2, <1>3, <1>4 DEF Failed, Closing

LEMMA SendTyped ==
  ASSUME LinkTypeOK, NEW cmds \in Seq(Command), Send(cmds)
  PROVE  /\ written' \in [Sockets -> Seq(Command)]
         /\ \A s \in Sockets : written'[s] \in {written[s], written[s] \o cmds}
BY DEF LinkTypeOK, Send

LEMMA CommandsTyped ==
  ASSUME NEW c \in Calls
  PROVE  /\ <<<<"auth">>, <<"events">>>> \in Seq(Command)
         /\ <<<<"app", c>>>> \in Seq(Command)
         /\ <<<<"app", c>>>> \o TransferCall(c) \in Seq(Command)
<1>1. /\ <<"auth">> \in Command /\ <<"events">> \in Command
      /\ <<"app", c>> \in Command /\ <<"set", c>> \in Command
      /\ <<"transfer", c>> \in Command
  BY DEF Command
<1>. QED
  BY <1>1 DEF TransferCall

LEMMA LinkInitTyped == LinkInit => LinkTypeInv
<1>. SUFFICES ASSUME LinkInit PROVE LinkTypeInv
  OBVIOUS
<1>. USE LinkAssumption DEF LinkAssumption
<1>1. LinkTypeOK
  <2>1. 1 \in Sockets /\ <<>> \in Seq(Command)
    BY SomeSockets
  <2>2. 0 \in 0..(2 * MaxFaults) /\ 0 \in 0..MaxFaults /\ 0 \in 0..MaxRequests
    OBVIOUS
  <2>3. /\ sock \in [Sockets -> {"none", "connecting", "open", "failed", "closing", "closed"}]
        /\ greeted \in [Sockets -> BOOLEAN] /\ authed \in [Sockets -> BOOLEAN]
    BY DEF LinkInit
  <2>4. written \in [Sockets -> Seq(Command)]
    BY <2>1 DEF LinkInit
  <2>. QED
    BY <2>1, <2>2, <2>3, <2>4 DEF LinkInit, LinkTypeOK
<1>2. \A s \in Sockets : sock[s] = "none" <=> s > client
  BY LinkAssumption, SomeSockets DEF LinkInit
<1>3. Failed = {} /\ Closing = {}
  BY DEF LinkInit, Failed, Closing
<1>4. Cardinality(Failed) = 0 /\ Cardinality(Closing) = 0
  BY <1>3, FS_EmptySet
<1>5. client - 1 + timers + 2 * Cardinality(Failed) + Cardinality(Closing) <= 2 * faults
  BY <1>4 DEF LinkInit
<1>. QED
  BY <1>1, <1>2, <1>5 DEF LinkTypeInv, Paid

LEMMA LinkTypeKept == LinkTypeInv /\ [LinkNext]_linkVars => LinkTypeInv'
<1>. SUFFICES ASSUME LinkTypeInv, [LinkNext]_linkVars PROVE LinkTypeInv'
  OBVIOUS
<1>. USE LinkAssumption DEF LinkAssumption, LinkTypeInv
<1>0. /\ client \in Sockets /\ client \in Nat /\ client >= 1 /\ timers \in Nat
      /\ faults \in Nat /\ faults <= MaxFaults /\ MaxFaults \in Nat
      /\ Cardinality(Failed) \in Nat /\ Cardinality(Closing) \in Nat
  BY LinkAssumption, SomeSockets DEF LinkTypeOK
(* Steps after which the sockets are where they were. *)
<1>1. ASSUME UNCHANGED <<client, timers, sock, faults>>, LinkTypeOK' PROVE LinkTypeInv'
  BY <1>1 DEF Paid, Failed, Closing
<1>2. ASSUME NEW s \in Sockets, NEW l \in {"open", "failed", "closing", "closed"},
             sock[s] # "none", sock' = [sock EXCEPT ![s] = l], UNCHANGED client
      PROVE  \A r \in Sockets : sock'[r] = "none" <=> r > client'
  BY <1>2 DEF LinkTypeOK, Paid
<1>3. CASE Connect
  <2>1. client + 1 \in Sockets /\ timers - 1 \in 0..(2 * MaxFaults)
    BY <1>0, <1>3 DEF Connect, Sockets, Paid, LinkTypeOK
  <2>2. LinkTypeOK'
    BY <1>3, <2>1 DEF LinkTypeOK, Connect, switch, requested
  <2>3. sock[client + 1] = "none" /\ sock' = [sock EXCEPT ![client + 1] = "connecting"]
    BY <1>0, <1>3, <2>1 DEF Connect, Paid
  <2>4. \A r \in Sockets : sock'[r] = "none" <=> r > client'
    BY <1>0, <1>3, <2>1, <2>3, SomeSockets DEF Connect, Paid, LinkTypeOK
  <2>5. Cardinality(Failed') = Cardinality(Failed) /\ Cardinality(Closing') = Cardinality(Closing)
    <3>1. LinkTypeOK
      OBVIOUS
    <3>2. /\ Cardinality(Failed') = Cardinality(Failed)
                + (IF "connecting" = "failed" THEN 1 ELSE 0)
                - (IF sock[client + 1] = "failed" THEN 1 ELSE 0)
          /\ Cardinality(Closing') = Cardinality(Closing)
                + (IF "connecting" = "closing" THEN 1 ELSE 0)
                - (IF sock[client + 1] = "closing" THEN 1 ELSE 0)
      BY <1>0, <2>1, <2>3, <3>1, SocketMoves
    <3>. QED
      BY <1>0, <2>3, <3>2
  <2>6. client' - 1 + timers' + 2 * Cardinality(Failed') + Cardinality(Closing') <= 2 * faults'
    BY <1>0, <1>3, <2>5 DEF Connect, Paid
  <2>. QED
    BY <2>2, <2>4, <2>6 DEF Paid
<1>4. ASSUME NEW s \in Sockets, Connected(s) PROVE LinkTypeInv'
  <2>1. LinkTypeOK'
    BY <1>4 DEF Connected, LinkTypeOK, switch, requested
  <2>2. \A r \in Sockets : sock'[r] = "none" <=> r > client'
    BY <1>2, <1>4 DEF Connected
  <2>3. Cardinality(Failed') = Cardinality(Failed) /\ Cardinality(Closing') = Cardinality(Closing)
    <3>1. sock[s] = "connecting" /\ sock' = [sock EXCEPT ![s] = "open"]
      BY <1>4 DEF Connected
    <3>2. /\ Cardinality(Failed') = Cardinality(Failed)
                + (IF "open" = "failed" THEN 1 ELSE 0) - (IF sock[s] = "failed" THEN 1 ELSE 0)
          /\ Cardinality(Closing') = Cardinality(Closing)
                + (IF "open" = "closing" THEN 1 ELSE 0) - (IF sock[s] = "closing" THEN 1 ELSE 0)
      BY <1>0, <3>1, SocketMoves
    <3>. QED
      BY <1>0, <3>1, <3>2
  <2>4. UNCHANGED <<client, timers, faults>>
    BY <1>4 DEF Connected
  <2>. QED
    BY <2>1, <2>2, <2>3, <2>4 DEF Paid
<1>5. ASSUME NEW s \in Sockets, Lose(s) PROVE LinkTypeInv'
  <2>1. /\ faults' = faults + 1 /\ faults < MaxFaults /\ sock[s] \in {"connecting", "open"}
        /\ UNCHANGED <<client, timers>>
    BY <1>5 DEF Lose, link
  <2>2. PICK l \in {"failed", "closing"} : sock' = [sock EXCEPT ![s] = l]
    BY <1>5 DEF Lose
  <2>3. /\ greeted' \in [Sockets -> BOOLEAN] /\ written' \in [Sockets -> Seq(Command)]
        /\ sock' \in [Sockets -> {"none", "connecting", "open", "failed", "closing", "closed"}]
        /\ faults' \in 0..MaxFaults
    BY <1>0, <1>5, <2>1, <2>2 DEF Lose, LinkTypeOK
  <2>4. LinkTypeOK'
    BY <1>5, <2>3 DEF Lose, LinkTypeOK, link, switch, requested
  <2>5. \A r \in Sockets : sock'[r] = "none" <=> r > client'
    BY <1>2, <2>1, <2>2
  <2>6. /\ Cardinality(Failed') = Cardinality(Failed)
             + (IF l = "failed" THEN 1 ELSE 0) - (IF sock[s] = "failed" THEN 1 ELSE 0)
        /\ Cardinality(Closing') = Cardinality(Closing)
             + (IF l = "closing" THEN 1 ELSE 0) - (IF sock[s] = "closing" THEN 1 ELSE 0)
    BY <1>0, <2>2, SocketMoves
  <2>7. client - 1 + timers + 2 * Cardinality(Failed) + Cardinality(Closing) <= 2 * faults
    BY DEF Paid
  <2>8. client' - 1 + timers' + 2 * Cardinality(Failed') + Cardinality(Closing') <= 2 * faults'
    <3>1. \/ /\ Cardinality(Failed') = Cardinality(Failed) + 1
             /\ Cardinality(Closing') = Cardinality(Closing)
          \/ /\ Cardinality(Failed') = Cardinality(Failed)
             /\ Cardinality(Closing') = Cardinality(Closing) + 1
      BY <1>0, <2>1, <2>6
    <3>. QED
      BY <1>0, <2>1, <2>7, <3>1
  <2>. QED
    BY <2>4, <2>5, <2>8 DEF Paid
<1>6. ASSUME NEW s \in Sockets, OnError(s) \/ OnClose(s) PROVE LinkTypeInv'
  <2>1. Reconnects
    BY <1>6 DEF OnError, OnClose
  <2>2. \/ sock[s] = "failed" /\ sock' = [sock EXCEPT ![s] = "closing"]
        \/ sock[s] = "closing" /\ sock' = [sock EXCEPT ![s] = "closed"]
    BY <1>6 DEF OnError, OnClose
  <2>3. timers' = timers + 1 /\ UNCHANGED <<client, faults>>
    BY <2>1 DEF Reconnects
  <2>4. \A r \in Sockets : sock'[r] = "none" <=> r > client'
    BY <1>2, <2>2, <2>3
  <2>5. client - 1 + timers + 2 * Cardinality(Failed) + Cardinality(Closing) <= 2 * faults
    BY DEF Paid
  <2>6. client' - 1 + timers' + 2 * Cardinality(Failed') + Cardinality(Closing') <= 2 * faults'
    <3>1. CASE sock[s] = "failed"
      <4>1. /\ Cardinality(Failed') = Cardinality(Failed)
                 + (IF "closing" = "failed" THEN 1 ELSE 0) - (IF sock[s] = "failed" THEN 1 ELSE 0)
            /\ Cardinality(Closing') = Cardinality(Closing)
                 + (IF "closing" = "closing" THEN 1 ELSE 0) - (IF sock[s] = "closing" THEN 1 ELSE 0)
        BY <1>0, <2>2, <3>1, SocketMoves
      <4>2. /\ Cardinality(Failed') = Cardinality(Failed) - 1
            /\ Cardinality(Closing') = Cardinality(Closing) + 1
        BY <1>0, <3>1, <4>1
      <4>. QED
        BY <1>0, <2>3, <2>5, <4>2
    <3>2. CASE sock[s] = "closing"
      <4>1. /\ Cardinality(Failed') = Cardinality(Failed)
                 + (IF "closed" = "failed" THEN 1 ELSE 0) - (IF sock[s] = "failed" THEN 1 ELSE 0)
            /\ Cardinality(Closing') = Cardinality(Closing)
                 + (IF "closed" = "closing" THEN 1 ELSE 0) - (IF sock[s] = "closing" THEN 1 ELSE 0)
        BY <1>0, <2>2, <3>2, SocketMoves
      <4>2. /\ Cardinality(Failed') = Cardinality(Failed)
            /\ Cardinality(Closing') = Cardinality(Closing) - 1
        BY <1>0, <3>2, <4>1
      <4>. QED
        BY <1>0, <2>3, <2>5, <4>2
    <3>. QED
      BY <2>2, <3>1, <3>2
  <2>7. Cardinality(Failed') \in Nat /\ Cardinality(Closing') \in Nat
    <3>1. Failed' \subseteq Sockets /\ Closing' \subseteq Sockets
      BY DEF Failed, Closing
    <3>. QED
      BY <3>1, SomeSockets, FS_Subset, FS_CardinalityType
  <2>8. timers' \in 0..(2 * MaxFaults)
    BY <1>0, <2>3, <2>6, <2>7
  <2>9. sock' \in [Sockets -> {"none", "connecting", "open", "failed", "closing", "closed"}]
    BY <2>2 DEF LinkTypeOK
  <2>10. LinkTypeOK'
    BY <2>1, <2>8, <2>9 DEF LinkTypeOK, Reconnects, switch, requested
  <2>. QED
    BY <2>4, <2>6, <2>10 DEF Paid
<1>7. ASSUME NEW s \in Sockets, Authenticate(s) PROVE LinkTypeInv'
  <2>1. written' \in [Sockets -> Seq(Command)]
    <3>1. <<<<"auth">>, <<"events">>>> \in Seq(Command)
      BY DEF Command
    <3>. QED
      BY <1>7, <3>1, SendTyped DEF Authenticate
  <2>2. LinkTypeOK'
    BY <1>7, <2>1 DEF LinkTypeOK, Authenticate, link, switch, requested
  <2>. QED
    BY <1>1, <1>7, <2>2 DEF Authenticate, link
<1>8. ASSUME NEW s \in Sockets, Serve(s) PROVE LinkTypeInv'
  <2>1. written' \in [Sockets -> Seq(Command)]
    <3>1. Tail(written[s]) \in Seq(Command)
      BY <1>8 DEF Serve, LinkTypeOK
    <3>. QED
      BY <1>8, <3>1 DEF Serve, LinkTypeOK
  <2>2. /\ authed' \in [Sockets -> BOOLEAN] /\ header' \subseteq Calls
        /\ moved' \in [Calls -> {"no", "with", "without"}]
    BY <1>8 DEF Serve, LinkTypeOK
  <2>3. LinkTypeOK'
    BY <1>8, <2>1, <2>2 DEF LinkTypeOK, Serve, link, requested
  <2>. QED
    BY <1>1, <1>8, <2>3 DEF Serve, link
<1>9. ASSUME NEW c \in Calls, SendApp(c) \/ ExecuteOptionA(c) PROVE LinkTypeInv'
  <2>1. Requested /\ handoff' \in [Calls -> {"none", "sent", "transfer_issued", "failed"}]
    BY <1>9 DEF SendApp, ExecuteOptionA, LinkTypeOK
  <2>2. written' \in [Sockets -> Seq(Command)]
    BY <1>9, CommandsTyped, SendTyped DEF SendApp, ExecuteOptionA
  <2>3. requests' \in 0..MaxRequests
    BY <2>1 DEF Requested, LinkTypeOK
  <2>4. LinkTypeOK'
    BY <2>1, <2>2, <2>3 DEF LinkTypeOK, Requested, link, switch
  <2>. QED
    BY <1>1, <2>1, <2>4 DEF Requested, link
<1>10. ASSUME NEW c \in Calls, RecordHandoff(c) PROVE LinkTypeInv'
  <2>1. LinkTypeOK'
    BY <1>10 DEF LinkTypeOK, RecordHandoff, link, wire, switch
  <2>. QED
    BY <1>1, <1>10, <2>1 DEF RecordHandoff, link, wire
<1>11. CASE UNCHANGED linkVars
  <2>1. LinkTypeOK'
    BY <1>11 DEF LinkTypeOK, linkVars, link, wire, switch, requested
  <2>. QED
    BY <1>1, <1>11, <2>1 DEF linkVars, link, wire
<1>. QED
  BY <1>3, <1>4, <1>5, <1>6, <1>7, <1>8, <1>9, <1>10, <1>11 DEF LinkNext

(* The type invariant of the link: no failure costs more sockets than it   *)
(* starts timers, though 'error' and 'close' each start one. *)
THEOREM LinkTypeCorrect == LinkSpec => []LinkTypeOK
<1>1. LinkTypeInv => LinkTypeOK
  BY DEF LinkTypeInv
<1>. QED
  BY <1>1, LinkInitTyped, LinkTypeKept, PTL DEF LinkSpec

-----------------------------------------------------------------------------
(* A client whose socket is at rest is usable or about to be replaced, or  *)
(* its password is on the way. *)
Asked(s) == \E i \in 1..Len(written[s]) : written[s][i] = <<"auth">>

ClientInv ==
  sock[client] \in {"open", "closed"} =>
    \/ timers > 0
    \/ /\ sock[client] = "open" /\ connected
       /\ authed[client] \/ greeted[client] \/ Asked(client)

LEMMA ClientKept ==
  ASSUME LinkTypeInv, ClientInv, [LinkNext]_linkVars
  PROVE  ClientInv'
<1>. USE LinkAssumption DEF LinkTypeInv, LinkAssumption
<1>0. /\ client \in Sockets /\ sock[client] # "none" /\ timers \in Nat
      /\ \A s \in Sockets : written[s] \in Seq(Command)
  <2>1. client \in Sockets /\ timers \in Nat
    BY DEF LinkTypeOK
  <2>2. ~(client > client)
    BY <2>1, SomeSockets
  <2>. QED
    BY <2>1, <2>2 DEF LinkTypeOK, Paid
(* What is sent is behind what is written already. *)
<1>1. ASSUME NEW cmds \in Seq(Command), Send(cmds)
      PROVE  Asked(client) => \E i \in 1..Len(written'[client]) : written'[client][i] = <<"auth">>
  <2>1. written'[client] \in {written[client], written[client] \o cmds}
    BY <1>0, <1>1, SendTyped
  <2>2. ASSUME NEW i \in 1..Len(written[client]), written[client][i] = <<"auth">>
        PROVE  i \in 1..Len(written'[client]) /\ written'[client][i] = <<"auth">>
    <3>1. CASE written'[client] = written[client] \o cmds
      <4>1. i \in 1..Len(written[client] \o cmds) /\ (written[client] \o cmds)[i] = written[client][i]
        BY <1>0, <1>1
      <4>. QED
        BY <2>2, <3>1, <4>1
    <3>. QED
      BY <2>1, <2>2, <3>1
  <2>. QED
    BY <2>2 DEF Asked
<1>2. CASE Connect
  <2>1. client + 1 \in Sockets /\ client' = client + 1
    BY <1>2, LinkTypeKept, SomeSockets DEF Connect, LinkTypeOK, Paid, LinkNext
  <2>2. sock'[client'] = "connecting"
    BY <1>2, <2>1 DEF Connect, LinkTypeOK
  <2>. QED
    BY <2>2 DEF ClientInv
<1>3. ASSUME NEW s \in Sockets, Connected(s) PROVE ClientInv'
  <2>1. connected' /\ UNCHANGED <<client, timers, written, authed>>
    BY <1>3 DEF Connected, switch
  <2>2. CASE s = client
    BY <1>0, <1>3, <2>1, <2>2 DEF Connected, LinkTypeOK, ClientInv
  <2>3. CASE s # client
    <3>1. sock'[client] = sock[client] /\ greeted'[client] = greeted[client]
      BY <1>0, <1>3, <2>3 DEF Connected, LinkTypeOK
    <3>. QED
      BY <2>1, <3>1 DEF ClientInv, Asked
  <2>. QED
    BY <2>2, <2>3
<1>4. ASSUME NEW s \in Sockets, Lose(s) PROVE ClientInv'
  <2>1. UNCHANGED <<client, timers, connected, authed>>
    BY <1>4 DEF Lose, link, switch
  <2>2. CASE s = client
    <3>1. sock'[client] \in {"failed", "closing"}
      BY <1>0, <1>4, <2>2 DEF Lose, LinkTypeOK
    <3>. QED
      BY <2>1, <3>1 DEF ClientInv
  <2>3. CASE s # client
    <3>1. /\ sock'[client] = sock[client] /\ greeted'[client] = greeted[client]
          /\ written'[client] = written[client]
      BY <1>0, <1>4, <2>3 DEF Lose, LinkTypeOK
    <3>. QED
      BY <2>1, <3>1 DEF ClientInv, Asked
  <2>. QED
    BY <2>2, <2>3
<1>5. ASSUME NEW s \in Sockets, OnError(s) \/ OnClose(s) PROVE ClientInv'
  <2>1. timers' > 0
    BY <1>0, <1>5 DEF OnError, OnClose, Reconnects
  <2>. QED
    BY <2>1 DEF ClientInv
(* Whichever socket is asked for the password, the client gives it, unless *)
(* `connected' is false and a timer runs. *)
<1>6. ASSUME NEW s \in Sockets, Authenticate(s) PROVE ClientInv'
  <2>1. UNCHANGED <<client, timers, connected, sock, authed>>
    BY <1>6 DEF Authenticate, link, switch
  <2>2. CASE connected /\ sock[client] = "open"
    <3>1. written' = [written EXCEPT ![client] = @ \o <<<<"auth">>, <<"events">>>>]
      BY <1>6, <2>2 DEF Authenticate, Send
    <3>2. written'[client] = written[client] \o <<<<"auth">>, <<"events">>>>
      BY <1>0, <3>1 DEF LinkTypeOK
    <3>3. /\ Len(written[client]) + 1 \in 1..Len(written'[client])
          /\ written'[client][Len(written[client]) + 1] = <<"auth">>
      BY <1>0, <3>2
    <3>4. Asked(client)'
      BY <2>1, <3>3 DEF Asked
    <3>. QED
      BY <2>1, <2>2, <3>4 DEF ClientInv
  <2>3. CASE ~(connected /\ sock[client] = "open")
    BY <2>1, <2>3 DEF ClientInv
  <2>. QED
    BY <2>2, <2>3
<1>7. ASSUME NEW s \in Sockets, Serve(s) PROVE ClientInv'
  <2>1. UNCHANGED <<client, timers, connected, sock, greeted>>
    BY <1>7 DEF Serve, link
  <2>2. \A r \in Sockets : authed[r] => authed'[r]
    BY <1>7 DEF Serve, LinkTypeOK
  <2>3. CASE s # client
    <3>1. written'[client] = written[client]
      BY <1>0, <1>7, <2>3 DEF Serve, LinkTypeOK
    <3>. QED
      BY <1>0, <2>1, <2>2, <3>1 DEF ClientInv, Asked
  <2>4. CASE s = client
    <3>1. written[client] # <<>> /\ written'[client] = Tail(written[client])
      BY <1>0, <1>7, <2>4 DEF Serve, LinkTypeOK
    <3>2. ASSUME NEW i \in 1..Len(written[client]), written[client][i] = <<"auth">>
          PROVE  authed'[client] \/ Asked(client)'
      <4>1. CASE i = 1
        <5>1. Head(written[client]) = <<"auth">>
          BY <1>0, <3>1, <3>2, <4>1
        <5>2. authed'[s] = (authed[s] \/ Head(written[s]) = <<"auth">>)
          BY <1>7 DEF Serve, LinkTypeOK
        <5>. QED
          BY <2>4, <5>1, <5>2
      <4>2. CASE i # 1
        <5>1. i - 1 \in 1..Len(Tail(written[client])) /\ Tail(written[client])[i - 1] = <<"auth">>
          BY <1>0, <3>1, <3>2, <4>2
        <5>. QED
          BY <2>1, <3>1, <5>1 DEF Asked
      <4>. QED
        BY <4>1, <4>2
    <3>3. Asked(client) => authed'[client] \/ Asked(client)'
      BY <3>2 DEF Asked
    <3>. QED
      BY <1>0, <2>1, <2>2, <3>3 DEF ClientInv
  <2>. QED
    BY <2>3, <2>4
<1>8. ASSUME NEW c \in Calls, SendApp(c) \/ ExecuteOptionA(c) PROVE ClientInv'
  <2>1. UNCHANGED <<client, timers, connected, sock, greeted, authed>>
    BY <1>8 DEF SendApp, ExecuteOptionA, Requested, link, switch
  <2>2. Asked(client) => Asked(client)'
    BY <1>1, <1>8, <2>1, CommandsTyped DEF SendApp, ExecuteOptionA, Asked
  <2>. QED
    BY <2>1, <2>2 DEF ClientInv
<1>9. CASE (\E c \in Calls : RecordHandoff(c)) \/ UNCHANGED linkVars
  <2>1. UNCHANGED <<client, timers, connected, sock, greeted, written, authed>>
    BY <1>9 DEF RecordHandoff, linkVars, link, wire, switch
  <2>. QED
    BY <2>1 DEF ClientInv, Asked
<1>. QED
  BY <1>2, <1>3, <1>4, <1>5, <1>6, <1>7, <1>8, <1>9 DEF LinkNext

(* When nothing is under way in the link, the client's socket is open, is  *)
(* authenticated and may be written to: no failure, in whatever order the  *)
(* sockets report it, leaves `connected' false or a closed client behind.  *)
THEOREM LinkSettlesUsable == LinkSpec => []SettledIsUsable
<1>1. LinkInit => ClientInv
  <2>1. LinkInit => 1 \in Sockets /\ client = 1 /\ sock[client] = "connecting"
    BY LinkAssumption, SomeSockets DEF LinkInit, LinkAssumption
  <2>. QED
    BY <2>1 DEF ClientInv
<1>2. LinkTypeInv /\ ClientInv => SettledIsUsable
  <2>. SUFFICES ASSUME LinkTypeInv, ClientInv, Settled PROVE Usable
    BY DEF SettledIsUsable
  <2>1. client \in Sockets /\ ~(client > client)
    BY LinkAssumption, SomeSockets DEF LinkTypeInv, LinkTypeOK, LinkAssumption
  <2>2. sock[client] \in {"open", "closed"} /\ ~greeted[client] /\ timers = 0
    BY <2>1 DEF Settled, LinkTypeInv, Paid
  <2>3. ~Asked(client)
    BY <2>1 DEF Settled, Asked
  <2>. QED
    BY <2>2, <2>3 DEF ClientInv, Usable
<1>. QED
  BY <1>1, <1>2, LinkInitTyped, LinkTypeKept, ClientKept, PTL DEF LinkSpec

-----------------------------------------------------------------------------
(* A transfer is written behind the header it needs, and read behind it:   *)
(* by a FreeSWITCH that refuses both or carries out both. *)
HeaderInv ==
  /\ \A s \in Sockets, c \in Calls : \A i \in 1..Len(written[s]) :
       written[s][i] = <<"transfer", c>> =>
         IF i = 1 THEN authed[s] => c \in header ELSE written[s][i - 1] = <<"set", c>>
  /\ TransferCarriesCid

LEMMA SentBehind ==
  ASSUME NEW p \in Seq(Command), NEW q \in Seq(Command)
  PROVE  /\ Len(p \o q) = Len(p) + Len(q)
         /\ \A i \in 1..Len(p) : (p \o q)[i] = p[i]
         /\ \A j \in 1..Len(q) : (p \o q)[Len(p) + j] = q[j]
<1>1. Len(p) \in Nat /\ Len(q) \in Nat /\ Len(p \o q) = Len(p) + Len(q)
  OBVIOUS
<1>2. ASSUME NEW j \in 1..Len(q)
      PROVE  (p \o q)[Len(p) + j] = q[j]
  <2>1. Len(p) + j \in 1..(Len(p) + Len(q)) /\ Len(p) + j > Len(p) /\ (Len(p) + j) - Len(p) = j
    BY <1>1
  <2>. QED
    BY <2>1
<1>. QED
  BY <1>1, <1>2

LEMMA HeaderKept ==
  ASSUME LinkTypeOK, HeaderInv, [LinkNext]_linkVars
  PROVE  HeaderInv'
<1>. DEFINE Behind(q, c, auth, hs) ==
       \A i \in 1..Len(q) : q[i] = <<"transfer", c>> =>
         IF i = 1 THEN auth => c \in hs ELSE q[i - 1] = <<"set", c>>
<1>0. \A s \in Sockets, c \in Calls : Behind(written[s], c, authed[s], header)
  BY DEF HeaderInv
<1>1. ASSUME \A s \in Sockets, c \in Calls : Behind(written'[s], c, authed'[s], header'),
             \A c \in Calls : moved'[c] # "without"
      PROVE  HeaderInv'
  BY <1>1 DEF HeaderInv, TransferCarriesCid
<1>. HIDE DEF Behind
<1>2. ASSUME UNCHANGED <<authed, header, moved>>,
             \A s \in Sockets, c \in Calls : Behind(written'[s], c, authed[s], header)
      PROVE  HeaderInv'
  BY <1>1, <1>2 DEF HeaderInv, TransferCarriesCid
(* What is sent brings the header along. *)
<1>3. ASSUME NEW cmds \in Seq(Command), Send(cmds), UNCHANGED <<authed, header, moved>>,
             \A i \in 1..Len(cmds), c \in Calls :
               cmds[i] = <<"transfer", c>> => i # 1 /\ cmds[i - 1] = <<"set", c>>
      PROVE  HeaderInv'
  <2>1. ASSUME NEW s \in Sockets, NEW c \in Calls
        PROVE  Behind(written'[s], c, authed[s], header)
    <3>1. CASE written'[s] = written[s]
      BY <1>0, <3>1
    <3>2. CASE written'[s] = written[s] \o cmds
      <4>1. written[s] \in Seq(Command)
        BY DEF LinkTypeOK
      <4>2. ASSUME NEW i \in 1..Len(written[s] \o cmds), (written[s] \o cmds)[i] = <<"transfer", c>>
            PROVE  IF i = 1 THEN authed[s] => c \in header
                            ELSE (written[s] \o cmds)[i - 1] = <<"set", c>>
        <5>1. CASE i <= Len(written[s])
          <6>1. i \in 1..Len(written[s]) /\ written[s][i] = <<"transfer", c>>
            BY <4>1, <4>2, <5>1
          <6>2. IF i = 1 THEN authed[s] => c \in header ELSE written[s][i - 1] = <<"set", c>>
            BY <1>0, <6>1 DEF Behind
          <6>. QED
            BY <4>1, <5>1, <6>1, <6>2
        <5>2. CASE i > Len(written[s])
          <6>1. PICK j \in 1..Len(cmds) : j = i - Len(written[s])
            BY <4>1, <4>2, <5>2
          <6>2. cmds[j] = <<"transfer", c>>
            BY <4>1, <4>2, <5>2, <6>1
          <6>3. j # 1 /\ cmds[j - 1] = <<"set", c>>
            BY <1>3, <6>2
          <6>4. j - 1 \in 1..Len(cmds) /\ i - 1 > Len(written[s]) /\ i # 1
            BY <4>1, <5>2, <6>1, <6>3
          <6>5. Len(written[s]) + (j - 1) = i - 1
            BY <4>1, <6>1
          <6>6. (written[s] \o cmds)[Len(written[s]) + (j - 1)] = cmds[j - 1]
            BY <4>1, <6>4, SentBehind
          <6>. QED
            BY <6>3, <6>4, <6>5, <6>6
        <5>3. i <= Len(written[s]) \/ i > Len(written[s])
          BY <4>1, <4>2
        <5>. QED
          BY <5>1, <5>2, <5>3
      <4>. QED
        BY <3>2, <4>2 DEF Behind
    <3>. QED
      BY <1>3, <3>1, <3>2, SendTyped
  <2>. QED
    BY <1>2, <1>3, <2>1
<1>4. ASSUME NEW s \in Sockets, Serve(s) PROVE HeaderInv'
  <2>. DEFINE cmd == Head(written[s])
  <2>1. /\ written[s] \in Seq(Command) /\ written[s] # <<>> /\ cmd = written[s][1]
        /\ 1 \in 1..Len(written[s])
    BY <1>4 DEF Serve, LinkTypeOK
  <2>2. /\ \A r \in Sockets : written'[r] = (IF r = s THEN Tail(written[s]) ELSE written[r])
        /\ \A r \in Sockets : authed'[r] = (authed[r] \/ (r = s /\ cmd = <<"auth">>))
        /\ header' = header \cup {c \in Calls : authed[s] /\ cmd = <<"set", c>>}
    BY <1>4 DEF Serve, LinkTypeOK
  <2>3. ASSUME NEW c \in Calls PROVE moved'[c] # "without"
    <3>1. cmd = <<"transfer", c>> /\ authed[s] => c \in header
      BY <1>0, <2>1 DEF Behind
    <3>. QED
      BY <1>4, <3>1 DEF Serve, HeaderInv, TransferCarriesCid
  <2>. HIDE DEF cmd
  <2>4. ASSUME NEW r \in Sockets, NEW c \in Calls
        PROVE  Behind(written'[r], c, authed'[r], header')
    <3>1. CASE r # s
      <4>1. written'[r] = written[r] /\ (authed'[r] => authed[r]) /\ header \subseteq header'
        BY <2>2, <3>1
      <4>2. Behind(written[r], c, authed[r], header)
        BY <1>0
      <4>. QED
        BY <4>1, <4>2 DEF Behind
    <3>2. CASE r = s
      <4>1. ASSUME NEW i \in 1..Len(Tail(written[s])), Tail(written[s])[i] = <<"transfer", c>>
            PROVE  IF i = 1 THEN authed'[s] => c \in header'
                            ELSE Tail(written[s])[i - 1] = <<"set", c>>
        <5>1. /\ i + 1 \in 1..Len(written[s]) /\ i + 1 # 1
              /\ written[s][i + 1] = <<"transfer", c>>
              /\ i # 1 => i - 1 \in 1..Len(Tail(written[s])) /\ Tail(written[s])[i - 1] = written[s][i]
          BY <2>1, <4>1
        <5>2. written[s][(i + 1) - 1] = <<"set", c>>
          BY <1>0, <5>1 DEF Behind
        <5>3. (i + 1) - 1 = i
          OBVIOUS
        <5>4. written[s][i] = <<"set", c>>
          BY <5>2, <5>3
        <5>5. CASE i = 1
          <6>1. cmd = <<"set", c>>
            BY <2>1, <5>4, <5>5
          <6>2. <<"set", c>> # <<"auth">>
            OBVIOUS
          <6>. QED
            BY <2>2, <5>5, <6>1, <6>2
        <5>. QED
          BY <5>1, <5>4, <5>5
      <4>. QED
        BY <2>2, <3>2, <4>1 DEF Behind
    <3>. QED
      BY <3>1, <3>2
  <2>. QED
    BY <1>1, <2>3, <2>4
<1>5. ASSUME NEW s \in Sockets, Lose(s) PROVE HeaderInv'
  <2>1. UNCHANGED <<authed, header, moved>>
    BY <1>5 DEF Lose, switch
  <2>2. \A r \in Sockets : written'[r] = <<>> \/ written'[r] = written[r]
    BY <1>5 DEF Lose, LinkTypeOK
  <2>3. ASSUME NEW r \in Sockets, NEW c \in Calls
        PROVE  Behind(written'[r], c, authed[r], header)
    <3>1. Behind(<<>>, c, authed[r], header)
      BY DEF Behind
    <3>. QED
      BY <1>0, <2>2, <3>1
  <2>. QED
    BY <1>2, <2>1, <2>3
<1>6. ASSUME UNCHANGED <<authed, header, moved, written>> PROVE HeaderInv'
  BY <1>0, <1>2, <1>6
<1>7. CASE \/ Connect
           \/ \E s \in Sockets : Connected(s) \/ OnError(s) \/ OnClose(s)
           \/ \E c \in Calls : RecordHandoff(c)
           \/ UNCHANGED linkVars
  BY <1>6, <1>7 DEF Connect, Connected, OnError, OnClose, Reconnects,
     RecordHandoff, linkVars, wire, switch
<1>8. ASSUME NEW s \in Sockets, Authenticate(s) PROVE HeaderInv'
  <2>1. <<<<"auth">>, <<"events">>>> \in Seq(Command)
    BY DEF Command
  <2>2. \A i \in 1..2, c \in Calls : <<<<"auth">>, <<"events">>>>[i] # <<"transfer", c>>
    OBVIOUS
  <2>. QED
    BY <1>3, <1>8, <2>1, <2>2 DEF Authenticate, switch
<1>9. ASSUME NEW c \in Calls, SendApp(c) \/ ExecuteOptionA(c) PROVE HeaderInv'
  <2>1. UNCHANGED <<authed, header, moved>>
    BY <1>9 DEF SendApp, ExecuteOptionA, Requested, switch
  <2>2. CASE SendApp(c)
    <3>1. \A i \in 1..1, d \in Calls : <<<<"app", c>>>>[i] # <<"transfer", d>>
      OBVIOUS
    <3>. QED
      BY <1>3, <2>1, <2>2, <3>1, CommandsTyped DEF SendApp
  <2>3. CASE ExecuteOptionA(c)
    <3>. DEFINE music == <<<<"app", c>>>>
                move == <<<<"set", c>>, <<"transfer", c>>>>
    <3>1. /\ music \in Seq(Command) /\ Len(music) = 1 /\ music[1] = <<"app", c>>
          /\ move \in Seq(Command) /\ Len(move) = 2
          /\ move[1] = <<"set", c>> /\ move[2] = <<"transfer", c>>
      BY DEF Command
    <3>. HIDE DEF music, move
    <3>2. /\ Len(music \o move) = 3 /\ (music \o move)[1] = <<"app", c>>
          /\ (music \o move)[2] = <<"set", c>> /\ (music \o move)[3] = <<"transfer", c>>
      <4>1. /\ Len(music \o move) = Len(music) + Len(move)
            /\ \A i \in 1..Len(music) : (music \o move)[i] = music[i]
            /\ \A j \in 1..Len(move) : (music \o move)[Len(music) + j] = move[j]
        BY <3>1, SentBehind
      <4>2. (music \o move)[1] = music[1]
        BY <3>1, <4>1
      <4>3. (music \o move)[1 + 1] = move[1]
        BY <3>1, <4>1
      <4>4. (music \o move)[1 + 2] = move[2]
        BY <3>1, <4>1
      <4>. QED
        BY <3>1, <4>1, <4>2, <4>3, <4>4
    <3>3. ASSUME NEW i \in 1..Len(music \o move), NEW d \in Calls,
                 (music \o move)[i] = <<"transfer", d>>
          PROVE  i # 1 /\ (music \o move)[i - 1] = <<"set", d>>
      <4>1. i = 3 /\ d = c
        BY <3>2, <3>3
      <4>. QED
        BY <3>2, <4>1
    <3>4. Send(music \o move) /\ music \o move \in Seq(Command)
      BY <2>3, <3>1 DEF ExecuteOptionA, TransferCall, music, move
    <3>. QED
      BY <1>3, <2>1, <3>3, <3>4
  <2>. QED
    BY <1>9, <2>2, <2>3
<1>. QED
  BY <1>4, <1>5, <1>7, <1>8, <1>9 DEF LinkNext

(* Whatever sockets fail or are replaced between the two commands, no call *)
(* is transferred without the header that carries its CID. *)
THEOREM CidCarried == LinkSpec => []TransferCarriesCid
<1>1. LinkInit => HeaderInv
  BY DEF LinkInit, HeaderInv, TransferCarriesCid
<1>2. HeaderInv => TransferCarriesCid
  BY DEF HeaderInv
<1>. QED
  BY <1>1, <1>2, HeaderKept, LinkTypeCorrect, PTL DEF LinkSpec
================================================================================
