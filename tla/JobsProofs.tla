------------------------------- MODULE JobsProofs -------------------------------
(* Theorems about MediaJobs, for any number of items, jobs, workers and    *)
(* deletes. *)
EXTENDS MediaJobs, TLAPS

(* A worker that is busy has a job, which is its own or has been taken     *)
(* from it while it was running. *)
Held ==
  \A w \in Workers : worker[w].at # "idle" =>
    /\ worker[w].job \in Jobs
    /\ job[worker[w].job] # None
    /\ Owns(w) \/ job[worker[w].job].zombie

(* A job that has not ended has attempts and a stall left. *)
Bounded ==
  \A j \in Jobs : job[j] # None =>
    /\ job[j].st # "ended" =>
         job[j].made < Attempts(kind[job[j].item]) /\ job[j].stalls <= MaxStalls
    /\ job[j].st = "active" => job[j].owner \in Workers

TypeInv == TypeOK /\ Held /\ Bounded

(* A delete is of an object that was put, and takes the row last. *)
Deleting ==
  \A d \in Deleters :
    deleter[d] # None /\ HasObject(kind[deleter[d].item]) =>
      /\ request[deleter[d].item] # "put"
      /\ deleter[d].at = "row" => ~object[deleter[d].item] \/ kept[deleter[d].item]

(* Only a transcript or the run of a test has a status. *)
StatusInv == \A i \in Items : row[i] \in Unsettled => HasStatus(kind[i])

(* Results are of criteria there were, not older than those they replace. *)
EvaluationInv ==
  /\ \A i \in Items : kind[i] \in Calls => evaluated[i] <= criteria[kind[i]]
  /\ \A w \in Workers :
       /\ worker[w].seen <= worker[w].criteria
       /\ WorksOnCall(w, "store") => worker[w].criteria <= criteria[kind[ItemOf(w)]]

LEMMA InitTyped == Init => TypeInv
<1>. SUFFICES ASSUME Init PROVE TypeInv
  OBVIOUS
<1>. USE DEF Init
<1>1. row \in [Items -> RowStates]
  BY DEF RowStates
<1>2. Idle \in Worker
  BY MediaAssumption DEF MediaAssumption, Idle, Worker
<1>3. request \in [Items -> {"put", "insert", "enqueue", "answered"}]
  BY DEF HasObject
<1>4. object \in [Items -> BOOLEAN]
  <2>1. \A i \in Items : (kind[i] \in Calls) \in BOOLEAN
    OBVIOUS
  <2>. QED
    BY <2>1
<1>5. TypeOK
  BY <1>1, <1>2, <1>3, <1>4, MediaAssumption DEF MediaAssumption, TypeOK
<1>. QED
  BY <1>5 DEF TypeInv, Held, Bounded, Idle

-----------------------------------------------------------------------------
(* What a worker leaves of its job when it is through with it. *)
LEMMA Released ==
  ASSUME TypeInv, NEW w \in Workers, worker[w].at # "idle",
         Returns(w) \/ Throws(w, TRUE) \/ Throws(w, FALSE)
  PROVE  /\ job' \in [Jobs -> Job \cup {None}]
         /\ worker' = [worker EXCEPT ![w] = Idle]
         /\ \A j \in Jobs :
              /\ job[j] = None <=> job'[j] = None
              /\ job[j] # None =>
                   /\ job'[j].item = job[j].item /\ job'[j].zombie = job[j].zombie
                   /\ job'[j].stalls = job[j].stalls
              /\ j # worker[w].job \/ ~Owns(w) => job'[j] = job[j]
         /\ Owns(w) =>
              LET j == worker[w].job IN
              /\ job'[j].st \in {"waiting", "ended"}
              /\ Throws(w, FALSE) /\ job'[j].st = "ended" => job'[j].blind
              /\ job'[j].st # "ended" => job'[j].made < Attempts(kind[job[j].item])
<1>. DEFINE j == worker[w].job
<1>1. /\ j \in Jobs /\ job[j] \in Job /\ job[j] # None
      /\ job[j].st # "ended" =>
           job[j].made < Attempts(kind[job[j].item]) /\ job[j].stalls <= MaxStalls
  BY DEF TypeInv, TypeOK, Held, Bounded
<1>2. Attempts(kind[job[j].item]) \in {2, 3}
  BY DEF Attempts
<1>3. worker' = [worker EXCEPT ![w] = Idle]
  BY DEF Returns, Throws, Rests
<1>4. \A r \in Job : r # None
  <2>1. \A r \in Job : DOMAIN r # {}
    BY DEF Job
  <2>. QED
    BY <2>1 DEF None
<1>5. CASE ~Owns(w)
  <2>1. job' = job
    BY <1>5 DEF Returns, Throws
  <2>. QED
    BY <1>3, <1>5, <2>1 DEF TypeInv, TypeOK
<1>6. CASE Owns(w) /\ Returns(w)
  <2>1. job' = [job EXCEPT ![j] = [job[j] EXCEPT !.st = "ended", !.owner = None]]
    BY <1>1, <1>6 DEF Returns, TypeInv, TypeOK
  <2>. DEFINE r == [job[j] EXCEPT !.st = "ended", !.owner = None]
  <2>2. /\ r \in Job /\ r.item = job[j].item /\ r.zombie = job[j].zombie
        /\ r.stalls = job[j].stalls /\ r.st = "ended"
    BY <1>1 DEF Job
  <2>. HIDE DEF r
  <2>3. job'[j] = r /\ job' \in [Jobs -> Job \cup {None}]
        /\ \A k \in Jobs \ {j} : job'[k] = job[k]
    BY <1>1, <2>1, <2>2 DEF TypeInv, TypeOK, r
  <2>4. ~Throws(w, FALSE) \/ r.blind
    <3>1. Throws(w, FALSE) => job'[j].made = job[j].made + 1
      BY <1>1, <1>6 DEF Throws, TypeInv, TypeOK, Job
    <3>2. r.made = job[j].made /\ job[j].made + 1 # job[j].made
      BY <1>1 DEF r, Job
    <3>3. job'[j] = r
      BY <2>3
    <3>. QED
      BY <3>1, <3>2, <3>3, Zenon
  <2>. QED
    BY <1>1, <1>3, <1>4, <1>6, <2>2, <2>3, <2>4
<1>7. ASSUME NEW written \in BOOLEAN, Owns(w), Throws(w, written)
      PROVE  \E st \in {"waiting", "ended"} :
               /\ st # "ended" => job[j].made + 1 < Attempts(kind[job[j].item])
               /\ job' = [job EXCEPT ![j] = [job[j] EXCEPT !.st = st,
                            !.made = @ + 1, !.owner = None, !.blind = ~written]]
  <2>. DEFINE last == job[j].made + 1 = Attempts(kind[job[j].item])
              st == IF last THEN "ended" ELSE "waiting"
  <2>1. job' = [job EXCEPT ![j] = [job[j] EXCEPT !.st = st,
                            !.made = @ + 1, !.owner = None, !.blind = ~written]]
    BY <1>1, <1>7 DEF Throws, TypeInv, TypeOK
  <2>2. st # "ended" => job[j].made + 1 < Attempts(kind[job[j].item])
    BY <1>1, <1>2, <1>7 DEF Owns, Job
  <2>. HIDE DEF last
  <2>. QED
    BY <2>1, <2>2
<1>8. ASSUME NEW written \in BOOLEAN, Owns(w), Throws(w, written)
      PROVE  /\ job' \in [Jobs -> Job \cup {None}]
             /\ \A k \in Jobs \ {j} : job'[k] = job[k]
             /\ job'[j] # None
             /\ job'[j].item = job[j].item /\ job'[j].zombie = job[j].zombie
             /\ job'[j].stalls = job[j].stalls
             /\ job'[j].st \in {"waiting", "ended"}
             /\ job'[j].blind = ~written
             /\ job'[j].st # "ended" => job'[j].made < Attempts(kind[job[j].item])
  <2>1. PICK st \in {"waiting", "ended"} :
               /\ st # "ended" => job[j].made + 1 < Attempts(kind[job[j].item])
               /\ job' = [job EXCEPT ![j] = [job[j] EXCEPT !.st = st,
                            !.made = @ + 1, !.owner = None, !.blind = ~written]]
    BY <1>7, <1>8
  <2>. DEFINE r == [job[j] EXCEPT !.st = st, !.made = @ + 1, !.owner = None, !.blind = ~written]
  <2>2. job[j].made + 1 \in 0..3
    BY <1>1, <1>2, <1>8 DEF Owns, Job
  <2>3. /\ r \in Job /\ r.item = job[j].item /\ r.zombie = job[j].zombie /\ r.stalls = job[j].stalls
        /\ r.st = st /\ r.blind = ~written /\ r.made = job[j].made + 1
    BY <1>1, <2>2 DEF Job
  <2>4. job' = [job EXCEPT ![j] = r]
    BY <2>1
  <2>. HIDE DEF r
  <2>5. job'[j] = r /\ job' \in [Jobs -> Job \cup {None}]
        /\ \A k \in Jobs \ {j} : job'[k] = job[k]
    BY <1>1, <2>3, <2>4 DEF TypeInv, TypeOK
  <2>. QED
    BY <1>4, <2>1, <2>3, <2>5
<1>9. CASE Owns(w) /\ ~Returns(w)
  <2>1. PICK written \in BOOLEAN : Throws(w, written) /\ (Throws(w, FALSE) => ~written)
    BY <1>9
  <2>. QED
    BY <1>1, <1>3, <1>8, <1>9, <2>1
<1>. QED
  BY <1>5, <1>6, <1>9

(* What every step of a worker but its release leaves of the jobs. *)
JobsOfOthers(w) ==
  /\ \A j \in Jobs : job[j] = None <=> job'[j] = None
  /\ \A j \in Jobs : job[j] # None =>
       job'[j].item = job[j].item /\ job'[j].zombie = job[j].zombie
  /\ \A v \in Workers \ {w} : worker'[v] = worker[v]

LEMMA ReleaseTyped ==
  ASSUME TypeInv, NEW w \in Workers, worker[w].at # "idle", UNCHANGED kind,
         Returns(w) \/ Throws(w, TRUE) \/ Throws(w, FALSE)
  PROVE  /\ job' \in [Jobs -> Job \cup {None}]
         /\ worker' \in [Workers -> Worker]
         /\ Held' /\ Bounded'
         /\ JobsOfOthers(w)
<1>. DEFINE j == worker[w].job
<1>1. /\ job' \in [Jobs -> Job \cup {None}]
      /\ worker' = [worker EXCEPT ![w] = Idle]
      /\ \A k \in Jobs :
           /\ job[k] = None <=> job'[k] = None
           /\ job[k] # None =>
                /\ job'[k].item = job[k].item /\ job'[k].zombie = job[k].zombie
                /\ job'[k].stalls = job[k].stalls
           /\ k # j \/ ~Owns(w) => job'[k] = job[k]
      /\ Owns(w) => /\ job'[j].st \in {"waiting", "ended"}
                    /\ job'[j].st # "ended" => job'[j].made < Attempts(kind[job[j].item])
  BY Released
<1>2. Idle \in Worker /\ Idle.at = "idle"
  BY MediaAssumption DEF MediaAssumption, Idle, Worker
<1>3. worker' \in [Workers -> Worker] /\ worker'[w].at = "idle"
      /\ \A v \in Workers \ {w} : worker'[v] = worker[v]
  BY <1>1, <1>2 DEF TypeInv, TypeOK
<1>4. \A v \in Workers \ {w} : worker[v].at # "idle" =>
        worker[v].job \in Jobs /\ job[worker[v].job] # None
  BY DEF TypeInv, Held
<1>5. ASSUME NEW v \in Workers \ {w}, Owns(v), worker[v].at # "idle"
      PROVE  job'[worker[v].job] = job[worker[v].job]
  BY <1>1, <1>4, <1>5 DEF Owns
<1>6. Held'
  <2>. SUFFICES ASSUME NEW v \in Workers, worker'[v].at # "idle"
                PROVE  /\ worker'[v].job \in Jobs
                       /\ job'[worker'[v].job] # None
                       /\ Owns(v)' \/ job'[worker'[v].job].zombie
    BY DEF Held
  <2>1. v # w /\ worker'[v] = worker[v] /\ worker[v].at # "idle"
    BY <1>3
  <2>2. Owns(v) => Owns(v)'
    BY <1>5, <2>1 DEF Owns
  <2>. QED
    BY <1>1, <1>4, <2>1, <2>2 DEF TypeInv, Held
<1>7. Bounded'
  <2>1. \A k \in Jobs \ {j} : job'[k] = job[k]
    BY <1>1
  <2>2. job[j] # None /\ j \in Jobs
    BY DEF TypeInv, Held
  <2>3. CASE ~Owns(w)
    BY <1>1, <2>3 DEF TypeInv, Bounded
  <2>4. CASE Owns(w)
    <3>1. /\ job'[j].st # "active"
          /\ job'[j].st # "ended" =>
               job'[j].made < Attempts(kind'[job'[j].item]) /\ job'[j].stalls <= MaxStalls
      BY <1>1, <2>2, <2>4 DEF TypeInv, Bounded, Owns
    <3>. QED
      BY <2>1, <3>1 DEF TypeInv, Bounded
  <2>. QED
    BY <2>3, <2>4
<1>. QED
  BY <1>1, <1>3, <1>6, <1>7 DEF JobsOfOthers

LEMMA GoesOnTyped ==
  ASSUME TypeInv, NEW w \in Workers, worker[w].at # "idle", NEW at \in {"work", "store", "fail"},
         NEW c \in 0..MaxEdits, NEW s \in 0..MaxEdits, UNCHANGED <<kind, job>>,
         worker' = [worker EXCEPT ![w] = [worker[w] EXCEPT !.at = at, !.criteria = c, !.seen = s]]
  PROVE  /\ worker' \in [Workers -> Worker]
         /\ Held' /\ Bounded'
         /\ JobsOfOthers(w)
         /\ worker'[w].job = worker[w].job /\ worker'[w].at = at
         /\ worker'[w].criteria = c /\ worker'[w].seen = s
<1>. DEFINE r == [worker[w] EXCEPT !.at = at, !.criteria = c, !.seen = s]
<1>1. worker[w] \in Worker
  BY DEF TypeInv, TypeOK
<1>2. r \in Worker /\ r.at = at /\ r.job = worker[w].job /\ r.criteria = c /\ r.seen = s
  BY <1>1 DEF Worker
<1>. HIDE DEF r
<1>3. worker' = [worker EXCEPT ![w] = r]
  BY DEF r
<1>4. /\ worker' \in [Workers -> Worker] /\ worker'[w] = r
      /\ \A v \in Workers \ {w} : worker'[v] = worker[v]
  BY <1>2, <1>3 DEF TypeInv, TypeOK
<1>5. Held'
  <2>1. \A v \in Workers : worker'[v].job = worker[v].job
    BY <1>2, <1>4
  <2>2. \A v \in Workers : worker'[v].at # "idle" => worker[v].at # "idle"
    BY <1>4
  <2>. QED
    BY <2>1, <2>2 DEF TypeInv, Held, Owns
<1>6. Bounded' /\ JobsOfOthers(w)
  BY <1>4 DEF TypeInv, Bounded, JobsOfOthers
<1>. QED
  BY <1>2, <1>4, <1>5, <1>6

LEMMA GoesToIs ==
  ASSUME TypeInv, NEW w \in Workers, NEW at, GoesTo(w, at)
  PROVE  /\ worker[w].criteria \in 0..MaxEdits /\ worker[w].seen \in 0..MaxEdits
         /\ worker' = [worker EXCEPT ![w] = [worker[w] EXCEPT !.at = at,
                         !.criteria = worker[w].criteria, !.seen = worker[w].seen]]
<1>1. worker[w] \in Worker
  BY DEF TypeInv, TypeOK
<1>2. [worker[w] EXCEPT !.at = at] = [worker[w] EXCEPT !.at = at,
                         !.criteria = worker[w].criteria, !.seen = worker[w].seen]
  BY <1>1 DEF Worker
<1>3. worker' = [worker EXCEPT ![w] = [worker[w] EXCEPT !.at = at]]
  BY DEF GoesTo
<1>. QED
  BY <1>1, <1>2, <1>3 DEF Worker

LEMMA ReportTyped ==
  ASSUME TypeInv, NEW i \in Items, NEW state \in RowStates \ {"none"}, Report(i, state)
  PROVE  /\ row' \in [Items -> RowStates]
         /\ \A k \in Items : row'[k] = "none" <=> row[k] = "none"
         /\ \A k \in Items \ {i} : row'[k] = row[k]
         /\ row'[i] \in {"none", state}
<1>1. row \in [Items -> RowStates]
  BY DEF TypeInv, TypeOK
<1>2. row' = [row EXCEPT ![i] = IF row[i] = "none" THEN "none" ELSE state]
  BY <1>1 DEF Report
<1>3. "none" \in RowStates
  BY DEF RowStates
<1>4. \A k \in Items : row'[k] = IF k = i THEN (IF row[i] = "none" THEN "none" ELSE state)
                               ELSE row[k]
  BY <1>1, <1>2
<1>. QED
  BY <1>1, <1>2, <1>3, <1>4

(* What a worker does to what is stored: it writes a status, or results. *)
Attempting(w) ==
  /\ \/ /\ GoesTo(w, "work") \/ GoesTo(w, "store") \/ GoesTo(w, "fail")
        /\ UNCHANGED row \/ Report(ItemOf(w), "processing")
        /\ UNCHANGED job
     \/ /\ Returns(w) \/ Throws(w, TRUE)
        /\ Report(ItemOf(w), "done") \/ Report(ItemOf(w), "failed")
     \/ Throws(w, FALSE) /\ UNCHANGED row
  /\ HasStatus(kind[ItemOf(w)])
  /\ UNCHANGED <<kind, object, kept, evaluation, request, deleter>>

Analysing(w) ==
  /\ \/ UNCHANGED <<job, evaluated>> /\ ReadCriteria(w)
     \/ UNCHANGED evaluated /\ (Returns(w) \/ Throws(w, FALSE))
     \/ /\ worker[w].at = "store"
        /\ evaluated' = [evaluated EXCEPT ![ItemOf(w)] = worker[w].criteria]
        /\ Returns(w)
  /\ kind[ItemOf(w)] \in Calls
  /\ UNCHANGED <<kind, store, criteria, request, deleter>>

LEMMA ProcessorDoes ==
  ASSUME NEW w \in Workers, Processor(w)
  PROVE  worker[w].at # "idle" /\ (Attempting(w) \/ Analysing(w))
<1>1. ASSUME Attempt(w), HasStatus(kind[ItemOf(w)]) PROVE Attempting(w)
  BY <1>1 DEF Attempt, Begin, Work, Store, Catch, Attempting, store
<1>2. ASSUME PostCall(w), kind[ItemOf(w)] \in Calls PROVE Analysing(w)
  BY <1>2 DEF PostCall, PostCallRead, PostCallStore, WorksOnCall, Analysing, ReadCriteria, evaluation
<1>. QED
  BY <1>1, <1>2 DEF Processor, SttTranscribe, TestExecution, PostCallCriteria,
     PostCallDataExtract, HasStatus, Calls

LEMMA ItemOfTyped ==
  ASSUME TypeInv, NEW w \in Workers, worker[w].at # "idle"
  PROVE  ItemOf(w) \in Items
<1>1. worker[w].job \in Jobs /\ job[worker[w].job] \in Job
  BY DEF TypeInv, TypeOK, Held
<1>. QED
  BY <1>1 DEF ItemOf, Job

LEMMA ProcessorTyped ==
  ASSUME TypeInv, NEW w \in Workers, Processor(w)
  PROVE  TypeInv' /\ JobsOfOthers(w)
<1>1. worker[w].at # "idle" /\ (Attempting(w) \/ Analysing(w)) /\ ItemOf(w) \in Items
  BY ProcessorDoes, ItemOfTyped
<1>2. UNCHANGED <<kind, object, kept, request, criteria, deleter>>
  BY <1>1 DEF Attempting, Analysing, store, evaluation
<1>3. row' \in [Items -> RowStates]
  BY <1>1, ReportTyped DEF Attempting, Analysing, store, RowStates, Unsettled, TypeInv, TypeOK
<1>4. evaluated' \in [Items -> 0..MaxEdits]
  <2>1. worker[w].criteria \in 0..MaxEdits
    BY DEF TypeInv, TypeOK, Worker
  <2>. QED
    BY <1>1, <2>1 DEF Attempting, Analysing, evaluation, TypeInv, TypeOK
<1>5. /\ job' \in [Jobs -> Job \cup {None}] /\ worker' \in [Workers -> Worker]
      /\ Held' /\ Bounded' /\ JobsOfOthers(w)
  <2>1. CASE Returns(w) \/ Throws(w, TRUE) \/ Throws(w, FALSE)
    BY <1>1, <1>2, <2>1, ReleaseTyped
  <2>2. ASSUME NEW at \in {"work", "store", "fail"}, GoesTo(w, at), UNCHANGED job
        PROVE  /\ job' \in [Jobs -> Job \cup {None}] /\ worker' \in [Workers -> Worker]
               /\ Held' /\ Bounded' /\ JobsOfOthers(w)
    <3>1. /\ worker[w].criteria \in 0..MaxEdits /\ worker[w].seen \in 0..MaxEdits
          /\ worker' = [worker EXCEPT ![w] = [worker[w] EXCEPT !.at = at,
                         !.criteria = worker[w].criteria, !.seen = worker[w].seen]]
      BY <2>2, GoesToIs
    <3>2. Held' /\ Bounded' /\ JobsOfOthers(w) /\ worker' \in [Workers -> Worker]
      BY <1>1, <1>2, <2>2, <3>1, GoesOnTyped
    <3>. QED
      BY <2>2, <3>2 DEF TypeInv, TypeOK
  <2>3. CASE ReadCriteria(w) /\ kind[ItemOf(w)] \in Calls
    <3>1. criteria[kind[ItemOf(w)]] \in 0..MaxEdits /\ evaluated[ItemOf(w)] \in 0..MaxEdits
      BY <1>1, <2>3 DEF TypeInv, TypeOK
    <3>2. worker' = [worker EXCEPT ![w] = [worker[w] EXCEPT !.at = "store",
                       !.criteria = criteria[kind[ItemOf(w)]], !.seen = evaluated[ItemOf(w)]]]
      BY <2>3 DEF ReadCriteria, TypeInv, TypeOK
    <3>3. UNCHANGED <<kind, job>>
      BY <1>2, <2>3 DEF ReadCriteria
    <3>4. Held' /\ Bounded' /\ JobsOfOthers(w) /\ worker' \in [Workers -> Worker]
      BY <1>1, <3>1, <3>2, <3>3, GoesOnTyped
    <3>. QED
      BY <3>3, <3>4 DEF TypeInv, TypeOK
  <2>. QED
    BY <1>1, <2>1, <2>2, <2>3 DEF Attempting, Analysing
<1>. QED
  BY <1>2, <1>3, <1>4, <1>5 DEF TypeInv, TypeOK

LEMMA TakeTyped ==
  ASSUME TypeInv, NEW w \in Workers, NEW j \in Jobs, Take(w, j)
  PROVE  TypeInv' /\ JobsOfOthers(w)
<1>. DEFINE r == [job[j] EXCEPT !.st = "active", !.owner = w]
            at == IF HasStatus(kind[job[j].item]) THEN "begin" ELSE "work"
            v == [worker[w] EXCEPT !.job = j, !.at = at]
<1>1. /\ job[j] \in Job /\ worker[w] \in Worker /\ job[j].st = "waiting"
      /\ job[j] # None /\ worker[w].at = "idle"
  BY DEF Take, TypeInv, TypeOK
<1>2. /\ r \in Job /\ r.item = job[j].item /\ r.zombie = job[j].zombie
      /\ r.made = job[j].made /\ r.stalls = job[j].stalls /\ r.st = "active" /\ r.owner = w
  BY <1>1 DEF Job
<1>3. v \in Worker /\ v.job = j /\ v.at # "idle"
  BY <1>1 DEF Worker
<1>4. job' = [job EXCEPT ![j] = r] /\ worker' = [worker EXCEPT ![w] = v]
  BY DEF Take, TypeInv, TypeOK
<1>. HIDE DEF r, v
<1>5. r # None
  <2>1. DOMAIN r # {}
    BY <1>2 DEF Job
  <2>. QED
    BY <2>1 DEF None
<1>6. /\ job' \in [Jobs -> Job \cup {None}] /\ worker' \in [Workers -> Worker]
      /\ job'[j] = r /\ worker'[w] = v
      /\ \A k \in Jobs \ {j} : job'[k] = job[k]
      /\ \A u \in Workers \ {w} : worker'[u] = worker[u]
  BY <1>2, <1>3, <1>4 DEF TypeInv, TypeOK
<1>7. UNCHANGED <<kind, store, evaluation, request, deleter>>
  BY DEF Take
<1>8. TypeOK'
  BY <1>6, <1>7 DEF TypeInv, TypeOK, store, evaluation
<1>9. JobsOfOthers(w)
  BY <1>1, <1>2, <1>5, <1>6 DEF JobsOfOthers
<1>10. Held'
  <2>1. ASSUME NEW u \in Workers \ {w}, worker[u].at # "idle"
        PROVE  /\ worker[u].job \in Jobs /\ job[worker[u].job] # None
               /\ job'[worker[u].job] # None
               /\ job'[worker[u].job].zombie = job[worker[u].job].zombie
               /\ \/ job[worker[u].job].zombie
                  \/ job'[worker[u].job] = job[worker[u].job] /\ Owns(u)
    <3>1. worker[u].job \in Jobs /\ job[worker[u].job] # None
          /\ (Owns(u) \/ job[worker[u].job].zombie)
      BY <2>1 DEF TypeInv, Held
    <3>2. Owns(u) => worker[u].job # j
      BY <1>1 DEF Owns
    <3>3. CASE worker[u].job = j
      BY <1>2, <1>5, <1>6, <3>1, <3>2, <3>3
    <3>4. CASE worker[u].job # j
      BY <1>6, <3>1, <3>4
    <3>. QED
      BY <3>3, <3>4
  <2>. QED
    BY <1>2, <1>3, <1>5, <1>6, <2>1 DEF Held, Owns
<1>11. Bounded'
  BY <1>1, <1>2, <1>6, <1>7 DEF TypeInv, Bounded, store
<1>. QED
  BY <1>8, <1>9, <1>10, <1>11 DEF TypeInv

LEMMA StallTyped ==
  ASSUME TypeInv, NEW j \in Jobs, Stall(j)
  PROVE  /\ TypeInv'
         /\ \A k \in Jobs \ {j} : job'[k] = job[k]
         /\ job[j] # None /\ job'[j] # None /\ job'[j].item = job[j].item
         /\ job'[j].st # "ended" \/ job'[j].blind
<1>. DEFINE last == job[j].stalls = MaxStalls
            zombie == job[j].zombie \/ worker[job[j].owner].job = j
            r == [job[j] EXCEPT !.stalls = @ + 1, !.st = IF last THEN "ended" ELSE "waiting",
                                !.blind = last, !.zombie = zombie, !.owner = None]
<1>1. /\ job[j] \in Job /\ job[j] # None /\ job[j].st = "active" /\ job[j].owner \in Workers
      /\ job[j].stalls <= MaxStalls /\ job[j].made < Attempts(kind[job[j].item])
  BY DEF Stall, TypeInv, TypeOK, Bounded
<1>2. job' = [job EXCEPT ![j] = r] /\ UNCHANGED <<kind, store, evaluation, request, worker, deleter>>
  BY <1>1 DEF Stall, TypeInv, TypeOK
<1>3. last \in BOOLEAN /\ zombie \in BOOLEAN
  BY Zenon
<1>. HIDE DEF last, zombie
<1>4. job[j].stalls + 1 \in 0..(MaxStalls + 1)
  BY <1>1 DEF Job, MaxStalls
<1>5. r \in Job /\ r.item = job[j].item /\ r.zombie = zombie /\ r.made = job[j].made
      /\ r.stalls = job[j].stalls + 1 /\ r.st = (IF last THEN "ended" ELSE "waiting")
      /\ r.blind = last
  BY <1>1, <1>3, <1>4 DEF Job
<1>. HIDE DEF r
<1>6. r # None
  <2>1. DOMAIN r # {}
    BY <1>5 DEF Job
  <2>. QED
    BY <2>1 DEF None
<1>7. /\ job' \in [Jobs -> Job \cup {None}] /\ job'[j] = r
      /\ \A k \in Jobs \ {j} : job'[k] = job[k]
  BY <1>2, <1>5 DEF TypeInv, TypeOK
<1>8. TypeOK'
  BY <1>2, <1>7 DEF TypeInv, TypeOK, store, evaluation
<1>9. Held'
  <2>. SUFFICES ASSUME NEW u \in Workers, worker[u].at # "idle"
                PROVE  /\ worker[u].job \in Jobs /\ job'[worker[u].job] # None
                       /\ Owns(u)' \/ job'[worker[u].job].zombie
    BY <1>2 DEF Held
  <2>1. worker[u].job \in Jobs /\ job[worker[u].job] # None
        /\ (Owns(u) \/ job[worker[u].job].zombie)
    BY DEF TypeInv, Held
  <2>2. CASE worker[u].job # j
    BY <1>2, <1>7, <2>1, <2>2 DEF Owns
  <2>3. CASE worker[u].job = j
    <3>1. zombie
      BY <2>1, <2>3 DEF Owns, zombie
    <3>. QED
      BY <1>5, <1>6, <1>7, <2>1, <2>3, <3>1
  <2>. QED
    BY <2>2, <2>3
<1>10. Bounded'
  <2>1. ~last => job[j].stalls + 1 <= MaxStalls
    BY <1>1 DEF last, MaxStalls, Job
  <2>. QED
    BY <1>1, <1>2, <1>5, <1>7, <2>1 DEF TypeInv, Bounded
<1>. QED
  BY <1>1, <1>5, <1>6, <1>7, <1>8, <1>9, <1>10 DEF TypeInv

(* The remaining steps leave the jobs and the workers alone, but for the   *)
(* job a request adds. *)
RequestStep ==
  \E i \in Items : CreateTranscription(i) \/ RunTest(i) \/ Generate(i) \/ UploadFile(i)

DeleteStep ==
  \E d \in Deleters :
    \/ StopDelete(d)
    \/ \E i \in Items :
         \/ DeleteTranscript(d, i) \/ DeleteGeneration(d, i)
         \/ PurgeExpiredConversations(d, i) \/ DeleteTest(d, i)

LEMMA AddJobTyped ==
  ASSUME TypeInv, NEW i \in Items, NEW next \in {"enqueue", "answered"}, AddJob(i, next)
  PROVE  /\ TypeInv'
         /\ \E j \in Jobs : /\ job[j] = None /\ job'[j] # None /\ job'[j] = Added(i)
                            /\ \A k \in Jobs \ {j} : job'[k] = job[k]
<1>1. PICK j \in Jobs : job[j] = None /\ job' = [job EXCEPT ![j] = Added(i)]
  BY DEF AddJob
<1>2. Added(i) \in Job /\ Added(i) # None
  <2>1. Added(i) \in Job
    BY DEF Added, Job, MaxStalls
  <2>2. DOMAIN Added(i) # {}
    BY DEF Added
  <2>. QED
    BY <2>1, <2>2 DEF None
<1>3. UNCHANGED <<kind, store, evaluation, worker, deleter>> /\ request' = [request EXCEPT ![i] = next]
  BY DEF AddJob
<1>4. /\ job' \in [Jobs -> Job \cup {None}] /\ job'[j] = Added(i)
      /\ \A k \in Jobs \ {j} : job'[k] = job[k]
  BY <1>1, <1>2 DEF TypeInv, TypeOK
<1>5. TypeOK'
  BY <1>3, <1>4 DEF TypeInv, TypeOK, store, evaluation
<1>6. Held'
  BY <1>1, <1>3, <1>4 DEF TypeInv, Held, Owns
<1>7. Bounded'
  <2>1. /\ Added(i).st = "waiting" /\ Added(i).made = 0 /\ Added(i).stalls = 0
        /\ Attempts(kind[Added(i).item]) \in {2, 3}
    BY DEF Added, Attempts
  <2>. QED
    BY <1>3, <1>4, <2>1 DEF TypeInv, Bounded, MaxStalls
<1>. QED
  BY <1>1, <1>2, <1>4, <1>5, <1>6, <1>7 DEF TypeInv

LEMMA RequestDoes ==
  ASSUME RequestStep
  PROVE  \E i \in Items :
           \/ PutObject(i)
           \/ InsertRow(i, "pending", "enqueue") /\ HasStatus(kind[i])
           \/ InsertRow(i, "stored", "answered")
           \/ AddJob(i, "answered")
BY DEF RequestStep, CreateTranscription, RunTest, Generate, UploadFile, HasStatus

LEMMA DeleteDoes ==
  ASSUME DeleteStep
  PROVE  \E d \in Deleters :
           \/ StopDelete(d)
           \/ \E i \in Items : StartDelete(d, i)
           \/ deleter[d] # None /\ (DeleteObject(d) \/ DeleteRow(d))
BY DEF DeleteStep, DeleteTranscript, DeleteGeneration, PurgeExpiredConversations, DeleteTest, Delete

LEMMA AnalysisDoes ==
  ASSUME AnalysisStep
  PROVE  \/ \E i \in Items : kind[i] \in Calls /\ AddJob(i, "enqueue")
         \/ \E k \in Calls : Edit(k)
BY DEF AnalysisStep, BatchReEvaluate, CreateCriterion, UpdateCriterion, DeleteCriterion,
       CreateDataSpec, UpdateDataSpec, DeleteDataSpec, Calls

(* Every step, by what it changes. *)
LEMMA StepDoes ==
  ASSUME [Next]_vars
  PROVE  \/ UNCHANGED vars
         \/ \E i \in Items : PutObject(i)
         \/ \E i \in Items : InsertRow(i, "pending", "enqueue") /\ HasStatus(kind[i])
         \/ \E i \in Items : InsertRow(i, "stored", "answered")
         \/ \E i \in Items : \/ AddJob(i, "answered")
                             \/ AddJob(i, "enqueue") /\ kind[i] \in Calls
         \/ \E k \in Calls : Edit(k)
         \/ \E w \in Workers : Processor(w)
         \/ \E w \in Workers : Die(w)
         \/ \E w \in Workers, j \in Jobs : Take(w, j)
         \/ \E j \in Jobs : Stall(j)
         \/ \E d \in Deleters :
              \/ StopDelete(d)
              \/ \E i \in Items : StartDelete(d, i)
              \/ deleter[d] # None /\ (DeleteObject(d) \/ DeleteRow(d))
<1>1. CASE RequestStep
  BY <1>1, RequestDoes, Zenon
<1>2. CASE DeleteStep
  BY <1>2, DeleteDoes, Zenon
<1>3. CASE AnalysisStep
  BY <1>3, AnalysisDoes, Zenon
<1>4. Next => \/ RequestStep \/ DeleteStep \/ AnalysisStep
              \/ \E w \in Workers : Processor(w) \/ Die(w) \/ \E j \in Jobs : Take(w, j)
              \/ \E j \in Jobs : Stall(j)
  BY Zenon DEF Next, RequestStep, DeleteStep
<1>. QED
  BY <1>1, <1>2, <1>3, <1>4, Zenon

(* What a worker that dies may have written is what it would have written  *)
(* alive. *)
LEMMA DieDoes ==
  ASSUME TypeInv, NEW w \in Workers, Die(w)
  PROVE  /\ worker[w].at # "idle" /\ ItemOf(w) \in Items
         /\ worker' = [worker EXCEPT ![w] = Idle]
         /\ UNCHANGED <<kind, object, kept, criteria, request, job, deleter>>
         /\ row' \in [Items -> RowStates]
         /\ \A i \in Items : row'[i] = "none" <=> row[i] = "none"
         /\ \A i \in Items : row'[i] = row[i] \/ row'[i] \notin Unsettled
         /\ \/ UNCHANGED evaluated
            \/ /\ WorksOnCall(w, "store")
               /\ evaluated' = [evaluated EXCEPT ![ItemOf(w)] = worker[w].criteria]
<1>1. worker[w].at # "idle" /\ ItemOf(w) \in Items
  BY ItemOfTyped DEF Die
<1>2. {"done", "failed"} \subseteq RowStates \ {"none"} /\ "none" \notin Unsettled
      /\ {"done", "failed"} \cap Unsettled = {}
  BY DEF RowStates, Unsettled
<1>3. UNCHANGED row \/ Report(ItemOf(w), "done") \/ Report(ItemOf(w), "failed")
  BY DEF Die, WritesLast
<1>4. /\ row' \in [Items -> RowStates]
      /\ \A i \in Items : row'[i] = "none" <=> row[i] = "none"
      /\ \A i \in Items : row'[i] = row[i] \/ row'[i] \notin Unsettled
  <2>1. CASE UNCHANGED row
    BY <2>1 DEF TypeInv, TypeOK
  <2>2. CASE Report(ItemOf(w), "done")
    BY <1>1, <1>2, <2>2, ReportTyped
  <2>3. CASE Report(ItemOf(w), "failed")
    BY <1>1, <1>2, <2>3, ReportTyped
  <2>. QED
    BY <1>3, <2>1, <2>2, <2>3
<1>5. \/ UNCHANGED evaluated
      \/ /\ WorksOnCall(w, "store")
         /\ evaluated' = [evaluated EXCEPT ![ItemOf(w)] = worker[w].criteria]
  BY DEF Die, WritesLast
<1>. QED
  BY <1>1, <1>4, <1>5 DEF Die, Rests

LEMMA DieTyped ==
  ASSUME TypeInv, NEW w \in Workers, Die(w)
  PROVE  TypeInv'
<1>1. Idle \in Worker /\ Idle.at = "idle"
  BY MediaAssumption DEF MediaAssumption, Idle, Worker
<1>2. evaluated' \in [Items -> 0..MaxEdits]
  <2>1. worker[w].criteria \in 0..MaxEdits
    BY DEF TypeInv, TypeOK, Worker
  <2>. QED
    BY <2>1, DieDoes DEF TypeInv, TypeOK
<1>3. TypeOK'
  BY <1>1, <1>2, DieDoes DEF TypeInv, TypeOK
<1>4. Held' /\ Bounded'
  BY <1>1, DieDoes DEF TypeInv, TypeOK, Held, Owns, Bounded
<1>. QED
  BY <1>3, <1>4 DEF TypeInv

LEMMA TypeKept == TypeInv /\ [Next]_vars => TypeInv'
<1>. SUFFICES ASSUME TypeInv, [Next]_vars PROVE TypeInv'
  OBVIOUS
<1>1. ASSUME UNCHANGED <<kind, job, worker>>, TypeOK' PROVE TypeInv'
  BY <1>1 DEF TypeInv, Held, Owns, Bounded
<1>2. ASSUME NEW i \in Items, PutObject(i) PROVE TypeInv'
  BY <1>1, <1>2 DEF PutObject, TypeInv, TypeOK, evaluation
<1>3. ASSUME NEW i \in Items, NEW state \in {"pending", "stored"},
             NEW next \in {"enqueue", "answered"}, InsertRow(i, state, next)
      PROVE  TypeInv'
  <2>1. state \in RowStates
    BY DEF RowStates, Unsettled
  <2>. QED
    BY <1>1, <1>3, <2>1 DEF InsertRow, TypeInv, TypeOK, evaluation
<1>4. ASSUME NEW i \in Items, NEW next \in {"enqueue", "answered"}, AddJob(i, next)
      PROVE  TypeInv'
  BY <1>4, AddJobTyped
<1>5. ASSUME NEW k \in Calls, Edit(k) PROVE TypeInv'
  <2>1. criteria[k] + 1 \in 0..MaxEdits
    BY <1>5, MediaAssumption DEF MediaAssumption, Edit, TypeInv, TypeOK
  <2>. QED
    BY <1>1, <1>5, <2>1 DEF Edit, TypeInv, TypeOK, store
<1>6. ASSUME NEW d \in Deleters, NEW i \in Items, StartDelete(d, i) PROVE TypeInv'
  BY <1>1, <1>6 DEF StartDelete, TypeInv, TypeOK, store, evaluation
<1>7. ASSUME NEW d \in Deleters, deleter[d] # None, DeleteObject(d) \/ DeleteRow(d) PROVE TypeInv'
  <2>1. deleter[d] \in [at : {"object", "row"}, item : Items]
    BY <1>7 DEF TypeInv, TypeOK
  <2>2. CASE DeleteObject(d)
    <3>1. [deleter[d] EXCEPT !.at = "row"] \in [at : {"object", "row"}, item : Items]
      BY <2>1
    <3>2. deleter' = [deleter EXCEPT ![d] = [deleter[d] EXCEPT !.at = "row"]]
      BY <2>2 DEF DeleteObject
    <3>3. deleter' \in [Deleters -> [at : {"object", "row"}, item : Items] \cup {None}]
      BY <3>1, <3>2 DEF TypeInv, TypeOK
    <3>. QED
      BY <1>1, <2>2, <3>3 DEF DeleteObject, TypeInv, TypeOK, evaluation
  <2>3. CASE DeleteRow(d)
    <3>1. "none" \in RowStates
      BY DEF RowStates
    <3>. QED
      BY <1>1, <2>1, <2>3, <3>1 DEF DeleteRow, TypeInv, TypeOK, evaluation
  <2>. QED
    BY <1>7, <2>2, <2>3
<1>8. ASSUME NEW d \in Deleters, StopDelete(d) PROVE TypeInv'
  BY <1>1, <1>8 DEF StopDelete, TypeInv, TypeOK, store, evaluation
<1>9. CASE UNCHANGED vars
  BY <1>1, <1>9 DEF vars, TypeInv, TypeOK, store, evaluation
<1>. QED
  BY <1>2, <1>3, <1>4, <1>5, <1>6, <1>7, <1>8, <1>9, StepDoes, ProcessorTyped, TakeTyped, DieTyped,
     StallTyped

(* Every variable keeps its type: no attempt, stall or edit count leaves   *)
(* its bounds, and no job gets an owner that is no worker. *)
THEOREM TypeCorrect == Spec => []TypeOK
<1>. TypeInv => TypeOK
  BY DEF TypeInv
<1>. QED
  BY InitTyped, TypeKept, PTL DEF Spec

-----------------------------------------------------------------------------
(* Rows and objects. *)
RowsInv == RowsAndObjectsAgree /\ Deleting

(* Whoever works on a job makes no row and deletes none. *)
LEMMA WorkKeepsRows ==
  ASSUME TypeInv, NEW w \in Workers, Processor(w)
  PROVE  /\ UNCHANGED <<kind, object, kept, request, criteria, deleter>>
         /\ \A i \in Items : row'[i] = "none" <=> row[i] = "none"
<1>1. worker[w].at # "idle" /\ (Attempting(w) \/ Analysing(w)) /\ ItemOf(w) \in Items
  BY ProcessorDoes, ItemOfTyped
<1>2. {"processing", "done", "failed"} \subseteq RowStates \ {"none"}
  BY DEF RowStates, Unsettled
<1>3. \A i \in Items : row'[i] = "none" <=> row[i] = "none"
  BY <1>1, <1>2, ReportTyped DEF Attempting, Analysing, store
<1>. QED
  BY <1>1, <1>3 DEF Attempting, Analysing, store, evaluation

LEMMA RowsKept == TypeInv /\ RowsInv /\ [Next]_vars => RowsInv'
<1>. SUFFICES ASSUME TypeInv, RowsInv, [Next]_vars PROVE RowsInv'
  OBVIOUS
<1>. USE DEF RowsInv, RowsAndObjectsAgree, Deleting
<1>1. ASSUME UNCHANGED <<kind, object, kept, request, deleter>>,
             \A i \in Items : row'[i] = "none" <=> row[i] = "none"
      PROVE  RowsInv'
  BY <1>1
<1>2. ASSUME NEW i \in Items, PutObject(i) PROVE RowsInv'
  BY <1>2 DEF PutObject, TypeInv, TypeOK
<1>3. ASSUME NEW i \in Items, NEW state \in {"pending", "stored"},
             NEW next \in {"enqueue", "answered"}, InsertRow(i, state, next)
      PROVE  RowsInv'
  BY <1>3 DEF InsertRow, TypeInv, TypeOK
<1>4. ASSUME NEW i \in Items, NEW next \in {"enqueue", "answered"}, AddJob(i, next)
      PROVE  RowsInv'
  BY <1>4 DEF AddJob, TypeInv, TypeOK, store
<1>5. ASSUME NEW k \in Calls, Edit(k) PROVE RowsInv'
  BY <1>1, <1>5 DEF Edit, store
<1>6. ASSUME NEW d \in Deleters, NEW i \in Items, StartDelete(d, i) PROVE RowsInv'
  <2>1. PICK at \in {"object", "row"} :
          /\ deleter' = [deleter EXCEPT ![d] = [at |-> at, item |-> i]]
          /\ at = "row" => ~HasObject(kind[i])
    BY <1>6 DEF StartDelete
  <2>2. deleter'[d] = [at |-> at, item |-> i] /\ \A e \in Deleters \ {d} : deleter'[e] = deleter[e]
    BY <2>1 DEF TypeInv, TypeOK
  <2>3. row[i] # "none" /\ UNCHANGED <<kind, object, row, kept, request>>
    BY <1>6 DEF StartDelete, store
  <2>4. HasObject(kind[i]) => request[i] # "put"
    BY <2>3
  <2>. QED
    BY <2>1, <2>2, <2>3, <2>4
<1>7. ASSUME NEW d \in Deleters, deleter[d] # None, DeleteObject(d) PROVE RowsInv'
  BY <1>7 DEF DeleteObject, TypeInv, TypeOK
<1>8. ASSUME NEW d \in Deleters, deleter[d] # None, DeleteRow(d) PROVE RowsInv'
  BY <1>8 DEF DeleteRow, TypeInv, TypeOK
<1>9. ASSUME NEW d \in Deleters, StopDelete(d) PROVE RowsInv'
  BY <1>9 DEF StopDelete, TypeInv, TypeOK, store
<1>10. ASSUME NEW w \in Workers, Processor(w) PROVE RowsInv'
  BY <1>1, <1>10, WorkKeepsRows
<1>11. ASSUME NEW w \in Workers, Die(w) \/ \E j \in Jobs : Take(w, j) PROVE RowsInv'
  <2>1. CASE Die(w)
    <3>1. UNCHANGED <<kind, object, kept, request, deleter>>
      BY <2>1, DieDoes
    <3>2. \A i \in Items : row'[i] = "none" <=> row[i] = "none"
      BY <2>1, DieDoes
    <3>. QED
      BY <1>1, <3>1, <3>2
  <2>2. CASE \E j \in Jobs : Take(w, j)
    BY <1>1, <2>2 DEF Take, store
  <2>. QED
    BY <1>11, <2>1, <2>2
<1>12. ASSUME NEW j \in Jobs, Stall(j) PROVE RowsInv'
  BY <1>1, <1>12 DEF Stall, store
<1>13. CASE UNCHANGED vars
  BY <1>1, <1>13 DEF vars, store
<1>. QED
  BY <1>2, <1>3, <1>4, <1>5, <1>6, <1>7, <1>8, <1>9, <1>10, <1>11, <1>12, <1>13, StepDoes

-----------------------------------------------------------------------------
(* Rows that wait for a job. *)
WorkInv == UnsettledIsWorkedOn /\ StatusInv

WorkedOn(i) ==
  \E j \in Jobs : /\ job[j] # None /\ job[j].item = i
                  /\ (job[j].st # "ended" \/ job[j].blind \/ job[j].zombie)

(* A step that leaves a job to every item that had one, and gives none a   *)
(* status but the one it is about. *)
LEMMA WorkKeptBy ==
  ASSUME WorkInv, UNCHANGED kind,
         \A i \in Items : row'[i] \in Unsettled =>
           \/ request'[i] = "enqueue" /\ HasStatus(kind[i])
           \/ HasStatus(kind[i]) /\ WorkedOn(i)'
           \/ row[i] \in Unsettled /\ request'[i] = request[i] /\ (WorkedOn(i) => WorkedOn(i)')
  PROVE  WorkInv'
BY DEF WorkInv, UnsettledIsWorkedOn, StatusInv, WorkedOn

LEMMA AttemptKeepsWork ==
  ASSUME TypeInv, WorkInv, NEW w \in Workers, worker[w].at # "idle", Attempting(w)
  PROVE  WorkInv'
<1>. DEFINE j == worker[w].job
<1>. PICK i \in Items : i = ItemOf(w)
  BY ItemOfTyped
<1>1. /\ j \in Jobs /\ job[j] # None /\ job[j].item = i
      /\ Owns(w) \/ job[j].zombie
  BY DEF TypeInv, Held, ItemOf
<1>2. UNCHANGED <<kind, request>> /\ HasStatus(kind[i])
  BY DEF Attempting
<1>3. CASE UNCHANGED job /\ (UNCHANGED row \/ Report(i, "processing"))
  <2>1. WorkedOn(i)
    BY <1>1 DEF WorkedOn, Owns
  <2>2. \A k \in Items : WorkedOn(k) => WorkedOn(k)'
    BY <1>3 DEF WorkedOn
  <2>3. \A k \in Items \ {i} : row'[k] = row[k]
    BY <1>1, <1>3 DEF Report, TypeInv, TypeOK
  <2>. QED
    BY <1>1, <1>2, <2>1, <2>2, <2>3, WorkKeptBy
<1>4. ASSUME Returns(w) \/ Throws(w, TRUE) \/ Throws(w, FALSE)
      PROVE  \A k \in Items \ {i} : WorkedOn(k) => WorkedOn(k)'
  <2>1. \A k \in Jobs \ {j} : job'[k] = job[k]
    BY <1>4, Released
  <2>. QED
    BY <1>1, <2>1 DEF WorkedOn
<1>5. CASE /\ Returns(w) \/ Throws(w, TRUE)
           /\ Report(i, "done") \/ Report(i, "failed")
  <2>1. /\ \A k \in Items \ {i} : row'[k] = row[k]
        /\ row'[i] \notin Unsettled
    BY <1>1, <1>5 DEF Report, Unsettled, TypeInv, TypeOK
  <2>. QED
    BY <1>2, <1>4, <1>5, <2>1, WorkKeptBy
<1>6. CASE Throws(w, FALSE) /\ UNCHANGED row
  <2>1. WorkedOn(i)'
    <3>1. job'[j] # None /\ job'[j].item = i /\ job'[j].zombie = job[j].zombie
      BY <1>1, <1>6, Released
    <3>2. CASE Owns(w)
      <4>1. job'[j].st # "ended" \/ job'[j].blind
        BY <1>6, <3>2, Released
      <4>. QED
        BY <1>1, <3>1, <4>1 DEF WorkedOn
    <3>3. CASE ~Owns(w)
      <4>1. job'[j].zombie
        BY <1>1, <3>1, <3>3
      <4>. QED
        BY <1>1, <3>1, <4>1 DEF WorkedOn
    <3>. QED
      BY <3>2, <3>3
  <2>2. \A k \in Items \ {i} : WorkedOn(k) => WorkedOn(k)'
    BY <1>4, <1>6
  <2>. QED
    BY <1>2, <1>6, <2>1, <2>2, WorkKeptBy
<1>. QED
  BY <1>3, <1>5, <1>6 DEF Attempting

LEMMA AnalysisKeepsWork ==
  ASSUME TypeInv, WorkInv, NEW w \in Workers, worker[w].at # "idle", Analysing(w)
  PROVE  WorkInv'
<1>. DEFINE j == worker[w].job
            i == ItemOf(w)
<1>1. j \in Jobs /\ job[j] # None /\ job[j].item = i /\ i \in Items
  BY ItemOfTyped DEF TypeInv, Held, ItemOf
<1>2. UNCHANGED <<kind, request, row>> /\ kind[i] \in Calls
  BY DEF Analysing, store
<1>3. ~HasStatus(kind[i])
  BY <1>2 DEF HasStatus, Calls, Transcripts
<1>. HIDE DEF i
<1>4. \A k \in Jobs \ {j} : job'[k] = job[k]
  <2>1. CASE ReadCriteria(w)
    BY <2>1 DEF ReadCriteria
  <2>2. CASE Returns(w) \/ Throws(w, FALSE)
    BY <2>2, Released
  <2>. QED
    BY <2>1, <2>2 DEF Analysing
<1>5. \A k \in Items \ {i} : WorkedOn(k) => WorkedOn(k)'
  BY <1>1, <1>4 DEF WorkedOn
<1>6. row[i] \notin Unsettled
  BY <1>1, <1>3 DEF WorkInv, StatusInv
<1>. QED
  BY <1>2, <1>5, <1>6, WorkKeptBy

LEMMA WorkKept == TypeInv /\ WorkInv /\ [Next]_vars => WorkInv'
<1>. SUFFICES ASSUME TypeInv, WorkInv, [Next]_vars PROVE WorkInv'
  OBVIOUS
<1>1. ASSUME UNCHANGED <<kind, job>>,
             \A i \in Items : row'[i] = row[i] \/ row'[i] \notin Unsettled,
             \A i \in Items : request'[i] = request[i] \/ request[i] # "enqueue"
      PROVE  WorkInv'
  BY <1>1 DEF WorkInv, UnsettledIsWorkedOn, StatusInv
<1>2. ASSUME NEW i \in Items, PutObject(i) PROVE WorkInv'
  BY <1>1, <1>2 DEF PutObject, TypeInv, TypeOK
<1>3. ASSUME NEW i \in Items, InsertRow(i, "pending", "enqueue"), HasStatus(kind[i])
      PROVE  WorkInv'
  <2>1. /\ request' = [request EXCEPT ![i] = "enqueue"] /\ row' = [row EXCEPT ![i] = "pending"]
        /\ UNCHANGED <<kind, job>>
    BY <1>3 DEF InsertRow
  <2>. QED
    BY <1>3, <2>1 DEF TypeInv, TypeOK, WorkInv, UnsettledIsWorkedOn, StatusInv
<1>4. ASSUME NEW i \in Items, InsertRow(i, "stored", "answered") PROVE WorkInv'
  BY <1>1, <1>4 DEF InsertRow, TypeInv, TypeOK, Unsettled
<1>5. ASSUME NEW i \in Items, NEW next \in {"enqueue", "answered"}, AddJob(i, next)
      PROVE  WorkInv'
  <2>1. PICK j \in Jobs : /\ job[j] = None /\ job'[j] # None /\ job'[j] = Added(i)
                          /\ \A k \in Jobs \ {j} : job'[k] = job[k]
    BY <1>5, AddJobTyped
  <2>2. Added(i).st = "waiting" /\ Added(i).item = i
    BY DEF Added
  <2>3. WorkedOn(i)'
    BY <2>1, <2>2 DEF WorkedOn
  <2>4. \A k \in Items : WorkedOn(k) => WorkedOn(k)'
    BY <2>1 DEF WorkedOn
  <2>5. UNCHANGED <<kind, row>> /\ \A k \in Items \ {i} : request'[k] = request[k]
    BY <1>5 DEF AddJob, store, TypeInv, TypeOK
  <2>6. row[i] \in Unsettled => HasStatus(kind[i])
    BY DEF WorkInv, StatusInv
  <2>. QED
    BY <2>3, <2>4, <2>5, <2>6, WorkKeptBy
<1>6. ASSUME NEW k \in Calls, Edit(k) PROVE WorkInv'
  BY <1>1, <1>6 DEF Edit, store
<1>7. ASSUME NEW d \in Deleters, StopDelete(d) \/ \E i \in Items : StartDelete(d, i) PROVE WorkInv'
  BY <1>1, <1>7 DEF StopDelete, StartDelete, store
<1>8. ASSUME NEW d \in Deleters, DeleteObject(d) \/ DeleteRow(d) PROVE WorkInv'
  BY <1>1, <1>8 DEF DeleteObject, DeleteRow, TypeInv, TypeOK, Unsettled
<1>9. ASSUME NEW w \in Workers, Processor(w) PROVE WorkInv'
  BY <1>9, ProcessorDoes, AttemptKeepsWork, AnalysisKeepsWork
<1>10. ASSUME NEW w \in Workers, Die(w) PROVE WorkInv'
  BY <1>1, <1>10, DieDoes
<1>11. ASSUME NEW w \in Workers, NEW j \in Jobs, Take(w, j) PROVE WorkInv'
  <2>1. /\ UNCHANGED <<kind, row, request>> /\ job[j] # None /\ job[j] \in Job
        /\ job' = [job EXCEPT ![j].st = "active", ![j].owner = w]
    BY <1>11 DEF Take, store, TypeInv, TypeOK
  <2>2. /\ job'[j] # None /\ job'[j].item = job[j].item /\ job'[j].st = "active"
        /\ \A k \in Jobs \ {j} : job'[k] = job[k]
    <3>1. job'[j] # None
      BY <1>11, <2>1, TakeTyped DEF JobsOfOthers
    <3>. QED
      BY <2>1, <3>1 DEF TypeInv, TypeOK, Job
  <2>3. \A k \in Items : WorkedOn(k) => WorkedOn(k)'
    BY <2>2 DEF WorkedOn
  <2>. QED
    BY <2>1, <2>3, WorkKeptBy
<1>12. ASSUME NEW j \in Jobs, Stall(j) PROVE WorkInv'
  <2>1. \A k \in Items : WorkedOn(k) => WorkedOn(k)'
    BY <1>12, StallTyped DEF WorkedOn
  <2>2. UNCHANGED <<kind, row, request>>
    BY <1>12 DEF Stall, store
  <2>. QED
    BY <2>1, <2>2, WorkKeptBy
<1>13. CASE UNCHANGED vars
  BY <1>1, <1>13 DEF vars, store
<1>. QED
  BY <1>2, <1>3, <1>4, <1>5, <1>6, <1>7, <1>8, <1>9, <1>10, <1>11, <1>12, <1>13, StepDoes

-----------------------------------------------------------------------------
(* Evaluations. *)
EvaluatedOf(v) ==
  /\ worker[v].seen <= worker[v].criteria
  /\ WorksOnCall(v, "store") => worker[v].criteria <= criteria[kind[ItemOf(v)]]

(* Who is not taking the step still has what it read. *)
LEMMA OthersEvaluate ==
  ASSUME TypeInv, EvaluationInv, NEW w \in Workers, JobsOfOthers(w), UNCHANGED <<kind, criteria>>,
         NEW v \in Workers \ {w}
  PROVE  EvaluatedOf(v)'
<1>1. worker'[v] = worker[v]
  BY DEF JobsOfOthers
<1>2. CASE worker[v].at = "idle"
  BY <1>1, <1>2 DEF EvaluatedOf, EvaluationInv, WorksOnCall
<1>3. CASE worker[v].at # "idle"
  <2>1. worker[v].job \in Jobs /\ job[worker[v].job] # None
    BY <1>3 DEF TypeInv, Held
  <2>2. ItemOf(v)' = ItemOf(v)
    BY <1>1, <2>1 DEF JobsOfOthers, ItemOf
  <2>. QED
    BY <1>1, <2>2 DEF EvaluatedOf, EvaluationInv, WorksOnCall
<1>. QED
  BY <1>2, <1>3

LEMMA EvaluationKeptBy ==
  ASSUME \A i \in Items : kind'[i] \in Calls => evaluated'[i] <= criteria'[kind'[i]],
         \A w \in Workers : EvaluatedOf(w)'
  PROVE  EvaluationInv'
BY DEF EvaluationInv, EvaluatedOf

LEMMA ProcessorEvaluates ==
  ASSUME TypeInv, EvaluationInv, NEW w \in Workers, Processor(w)
  PROVE  EvaluationInv'
<1>1. worker[w].at # "idle" /\ (Attempting(w) \/ Analysing(w)) /\ JobsOfOthers(w) /\ TypeInv'
  BY ProcessorDoes, ProcessorTyped
<1>. PICK i \in Items : i = ItemOf(w)
  BY <1>1, ItemOfTyped
<1>2. UNCHANGED <<kind, criteria>>
  BY WorkKeepsRows
<1>3. \A v \in Workers \ {w} : EvaluatedOf(v)'
  BY <1>1, <1>2, OthersEvaluate
<1>4. ASSUME Returns(w) \/ Throws(w, TRUE) \/ Throws(w, FALSE)
      PROVE  EvaluatedOf(w)'
  <2>1. worker' = [worker EXCEPT ![w] = Idle]
    BY <1>1, <1>4, Released
  <2>2. worker'[w] = Idle
    BY <2>1 DEF TypeInv, TypeOK
  <2>. QED
    BY <2>2 DEF EvaluatedOf, WorksOnCall, Idle
<1>5. CASE Attempting(w)
  <2>1. EvaluatedOf(w)'
    <3>1. ASSUME NEW at \in {"work", "store", "fail"}, GoesTo(w, at), UNCHANGED job
          PROVE  EvaluatedOf(w)'
      <4>1. worker[w] \in Worker /\ worker' = [worker EXCEPT ![w].at = at]
        BY <3>1 DEF GoesTo, TypeInv, TypeOK
      <4>2. worker'[w].job = worker[w].job /\ worker'[w].seen = worker[w].seen
            /\ worker'[w].criteria = worker[w].criteria
        BY <4>1 DEF Worker, TypeInv, TypeOK
      <4>3. ItemOf(w)' = i /\ kind'[i] \notin Calls
        BY <1>2, <1>5, <3>1, <4>2 DEF ItemOf, Attempting, HasStatus, Calls, Transcripts
      <4>. QED
        BY <4>2, <4>3 DEF EvaluatedOf, WorksOnCall, EvaluationInv
    <3>. QED
      BY <1>4, <1>5, <3>1 DEF Attempting
  <2>2. UNCHANGED evaluated
    BY <1>5 DEF Attempting, evaluation
  <2>. QED
    BY <1>2, <1>3, <2>1, <2>2, EvaluationKeptBy DEF EvaluationInv
<1>6. CASE Analysing(w) /\ ReadCriteria(w) /\ UNCHANGED <<job, evaluated>>
  <2>1. /\ worker[w] \in Worker /\ kind[i] \in Calls
        /\ worker' = [worker EXCEPT ![w] = [worker[w] EXCEPT !.at = "store",
                       !.criteria = criteria[kind[i]], !.seen = evaluated[i]]]
    BY <1>6 DEF Analysing, ReadCriteria, TypeInv, TypeOK
  <2>2. /\ worker'[w].job = worker[w].job /\ worker'[w].criteria = criteria[kind[i]]
        /\ worker'[w].seen = evaluated[i]
    BY <2>1 DEF Worker, TypeInv, TypeOK
  <2>3. ItemOf(w)' = i
    BY <1>6, <2>2 DEF ItemOf
  <2>4. evaluated[i] <= criteria[kind[i]] /\ criteria[kind[i]] \in Nat
    BY <2>1 DEF EvaluationInv, TypeInv, TypeOK
  <2>5. EvaluatedOf(w)'
    BY <1>2, <2>2, <2>3, <2>4 DEF EvaluatedOf
  <2>. QED
    BY <1>2, <1>3, <1>6, <2>5, EvaluationKeptBy DEF EvaluationInv
<1>7. CASE Analysing(w) /\ UNCHANGED evaluated /\ (Returns(w) \/ Throws(w, FALSE))
  BY <1>2, <1>3, <1>4, <1>7, EvaluationKeptBy DEF EvaluationInv
<1>8. CASE /\ Analysing(w) /\ worker[w].at = "store" /\ Returns(w)
           /\ evaluated' = [evaluated EXCEPT ![i] = worker[w].criteria]
  <2>1. worker[w].criteria <= criteria[kind[i]]
    BY <1>8 DEF EvaluationInv, WorksOnCall, Analysing
  <2>2. \A k \in Items : kind'[k] \in Calls => evaluated'[k] <= criteria'[kind'[k]]
    BY <1>2, <1>8, <2>1 DEF EvaluationInv, TypeInv, TypeOK
  <2>. QED
    BY <1>3, <1>4, <1>8, <2>2, EvaluationKeptBy
<1>. QED
  BY <1>1, <1>5, <1>6, <1>7, <1>8 DEF Analysing

LEMMA EvaluationKept == TypeInv /\ EvaluationInv /\ [Next]_vars => EvaluationInv'
<1>. SUFFICES ASSUME TypeInv, EvaluationInv, [Next]_vars PROVE EvaluationInv'
  OBVIOUS
<1>1. ASSUME UNCHANGED <<kind, evaluated, job, worker>>,
             \A k \in Calls : criteria[k] <= criteria'[k], criteria' \in [Calls -> 0..MaxEdits]
      PROVE  EvaluationInv'
  <2>1. \A i \in Items : evaluated[i] \in Nat
    BY DEF TypeInv, TypeOK
  <2>2. \A k \in Calls : criteria[k] \in Nat /\ criteria'[k] \in Nat
    BY <1>1 DEF TypeInv, TypeOK
  <2>3. \A w \in Workers : worker[w].criteria \in Nat
    BY DEF TypeInv, TypeOK, Worker
  <2>4. \A i \in Items : kind'[i] \in Calls => evaluated'[i] <= criteria'[kind'[i]]
    BY <1>1, <2>1, <2>2 DEF EvaluationInv
  <2>5. \A w \in Workers : EvaluatedOf(w)'
    BY <1>1, <2>2, <2>3 DEF EvaluationInv, EvaluatedOf, WorksOnCall, ItemOf
  <2>. QED
    BY <2>4, <2>5, EvaluationKeptBy
<1>2. ASSUME UNCHANGED <<kind, evaluation, job, worker>> PROVE EvaluationInv'
  <2>1. \A k \in Calls : criteria[k] <= criteria'[k]
    BY <1>2 DEF evaluation, TypeInv, TypeOK
  <2>. QED
    BY <1>1, <1>2, <2>1 DEF evaluation, TypeInv, TypeOK
<1>3. ASSUME NEW i \in Items, PutObject(i) \/ InsertRow(i, "pending", "enqueue")
                                \/ InsertRow(i, "stored", "answered")
      PROVE  EvaluationInv'
  BY <1>2, <1>3 DEF PutObject, InsertRow
<1>4. ASSUME NEW i \in Items, NEW next \in {"enqueue", "answered"}, AddJob(i, next)
      PROVE  EvaluationInv'
  <2>1. PICK j \in Jobs : /\ job[j] = None /\ \A k \in Jobs \ {j} : job'[k] = job[k]
    BY <1>4, AddJobTyped
  <2>2. UNCHANGED <<kind, evaluated, criteria, worker>>
    BY <1>4 DEF AddJob, evaluation
  <2>3. ASSUME NEW w \in Workers PROVE EvaluatedOf(w)'
    <3>1. worker[w].at = "idle" \/ job'[worker[w].job] = job[worker[w].job]
      BY <2>1 DEF TypeInv, Held
    <3>. QED
      BY <2>2, <3>1 DEF EvaluationInv, EvaluatedOf, WorksOnCall, ItemOf
  <2>. QED
    BY <2>2, <2>3, EvaluationKeptBy DEF EvaluationInv
<1>5. ASSUME NEW k \in Calls, Edit(k) PROVE EvaluationInv'
  <2>1. /\ criteria' = [criteria EXCEPT ![k] = criteria[k] + 1]
        /\ criteria[k] < MaxEdits
        /\ UNCHANGED <<kind, evaluated, job, worker>>
    BY <1>5 DEF Edit
  <2>2. /\ criteria' \in [Calls -> 0..MaxEdits]
        /\ \A c \in Calls : criteria[c] <= criteria'[c]
    BY <2>1, MediaAssumption DEF MediaAssumption, TypeInv, TypeOK
  <2>. QED
    BY <1>1, <2>1, <2>2
<1>6. ASSUME NEW d \in Deleters, \/ StopDelete(d) \/ DeleteObject(d) \/ DeleteRow(d)
                                 \/ \E i \in Items : StartDelete(d, i)
      PROVE  EvaluationInv'
  BY <1>2, <1>6 DEF StopDelete, StartDelete, DeleteObject, DeleteRow
<1>7. ASSUME NEW w \in Workers, Processor(w) PROVE EvaluationInv'
  BY <1>7, ProcessorEvaluates
<1>8. ASSUME NEW w \in Workers, Die(w) PROVE EvaluationInv'
  <2>1. worker' = [worker EXCEPT ![w] = Idle] /\ UNCHANGED <<kind, criteria, job>>
    BY <1>8, DieDoes
  <2>2. EvaluatedOf(w)' /\ JobsOfOthers(w)
    BY <2>1 DEF EvaluatedOf, WorksOnCall, Idle, JobsOfOthers, TypeInv, TypeOK
  <2>3. \A v \in Workers \ {w} : EvaluatedOf(v)'
    BY <2>1, <2>2, OthersEvaluate
  <2>4. CASE UNCHANGED evaluated
    BY <2>1, <2>2, <2>3, <2>4, EvaluationKeptBy DEF EvaluationInv
  <2>5. CASE /\ WorksOnCall(w, "store")
             /\ evaluated' = [evaluated EXCEPT ![ItemOf(w)] = worker[w].criteria]
    <3>1. worker[w].criteria <= criteria[kind[ItemOf(w)]]
      BY <2>5 DEF EvaluationInv
    <3>2. \A i \in Items : kind'[i] \in Calls => evaluated'[i] <= criteria'[kind'[i]]
      BY <2>1, <2>5, <3>1 DEF EvaluationInv, TypeInv, TypeOK
    <3>. QED
      BY <2>2, <2>3, <3>2, EvaluationKeptBy
  <2>. QED
    BY <1>8, <2>4, <2>5, DieDoes
<1>9. ASSUME NEW w \in Workers, NEW j \in Jobs, Take(w, j) PROVE EvaluationInv'
  <2>1. UNCHANGED <<kind, evaluated, criteria>> /\ JobsOfOthers(w)
    BY <1>9, TakeTyped DEF Take, evaluation
  <2>2. PICK at \in {"begin", "work"} :
          worker' = [worker EXCEPT ![w] = [worker[w] EXCEPT !.job = j, !.at = at]]
    BY <1>9 DEF Take, TypeInv, TypeOK
  <2>3. worker'[w].at # "store" /\ worker'[w].criteria = worker[w].criteria
        /\ worker'[w].seen = worker[w].seen
    BY <2>2 DEF TypeInv, TypeOK, Worker
  <2>4. EvaluatedOf(w)'
    BY <2>3 DEF EvaluatedOf, WorksOnCall, EvaluationInv
  <2>5. \A v \in Workers \ {w} : EvaluatedOf(v)'
    BY <2>1, OthersEvaluate
  <2>. QED
    BY <2>1, <2>4, <2>5, EvaluationKeptBy DEF EvaluationInv
<1>10. ASSUME NEW j \in Jobs, Stall(j) PROVE EvaluationInv'
  <2>1. UNCHANGED <<kind, evaluated, criteria, worker>>
    BY <1>10 DEF Stall, evaluation
  <2>2. \A k \in Jobs : job[k] # None => job'[k].item = job[k].item
    BY <1>10, StallTyped
  <2>3. ASSUME NEW w \in Workers PROVE EvaluatedOf(w)'
    <3>1. worker[w].at = "idle" \/ ItemOf(w)' = ItemOf(w)
      BY <2>1, <2>2 DEF TypeInv, Held, ItemOf
    <3>. QED
      BY <2>1, <3>1 DEF EvaluationInv, EvaluatedOf, WorksOnCall
  <2>. QED
    BY <2>1, <2>3, EvaluationKeptBy DEF EvaluationInv
<1>11. CASE UNCHANGED vars
  BY <1>2, <1>11 DEF vars
<1>. QED
  BY <1>3, <1>4, <1>5, <1>6, <1>7, <1>8, <1>9, <1>10, <1>11, StepDoes

(* The one step that changes the results of a call. *)
LEMMA OnlyStoreReplaces ==
  ASSUME TypeInv, [Next]_vars, NEW i \in Items, evaluated'[i] # evaluated[i]
  PROVE  \E w \in Workers : /\ WorksOnCall(w, "store") /\ ItemOf(w) = i
                            /\ evaluated'[i] = worker[w].criteria
<1>1. ~UNCHANGED evaluated
  OBVIOUS
<1>2. PICK w \in Workers : Processor(w) \/ Die(w)
  BY <1>1, StepDoes DEF PutObject, InsertRow, AddJob, Edit, Take, Stall, StopDelete,
     StartDelete, DeleteObject, DeleteRow, evaluation, vars
<1>3. Processor(w) => Analysing(w)
  BY <1>1, ProcessorDoes DEF Attempting, evaluation
<1>4. /\ worker[w].at = "store" /\ kind[ItemOf(w)] \in Calls
      /\ evaluated' = [evaluated EXCEPT ![ItemOf(w)] = worker[w].criteria]
  BY <1>1, <1>2, <1>3, DieDoes DEF Analysing, WorksOnCall
<1>5. ItemOf(w) = i
  BY <1>4 DEF TypeInv, TypeOK
<1>6. evaluated'[i] = worker[w].criteria
  BY <1>4, <1>5 DEF TypeInv, TypeOK
<1>. QED
  BY <1>4, <1>5, <1>6 DEF WorksOnCall

LEMMA ForwardStep ==
  ASSUME TypeInv, EvaluationInv, [Next]_vars, NEW i \in Items, evaluated'[i] < evaluated[i]
  PROVE  \E w \in Workers : /\ WorksOnCall(w, "store") /\ ItemOf(w) = i
                            /\ worker[w].seen # evaluated[i]
<1>1. evaluated[i] \in Nat
  BY DEF TypeInv, TypeOK
<1>2. evaluated'[i] # evaluated[i]
  BY <1>1
<1>3. PICK w \in Workers : /\ WorksOnCall(w, "store") /\ ItemOf(w) = i
                           /\ evaluated'[i] = worker[w].criteria
  BY <1>2, OnlyStoreReplaces
<1>4. worker[w].seen \in Nat /\ worker[w].criteria \in Nat
  BY DEF TypeInv, TypeOK, Worker
<1>5. worker[w].seen <= worker[w].criteria
  BY DEF EvaluationInv
<1>6. worker[w].seen # evaluated[i]
  BY <1>1, <1>3, <1>4, <1>5
<1>. QED
  BY <1>3, <1>6

-----------------------------------------------------------------------------
IInv == TypeInv /\ RowsInv /\ WorkInv /\ EvaluationInv

LEMMA InvInit == Init => IInv
<1>. SUFFICES ASSUME Init PROVE IInv
  OBVIOUS
<1>1. TypeInv
  BY InitTyped
<1>2. RowsInv
  <2>1. /\ \A i \in Items : object[i] <=> row[i] # "none"
        /\ \A i \in Items : row[i] # "none" => kind[i] \in Calls
        /\ \A d \in Deleters : deleter[d] = None
    BY DEF Init
  <2>2. ASSUME NEW i \in Items, kind[i] \in Calls PROVE request[i] = "enqueue"
    BY <2>2 DEF Init
  <2>. QED
    BY <2>1, <2>2 DEF RowsInv, RowsAndObjectsAgree, Deleting
<1>3. WorkInv
  BY DEF Init, WorkInv, UnsettledIsWorkedOn, StatusInv, Unsettled
<1>4. EvaluationInv
  BY DEF Init, EvaluationInv, WorksOnCall, Idle
<1>. QED
  BY <1>1, <1>2, <1>3, <1>4 DEF IInv

LEMMA InvKept == IInv /\ [Next]_vars => IInv'
BY TypeKept, RowsKept, WorkKept, EvaluationKept DEF IInv

LEMMA InvHolds == Spec => []IInv
BY InvInit, InvKept, PTL DEF Spec

(* A row is never without its object because of the order of the two       *)
(* writes, and no object is left without a row but by MinIO or by a        *)
(* request that stopped, for any number of requests, deletes and purges at *)
(* once. *)
THEOREM RowsAgreed == Spec => []RowsAndObjectsAgree
<1>. IInv => RowsAndObjectsAgree
  BY DEF IInv, RowsInv
<1>. QED
  BY InvHolds, PTL

(* A transcript or a test run that is pending or processing has a job, or  *)
(* one of the named causes left it without: for any number of workers that *)
(* die, stall and retry. *)
THEOREM UnsettledWorkedOn == Spec => []UnsettledIsWorkedOn
<1>. IInv => UnsettledIsWorkedOn
  BY DEF IInv, WorkInv
<1>. QED
  BY InvHolds, PTL

(* Only a job that another one overtook puts back the results of a call,   *)
(* for any number of edits, jobs and workers. *)
THEOREM EvaluationsForward == Spec => EvaluationsGoForward
<1>1. ASSUME IInv, [Next]_vars
      PROVE  [\A i \in Items : evaluated'[i] < evaluated[i] =>
               \E w \in Workers : /\ WorksOnCall(w, "store") /\ ItemOf(w) = i
                                  /\ worker[w].seen # evaluated[i]]_vars
  BY <1>1, ForwardStep DEF IInv
<1>. QED
  BY <1>1, InvHolds, PTL DEF Spec, EvaluationsGoForward
===============================================================================
