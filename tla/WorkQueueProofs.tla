--------------------------- MODULE WorkQueueProofs ---------------------------
(* Proofs about WorkQueue: of one consumer on a ring of any size that may     *)
(* wrap around for ever, and of any number of consumers on a ring that does   *)
(* not wrap.                                                                  *)
EXTENDS WorkQueue, TLAPS, SequenceTheorems, FiniteSetTheorems

-----------------------------------------------------------------------------
(* Remainders: the indexes of the ring.                                       *)

LEMMA Division ==
    ASSUME NEW L \in Nat \ {0}, NEW n \in Nat
    PROVE  n \div L \in Nat /\ n % L \in 0..(L - 1) /\ n = L * (n \div L) + (n % L)
  OBVIOUS

LEMMA DivisionIsUnique ==
    ASSUME NEW L \in Nat \ {0}, NEW q \in Nat, NEW p \in Nat,
           NEW r \in 0..(L - 1), NEW s \in 0..(L - 1), L * q + r = L * p + s
    PROVE  r = s
  OBVIOUS

LEMMA RemainderIs ==
    ASSUME NEW L \in Nat \ {0}, NEW q \in Nat, NEW r \in 0..(L - 1)
    PROVE  (L * q + r) % L = r
<1> DEFINE n == L * q + r
<1>1. n \in Nat
  OBVIOUS
<1> QED
  BY <1>1, Division, DivisionIsUnique

(* The slot that follows the slot of a number is that of the next number.     *)
LEMMA FollowingSlot ==
    ASSUME NEW L \in Nat \ {0, 1}, NEW n \in Nat
    PROVE  ((n % L) + 1) % L = (n + 1) % L
<1> DEFINE q == n \div L
           r == n % L
<1>1. q \in Nat /\ r \in 0..(L - 1) /\ n = L * q + r
  BY Division
<1> HIDE DEF q, r
<1>2. CASE r + 1 < L
  <2>1. (L * q + (r + 1)) % L = r + 1
    BY <1>1, <1>2, RemainderIs
  <2>2. (r + 1) % L = r + 1
    BY <1>1, <1>2
  <2> QED
    BY <2>1, <2>2, <1>1 DEF r
<1>3. CASE r + 1 = L
  <2>1. (L * (q + 1) + 0) % L = 0
    BY <1>1, <1>3, RemainderIs
  <2>2. n + 1 = L * (q + 1) + 0
    BY <1>1, <1>3
  <2>3. L % L = 0
    OBVIOUS
  <2> QED
    BY <2>1, <2>2, <2>3, <1>1, <1>3 DEF r
<1> QED
  BY <1>1, <1>2, <1>3

LEMMA RemainderOfSum ==
    ASSUME NEW L \in Nat \ {0}, NEW n \in Nat
    PROVE  (n + L) % L = n % L
<1>1. n \div L \in Nat /\ n % L \in 0..(L - 1) /\ n = L * (n \div L) + (n % L)
  BY Division
<1>2. n + L = L * ((n \div L) + 1) + (n % L)
  BY <1>1
<1>3. (L * ((n \div L) + 1) + (n % L)) % L = n % L
  <2>1. \A q \in Nat, r \in 0..(L - 1) : (L * q + r) % L = r
    BY RemainderIs
  <2> QED
    BY <1>1, <2>1
<1> QED
  BY <1>2, <1>3

(* Numbers less than a whole ring apart have different slots.                 *)
LEMMA DifferentSlots ==
    ASSUME NEW L \in Nat \ {0}, NEW n \in Nat, NEW m \in Nat, n < m, m < n + L
    PROVE  n % L # m % L
<1> SUFFICES ASSUME n % L = m % L PROVE FALSE
  OBVIOUS
<1>1. /\ n = L * (n \div L) + (n % L) /\ m = L * (m \div L) + (n % L)
      /\ n \div L \in Nat /\ m \div L \in Nat
  BY Division
<1>2. L * (m \div L) - L * (n \div L) = m - n
  BY <1>1
<1>3. \A a, b \in Nat : a < b => L * b >= L * a + L
  OBVIOUS
<1>4. \A a, b \in Nat : a <= b => L * a <= L * b
  OBVIOUS
<1>5. m \div L <= n \div L => FALSE
  BY <1>1, <1>2, <1>4
<1> QED
  BY <1>1, <1>2, <1>3, <1>5

-----------------------------------------------------------------------------
(* What holds of the threads in every program.                                *)

TakingLabels == {"look", "load", "load_new", "exchange", "copy", "call", "increment"}
WorkerLabels == TakingLabels \cup {"wait"}
MainLabels == TakingLabels \cup {"idle", "publish", "release", "help", "reset_goal", "reset_count"}

QueueTypes ==
    /\ nextReadIndex \in Slots /\ nextWriteIndex \in Slots
    /\ work \in [Slots -> Nat]
    /\ completionGoal \in Nat /\ completionCount \in Nat /\ semaphore \in Nat
    /\ pc \in [Threads -> WorkerLabels \cup MainLabels]
    /\ \A t \in Workers : pc[t] \in WorkerLabels
    /\ pc[Main] \in MainLabels
    /\ originalReadIndex \in [Threads -> Slots]
    /\ newReadIndex \in [Threads -> Slots]
    /\ workOnDeck \in [Threads -> Nat]
    /\ submitted \in 0..MaxWork
    /\ executed \in Seq(Nat)
    /\ assertFailed \in BOOLEAN

LEMMA FollowingIsSlot == \A i \in Slots : following(i) \in Slots
  BY WorkQueueAssumption, Division DEF following, Slots

LEMMA ThreadsAre == Workers \subseteq Threads /\ Main \in Threads /\ \A t \in Workers : t # Main
  BY WorkQueueAssumption DEF Threads

LEMMA InitQueueTypes == Init => QueueTypes
<1> SUFFICES ASSUME Init PROVE QueueTypes
  OBVIOUS
<1>1. 0 \in Slots /\ 0 \in 0..MaxWork /\ 0 \in Nat
  BY WorkQueueAssumption DEF Slots
<1>2. executed \in Seq(Nat)
  BY EmptySeq DEF Init
<1>3. pc \in [Threads -> WorkerLabels \cup MainLabels] /\ pc[Main] = "idle"
      /\ \A t \in Workers : pc[t] = "look"
  BY ThreadsAre DEF Init, WorkerLabels, MainLabels, TakingLabels
<1>4. assertFailed \in BOOLEAN
  BY DEF Init
<1> QED
  BY <1>1, <1>2, <1>3, <1>4 DEF Init, QueueTypes, NoWork, WorkerLabels, MainLabels, TakingLabels

(* The taking of work, by any thread.                                         *)
LEMMA TakingKeepsTypes ==
    ASSUME QueueTypes, NEW t \in Threads, find_and_do(t)
    PROVE  QueueTypes'
<1> USE ThreadsAre
<1>1. afterFound(t) \in (IF t = Main THEN MainLabels ELSE WorkerLabels)
      /\ afterNone(t) \in (IF t = Main THEN MainLabels ELSE WorkerLabels)
  BY DEF afterFound, afterNone, MainLabels, WorkerLabels, TakingLabels
<1>2. ASSUME NEW label \in (IF t = Main THEN MainLabels ELSE WorkerLabels), goto(t, label)
      PROVE  /\ pc' \in [Threads -> WorkerLabels \cup MainLabels]
             /\ \A u \in Workers : pc'[u] \in WorkerLabels
             /\ pc'[Main] \in MainLabels
  BY <1>2 DEF goto, QueueTypes, Threads
<1>3. TakingLabels \subseteq (IF t = Main THEN MainLabels ELSE WorkerLabels)
  BY DEF MainLabels, WorkerLabels
<1>4. /\ pc' \in [Threads -> WorkerLabels \cup MainLabels]
      /\ \A u \in Workers : pc'[u] \in WorkerLabels
      /\ pc'[Main] \in MainLabels
  <2>1. PICK label \in (IF t = Main THEN MainLabels ELSE WorkerLabels) : goto(t, label)
    BY <1>1, <1>3 DEF find_and_do, look, load_original, load_new, InterlockedCompareExchange,
       copy_work, callback, InterlockedIncrement, TakingLabels
  <2> QED
    BY <1>2, <2>1
<1>5. originalReadIndex' \in [Threads -> Slots] /\ newReadIndex' \in [Threads -> Slots]
  BY FollowingIsSlot DEF find_and_do, look, load_original, load_new, InterlockedCompareExchange,
     copy_work, callback, InterlockedIncrement, locals, ring, QueueTypes
<1>6. workOnDeck' \in [Threads -> Nat]
  BY DEF find_and_do, look, load_original, load_new, InterlockedCompareExchange,
     copy_work, callback, InterlockedIncrement, locals, QueueTypes
<1>7. executed' \in Seq(Nat)
  <2>1. \A n \in Nat : Append(executed, n) \in Seq(Nat)
    BY AppendProperties DEF QueueTypes
  <2> QED
    BY <2>1 DEF find_and_do, look, load_original, load_new, InterlockedCompareExchange,
       copy_work, callback, InterlockedIncrement, history, QueueTypes
<1>8. /\ nextReadIndex' \in Slots /\ nextWriteIndex' \in Slots /\ work' \in [Slots -> Nat]
      /\ completionGoal' \in Nat /\ completionCount' \in Nat /\ semaphore' \in Nat
      /\ submitted' \in 0..MaxWork
  <2>1. UNCHANGED <<nextWriteIndex, work, completionGoal, semaphore, submitted>>
    BY DEF find_and_do, look, load_original, load_new, InterlockedCompareExchange,
       copy_work, callback, InterlockedIncrement, ring, counts, history
  <2>2. nextReadIndex' \in {nextReadIndex, newReadIndex[t]}
    BY DEF find_and_do, look, load_original, load_new, InterlockedCompareExchange,
       copy_work, callback, InterlockedIncrement, ring
  <2>3. completionCount' \in {completionCount, completionCount + 1}
    BY DEF find_and_do, look, load_original, load_new, InterlockedCompareExchange,
       copy_work, callback, InterlockedIncrement, counts
  <2> QED
    BY <2>1, <2>2, <2>3 DEF QueueTypes
<1>9. assertFailed' \in BOOLEAN
  BY DEF find_and_do, look, load_original, load_new, InterlockedCompareExchange,
     copy_work, callback, InterlockedIncrement, QueueTypes
<1> QED
  BY <1>4, <1>5, <1>6, <1>7, <1>8, <1>9 DEF QueueTypes

(* The other steps of the main thread, and the wait of a worker.              *)
LEMMA OtherStepsKeepTypes ==
    ASSUME QueueTypes,
           \/ MainCalls \/ publish \/ ReleaseSemaphore \/ help \/ reset_goal \/ reset_count
           \/ \E t \in Workers : WaitForSingleObject(t)
    PROVE  QueueTypes'
<1> USE ThreadsAre, WorkQueueAssumption
<1>1. ASSUME NEW label \in MainLabels, goto(Main, label)
      PROVE  /\ pc' \in [Threads -> WorkerLabels \cup MainLabels]
             /\ \A u \in Workers : pc'[u] \in WorkerLabels
             /\ pc'[Main] \in MainLabels
  BY <1>1 DEF goto, QueueTypes, Threads
<1>2. CASE win32_add_work_to_queue
  <2>1. CASE UNCHANGED <<ring, counts, semaphore, pc, locals, history>> /\ assertFailed' = TRUE
    <3>1. assertFailed' \in BOOLEAN
      BY <2>1
    <3> QED
      BY <2>1, <3>1 DEF ring, counts, locals, history, QueueTypes
  <2>2. CASE /\ submitted' = submitted + 1
             /\ work' = [work EXCEPT ![nextWriteIndex] = submitted']
             /\ completionGoal' = completionGoal + 1
             /\ goto(Main, "publish")
             /\ UNCHANGED <<nextReadIndex, nextWriteIndex, completionCount, semaphore, locals,
                         executed, assertFailed>>
    <3>1. submitted' \in 0..MaxWork /\ work' \in [Slots -> Nat] /\ completionGoal' \in Nat
      BY <1>2, <2>2 DEF win32_add_work_to_queue, QueueTypes
    <3>2. "publish" \in MainLabels
      BY DEF MainLabels
    <3>3. assertFailed' \in BOOLEAN
      BY <2>2 DEF QueueTypes
    <3> QED
      BY <2>2, <3>1, <3>2, <3>3, <1>1 DEF locals, QueueTypes
  <2> QED
    BY <1>2, <2>1, <2>2 DEF win32_add_work_to_queue
<1>3. CASE win32_complete_all_work \/ publish \/ ReleaseSemaphore \/ help \/ reset_goal \/ reset_count
  <2>1. PICK label \in MainLabels : goto(Main, label)
    BY <1>3 DEF win32_complete_all_work, publish, ReleaseSemaphore, help, reset_goal, reset_count,
       MainLabels, TakingLabels
  <2>2. /\ pc' \in [Threads -> WorkerLabels \cup MainLabels]
        /\ \A u \in Workers : pc'[u] \in WorkerLabels
        /\ pc'[Main] \in MainLabels
    BY <1>1, <2>1
  <2>3. nextWriteIndex' \in Slots /\ semaphore' \in Nat /\ completionGoal' \in Nat
        /\ completionCount' \in Nat
    BY <1>3, FollowingIsSlot
       DEF win32_complete_all_work, publish, ReleaseSemaphore, help, reset_goal, reset_count,
           ring, counts, QueueTypes
  <2>4. assertFailed' \in BOOLEAN
    BY <1>3 DEF win32_complete_all_work, publish, ReleaseSemaphore, help, reset_goal, reset_count,
       QueueTypes
  <2>5. UNCHANGED <<nextReadIndex, work, locals, history>>
    BY <1>3 DEF win32_complete_all_work, publish, ReleaseSemaphore, help, reset_goal, reset_count,
       ring
  <2> QED
    BY <2>2, <2>3, <2>4, <2>5 DEF locals, history, QueueTypes
<1>4. CASE \E t \in Workers : WaitForSingleObject(t)
  <2>1. PICK t \in Workers : WaitForSingleObject(t)
    BY <1>4
  <2>2. /\ pc' \in [Threads -> WorkerLabels \cup MainLabels]
        /\ \A u \in Workers : pc'[u] \in WorkerLabels
        /\ pc'[Main] \in MainLabels
    BY <2>1 DEF WaitForSingleObject, goto, QueueTypes, WorkerLabels, TakingLabels, Threads
  <2>3. semaphore' \in Nat
    BY <2>1 DEF WaitForSingleObject, QueueTypes
  <2>4. assertFailed' \in BOOLEAN
    BY <2>1 DEF WaitForSingleObject, QueueTypes
  <2> QED
    BY <2>1, <2>2, <2>3, <2>4 DEF WaitForSingleObject, ring, counts, locals, history, QueueTypes
<1> QED
  BY <1>2, <1>3, <1>4 DEF MainCalls

LEMMA NextKeepsTypes == QueueTypes /\ [Next]_vars => QueueTypes'
<1> SUFFICES ASSUME QueueTypes, [Next]_vars PROVE QueueTypes'
  OBVIOUS
<1>1. CASE UNCHANGED vars
  <2>1. assertFailed' \in BOOLEAN
    BY <1>1 DEF vars, QueueTypes
  <2> QED
    BY <1>1, <2>1 DEF vars, ring, counts, locals, history, QueueTypes
<1>2. CASE Next
  BY <1>2, TakingKeepsTypes, OtherStepsKeepTypes, ThreadsAre DEF Next, MainGoesOn, Worker
<1> QED
  BY <1>1, <1>2

-----------------------------------------------------------------------------
(* One consumer.  The indexes are the numbers of works taken and published,   *)
(* modulo the ring; the ring always holds the last LIMIT works, so that a     *)
(* slot is not written again before its work, taken or not, has been copied:  *)
(* the assert keeps one slot between the writer and the reader.               *)

OneConsumer(w) == Workers = {w} /\ ~MainHelps

(* The assert stops the writer before it laps the reader, or it does not add  *)
(* enough for that.                                                           *)
NeverLaps == DEBUG \/ MaxWork < LIMIT

taken(w) == Len(executed) + (IF pc[w] \in {"copy", "call"} THEN 1 ELSE 0)
published == IF pc[Main] = "publish" THEN submitted - 1 ELSE submitted

Distances(w) ==
    /\ pc[Main] \in {"idle", "publish", "release"}
    /\ pc[Main] = "publish" => submitted > 0
    /\ nextReadIndex = taken(w) % LIMIT
    /\ nextWriteIndex = published % LIMIT
    /\ taken(w) <= published
    /\ submitted < taken(w) + LIMIT

RingIsCurrent ==
    \A n \in 1..submitted : submitted < n + LIMIT => work[(n - 1) % LIMIT] = n

Taking(w) ==
    /\ pc[w] \in {"load", "load_new", "exchange"} => taken(w) < published
    /\ pc[w] \in {"load_new", "exchange"} => originalReadIndex[w] = nextReadIndex
    /\ pc[w] = "exchange" => newReadIndex[w] = following(nextReadIndex)
    /\ pc[w] = "copy" => originalReadIndex[w] = Len(executed) % LIMIT
    /\ pc[w] = "call" => workOnDeck[w] = Len(executed) + 1

SingleIInv(w) ==
    /\ QueueTypes /\ Distances(w) /\ RingIsCurrent /\ Taking(w)
    /\ ExecutedInOrder /\ AssertMeansFull

LEMMA InitSingleIInv ==
    ASSUME NEW w, OneConsumer(w), Init
    PROVE  SingleIInv(w)
<1>1. QueueTypes
  BY InitQueueTypes
<1>2. pc[Main] = "idle" /\ pc[w] = "look" /\ submitted = 0 /\ Len(executed) = 0
  BY ThreadsAre DEF Init, OneConsumer
<1>3. 0 % LIMIT = 0
  BY WorkQueueAssumption
<1>4. Distances(w)
  BY <1>2, <1>3, WorkQueueAssumption DEF Init, Distances, taken, published
<1>5. RingIsCurrent /\ ExecutedInOrder
  BY <1>2 DEF RingIsCurrent, ExecutedInOrder
<1>6. Taking(w)
  BY <1>2 DEF Taking
<1>7. AssertMeansFull
  BY DEF Init, AssertMeansFull
<1> QED
  BY <1>1, <1>4, <1>5, <1>6, <1>7 DEF SingleIInv

(* The main thread adds work number submitted + 1, or meets the assert.       *)
LEMMA AddKeepsSingle ==
    ASSUME NEW w, OneConsumer(w), NeverLaps, SingleIInv(w), ~assertFailed, win32_add_work_to_queue
    PROVE  SingleIInv(w)'
<1> USE WorkQueueAssumption
<1>1. QueueTypes'
  BY OtherStepsKeepTypes DEF MainCalls, SingleIInv
<1>2. /\ w \in Threads /\ w # Main
      /\ Len(executed) \in Nat /\ taken(w) \in Nat /\ submitted \in Nat /\ published = submitted
      /\ pc[Main] = "idle" /\ submitted < MaxWork
  BY ThreadsAre DEF OneConsumer, SingleIInv, QueueTypes, win32_add_work_to_queue, taken, published
<1>3. /\ nextReadIndex = taken(w) % LIMIT /\ nextWriteIndex = submitted % LIMIT
      /\ taken(w) <= submitted /\ submitted < taken(w) + LIMIT
  BY <1>2 DEF SingleIInv, Distances
<1>4. following(nextWriteIndex) = (submitted + 1) % LIMIT
  BY <1>2, <1>3, FollowingSlot DEF following
<1>5. CASE ringIsFull /\ UNCHANGED <<ring, counts, semaphore, pc, locals, history>> /\ assertFailed' = TRUE
  <2>1. ~(submitted + 1 < taken(w) + LIMIT)
    BY <1>2, <1>3, <1>4, <1>5, DifferentSlots DEF ringIsFull
  <2>2. submitted - Len(executed) >= LIMIT - 1
    BY <1>2, <2>1 DEF taken
  <2>3. AssertMeansFull'
    BY <1>5, <2>2 DEF AssertMeansFull, history
  <2> QED
    BY <1>1, <1>5, <2>3
       DEF SingleIInv, Distances, RingIsCurrent, Taking, ExecutedInOrder, taken, published,
           ring, counts, locals, history, following
<1>6. CASE /\ ~(DEBUG /\ ringIsFull)
           /\ submitted' = submitted + 1
           /\ work' = [work EXCEPT ![nextWriteIndex] = submitted']
           /\ goto(Main, "publish")
           /\ UNCHANGED <<nextReadIndex, nextWriteIndex, locals, executed, assertFailed>>
  <2>1. submitted + 1 < taken(w) + LIMIT
    <3>1. CASE DEBUG
      <4>1. submitted + 1 # taken(w) + LIMIT
        <5>1. SUFFICES ASSUME submitted + 1 = taken(w) + LIMIT PROVE FALSE
          OBVIOUS
        <5>2. (submitted + 1) % LIMIT = taken(w) % LIMIT
          BY <1>2, <5>1, RemainderOfSum
        <5> QED
          BY <1>3, <1>4, <1>6, <3>1, <5>2 DEF ringIsFull
      <4> QED
        BY <1>2, <1>3, <4>1
    <3>2. CASE MaxWork < LIMIT
      BY <1>2, <3>2
    <3> QED
      BY <3>1, <3>2 DEF NeverLaps
  <2>2. pc'[Main] = "publish" /\ pc'[w] = pc[w]
    BY <1>2, <1>6, ThreadsAre DEF goto, SingleIInv, QueueTypes
  <2>3. taken(w)' = taken(w) /\ published' = submitted
    BY <1>2, <1>6, <2>2 DEF taken, published
  <2>4. Distances(w)'
    BY <1>2, <1>3, <1>6, <2>1, <2>2, <2>3 DEF Distances
  <2>5. RingIsCurrent'
    <3>1. SUFFICES ASSUME NEW n \in 1..(submitted + 1), submitted + 1 < n + LIMIT
                   PROVE  work'[(n - 1) % LIMIT] = n
      BY <1>6 DEF RingIsCurrent
    <3>0. n - 1 \in Nat
      BY <1>2
    <3>2. (n - 1) % LIMIT \in Slots /\ nextWriteIndex \in Slots /\ work \in [Slots -> Nat]
      BY <3>0, Division DEF Slots, SingleIInv, QueueTypes
    <3>3. CASE n = submitted + 1
      BY <1>2, <1>3, <1>6, <3>2, <3>3
    <3>4. CASE n # submitted + 1
      <4>1. (n - 1) % LIMIT # submitted % LIMIT
        <5>1. n - 1 < submitted /\ submitted < (n - 1) + LIMIT
          BY <1>2, <3>1, <3>4
        <5> QED
          BY <1>2, <3>0, <5>1, DifferentSlots
      <4>2. work[(n - 1) % LIMIT] = n
        BY <1>2, <3>1, <3>4 DEF SingleIInv, RingIsCurrent
      <4> QED
        BY <1>3, <1>6, <3>2, <4>1, <4>2
    <3> QED
      BY <3>3, <3>4
  <2>6. Taking(w)'
    BY <1>2, <1>6, <2>2, <2>3 DEF SingleIInv, Taking, locals, following
  <2>7. ExecutedInOrder' /\ AssertMeansFull'
    <3>1. submitted' - Len(executed) >= submitted - Len(executed)
      BY <1>2, <1>6
    <3>2. ExecutedInOrder'
      BY <1>6 DEF SingleIInv, ExecutedInOrder
    <3>3. assertFailed => submitted - Len(executed) >= LIMIT - 1
      BY DEF SingleIInv, AssertMeansFull
    <3>4. submitted - Len(executed) >= LIMIT - 1 => submitted' - Len(executed) >= LIMIT - 1
      BY <1>2, <1>6
    <3> QED
      BY <1>6, <3>2, <3>3, <3>4 DEF AssertMeansFull
  <2> QED
    BY <1>1, <2>4, <2>5, <2>6, <2>7 DEF SingleIInv
<1> QED
  BY <1>5, <1>6 DEF win32_add_work_to_queue

(* The work becomes visible; then a worker is woken.                          *)
LEMMA PublishKeepsSingle ==
    ASSUME NEW w, OneConsumer(w), SingleIInv(w), publish \/ ReleaseSemaphore
    PROVE  SingleIInv(w)'
<1> USE WorkQueueAssumption
<1>1. QueueTypes'
  BY OtherStepsKeepTypes DEF SingleIInv
<1>2. /\ w \in Threads /\ w # Main /\ Main \in Threads
      /\ Len(executed) \in Nat /\ taken(w) \in Nat /\ submitted \in Nat
  BY ThreadsAre DEF OneConsumer, SingleIInv, QueueTypes, taken
<1>3. UNCHANGED <<nextReadIndex, work, locals, history, assertFailed>>
  BY DEF publish, ReleaseSemaphore, ring
<1>4. pc'[w] = pc[w] /\ taken(w)' = taken(w)
  BY <1>2, <1>3 DEF publish, ReleaseSemaphore, goto, SingleIInv, QueueTypes, taken, history
<1>5. Distances(w)' /\ published' >= published /\ published \in Nat /\ published' \in Nat
  <2>1. CASE publish
    <3>1. pc'[Main] = "release" /\ pc[Main] = "publish"
      BY <1>2, <2>1 DEF publish, goto, SingleIInv, QueueTypes
    <3>2. submitted - 1 \in Nat /\ published = submitted - 1 /\ published' = submitted
      BY <1>2, <1>3, <3>1 DEF published, SingleIInv, Distances, history
    <3>3. nextWriteIndex' = submitted % LIMIT
      <4>1. nextWriteIndex' = (((submitted - 1) % LIMIT) + 1) % LIMIT
        BY <2>1, <3>2 DEF publish, following, SingleIInv, Distances
      <4>2. (submitted - 1) + 1 = submitted
        BY <1>2
      <4> QED
        BY <3>2, <4>1, <4>2, FollowingSlot
    <3> QED
      <4>1. submitted' = submitted /\ nextReadIndex' = nextReadIndex
        BY <1>3 DEF history
      <4>2. /\ nextReadIndex = taken(w) % LIMIT
            /\ taken(w) <= submitted - 1 /\ submitted < taken(w) + LIMIT
        BY <3>2 DEF SingleIInv, Distances
      <4>3. published' = submitted /\ taken(w) <= submitted
        BY <1>2, <3>2, <4>2
      <4>4. Distances(w)'
        BY <1>4, <3>1, <3>3, <4>1, <4>2, <4>3 DEF Distances
      <4> QED
        BY <1>2, <3>2, <4>3, <4>4
  <2>2. CASE ReleaseSemaphore
    <3>1. pc'[Main] = "idle" /\ pc[Main] = "release"
      BY <1>2, <2>2 DEF ReleaseSemaphore, goto, SingleIInv, QueueTypes
    <3>2. published = submitted /\ published' = submitted
      BY <1>3, <3>1 DEF published, history
    <3> QED
      BY <1>2, <1>3, <1>4, <2>2, <3>1, <3>2
         DEF SingleIInv, Distances, ReleaseSemaphore, ring, history
  <2> QED
    BY <2>1, <2>2
<1>6. RingIsCurrent' /\ ExecutedInOrder' /\ AssertMeansFull'
  BY <1>3 DEF SingleIInv, RingIsCurrent, ExecutedInOrder, AssertMeansFull, history
<1>7. Taking(w)'
  BY <1>2, <1>3, <1>4, <1>5 DEF SingleIInv, Taking, locals, history, following
<1> QED
  BY <1>1, <1>5, <1>6, <1>7 DEF SingleIInv

(* The worker looks for work, or waits; nothing is taken yet.                 *)
LEMMA LookKeepsSingle ==
    ASSUME NEW w, OneConsumer(w), SingleIInv(w),
           look(w) \/ load_original(w) \/ load_new(w) \/ WaitForSingleObject(w)
    PROVE  SingleIInv(w)'
<1> USE WorkQueueAssumption
<1>1. /\ w \in Threads /\ w # Main /\ Main \in Threads /\ w \in Workers
      /\ Len(executed) \in Nat /\ taken(w) \in Nat /\ submitted \in Nat
  BY ThreadsAre DEF OneConsumer, SingleIInv, QueueTypes, taken
<1>2. QueueTypes'
  BY <1>1, TakingKeepsTypes, OtherStepsKeepTypes DEF find_and_do, SingleIInv
<1>3. UNCHANGED <<ring, history, assertFailed>>
  BY DEF look, load_original, load_new, WaitForSingleObject
<1>4. pc'[Main] = pc[Main] /\ pc[w] \notin {"copy", "call"} /\ pc'[w] \notin {"copy", "call"}
  BY <1>1 DEF look, load_original, load_new, WaitForSingleObject, goto, SingleIInv, QueueTypes,
     afterNone
<1>5. taken(w)' = taken(w) /\ published' = published
  BY <1>3, <1>4 DEF taken, published, history
<1>6. Distances(w)' /\ RingIsCurrent' /\ ExecutedInOrder' /\ AssertMeansFull'
  BY <1>3, <1>4, <1>5
     DEF SingleIInv, Distances, RingIsCurrent, ExecutedInOrder, AssertMeansFull, ring, history
<1>7. Taking(w)'
  <2>1. pc[w] = "look" /\ nextReadIndex # nextWriteIndex => taken(w) < published
    BY <1>1 DEF SingleIInv, Distances, published
  <2>2. CASE look(w)
    BY <1>1, <1>3, <1>4, <1>5, <2>1, <2>2
       DEF look, goto, afterNone, SingleIInv, QueueTypes, Taking, ring, locals, history, following
  <2>3. CASE load_original(w) \/ load_new(w)
    BY <1>1, <1>3, <1>4, <1>5, <2>3
       DEF load_original, load_new, goto, SingleIInv, QueueTypes, Taking, ring, history, following
  <2>4. CASE WaitForSingleObject(w)
    BY <1>1, <2>4 DEF WaitForSingleObject, goto, SingleIInv, QueueTypes, Taking
  <2> QED
    BY <2>2, <2>3, <2>4
<1> QED
  BY <1>2, <1>6, <1>7 DEF SingleIInv

(* Nobody else moves the read index: the exchange takes the next work.        *)
LEMMA ExchangeKeepsSingle ==
    ASSUME NEW w, OneConsumer(w), SingleIInv(w), InterlockedCompareExchange(w)
    PROVE  SingleIInv(w)'
<1> USE WorkQueueAssumption
<1>1. /\ w \in Threads /\ w # Main /\ Main \in Threads /\ w \in Workers
      /\ Len(executed) \in Nat /\ submitted \in Nat
      /\ pc[w] = "exchange" /\ taken(w) = Len(executed) /\ taken(w) < published
      /\ originalReadIndex[w] = nextReadIndex /\ newReadIndex[w] = following(nextReadIndex)
      /\ nextReadIndex = Len(executed) % LIMIT
  BY ThreadsAre
     DEF OneConsumer, SingleIInv, QueueTypes, taken, InterlockedCompareExchange, Taking, Distances
<1>2. QueueTypes'
  BY <1>1, TakingKeepsTypes DEF find_and_do, SingleIInv
<1>3. /\ UNCHANGED <<nextWriteIndex, work, locals, history, assertFailed>>
      /\ nextReadIndex' = following(nextReadIndex)
      /\ pc'[w] = "copy" /\ pc'[Main] = pc[Main]
  BY <1>1 DEF InterlockedCompareExchange, goto, SingleIInv, QueueTypes
<1>4. taken(w)' = Len(executed) + 1 /\ published' = published
  BY <1>3 DEF taken, published, history
<1>5. nextReadIndex' = (Len(executed) + 1) % LIMIT
  BY <1>1, <1>3, FollowingSlot DEF following
<1>6. Distances(w)'
  <2>1. published \in Nat /\ published \in {submitted, submitted - 1}
    BY <1>1 DEF SingleIInv, Distances, published
  <2> QED
    BY <1>1, <1>3, <1>4, <1>5, <2>1 DEF SingleIInv, Distances, history
<1>7. RingIsCurrent' /\ ExecutedInOrder' /\ AssertMeansFull'
  BY <1>3 DEF SingleIInv, RingIsCurrent, ExecutedInOrder, AssertMeansFull, history
<1>8. Taking(w)'
  BY <1>1, <1>3 DEF Taking, locals, history
<1> QED
  BY <1>2, <1>6, <1>7, <1>8 DEF SingleIInv

(* The slot that was taken still holds the work when it is copied, and that   *)
(* work is called back next.                                                  *)
LEMMA CopyKeepsSingle ==
    ASSUME NEW w, OneConsumer(w), SingleIInv(w), copy_work(w)
    PROVE  SingleIInv(w)'
<1> USE WorkQueueAssumption
<1>1. /\ w \in Threads /\ w # Main /\ Main \in Threads /\ w \in Workers
      /\ Len(executed) \in Nat /\ submitted \in Nat
      /\ pc[w] = "copy" /\ taken(w) = Len(executed) + 1
      /\ originalReadIndex[w] = Len(executed) % LIMIT
  BY ThreadsAre DEF OneConsumer, SingleIInv, QueueTypes, taken, copy_work, Taking
<1>2. QueueTypes'
  BY <1>1, TakingKeepsTypes DEF find_and_do, SingleIInv
<1>3. UNCHANGED <<ring, history, assertFailed>> /\ pc'[w] = "call" /\ pc'[Main] = pc[Main]
  BY <1>1 DEF copy_work, goto, SingleIInv, QueueTypes
<1>4. taken(w)' = taken(w) /\ published' = published
  BY <1>1, <1>3 DEF taken, published, history
<1>5. workOnDeck'[w] = Len(executed) + 1
  <2>1. published \in {submitted, submitted - 1}
    BY DEF published
  <2>2. Len(executed) + 1 \in 1..submitted /\ submitted < (Len(executed) + 1) + LIMIT
    BY <1>1, <2>1 DEF SingleIInv, Distances
  <2>3. (Len(executed) + 1) - 1 = Len(executed)
    BY <1>1
  <2>4. work[Len(executed) % LIMIT] = Len(executed) + 1
    BY <2>2, <2>3 DEF SingleIInv, RingIsCurrent
  <2> QED
    BY <1>1, <2>4 DEF copy_work, SingleIInv, QueueTypes
<1>6. Distances(w)' /\ RingIsCurrent' /\ ExecutedInOrder' /\ AssertMeansFull'
  BY <1>3, <1>4
     DEF SingleIInv, Distances, RingIsCurrent, ExecutedInOrder, AssertMeansFull, ring, history
<1>7. Taking(w)'
  BY <1>3, <1>5 DEF Taking, history
<1> QED
  BY <1>2, <1>6, <1>7 DEF SingleIInv

LEMMA CallbackKeepsSingle ==
    ASSUME NEW w, OneConsumer(w), SingleIInv(w), ~assertFailed, callback(w) \/ InterlockedIncrement(w)
    PROVE  SingleIInv(w)'
<1> USE WorkQueueAssumption
<1>1. /\ w \in Threads /\ w # Main /\ Main \in Threads /\ w \in Workers
      /\ Len(executed) \in Nat /\ submitted \in Nat /\ executed \in Seq(Nat)
  BY ThreadsAre DEF OneConsumer, SingleIInv, QueueTypes
<1>2. QueueTypes'
  BY <1>1, TakingKeepsTypes DEF find_and_do, SingleIInv
<1>3. /\ UNCHANGED <<ring, locals, submitted, assertFailed>>
      /\ pc'[w] \in {"look", "increment"} /\ pc'[Main] = pc[Main]
  BY <1>1 DEF callback, InterlockedIncrement, goto, afterFound, SingleIInv, QueueTypes, history
<1>4. published' = published /\ RingIsCurrent' /\ Taking(w)' /\ AssertMeansFull'
  BY <1>3 DEF published, SingleIInv, RingIsCurrent, Taking, AssertMeansFull, ring
<1>5. taken(w)' = taken(w) /\ ExecutedInOrder'
  <2>1. CASE callback(w)
    <3>1. pc[w] = "call" /\ workOnDeck[w] = Len(executed) + 1
      BY <2>1 DEF callback, SingleIInv, Taking
    <3>2. executed' = Append(executed, Len(executed) + 1)
      BY <2>1, <3>1 DEF callback
    <3>3. /\ Len(executed') = Len(executed) + 1
          /\ \A i \in 1..Len(executed) : executed'[i] = executed[i]
          /\ executed'[Len(executed) + 1] = Len(executed) + 1
      BY <1>1, <3>2, AppendProperties
    <3> QED
      BY <1>1, <1>3, <3>1, <3>3 DEF taken, ExecutedInOrder, SingleIInv
  <2>2. CASE InterlockedIncrement(w)
    BY <1>1, <1>3, <2>2 DEF InterlockedIncrement, taken, ExecutedInOrder, SingleIInv, history
  <2> QED
    BY <2>1, <2>2
<1>6. Distances(w)'
  BY <1>3, <1>4, <1>5 DEF SingleIInv, Distances, ring
<1> QED
  BY <1>2, <1>4, <1>5, <1>6 DEF SingleIInv

LEMMA NextKeepsSingle ==
    ASSUME NEW w, OneConsumer(w), NeverLaps
    PROVE  SingleIInv(w) /\ [Next]_vars => SingleIInv(w)'
<1> SUFFICES ASSUME SingleIInv(w), [Next]_vars PROVE SingleIInv(w)'
  OBVIOUS
<1>1. CASE UNCHANGED vars
  <2>1. QueueTypes'
    BY <1>1, NextKeepsTypes DEF SingleIInv
  <2> QED
    BY <1>1, <2>1
       DEF vars, ring, counts, locals, history, SingleIInv, Distances, RingIsCurrent, Taking,
           ExecutedInOrder, AssertMeansFull, taken, published, following
<1>2. pc[Main] \in {"idle", "publish", "release"}
  BY DEF SingleIInv, Distances
<1>3. CASE MainCalls
  BY <1>3, AddKeepsSingle DEF MainCalls, win32_complete_all_work, OneConsumer
<1>4. CASE MainGoesOn
  BY <1>2, <1>4, PublishKeepsSingle
     DEF MainGoesOn, help, reset_goal, reset_count, find_and_do, look, load_original, load_new,
         InterlockedCompareExchange, copy_work, callback, InterlockedIncrement
<1>5. CASE \E t \in Workers : Worker(t)
  BY <1>5, LookKeepsSingle, ExchangeKeepsSingle, CopyKeepsSingle, CallbackKeepsSingle
     DEF Worker, find_and_do, OneConsumer
<1> QED
  BY <1>1, <1>3, <1>4, <1>5 DEF Next

(* With one consumer the callbacks are made in the order of the adding,       *)
(* however often the ring has wrapped around.                                 *)
THEOREM AlwaysExecutedInOrder ==
    ASSUME NEW w, OneConsumer(w), NeverLaps
    PROVE  Spec => []ExecutedInOrder
<1>1. Init => SingleIInv(w)
  BY InitSingleIInv
<1>2. SingleIInv(w) /\ [Next]_vars => SingleIInv(w)'
  BY NextKeepsSingle
<1>3. SingleIInv(w) => ExecutedInOrder
  BY DEF SingleIInv
<1> QED
  BY <1>1, <1>2, <1>3, PTL DEF Spec

(* The assert speaks of a ring that is full: LIMIT - 1 works are not done.    *)
THEOREM AlwaysAssertMeansFull ==
    ASSUME NEW w, OneConsumer(w), NeverLaps
    PROVE  Spec => []AssertMeansFull
<1>1. Init => SingleIInv(w)
  BY InitSingleIInv
<1>2. SingleIInv(w) /\ [Next]_vars => SingleIInv(w)'
  BY NextKeepsSingle
<1>3. SingleIInv(w) => AssertMeansFull
  BY DEF SingleIInv
<1> QED
  BY <1>1, <1>2, <1>3, PTL DEF Spec

-----------------------------------------------------------------------------
(* Any number of consumers, the main thread one of them, in the build that    *)
(* loads the read index once, on a ring that does not wrap.  A work that was  *)
(* taken is held by one thread until it is called back; what has been taken   *)
(* and is not counted as completed is in the hands of a thread.               *)

DoesNotWrap == ~DEBUG /\ MaxWork < LIMIT

holding(t) == pc[t] \in {"copy", "call"}
held(t) == IF pc[t] = "copy" THEN originalReadIndex[t] + 1 ELSE workOnDeck[t]
busy == {t \in Threads : pc[t] \in {"copy", "call", "increment"}}

SharedRing ==
    /\ pc[Main] = "publish" => submitted > 0
    /\ nextWriteIndex = published
    /\ nextReadIndex <= nextWriteIndex
    /\ \A n \in 1..submitted : work[n - 1] = n
    /\ \A t \in Threads : pc[t] \notin {"load", "load_new"}
    /\ \A t \in Threads : pc[t] = "exchange" => newReadIndex[t] = originalReadIndex[t] + 1
    /\ \A t \in Threads : pc[t] = "exchange" => originalReadIndex[t] < nextWriteIndex

HeldByOne ==
    /\ \A t \in Threads : holding(t) => held(t) \in 1..nextReadIndex
    /\ \A t, u \in Threads : holding(t) /\ holding(u) /\ held(t) = held(u) => t = u
    /\ \A t \in Threads, i \in 1..Len(executed) : holding(t) => executed[i] # held(t)

DoneOnce ==
    /\ \A i \in 1..Len(executed) : executed[i] \in 1..nextReadIndex
    /\ \A i, j \in 1..Len(executed) : executed[i] = executed[j] => i = j

NothingLost ==
    \A n \in 1..nextReadIndex :
        \/ \E t \in Threads : holding(t) /\ held(t) = n
        \/ \E i \in 1..Len(executed) : executed[i] = n

Counting ==
    /\ pc[Main] # "reset_count" =>
          nextReadIndex + completionGoal = completionCount + submitted + Cardinality(busy)
    /\ pc[Main] \in {"reset_goal", "reset_count"} => nextReadIndex = submitted /\ busy = {}
    /\ pc[Main] = "reset_count" => completionGoal = 0

SharedIInv ==
    QueueTypes /\ SharedRing /\ HeldByOne /\ DoneOnce /\ NothingLost /\ Counting

LEMMA BusyIsFinite ==
    /\ IsFiniteSet(Threads) /\ IsFiniteSet(busy) /\ Cardinality(busy) \in Nat
    /\ \A t \in Threads : t \in busy <=> pc[t] \in {"copy", "call", "increment"}
<1>1. IsFiniteSet(Threads)
  BY WorkQueueAssumption, FS_AddElement DEF Threads
<1>2. busy \in SUBSET Threads
  BY DEF busy
<1>3. IsFiniteSet(busy)
  BY <1>1, <1>2, FS_Subset
<1> QED
  BY <1>1, <1>3, FS_CardinalityType DEF busy

LEMMA InitSharedIInv == Init => SharedIInv
<1> SUFFICES ASSUME Init PROVE SharedIInv
  OBVIOUS
<1>1. /\ QueueTypes /\ submitted = 0 /\ Len(executed) = 0 /\ nextReadIndex = 0 /\ nextWriteIndex = 0
      /\ completionGoal = 0 /\ completionCount = 0
      /\ \A t \in Threads : pc[t] \in {"idle", "look"}
      /\ Main \in Threads
  BY InitQueueTypes, ThreadsAre DEF Init
<1>2. SharedRing
  BY <1>1 DEF SharedRing, published
<1>3. HeldByOne /\ DoneOnce /\ NothingLost
  BY <1>1 DEF HeldByOne, DoneOnce, NothingLost, holding
<1>4. busy = {}
  BY <1>1 DEF busy
<1>5. Counting
  BY <1>1, <1>4, FS_EmptySet DEF Counting
<1> QED
  BY <1>1, <1>2, <1>3, <1>5 DEF SharedIInv

(* What is held and done only depends on the read index and the threads that  *)
(* hold something.                                                            *)
LEMMA SameHolders ==
    ASSUME HeldByOne, DoneOnce, NothingLost, UNCHANGED <<nextReadIndex, executed>>,
           \A t \in Threads : holding(t)' <=> holding(t),
           \A t \in Threads : holding(t) => held(t)' = held(t)
    PROVE  HeldByOne' /\ DoneOnce' /\ NothingLost'
<1>1. DoneOnce'
  BY DEF DoneOnce
<1>2. HeldByOne'
  BY DEF HeldByOne
<1>3. NothingLost'
  BY DEF NothingLost
<1> QED
  BY <1>1, <1>2, <1>3

(* A step of one thread leaves the others where they are.                     *)
LEMMA OthersStay ==
    ASSUME QueueTypes, NEW t \in Threads, NEW label, goto(t, label)
    PROVE  pc'[t] = label /\ \A u \in Threads : u # t => pc'[u] = pc[u]
  BY DEF goto, QueueTypes

LEMMA AddKeepsShared ==
    ASSUME DoesNotWrap, SharedIInv, ~assertFailed, win32_add_work_to_queue
    PROVE  SharedIInv'
<1> USE WorkQueueAssumption
<1>1. QueueTypes'
  BY OtherStepsKeepTypes DEF MainCalls, SharedIInv
<1>2. /\ submitted' = submitted + 1
      /\ work' = [work EXCEPT ![nextWriteIndex] = submitted']
      /\ completionGoal' = completionGoal + 1
      /\ goto(Main, "publish")
      /\ UNCHANGED <<nextReadIndex, nextWriteIndex, completionCount, semaphore, locals,
                     executed, assertFailed>>
      /\ pc[Main] = "idle" /\ submitted < MaxWork
  BY DEF win32_add_work_to_queue, DoesNotWrap
<1>3. /\ Main \in Threads /\ pc'[Main] = "publish"
      /\ \A t \in Threads : t # Main => pc'[t] = pc[t]
  BY <1>2, ThreadsAre, OthersStay DEF SharedIInv
<1>4. submitted \in Nat /\ submitted + 1 < LIMIT /\ nextWriteIndex = submitted /\ published' = submitted
  BY <1>2, <1>3 DEF DoesNotWrap, SharedIInv, SharedRing, published, QueueTypes
<1>5. \A n \in 1..(submitted + 1) : work'[n - 1] = n
  <2>1. \A n \in 1..(submitted + 1) : n - 1 \in Slots
    BY <1>4 DEF Slots
  <2> QED
    BY <1>2, <1>4, <2>1 DEF SharedIInv, SharedRing, QueueTypes
<1>6. SharedRing'
  BY <1>2, <1>3, <1>4, <1>5 DEF SharedIInv, SharedRing, locals
<1>7. HeldByOne' /\ DoneOnce' /\ NothingLost'
  BY <1>2, <1>3, SameHolders DEF SharedIInv, holding, held, locals
<1>8. busy' = busy /\ Cardinality(busy) \in Nat
  BY <1>2, <1>3, BusyIsFinite DEF busy
<1>9. nextReadIndex \in Nat /\ completionGoal \in Nat /\ completionCount \in Nat
  BY DEF SharedIInv, QueueTypes, Slots
<1>10. Counting'
  <2>1. nextReadIndex + completionGoal = completionCount + submitted + Cardinality(busy)
    BY <1>2 DEF SharedIInv, Counting
  <2>2. nextReadIndex + (completionGoal + 1) = completionCount + (submitted + 1) + Cardinality(busy)
    <3>1. PICK n \in Nat : n = Cardinality(busy)
      BY <1>8
    <3>2. nextReadIndex + completionGoal = completionCount + submitted + n
      BY <2>1, <3>1
    <3>3. nextReadIndex + (completionGoal + 1) = completionCount + (submitted + 1) + n
      BY <1>4, <1>9, <3>2
    <3> QED
      BY <3>1, <3>3
  <2>3. (nextReadIndex + completionGoal = completionCount + submitted + Cardinality(busy))'
    BY <1>2, <1>8, <2>2
  <2> QED
    BY <1>3, <2>3 DEF Counting
<1> QED
  BY <1>1, <1>6, <1>7, <1>10 DEF SharedIInv

(* The other steps of the main thread outside of taking work.  When the goal  *)
(* is met nothing is in anybody's hands, and nothing can be taken meanwhile.  *)
LEMMA MainStepsKeepShared ==
    ASSUME DoesNotWrap, SharedIInv, ~assertFailed,
           \/ win32_complete_all_work \/ publish \/ ReleaseSemaphore
           \/ help \/ reset_goal \/ reset_count
    PROVE  SharedIInv'
<1> USE WorkQueueAssumption
<1>1. QueueTypes'
  BY OtherStepsKeepTypes DEF MainCalls, SharedIInv
<1>2. /\ Main \in Threads /\ pc[Main] \notin {"copy", "call", "increment"}
      /\ pc'[Main] \notin {"copy", "call", "increment", "load", "load_new", "exchange", "publish"}
      /\ \A t \in Threads : t # Main => pc'[t] = pc[t]
      /\ UNCHANGED <<nextReadIndex, work, locals, history>>
  BY ThreadsAre, OthersStay
     DEF SharedIInv, win32_complete_all_work, publish, ReleaseSemaphore, help, reset_goal,
         reset_count, ring
<1>3. submitted \in Nat /\ nextReadIndex \in Nat /\ completionGoal \in Nat /\ completionCount \in Nat
  BY DEF SharedIInv, QueueTypes, Slots
<1>4. nextWriteIndex' = published' /\ nextWriteIndex' >= nextWriteIndex /\ nextWriteIndex \in Nat
      /\ nextWriteIndex' \in Nat
  <2>1. CASE publish
    <3>1. pc[Main] = "publish" /\ nextWriteIndex = submitted - 1 /\ submitted - 1 \in Nat
          /\ published' = submitted /\ submitted < LIMIT
      BY <1>2, <1>3, <2>1
         DEF publish, SharedIInv, SharedRing, published, history, QueueTypes, DoesNotWrap
    <3>2. nextWriteIndex' = submitted
      BY <1>3, <2>1, <3>1 DEF publish, following
    <3> QED
      BY <1>3, <3>1, <3>2
  <2>2. CASE ~publish
    <3>1. UNCHANGED nextWriteIndex /\ pc[Main] # "publish"
      BY <2>2 DEF win32_complete_all_work, publish, ReleaseSemaphore, help, reset_goal,
         reset_count, ring
    <3> QED
      BY <1>2, <1>3, <3>1 DEF SharedIInv, SharedRing, published, history
  <2> QED
    BY <2>1, <2>2
<1>5. SharedRing'
  <2>1. originalReadIndex \in [Threads -> Nat]
    BY DEF SharedIInv, QueueTypes, Slots
  <2>2. nextReadIndex' <= nextWriteIndex'
    BY <1>2, <1>3, <1>4 DEF SharedIInv, SharedRing
  <2>3. \A t \in Threads : pc'[t] \notin {"load", "load_new"}
    BY <1>2 DEF SharedIInv, SharedRing
  <2>4. \A t \in Threads : pc'[t] = "exchange" => pc[t] = "exchange"
    BY <1>2
  <2>5. \A t \in Threads : pc[t] = "exchange" => originalReadIndex[t] < nextWriteIndex'
    BY <1>4, <2>1 DEF SharedIInv, SharedRing
  <2> QED
    BY <1>2, <1>4, <2>2, <2>3, <2>4, <2>5 DEF SharedIInv, SharedRing, locals, history
<1>6. HeldByOne' /\ DoneOnce' /\ NothingLost'
  BY <1>2, SameHolders DEF SharedIInv, holding, held, locals, history
<1>7. busy' = busy /\ Cardinality(busy) \in Nat
  BY <1>2, BusyIsFinite DEF busy
<1>8. Counting'
  <2>1. CASE help
    <3>1. CASE allCompleted
      <4>1. nextReadIndex = submitted + Cardinality(busy)
        <5>1. nextReadIndex + completionGoal = completionCount + submitted + Cardinality(busy)
          BY <2>1 DEF help, SharedIInv, Counting
        <5>2. completionGoal = completionCount
          BY <3>1 DEF allCompleted
        <5> QED
          BY <1>3, <1>7, <5>1, <5>2
      <4>2. nextReadIndex <= submitted
        BY <1>3, <2>1 DEF help, SharedIInv, SharedRing, published
      <4>3. nextReadIndex = submitted /\ busy = {}
        BY <1>3, <4>1, <4>2, BusyIsFinite, FS_EmptySet
      <4> QED
        BY <1>2, <1>3, <1>7, <2>1, <3>1, <4>3, OthersStay, BusyIsFinite
           DEF help, SharedIInv, Counting, counts, history
    <3>2. CASE ~allCompleted
      <4>1. pc'[Main] = "look" /\ pc[Main] = "help"
        BY <1>2, <2>1, <3>2, OthersStay DEF help, SharedIInv
      <4> QED
        BY <1>2, <1>7, <2>1, <4>1 DEF help, SharedIInv, Counting, counts, history
    <3> QED
      BY <3>1, <3>2
  <2>2. CASE reset_goal
    <3>1. pc'[Main] = "reset_count" /\ pc[Main] = "reset_goal"
      BY <1>2, <2>2, OthersStay DEF reset_goal, SharedIInv
    <3> QED
      BY <1>2, <1>7, <2>2, <3>1 DEF reset_goal, SharedIInv, Counting, history
  <2>3. CASE reset_count
    <3>1. pc'[Main] = "idle" /\ pc[Main] = "reset_count"
      BY <1>2, <2>3, OthersStay DEF reset_count, SharedIInv
    <3> QED
      BY <1>2, <1>3, <1>7, <2>3, <3>1, FS_EmptySet DEF reset_count, SharedIInv, Counting, history
  <2>4. CASE win32_complete_all_work \/ publish \/ ReleaseSemaphore
    <3>1. pc'[Main] \in {"help", "release", "idle"} /\ pc[Main] \in {"idle", "publish", "release"}
          /\ UNCHANGED counts
      BY <1>2, <2>4, OthersStay DEF win32_complete_all_work, publish, ReleaseSemaphore, SharedIInv
    <3> QED
      BY <1>2, <1>7, <3>1 DEF SharedIInv, Counting, counts, history
  <2> QED
    BY <2>1, <2>2, <2>3, <2>4
<1> QED
  BY <1>1, <1>5, <1>6, <1>8 DEF SharedIInv

(* A thread looks for work, or waits; nothing changes hands.                  *)
LEMMA LookKeepsShared ==
    ASSUME DoesNotWrap, SharedIInv, NEW t \in Threads,
           look(t) \/ (t \in Workers /\ WaitForSingleObject(t))
    PROVE  SharedIInv'
<1> USE WorkQueueAssumption
<1>1. QueueTypes'
  BY TakingKeepsTypes, OtherStepsKeepTypes DEF find_and_do, SharedIInv
<1>2. /\ pc[t] \in {"look", "wait"} /\ pc'[t] \in {"help", "wait", "look", "exchange"}
      /\ \A u \in Threads : u # t => pc'[u] = pc[u]
      /\ UNCHANGED <<ring, counts, history>>
  BY OthersStay DEF look, WaitForSingleObject, afterNone, DoesNotWrap, SharedIInv
<1>3. pc'[t] = "exchange" =>
        /\ nextReadIndex # nextWriteIndex
        /\ originalReadIndex'[t] = nextReadIndex
        /\ newReadIndex'[t] = following(nextReadIndex)
  BY OthersStay DEF look, WaitForSingleObject, afterNone, SharedIInv, QueueTypes, DoesNotWrap
<1>4. /\ \A u \in Threads : u # t =>
            originalReadIndex'[u] = originalReadIndex[u] /\ newReadIndex'[u] = newReadIndex[u]
      /\ UNCHANGED workOnDeck
  BY DEF look, WaitForSingleObject, locals, SharedIInv, QueueTypes
<1>5. /\ nextReadIndex \in Nat /\ nextWriteIndex \in Nat /\ nextReadIndex <= nextWriteIndex
      /\ nextReadIndex < LIMIT /\ nextWriteIndex < LIMIT
  BY DEF SharedIInv, SharedRing, QueueTypes, Slots
<1>6. pc'[t] = "exchange" => newReadIndex'[t] = originalReadIndex'[t] + 1
                             /\ originalReadIndex'[t] < nextWriteIndex
  <2>1. nextReadIndex < nextWriteIndex => (nextReadIndex + 1) % LIMIT = nextReadIndex + 1
    BY <1>5
  <2> QED
    BY <1>3, <1>5, <2>1 DEF following
<1>7. published' = published
  BY <1>2, ThreadsAre DEF published, history
<1>8. SharedRing'
  <2>1. (pc[Main] = "publish" => submitted > 0)' /\ (nextWriteIndex = published)'
        /\ (nextReadIndex <= nextWriteIndex)' /\ (\A n \in 1..submitted : work[n - 1] = n)'
    BY <1>2, <1>7, ThreadsAre DEF SharedIInv, SharedRing, ring, history
  <2>2. (\A u \in Threads : pc[u] \notin {"load", "load_new"})'
    BY <1>2 DEF SharedIInv, SharedRing
  <2>3. (\A u \in Threads : pc[u] = "exchange" => newReadIndex[u] = originalReadIndex[u] + 1)'
    BY <1>2, <1>4, <1>6 DEF SharedIInv, SharedRing
  <2>4. (\A u \in Threads : pc[u] = "exchange" => originalReadIndex[u] < nextWriteIndex)'
    BY <1>2, <1>4, <1>6 DEF SharedIInv, SharedRing, ring
  <2> QED
    BY <2>1, <2>2, <2>3, <2>4 DEF SharedRing
<1>9. HeldByOne' /\ DoneOnce' /\ NothingLost'
  <2>1. \A u \in Threads : holding(u)' <=> holding(u)
    BY <1>2 DEF holding
  <2>2. \A u \in Threads : holding(u) => held(u)' = held(u)
    BY <1>2, <1>4 DEF holding, held
  <2> QED
    BY <1>2, <2>1, <2>2, SameHolders DEF SharedIInv, ring, history
<1>10. busy' = busy
  BY <1>2 DEF busy
<1>11. Counting'
  <2>1. pc'[Main] \in {"reset_goal", "reset_count"} <=> pc[Main] \in {"reset_goal", "reset_count"}
    BY <1>2, ThreadsAre
  <2>2. pc'[Main] = "reset_count" <=> pc[Main] = "reset_count"
    BY <1>2, ThreadsAre
  <2> QED
    BY <1>2, <1>10, <2>1, <2>2 DEF SharedIInv, Counting, ring, counts, history
<1> QED
  BY <1>1, <1>8, <1>9, <1>11 DEF SharedIInv

(* The exchange gives the work behind the read index to one thread, or leaves *)
(* it to the thread that was faster.                                          *)
LEMMA ExchangeKeepsShared ==
    ASSUME DoesNotWrap, SharedIInv, NEW t \in Threads, InterlockedCompareExchange(t)
    PROVE  SharedIInv'
<1> USE WorkQueueAssumption
<1>1. QueueTypes'
  BY TakingKeepsTypes DEF find_and_do, SharedIInv
<1>2. /\ pc[t] = "exchange"
      /\ pc'[t] \in {"copy", "help", "look"}
      /\ \A u \in Threads : u # t => pc'[u] = pc[u]
      /\ UNCHANGED <<nextWriteIndex, work, counts, locals, history>>
  BY OthersStay DEF InterlockedCompareExchange, afterFound, SharedIInv
<1>3. published' = published
  BY <1>2, ThreadsAre DEF published, history
<1>4. /\ nextReadIndex \in Nat /\ nextWriteIndex \in Nat /\ submitted \in Nat
      /\ originalReadIndex[t] \in Nat /\ completionGoal \in Nat /\ completionCount \in Nat
      /\ newReadIndex[t] = originalReadIndex[t] + 1 /\ originalReadIndex[t] < nextWriteIndex
      /\ nextWriteIndex <= submitted
  BY <1>2 DEF SharedIInv, SharedRing, published, QueueTypes, Slots
<1>5. (nextReadIndex' <= nextWriteIndex') => SharedRing'
  BY <1>2, <1>3, ThreadsAre DEF SharedIInv, SharedRing, locals, history
<1>6. CASE nextReadIndex = originalReadIndex[t]
  <2>1. nextReadIndex' = nextReadIndex + 1 /\ pc'[t] = "copy"
    BY <1>2, <1>4, <1>6, OthersStay DEF InterlockedCompareExchange, SharedIInv
  <2>2. SharedRing'
    BY <1>2, <1>4, <1>5, <1>6, <2>1
  <2>3. /\ \A u \in Threads : u # t => (holding(u)' <=> holding(u)) /\ held(u)' = held(u)
        /\ holding(t)' /\ held(t)' = nextReadIndex + 1 /\ ~holding(t)
    BY <1>2, <1>6, <2>1 DEF holding, held, locals
  <2>4. HeldByOne'
    <3>1. \A u \in Threads : holding(u) => held(u) \in 1..nextReadIndex
      BY DEF SharedIInv, HeldByOne
    <3>2. \A u \in Threads : holding(u)' => held(u)' \in 1..nextReadIndex'
      BY <1>4, <2>1, <2>3, <3>1
    <3>3. \A u, v \in Threads : holding(u)' /\ holding(v)' /\ held(u)' = held(v)' => u = v
      <4>1. SUFFICES ASSUME NEW u \in Threads, NEW v \in Threads,
                            holding(u)', holding(v)', held(u)' = held(v)', u # v
                     PROVE  FALSE
        OBVIOUS
      <4>2. CASE u # t /\ v # t
        BY <2>3, <4>1, <4>2 DEF SharedIInv, HeldByOne
      <4>3. CASE u = t
        <5>1. held(v)' = held(v) /\ held(v) \in 1..nextReadIndex
          BY <2>3, <3>1, <4>1, <4>3
        <5> QED
          BY <1>4, <2>3, <4>1, <4>3, <5>1
      <4>4. CASE v = t
        <5>1. held(u)' = held(u) /\ held(u) \in 1..nextReadIndex
          BY <2>3, <3>1, <4>1, <4>4
        <5> QED
          BY <1>4, <2>3, <4>1, <4>4, <5>1
      <4> QED
        BY <4>2, <4>3, <4>4
    <3>4. \A u \in Threads, i \in 1..Len(executed) : holding(u)' => executed[i] # held(u)'
      <4>1. SUFFICES ASSUME NEW u \in Threads, NEW i \in 1..Len(executed), holding(u)'
                     PROVE  executed[i] # held(u)'
        OBVIOUS
      <4>2. CASE u # t
        BY <2>3, <4>1, <4>2 DEF SharedIInv, HeldByOne
      <4>3. CASE u = t
        <5>1. executed[i] \in 1..nextReadIndex
          BY DEF SharedIInv, DoneOnce
        <5> QED
          BY <1>4, <2>3, <4>3, <5>1
      <4> QED
        BY <4>2, <4>3
    <3> QED
      BY <1>2, <3>2, <3>3, <3>4 DEF HeldByOne, history
  <2>5. DoneOnce'
    BY <1>2, <1>4, <2>1 DEF SharedIInv, DoneOnce, history
  <2>6. NothingLost'
    <3>1. SUFFICES ASSUME NEW n \in 1..(nextReadIndex + 1)
                   PROVE  \/ \E u \in Threads : holding(u)' /\ held(u)' = n
                          \/ \E i \in 1..Len(executed) : executed[i] = n
      BY <1>2, <2>1 DEF NothingLost, history
    <3>2. CASE n = nextReadIndex + 1
      BY <2>3, <3>2
    <3>3. CASE n # nextReadIndex + 1
      <4>1. n \in 1..nextReadIndex
        BY <1>4, <3>3
      <4>2. CASE \E i \in 1..Len(executed) : executed[i] = n
        BY <4>2
      <4>3. CASE \E u \in Threads : holding(u) /\ held(u) = n
        BY <2>3, <4>3
      <4> QED
        BY <4>1, <4>2, <4>3 DEF SharedIInv, NothingLost
    <3> QED
      BY <3>2, <3>3
  <2>7. Counting'
    <3>1. busy' = busy \cup {t} /\ t \notin busy
      BY <1>2, <2>1 DEF busy
    <3>2. PICK n \in Nat : n = Cardinality(busy)
      BY BusyIsFinite
    <3>3. Cardinality(busy') = n + 1
      BY <3>1, <3>2, BusyIsFinite, FS_AddElement
    <3>4. pc[Main] \notin {"reset_goal", "reset_count"}
      BY <1>4, <1>6 DEF SharedIInv, Counting
    <3>5. pc'[Main] \notin {"reset_goal", "reset_count"}
      BY <1>2, <2>1, <3>4, ThreadsAre
    <3>6. nextReadIndex + completionGoal = completionCount + submitted + n
      BY <3>2, <3>4 DEF SharedIInv, Counting
    <3>7. (nextReadIndex + 1) + completionGoal = completionCount + submitted + (n + 1)
      BY <1>4, <3>6
    <3>8. (nextReadIndex + completionGoal = completionCount + submitted + Cardinality(busy))'
      BY <1>2, <2>1, <3>3, <3>7 DEF counts, history
    <3> QED
      BY <3>5, <3>8 DEF Counting
  <2> QED
    BY <1>1, <2>2, <2>4, <2>5, <2>6, <2>7 DEF SharedIInv
<1>7. CASE nextReadIndex # originalReadIndex[t]
  <2>1. UNCHANGED nextReadIndex /\ pc'[t] \in {"help", "look"}
    BY <1>7, OthersStay DEF InterlockedCompareExchange, afterFound, SharedIInv
  <2>2. SharedRing'
    BY <1>2, <1>5, <2>1 DEF SharedIInv, SharedRing
  <2>3. HeldByOne' /\ DoneOnce' /\ NothingLost'
    <3>1. \A u \in Threads : holding(u)' <=> holding(u)
      BY <1>2, <2>1 DEF holding
    <3>2. \A u \in Threads : holding(u) => held(u)' = held(u)
      BY <1>2, <2>1 DEF holding, held, locals
    <3> QED
      BY <1>2, <2>1, <3>1, <3>2, SameHolders DEF SharedIInv, history
  <2>4. busy' = busy
    BY <1>2, <2>1 DEF busy
  <2>5. Counting'
    <3>1. pc'[Main] \in {"reset_goal", "reset_count"} <=> pc[Main] \in {"reset_goal", "reset_count"}
      BY <1>2, <2>1, ThreadsAre
    <3>2. pc'[Main] = "reset_count" <=> pc[Main] = "reset_count"
      BY <1>2, <2>1, ThreadsAre
    <3> QED
      BY <1>2, <2>1, <2>4, <3>1, <3>2 DEF SharedIInv, Counting, counts, history
  <2> QED
    BY <1>1, <2>2, <2>3, <2>5 DEF SharedIInv
<1> QED
  BY <1>6, <1>7

(* The slot of a work that was taken holds that work.                         *)
LEMMA CopyKeepsShared ==
    ASSUME DoesNotWrap, SharedIInv, NEW t \in Threads, copy_work(t)
    PROVE  SharedIInv'
<1> USE WorkQueueAssumption
<1>1. QueueTypes'
  BY TakingKeepsTypes DEF find_and_do, SharedIInv
<1>2. /\ pc[t] = "copy" /\ pc'[t] = "call"
      /\ \A u \in Threads : u # t => pc'[u] = pc[u]
      /\ UNCHANGED <<ring, counts, originalReadIndex, newReadIndex, history>>
      /\ workOnDeck' = [workOnDeck EXCEPT ![t] = work[originalReadIndex[t]]]
  BY OthersStay DEF copy_work, SharedIInv
<1>3. published' = published
  BY <1>2, ThreadsAre DEF published, history
<1>4. SharedRing'
  BY <1>2, <1>3, ThreadsAre DEF SharedIInv, SharedRing, ring, history
<1>5. work[originalReadIndex[t]] = held(t)
  <2>1. held(t) = originalReadIndex[t] + 1 /\ held(t) \in 1..nextReadIndex
    BY <1>2 DEF SharedIInv, HeldByOne, holding, held
  <2>2. /\ originalReadIndex[t] \in Nat /\ nextReadIndex \in Nat /\ submitted \in Nat
        /\ nextReadIndex <= submitted
    BY DEF SharedIInv, SharedRing, published, QueueTypes, Slots
  <2>3. held(t) \in 1..submitted /\ held(t) - 1 = originalReadIndex[t]
    BY <2>1, <2>2
  <2> QED
    BY <2>3 DEF SharedIInv, SharedRing
<1>6. HeldByOne' /\ DoneOnce' /\ NothingLost'
  <2>1. \A u \in Threads : holding(u)' <=> holding(u)
    BY <1>2 DEF holding
  <2>2. held(t)' = held(t)
    BY <1>2, <1>5 DEF held, SharedIInv, QueueTypes
  <2>3. \A u \in Threads : u # t => held(u)' = held(u)
    BY <1>2 DEF held, SharedIInv, QueueTypes
  <2> QED
    BY <1>2, <2>1, <2>2, <2>3, SameHolders DEF SharedIInv, ring, history
<1>7. busy' = busy
  BY <1>2 DEF busy
<1>8. Counting'
  <2>1. pc'[Main] \in {"reset_goal", "reset_count"} <=> pc[Main] \in {"reset_goal", "reset_count"}
    BY <1>2, ThreadsAre
  <2>2. pc'[Main] = "reset_count" <=> pc[Main] = "reset_count"
    BY <1>2, ThreadsAre
  <2> QED
    BY <1>2, <1>7, <2>1, <2>2 DEF SharedIInv, Counting, ring, counts, history
<1> QED
  BY <1>1, <1>4, <1>6, <1>8 DEF SharedIInv

(* What a thread held goes over into what has been called back.               *)
LEMMA CallbackKeepsShared ==
    ASSUME DoesNotWrap, SharedIInv, NEW t \in Threads, callback(t)
    PROVE  SharedIInv'
<1> USE WorkQueueAssumption
<1>1. QueueTypes'
  BY TakingKeepsTypes DEF find_and_do, SharedIInv
<1>2. /\ pc[t] = "call" /\ pc'[t] = "increment"
      /\ \A u \in Threads : u # t => pc'[u] = pc[u]
      /\ UNCHANGED <<ring, counts, locals, submitted>>
      /\ executed' = Append(executed, held(t))
      /\ holding(t) /\ ~holding(t)'
  BY OthersStay DEF callback, held, holding, SharedIInv
<1>3. published' = published
  BY <1>2, ThreadsAre DEF published
<1>4. SharedRing'
  BY <1>2, <1>3, ThreadsAre DEF SharedIInv, SharedRing, ring, locals
<1>5. held(t) \in 1..nextReadIndex /\ held(t) \in Nat /\ nextReadIndex \in Nat
  BY <1>2 DEF SharedIInv, HeldByOne, QueueTypes, Slots
<1>6. /\ Len(executed) \in Nat /\ Len(executed') = Len(executed) + 1
      /\ \A i \in 1..Len(executed) : executed'[i] = executed[i]
      /\ executed'[Len(executed) + 1] = held(t)
  BY <1>2, <1>5, AppendProperties DEF SharedIInv, QueueTypes
<1>7. \A u \in Threads : u # t => (holding(u)' <=> holding(u)) /\ held(u)' = held(u)
  BY <1>2 DEF holding, held, locals
<1>8. \A i \in 1..Len(executed') : i \in 1..Len(executed) \/ i = Len(executed) + 1
  BY <1>6
<1>9. HeldByOne'
  <2>1. \A u \in Threads : holding(u)' => u # t /\ holding(u) /\ held(u)' = held(u)
    BY <1>2, <1>7
  <2>2. \A u \in Threads, i \in 1..Len(executed') : holding(u)' => executed'[i] # held(u)'
    <3>1. SUFFICES ASSUME NEW u \in Threads, NEW i \in 1..Len(executed'), holding(u)'
                   PROVE  executed'[i] # held(u)'
      OBVIOUS
    <3>2. CASE i \in 1..Len(executed)
      BY <1>6, <2>1, <3>1, <3>2 DEF SharedIInv, HeldByOne
    <3>3. CASE i = Len(executed) + 1
      BY <1>2, <1>6, <2>1, <3>1, <3>3 DEF SharedIInv, HeldByOne
    <3> QED
      BY <1>8, <3>2, <3>3
  <2>3. \A u \in Threads : holding(u)' => held(u)' \in 1..nextReadIndex'
    BY <1>2, <2>1 DEF SharedIInv, HeldByOne, ring
  <2>4. \A u, v \in Threads : holding(u)' /\ holding(v)' /\ held(u)' = held(v)' => u = v
    BY <2>1 DEF SharedIInv, HeldByOne
  <2> QED
    BY <2>2, <2>3, <2>4 DEF HeldByOne
<1>10. DoneOnce'
  <2>1. \A i \in 1..Len(executed) : executed[i] # held(t)
    BY <1>2 DEF SharedIInv, HeldByOne
  <2>2. \A i \in 1..Len(executed') : executed'[i] \in 1..nextReadIndex'
    BY <1>2, <1>5, <1>6, <1>8 DEF SharedIInv, DoneOnce, ring
  <2>3. \A i, j \in 1..Len(executed') : executed'[i] = executed'[j] => i = j
    <3>1. SUFFICES ASSUME NEW i \in 1..Len(executed'), NEW j \in 1..Len(executed'),
                          executed'[i] = executed'[j]
                   PROVE  i = j
      OBVIOUS
    <3>2. CASE i \in 1..Len(executed) /\ j \in 1..Len(executed)
      BY <1>6, <3>1, <3>2 DEF SharedIInv, DoneOnce
    <3>3. CASE i \in 1..Len(executed) /\ j = Len(executed) + 1
      BY <1>6, <2>1, <3>1, <3>3
    <3>4. CASE i = Len(executed) + 1 /\ j \in 1..Len(executed)
      BY <1>6, <2>1, <3>1, <3>4
    <3> QED
      BY <1>8, <3>2, <3>3, <3>4
  <2> QED
    BY <2>2, <2>3 DEF DoneOnce
<1>11. NothingLost'
  <2>1. SUFFICES ASSUME NEW n \in 1..nextReadIndex
                 PROVE  \/ \E u \in Threads : holding(u)' /\ held(u)' = n
                        \/ \E i \in 1..Len(executed') : executed'[i] = n
    BY <1>2 DEF NothingLost, ring
  <2>2. Len(executed) + 1 \in 1..Len(executed')
        /\ \A i \in 1..Len(executed) : i \in 1..Len(executed')
    BY <1>6
  <2>3. CASE \E i \in 1..Len(executed) : executed[i] = n
    BY <1>6, <2>2, <2>3
  <2>4. CASE held(t) = n
    BY <1>6, <2>2, <2>4
  <2>5. CASE \E u \in Threads : u # t /\ holding(u) /\ held(u) = n
    BY <1>7, <2>5
  <2> QED
    BY <2>3, <2>4, <2>5 DEF SharedIInv, NothingLost
<1>12. busy' = busy
  BY <1>2 DEF busy
<1>13. Counting'
  <2>1. pc'[Main] \in {"reset_goal", "reset_count"} <=> pc[Main] \in {"reset_goal", "reset_count"}
    BY <1>2, ThreadsAre
  <2>2. pc'[Main] = "reset_count" <=> pc[Main] = "reset_count"
    BY <1>2, ThreadsAre
  <2> QED
    BY <1>2, <1>12, <2>1, <2>2 DEF SharedIInv, Counting, ring, counts
<1> QED
  BY <1>1, <1>4, <1>9, <1>10, <1>11, <1>13 DEF SharedIInv

(* Counted as completed, and out of the thread's hands.                       *)
LEMMA IncrementKeepsShared ==
    ASSUME DoesNotWrap, SharedIInv, NEW t \in Threads, InterlockedIncrement(t)
    PROVE  SharedIInv'
<1> USE WorkQueueAssumption
<1>1. QueueTypes'
  BY TakingKeepsTypes DEF find_and_do, SharedIInv
<1>2. /\ pc[t] = "increment" /\ pc'[t] \in {"help", "look"}
      /\ \A u \in Threads : u # t => pc'[u] = pc[u]
      /\ UNCHANGED <<ring, completionGoal, locals, history>>
      /\ completionCount' = completionCount + 1
  BY OthersStay DEF InterlockedIncrement, afterFound, SharedIInv
<1>3. published' = published
  BY <1>2, ThreadsAre DEF published, history
<1>4. SharedRing'
  BY <1>2, <1>3, ThreadsAre DEF SharedIInv, SharedRing, ring, locals, history
<1>5. HeldByOne' /\ DoneOnce' /\ NothingLost'
  <2>1. \A u \in Threads : holding(u)' <=> holding(u)
    BY <1>2 DEF holding
  <2>2. \A u \in Threads : holding(u) => held(u)' = held(u)
    BY <1>2 DEF holding, held, locals
  <2> QED
    BY <1>2, <2>1, <2>2, SameHolders DEF SharedIInv, ring, history
<1>6. Counting'
  <2>1. busy' = busy \ {t} /\ t \in busy
    BY <1>2 DEF busy
  <2>2. PICK n \in Nat : n = Cardinality(busy)
    BY BusyIsFinite
  <2>3. Cardinality(busy') = n - 1
    BY <2>1, <2>2, BusyIsFinite, FS_RemoveElement
  <2>4. pc[Main] \notin {"reset_goal", "reset_count"}
    BY <2>1 DEF SharedIInv, Counting
  <2>5. pc'[Main] \notin {"reset_goal", "reset_count"}
    BY <1>2, <2>4, ThreadsAre
  <2>6. nextReadIndex + completionGoal = completionCount + submitted + n
    BY <2>2, <2>4 DEF SharedIInv, Counting
  <2>7. nextReadIndex + completionGoal = (completionCount + 1) + submitted + (n - 1)
    BY <2>2, <2>6 DEF SharedIInv, QueueTypes, Slots
  <2>8. (nextReadIndex + completionGoal = completionCount + submitted + Cardinality(busy))'
    BY <1>2, <2>3, <2>7 DEF ring, history
  <2> QED
    BY <2>5, <2>8 DEF Counting
<1> QED
  BY <1>1, <1>4, <1>5, <1>6 DEF SharedIInv

LEMMA NextKeepsShared ==
    ASSUME DoesNotWrap
    PROVE  SharedIInv /\ [Next]_vars => SharedIInv'
<1> SUFFICES ASSUME SharedIInv, [Next]_vars PROVE SharedIInv'
  OBVIOUS
<1>1. CASE UNCHANGED vars
  <2>1. QueueTypes'
    BY <1>1, NextKeepsTypes DEF SharedIInv
  <2>2. SharedRing' /\ Counting'
    BY <1>1 DEF vars, ring, counts, locals, history, SharedIInv, SharedRing, Counting, published,
       busy
  <2>3. HeldByOne' /\ DoneOnce' /\ NothingLost'
    BY <1>1 DEF vars, ring, counts, locals, history, SharedIInv, HeldByOne, DoneOnce, NothingLost,
       holding, held
  <2> QED
    BY <2>1, <2>2, <2>3 DEF SharedIInv
<1>2. ASSUME NEW t \in Threads, find_and_do(t)
      PROVE  SharedIInv'
  <2>1. ~load_original(t) /\ ~load_new(t)
    BY DEF load_original, load_new, SharedIInv, SharedRing
  <2> QED
    BY <1>2, <2>1, LookKeepsShared, ExchangeKeepsShared, CopyKeepsShared, CallbackKeepsShared,
       IncrementKeepsShared DEF find_and_do
<1>3. CASE MainCalls
  BY <1>3, AddKeepsShared, MainStepsKeepShared DEF MainCalls
<1>4. CASE MainGoesOn
  BY <1>2, <1>4, MainStepsKeepShared, ThreadsAre DEF MainGoesOn
<1>5. CASE \E t \in Workers : Worker(t)
  BY <1>2, <1>5, LookKeepsShared, ThreadsAre DEF Worker
<1> QED
  BY <1>1, <1>3, <1>4, <1>5 DEF Next

LEMMA AtMostOne ==
    ASSUME NEW S, \A x, y \in S : x = y
    PROVE  Cardinality(S) <= 1 /\ (S # {} => Cardinality(S) = 1)
<1>1. CASE S = {}
  BY <1>1, FS_EmptySet
<1>2. CASE S # {}
  <2>1. PICK x : S = {x}
    BY <1>2
  <2> QED
    BY <2>1, FS_Singleton
<1> QED
  BY <1>1, <1>2

(* However many threads take work, none is called back twice, and none that   *)
(* was never added.                                                           *)
THEOREM AlwaysExecutedOnce ==
    ASSUME DoesNotWrap
    PROVE  Spec => []ExecutedOnce
<1>1. Init => SharedIInv
  BY InitSharedIInv
<1>2. SharedIInv /\ [Next]_vars => SharedIInv'
  BY NextKeepsShared
<1>3. SharedIInv => ExecutedOnce
  <2>1. SUFFICES ASSUME SharedIInv PROVE ExecutedOnce
    OBVIOUS
  <2>2. \A n : Times(n) <= 1
    BY <2>1, AtMostOne DEF Times, SharedIInv, DoneOnce
  <2>3. nextReadIndex \in Nat /\ submitted \in Nat /\ nextReadIndex <= submitted
    BY <2>1 DEF SharedIInv, SharedRing, published, QueueTypes, Slots
  <2>4. \A i \in 1..Len(executed) : executed[i] \in 1..submitted
    BY <2>1, <2>3 DEF SharedIInv, DoneOnce
  <2> QED
    BY <2>2, <2>4 DEF ExecutedOnce
<1> QED
  BY <1>1, <1>2, <1>3, PTL DEF Spec

(* When the main thread finds the goal met, every work that was added has     *)
(* been called back, whoever took it.                                         *)
THEOREM AlwaysCompleteAllIsABarrier ==
    ASSUME DoesNotWrap
    PROVE  Spec => []CompleteAllIsABarrier
<1>1. Init => SharedIInv
  BY InitSharedIInv
<1>2. SharedIInv /\ [Next]_vars => SharedIInv'
  BY NextKeepsShared
<1>3. SharedIInv => CompleteAllIsABarrier
  <2>1. SUFFICES ASSUME SharedIInv, pc[Main] = "reset_goal", NEW n \in 1..submitted
                 PROVE  Times(n) = 1
    BY DEF CompleteAllIsABarrier
  <2>2. nextReadIndex = submitted /\ busy = {}
    BY <2>1 DEF SharedIInv, Counting
  <2>3. \A t \in Threads : ~holding(t)
    BY <2>2 DEF busy, holding
  <2>4. {i \in 1..Len(executed) : executed[i] = n} # {}
    BY <2>1, <2>2, <2>3 DEF SharedIInv, NothingLost
  <2> QED
    BY <2>1, <2>4, AtMostOne DEF Times, SharedIInv, DoneOnce
<1> QED
  BY <1>1, <1>2, <1>3, PTL DEF Spec
=============================================================================
