------------------------------ MODULE WorkQueue ------------------------------
(* The work queue of src/win32_platform.cpp: the main thread adds work to a   *)
(* ring; worker threads, and the main thread while it waits for everything to *)
(* be done, take work from it.  Each access to a shared field is a step.  The *)
(* fields are plain LONGs: the unoptimised build loads one anew at each       *)
(* mention, the optimised build may load it once.                             *)
EXTENDS Naturals, Sequences, FiniteSets

CONSTANTS
    Workers,     \* the threads of win32_make_work_queue
    LIMIT,       \* PLATFORM_WORK_QUEUE_LIMIT, 256 in the code
    MaxWork,     \* bound on the work added
    MainHelps,   \* does the main thread call win32_complete_all_work
    DEBUG        \* TRUE: asserts, and a load per mention; FALSE: neither

Main == "main"
Threads == Workers \cup {Main}
Slots == 0..(LIMIT - 1)
NoWork == 0

ASSUME WorkQueueAssumption ==
    /\ LIMIT \in Nat \ {0, 1}
    /\ MaxWork \in Nat
    /\ Main \notin Workers
    /\ IsFiniteSet(Workers)
    /\ MainHelps \in BOOLEAN /\ DEBUG \in BOOLEAN

VARIABLES
    nextReadIndex, nextWriteIndex,
    work,                            \* the ring, each work by its number
    completionGoal, completionCount,
    semaphore,                       \* threadsLookForWorkSemaphore
    pc,
    originalReadIndex, newReadIndex, \* locals of win32_find_and_do_queue_work
    workOnDeck,
    submitted,                       \* history: works added so far
    executed,                        \* history: works called back, in order
    assertFailed

ring == <<nextReadIndex, nextWriteIndex, work>>
counts == <<completionGoal, completionCount>>
locals == <<originalReadIndex, newReadIndex, workOnDeck>>
history == <<submitted, executed>>
vars == <<ring, counts, semaphore, pc, locals, history, assertFailed>>

following(i) == (i + 1) % LIMIT

(* win32_make_work_queue                                                      *)
Init ==
    /\ nextReadIndex = 0 /\ nextWriteIndex = 0
    /\ work = [s \in Slots |-> NoWork]
    /\ completionGoal = 0 /\ completionCount = 0
    /\ semaphore = 0
    /\ pc = [t \in Threads |-> IF t = Main THEN "idle" ELSE "look"]
    /\ originalReadIndex = [t \in Threads |-> 0]
    /\ newReadIndex = [t \in Threads |-> 0]
    /\ workOnDeck = [t \in Threads |-> NoWork]
    /\ submitted = 0
    /\ executed = <<>>
    /\ assertFailed = FALSE

-----------------------------------------------------------------------------
(* win32_find_and_do_queue_work, by thread t                                  *)

goto(t, label) == pc' = [pc EXCEPT ![t] = label]

(* Where t goes on from a call that found work or none.                       *)
afterFound(t) == IF t = Main THEN "help" ELSE "look"
afterNone(t) == IF t = Main THEN "help" ELSE "wait"

look(t) ==
    /\ pc[t] = "look"
    /\ \/ /\ nextReadIndex = nextWriteIndex
          /\ goto(t, afterNone(t))
          /\ UNCHANGED locals
       \/ /\ nextReadIndex # nextWriteIndex
          /\ DEBUG
          /\ goto(t, "load")
          /\ UNCHANGED locals
       \/ /\ nextReadIndex # nextWriteIndex
          /\ ~DEBUG
          /\ originalReadIndex' = [originalReadIndex EXCEPT ![t] = nextReadIndex]
          /\ newReadIndex' = [newReadIndex EXCEPT ![t] = following(nextReadIndex)]
          /\ goto(t, "exchange")
          /\ UNCHANGED workOnDeck
    /\ UNCHANGED <<ring, counts, semaphore, history, assertFailed>>

load_original(t) ==
    /\ pc[t] = "load"
    /\ originalReadIndex' = [originalReadIndex EXCEPT ![t] = nextReadIndex]
    /\ goto(t, "load_new")
    /\ UNCHANGED <<ring, counts, semaphore, newReadIndex, workOnDeck, history, assertFailed>>

load_new(t) ==
    /\ pc[t] = "load_new"
    /\ newReadIndex' = [newReadIndex EXCEPT ![t] = following(nextReadIndex)]
    /\ goto(t, "exchange")
    /\ UNCHANGED <<ring, counts, semaphore, originalReadIndex, workOnDeck, history, assertFailed>>

InterlockedCompareExchange_Mutant(t) ==   \* the comparand is not looked at
    /\ pc[t] = "exchange"
    /\ nextReadIndex' = newReadIndex[t]
    /\ goto(t, "copy")
    /\ UNCHANGED <<nextWriteIndex, work, counts, semaphore, locals, history, assertFailed>>

InterlockedCompareExchange(t) ==
    /\ pc[t] = "exchange"
    /\ \/ /\ nextReadIndex = originalReadIndex[t]
          /\ nextReadIndex' = newReadIndex[t]
          /\ goto(t, "copy")
       \/ /\ nextReadIndex # originalReadIndex[t]
          /\ goto(t, afterFound(t))
          /\ UNCHANGED nextReadIndex
    /\ UNCHANGED <<nextWriteIndex, work, counts, semaphore, locals, history, assertFailed>>

copy_work_Mutant(t) ==   \* of the slot that follows
    /\ pc[t] = "copy"
    /\ workOnDeck' = [workOnDeck EXCEPT ![t] = work[newReadIndex[t]]]
    /\ goto(t, "call")
    /\ UNCHANGED <<ring, counts, semaphore, originalReadIndex, newReadIndex, history, assertFailed>>

copy_work(t) ==
    /\ pc[t] = "copy"
    /\ workOnDeck' = [workOnDeck EXCEPT ![t] = work[originalReadIndex[t]]]
    /\ goto(t, "call")
    /\ UNCHANGED <<ring, counts, semaphore, originalReadIndex, newReadIndex, history, assertFailed>>

callback(t) ==
    /\ pc[t] = "call"
    /\ executed' = Append(executed, workOnDeck[t])
    /\ goto(t, "increment")
    /\ UNCHANGED <<ring, counts, semaphore, locals, submitted, assertFailed>>

InterlockedIncrement(t) ==
    /\ pc[t] = "increment"
    /\ completionCount' = completionCount + 1
    /\ goto(t, afterFound(t))
    /\ UNCHANGED <<ring, completionGoal, semaphore, locals, history, assertFailed>>

(* win32_thread_proc: a worker without work takes the semaphore.              *)
WaitForSingleObject(t) ==
    /\ pc[t] = "wait"
    /\ semaphore > 0
    /\ semaphore' = semaphore - 1
    /\ goto(t, "look")
    /\ UNCHANGED <<ring, counts, locals, history, assertFailed>>

find_and_do(t) ==
    \/ look(t) \/ load_original(t) \/ load_new(t) \/ InterlockedCompareExchange(t)
    \/ copy_work(t) \/ callback(t) \/ InterlockedIncrement(t)

-----------------------------------------------------------------------------
(* The main thread                                                            *)

ringIsFull_Mutant == following(following(nextWriteIndex)) = nextReadIndex   \* off by one

ringIsFull == following(nextWriteIndex) = nextReadIndex

(* win32_add_work_to_queue: what follows the assert becomes visible with the  *)
(* write index.                                                               *)
win32_add_work_to_queue ==
    /\ pc[Main] = "idle"
    /\ submitted < MaxWork
    /\ \/ /\ DEBUG /\ ringIsFull
          /\ assertFailed' = TRUE
          /\ UNCHANGED <<ring, counts, semaphore, pc, locals, history>>
       \/ /\ ~(DEBUG /\ ringIsFull)
          /\ submitted' = submitted + 1
          /\ work' = [work EXCEPT ![nextWriteIndex] = submitted']
          /\ completionGoal' = completionGoal + 1
          /\ goto(Main, "publish")
          /\ UNCHANGED <<nextReadIndex, nextWriteIndex, completionCount, semaphore, locals,
                         executed, assertFailed>>

publish ==
    /\ pc[Main] = "publish"
    /\ nextWriteIndex' = following(nextWriteIndex)
    /\ goto(Main, "release")
    /\ UNCHANGED <<nextReadIndex, work, counts, semaphore, locals, history, assertFailed>>

ReleaseSemaphore_Mutant ==   \* wakes nobody
    /\ pc[Main] = "release"
    /\ goto(Main, "idle")
    /\ UNCHANGED <<ring, counts, semaphore, locals, history, assertFailed>>

(* The semaphore counts no further than the threads there are.                *)
ReleaseSemaphore ==
    /\ pc[Main] = "release"
    /\ semaphore' = IF semaphore < Cardinality(Workers) THEN semaphore + 1 ELSE semaphore
    /\ goto(Main, "idle")
    /\ UNCHANGED <<ring, counts, locals, history, assertFailed>>

win32_complete_all_work ==
    /\ MainHelps
    /\ pc[Main] = "idle"
    /\ goto(Main, "help")
    /\ UNCHANGED <<ring, counts, semaphore, locals, history, assertFailed>>

allCompleted_Mutant == nextReadIndex = nextWriteIndex   \* taken is not done

allCompleted == completionGoal = completionCount

help ==
    /\ pc[Main] = "help"
    /\ goto(Main, IF allCompleted THEN "reset_goal" ELSE "look")
    /\ UNCHANGED <<ring, counts, semaphore, locals, history, assertFailed>>

reset_goal ==
    /\ pc[Main] = "reset_goal"
    /\ completionGoal' = 0
    /\ goto(Main, "reset_count")
    /\ UNCHANGED <<ring, completionCount, semaphore, locals, history, assertFailed>>

reset_count_Mutant ==   \* goes on counting
    /\ pc[Main] = "reset_count"
    /\ goto(Main, "idle")
    /\ UNCHANGED <<ring, counts, semaphore, locals, history, assertFailed>>

reset_count ==
    /\ pc[Main] = "reset_count"
    /\ completionCount' = 0
    /\ goto(Main, "idle")
    /\ UNCHANGED <<ring, completionGoal, semaphore, locals, history, assertFailed>>

Worker(t) == ~assertFailed /\ (find_and_do(t) \/ WaitForSingleObject(t))

(* The calls the main thread makes, and what it must do to end them.          *)
MainCalls == ~assertFailed /\ (win32_add_work_to_queue \/ win32_complete_all_work)

MainGoesOn ==
    /\ ~assertFailed
    /\ publish \/ ReleaseSemaphore \/ help \/ reset_goal \/ reset_count \/ find_and_do(Main)

Next == MainCalls \/ MainGoesOn \/ \E t \in Workers : Worker(t)

(* The operating system runs every thread that can run.                       *)
Spec ==
    /\ Init /\ [][Next]_vars
    /\ WF_vars(MainGoesOn)
    /\ \A t \in Workers : WF_vars(Worker(t))

-----------------------------------------------------------------------------
(* Properties                                                                 *)

Times(w) == Cardinality({i \in 1..Len(executed) : executed[i] = w})

(* No callback is made twice, and none for work that was never added.         *)
ExecutedOnce ==
    /\ \A w \in 1..MaxWork : Times(w) <= 1
    /\ \A i \in 1..Len(executed) : executed[i] \in 1..submitted

(* One consumer makes the callbacks in the order of the adding.               *)
ExecutedInOrder == \A i \in 1..Len(executed) : executed[i] = i

(* win32_complete_all_work does not return before every callback has.         *)
CompleteAllIsABarrier ==
    pc[Main] = "reset_goal" => \A w \in 1..submitted : Times(w) = 1

(* "Wrote too many things to the work queue!" is only said of a ring whose    *)
(* LIMIT - 1 usable slots all hold work not yet taken.                        *)
AssertMeansFull == assertFailed => submitted - Len(executed) >= LIMIT - 1

(* Work that was added is called back in the end: no wakeup is lost between   *)
(* a worker's look at the ring and its wait.                                  *)
EverythingIsExecuted ==
    \A w \in 1..MaxWork : submitted >= w ~> Times(w) > 0 \/ assertFailed

(* The main thread comes back from win32_complete_all_work.                   *)
CompleteAllReturns == pc[Main] = "help" ~> pc[Main] = "idle"
=============================================================================
