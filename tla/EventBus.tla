------------------------------- MODULE EventBus ------------------------------
(***************************************************************************)
(* The event/task runtime of both executables (src/common/event.c), the   *)
(* dequeue loop every queue task runs (usb_loop, manager_handler,          *)
(* intf_loop, beacon_task), the start-up of rh_server_init/rh_client_init  *)
(* with its err_exit, and the shutdown the main thread drives              *)
(* (server_event_handler, client_event_handler).                           *)
(*                                                                         *)
(* Producers are threads calling event_enqueue with a fixed script of      *)
(* event types (the timer, the host listener, forwarding monitors, the     *)
(* application calling rh_*_exit).  Event types and task masks are the     *)
(* bit values of srv_event.h / cli_event.h, and delivery is the code's     *)
(* "type & event_mask", so EVENT_TERMINATE (0) reaches no task.            *)
(***************************************************************************)
EXTENDS Naturals, Sequences, SequencesExt, FiniteSets, Bitwise

CONSTANTS
  Tasks,              \* queue tasks registered with event_task_register
  Mask,               \* task -> event_mask
  ExitOrder,          \* the order the main thread calls the *_exit of the
                      \* tasks and of the producer threads it stops
  RunningSetInThread, \* tasks whose thread itself sets task.running = true
  Producers,          \* threads calling event_enqueue
  Script,             \* producer -> the event types it enqueues, in order
  InitOrder,          \* the order rh_*_init calls the tasks' *_task_init
  EarlyFail,          \* tasks whose *_task_init can fail before registering
  Spawned,            \* producer -> the number of task inits after which
                      \* its thread exists (Len(InitOrder)+1: after init)
  Owner,              \* producer -> the entries of ExitOrder whose *_exit
                      \* stops and joins it ({} for the application)
  Checks              \* producer -> the indices of Script at which its
                      \* loop tests its own running flag

EVENT_TERMINATE == 0
EVENT_TIMER_5S == 2

ASSUME /\ Mask \in [Tasks -> Nat]
       /\ ExitOrder \in Seq(Tasks \cup Producers) /\ Tasks \subseteq Range(ExitOrder)
       /\ RunningSetInThread \subseteq Tasks
       /\ Script \in [Producers -> Seq(Nat)]
       /\ InitOrder \in Seq(Tasks) /\ Range(InitOrder) = Tasks
       /\ EarlyFail \subseteq Tasks
       /\ Spawned \in [Producers -> 0..Len(InitOrder) + 1]
       /\ Owner \in [Producers -> SUBSET Range(ExitOrder)]
       /\ \A p \in Producers : Checks[p] \subseteq DOMAIN Script[p]

\* The timer thread's loop, timer_event_generate: TIMER_1S each second,
\* and TIMER_5S after it when ctr % 5 = 0, ctr starting at 5 (a uint8_t
\* that is reset to 0 before it reaches 6, so it never wraps).  The
\* events of n iterations.
RECURSIVE TimerLoop(_, _)
TimerLoop(n, ctr) ==
  IF n = 0 THEN <<>>
  ELSE IF ctr % 5 = 0
       THEN <<1, EVENT_TIMER_5S>> \o TimerLoop(n - 1, 1)
       ELSE <<1>> \o TimerLoop(n - 1, ctr + 1)

timer_event_generate(n) == TimerLoop(n, 5)

VARIABLES
  running,   \* event.c's running: the bus accepts events
  sent,      \* events inserted by event_enqueue, in event_lock order
  mbox,      \* task -> task->event, its mailbox
  handled,   \* task -> events its loop has dequeued and handled, in order
  tRunning,  \* task -> task->running
  tPc,       \* task -> program counter of its thread
  tCur,      \* task -> the event it is handling
  waiting,   \* tasks blocked on their event_cond
  prodPc,    \* producer -> "check" (unlocked read of running) or "enq"
  prodIdx,   \* producer -> index in Script of its next event
  mainPc,    \* rh_*_init, then the event-handler thread of server.c /
             \* client.c, or err_exit in rh_*_init
  mainIdx,   \* index in ExitOrder of the task being shut down
  regAt,     \* task -> 1 + the number of events sent when
             \* event_task_register linked it into the task list, or 0
  nInit,     \* the number of *_task_init calls that have returned true
  initRet    \* what rh_*_init returned: "pending", "ok" or "fail"

initVars == <<regAt, nInit, initRet>>

vars == <<running, sent, mbox, handled, tRunning, tPc, tCur, waiting,
          prodPc, prodIdx, mainPc, mainIdx, initVars>>

Event == [src : Producers, n : Nat, type : Nat]
NoEvent == [src |-> CHOOSE p \in Producers : TRUE, n |-> 0, type |-> 0]

\* The event types the producers use.
Types == UNION {Range(Script[p]) : p \in Producers}

\* event_enqueue's test "event->type & task->event_mask", per task, over
\* the types in use (a constant, evaluated once).
SubscribedTypes == [t \in Tasks |-> {ty \in Types : (ty & Mask[t]) # 0}]

Subscribed(t, type) == type \in SubscribedTypes[t]

-----------------------------------------------------------------------------
(* Producers: event_enqueue                                                 *)

\* The event a producer enqueues next.
NextEvent(p) == [src |-> p, n |-> prodIdx[p], type |-> Script[p][prodIdx[p]]]

\* The tasks in event.c's task list.
Registered == {t \in Tasks : regAt[t] # 0}

\* The producer's thread has been created: by a *_task_init that has
\* returned, or after rh_*_init returned RH_OK.
ProducerStarted(p) == Spawned[p] <= nInit \/ initRet = "ok"

\* The threads and tasks whose *_exit the main thread has already called.
Stopped(t) ==
  \E i \in 1..Len(ExitOrder) :
    /\ ExitOrder[i] = t
    /\ \/ i < mainIdx /\ mainPc \in {"exit", "join", "cleanup", "done"}
       \/ i = mainIdx /\ mainPc \in {"join", "cleanup", "done"}

\* The producer's loop goes on: at a test of its running flag (the timer's
\* "while (timer.running)", the listener's accept on a socket host_exit has
\* not shut) it stops once its owner's *_exit has been called.
ProducerGoesOn(p) ==
  prodIdx[p] \in Checks[p] => \A o \in Owner[p] : ~Stopped(o)

\* "if (!running) return false;", read without event_lock.
EnqueueCheck(p) ==
  /\ prodPc[p] = "check" /\ prodIdx[p] <= Len(Script[p])
  /\ ProducerStarted(p) /\ ProducerGoesOn(p)
  /\ IF running
       THEN /\ prodPc' = [prodPc EXCEPT ![p] = "enq"]
            /\ UNCHANGED prodIdx
       ELSE /\ prodIdx' = [prodIdx EXCEPT ![p] = @ + 1]
            /\ UNCHANGED prodPc
  /\ UNCHANGED <<running, sent, mbox, handled, tRunning, tPc, tCur, waiting,
                 mainPc, mainIdx, initVars>>

\* Variant: the event is pushed at the head of the mailbox.
event_insert_head(q, e) == <<e>> \o q

\* event_insert: append to the tail of the mailbox.
event_insert(q, e) == Append(q, e)

\* Variant: the subscribed tasks' event_cond is not signalled.
event_enqueue_nosignal(p) ==
  /\ prodPc[p] = "enq"
  /\ LET e == NextEvent(p)
         D == {t \in Registered : Subscribed(t, e.type)}
     IN /\ \A t \in D : tPc[t] # "prewait"
        /\ mbox' = [t \in Tasks |->
                      IF t \in D THEN event_insert(mbox[t], e) ELSE mbox[t]]
        /\ sent' = Append(sent, e)
        /\ running' = (running /\ e.type # EVENT_TERMINATE)
  /\ prodPc' = [prodPc EXCEPT ![p] = "check"]
  /\ prodIdx' = [prodIdx EXCEPT ![p] = @ + 1]
  /\ UNCHANGED <<handled, tRunning, tPc, tCur, waiting, mainPc, mainIdx,
                 initVars>>

\* Under event_lock: for every subscribed task, take its event_lock (a task
\* holding it between its wait test and pthread_cond_wait blocks this),
\* event_insert, unlock, signal; EVENT_TERMINATE then clears running and
\* signals terminate_signal.
event_enqueue(p) ==
  /\ prodPc[p] = "enq"
  /\ LET e == NextEvent(p)
         D == {t \in Registered : Subscribed(t, e.type)}
     IN /\ \A t \in D : tPc[t] # "prewait"
        /\ mbox' = [t \in Tasks |->
                      IF t \in D THEN event_insert(mbox[t], e) ELSE mbox[t]]
        /\ waiting' = waiting \ D
        /\ sent' = Append(sent, e)
        /\ running' = (running /\ e.type # EVENT_TERMINATE)
  /\ prodPc' = [prodPc EXCEPT ![p] = "check"]
  /\ prodIdx' = [prodIdx EXCEPT ![p] = @ + 1]
  /\ UNCHANGED <<handled, tRunning, tPc, tCur, mainPc, mainIdx, initVars>>

-----------------------------------------------------------------------------
(* Task threads: the dequeue loop and event_dequeue                         *)

\* intf_loop of the client interface starts with "intf.running = true".
TaskStart(t) ==
  /\ tPc[t] = "start"
  /\ tRunning' = [tRunning EXCEPT ![t] = TRUE]
  /\ tPc' = [tPc EXCEPT ![t] = "head"]
  /\ UNCHANGED <<running, sent, mbox, handled, tCur, waiting, prodPc,
                 prodIdx, mainPc, mainIdx, initVars>>

\* "while (task.running)".
TaskLoop(t) ==
  /\ tPc[t] = "head"
  /\ tPc' = [tPc EXCEPT ![t] = IF tRunning[t] THEN "deq" ELSE "exited"]
  /\ UNCHANGED <<running, sent, mbox, handled, tRunning, tCur, waiting,
                 prodPc, prodIdx, mainPc, mainIdx, initVars>>

\* event_dequeue under task->event_lock: wait while running with an empty
\* mailbox; return false once not running; else pop the head.
event_dequeue(t) ==
  /\ tPc[t] = "deq"
  /\ \/ /\ tRunning[t] /\ mbox[t] = <<>>
        /\ tPc' = [tPc EXCEPT ![t] = "prewait"]
        /\ UNCHANGED <<mbox, tCur>>
     \/ /\ ~tRunning[t]
        /\ tPc' = [tPc EXCEPT ![t] = "exited"]
        /\ UNCHANGED <<mbox, tCur>>
     \/ /\ tRunning[t] /\ mbox[t] # <<>>
        /\ tCur' = [tCur EXCEPT ![t] = Head(mbox[t])]
        /\ mbox' = [mbox EXCEPT ![t] = Tail(@)]
        /\ tPc' = [tPc EXCEPT ![t] = "handle"]
  /\ UNCHANGED <<running, sent, handled, tRunning, waiting, prodPc, prodIdx,
                 mainPc, mainIdx, initVars>>

\* pthread_cond_wait on event_cond, releasing event_lock.
TaskWait(t) ==
  /\ tPc[t] = "prewait"
  /\ waiting' = waiting \cup {t}
  /\ tPc' = [tPc EXCEPT ![t] = "wait"]
  /\ UNCHANGED <<running, sent, mbox, handled, tRunning, tCur, prodPc,
                 prodIdx, mainPc, mainIdx, initVars>>

TaskWake(t) ==
  /\ tPc[t] = "wait" /\ t \notin waiting
  /\ tPc' = [tPc EXCEPT ![t] = "deq"]
  /\ UNCHANGED <<running, sent, mbox, handled, tRunning, tCur, waiting,
                 prodPc, prodIdx, mainPc, mainIdx, initVars>>

\* handle_event(event); free(event).
TaskHandle(t) ==
  /\ tPc[t] = "handle"
  /\ handled' = [handled EXCEPT ![t] = Append(@, tCur[t])]
  /\ tCur' = [tCur EXCEPT ![t] = NoEvent]
  /\ tPc' = [tPc EXCEPT ![t] = "head"]
  /\ UNCHANGED <<running, sent, mbox, tRunning, waiting, prodPc, prodIdx,
                 mainPc, mainIdx, initVars>>

-----------------------------------------------------------------------------
(* The main event-handler thread                                            *)

\* event_handler returns once EVENT_TERMINATE has cleared running (it is
\* cleared and signalled under event_lock, so the wakeup is not lost).
event_handler ==
  /\ mainPc = "handler" /\ ~running
  /\ mainPc' = "exit" /\ mainIdx' = 1
  /\ UNCHANGED <<running, sent, mbox, handled, tRunning, tPc, tCur, waiting,
                 prodPc, prodIdx, initVars>>

\* *_exit: "task.running = false; pthread_cond_signal(&task.event_cond);"
\* without task.event_lock (for a producer thread, timer_exit's
\* "timer.running = false" or host_exit's shut of the listening socket,
\* which Stopped records) ...
task_exit ==
  /\ mainPc = "exit"
  /\ LET t == ExitOrder[mainIdx] IN
       /\ tRunning' = [u \in Tasks |-> IF u = t THEN FALSE ELSE tRunning[u]]
       /\ waiting' = waiting \ {t}
  /\ mainPc' = "join"
  /\ UNCHANGED <<running, sent, mbox, handled, tPc, tCur, prodPc, prodIdx,
                 mainIdx, initVars>>

\* Mutant: the join does not wait for the producer threads it stops.
Joinable_nowait(t) == t \in Tasks => tPc[t] \in {"exited", "none"}

\* The producer's thread is at a test of its running flag, or its script
\* is done: the point where a stopped loop returns.
ProducerAtExit(p) ==
  prodPc[p] = "check" /\ (prodIdx[p] \in Checks[p] \/ prodIdx[p] > Len(Script[p]))

\* "if (thread) pthread_join(thread, NULL)": a task whose thread was never
\* created is not joined; the join of a producer's thread (or of the task
\* whose thread emits the producer's reports) returns once its loop has
\* come round to the test that ends it.
Joinable(t) ==
  /\ t \in Tasks => tPc[t] \in {"exited", "none"}
  /\ \A p \in Producers : t \in Owner[p] => ProducerAtExit(p)

\* ... then pthread_join of the task's thread.
task_join ==
  /\ mainPc = "join" /\ Joinable(ExitOrder[mainIdx])
  /\ IF mainIdx = Len(ExitOrder)
       THEN mainPc' = "cleanup" /\ UNCHANGED mainIdx
       ELSE mainPc' = "exit" /\ mainIdx' = mainIdx + 1
  /\ UNCHANGED <<running, sent, mbox, handled, tRunning, tPc, tCur, waiting,
                 prodPc, prodIdx, initVars>>

\* event_cleanup frees every event left in a mailbox.
event_cleanup ==
  /\ mainPc = "cleanup"
  /\ mbox' = [t \in Tasks |-> <<>>]
  /\ mainPc' = "done"
  /\ UNCHANGED <<running, sent, handled, tRunning, tPc, tCur, waiting,
                 prodPc, prodIdx, mainIdx, initVars>>

-----------------------------------------------------------------------------
(* Start-up: rh_server_init / rh_client_init                                *)

\* goto err_exit: the init thread runs the same *_exit sequence and
\* event_cleanup as the event handler, then returns the error.
err_exit ==
  /\ mainPc' = "exit" /\ initRet' = "fail"
  /\ UNCHANGED <<tPc, regAt, nInit>>

\* The next *_task_init: a task of EarlyFail may return false before
\* registering (manager_task_init without VHCI or CA file, usb_task_init
\* when libusb_init fails).  Otherwise event_task_register links the task
\* in, running is set unless its thread sets it, and pthread_create
\* either starts the thread or fails, and the init returns false.
task_init ==
  /\ mainPc = "init"
  /\ LET t == InitOrder[nInit + 1] IN
     \/ /\ t \in EarlyFail
        /\ err_exit
        /\ UNCHANGED tRunning
     \/ /\ regAt' = [regAt EXCEPT ![t] = Len(sent) + 1]
        /\ tRunning' = [tRunning EXCEPT ![t] = t \notin RunningSetInThread]
        /\ \/ /\ tPc' = [tPc EXCEPT ![t] = IF t \in RunningSetInThread
                                           THEN "start" ELSE "head"]
              /\ nInit' = nInit + 1
              /\ mainPc' = IF nInit' = Len(InitOrder) THEN "spawn" ELSE "init"
              /\ UNCHANGED initRet
           \/ /\ mainPc' = "exit" /\ initRet' = "fail"
              /\ UNCHANGED <<tPc, nInit>>
  /\ UNCHANGED <<running, sent, mbox, handled, tCur, waiting, prodPc, prodIdx,
                 mainIdx>>

\* pthread_create of the event-handler thread: rh_*_init returns RH_OK, or
\* it fails and goes to err_exit with every task started.
handler_spawn ==
  /\ mainPc = "spawn"
  /\ \/ mainPc' = "handler" /\ initRet' = "ok" /\ UNCHANGED <<tPc, regAt, nInit>>
     \/ err_exit
  /\ UNCHANGED <<running, sent, mbox, handled, tRunning, tCur, waiting, prodPc,
                 prodIdx, mainIdx>>

\* Before rh_*_init no task is registered and no thread exists.
Init ==
  /\ running = TRUE /\ sent = <<>>
  /\ mbox = [t \in Tasks |-> <<>>] /\ handled = [t \in Tasks |-> <<>>]
  /\ tRunning = [t \in Tasks |-> FALSE]
  /\ tPc = [t \in Tasks |-> "none"]
  /\ tCur = [t \in Tasks |-> NoEvent]
  /\ waiting = {}
  /\ prodPc = [p \in Producers |-> "check"]
  /\ prodIdx = [p \in Producers |-> 1]
  /\ mainPc = "init" /\ mainIdx = 1
  /\ regAt = [t \in Tasks |-> 0] /\ nInit = 0 /\ initRet = "pending"

Task(t) == TaskStart(t) \/ TaskLoop(t) \/ event_dequeue(t) \/ TaskWait(t)
             \/ TaskWake(t) \/ TaskHandle(t)

Producer(p) == EnqueueCheck(p) \/ event_enqueue(p)

Main == task_init \/ handler_spawn \/ event_handler \/ task_exit \/ task_join
          \/ event_cleanup

Next == (\E t \in Tasks : Task(t)) \/ (\E p \in Producers : Producer(p)) \/ Main

\* Every thread is scheduled: weak fairness per thread.
Spec == Init /\ [][Next]_vars
          /\ \A t \in Tasks : WF_vars(Task(t))
          /\ \A p \in Producers : WF_vars(Producer(p))
          /\ WF_vars(Main)

-----------------------------------------------------------------------------
(* Properties                                                               *)

\* Each task handles exactly the events whose type matches its mask, in the
\* order event_lock admitted them to the bus, from its registration on:
\* what it has handled is a prefix of that subsequence of everything
\* enqueued since event_task_register.
HandledInOrder ==
  \A t \in Registered :
    IsPrefix(handled[t], SelectSeq(SubSeq(sent, regAt[t], Len(sent)),
                                   LAMBDA e : Subscribed(t, e.type)))

\* An event in the mailbox of a running task is eventually handled, or the
\* task is told to stop: event_enqueue's signal wakes a task blocked in
\* event_dequeue.
EventEventuallyHandled ==
  \A t \in Tasks, p \in Producers :
   \A n \in {i \in 1..Len(Script[p]) : Subscribed(t, Script[p][i])} :
    LET e == [src |-> p, n |-> n, type |-> Script[p][n]] IN
      (tRunning[t] /\ \E i \in 1..Len(mbox[t]) : mbox[t][i] = e)
        ~> (\E i \in 1..Len(handled[t]) : handled[t][i] = e) \/ ~tRunning[t]

\* spec §8.7 Termination: once EVENT_TERMINATE is enqueued the runtime
\* quiesces: the main thread has joined every task and cleaned up.
Termination == ~running ~> mainPc = "done"

\* event_cleanup runs without event_lock and, after err_exit, with the bus
\* still running: it frees every queued event for good only if every
\* thread that could still enqueue has been joined before it.  Once the
\* main (or init) thread is done, no mailbox holds an event.
CleanupLeavesNoEvent == mainPc = "done" => \A t \in Tasks : mbox[t] = <<>>

\* Once *_exit has cleared a task's running flag, nothing sets it again.
ExitIsFinal == [][\A t \in Tasks : Stopped(t) => ~tRunning'[t]]_vars

====
