-------------------------- MODULE ExecutionContext --------------------------
(***************************************************************************)
(* asio_uring::execution_context: the proactor at the heart of the         *)
(* library (src/src/core/execution_context.cpp and .hpp).                  *)
(*                                                                         *)
(* One thread at a time, Main, restarts and runs the context; any number   *)
(* of Workers use its executor and call stop().  The running thread sleeps *)
(* in the io_uring and is woken through three eventfds, each watched by a  *)
(* one-shot poll that has to be armed again whenever it has fired:         *)
(*                                                                         *)
(*   "queue"  counts the functions posted to the queue,                    *)
(*   "stop"   is written by stop(),                                        *)
(*   "zero"   is written when the count of outstanding work drops to zero. *)
(*                                                                         *)
(* The model is of the NDEBUG build: the assertions of the source are      *)
(* properties of the MC module, not guards.  What abstracts the data:      *)
(*   - a posted function is one unit of `linked' (the order of the queue   *)
(*     belongs to EventfdQueue);                                           *)
(*   - the counters of "stop" and "zero" saturate at 1, because the code   *)
(*     discards the value it reads and only tests readability;             *)
(*   - a cqe leaves the completion queue when it is looked at instead of   *)
(*     when its handling ends (nothing else looks at the queue meanwhile). *)
(***************************************************************************)
EXTENDS Integers, Sequences, FiniteSets, Functions

CONSTANTS
  Main,               \* the thread that runs the context
  Workers,            \* the other threads
  Ops,                \* completions of user operations (one work unit each)
  MaxWork,            \* bound on work_, so on functions queued and operations
  MaxSubmitFailures   \* bound on failed io_uring_submit calls of restart()

ASSUME MainAssumption    == Main \notin Workers
ASSUME WorkersAssumption == IsFiniteSet(Workers)
ASSUME OpsAssumption     == IsFiniteSet(Ops)
ASSUME MaxWorkAssumption == MaxWork \in Nat
ASSUME MaxSubmitFailuresAssumption == MaxSubmitFailures \in Nat

Threads == Workers \cup {Main}
Events  == {"queue", "stop", "zero"}

(* A cqe carries the address of a completion or of an event's flag, and    *)
(* "loop" stands for no cqe at all: all distinct.                          *)
ASSUME UserDataAssumption == Ops \cap (Events \cup {"loop"}) = {}

(* The four entry points: Blocking is the template parameter, all tells    *)
(* all_impl from one_impl.                                                 *)
EntryPoints == [blocking : BOOLEAN, all : BOOLEAN]

VARIABLES
  work,       \* work_
  stopped,    \* stopped_
  efd,        \* efd[e]: counter of the eventfd of event e
  linked,     \* number of functions linked in q_
  call,       \* call[t]: what thread t has left to do of an executor call
  guards,     \* work guards held: on_work_started() not yet matched
  \* private to the running thread
  started,    \* started[e]: q_started_, stop_started_, zero_started_
  pending,    \* pending_: functions announced by "queue" and not consumed
  busy,       \* completions in use by the service
  submitting, \* the completion being submitted, if any (a set)
  pc,         \* where the running thread is
  \* its local variables, which die with the call
  entry,      \* the entry point it is in
  item,       \* the cqe, or the source of the function, being handled
  batch,      \* iterations left of the loop in q_.consume()
  done,       \* retr of service_queue()
  handlers,   \* handlers run by this call (0, 1 or "2 or more")
  \* the ring
  sq,         \* sq[e]: poll SQEs prepared and left behind by a failed submit
  polls,      \* polls[e]: polls of event e armed in the kernel
  inflight,   \* user operations the kernel is executing
  cq,         \* the completion queue
  failures    \* io_uring_submit calls of restart() that failed

shared == <<work, stopped, efd, linked, call, guards>>
locals == <<entry, item, batch, done, handlers>>
owned  == <<started, pending, busy, submitting>>
ring   == <<sq, polls, inflight, cq, failures>>
vars   == <<shared, owned, pc, locals, ring>>

PCs == {"idle", "restart", "checkWork", "drain", "popped", "handler",
        "release", "unwind", "wait", "event", "stopRead", "zeroRead", "rearm"}
Calls == {"none", "link", "signal", "zero", "stop"}

(* Where a handler comes from: the drain at the head of all_impl's loop    *)
(* (or of one_impl), or the cqe of an event or of an operation.            *)
Items == Events \cup Ops \cup {"loop"}

TypeOK ==
  /\ work \in Nat
  /\ stopped \in BOOLEAN
  /\ efd \in [Events -> Nat]
  /\ linked \in Nat
  /\ call \in [Threads -> Calls]
  /\ guards \in Nat
  /\ started \in [Events -> BOOLEAN]
  /\ pending \in Nat
  /\ busy \in SUBSET Ops
  /\ submitting \in SUBSET Ops
  /\ pc \in PCs
  /\ entry \in EntryPoints
  /\ item \in Items
  /\ batch \in Nat
  /\ done \in BOOLEAN
  /\ handlers \in 0..2
  /\ sq \in [Events -> Nat]
  /\ polls \in [Events -> Nat]
  /\ inflight \in SUBSET Ops
  /\ cq \in Seq(Events \cup Ops)
  /\ failures \in Nat

(* The constructor has run: it registers the eventfds and ends in          *)
(* restart(), so the three polls are armed.  (If it throws there is no     *)
(* context.)                                                               *)
Init ==
  /\ work = 0
  /\ stopped = FALSE
  /\ efd = [e \in Events |-> 0]
  /\ linked = 0
  /\ call = [t \in Threads |-> "none"]
  /\ guards = 0
  /\ started = [e \in Events |-> TRUE]
  /\ pending = 0
  /\ busy = {}
  /\ submitting = {}
  /\ pc = "idle"
  /\ entry = [blocking |-> TRUE, all |-> TRUE]
  /\ item = "loop"
  /\ batch = 0
  /\ done = FALSE
  /\ handlers = 0
  /\ sq = [e \in Events |-> 0]
  /\ polls = [e \in Events |-> 1]
  /\ inflight = {}
  /\ cq = <<>>
  /\ failures = 0

-----------------------------------------------------------------------------
(***************************************************************************)
(* Executor calls, by any thread.  Main makes them between runs and from   *)
(* handlers; it continues its own work only when the call has returned.    *)
(***************************************************************************)

MainReady == call[Main] = "none" /\ submitting = {}

CanCall(t) == IF t = Main THEN MainReady /\ pc \in {"idle", "handler"}
                          ELSE call[t] = "none"

(* Faulty: tests the count that is left without counting the unit taken.   *)
FinishWorkTestsBefore(t) ==
  /\ work' = work - 1
  /\ call' = [call EXCEPT ![t] = IF work = 0 THEN "zero" ELSE "none"]

(* fetch_sub(1) in on_work_finished, and what it leaves to do: the write   *)
(* to zero_ if the unit it took away was the last.                         *)
FinishWork(t) ==
  /\ work' = work - 1
  /\ call' = [call EXCEPT ![t] = IF work = 1 THEN "zero" ELSE "none"]

WorkStarted(t) ==
  /\ CanCall(t)
  /\ work < MaxWork
  /\ work' = work + 1
  /\ guards' = guards + 1
  /\ UNCHANGED <<stopped, efd, linked, call, owned, pc, locals, ring>>

WorkFinished(t) ==
  /\ CanCall(t)
  /\ guards > 0
  /\ guards' = guards - 1
  /\ FinishWork(t)
  /\ UNCHANGED <<stopped, efd, linked, owned, pc, locals, ring>>

SignalZero(t) ==
  /\ call[t] = "zero"
  /\ efd' = [efd EXCEPT !["zero"] = 1]
  /\ call' = [call EXCEPT ![t] = "none"]
  /\ UNCHANGED <<work, stopped, linked, guards, owned, pc, locals, ring>>

(* post (also defer, and dispatch outside the running thread; inside it    *)
(* dispatch invokes the function at once and leaves the context alone).    *)
Post(t) ==
  /\ CanCall(t)
  /\ work < MaxWork
  /\ work' = work + 1
  /\ call' = [call EXCEPT ![t] = "link"]
  /\ UNCHANGED <<stopped, efd, linked, guards, owned, pc, locals, ring>>

(* Faulty: no handler for the exception of emplace. *)
PostFailsKeepsWork(t) ==
  /\ call[t] = "link"
  /\ call' = [call EXCEPT ![t] = "none"]
  /\ UNCHANGED <<work, stopped, efd, linked, guards, owned, pc, locals, ring>>

(* emplace throws before the node is linked (no memory for it, or the      *)
(* function's move does): post swallows the exception and drops the        *)
(* function.                                                               *)
PostFails(t) ==
  /\ call[t] = "link"
  /\ FinishWork(t)
  /\ UNCHANGED <<stopped, efd, linked, guards, owned, pc, locals, ring>>

Link(t) ==
  /\ call[t] = "link"
  /\ linked' = linked + 1
  /\ call' = [call EXCEPT ![t] = "signal"]
  /\ UNCHANGED <<work, stopped, efd, guards, owned, pc, locals, ring>>

(* Faulty: one announcement for all the functions queued. *)
SignalQueueOnce(t) ==
  /\ call[t] = "signal"
  /\ efd' = [efd EXCEPT !["queue"] = 1]
  /\ call' = [call EXCEPT ![t] = "none"]
  /\ UNCHANGED <<work, stopped, linked, guards, owned, pc, locals, ring>>

SignalQueue(t) ==
  /\ call[t] = "signal"
  /\ efd' = [efd EXCEPT !["queue"] = @ + 1]
  /\ call' = [call EXCEPT ![t] = "none"]
  /\ UNCHANGED <<work, stopped, linked, guards, owned, pc, locals, ring>>

Stop(t) ==
  /\ CanCall(t)
  /\ stopped' = TRUE
  /\ call' = [call EXCEPT ![t] = "stop"]
  /\ UNCHANGED <<work, efd, linked, guards, owned, pc, locals, ring>>

(* Faulty: only the flag, no wakeup. *)
SignalStopNot(t) ==
  /\ call[t] = "stop"
  /\ call' = [call EXCEPT ![t] = "none"]
  /\ UNCHANGED <<work, stopped, efd, linked, guards, owned, pc, locals, ring>>

SignalStop(t) ==
  /\ call[t] = "stop"
  /\ efd' = [efd EXCEPT !["stop"] = 1]
  /\ call' = [call EXCEPT ![t] = "none"]
  /\ UNCHANGED <<work, stopped, linked, guards, owned, pc, locals, ring>>

-----------------------------------------------------------------------------
(***************************************************************************)
(* User operations, which Main starts between runs and from handlers.      *)
(***************************************************************************)

(* service::initiate up to the submission: a completion of the pool is put *)
(* in use and takes its unit of work.                                      *)
Initiate(o) ==
  /\ CanCall(Main)
  /\ o \in Ops \ busy
  /\ work < MaxWork
  /\ busy' = busy \cup {o}
  /\ submitting' = {o}
  /\ work' = work + 1
  /\ UNCHANGED <<stopped, efd, linked, call, guards, started, pending, pc,
                 locals, ring>>

(* Every SQE prepared so far reaches the kernel with a submission. *)
Submit ==
  /\ submitting # {}
  /\ submitting' = {}
  /\ inflight' = inflight \cup submitting
  /\ polls' = [e \in Events |-> polls[e] + sq[e]]
  /\ sq' = [e \in Events |-> 0]
  /\ UNCHANGED <<shared, started, pending, busy, pc, locals, cq, failures>>

(* get_sqe() throws: the guard in initiate releases the completion. *)
InitiateFails ==
  /\ submitting # {}
  /\ submitting' = {}
  /\ busy' = busy \ submitting
  /\ FinishWork(Main)
  /\ UNCHANGED <<stopped, efd, linked, guards, started, pending, pc, locals, ring>>

-----------------------------------------------------------------------------
(***************************************************************************)
(* Arming a poll, the member function restart(i, b), and restart().        *)
(***************************************************************************)

Arm(e) ==
  /\ polls' = [x \in Events |-> polls[x] + sq[x] + (IF x = e THEN 1 ELSE 0)]
  /\ sq' = [x \in Events |-> 0]
  /\ started' = [started EXCEPT ![e] = TRUE]
  /\ UNCHANGED failures

(* It throws, leaving the flag false: io_uring_get_sqe returns null, or    *)
(* io_uring_submit fails once the SQE is prepared, which stays in the ring.*)
ArmFails(e) ==
  /\ \/ UNCHANGED <<sq, failures>>
     \/ /\ failures < MaxSubmitFailures
        /\ failures' = failures + 1
        /\ sq' = [sq EXCEPT ![e] = @ + 1]
  /\ UNCHANGED <<polls, started>>

AllStarted == \A e \in Events : started[e]

(* Faulty: restart where the code has restart_if. *)
FirstWhateverStarted == "queue"

(* restart() arms the missing polls in this order. *)
FirstMissing == CASE ~started["queue"] -> "queue"
                  [] started["queue"] /\ ~started["stop"] -> "stop"
                  [] OTHER -> "zero"

Restart ==
  /\ pc = "idle" /\ MainReady
  /\ pc' = "restart"
  /\ UNCHANGED <<shared, owned, locals, ring>>

RestartArms ==
  /\ pc = "restart"
  /\ ~AllStarted
  /\ \/ Arm(FirstMissing) /\ UNCHANGED pc
     \/ ArmFails(FirstMissing) /\ pc' = "idle"
  /\ UNCHANGED <<shared, pending, busy, submitting, locals, inflight, cq>>

RestartEnds ==
  /\ pc = "restart"
  /\ AllStarted
  /\ stopped' = FALSE
  /\ pc' = "idle"
  /\ UNCHANGED <<work, efd, linked, call, guards, owned, locals, ring>>

-----------------------------------------------------------------------------
(***************************************************************************)
(* run, run_one, poll, poll_one: all_impl and one_impl.                    *)
(***************************************************************************)

LocalsDie ==
  /\ entry' = [blocking |-> TRUE, all |-> TRUE]
  /\ item' = "loop"
  /\ batch' = 0
  /\ done' = FALSE
  /\ handlers' = 0

(* Every normal return stores true to stopped_; an exception does not. *)
Return == pc' = "idle" /\ LocalsDie /\ stopped' = TRUE
Throw  == pc' = "idle" /\ LocalsDie /\ UNCHANGED stopped

Goto(label) == pc' = label /\ UNCHANGED <<locals, stopped>>

(* Faulty: i <= n in the loop of consume. *)
ServiceQueueOneMore(n) ==
  /\ pc' = "drain"
  /\ item' = "loop"
  /\ batch' = n + 1
  /\ done' = FALSE
  /\ UNCHANGED <<entry, handlers, stopped>>

(* service_queue(n) from the head of all_impl's loop or from one_impl. *)
ServiceQueue(n) ==
  /\ pc' = "drain"
  /\ item' = "loop"
  /\ batch' = n
  /\ done' = FALSE
  /\ UNCHANGED <<entry, handlers, stopped>>

(* What a call does when a cqe has been handled and wants no return. *)
NextIteration == IF entry.all THEN ServiceQueue(pending) ELSE Return

CountHandler == handlers' = IF handlers = 2 THEN 2 ELSE handlers + 1

(* The call, up to the load of stopped_. *)
Enter(m) ==
  /\ pc = "idle" /\ MainReady
  /\ IF stopped \/ ~AllStarted
     THEN Return
     ELSE /\ pc' = "checkWork"
          /\ entry' = m
          /\ UNCHANGED <<item, batch, done, handlers, stopped>>
  /\ UNCHANGED <<work, efd, linked, call, guards, owned, ring>>

(* The load of work_, and what comes before the first wait. *)
CheckWork ==
  /\ pc = "checkWork"
  /\ \/ work = 0 /\ Return
     \/ work > 0 /\ entry.all /\ ServiceQueue(pending)
     \/ work > 0 /\ ~entry.all /\ pending > 0 /\ ServiceQueue(1)
     \/ work > 0 /\ ~entry.all /\ pending = 0 /\ Goto("wait")
  /\ UNCHANGED <<work, efd, linked, call, guards, owned, ring>>

(* One iteration of consume: pop_node, and --pending_ in the callback. *)
Pop ==
  /\ pc = "drain"
  /\ batch > 0
  /\ linked > 0
  /\ linked' = linked - 1
  /\ pending' = pending - 1
  /\ batch' = batch - 1
  /\ pc' = "popped"
  /\ UNCHANGED <<work, stopped, efd, call, guards, started, busy, submitting,
                 entry, item, done, handlers, ring>>

(* Faulty: off by one in the test for the last unit of work. *)
FinishBeforeRunEarly ==
  /\ pc = "popped"
  /\ work' = work - 1
  /\ done' = (done \/ work <= 2)
  /\ pc' = "handler"
  /\ CountHandler
  /\ UNCHANGED <<stopped, efd, linked, call, guards, owned, entry, item, batch,
                 ring>>

(* The callback gives the function's unit of work back before it runs it.  *)
FinishBeforeRun ==
  /\ pc = "popped"
  /\ work' = work - 1
  /\ done' = (done \/ work = 1)
  /\ pc' = "handler"
  /\ CountHandler
  /\ UNCHANGED <<stopped, efd, linked, call, guards, owned, entry, item, batch,
                 ring>>

(* Faulty: all_impl without its restart_if. *)
DrainedNoRearm ==
  /\ pc = "drain"
  /\ batch = 0
  /\ IF done \/ ~entry.all THEN Return ELSE Goto("wait")
  /\ UNCHANGED <<work, efd, linked, call, guards, owned, ring>>

(* The end of service_queue, at the loop head, in one_impl, or for the cqe *)
(* of "queue", whose poll all_impl arms again.                             *)
Drained ==
  /\ pc = "drain"
  /\ batch = 0
  /\ IF done \/ ~entry.all THEN Return
     ELSE Goto(IF item = "loop" THEN "wait" ELSE "rearm")
  /\ UNCHANGED <<work, efd, linked, call, guards, owned, ring>>

-----------------------------------------------------------------------------
(***************************************************************************)
(* The end of a handler; what it does before is the calls above, by Main.  *)
(***************************************************************************)

HandlerReturns ==
  /\ pc = "handler" /\ MainReady
  /\ pc' = IF item \in Ops THEN "release" ELSE "drain"
  /\ UNCHANGED <<shared, owned, locals, ring>>

(* An exception from a queued function unwinds to the caller of run, one   *)
(* from a completion passes by release_guard first.                        *)
HandlerThrows ==
  /\ pc = "handler" /\ MainReady
  /\ IF item \in Ops THEN Goto("unwind") ELSE Throw
  /\ UNCHANGED <<work, efd, linked, call, guards, owned, ring>>

(* release_guard: the completion goes back to the pool and its work is     *)
(* finished; on_work_finished may have zero_ left to write.                *)
Release ==
  /\ pc \in {"release", "unwind"}
  /\ item \in busy
  /\ busy' = busy \ {item}
  /\ FinishWork(Main)
  /\ UNCHANGED <<stopped, efd, linked, guards, started, pending, submitting, pc,
                 locals, ring>>

(* The poll of the queue, which all_impl arms if it is missing, is not     *)
(* after the cqe of an operation.                                          *)
Released ==
  /\ pc \in {"release", "unwind"} /\ MainReady
  /\ item \notin busy
  /\ IF pc = "unwind" THEN Throw ELSE NextIteration
  /\ UNCHANGED <<work, efd, linked, call, guards, owned, ring>>

-----------------------------------------------------------------------------
(***************************************************************************)
(* impl and handle_cqe.                                                    *)
(***************************************************************************)

TakeCqe ==
  /\ pc = "wait"
  /\ cq # <<>>
  /\ cq' = Tail(cq)
  /\ item' = Head(cq)
  /\ IF Head(cq) \in Ops
     THEN pc' = "handler" /\ CountHandler
     ELSE pc' = "event" /\ UNCHANGED handlers
  /\ UNCHANGED <<shared, owned, entry, batch, done, sq, polls, inflight, failures>>

(* io_uring_peek_cqe finds nothing. *)
NothingReady ==
  /\ pc = "wait"
  /\ ~entry.blocking
  /\ cq = <<>>
  /\ Return
  /\ UNCHANGED <<work, efd, linked, call, guards, owned, ring>>

(* io_uring_wait_cqe or io_uring_peek_cqe fails (a signal interrupts it). *)
WaitFails ==
  /\ pc = "wait"
  /\ Throw
  /\ UNCHANGED <<work, efd, linked, call, guards, owned, ring>>

(* The poll of an event has fired: clear its flag, then read the eventfd,  *)
(* which blocks while its counter is zero.                                 *)
ReadEvent(e) ==
  /\ pc = "event" /\ item = e
  /\ efd[e] > 0
  /\ efd' = [efd EXCEPT ![e] = 0]
  /\ started' = [started EXCEPT ![e] = FALSE]
  /\ UNCHANGED <<work, stopped, linked, call, guards, busy, submitting, entry,
                 item, handlers, ring>>

HandleQueue ==
  /\ ReadEvent("queue")
  /\ pending' = pending + efd["queue"]
  /\ batch' = 1
  /\ done' = FALSE
  /\ pc' = "drain"

HandleStop == ReadEvent("stop") /\ pc' = "stopRead"
                                /\ UNCHANGED <<pending, batch, done>>

HandleZero == ReadEvent("zero") /\ pc' = "zeroRead"
                                /\ UNCHANGED <<pending, batch, done>>

(* Faulty: takes every stop event for a stale one. *)
DecideStopStale ==
  /\ pc = "stopRead"
  /\ Goto("rearm")
  /\ UNCHANGED <<work, efd, linked, call, guards, owned, ring>>

(* The load after the read: return, or the event is stale and its poll     *)
(* goes back in.                                                           *)
DecideStop ==
  /\ pc = "stopRead"
  /\ IF stopped THEN Return ELSE Goto("rearm")
  /\ UNCHANGED <<work, efd, linked, call, guards, owned, ring>>

DecideZero ==
  /\ pc = "zeroRead"
  /\ IF work = 0 THEN Return ELSE Goto("rearm")
  /\ UNCHANGED <<work, efd, linked, call, guards, owned, ring>>

(* Faulty: restart where all_impl has restart_if. *)
RearmQueueAlways ==
  /\ pc = "rearm"
  /\ polls' = [e \in Events |-> polls[e] + sq[e] + Cardinality({e} \cap {item, "queue"})]
  /\ sq' = [e \in Events |-> 0]
  /\ started' = [started EXCEPT ![item] = TRUE]
  /\ NextIteration
  /\ UNCHANGED <<work, efd, linked, call, guards, pending, busy, submitting,
                 inflight, cq, failures>>

(* restart(i, b) for a stale event, or in all_impl for "queue".            *)
Rearm ==
  /\ pc = "rearm"
  /\ \/ Arm(item) /\ NextIteration
     \/ ArmFails(item) /\ Throw
  /\ UNCHANGED <<work, efd, linked, call, guards, pending, busy, submitting,
                 inflight, cq>>

-----------------------------------------------------------------------------
(***************************************************************************)
(* The kernel.                                                             *)
(***************************************************************************)

(* A one-shot POLLIN poll fires once its eventfd is readable. *)
PollFires(e) ==
  /\ polls[e] > 0
  /\ efd[e] > 0
  /\ polls' = [polls EXCEPT ![e] = @ - 1]
  /\ cq' = Append(cq, e)
  /\ UNCHANGED <<shared, owned, pc, locals, sq, inflight, failures>>

OpCompletes(o) ==
  /\ o \in inflight
  /\ inflight' = inflight \ {o}
  /\ cq' = Append(cq, o)
  /\ UNCHANGED <<shared, owned, pc, locals, sq, polls, failures>>

-----------------------------------------------------------------------------
(* What a thread does to finish the executor call it is in. *)
FinishCall(t) == \/ SignalZero(t)
                 \/ PostFails(t)
                 \/ Link(t)
                 \/ SignalQueue(t)
                 \/ SignalStop(t)

StartCall(t) == \/ WorkStarted(t)
                \/ WorkFinished(t)
                \/ Post(t)
                \/ Stop(t)

(* What the running thread does by itself once it is in a call. *)
RunStep == \/ RestartArms
           \/ RestartEnds
           \/ CheckWork
           \/ Pop
           \/ FinishBeforeRun
           \/ Drained
           \/ Release
           \/ Released
           \/ TakeCqe
           \/ NothingReady
           \/ HandleQueue
           \/ HandleStop
           \/ HandleZero
           \/ DecideStop
           \/ DecideZero
           \/ Rearm

HandlerEnds == HandlerReturns \/ HandlerThrows

Next == \/ \E t \in Threads : StartCall(t) \/ FinishCall(t)
        \/ \E o \in Ops : Initiate(o)
        \/ Submit
        \/ InitiateFails
        \/ Restart
        \/ \E m \in EntryPoints : Enter(m)
        \/ RunStep
        \/ WaitFails
        \/ HandlerEnds
        \/ \E e \in Events : PollFires(e)
        \/ \E o \in Ops : OpCompletes(o)

Spec == Init /\ [][Next]_vars

(* The scheduler runs every thread that can run, the kernel completes a    *)
(* poll whose file is readable, and a handler ends: it may make executor   *)
(* calls, during which its end is disabled, so its fairness is strong.     *)
(* Nobody has to call run, restart, stop or post, a user operation may     *)
(* stay in the kernel forever, and no signal has to interrupt a wait.      *)
Fairness ==
  /\ WF_vars(RunStep)
  /\ WF_vars(Submit \/ InitiateFails)
  /\ \A t \in Threads : WF_vars(FinishCall(t))
  /\ \A e \in Events : WF_vars(PollFires(e))
  /\ SF_vars(HandlerEnds)

FairSpec == Spec /\ Fairness

-----------------------------------------------------------------------------
(***************************************************************************)
(* Properties.                                                             *)
(***************************************************************************)

InState(c) == {t \in Threads : call[t] = c}

(* Every function linked in the queue has been announced exactly once: by  *)
(* its producer, which has yet to write the eventfd, by the eventfd's      *)
(* counter, or by pending_.  This is the precondition of consume           *)
(* (eventfd_queue.hpp:211-222): pop_node never meets an empty list, and no *)
(* posted function is left behind with nothing to announce it.             *)
QueueAccounting ==
  linked = pending + efd["queue"] + Cardinality(InState("signal"))

(* The context is a consumer that CountedQueue, hence EventfdQueue, can    *)
(* serve: it collects what was announced (impl's cqe of "queue"), and      *)
(* takes no more functions than that, in any call, however a call ended    *)
(* that was left with some of them pending.                                *)
Queue == INSTANCE CountedQueue WITH
  Values      <- {"function"},
  items       <- [i \in 1..linked |-> "function"],
  unannounced <- Cardinality(InState("signal")),
  announced   <- efd["queue"],
  granted     <- pending,
  taken       <- "function"

UsesCountedQueue == Queue!Spec

(* The count of outstanding work is exactly the functions posted and not   *)
(* yet started, the work guards, and the operations in use: so the         *)
(* assertions of on_work_finished and of service_queue that the counter    *)
(* they decrement is not zero hold, however producers, guards, failing     *)
(* posts and completions interleave.                                       *)
WorkAccounting ==
  work = linked + guards + Cardinality(InState("link")) + Cardinality(busy)
         + (IF pc = "popped" THEN 1 ELSE 0)

(* Each consume loop asks for no more functions than are announced, and    *)
(* the function popped last had its own unit of work: the assertions       *)
(* max <= pending_ and work in service_queue.                              *)
DrainWithinPending ==
  pc = "drain" => batch <= pending /\ (item = "loop" /\ entry.all => batch = pending)

(* An event whose flag is set has one poll out: armed in the kernel, in    *)
(* the completion queue, or being handled, and only one; an event whose    *)
(* flag is clear has none.  So a wakeup is neither lost nor seen twice.    *)
(* (The failed submission of a poll breaks this.)                          *)
Handling(e) == pc = "event" /\ item = e

OnePoll ==
  failures = 0 =>
    \A e \in Events :
      LET queued == {i \in 1..Len(cq) : cq[i] = e}
      IN  polls[e] + Cardinality(queued) + (IF Handling(e) THEN 1 ELSE 0)
            = (IF started[e] THEN 1 ELSE 0)

(* Reading the eventfd of an event that is reported ready does not block   *)
(* the running thread, whatever the other threads and stale events did     *)
(* since its poll fired.                                                   *)
ReadsDontBlock ==
  failures = 0 => \A e \in Events : (Handling(e) \/ e \in Range(cq)) => efd[e] > 0

(* Inside a call after its test of stopped_, and after its test of work_.  *)
Running == pc \notin {"idle", "restart"}
Looping == Running /\ pc # "checkWork"

(* A stop() that lands while the context runs is never forgotten: until    *)
(* the call returns either a thread is about to write the stop eventfd, or *)
(* it is readable, or the running thread has just read it and will see     *)
(* stopped_.  Holds against stale events, restarts of the poll, and        *)
(* several stops at once.                                                  *)
NoLostStop ==
  Running /\ stopped =>
    InState("stop") # {} \/ efd["stop"] > 0 \/ pc = "stopRead"

(* The count of work cannot reach zero while the context runs without the  *)
(* running thread getting to know: it took the last unit away itself, or a *)
(* thread is about to write zero_, or zero_ is readable, or it has just    *)
(* been read and work_ is about to be loaded.                              *)
NoLostZero ==
  Looping /\ work = 0 =>
    \/ InState("zero") # {}
    \/ efd["zero"] > 0
    \/ pc = "zeroRead"
    \/ done /\ pc \in {"handler", "drain"}

(* While the running thread waits every event is watched, so whatever      *)
(* NoLostStop, NoLostZero and QueueAccounting announce wakes it.           *)
WaitsWatched == pc = "wait" => AllStarted

(* When service_queue finds the last unit of work gone no function is      *)
(* announced and left: the assertion !pending_ of all_impl.                *)
DoneMeansDrained == done /\ pc \in {"handler", "drain"} => pending = 0 /\ batch = 0

(* The assertions of the loops on pending_ and work_.                       *)
Assertions == DrainWithinPending /\ DoneMeansDrained

-----------------------------------------------------------------------------
(* A call that finds the context stopped, or is running when stop() is     *)
(* called, returns (execution_context.hpp:238-241).                        *)
StopReturns == (Running /\ stopped) ~> (pc = "idle")

(* A call whose work runs out returns, unless work is added first.         *)
ZeroReturns == (Running /\ work = 0) ~> (pc = "idle" \/ work > 0)

(* A function posted is popped, as long as the call goes on.               *)
PostedRuns == (Running /\ linked > 0) ~> (pc \in {"popped", "idle"})
=============================================================================
