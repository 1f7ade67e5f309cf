----------------------------- MODULE FileObject -----------------------------
(***************************************************************************)
(* The I/O objects of the Boost.Asio layer and the handlers of their       *)
(* operations: basic_io_object, file_object, the wrappers                  *)
(* fd_completion_token, fd_completion_handler and completion_handler, and  *)
(* the way of a handler from an initiating function through the service    *)
(* and the context's thread to the executor it is associated with.         *)
(*                                                                         *)
(* An object shares its descriptor with each operation it has initiated    *)
(* (wrap_token), so that it may be moved from, reset or destroyed          *)
(* meanwhile.  Calls on the system use the bare number, which the kernel   *)
(* gives to the next file once the descriptor is closed.                   *)
(*                                                                         *)
(* There are two threads: the one that runs the execution_context, and     *)
(* uses the objects, and one of another executor.  How the service         *)
(* completes an operation is the business of module Service; what an       *)
(* operation does with its file that of FileOperations and Connections.    *)
(***************************************************************************)
EXTENDS Naturals, FiniteSets

CONSTANTS
  Files,      \* instances of fd that are shared
  Numbers,    \* descriptors, as the kernel numbers them
  Objects,    \* I/O objects
  Accepters,  \* those that are the impl of an accept_file
  Ops,        \* operations
  Null        \* no file, number, object or executor

Context   == "context"
Other     == "other"
Executors == {Context, Other}

ASSUME OpsAssumption == IsFiniteSet(Ops)
ASSUME ObjectsAssumption == Accepters \subseteq Objects
ASSUME NullAssumption ==
  Null \notin Files \cup Numbers \cup Objects \cup Ops \cup Executors

VARIABLES
  opened,  \* files that were ever opened
  handle,  \* handle[f]: handle_, Null before it is opened and when closed
  owned,   \* owned[o]: the program has object o
  fd,      \* fd[o]: fd_ of object o
  phase,   \* phase[op]
  obj,     \* obj[op]: the object that initiated op (self, of an accept)
  file,    \* file[op]: fd_ of its fd_completion_handler
  raw,     \* raw[op]: the number that its calls use
  assoc,   \* assoc[op]: the executor associated with the caller's handler
  home,    \* home[op]: the executor that the layers of wrappers arrive at
  work,    \* work[e]: outstanding work of executor e
  frame,   \* frame[e]: the operation whose handler e's thread is inside of
  down     \* the context was shut down

objects == <<opened, owned, fd>>
bound == <<obj, file, raw, assoc, home>>
vars == <<objects, handle, phase, bound, work, frame, down>>

(* pending: with the kernel; completed: cqe waiting; queued: bound to its  *)
(* results and posted to home; running: called, the caller's handler not   *)
(* yet; initiating: an accept that goes round again; calling: the caller's *)
(* handler runs.                                                           *)
Waiting == {"pending", "completed", "queued"}
Called  == {"running", "initiating", "calling"}
Phases  == {"idle", "done", "dropped"} \cup Waiting \cup Called

TypeOK ==
  /\ opened \in SUBSET Files
  /\ handle \in [Files -> Numbers \cup {Null}]
  /\ owned \in [Objects -> BOOLEAN]
  /\ fd \in [Objects -> Files \cup {Null}]
  /\ phase \in [Ops -> Phases]
  /\ obj \in [Ops -> Objects \cup {Null}]
  /\ file \in [Ops -> Files \cup {Null}]
  /\ raw \in [Ops -> Numbers \cup {Null}]
  /\ assoc \in [Ops -> {Null, Other}]
  /\ home \in [Ops -> Executors \cup {Null}]
  /\ work \in [Executors -> Nat]
  /\ frame \in [Executors -> Ops \cup {Null}]
  /\ down \in BOOLEAN

Init ==
  /\ opened = {}
  /\ handle = [f \in Files |-> Null]
  /\ owned = [o \in Objects |-> FALSE]
  /\ fd = [o \in Objects |-> Null]
  /\ phase = [op \in Ops |-> "idle"]
  /\ obj = [op \in Ops |-> Null]
  /\ file = [op \in Ops |-> Null]
  /\ raw = [op \in Ops |-> Null]
  /\ assoc = [op \in Ops |-> Null]
  /\ home = [op \in Ops |-> Null]
  /\ work = [e \in Executors |-> 0]
  /\ frame = [e \in Executors |-> Null]
  /\ down = FALSE

-----------------------------------------------------------------------------
(***************************************************************************)
(* Who holds what.                                                         *)
(***************************************************************************)

(* The share in the fd_completion_handler of op, which waits to be called. *)
Wrapped(op) == file[op] # Null /\ phase[op] \in Waiting

(* Faulty: fd_completion_handler gives its share up before the call. *)
InCallNone(op) == FALSE /\ frame[home[op]] = op

(* The share that operator() has swapped into its local, until the handler *)
(* has returned or thrown.                                                 *)
InCall(op) ==
  /\ file[op] # Null
  /\ home[op] \in Executors
  /\ frame[home[op]] = op

Holds(op) == Wrapped(op) \/ InCall(op)

(* An accept_file keeps its impl in a shared_ptr, and each accept has      *)
(* another one to it (self); any other object dies when it is destroyed.   *)
Alive(o) ==
  \/ owned[o]
  \/ o \in Accepters /\ \E op \in Ops : obj[op] = o /\ Holds(op)

Holders(f) == {o \in Objects : fd[o] = f} \cup {op \in Ops : file[op] = f /\ Holds(op)}

(* The last steps of an action that lets go of handlers or objects: an     *)
(* object that died lets go of its descriptor, and maybe_close closes the  *)
(* descriptors nobody has any more.                                        *)
ReleaseObjects == fd' = [o \in Objects |-> IF Alive(o)' THEN fd[o] ELSE Null]
MaybeClose ==
  handle' = [f \in Files |-> IF Holders(f)' = {} THEN Null ELSE handle[f]]

(* use_count() of the shared descriptor, and outstanding().                *)
UseCount(f) ==
  Cardinality({o \in Objects : fd[o] = f})
    + Cardinality({op \in Ops : file[op] = f /\ Wrapped(op)})
    + Cardinality({op \in Ops : file[op] = f /\ InCall(op)})
Outstanding(o) == UseCount(fd[o]) - 1

(* The program may use its objects between two handlers of the context, or *)
(* in one of them.                                                         *)
Free ==
  /\ ~down
  /\ frame[Context] # Null =>
       phase[frame[Context]] = "calling" /\ home[frame[Context]] = Context

-----------------------------------------------------------------------------
(***************************************************************************)
(* Objects.                                                                *)
(***************************************************************************)

(* A descriptor that the kernel has just given to the program: it has a    *)
(* number that nobody uses.                                                *)
Descriptor(f, n) == f \notin opened /\ \A g \in Files : handle[g] # n

Construct(o, f, n) ==
  /\ Free /\ ~Alive(o) /\ Descriptor(f, n)
  /\ opened' = opened \cup {f}
  /\ handle' = [handle EXCEPT ![f] = n]
  /\ owned' = [owned EXCEPT ![o] = TRUE]
  /\ fd' = [fd EXCEPT ![o] = f]
  /\ UNCHANGED <<phase, bound, work, frame, down>>

(* poll_file fails to set O_NONBLOCK: the base dies, and closes the file.  *)
ConstructThrows(o, f, n) ==
  /\ Free /\ ~Alive(o) /\ Descriptor(f, n)
  /\ opened' = opened \cup {f}
  /\ UNCHANGED <<handle, owned, fd, phase, bound, work, frame, down>>

(* Faulty: copies the share. *)
MoveCopies(o, p) ==
  /\ Free /\ owned[o] /\ o # p /\ {o, p} \cap Accepters = {}
  /\ owned' = [owned EXCEPT ![p] = TRUE]
  /\ fd' = [fd EXCEPT ![p] = fd[o]]
  /\ UNCHANGED <<opened, phase, bound, work, frame, down>>
  /\ MaybeClose

(* Moves o to p, which is constructed so or assigned to.                   *)
Move(o, p) ==
  /\ Free /\ owned[o] /\ o # p /\ {o, p} \cap Accepters = {}
  /\ owned' = [owned EXCEPT ![p] = TRUE]
  /\ fd' = [fd EXCEPT ![p] = fd[o], ![o] = Null]
  /\ UNCHANGED <<opened, phase, bound, work, frame, down>>
  /\ MaybeClose

(* reset() is for derived classes; that of accept_file does not use it.    *)
Reset(o) ==
  /\ Free /\ owned[o] /\ fd[o] # Null /\ o \notin Accepters
  /\ fd' = [fd EXCEPT ![o] = Null]
  /\ UNCHANGED <<opened, owned, phase, bound, work, frame, down>>
  /\ MaybeClose

Destroy(o) ==
  /\ Free /\ owned[o]
  /\ owned' = [owned EXCEPT ![o] = FALSE]
  /\ UNCHANGED <<opened, phase, bound, work, frame, down>>
  /\ ReleaseObjects /\ MaybeClose

-----------------------------------------------------------------------------
(***************************************************************************)
(* Initiating functions.  A handler is wrapped in layers, each of which    *)
(* forwards the question for the associated executor to the next one.      *)
(***************************************************************************)

UserExecutor(a) == IF a = Null THEN Context ELSE a

(* Faulty: a poll_file_op has no association of its own. *)
PollOpExecutorMissing(a) == IF a = Null THEN UserExecutor(a) ELSE Context

PollOpExecutor(a) == UserExecutor(a)
FdHandlerExecutor(a) == PollOpExecutor(a)
TokenHandlerExecutor(a) == FdHandlerExecutor(a)

(* The descriptor of an object that was neither moved from nor reset.      *)
NativeHandle(o) == handle[fd[o]]
Usable(o) == owned[o] /\ fd[o] # Null

(* wrap_token and the capture of the number: op becomes one of object o    *)
(* with a handler that is associated with a.                               *)
Bind(op, o, a) ==
  /\ obj' = [obj EXCEPT ![op] = o]
  /\ file' = [file EXCEPT ![op] = fd[o]]
  /\ raw' = [raw EXCEPT ![op] = NativeHandle(o)]
  /\ assoc' = [assoc EXCEPT ![op] = a]
  /\ home' = [home EXCEPT ![op] = TokenHandlerExecutor(a)]

(* completion_handler holds work of the executor that will call it.        *)
StartWork(e) == work' = [work EXCEPT ![e] = @ + 1]

(* Faulty: completion_handler holds work of the fallback executor. *)
InitiateHoldsContext(op, o, a) ==
  /\ Free /\ Usable(o) /\ phase[op] = "idle"
  /\ phase' = [phase EXCEPT ![op] = "pending"]
  /\ Bind(op, o, a)
  /\ StartWork(Context)
  /\ UNCHANGED <<objects, handle, frame, down>>

Initiate(op, o, a) ==
  /\ Free /\ Usable(o) /\ phase[op] = "idle"
  /\ phase' = [phase EXCEPT ![op] = "pending"]
  /\ Bind(op, o, a)
  /\ StartWork(TokenHandlerExecutor(a))
  /\ UNCHANGED <<objects, handle, frame, down>>

(* The service throws; the wrapped handler dies on the way out.            *)
InitiateThrows(op, o) ==
  /\ Free /\ Usable(o) /\ phase[op] = "idle"
  /\ phase' = [phase EXCEPT ![op] = "dropped"]
  /\ UNCHANGED <<objects, handle, bound, work, frame, down>>

(* poll_file::post, when there is nothing to wait for: the handler goes to *)
(* its executor as it is, with no share of the descriptor.                 *)
Post(op, o, a) ==
  /\ Free /\ Usable(o) /\ o \notin Accepters /\ phase[op] = "idle"
  /\ phase' = [phase EXCEPT ![op] = "queued"]
  /\ obj' = [obj EXCEPT ![op] = o]
  /\ assoc' = [assoc EXCEPT ![op] = a]
  /\ home' = [home EXCEPT ![op] = UserExecutor(a)]
  /\ StartWork(UserExecutor(a))
  /\ UNCHANGED <<objects, handle, file, raw, frame, down>>

-----------------------------------------------------------------------------
(***************************************************************************)
(* Completion.                                                             *)
(***************************************************************************)

KernelCompletes(op) ==
  /\ phase[op] = "pending" /\ ~down
  /\ phase' = [phase EXCEPT ![op] = "completed"]
  /\ UNCHANGED <<objects, handle, bound, work, frame, down>>

(* completion_handler::operator() on the context's thread.  dispatch calls *)
(* the handler at once if this thread is its executor's ...                *)
DispatchInline(op) ==
  /\ phase[op] = "completed" /\ frame[Context] = Null /\ ~down
  /\ home[op] = Context
  /\ phase' = [phase EXCEPT ![op] = "running"]
  /\ frame' = [frame EXCEPT ![Context] = op]
  /\ UNCHANGED <<objects, handle, bound, work, down>>

(* ... and posts it otherwise; the work guard g dies after that.           *)
DispatchPosts(op) ==
  /\ phase[op] = "completed" /\ frame[Context] = Null /\ ~down
  /\ home[op] # Context
  /\ phase' = [phase EXCEPT ![op] = "queued"]
  /\ StartWork(home[op])
  /\ frame' = [frame EXCEPT ![Context] = op]
  /\ UNCHANGED <<objects, handle, bound, down>>

(* There is no memory to post it: the handler dies without being called.   *)
DispatchThrows(op) ==
  /\ phase[op] = "completed" /\ frame[Context] = Null /\ ~down
  /\ home[op] # Context
  /\ phase' = [phase EXCEPT ![op] = "dropped"]
  /\ frame' = [frame EXCEPT ![Context] = op]
  /\ UNCHANGED <<opened, owned, bound, work, down>>
  /\ ReleaseObjects /\ MaybeClose

(* An executor takes a posted handler.  The context finishes its work      *)
(* before it runs it, the other one when it has run.                       *)
RunPosted(op) ==
  /\ phase[op] = "queued" /\ frame[home[op]] = Null /\ ~down
  /\ phase' = [phase EXCEPT ![op] = "running"]
  /\ frame' = [frame EXCEPT ![home[op]] = op]
  /\ work' = IF home[op] = Context THEN [work EXCEPT ![Context] = @ - 1] ELSE work
  /\ UNCHANGED <<objects, handle, bound, down>>

(* fd_completion_handler::operator() reaches the caller's handler, after   *)
(* the attempt of a poll_file_op if there is one.                          *)
InvokeHandler(op) ==
  /\ phase[op] = "running"
  /\ phase' = [phase EXCEPT ![op] = "calling"]
  /\ UNCHANGED <<objects, handle, bound, work, frame, down>>

(* An accept finds no connection: self->async_accept() with the handler    *)
(* moved into it ...                                                       *)
AcceptAgain(op) ==
  /\ phase[op] = "running" /\ obj[op] \in Accepters
  /\ phase' = [phase EXCEPT ![op] = "initiating"]
  /\ UNCHANGED <<objects, handle, bound, work, frame, down>>

(* ... shares the descriptor once more and holds more work ...             *)
AcceptInitiated(op) ==
  /\ phase[op] = "initiating"
  /\ phase' = [phase EXCEPT ![op] = "pending"]
  /\ file' = [file EXCEPT ![op] = fd[obj[op]]]
  /\ raw' = [raw EXCEPT ![op] = NativeHandle(obj[op])]
  /\ StartWork(home[op])
  /\ UNCHANGED <<objects, handle, obj, assoc, home, frame, down>>

(* ... or throws, and the handler dies without being called.               *)
AcceptThrows(op) ==
  /\ phase[op] = "initiating"
  /\ phase' = [phase EXCEPT ![op] = "dropped"]
  /\ UNCHANGED <<objects, handle, bound, work, frame, down>>

(* Whether the thread of e has left the handler it was called for.         *)
Left(e, op) == ~(home[op] = e /\ phase[op] \in {"running", "initiating"})

(* The unit of work that goes with a frame: g of completion_handler, or    *)
(* that of a function posted to the other executor.                        *)
HeldBy(e, op) == e = Other \/ file[op] # Null

(* Faulty: counts the end of a handler that was posted to the context      *)
(* once more. *)
FrameEndsTwice(e) ==
  LET op == frame[e] IN
  /\ op # Null /\ Left(e, op)
  /\ frame' = [frame EXCEPT ![e] = Null]
  /\ phase' = IF home[op] = e /\ phase[op] = "calling"
              THEN [phase EXCEPT ![op] = "done"] ELSE phase
  /\ work' = [work EXCEPT ![home[op]] = @ - 1]
  /\ UNCHANGED <<opened, owned, bound, down>>
  /\ ReleaseObjects /\ MaybeClose

(* A handler returns, or throws, and the wrappers around it die.           *)
FrameEnds(e) ==
  LET op == frame[e] IN
  /\ op # Null /\ Left(e, op)
  /\ frame' = [frame EXCEPT ![e] = Null]
  /\ phase' = IF home[op] = e /\ phase[op] = "calling"
              THEN [phase EXCEPT ![op] = "done"] ELSE phase
  /\ work' = IF HeldBy(e, op) THEN [work EXCEPT ![home[op]] = @ - 1] ELSE work
  /\ UNCHANGED <<opened, owned, bound, down>>
  /\ ReleaseObjects /\ MaybeClose

(* The context is destroyed, its service shut down and its queue with it;  *)
(* the other executor has nothing left of the context's operations.        *)
Shutdown ==
  LET lost == {op \in Ops : phase[op] \in Waiting} IN
  /\ ~down
  /\ \A e \in Executors : frame[e] = Null
  /\ \A op \in Ops : phase[op] = "queued" => home[op] = Context
  /\ phase' = [op \in Ops |-> IF op \in lost THEN "dropped" ELSE phase[op]]
  /\ work' = [work EXCEPT ![Context] = 0,
                          ![Other] = @ - Cardinality({op \in lost : home[op] = Other})]
  /\ down' = TRUE
  /\ UNCHANGED <<opened, owned, bound, frame>>
  /\ ReleaseObjects /\ MaybeClose

ObjectNext ==
  \E o \in Objects :
    \/ \E f \in Files, n \in Numbers : Construct(o, f, n) \/ ConstructThrows(o, f, n)
    \/ \E p \in Objects : Move(o, p)
    \/ Reset(o) \/ Destroy(o)
    \/ \E op \in Ops :
         \/ \E a \in {Null, Other} : Initiate(op, o, a) \/ Post(op, o, a)
         \/ InitiateThrows(op, o)

CompletionNext ==
  \E op \in Ops :
    \/ KernelCompletes(op)
    \/ DispatchInline(op) \/ DispatchPosts(op) \/ DispatchThrows(op)
    \/ RunPosted(op) \/ InvokeHandler(op)
    \/ AcceptAgain(op) \/ AcceptInitiated(op) \/ AcceptThrows(op)

Next ==
  \/ ObjectNext
  \/ CompletionNext
  \/ \E e \in Executors : FrameEnds(e)
  \/ Shutdown

Spec == Init /\ [][Next]_vars

-----------------------------------------------------------------------------
(***************************************************************************)
(* Properties.                                                             *)
(***************************************************************************)

(* However objects are moved, reset and destroyed: from the initiation of  *)
(* an operation to the return of its handler the number that its calls use *)
(* is its own file's, although the kernel gives closed numbers out again;  *)
(* and an accept that goes round again finds its object with its file.     *)
DescriptorValid ==
  \A op \in Ops : file[op] # Null /\ phase[op] \in Waiting \cup Called =>
    /\ raw[op] # Null /\ handle[file[op]] = raw[op]
    /\ obj[op] \in Accepters => fd[obj[op]] = file[op]

(* outstanding() is "the number of pending completion handlers"            *)
(* (file_object.hpp:132), those that are running included.                 *)
OutstandingCounts ==
  \A o \in Objects \ Accepters : owned[o] /\ fd[o] # Null =>
    Outstanding(o) =
      Cardinality({op \in Ops : file[op] = fd[o] /\ phase[op] \in Waiting \cup Called})

(* An executor does not run out of work while a handler waits to be called *)
(* by it: "Holds a boost::asio::executor_work_guard on the associated      *)
(* Executor" (completion_handler.hpp:23).                                  *)
ExecutorsHeld ==
  \A e \in Executors :
    Cardinality({op \in Ops : home[op] = e /\ phase[op] \in Waiting}) <= work[e]

(* The layers of handlers keep to what AsyncOperation promises.            *)
Promise(op) ==
  CASE phase[op] \in {"idle", "dropped"}              -> phase[op]
    [] phase[op] \in Waiting \cup {"running", "initiating"} -> "pending"
    [] phase[op] \in {"calling", "done"}              -> "called"

AsyncOp == INSTANCE AsyncOperation WITH
  phase <- [op \in Ops |-> Promise(op)],
  home  <- [op \in Ops |-> IF obj[op] = Null THEN Null ELSE UserExecutor(assoc[op])],
  ran   <- [op \in Ops |-> IF phase[op] \in {"calling", "done"} THEN home[op] ELSE Null]

ImplementsAsyncOperation == AsyncOp!Spec

(* "Only the execution context itself is not thread safe" (README.md:36):  *)
(* one thread at a time uses its service.  The context's thread does so    *)
(* when a handler has gone to another executor, to release the completion, *)
(* and any thread when an accept goes round again on it.                   *)
InService(e) ==
  LET op == frame[e] IN
  /\ op # Null /\ file[op] # Null
  /\ \/ home[op] = e /\ phase[op] = "initiating"
     \/ e = Context /\ home[op] # Context

OneThreadInService == ~(InService(Context) /\ InService(Other))
=============================================================================
