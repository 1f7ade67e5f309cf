--------------------------- MODULE FileObject_proofs ---------------------------
(***************************************************************************)
(* Proofs about FileObject, for any number of files, numbers, objects and  *)
(* operations.  The inductive invariant IInv says where an operation is    *)
(* and what it carries there (BoundInv), which files are open and with     *)
(* whom (FileInv), and what every unit of work belongs to (WorkInv).       *)
(***************************************************************************)
EXTENDS FileObject, FiniteSetTheorems, TLAPS

Unbound(op) ==
  /\ obj[op] = Null /\ file[op] = Null /\ raw[op] = Null
  /\ assoc[op] = Null /\ home[op] = Null
  /\ \A e \in Executors : frame[e] # op

(* Where an operation is, and what it carries there.                       *)
BoundInv ==
  /\ \A op \in Ops :
       /\ phase[op] = "idle" => obj[op] = Null
       /\ phase[op] \in Waiting \cup Called => obj[op] # Null
       /\ obj[op] # Null => home[op] = UserExecutor(assoc[op])
       /\ obj[op] = Null => Unbound(op)
       /\ phase[op] \in {"pending", "completed"} => file[op] # Null
       /\ phase[op] = "queued" /\ file[op] # Null => home[op] = Other
       /\ phase[op] \in Called => frame[home[op]] = op
       /\ phase[op] \in Waiting \cup Called /\ obj[op] \in Accepters => file[op] # Null
       /\ phase[op] = "initiating" => obj[op] \in Accepters
       /\ obj[op] \notin Accepters /\ obj[op] # Null /\ frame[home[op]] = op
            => phase[op] \in Called
  /\ frame[Other] # Null => home[frame[Other]] = Other

PlainTypes ==
  /\ opened \in SUBSET Files
  /\ handle \in [Files -> Numbers \cup {Null}]
  /\ owned \in [Objects -> BOOLEAN]
  /\ fd \in [Objects -> Files \cup {Null}]
  /\ phase \in [Ops -> Phases]
  /\ obj \in [Ops -> Objects \cup {Null}]
  /\ file \in [Ops -> Files \cup {Null}]
  /\ raw \in [Ops -> Numbers \cup {Null}]
  /\ assoc \in [Ops -> {Null, Other}]
  /\ home \in [Ops -> Executors \cup {Null}]
  /\ frame \in [Executors -> Ops \cup {Null}]
  /\ down \in BOOLEAN

(* Every unit of work belongs to a handler that waits, to the work guard   *)
(* of the context's frame, or to the frame of the other executor.          *)
Awaiting(e) == {op \in Ops : home[op] = e /\ phase[op] \in Waiting}
GuardUnits(e) ==
  IF frame[Context] # Null /\ file[frame[Context]] # Null /\ home[frame[Context]] = e
  THEN 1 ELSE 0
RunUnits(e) == IF e = Other /\ frame[Other] # Null THEN 1 ELSE 0
WorkInv ==
  /\ work \in [Executors -> Nat]
  /\ \A e \in Executors :
       work[e] = Cardinality(Awaiting(e)) + GuardUnits(e) + RunUnits(e)

(* A file is open while an object has it; objects do not share one, and no *)
(* object but an accept_file has the file of an accept.                    *)
FileInv ==
  /\ \A o \in Objects : fd[o] # Null => fd[o] \in opened /\ handle[fd[o]] # Null
  /\ \A o, p \in Objects : fd[o] = fd[p] /\ fd[o] # Null => o = p
  /\ \A op \in Ops : file[op] # Null => file[op] \in opened
  /\ \A o \in Objects, op \in Ops :
       o \notin Accepters /\ fd[o] # Null /\ file[op] = fd[o] => obj[op] \notin Accepters
  /\ DescriptorValid

-----------------------------------------------------------------------------
LEMMA ConstantsDiffer ==
  /\ Context # Other /\ Context \in Executors /\ Other \in Executors
  /\ Null # Context /\ Null # Other
  /\ Executors = {Context, Other}
BY NullAssumption DEF Executors, Context, Other

LEMMA UserExecutorType ==
  \A a \in {Null, Other} :
    UserExecutor(a) \in Executors /\ TokenHandlerExecutor(a) = UserExecutor(a)
BY ConstantsDiffer
DEF UserExecutor, TokenHandlerExecutor, FdHandlerExecutor, PollOpExecutor

LEMMA PlainTypesStep == PlainTypes /\ BoundInv /\ FileInv /\ [Next]_vars => PlainTypes'
<1> SUFFICES ASSUME PlainTypes, BoundInv, FileInv, [Next]_vars PROVE PlainTypes'
    OBVIOUS
<1> USE NullAssumption, ConstantsDiffer, UserExecutorType
    DEF PlainTypes, Phases, Waiting, Called
<1>1. ASSUME NEW o \in Objects, NEW f \in Files, NEW n \in Numbers,
             Construct(o, f, n)
      PROVE  PlainTypes'
  BY <1>1 DEF Construct, Descriptor, bound, objects
<1>2. ASSUME NEW o \in Objects, NEW f \in Files, NEW n \in Numbers,
             ConstructThrows(o, f, n)
      PROVE  PlainTypes'
  BY <1>2 DEF ConstructThrows, Descriptor, bound, objects
<1>3. ASSUME NEW o \in Objects, NEW p \in Objects,
             Move(o, p)
      PROVE  PlainTypes'
  BY <1>3 DEF Move, MaybeClose, bound, objects
<1>4. ASSUME NEW o \in Objects,
             Reset(o)
      PROVE  PlainTypes'
  BY <1>4 DEF Reset, MaybeClose, bound, objects
<1>5. ASSUME NEW o \in Objects,
             Destroy(o)
      PROVE  PlainTypes'
  BY <1>5 DEF Destroy, ReleaseObjects, MaybeClose, bound, objects
<1>6. ASSUME NEW op \in Ops, NEW o \in Objects, NEW a \in {Null, Other},
             Initiate(op, o, a)
      PROVE  PlainTypes'
  BY <1>6 DEF Initiate, Bind, StartWork, Usable, bound, objects,
      NativeHandle, FileInv
<1>7. ASSUME NEW op \in Ops, NEW o \in Objects, NEW a \in {Null, Other},
             Post(op, o, a)
      PROVE  PlainTypes'
  BY <1>7 DEF Post, StartWork, Usable, bound, objects
<1>8. ASSUME NEW op \in Ops, NEW o \in Objects,
             InitiateThrows(op, o)
      PROVE  PlainTypes'
  BY <1>8 DEF InitiateThrows, Usable, bound, objects
<1>9. ASSUME NEW op \in Ops,
             KernelCompletes(op)
      PROVE  PlainTypes'
  BY <1>9 DEF KernelCompletes, bound, objects
<1>10. ASSUME NEW op \in Ops,
             DispatchInline(op)
      PROVE  PlainTypes'
  BY <1>10 DEF DispatchInline, bound, objects
<1>11. ASSUME NEW op \in Ops,
             DispatchPosts(op)
      PROVE  PlainTypes'
  BY <1>11 DEF DispatchPosts, StartWork, bound, objects
<1>12. ASSUME NEW op \in Ops,
             DispatchThrows(op)
      PROVE  PlainTypes'
  BY <1>12 DEF DispatchThrows, ReleaseObjects, MaybeClose, bound, objects
<1>13. ASSUME NEW op \in Ops,
             RunPosted(op)
      PROVE  PlainTypes'
  BY <1>13 DEF RunPosted, bound, objects
<1>14. ASSUME NEW op \in Ops,
             InvokeHandler(op)
      PROVE  PlainTypes'
  BY <1>14 DEF InvokeHandler, bound, objects
<1>15. ASSUME NEW op \in Ops,
             AcceptAgain(op)
      PROVE  PlainTypes'
  BY <1>15 DEF AcceptAgain, bound, objects
<1>16. ASSUME NEW op \in Ops,
             AcceptInitiated(op)
      PROVE  PlainTypes'
  BY <1>16 DEF AcceptInitiated, StartWork, bound, objects, NativeHandle,
      BoundInv, FileInv, DescriptorValid
<1>17. ASSUME NEW op \in Ops,
             AcceptThrows(op)
      PROVE  PlainTypes'
  BY <1>17 DEF AcceptThrows, bound, objects
<1>18. ASSUME NEW e \in Executors,
             FrameEnds(e)
      PROVE  PlainTypes'
  BY <1>18 DEF FrameEnds, ReleaseObjects, MaybeClose, Left, bound, objects,
      Left
<1>19. CASE Shutdown
  BY <1>19 DEF Shutdown, ReleaseObjects, MaybeClose, bound, objects
<1>20. CASE UNCHANGED vars
  BY <1>20 DEF vars, objects, bound
<1> HIDE DEF PlainTypes, Phases, Waiting, Called
<1>21. QED
  <2>1. CASE ObjectNext
    BY <2>1, <1>1, <1>2, <1>3, <1>4, <1>5, <1>6, <1>7, <1>8 DEF ObjectNext
  <2>2. CASE CompletionNext
    BY <2>2, <1>9, <1>10, <1>11, <1>12, <1>13, <1>14, <1>15, <1>16, <1>17
    DEF CompletionNext
  <2>3. QED BY <2>1, <2>2, <1>18, <1>19, <1>20 DEF Next

LEMMA BoundStep == PlainTypes /\ BoundInv /\ FileInv /\ [Next]_vars => BoundInv'
<1> SUFFICES ASSUME PlainTypes, BoundInv, FileInv, [Next]_vars PROVE BoundInv'
    OBVIOUS
<1> USE NullAssumption, ObjectsAssumption, ConstantsDiffer, UserExecutorType
    DEF PlainTypes, BoundInv, Unbound, Phases, Waiting, Called
<1>1. ASSUME NEW o \in Objects, NEW f \in Files, NEW n \in Numbers,
             Construct(o, f, n)
      PROVE  BoundInv'
  BY <1>1 DEF Construct, Descriptor, bound, objects
<1>2. ASSUME NEW o \in Objects, NEW f \in Files, NEW n \in Numbers,
             ConstructThrows(o, f, n)
      PROVE  BoundInv'
  BY <1>2 DEF ConstructThrows, Descriptor, bound, objects
<1>3. ASSUME NEW o \in Objects, NEW p \in Objects,
             Move(o, p)
      PROVE  BoundInv'
  BY <1>3 DEF Move, MaybeClose, bound, objects
<1>4. ASSUME NEW o \in Objects,
             Reset(o)
      PROVE  BoundInv'
  BY <1>4 DEF Reset, MaybeClose, bound, objects
<1>5. ASSUME NEW o \in Objects,
             Destroy(o)
      PROVE  BoundInv'
  BY <1>5 DEF Destroy, ReleaseObjects, MaybeClose, bound, objects
<1>6. ASSUME NEW op \in Ops, NEW o \in Objects, NEW a \in {Null, Other},
             Initiate(op, o, a)
      PROVE  BoundInv'
  BY <1>6 DEF Initiate, Bind, StartWork, Usable, bound, objects,
      NativeHandle, FileInv
<1>7. ASSUME NEW op \in Ops, NEW o \in Objects, NEW a \in {Null, Other},
             Post(op, o, a)
      PROVE  BoundInv'
  BY <1>7 DEF Post, StartWork, Usable, bound, objects
<1>8. ASSUME NEW op \in Ops, NEW o \in Objects,
             InitiateThrows(op, o)
      PROVE  BoundInv'
  BY <1>8 DEF InitiateThrows, Usable, bound, objects
<1>9. ASSUME NEW op \in Ops,
             KernelCompletes(op)
      PROVE  BoundInv'
  BY <1>9 DEF KernelCompletes, bound, objects
<1>10. ASSUME NEW op \in Ops,
             DispatchInline(op)
      PROVE  BoundInv'
  BY <1>10 DEF DispatchInline, bound, objects
<1>11. ASSUME NEW op \in Ops,
             DispatchPosts(op)
      PROVE  BoundInv'
  BY <1>11 DEF DispatchPosts, StartWork, bound, objects
<1>12. ASSUME NEW op \in Ops,
             DispatchThrows(op)
      PROVE  BoundInv'
  BY <1>12 DEF DispatchThrows, ReleaseObjects, MaybeClose, bound, objects
<1>13. ASSUME NEW op \in Ops,
             RunPosted(op)
      PROVE  BoundInv'
  BY <1>13 DEF RunPosted, bound, objects
<1>14. ASSUME NEW op \in Ops,
             InvokeHandler(op)
      PROVE  BoundInv'
  BY <1>14 DEF InvokeHandler, bound, objects
<1>15. ASSUME NEW op \in Ops,
             AcceptAgain(op)
      PROVE  BoundInv'
  BY <1>15 DEF AcceptAgain, bound, objects
<1>16. ASSUME NEW op \in Ops,
             AcceptInitiated(op)
      PROVE  BoundInv'
  BY <1>16 DEF AcceptInitiated, StartWork, bound, objects, NativeHandle,
      FileInv, DescriptorValid
<1>17. ASSUME NEW op \in Ops,
             AcceptThrows(op)
      PROVE  BoundInv'
  BY <1>17 DEF AcceptThrows, bound, objects
<1>18. ASSUME NEW e \in Executors,
             FrameEnds(e)
      PROVE  BoundInv'
  BY <1>18 DEF FrameEnds, ReleaseObjects, MaybeClose, Left, bound, objects,
      Left
<1>19. CASE Shutdown
  BY <1>19 DEF Shutdown, ReleaseObjects, MaybeClose, bound, objects
<1>20. CASE UNCHANGED vars
  BY <1>20 DEF vars, objects, bound
<1> HIDE DEF PlainTypes, BoundInv, Unbound, Phases, Waiting, Called
<1>21. QED
  <2>1. CASE ObjectNext
    BY <2>1, <1>1, <1>2, <1>3, <1>4, <1>5, <1>6, <1>7, <1>8 DEF ObjectNext
  <2>2. CASE CompletionNext
    BY <2>2, <1>9, <1>10, <1>11, <1>12, <1>13, <1>14, <1>15, <1>16, <1>17
    DEF CompletionNext
  <2>3. QED BY <2>1, <2>2, <1>18, <1>19, <1>20 DEF Next

-----------------------------------------------------------------------------
(* A handler that is not done with keeps its share of the descriptor.      *)
LEMMA HoldsNow ==
  ASSUME PlainTypes, BoundInv
  PROVE  \A op \in Ops :
           file[op] # Null /\ phase[op] \in Waiting \cup Called => Holds(op)
BY NullAssumption, ConstantsDiffer, UserExecutorType
DEF PlainTypes, BoundInv, Unbound, Holds, Wrapped, InCall, Phases, Waiting, Called

LEMMA HoldsNext ==
  ASSUME PlainTypes', BoundInv'
  PROVE  \A op \in Ops :
           file'[op] # Null /\ phase'[op] \in Waiting \cup Called => Holds(op)'
BY NullAssumption, ConstantsDiffer, UserExecutorType
DEF PlainTypes, BoundInv, Unbound, Holds, Wrapped, InCall, Phases, Waiting, Called

(* What somebody holds is not closed ...                                   *)
LEMMA KeptOpen ==
  ASSUME MaybeClose, NEW f \in Files,
         \/ \E o \in Objects : fd'[o] = f
         \/ \E op \in Ops : file'[op] = f /\ Holds(op)'
  PROVE  handle'[f] = handle[f]
BY DEF MaybeClose, Holders

(* ... and the object of an accept does not let go of its file.            *)
LEMMA KeptAlive ==
  ASSUME ReleaseObjects, NEW o \in Objects, o \in Accepters,
         \E op \in Ops : obj'[op] = o /\ Holds(op)'
  PROVE  fd'[o] = fd[o]
BY DEF ReleaseObjects, Alive

LEMMA FileStep ==
  PlainTypes /\ BoundInv /\ FileInv /\ PlainTypes' /\ BoundInv' /\ [Next]_vars
    => FileInv'
<1> SUFFICES ASSUME PlainTypes, BoundInv, FileInv, PlainTypes', BoundInv', [Next]_vars PROVE FileInv'
    OBVIOUS
<1> USE NullAssumption, ObjectsAssumption, ConstantsDiffer, UserExecutorType
    DEF FileInv, DescriptorValid
<1>1. ASSUME NEW o \in Objects, NEW f \in Files, NEW n \in Numbers,
             Construct(o, f, n)
      PROVE  FileInv'
  <2>1. \A x \in Ops :
          file[x] # Null /\ phase[x] \in Waiting \cup Called /\ obj[x] \in Accepters
            => obj[x] # o
    BY <1>1, HoldsNow DEF Construct, Alive
  <2>2. \A x \in Objects : fd'[x] = IF x = o THEN f ELSE fd[x]
    BY <1>1 DEF Construct, PlainTypes
  <2>3. \A g \in Files : handle'[g] = IF g = f THEN n ELSE handle[g]
    BY <1>1 DEF Construct, PlainTypes
  <2>4. f \notin opened /\ opened' = opened \cup {f} /\ UNCHANGED <<file, obj, raw, phase>>
    BY <1>1 DEF Construct, Descriptor, bound
  <2>5. QED
    BY <2>1, <2>2, <2>3, <2>4 DEF PlainTypes
<1>2. ASSUME NEW o \in Objects, NEW f \in Files, NEW n \in Numbers,
             ConstructThrows(o, f, n)
      PROVE  FileInv'
  BY <1>2 DEF ConstructThrows, Descriptor, bound, objects, PlainTypes,
      BoundInv, Waiting, Called
<1>3. ASSUME NEW o \in Objects, NEW p \in Objects,
             Move(o, p)
      PROVE  FileInv'
  <2>1. \A g \in Files : (\E x \in Objects : fd'[x] = g) => handle'[g] = handle[g]
    BY <1>3, KeptOpen DEF Move
  <2>2. \A x \in Ops :
          file'[x] # Null /\ phase'[x] \in Waiting \cup Called =>
            /\ Holds(x)'
            /\ handle'[file[x]] = handle[file[x]]
    BY <1>3, HoldsNext, KeptOpen, KeptAlive DEF Move, PlainTypes, bound
  <2>3. \A x \in Objects :
            fd'[x] = IF x = p THEN fd[o] ELSE IF x = o THEN Null ELSE fd[x]
    BY <1>3 DEF Move, PlainTypes
  <2>4. QED
    BY <1>3, <2>1, <2>2, <2>3
    DEF Move, PlainTypes, BoundInv, bound, Phases, Waiting, Called
<1>4. ASSUME NEW o \in Objects,
             Reset(o)
      PROVE  FileInv'
  <2>1. \A g \in Files : (\E x \in Objects : fd'[x] = g) => handle'[g] = handle[g]
    BY <1>4, KeptOpen DEF Reset
  <2>2. \A x \in Ops :
          file'[x] # Null /\ phase'[x] \in Waiting \cup Called =>
            /\ Holds(x)'
            /\ handle'[file[x]] = handle[file[x]]
    BY <1>4, HoldsNext, KeptOpen, KeptAlive DEF Reset, PlainTypes, bound
  <2>3. \A x \in Objects : fd'[x] \in {fd[x], Null}
    BY <1>4 DEF Reset, PlainTypes
  <2>4. QED
    BY <1>4, <2>1, <2>2, <2>3
    DEF Reset, PlainTypes, BoundInv, bound, Phases, Waiting, Called
<1>5. ASSUME NEW o \in Objects,
             Destroy(o)
      PROVE  FileInv'
  <2>1. \A g \in Files : (\E x \in Objects : fd'[x] = g) => handle'[g] = handle[g]
    BY <1>5, KeptOpen DEF Destroy
  <2>2. \A x \in Ops :
          file'[x] # Null /\ phase'[x] \in Waiting \cup Called =>
            /\ Holds(x)'
            /\ handle'[file[x]] = handle[file[x]]
            /\ obj'[x] \in Accepters => fd'[obj[x]] = fd[obj[x]]
    BY <1>5, HoldsNext, KeptOpen, KeptAlive DEF Destroy, PlainTypes, bound
  <2>3. \A x \in Objects : fd'[x] \in {fd[x], Null}
    BY <1>5 DEF Destroy, ReleaseObjects, PlainTypes
  <2>4. QED
    BY <1>5, <2>1, <2>2, <2>3
    DEF Destroy, PlainTypes, BoundInv, bound, Phases, Waiting, Called
<1>6. ASSUME NEW op \in Ops, NEW o \in Objects, NEW a \in {Null, Other},
             Initiate(op, o, a)
      PROVE  FileInv'
  BY <1>6 DEF Initiate, Bind, StartWork, Usable, bound, objects,
      NativeHandle, PlainTypes, BoundInv, Waiting, Called
<1>7. ASSUME NEW op \in Ops, NEW o \in Objects, NEW a \in {Null, Other},
             Post(op, o, a)
      PROVE  FileInv'
  BY <1>7 DEF Post, StartWork, Usable, bound, objects, Unbound, PlainTypes,
      BoundInv, Waiting, Called
<1>8. ASSUME NEW op \in Ops, NEW o \in Objects,
             InitiateThrows(op, o)
      PROVE  FileInv'
  BY <1>8 DEF InitiateThrows, Usable, bound, objects, PlainTypes, BoundInv,
      Waiting, Called
<1>9. ASSUME NEW op \in Ops,
             KernelCompletes(op)
      PROVE  FileInv'
  BY <1>9 DEF KernelCompletes, bound, objects, PlainTypes, BoundInv,
      Waiting, Called
<1>10. ASSUME NEW op \in Ops,
             DispatchInline(op)
      PROVE  FileInv'
  BY <1>10 DEF DispatchInline, bound, objects, PlainTypes, BoundInv,
      Waiting, Called
<1>11. ASSUME NEW op \in Ops,
             DispatchPosts(op)
      PROVE  FileInv'
  BY <1>11 DEF DispatchPosts, StartWork, bound, objects, PlainTypes,
      BoundInv, Waiting, Called
<1>12. ASSUME NEW op \in Ops,
             DispatchThrows(op)
      PROVE  FileInv'
  <2>1. \A g \in Files : (\E x \in Objects : fd'[x] = g) => handle'[g] = handle[g]
    BY <1>12, KeptOpen DEF DispatchThrows
  <2>2. \A x \in Ops :
          file'[x] # Null /\ phase'[x] \in Waiting \cup Called =>
            /\ Holds(x)'
            /\ handle'[file[x]] = handle[file[x]]
            /\ obj'[x] \in Accepters => fd'[obj[x]] = fd[obj[x]]
    BY <1>12, HoldsNext, KeptOpen, KeptAlive DEF DispatchThrows, PlainTypes, bound
  <2>3. \A x \in Objects : fd'[x] \in {fd[x], Null}
    BY <1>12 DEF DispatchThrows, ReleaseObjects, PlainTypes
  <2>4. QED
    BY <1>12, <2>1, <2>2, <2>3
    DEF DispatchThrows, PlainTypes, BoundInv, bound, Phases, Waiting, Called
<1>13. ASSUME NEW op \in Ops,
             RunPosted(op)
      PROVE  FileInv'
  BY <1>13 DEF RunPosted, bound, objects, PlainTypes, BoundInv, Waiting,
      Called
<1>14. ASSUME NEW op \in Ops,
             InvokeHandler(op)
      PROVE  FileInv'
  BY <1>14 DEF InvokeHandler, bound, objects, PlainTypes, BoundInv, Waiting,
      Called
<1>15. ASSUME NEW op \in Ops,
             AcceptAgain(op)
      PROVE  FileInv'
  BY <1>15 DEF AcceptAgain, bound, objects, PlainTypes, BoundInv, Waiting,
      Called
<1>16. ASSUME NEW op \in Ops,
             AcceptInitiated(op)
      PROVE  FileInv'
  BY <1>16 DEF AcceptInitiated, StartWork, bound, objects, NativeHandle,
      PlainTypes, BoundInv, Waiting, Called
<1>17. ASSUME NEW op \in Ops,
             AcceptThrows(op)
      PROVE  FileInv'
  BY <1>17 DEF AcceptThrows, bound, objects, PlainTypes, BoundInv, Waiting,
      Called
<1>18. ASSUME NEW e \in Executors,
             FrameEnds(e)
      PROVE  FileInv'
  <2>1. \A g \in Files : (\E x \in Objects : fd'[x] = g) => handle'[g] = handle[g]
    BY <1>18, KeptOpen DEF FrameEnds, Left
  <2>2. \A x \in Ops :
          file'[x] # Null /\ phase'[x] \in Waiting \cup Called =>
            /\ Holds(x)'
            /\ handle'[file[x]] = handle[file[x]]
            /\ obj'[x] \in Accepters => fd'[obj[x]] = fd[obj[x]]
    BY <1>18, HoldsNext, KeptOpen, KeptAlive DEF FrameEnds, Left, PlainTypes, bound
  <2>3. \A x \in Objects : fd'[x] \in {fd[x], Null}
    BY <1>18 DEF FrameEnds, Left, ReleaseObjects, PlainTypes
  <2>4. QED
    BY <1>18, <2>1, <2>2, <2>3
    DEF FrameEnds, Left, PlainTypes, BoundInv, bound, Phases, Waiting, Called
<1>19. CASE Shutdown
  <2>1. \A g \in Files : (\E x \in Objects : fd'[x] = g) => handle'[g] = handle[g]
    BY <1>19, KeptOpen DEF Shutdown
  <2>2. \A x \in Ops :
          file'[x] # Null /\ phase'[x] \in Waiting \cup Called =>
            /\ Holds(x)'
            /\ handle'[file[x]] = handle[file[x]]
            /\ obj'[x] \in Accepters => fd'[obj[x]] = fd[obj[x]]
    BY <1>19, HoldsNext, KeptOpen, KeptAlive DEF Shutdown, PlainTypes, bound
  <2>3. \A x \in Objects : fd'[x] \in {fd[x], Null}
    BY <1>19 DEF Shutdown, ReleaseObjects, PlainTypes
  <2>4. QED
    BY <1>19, <2>1, <2>2, <2>3
    DEF Shutdown, PlainTypes, BoundInv, bound, Phases, Waiting, Called
<1>20. CASE UNCHANGED vars
  BY <1>20 DEF vars, objects, bound, PlainTypes, BoundInv, Waiting, Called
<1> HIDE DEF FileInv, DescriptorValid
<1>21. QED
  <2>1. CASE ObjectNext
    BY <2>1, <1>1, <1>2, <1>3, <1>4, <1>5, <1>6, <1>7, <1>8 DEF ObjectNext
  <2>2. CASE CompletionNext
    BY <2>2, <1>9, <1>10, <1>11, <1>12, <1>13, <1>14, <1>15, <1>16, <1>17
    DEF CompletionNext
  <2>3. QED BY <2>1, <2>2, <1>18, <1>19, <1>20 DEF Next

-----------------------------------------------------------------------------
LEMMA Counting ==
  \A S \in SUBSET Ops, op \in Ops :
    /\ Cardinality(S) \in Nat
    /\ op \notin S => Cardinality(S \cup {op}) = Cardinality(S) + 1
    /\ op \in S => Cardinality(S \ {op}) = Cardinality(S) - 1
BY OpsAssumption, FS_Subset, FS_CardinalityType, FS_AddElement, FS_RemoveElement

(* Nothing that counts changes.                                            *)
LEMMA WorkKept ==
  ASSUME WorkInv, UNCHANGED <<home, file, frame, work>>,
         \A op \in Ops : phase'[op] \in Waiting <=> phase[op] \in Waiting
  PROVE  WorkInv'
<1>1. \A e \in Executors : Awaiting(e)' = Awaiting(e)
      BY DEF Awaiting
<1>2. \A e \in Executors : GuardUnits(e)' = GuardUnits(e) /\ RunUnits(e)' = RunUnits(e)
      BY DEF GuardUnits, RunUnits
<1>3. QED BY <1>1, <1>2 DEF WorkInv

(* The sum of one executor is seen to, and those of the others stay.       *)
LEMMA WorkBalanced ==
  ASSUME WorkInv, NEW h \in Executors,
         work' = [work EXCEPT ![h] = work'[h]],
         work'[h] = Cardinality(Awaiting(h))' + GuardUnits(h)' + RunUnits(h)',
         \A e \in Executors \ {h} :
           /\ Awaiting(e)' = Awaiting(e)
           /\ GuardUnits(e)' = GuardUnits(e)
           /\ RunUnits(e)' = RunUnits(e)
  PROVE  WorkInv'
<1>1. GuardUnits(h)' \in Nat /\ RunUnits(h)' \in Nat
      BY DEF GuardUnits, RunUnits
<1>2. Cardinality(Awaiting(h))' \in Nat
  <2>1. Awaiting(h)' \in SUBSET Ops
        BY DEF Awaiting
  <2>2. QED BY <2>1, OpsAssumption, FS_Subset, FS_CardinalityType
<1>3. work'[h] \in Nat
      BY <1>1, <1>2
<1>4. \A e \in Executors \ {h} :
        /\ work'[e] = work[e]
        /\ work'[e] = Cardinality(Awaiting(e))' + GuardUnits(e)' + RunUnits(e)'
      BY DEF WorkInv
<1>5. work' \in [Executors -> Nat]
      BY <1>3 DEF WorkInv
<1>6. QED BY <1>4, <1>5 DEF WorkInv

(* What is known of the sum of an executor before a step.                  *)
LEMMA WorkSum ==
  ASSUME WorkInv, NEW h \in Executors
  PROVE  /\ work[h] = Cardinality(Awaiting(h)) + GuardUnits(h) + RunUnits(h)
         /\ work[h] \in Nat /\ Cardinality(Awaiting(h)) \in Nat
         /\ GuardUnits(h) \in Nat /\ RunUnits(h) \in Nat
         /\ Awaiting(h) \in SUBSET Ops
<1>1. Awaiting(h) \in SUBSET Ops
      BY DEF Awaiting
<1>2. Cardinality(Awaiting(h)) \in Nat
      BY <1>1, OpsAssumption, FS_Subset, FS_CardinalityType
<1>3. GuardUnits(h) \in Nat /\ RunUnits(h) \in Nat
      BY DEF GuardUnits, RunUnits
<1>4. QED BY <1>1, <1>2, <1>3 DEF WorkInv

LEMMA WorkStep ==
  PlainTypes /\ BoundInv /\ FileInv /\ WorkInv /\ [Next]_vars
    => WorkInv'
<1> SUFFICES ASSUME PlainTypes, BoundInv, FileInv, WorkInv, [Next]_vars PROVE WorkInv'
    OBVIOUS
<1> USE NullAssumption, ObjectsAssumption, ConstantsDiffer, UserExecutorType
    DEF PlainTypes, BoundInv, Unbound, DescriptorValid, Phases, Waiting, Called, bound, objects
<1>1. ASSUME NEW o \in Objects, NEW f \in Files, NEW n \in Numbers,
             Construct(o, f, n)
      PROVE  WorkInv'
  BY <1>1, WorkKept DEF Construct
<1>2. ASSUME NEW o \in Objects, NEW f \in Files, NEW n \in Numbers,
             ConstructThrows(o, f, n)
      PROVE  WorkInv'
  BY <1>2, WorkKept DEF ConstructThrows
<1>3. ASSUME NEW o \in Objects, NEW p \in Objects,
             Move(o, p)
      PROVE  WorkInv'
  BY <1>3, WorkKept DEF Move
<1>4. ASSUME NEW o \in Objects,
             Reset(o)
      PROVE  WorkInv'
  BY <1>4, WorkKept DEF Reset
<1>5. ASSUME NEW o \in Objects,
             Destroy(o)
      PROVE  WorkInv'
  BY <1>5, WorkKept DEF Destroy
<1>6. ASSUME NEW op \in Ops, NEW o \in Objects, NEW a \in {Null, Other},
             Initiate(op, o, a)
      PROVE  WorkInv'
  <2>1. UserExecutor(a) \in Executors
    BY <1>6 DEF Initiate, StartWork, Bind, NativeHandle
  <2>2. /\ op \notin Awaiting(UserExecutor(a))
        /\ Awaiting(UserExecutor(a))' = Awaiting(UserExecutor(a)) \cup {op}
    BY <1>6, <2>1 DEF Initiate, StartWork, Bind, NativeHandle, Awaiting
  <2>3. Cardinality(Awaiting(UserExecutor(a)))'
          = Cardinality(Awaiting(UserExecutor(a))) + 1
    BY <2>1, <2>2, WorkSum, Counting
  <2>4. GuardUnits(UserExecutor(a))' = GuardUnits(UserExecutor(a))
    BY <1>6, <2>1 DEF Initiate, StartWork, Bind, NativeHandle, GuardUnits, FileInv
  <2>5. RunUnits(UserExecutor(a))' = RunUnits(UserExecutor(a))
    BY <1>6, <2>1 DEF Initiate, StartWork, Bind, NativeHandle, RunUnits
  <2>6. \A e \in Executors \ {UserExecutor(a)} :
          /\ Awaiting(e)' = Awaiting(e)
          /\ GuardUnits(e)' = GuardUnits(e) /\ RunUnits(e)' = RunUnits(e)
    <3>1. \A e \in Executors \ {UserExecutor(a)} : Awaiting(e)' = Awaiting(e)
      BY <1>6, <2>1 DEF Initiate, StartWork, Bind, NativeHandle, Awaiting
    <3>2. \A e \in Executors \ {UserExecutor(a)} :
              GuardUnits(e)' = GuardUnits(e) /\ RunUnits(e)' = RunUnits(e)
      BY <1>6, <2>1
      DEF Initiate, StartWork, Bind, NativeHandle, GuardUnits, RunUnits, FileInv
    <3>3. QED BY <3>1, <3>2
  <2>7. /\ work'[UserExecutor(a)] = work[UserExecutor(a)] + 1
        /\ work' = [work EXCEPT ![UserExecutor(a)] = work'[UserExecutor(a)]]
    BY <1>6, <2>1 DEF Initiate, StartWork, Bind, NativeHandle, WorkInv
  <2>8. work'[UserExecutor(a)]
          = Cardinality(Awaiting(UserExecutor(a)))' + GuardUnits(UserExecutor(a))' + RunUnits(UserExecutor(a))'
    BY <2>1, <2>3, <2>4, <2>5, <2>7, WorkSum
  <2>9. QED
    BY <2>1, <2>6, <2>7, <2>8, WorkBalanced
<1>7. ASSUME NEW op \in Ops, NEW o \in Objects, NEW a \in {Null, Other},
             Post(op, o, a)
      PROVE  WorkInv'
  <2>1. UserExecutor(a) \in Executors
    BY <1>7 DEF Post, StartWork
  <2>2. /\ op \notin Awaiting(UserExecutor(a))
        /\ Awaiting(UserExecutor(a))' = Awaiting(UserExecutor(a)) \cup {op}
    BY <1>7, <2>1 DEF Post, StartWork, Awaiting
  <2>3. Cardinality(Awaiting(UserExecutor(a)))'
          = Cardinality(Awaiting(UserExecutor(a))) + 1
    BY <2>1, <2>2, WorkSum, Counting
  <2>4. GuardUnits(UserExecutor(a))' = GuardUnits(UserExecutor(a))
    BY <1>7, <2>1 DEF Post, StartWork, GuardUnits, FileInv
  <2>5. RunUnits(UserExecutor(a))' = RunUnits(UserExecutor(a))
    BY <1>7, <2>1 DEF Post, StartWork, RunUnits
  <2>6. \A e \in Executors \ {UserExecutor(a)} :
          /\ Awaiting(e)' = Awaiting(e)
          /\ GuardUnits(e)' = GuardUnits(e) /\ RunUnits(e)' = RunUnits(e)
    <3>1. \A e \in Executors \ {UserExecutor(a)} : Awaiting(e)' = Awaiting(e)
      BY <1>7, <2>1 DEF Post, StartWork, Awaiting
    <3>2. \A e \in Executors \ {UserExecutor(a)} :
              GuardUnits(e)' = GuardUnits(e) /\ RunUnits(e)' = RunUnits(e)
      BY <1>7, <2>1 DEF Post, StartWork, GuardUnits, RunUnits, FileInv
    <3>3. QED BY <3>1, <3>2
  <2>7. /\ work'[UserExecutor(a)] = work[UserExecutor(a)] + 1
        /\ work' = [work EXCEPT ![UserExecutor(a)] = work'[UserExecutor(a)]]
    BY <1>7, <2>1 DEF Post, StartWork, WorkInv
  <2>8. work'[UserExecutor(a)]
          = Cardinality(Awaiting(UserExecutor(a)))' + GuardUnits(UserExecutor(a))' + RunUnits(UserExecutor(a))'
    BY <2>1, <2>3, <2>4, <2>5, <2>7, WorkSum
  <2>9. QED
    BY <2>1, <2>6, <2>7, <2>8, WorkBalanced
<1>8. ASSUME NEW op \in Ops, NEW o \in Objects,
             InitiateThrows(op, o)
      PROVE  WorkInv'
  BY <1>8, WorkKept DEF InitiateThrows
<1>9. ASSUME NEW op \in Ops,
             KernelCompletes(op)
      PROVE  WorkInv'
  BY <1>9, WorkKept DEF KernelCompletes
<1>10. ASSUME NEW op \in Ops,
             DispatchInline(op)
      PROVE  WorkInv'
  <2>1. Context \in Executors
    BY <1>10 DEF DispatchInline
  <2>2. op \in Awaiting(Context) /\ Awaiting(Context)' = Awaiting(Context) \ {op}
    BY <1>10, <2>1 DEF DispatchInline, Awaiting
  <2>3. Cardinality(Awaiting(Context))' = Cardinality(Awaiting(Context)) - 1
    BY <2>1, <2>2, WorkSum, Counting
  <2>4. GuardUnits(Context)' = GuardUnits(Context) + 1
    BY <1>10, <2>1 DEF DispatchInline, GuardUnits, FileInv
  <2>5. RunUnits(Context)' = RunUnits(Context)
    BY <1>10, <2>1 DEF DispatchInline, RunUnits
  <2>6. \A e \in Executors \ {Context} :
          /\ Awaiting(e)' = Awaiting(e)
          /\ GuardUnits(e)' = GuardUnits(e) /\ RunUnits(e)' = RunUnits(e)
    <3>1. \A e \in Executors \ {Context} : Awaiting(e)' = Awaiting(e)
      BY <1>10, <2>1 DEF DispatchInline, Awaiting
    <3>2. \A e \in Executors \ {Context} :
              GuardUnits(e)' = GuardUnits(e) /\ RunUnits(e)' = RunUnits(e)
      BY <1>10, <2>1 DEF DispatchInline, GuardUnits, RunUnits, FileInv
    <3>3. QED BY <3>1, <3>2
  <2>7. /\ work'[Context] = work[Context]
        /\ work' = [work EXCEPT ![Context] = work'[Context]]
    BY <1>10, <2>1 DEF DispatchInline, WorkInv
  <2>8. work'[Context]
          = Cardinality(Awaiting(Context))' + GuardUnits(Context)' + RunUnits(Context)'
    BY <2>1, <2>3, <2>4, <2>5, <2>7, WorkSum
  <2>9. QED
    BY <2>1, <2>6, <2>7, <2>8, WorkBalanced
<1>11. ASSUME NEW op \in Ops,
             DispatchPosts(op)
      PROVE  WorkInv'
  <2>1. PICK h \in Executors : home[op] = h /\ home'[op] = h
    BY <1>11 DEF DispatchPosts, StartWork
  <2>2. Awaiting(h)' = Awaiting(h)
    BY <1>11, <2>1 DEF DispatchPosts, StartWork, Awaiting
  <2>3. Cardinality(Awaiting(h))' = Cardinality(Awaiting(h))
    BY <2>1, <2>2, WorkSum, Counting
  <2>4. GuardUnits(h)' = GuardUnits(h) + 1
    BY <1>11, <2>1 DEF DispatchPosts, StartWork, GuardUnits, FileInv
  <2>5. RunUnits(h)' = RunUnits(h)
    BY <1>11, <2>1 DEF DispatchPosts, StartWork, RunUnits
  <2>6. \A e \in Executors \ {h} :
          /\ Awaiting(e)' = Awaiting(e)
          /\ GuardUnits(e)' = GuardUnits(e) /\ RunUnits(e)' = RunUnits(e)
    <3>1. \A e \in Executors \ {h} : Awaiting(e)' = Awaiting(e)
      BY <1>11, <2>1 DEF DispatchPosts, StartWork, Awaiting
    <3>2. \A e \in Executors \ {h} :
              GuardUnits(e)' = GuardUnits(e) /\ RunUnits(e)' = RunUnits(e)
      BY <1>11, <2>1 DEF DispatchPosts, StartWork, GuardUnits, RunUnits, FileInv
    <3>3. QED BY <3>1, <3>2
  <2>7. work'[h] = work[h] + 1 /\ work' = [work EXCEPT ![h] = work'[h]]
    BY <1>11, <2>1 DEF DispatchPosts, StartWork, WorkInv
  <2>8. work'[h] = Cardinality(Awaiting(h))' + GuardUnits(h)' + RunUnits(h)'
    BY <2>1, <2>3, <2>4, <2>5, <2>7, WorkSum
  <2>9. QED
    BY <2>1, <2>6, <2>7, <2>8, WorkBalanced
<1>12. ASSUME NEW op \in Ops,
             DispatchThrows(op)
      PROVE  WorkInv'
  <2>1. PICK h \in Executors : home[op] = h /\ home'[op] = h
    BY <1>12 DEF DispatchThrows
  <2>2. op \in Awaiting(h) /\ Awaiting(h)' = Awaiting(h) \ {op}
    BY <1>12, <2>1 DEF DispatchThrows, Awaiting
  <2>3. Cardinality(Awaiting(h))' = Cardinality(Awaiting(h)) - 1
    BY <2>1, <2>2, WorkSum, Counting
  <2>4. GuardUnits(h)' = GuardUnits(h) + 1
    BY <1>12, <2>1 DEF DispatchThrows, GuardUnits, FileInv
  <2>5. RunUnits(h)' = RunUnits(h)
    BY <1>12, <2>1 DEF DispatchThrows, RunUnits
  <2>6. \A e \in Executors \ {h} :
          /\ Awaiting(e)' = Awaiting(e)
          /\ GuardUnits(e)' = GuardUnits(e) /\ RunUnits(e)' = RunUnits(e)
    <3>1. \A e \in Executors \ {h} : Awaiting(e)' = Awaiting(e)
      BY <1>12, <2>1 DEF DispatchThrows, Awaiting
    <3>2. \A e \in Executors \ {h} :
              GuardUnits(e)' = GuardUnits(e) /\ RunUnits(e)' = RunUnits(e)
      BY <1>12, <2>1 DEF DispatchThrows, GuardUnits, RunUnits, FileInv
    <3>3. QED BY <3>1, <3>2
  <2>7. work'[h] = work[h] /\ work' = [work EXCEPT ![h] = work'[h]]
    BY <1>12, <2>1 DEF DispatchThrows, WorkInv
  <2>8. work'[h] = Cardinality(Awaiting(h))' + GuardUnits(h)' + RunUnits(h)'
    BY <2>1, <2>3, <2>4, <2>5, <2>7, WorkSum
  <2>9. QED
    BY <2>1, <2>6, <2>7, <2>8, WorkBalanced
<1>13. ASSUME NEW op \in Ops,
             RunPosted(op)
      PROVE  WorkInv'
  <2>1. CASE home[op] = Context
    <3>1. Context \in Executors
      BY <1>13, <2>1 DEF RunPosted
    <3>2. op \in Awaiting(Context) /\ Awaiting(Context)' = Awaiting(Context) \ {op}
      BY <1>13, <2>1, <3>1 DEF RunPosted, Awaiting
    <3>3. Cardinality(Awaiting(Context))' = Cardinality(Awaiting(Context)) - 1
      BY <3>1, <3>2, WorkSum, Counting
    <3>4. GuardUnits(Context)' = GuardUnits(Context)
      BY <1>13, <2>1, <3>1 DEF RunPosted, GuardUnits, FileInv
    <3>5. RunUnits(Context)' = RunUnits(Context)
      BY <1>13, <2>1, <3>1 DEF RunPosted, RunUnits
    <3>6. \A e \in Executors \ {Context} :
            /\ Awaiting(e)' = Awaiting(e)
            /\ GuardUnits(e)' = GuardUnits(e) /\ RunUnits(e)' = RunUnits(e)
      <4>1. \A e \in Executors \ {Context} : Awaiting(e)' = Awaiting(e)
        BY <1>13, <2>1, <3>1 DEF RunPosted, Awaiting
      <4>2. \A e \in Executors \ {Context} :
                GuardUnits(e)' = GuardUnits(e) /\ RunUnits(e)' = RunUnits(e)
        BY <1>13, <2>1, <3>1 DEF RunPosted, GuardUnits, RunUnits, FileInv
      <4>3. QED BY <4>1, <4>2
    <3>7. /\ work'[Context] = work[Context] - 1
          /\ work' = [work EXCEPT ![Context] = work'[Context]]
      BY <1>13, <2>1, <3>1 DEF RunPosted, WorkInv
    <3>8. work'[Context]
            = Cardinality(Awaiting(Context))' + GuardUnits(Context)' + RunUnits(Context)'
      BY <3>1, <3>3, <3>4, <3>5, <3>7, WorkSum
    <3>9. QED
      BY <3>1, <3>6, <3>7, <3>8, WorkBalanced
  <2>2. CASE home[op] = Other
    <3>1. Other \in Executors
      BY <1>13, <2>2 DEF RunPosted
    <3>2. op \in Awaiting(Other) /\ Awaiting(Other)' = Awaiting(Other) \ {op}
      BY <1>13, <2>2, <3>1 DEF RunPosted, Awaiting
    <3>3. Cardinality(Awaiting(Other))' = Cardinality(Awaiting(Other)) - 1
      BY <3>1, <3>2, WorkSum, Counting
    <3>4. GuardUnits(Other)' = GuardUnits(Other)
      BY <1>13, <2>2, <3>1 DEF RunPosted, GuardUnits, FileInv
    <3>5. RunUnits(Other)' = RunUnits(Other) + 1
      BY <1>13, <2>2, <3>1 DEF RunPosted, RunUnits
    <3>6. \A e \in Executors \ {Other} :
            /\ Awaiting(e)' = Awaiting(e)
            /\ GuardUnits(e)' = GuardUnits(e) /\ RunUnits(e)' = RunUnits(e)
      <4>1. \A e \in Executors \ {Other} : Awaiting(e)' = Awaiting(e)
        BY <1>13, <2>2, <3>1 DEF RunPosted, Awaiting
      <4>2. \A e \in Executors \ {Other} :
                GuardUnits(e)' = GuardUnits(e) /\ RunUnits(e)' = RunUnits(e)
        BY <1>13, <2>2, <3>1 DEF RunPosted, GuardUnits, RunUnits, FileInv
      <4>3. QED BY <4>1, <4>2
    <3>7. work'[Other] = work[Other] /\ work' = [work EXCEPT ![Other] = work'[Other]]
      BY <1>13, <2>2, <3>1 DEF RunPosted, WorkInv
    <3>8. work'[Other]
            = Cardinality(Awaiting(Other))' + GuardUnits(Other)' + RunUnits(Other)'
      BY <3>1, <3>3, <3>4, <3>5, <3>7, WorkSum
    <3>9. QED
      BY <3>1, <3>6, <3>7, <3>8, WorkBalanced
  <2>3. QED
    BY <1>13, <2>1, <2>2 DEF RunPosted
<1>14. ASSUME NEW op \in Ops,
             InvokeHandler(op)
      PROVE  WorkInv'
  BY <1>14, WorkKept DEF InvokeHandler
<1>15. ASSUME NEW op \in Ops,
             AcceptAgain(op)
      PROVE  WorkInv'
  BY <1>15, WorkKept DEF AcceptAgain
<1>16. ASSUME NEW op \in Ops,
             AcceptInitiated(op)
      PROVE  WorkInv'
  <2>1. PICK h \in Executors : home[op] = h /\ home'[op] = h
    BY <1>16 DEF AcceptInitiated, StartWork
  <2>2. op \notin Awaiting(h) /\ Awaiting(h)' = Awaiting(h) \cup {op}
    BY <1>16, <2>1 DEF AcceptInitiated, StartWork, Awaiting
  <2>3. Cardinality(Awaiting(h))' = Cardinality(Awaiting(h)) + 1
    BY <2>1, <2>2, WorkSum, Counting
  <2>4. GuardUnits(h)' = GuardUnits(h)
    BY <1>16, <2>1 DEF AcceptInitiated, StartWork, GuardUnits, FileInv
  <2>5. RunUnits(h)' = RunUnits(h)
    BY <1>16, <2>1 DEF AcceptInitiated, StartWork, RunUnits
  <2>6. \A e \in Executors \ {h} :
          /\ Awaiting(e)' = Awaiting(e)
          /\ GuardUnits(e)' = GuardUnits(e) /\ RunUnits(e)' = RunUnits(e)
    <3>1. \A e \in Executors \ {h} : Awaiting(e)' = Awaiting(e)
      BY <1>16, <2>1 DEF AcceptInitiated, StartWork, Awaiting
    <3>2. \A e \in Executors \ {h} :
              GuardUnits(e)' = GuardUnits(e) /\ RunUnits(e)' = RunUnits(e)
      BY <1>16, <2>1 DEF AcceptInitiated, StartWork, GuardUnits, RunUnits, FileInv
    <3>3. QED BY <3>1, <3>2
  <2>7. work'[h] = work[h] + 1 /\ work' = [work EXCEPT ![h] = work'[h]]
    BY <1>16, <2>1 DEF AcceptInitiated, StartWork, WorkInv
  <2>8. work'[h] = Cardinality(Awaiting(h))' + GuardUnits(h)' + RunUnits(h)'
    BY <2>1, <2>3, <2>4, <2>5, <2>7, WorkSum
  <2>9. QED
    BY <2>1, <2>6, <2>7, <2>8, WorkBalanced
<1>17. ASSUME NEW op \in Ops,
             AcceptThrows(op)
      PROVE  WorkInv'
  BY <1>17, WorkKept DEF AcceptThrows
<1>18. ASSUME NEW e \in Executors,
             FrameEnds(e)
      PROVE  WorkInv'
  <2>1. PICK op \in Ops : op = frame[e]
    BY <1>18 DEF FrameEnds
  <2>2. PICK h \in Executors : h = home[op]
    BY <2>1
  <2>3. /\ e = Other => h = Other
        /\ \A x \in Ops : phase'[x] \in Waiting <=> phase[x] \in Waiting
        /\ frame' = [frame EXCEPT ![e] = Null]
        /\ UNCHANGED <<home, file>>
    BY <1>18, <2>1, <2>2 DEF FrameEnds, Left
  <2>4. work' = IF HeldBy(e, op) THEN [work EXCEPT ![h] = work[h] - 1] ELSE work
    BY <1>18, <2>1, <2>2 DEF FrameEnds
  <2>5. \A x \in Executors : Awaiting(x)' = Awaiting(x)
    BY <2>3 DEF Awaiting
  <2>6. CASE HeldBy(e, op)
    <3>1. GuardUnits(h)' + RunUnits(h)' = GuardUnits(h) + RunUnits(h) - 1
      BY <2>1, <2>2, <2>3, <2>6 DEF GuardUnits, RunUnits, HeldBy
    <3>2. \A x \in Executors \ {h} :
            /\ GuardUnits(x)' = GuardUnits(x)
            /\ RunUnits(x)' = RunUnits(x)
      BY <2>1, <2>2, <2>3, <2>6 DEF GuardUnits, RunUnits, HeldBy
    <3>3. work'[h] = work[h] - 1 /\ work' = [work EXCEPT ![h] = work'[h]]
      BY <2>2, <2>4, <2>6 DEF WorkInv
    <3>4. GuardUnits(h)' \in Nat /\ RunUnits(h)' \in Nat
      BY DEF GuardUnits, RunUnits
    <3>5. Cardinality(Awaiting(h))' = Cardinality(Awaiting(h))
      BY <2>5
    <3>6. work'[h] = Cardinality(Awaiting(h))' + GuardUnits(h)' + RunUnits(h)'
      BY <3>1, <3>3, <3>4, <3>5, WorkSum
    <3>7. QED BY <2>5, <3>2, <3>3, <3>6, WorkBalanced
  <2>7. CASE ~HeldBy(e, op)
    <3>1. \A x \in Executors :
            GuardUnits(x)' = GuardUnits(x) /\ RunUnits(x)' = RunUnits(x)
      BY <2>1, <2>3, <2>7 DEF GuardUnits, RunUnits, HeldBy
    <3>2. UNCHANGED work
      BY <2>4, <2>7
    <3>3. QED BY <2>5, <3>1, <3>2 DEF WorkInv
  <2>8. QED BY <2>6, <2>7
<1>19. CASE Shutdown
  <2>1. /\ Awaiting(Context)' = {} /\ Awaiting(Other)' = {}
        /\ Awaiting(Other) = {op \in {x \in Ops : phase[x] \in Waiting} : home[op] = Other}
    BY <1>19 DEF Shutdown, Awaiting
  <2>2. \A e \in Executors :
          /\ GuardUnits(e) = 0 /\ GuardUnits(e)' = 0
          /\ RunUnits(e) = 0 /\ RunUnits(e)' = 0
    BY <1>19 DEF Shutdown, GuardUnits, RunUnits
  <2>3. Cardinality(Awaiting(Other)) \in Nat /\ Awaiting(Other) \in SUBSET Ops
    <3>1. Awaiting(Other) \in SUBSET Ops
      BY DEF Awaiting
    <3>2. QED BY <3>1, OpsAssumption, FS_Subset, FS_CardinalityType
  <2>4. work[Other] = Cardinality(Awaiting(Other))
    BY <2>2, <2>3 DEF WorkInv
  <2>5. work' = [work EXCEPT ![Context] = 0, ![Other] = work[Other] - Cardinality(Awaiting(Other))]
    BY <1>19, <2>1 DEF Shutdown
  <2>6. work'[Context] = 0 /\ work'[Other] = 0 /\ work' \in [Executors -> Nat]
    BY <2>3, <2>4, <2>5 DEF WorkInv
  <2>7. \A e \in Executors : Awaiting(e)' = {}
    BY <2>1
  <2>8. \A e \in Executors :
          Cardinality(Awaiting(e))' = 0 /\ work'[e] = 0
    BY <2>6, <2>7, FS_EmptySet
  <2>9. QED BY <2>2, <2>6, <2>8 DEF WorkInv
<1>20. CASE UNCHANGED vars
  BY <1>20, WorkKept DEF vars
<1> HIDE DEF PlainTypes, BoundInv, Unbound, DescriptorValid, Phases, Waiting, Called, bound, objects
<1>21. QED
  <2>1. CASE ObjectNext
    BY <2>1, <1>1, <1>2, <1>3, <1>4, <1>5, <1>6, <1>7, <1>8 DEF ObjectNext
  <2>2. CASE CompletionNext
    BY <2>2, <1>9, <1>10, <1>11, <1>12, <1>13, <1>14, <1>15, <1>16, <1>17
    DEF CompletionNext
  <2>3. QED BY <2>1, <2>2, <1>18, <1>19, <1>20 DEF Next

-----------------------------------------------------------------------------
IInv == PlainTypes /\ BoundInv /\ FileInv /\ WorkInv

LEMMA IInvInit == Init => IInv
<1> SUFFICES ASSUME Init PROVE IInv
    OBVIOUS
<1> USE NullAssumption, ConstantsDiffer
<1>1. PlainTypes
  BY DEF Init, PlainTypes, Phases
<1>2. BoundInv
  BY DEF Init, BoundInv, Unbound, Waiting, Called
<1>3. FileInv
  BY DEF Init, FileInv, DescriptorValid
<1>4. WorkInv
  <2>1. \A e \in Executors : Awaiting(e) = {}
    BY DEF Init, Awaiting, Waiting
  <2>2. \A e \in Executors : GuardUnits(e) = 0 /\ RunUnits(e) = 0
    BY DEF Init, GuardUnits, RunUnits
  <2>3. QED BY <2>1, <2>2, FS_EmptySet DEF Init, WorkInv
<1>5. QED BY <1>1, <1>2, <1>3, <1>4 DEF IInv

LEMMA IInvStep == IInv /\ [Next]_vars => IInv'
BY PlainTypesStep, BoundStep, FileStep, WorkStep DEF IInv

LEMMA IInvInvariant == Spec => []IInv
BY IInvInit, IInvStep, PTL DEF Spec

(* Every variable of the objects, operations and executors keeps its type; *)
(* in particular no executor's count of work falls below zero.             *)
THEOREM TypeCorrect == Spec => []TypeOK
<1>1. IInv => TypeOK
  BY DEF IInv, PlainTypes, WorkInv, TypeOK
<1>2. QED BY <1>1, IInvInvariant, PTL

(* No call uses a descriptor that was closed, or that the kernel has given *)
(* to another file, however objects are moved, reset and destroyed.        *)
THEOREM DescriptorIsValid == Spec => []DescriptorValid
<1>1. IInv => DescriptorValid
  BY DEF IInv, FileInv
<1>2. QED BY <1>1, IInvInvariant, PTL

(* No executor runs out of work before it has called the handlers that are *)
(* associated with it.                                                     *)
THEOREM ExecutorsAreHeld == Spec => []ExecutorsHeld
<1>1. IInv => ExecutorsHeld
  <2> SUFFICES ASSUME IInv, NEW e \in Executors
               PROVE  Cardinality(Awaiting(e)) <= work[e]
      BY DEF ExecutorsHeld, Awaiting
  <2>1. QED BY WorkSum DEF IInv
<1>2. QED BY <1>1, IInvInvariant, PTL

(* outstanding() counts the handlers of the object's file that are yet to  *)
(* be called or are running, each once, whoever has dropped its share.     *)
THEOREM OutstandingIsCounted == Spec => []OutstandingCounts
<1>1. IInv => OutstandingCounts
  <2> SUFFICES ASSUME IInv, NEW o \in Objects \ Accepters, fd[o] # Null
               PROVE  Outstanding(o) =
                        Cardinality({op \in Ops : file[op] = fd[o]
                                                    /\ phase[op] \in Waiting \cup Called})
      BY DEF OutstandingCounts
  <2> DEFINE W == {op \in Ops : file[op] = fd[o] /\ Wrapped(op)}
             C == {op \in Ops : file[op] = fd[o] /\ InCall(op)}
             A == {op \in Ops : file[op] = fd[o] /\ phase[op] \in Waiting \cup Called}
  <2>1. {p \in Objects : fd[p] = fd[o]} = {o}
    BY DEF IInv, FileInv
  <2>2. \A op \in Ops : file[op] = fd[o] =>
          /\ obj[op] # Null /\ obj[op] \notin Accepters
          /\ home[op] \in Executors
    BY NullAssumption, ConstantsDiffer, UserExecutorType
    DEF IInv, FileInv, PlainTypes, BoundInv, Unbound
  <2>3. \A op \in Ops : file[op] = fd[o] => (InCall(op) <=> phase[op] \in Called)
    BY <2>2 DEF IInv, BoundInv, InCall
  <2>4. \A op \in Ops : file[op] = fd[o] => (Wrapped(op) <=> phase[op] \in Waiting)
    BY DEF Wrapped
  <2>5. W \cap C = {} /\ W \cup C = A
    BY <2>3, <2>4 DEF Waiting, Called
  <2>6. W \in SUBSET Ops /\ C \in SUBSET Ops
    OBVIOUS
  <2>7. IsFiniteSet(W) /\ IsFiniteSet(C)
    BY <2>6, OpsAssumption, FS_Subset
  <2>8. Cardinality(W) \in Nat /\ Cardinality(C) \in Nat
    BY <2>7, FS_CardinalityType
  <2>9. Cardinality(W \cup C) = Cardinality(W) + Cardinality(C)
    <3>1. Cardinality(W \cup C)
            = Cardinality(W) + Cardinality(C) - Cardinality(W \cap C)
      BY <2>7, FS_Union
    <3>2. Cardinality(W \cap C) = 0
      BY <2>5, FS_EmptySet
    <3>3. QED BY <2>8, <3>1, <3>2
  <2>10. Cardinality({p \in Objects : fd[p] = fd[o]}) = 1
    BY <2>1, FS_Singleton
  <2> HIDE DEF W, C, A
  <2>11. Cardinality(A) = Cardinality(W) + Cardinality(C)
    BY <2>5, <2>9
  <2>12. Outstanding(o) = (Cardinality({p \in Objects : fd[p] = fd[o]})
                             + Cardinality(W) + Cardinality(C)) - 1
    <3>1. UseCount(fd[o]) = Cardinality({p \in Objects : fd[p] = fd[o]})
                              + Cardinality(W) + Cardinality(C)
      BY Zenon DEF UseCount, W, C
    <3>2. Outstanding(o) = UseCount(fd[o]) - 1
      BY DEF Outstanding
    <3>3. QED BY <3>1, <3>2, Zenon
  <2>13. (1 + Cardinality(W) + Cardinality(C)) - 1 = Cardinality(W) + Cardinality(C)
    BY <2>8
  <2>14. Outstanding(o) = Cardinality(A)
    BY <2>10, <2>11, <2>12, <2>13, Zenon
  <2>15. QED BY <2>14 DEF A
<1>2. QED BY <1>1, IInvInvariant, PTL

-----------------------------------------------------------------------------
(* What of an operation shows in the abstract specification.               *)
Home(op) == IF obj[op] = Null THEN Null ELSE UserExecutor(assoc[op])
Ran(op) == IF phase[op] \in {"calling", "done"} THEN home[op] ELSE Null

LEMMA AsyncKept ==
  ASSUME \A op \in Ops :
           Promise(op)' = Promise(op) /\ Home(op)' = Home(op) /\ Ran(op)' = Ran(op)
  PROVE  UNCHANGED AsyncOp!vars
BY DEF AsyncOp!vars, Home, Ran

(* Steps of one operation.                                                 *)
LEMMA AsyncInitiated ==
  ASSUME NEW op \in Ops, NEW e \in Executors,
         Promise(op) = "idle", Promise(op)' = "pending", Home(op)' = e,
         Ran(op)' = Ran(op),
         \A x \in Ops \ {op} :
           Promise(x)' = Promise(x) /\ Home(x)' = Home(x) /\ Ran(x)' = Ran(x)
  PROVE  AsyncOp!Next
<1>1. AsyncOp!Initiate(op, e)
  BY DEF AsyncOp!Initiate, Home, Ran
<1>2. QED BY <1>1 DEF AsyncOp!Next

LEMMA AsyncRefused ==
  ASSUME NEW op \in Ops,
         Promise(op) = "idle", Promise(op)' = "dropped",
         \A x \in Ops : Home(x)' = Home(x) /\ Ran(x)' = Ran(x),
         \A x \in Ops \ {op} : Promise(x)' = Promise(x)
  PROVE  AsyncOp!Next
<1>1. AsyncOp!Refuse(op)
  BY DEF AsyncOp!Refuse, Home, Ran
<1>2. QED BY <1>1 DEF AsyncOp!Next

LEMMA AsyncCalled ==
  ASSUME NEW op \in Ops,
         Promise(op) = "pending", Promise(op)' = "called", Ran(op)' = Home(op),
         \A x \in Ops : Home(x)' = Home(x),
         \A x \in Ops \ {op} : Promise(x)' = Promise(x) /\ Ran(x)' = Ran(x)
  PROVE  AsyncOp!Next
<1>1. AsyncOp!Call(op)
  BY DEF AsyncOp!Call, Home, Ran
<1>2. QED BY <1>1 DEF AsyncOp!Next

LEMMA AsyncDropped ==
  ASSUME NEW S \in SUBSET Ops,
         \A op \in S : Promise(op) = "pending" /\ Promise(op)' = "dropped",
         \A x \in Ops : Home(x)' = Home(x) /\ Ran(x)' = Ran(x),
         \A x \in Ops \ S : Promise(x)' = Promise(x)
  PROVE  AsyncOp!Next \/ UNCHANGED AsyncOp!vars
<1>1. CASE S = {}
  BY <1>1, AsyncKept
<1>2. CASE S # {}
  <2>1. AsyncOp!Drop(S)
    BY <1>2 DEF AsyncOp!Drop, Home, Ran
  <2>2. QED BY <2>1 DEF AsyncOp!Next
<1>3. QED BY <1>1, <1>2

LEMMA AsyncStep == IInv /\ [Next]_vars => [AsyncOp!Next]_AsyncOp!vars
<1> SUFFICES ASSUME IInv, [Next]_vars PROVE AsyncOp!Next \/ UNCHANGED AsyncOp!vars
    OBVIOUS
<1> USE NullAssumption, ObjectsAssumption, ConstantsDiffer, UserExecutorType
    DEF IInv, PlainTypes, Phases, Waiting, Called, Promise, Home, Ran
<1>1. ASSUME NEW o \in Objects, NEW f \in Files, NEW n \in Numbers,
             Construct(o, f, n)
      PROVE  AsyncOp!Next \/ UNCHANGED AsyncOp!vars
  <2>1. \A x \in Ops :
          Promise(x)' = Promise(x) /\ Home(x)' = Home(x) /\ Ran(x)' = Ran(x)
    BY <1>1 DEF Construct, bound, objects
  <2> HIDE DEF Promise, Home, Ran
  <2>2. QED BY <2>1, AsyncKept
<1>2. ASSUME NEW o \in Objects, NEW f \in Files, NEW n \in Numbers,
             ConstructThrows(o, f, n)
      PROVE  AsyncOp!Next \/ UNCHANGED AsyncOp!vars
  <2>1. \A x \in Ops :
          Promise(x)' = Promise(x) /\ Home(x)' = Home(x) /\ Ran(x)' = Ran(x)
    BY <1>2 DEF ConstructThrows, bound, objects
  <2> HIDE DEF Promise, Home, Ran
  <2>2. QED BY <2>1, AsyncKept
<1>3. ASSUME NEW o \in Objects, NEW p \in Objects,
             Move(o, p)
      PROVE  AsyncOp!Next \/ UNCHANGED AsyncOp!vars
  <2>1. \A x \in Ops :
          Promise(x)' = Promise(x) /\ Home(x)' = Home(x) /\ Ran(x)' = Ran(x)
    BY <1>3 DEF Move, bound, objects
  <2> HIDE DEF Promise, Home, Ran
  <2>2. QED BY <2>1, AsyncKept
<1>4. ASSUME NEW o \in Objects,
             Reset(o)
      PROVE  AsyncOp!Next \/ UNCHANGED AsyncOp!vars
  <2>1. \A x \in Ops :
          Promise(x)' = Promise(x) /\ Home(x)' = Home(x) /\ Ran(x)' = Ran(x)
    BY <1>4 DEF Reset, bound, objects
  <2> HIDE DEF Promise, Home, Ran
  <2>2. QED BY <2>1, AsyncKept
<1>5. ASSUME NEW o \in Objects,
             Destroy(o)
      PROVE  AsyncOp!Next \/ UNCHANGED AsyncOp!vars
  <2>1. \A x \in Ops :
          Promise(x)' = Promise(x) /\ Home(x)' = Home(x) /\ Ran(x)' = Ran(x)
    BY <1>5 DEF Destroy, bound, objects
  <2> HIDE DEF Promise, Home, Ran
  <2>2. QED BY <2>1, AsyncKept
<1>6. ASSUME NEW op \in Ops, NEW o \in Objects, NEW a \in {Null, Other},
             Initiate(op, o, a)
      PROVE  AsyncOp!Next \/ UNCHANGED AsyncOp!vars
  <2>1. /\ Promise(op) = "idle" /\ Promise(op)' = "pending"
        /\ Home(op)' = UserExecutor(a) /\ Ran(op)' = Ran(op)
    BY <1>6 DEF Initiate, Bind, StartWork, bound, objects, BoundInv, Unbound
  <2>2. \A x \in Ops \ {op} :
          Promise(x)' = Promise(x) /\ Home(x)' = Home(x) /\ Ran(x)' = Ran(x)
    BY <1>6 DEF Initiate, Bind, StartWork, bound, objects, BoundInv, Unbound
  <2>3. UserExecutor(a) \in Executors
    BY UserExecutorType
  <2> HIDE DEF Promise, Home, Ran
  <2>4. QED BY <2>1, <2>2, <2>3, AsyncInitiated
<1>7. ASSUME NEW op \in Ops, NEW o \in Objects, NEW a \in {Null, Other},
             Post(op, o, a)
      PROVE  AsyncOp!Next \/ UNCHANGED AsyncOp!vars
  <2>1. /\ Promise(op) = "idle" /\ Promise(op)' = "pending"
        /\ Home(op)' = UserExecutor(a) /\ Ran(op)' = Ran(op)
    BY <1>7 DEF Post, Bind, StartWork, bound, objects, BoundInv, Unbound
  <2>2. \A x \in Ops \ {op} :
          Promise(x)' = Promise(x) /\ Home(x)' = Home(x) /\ Ran(x)' = Ran(x)
    BY <1>7 DEF Post, Bind, StartWork, bound, objects, BoundInv, Unbound
  <2>3. UserExecutor(a) \in Executors
    BY UserExecutorType
  <2> HIDE DEF Promise, Home, Ran
  <2>4. QED BY <2>1, <2>2, <2>3, AsyncInitiated
<1>8. ASSUME NEW op \in Ops, NEW o \in Objects,
             InitiateThrows(op, o)
      PROVE  AsyncOp!Next \/ UNCHANGED AsyncOp!vars
  <2>1. /\ Promise(op) = "idle" /\ Promise(op)' = "dropped"
        /\ \A x \in Ops \ {op} : Promise(x)' = Promise(x)
    BY <1>8 DEF InitiateThrows, bound, objects
  <2>2. \A x \in Ops : Home(x)' = Home(x) /\ Ran(x)' = Ran(x)
    BY <1>8 DEF InitiateThrows, bound, objects
  <2> HIDE DEF Promise, Home, Ran
  <2>3. QED BY <2>1, <2>2, AsyncRefused
<1>9. ASSUME NEW op \in Ops,
             KernelCompletes(op)
      PROVE  AsyncOp!Next \/ UNCHANGED AsyncOp!vars
  <2>1. \A x \in Ops :
          Promise(x)' = Promise(x) /\ Home(x)' = Home(x) /\ Ran(x)' = Ran(x)
    BY <1>9 DEF KernelCompletes, bound, objects
  <2> HIDE DEF Promise, Home, Ran
  <2>2. QED BY <2>1, AsyncKept
<1>10. ASSUME NEW op \in Ops,
             DispatchInline(op)
      PROVE  AsyncOp!Next \/ UNCHANGED AsyncOp!vars
  <2>1. \A x \in Ops :
          Promise(x)' = Promise(x) /\ Home(x)' = Home(x) /\ Ran(x)' = Ran(x)
    BY <1>10 DEF DispatchInline, bound, objects
  <2> HIDE DEF Promise, Home, Ran
  <2>2. QED BY <2>1, AsyncKept
<1>11. ASSUME NEW op \in Ops,
             DispatchPosts(op)
      PROVE  AsyncOp!Next \/ UNCHANGED AsyncOp!vars
  <2>1. \A x \in Ops :
          Promise(x)' = Promise(x) /\ Home(x)' = Home(x) /\ Ran(x)' = Ran(x)
    BY <1>11 DEF DispatchPosts, StartWork, bound, objects
  <2> HIDE DEF Promise, Home, Ran
  <2>2. QED BY <2>1, AsyncKept
<1>12. ASSUME NEW op \in Ops,
             DispatchThrows(op)
      PROVE  AsyncOp!Next \/ UNCHANGED AsyncOp!vars
  <2>1. /\ Promise(op) = "pending" /\ Promise(op)' = "dropped"
        /\ \A x \in Ops \ {op} : Promise(x)' = Promise(x)
    BY <1>12 DEF DispatchThrows, bound, objects
  <2>2. \A x \in Ops : Home(x)' = Home(x) /\ Ran(x)' = Ran(x)
    BY <1>12 DEF DispatchThrows, bound, objects
  <2> HIDE DEF Promise, Home, Ran
  <2>3. QED BY <2>1, <2>2, AsyncDropped, {op} \in SUBSET Ops
<1>13. ASSUME NEW op \in Ops,
             RunPosted(op)
      PROVE  AsyncOp!Next \/ UNCHANGED AsyncOp!vars
  <2>1. \A x \in Ops :
          Promise(x)' = Promise(x) /\ Home(x)' = Home(x) /\ Ran(x)' = Ran(x)
    BY <1>13 DEF RunPosted, bound, objects
  <2> HIDE DEF Promise, Home, Ran
  <2>2. QED BY <2>1, AsyncKept
<1>14. ASSUME NEW op \in Ops,
             InvokeHandler(op)
      PROVE  AsyncOp!Next \/ UNCHANGED AsyncOp!vars
  <2>1. /\ Promise(op) = "pending" /\ Promise(op)' = "called"
        /\ \A x \in Ops \ {op} : Promise(x)' = Promise(x) /\ Ran(x)' = Ran(x)
    BY <1>14 DEF InvokeHandler, bound, objects, BoundInv, Unbound
  <2>2. Ran(op)' = Home(op) /\ \A x \in Ops : Home(x)' = Home(x)
    BY <1>14 DEF InvokeHandler, bound, objects, BoundInv, Unbound
  <2> HIDE DEF Promise, Home, Ran
  <2>3. QED BY <2>1, <2>2, AsyncCalled
<1>15. ASSUME NEW op \in Ops,
             AcceptAgain(op)
      PROVE  AsyncOp!Next \/ UNCHANGED AsyncOp!vars
  <2>1. \A x \in Ops :
          Promise(x)' = Promise(x) /\ Home(x)' = Home(x) /\ Ran(x)' = Ran(x)
    BY <1>15 DEF AcceptAgain, bound, objects
  <2> HIDE DEF Promise, Home, Ran
  <2>2. QED BY <2>1, AsyncKept
<1>16. ASSUME NEW op \in Ops,
             AcceptInitiated(op)
      PROVE  AsyncOp!Next \/ UNCHANGED AsyncOp!vars
  <2>1. \A x \in Ops :
          Promise(x)' = Promise(x) /\ Home(x)' = Home(x) /\ Ran(x)' = Ran(x)
    BY <1>16 DEF AcceptInitiated, StartWork, bound, objects
  <2> HIDE DEF Promise, Home, Ran
  <2>2. QED BY <2>1, AsyncKept
<1>17. ASSUME NEW op \in Ops,
             AcceptThrows(op)
      PROVE  AsyncOp!Next \/ UNCHANGED AsyncOp!vars
  <2>1. /\ Promise(op) = "pending" /\ Promise(op)' = "dropped"
        /\ \A x \in Ops \ {op} : Promise(x)' = Promise(x)
    BY <1>17 DEF AcceptThrows, bound, objects
  <2>2. \A x \in Ops : Home(x)' = Home(x) /\ Ran(x)' = Ran(x)
    BY <1>17 DEF AcceptThrows, bound, objects
  <2> HIDE DEF Promise, Home, Ran
  <2>3. QED BY <2>1, <2>2, AsyncDropped, {op} \in SUBSET Ops
<1>18. ASSUME NEW e \in Executors,
             FrameEnds(e)
      PROVE  AsyncOp!Next \/ UNCHANGED AsyncOp!vars
  <2>1. \A x \in Ops :
          Promise(x)' = Promise(x) /\ Home(x)' = Home(x) /\ Ran(x)' = Ran(x)
    BY <1>18 DEF FrameEnds, Left, BoundInv, bound, objects
  <2> HIDE DEF Promise, Home, Ran
  <2>2. QED BY <2>1, AsyncKept
<1>19. CASE Shutdown
  <2> DEFINE S == {op \in Ops : phase[op] \in Waiting}
  <2>1. \A op \in S : Promise(op) = "pending" /\ Promise(op)' = "dropped"
    BY <1>19 DEF Shutdown
  <2>2. \A x \in Ops : Home(x)' = Home(x) /\ Ran(x)' = Ran(x)
    BY <1>19 DEF Shutdown, bound
  <2>3. \A x \in Ops \ S : Promise(x)' = Promise(x)
    BY <1>19 DEF Shutdown
  <2>4. S \in SUBSET Ops
    OBVIOUS
  <2> HIDE DEF Promise, Home, Ran, S
  <2>5. QED BY <2>1, <2>2, <2>3, <2>4, AsyncDropped
<1>20. CASE UNCHANGED vars
  <2>1. \A x \in Ops :
          Promise(x)' = Promise(x) /\ Home(x)' = Home(x) /\ Ran(x)' = Ran(x)
    BY <1>20 DEF vars, bound
  <2> HIDE DEF Promise, Home, Ran
  <2>2. QED BY <2>1, AsyncKept
<1> HIDE DEF IInv, PlainTypes, Phases, Waiting, Called, Promise, Home, Ran
<1>21. QED
  <2>1. CASE ObjectNext
    BY <2>1, <1>1, <1>2, <1>3, <1>4, <1>5, <1>6, <1>7, <1>8 DEF ObjectNext
  <2>2. CASE CompletionNext
    BY <2>2, <1>9, <1>10, <1>11, <1>12, <1>13, <1>14, <1>15, <1>16, <1>17
    DEF CompletionNext
  <2>3. QED BY <2>1, <2>2, <1>18, <1>19, <1>20 DEF Next

LEMMA AsyncInit == Init => AsyncOp!Init
<1> SUFFICES ASSUME Init PROVE AsyncOp!Init
    OBVIOUS
<1>1. \A op \in Ops : Promise(op) = "idle" /\ Home(op) = Null /\ Ran(op) = Null
  BY DEF Init, Promise, Home, Ran, Waiting
<1>2. QED BY <1>1 DEF AsyncOp!Init, Home, Ran

(* Through all layers of wrappers a handler is called once, by the         *)
(* executor it is associated with, or dropped and never called.            *)
THEOREM AsyncOperationImplemented == Spec => ImplementsAsyncOperation
<1>1. Init => AsyncOp!Init
  BY AsyncInit
<1>2. IInv /\ [Next]_vars => [AsyncOp!Next]_AsyncOp!vars
  BY AsyncStep
<1>3. QED
  BY <1>1, <1>2, IInvInvariant, PTL DEF Spec, ImplementsAsyncOperation, AsyncOp!Spec
=============================================================================
