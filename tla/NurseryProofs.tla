---------------------------- MODULE NurseryProofs ----------------------------
(***************************************************************************)
(* Theorems about Nursery, for any set of tasks and nurseries.             *)
(***************************************************************************)
EXTENDS NurseryContract, IntrusiveListProofs

USE NurseryAssumption

Entry == [fn : {"resume", "destroy", "parent"}, arg : Task]

(***************************************************************************)
(* The inductive invariant.                                                *)
(***************************************************************************)

\* A frame that exists belongs to a nursery; one that does not cannot be
\* resumed.
Owned ==
    \A t \in Task :
        /\ t # Root /\ state[t] # "Unborn" => home[t] \in Scope
        /\ state[t] = "Unborn" => t # Root /\ onResume[t] = "doNothing"

TypeInv == TypeOK /\ Owned

\* No two tasks wait for the same nursery.
OneOpener ==
    \A p, q \in Task : state[p] \in Scope /\ state[p] = state[q] => p = q

\* A nursery is open exactly while it has tasks, and then its parent waits.
OpenNurseries ==
    \A n \in Scope :
        /\ executor[n] =>
            /\ parent[n] \in Task /\ state[parent[n]] = n
            /\ tasks[n] # <<>>
        /\ ~executor[n] => parent[n] = None /\ tasks[n] = <<>>

\* tasks_ of a nursery links the tasks of it that are alive, once each.
ListsSound ==
    \A n \in Scope : \A i \in 1..Len(tasks[n]) :
        /\ tasks[n][i] # Root /\ home[tasks[n][i]] = n /\ Alive(tasks[n][i])
        /\ \A j \in 1..Len(tasks[n]) : tasks[n][j] = tasks[n][i] => j = i
ListsComplete ==
    \A t \in Task \ {Root} : Alive(t) => Contains(tasks[home[t]], t)

\* q is a ready list: its entries are distinct, ...
EntriesDistinct(q) == \A i, j \in 1..Len(q) : q[i] = q[j] => i = j

\* ... are there for the reason the state of their task gives, ...
EntrySound(e) ==
    /\ e.fn = "resume" => state[e.arg] = "Ready"
    /\ e.fn = "destroy" => state[e.arg] = "Done" /\ e.arg # Root
    /\ e.fn = "parent" => state[e.arg] \in Scope /\ ~executor[state[e.arg]]
EntriesSound(q) == \A i \in 1..Len(q) : EntrySound(q[i])

\* ... and the frames of a nursery's tasks are destroyed before its parent
\* is resumed.
DestroyedFirst(q) ==
    \A i, j \in 1..Len(q) :
        /\ q[i].fn = "destroy" /\ q[j].fn = "parent"
        /\ home[q[i].arg] = state[q[j].arg]
        => i < j

ReadySound(q) == EntriesDistinct(q) /\ EntriesSound(q) /\ DestroyedFirst(q)

\* Whatever has to happen to task t is scheduled in q.
FrameScheduled(q, t) ==
    /\ state[t] = "Ready" => Contains(q, ResumeTask(t))
    /\ state[t] = "Done" /\ t # Root => Contains(q, DestroyFrame(t))
ParentScheduled(q, t) ==
    state[t] \in Scope /\ ~executor[state[t]] => Contains(q, ResumeParent(t))
ReadyComplete ==
    \A t \in Task : FrameScheduled(ready, t) /\ ParentScheduled(ready, t)

Structure ==
    /\ OneOpener /\ OpenNurseries /\ ListsSound /\ ListsComplete
    /\ StructuredConcurrency /\ ReadySound(ready) /\ ReadyComplete

IndInv == TypeInv /\ Structure

(***************************************************************************)
(* Types.                                                                  *)
(***************************************************************************)

\* The part of the type invariant that a continuation touches.
CoreType ==
    /\ state \in [Task -> {"Unborn", "Ready", "Running", "Returning",
                           "Leaf", "Done"} \cup Scope]
    /\ tasks \in [Scope -> Seq(Task)]
    /\ parent \in [Scope -> Task \cup {None}]
    /\ executor \in [Scope -> BOOLEAN]
    /\ ready \in Seq(Entry)

\* What a nursery leaves to the executor are entries for tasks.
LEMMA DeferredType ==
    ASSUME NEW t \in Task, NEW p, NEW closes \in BOOLEAN, closes => p \in Task
    PROVE  Deferred(t, p, closes) \in Seq(Entry)
<1>1. <<DestroyFrame(t)>> \in Seq(Entry)
  BY DEF DestroyFrame, Entry
<1>2. closes => <<ResumeParent(p)>> \in Seq(Entry)
  BY DEF ResumeParent, Entry
<1>3. (IF closes THEN <<ResumeParent(p)>> ELSE <<>>) \in Seq(Entry)
  BY <1>2
<1> QED BY <1>1, <1>3, ConcatProperties DEF Deferred

\* Nursery::continuation leaves well-formed lists and entries behind.
LEMMA ContinuationType ==
    ASSUME TypeInv, NEW t \in Task, NEW q \in Seq(Entry),
           state[t] # "Unborn", Continuation(t, q)
    PROVE  CoreType'
<1>1. CASE t = Root
  BY <1>1 DEF TypeInv, TypeOK, Continuation, CoreType
<1>2. CASE t # Root
  <2> DEFINE n == home[t]
             rest == Unlink(tasks[n], t)
             closes == Closes(n, rest)
  <2>1. n \in Scope /\ rest \in Seq(Task) /\ closes \in BOOLEAN
    BY <1>2, UnlinkType DEF TypeInv, TypeOK, Owned, Closes
  <2>2. /\ state' = [state EXCEPT ![t] = "Done"]
        /\ tasks' = [tasks EXCEPT ![n] = rest]
        /\ parent' = [parent EXCEPT ![n] = IF closes THEN None ELSE @]
        /\ executor' = [executor EXCEPT ![n] = @ /\ ~closes]
        /\ ready' = q \o Deferred(t, parent[n], closes)
    BY <1>2 DEF Continuation
  <2>3. closes => parent[n] \in Task
    BY <2>1 DEF TypeInv, TypeOK, Closes
  <2>4. Deferred(t, parent[n], closes) \in Seq(Entry)
    BY <2>1, <2>3, DeferredType
  <2>5. ready' \in Seq(Entry)
    BY <2>2, <2>4, ConcatProperties
  <2> HIDE DEF n, rest, closes
  <2> QED BY <2>1, <2>2, <2>5 DEF TypeInv, TypeOK, CoreType
<1> QED BY <1>1, <1>2

\* The types of every variable that resuming a promise changes.
ResumeType ==
    /\ CoreType
    /\ cancelReq \in [Task -> BOOLEAN]
    /\ onResume \in [Task -> {"doNothing", "doResume", "doResumeAfterCancel"}]

LEMMA PropagateCancelType ==
    ASSUME TypeInv, NEW t \in Task, NEW q \in Seq(Entry),
           state[t] # "Unborn", PropagateCancel(t, q)
    PROVE  ResumeType'
BY ContinuationType DEF TypeInv, TypeOK, PropagateCancel, ResumeType

LEMMA DoResumeType ==
    ASSUME TypeInv, NEW t \in Task, NEW q \in Seq(Entry),
           NEW pending \in BOOLEAN, DoResume(t, q, pending)
    PROVE  ResumeType'
<1>1. ready' \in Seq(Entry)
  BY AppendProperties DEF DoResume, ResumeTask, Entry
<1> QED BY <1>1 DEF TypeInv, TypeOK, DoResume, ResumeType, CoreType

\* Resuming the handle of a task that exists.
LEMMA ResumeProxyType ==
    ASSUME TypeInv, NEW t \in Task, NEW q \in Seq(Entry), ResumeProxy(t, q)
    PROVE  ResumeType' /\ state[t] # "Unborn"
<1>1. state[t] # "Unborn"
  BY DEF TypeInv, Owned, ResumeProxy
<1>2. CASE DoResume(t, q, FALSE) \/ DoResume(t, q, TRUE)
  BY <1>1, <1>2, DoResumeType
<1>3. CASE PropagateCancel(t, q)
  BY <1>1, <1>3, PropagateCancelType
<1> QED BY <1>2, <1>3 DEF ResumeProxy

\* The stack of captured lists holds no empty list.
LEMMA AfterCapturedType ==
    ASSUME TypeInv, captured # <<>>
    PROVE  AfterCaptured \in Seq(Seq(Task) \ {<<>>})
<1> DEFINE L == Seq(Task) \ {<<>>}
           top == Head(captured)
<1>1. top \in L /\ Tail(captured) \in Seq(L)
  BY HeadTailProperties DEF TypeInv, TypeOK
<1>2. Tail(top) \in Seq(Task)
  BY <1>1, HeadTailProperties
<1>3. Tail(top) # <<>> => <<Tail(top)>> \in Seq(L)
  BY <1>2
<1>4. Tail(top) # <<>> => <<Tail(top)>> \o Tail(captured) \in Seq(L)
  BY <1>1, <1>3, ConcatProperties
<1> QED BY <1>1, <1>4 DEF AfterCaptured

LEMMA DoCancelType ==
    ASSUME TypeInv, NEW n \in Scope, NEW below \in Seq(Seq(Task) \ {<<>>})
    PROVE  DoCancel(n, below) \in Seq(Seq(Task) \ {<<>>})
<1> DEFINE L == Seq(Task) \ {<<>>}
<1>1. tasks[n] # <<>> => <<tasks[n]>> \in Seq(L)
  BY DEF TypeInv, TypeOK
<1>2. tasks[n] # <<>> => <<tasks[n]>> \o below \in Seq(L)
  BY <1>1, ConcatProperties
<1> QED BY <1>2 DEF DoCancel

\* Whatever resumes task t leaves it Ready or Done, and no other task changes.
LEMMA ResumeMoves ==
    ASSUME TypeInv, NEW t \in Task, NEW q,
           \/ ResumeProxy(t, q) \/ PropagateCancel(t, q) \/ Continuation(t, q)
           \/ DoResume(t, q, FALSE) \/ DoResume(t, q, TRUE)
    PROVE  \E s \in {"Ready", "Done"} : state' = [state EXCEPT ![t] = s]
BY DEF ResumeProxy, PropagateCancel, Continuation, DoResume

\* The types, and the ownership that the proof of the types rests on, are
\* kept by every step.
LEMMA TypeStep == TypeInv /\ EntriesSound(ready) /\ [Next]_vars => TypeInv'
<1> SUFFICES ASSUME TypeInv, EntriesSound(ready), [Next]_vars PROVE TypeInv'
  OBVIOUS
<1> USE DEF promiseVars, nurseryVars
<1>1. CASE UNCHANGED vars
  BY <1>1 DEF vars, TypeInv, TypeOK, Owned
<1>2. ASSUME NEW t \in Task, TaskStep(t) PROVE TypeInv'
  <2>1. CASE AwaitLeaf(t)
    BY <2>1 DEF AwaitLeaf, OnCpu, Trampoline, TypeInv, TypeOK, Owned
  <2>2. CASE EarlyCancel(t)
    <3>1. state[t] = "Running" /\ PropagateCancel(t, ready) /\ ready \in Seq(Entry)
      BY <2>2 DEF EarlyCancel, OnCpu, TypeInv, TypeOK, Entry
    <3>2. ResumeType'
      BY <3>1, PropagateCancelType
    <3>3. PICK s \in {"Ready", "Done"} : state' = [state EXCEPT ![t] = s]
      BY <3>1, ResumeMoves
    <3> QED BY <2>2, <3>1, <3>2, <3>3
            DEF EarlyCancel, PropagateCancel, ResumeType, CoreType, Entry, TypeInv, TypeOK, Owned
  <2>3. CASE AwaitReadyAnyway(t)
    <3>1. state[t] = "Running" /\ DoResume(t, ready, TRUE) /\ ready \in Seq(Entry)
      BY <2>3 DEF AwaitReadyAnyway, OnCpu, TypeInv, TypeOK, Entry
    <3>2. ResumeType'
      BY <3>1, DoResumeType
    <3> QED BY <2>3, <3>1, <3>2
            DEF AwaitReadyAnyway, DoResume, ResumeType, CoreType, Entry, TypeInv, TypeOK, Owned
  <2>4. ASSUME NEW n \in Scope, NEW b \in Task, OpenNursery(t, n, b) PROVE TypeInv'
    <3>1. /\ tasks' \in [Scope -> Seq(Task)]
          /\ ready' \in Seq([fn : {"resume", "destroy", "parent"}, arg : Task])
      BY <2>4, AppendProperties DEF OpenNursery, AddTask, ResumeTask, TypeInv, TypeOK
    <3>2. /\ state' = [state EXCEPT ![t] = n, ![b] = "Ready"]
          /\ home' = [home EXCEPT ![b] = n]
          /\ onResume' = [onResume EXCEPT ![t] = Trampoline(cancelReq[t])]
          /\ cancelReq' = [cancelReq EXCEPT ![t] = FALSE, ![b] = cancelReq[t]]
          /\ state[t] = "Running" /\ state[b] = "Unborn"
      BY <2>4 DEF OpenNursery, AddTask, OnCpu
    <3>3. /\ exception' = [exception EXCEPT ![n] =
                  IF cancelReq[t] THEN "cancelled" ELSE "none"]
          /\ parent' = [parent EXCEPT ![n] = t]
          /\ executor' = [executor EXCEPT ![n] = TRUE]
          /\ asked' = IF cancelReq[t] THEN asked \cup {b} ELSE asked
          /\ cpu' = None /\ UNCHANGED captured
      BY <2>4 DEF OpenNursery, AddTask
    <3>5. /\ state' \in [Task -> {"Unborn", "Ready", "Running", "Returning",
                                 "Leaf", "Done"} \cup Scope]
          /\ cancelReq' \in [Task -> BOOLEAN]
          /\ onResume' \in [Task -> {"doNothing", "doResume", "doResumeAfterCancel"}]
          /\ home' \in [Task -> Scope \cup {None}]
      BY <3>2 DEF Trampoline, TypeInv, TypeOK
    <3>6. /\ parent' \in [Scope -> Task \cup {None}]
          /\ executor' \in [Scope -> BOOLEAN]
          /\ exception' \in [Scope -> {"none", "cancelled"} \cup Task]
          /\ asked' \in SUBSET Task
      BY <3>3 DEF TypeInv, TypeOK
    <3>7. TypeOK'
      BY <3>1, <3>3, <3>5, <3>6 DEF TypeInv, TypeOK
    <3>8. Owned'
      BY <3>2 DEF TypeInv, TypeOK, Owned
    <3> QED BY <3>7, <3>8 DEF TypeInv
  <2>5. ASSUME NEW n \in Scope, NEW b \in Task, OpenNurseryStub(t, n, b) PROVE TypeInv'
    <3>1. ready' \in Seq([fn : {"resume", "destroy", "parent"}, arg : Task])
      BY <2>5, DeferredType, ConcatProperties DEF OpenNurseryStub, Entry, TypeInv, TypeOK
    <3>2. /\ state' = [state EXCEPT ![t] = n, ![b] = "Done"]
          /\ home' = [home EXCEPT ![b] = n]
          /\ onResume' = [onResume EXCEPT ![t] = Trampoline(cancelReq[t])]
          /\ cancelReq' = [cancelReq EXCEPT ![t] = FALSE]
          /\ cpu' = None /\ UNCHANGED <<tasks, parent, executor, captured>>
          /\ state[t] = "Running" /\ state[b] = "Unborn"
      BY <2>5 DEF OpenNurseryStub, OnCpu
    <3>3. PICK e \in {"none", "cancelled"} :
            /\ exception' = [exception EXCEPT ![n] = e]
            /\ asked' = IF e = "cancelled" THEN asked \cup {b} ELSE asked
      BY <2>5 DEF OpenNurseryStub
    <3>4. TypeOK'
      BY <3>1, <3>2, <3>3 DEF Trampoline, TypeInv, TypeOK
    <3>5. Owned'
      BY <3>2 DEF TypeInv, TypeOK, Owned
    <3> QED BY <3>4, <3>5 DEF TypeInv
  <2>6. ASSUME Return(t) \/ FinalSuspend(t) PROVE TypeInv'
    <3>1. state[t] # "Unborn" /\ Continuation(t, ready) /\ ready \in Seq(Entry)
      BY <2>6 DEF Return, FinalSuspend, OnCpu, TypeInv, TypeOK, Entry
    <3>2. CoreType'
      BY <3>1, ContinuationType
    <3>3. PICK s \in {"Ready", "Done"} : state' = [state EXCEPT ![t] = s]
      BY <3>1, ResumeMoves
    <3> QED BY <2>6, <3>1, <3>2, <3>3
            DEF Return, FinalSuspend, CoreType, Entry, TypeInv, TypeOK, Owned
  <2>7. CASE Throw(t)
    <3>1. state' = [state EXCEPT ![t] = "Returning"] /\ state[t] = "Running"
      BY <2>7 DEF Throw, OnCpu
    <3>2. CASE t = Root
      BY <2>7, <3>1, <3>2 DEF Throw, TypeInv, TypeOK, Owned
    <3>3. CASE t # Root
      <4>1. home[t] \in Scope
        BY <3>1, <3>3 DEF TypeInv, Owned
      <4>2. captured' \in Seq(Seq(Task) \ {<<>>})
        BY <2>7, <3>3, <4>1, DoCancelType DEF Throw, TypeInv, TypeOK
      <4>3. StoredException(home[t], t) \in {"none", "cancelled"} \cup Task
        BY <4>1 DEF StoredException, TypeInv, TypeOK
      <4>4. exception' = [exception EXCEPT ![home[t]] = StoredException(home[t], t)]
        BY <2>7, <3>3 DEF Throw
      <4>5. exception' \in [Scope -> {"none", "cancelled"} \cup Task]
        BY <4>3, <4>4 DEF TypeInv, TypeOK
      <4> QED BY <2>7, <3>1, <3>3, <4>2, <4>5 DEF Throw, TypeInv, TypeOK, Owned
    <3> QED BY <3>2, <3>3
  <2> QED BY <1>2, <2>1, <2>2, <2>3, <2>4, <2>5, <2>6, <2>7 DEF TaskStep
<1>3. ASSUME NEW p \in Task, CancelStep(p) PROVE TypeInv'
  <2>0. captured # <<>> /\ AfterCaptured \in Seq(Seq(Task) \ {<<>>})
    BY <1>3, AfterCapturedType
       DEF CancelStep, CancelPending, CancelLeaf, CancelLeafCompletes, CancelLeafLater, CancelNested
  <2>1. CASE CancelPending(p)
    BY <2>0, <2>1 DEF CancelPending, TypeInv, TypeOK, Owned
  <2>2. CASE CancelLeaf(p)
    <3>1. state[p] = "Leaf" /\ Continuation(p, ready) /\ ready \in Seq(Entry)
      BY <2>2 DEF CancelLeaf, TypeInv, TypeOK, Entry
    <3>2. CoreType'
      BY <3>1, ContinuationType
    <3>3. PICK s \in {"Ready", "Done"} : state' = [state EXCEPT ![p] = s]
      BY <3>1, ResumeMoves
    <3> QED BY <2>0, <2>2, <3>1, <3>2, <3>3
            DEF CancelLeaf, CoreType, Entry, TypeInv, TypeOK, Owned
  <2>3. CASE CancelLeafCompletes(p)
    <3>1. state[p] = "Leaf" /\ DoResume(p, ready, TRUE) /\ ready \in Seq(Entry)
      BY <2>3 DEF CancelLeafCompletes, TypeInv, TypeOK, Entry
    <3>2. ResumeType'
      BY <3>1, DoResumeType
    <3> QED BY <2>0, <2>3, <3>1, <3>2
            DEF CancelLeafCompletes, DoResume, ResumeType, CoreType, Entry, TypeInv, TypeOK, Owned
  <2>4. CASE CancelLeafLater(p)
    BY <2>0, <2>4 DEF CancelLeafLater, TypeInv, TypeOK, Owned
  <2>5. CASE CancelNested(p)
    <3>1. captured' \in Seq(Seq(Task) \ {<<>>})
      BY <2>0, <2>5, DoCancelType DEF CancelNested
    <3> QED BY <2>5, <3>1 DEF CancelNested, TypeInv, TypeOK, Owned
  <2> QED BY <1>3, <2>1, <2>2, <2>3, <2>4, <2>5 DEF CancelStep
<1>4. ASSUME NEW t \in Task, ExecutorStep(t) PROVE TypeInv'
  <2>0. ready # <<>> /\ Tail(ready) \in Seq(Entry)
    BY <1>4, HeadTailProperties
       DEF ExecutorStep, RunTask, RunDestroy, RunParent, Draining, TypeInv, TypeOK, Entry
  <2>1. CASE RunTask(t)
    <3>1. Head(ready) = [fn |-> "resume", arg |-> t] /\ 1 \in 1..Len(ready)
      BY <2>0, <2>1, HeadTailProperties, EmptySeq DEF RunTask, Draining, TypeInv, TypeOK
    <3>2. state[t] = "Ready"
      BY <2>0, <3>1 DEF EntriesSound, EntrySound
    <3> QED BY <2>0, <2>1, <3>2 DEF RunTask, Entry, TypeInv, TypeOK, Owned
  <2>2. CASE RunDestroy(t)
    <3>1. Head(ready) = [fn |-> "destroy", arg |-> t] /\ 1 \in 1..Len(ready)
      BY <2>0, <2>2, HeadTailProperties, EmptySeq DEF RunDestroy, Draining, TypeInv, TypeOK
    <3>2. t # Root
      BY <2>0, <3>1 DEF EntriesSound, EntrySound
    <3> QED BY <2>0, <2>2, <3>2 DEF RunDestroy, Entry, TypeInv, TypeOK, Owned
  <2>3. CASE RunParent(t)
    <3>1. ResumeProxy(t, Tail(ready))
      BY <2>3 DEF RunParent
    <3>2. ResumeType' /\ state[t] # "Unborn"
      BY <2>0, <3>1, ResumeProxyType
    <3>3. PICK s \in {"Ready", "Done"} : state' = [state EXCEPT ![t] = s]
      BY <3>1, ResumeMoves
    <3>4. \A u \in Task \ {t} : onResume'[u] = onResume[u]
      BY <3>1 DEF ResumeProxy, DoResume, PropagateCancel, TypeInv, TypeOK
    <3> QED BY <2>3, <3>2, <3>3, <3>4
            DEF RunParent, ResumeType, CoreType, Entry, TypeInv, TypeOK, Owned
  <2> QED BY <1>4, <2>1, <2>2, <2>3 DEF ExecutorStep
<1>5. CASE Call
  <2>1. ASSUME NEW n \in Scope, NEW c \in Task, Start(n, c) PROVE TypeInv'
    <3>1. /\ tasks' \in [Scope -> Seq(Task)]
          /\ ready' \in Seq([fn : {"resume", "destroy", "parent"}, arg : Task])
      BY <2>1, AppendProperties DEF Start, AddTask, ResumeTask, TypeInv, TypeOK
    <3> QED BY <2>1, <3>1 DEF Start, AddTask, CancelledAtStart, TypeInv, TypeOK, Owned
  <2>2. ASSUME NEW n \in Scope, NEW c \in Task, StartStub(n, c) PROVE TypeInv'
    <3>1. ready' \in Seq([fn : {"resume", "destroy", "parent"}, arg : Task])
      BY <2>2, DeferredType, ConcatProperties DEF StartStub, Entry, TypeInv, TypeOK
    <3> QED BY <2>2, <3>1 DEF StartStub, TypeInv, TypeOK, Owned
  <2>3. ASSUME NEW n \in Scope, CancelNursery(n) PROVE TypeInv'
    <3>1. captured' \in Seq(Seq(Task) \ {<<>>})
      BY <2>3, DoCancelType DEF CancelNursery, TypeInv, TypeOK
    <3> QED BY <2>3, <3>1 DEF CancelNursery, TypeInv, TypeOK, Owned
  <2>4. ASSUME NEW u \in Task, Wake(u) PROVE TypeInv'
    <3>1. ResumeProxy(u, ready) /\ ready \in Seq(Entry)
      BY <2>4 DEF Wake, TypeInv, TypeOK, Entry
    <3>2. ResumeType' /\ state[u] # "Unborn"
      BY <3>1, ResumeProxyType
    <3>3. PICK s \in {"Ready", "Done"} : state' = [state EXCEPT ![u] = s]
      BY <3>1, ResumeMoves
    <3>4. \A v \in Task \ {u} : onResume'[v] = onResume[v]
      BY <3>1 DEF ResumeProxy, DoResume, PropagateCancel, TypeInv, TypeOK
    <3> QED BY <2>4, <3>2, <3>3, <3>4
            DEF Wake, ResumeType, CoreType, Entry, TypeInv, TypeOK, Owned
  <2>5. CASE CancelRoot
    <3>1. captured' \in Seq(Seq(Task) \ {<<>>})
      BY <2>5 DEF CancelRoot
    <3> QED BY <2>5, <3>1 DEF CancelRoot, TypeInv, TypeOK, Owned
  <2> QED BY <1>5, <2>1, <2>2, <2>3, <2>4, <2>5 DEF Call
<1>6. CASE Finished
  BY <1>6 DEF Finished, vars, TypeInv, TypeOK, Owned
<1> QED BY <1>1, <1>2, <1>3, <1>4, <1>5, <1>6 DEF Next

LEMMA TypeInit == Init => TypeInv
BY DEF Init, TypeInv, TypeOK, Owned, ResumeTask

(***************************************************************************)
(* The structure: one lemma for each way in which a step can change the    *)
(* nurseries and the ready list, and one that says which step is which.    *)
(***************************************************************************)

\* What the structure is about.
structure == <<state, home, tasks, parent, executor, ready>>

LEMMA StructureUnchanged ==
    ASSUME Structure, UNCHANGED structure
    PROVE  Structure'
BY DEF Structure, structure, OneOpener, OpenNurseries, ListsSound, ListsComplete,
       StructuredConcurrency, ReadySound, ReadyComplete, Alive, Exists,
       EntriesDistinct, EntriesSound, EntrySound, DestroyedFirst,
       FrameScheduled, ParentScheduled

\* A task that runs suspends on a leaf, or throws.
LEMMA QuietMove ==
    ASSUME TypeInv, Structure, NEW t \in Task, state[t] = "Running",
           NEW s \in {"Leaf", "Returning"},
           state' = [state EXCEPT ![t] = s],
           UNCHANGED <<home, tasks, parent, executor, ready>>
    PROVE  Structure'
<1> USE DEF TypeInv, TypeOK, Structure
<1>0. s \notin Scope /\ s \notin {"Unborn", "Ready", "Done"}
      /\ state[t] \notin Scope
  BY DEF Entry
<1>1. OneOpener'
  BY <1>0 DEF OneOpener
<1>2. OpenNurseries'
  BY <1>0 DEF OpenNurseries
<1>3. ListsSound'
  BY <1>0 DEF ListsSound, Alive
<1>4. ListsComplete'
  BY <1>0 DEF ListsComplete, Alive
<1>5. StructuredConcurrency'
  BY <1>0 DEF StructuredConcurrency, Exists, Owned
<1>6. ReadySound(ready)'
  <2>1. EntriesDistinct(ready)'
    BY DEF ReadySound, EntriesDistinct
  <2>2. EntriesSound(ready)'
    BY <1>0 DEF ReadySound, EntriesSound, EntrySound
  <2>3. DestroyedFirst(ready)'
    BY <1>0 DEF ReadySound, DestroyedFirst, EntriesSound, EntrySound
  <2> QED BY <2>1, <2>2, <2>3 DEF ReadySound
<1>7. ReadyComplete'
  BY <1>0 DEF ReadyComplete, FrameScheduled, ParentScheduled
<1> QED BY <1>1, <1>2, <1>3, <1>4, <1>5, <1>6, <1>7

\* Taking the next entry off the ready list.
LEMMA HeadTaken ==
    ASSUME TypeInv, ReadySound(ready), ready # <<>>,
           NEW e, e = Head(ready), NEW q, q = Tail(ready)
    PROVE  /\ e \in Entry /\ EntrySound(e)
           /\ q \in Seq(Entry) /\ ReadySound(q) /\ ~Contains(q, e)
           /\ \A y : Contains(ready, y) <=> Contains(q, y) \/ y = e
           /\ e.fn = "parent" =>
                \A i \in 1..Len(ready) :
                    ready[i].fn = "destroy" => home[ready[i].arg] # state[e.arg]
<1>0. ready \in Seq(Entry)
  BY DEF TypeInv, TypeOK, Entry
<1>1. /\ q \in Seq(Entry)
      /\ e = ready[1] /\ 1 \in 1..Len(ready)
      /\ Len(ready) \in Nat /\ Len(q) = Len(ready) - 1
      /\ \A i \in 1..Len(q) : i + 1 \in 1..Len(ready) /\ q[i] = ready[i + 1]
      /\ \A y : Contains(ready, y) <=> Contains(q, y) \/ y = e
  BY <1>0, Popped
<1>2. EntriesDistinct(ready) /\ EntriesSound(ready) /\ DestroyedFirst(ready)
  BY DEF ReadySound
<1>3. e \in Entry
  BY <1>0, <1>1, ElementOfSeq
<1>4. EntrySound(e)
  BY <1>1, <1>2 DEF EntriesSound
<1>5. ~Contains(q, e)
  <2>1. SUFFICES ASSUME NEW i \in 1..Len(q), q[i] = e PROVE FALSE
    BY DEF Contains
  <2>2. i + 1 \in 1..Len(ready) /\ ready[i + 1] = ready[1] /\ i + 1 # 1
    BY <1>1, <2>1
  <2> QED BY <1>1, <1>2, <2>2 DEF EntriesDistinct
<1>6. EntriesDistinct(q)
  <2>1. SUFFICES ASSUME NEW i \in 1..Len(q), NEW j \in 1..Len(q), q[i] = q[j]
                 PROVE  i = j
    BY DEF EntriesDistinct
  <2>2. i + 1 = j + 1
    BY <1>1, <1>2, <2>1 DEF EntriesDistinct
  <2> QED BY <2>2, <1>1
<1>7. EntriesSound(q)
  BY <1>1, <1>2 DEF EntriesSound
<1>8. DestroyedFirst(q)
  <2>1. SUFFICES ASSUME NEW i \in 1..Len(q), NEW j \in 1..Len(q),
                        q[i].fn = "destroy", q[j].fn = "parent",
                        home[q[i].arg] = state[q[j].arg]
                 PROVE  i < j
    BY DEF DestroyedFirst
  <2>2. i + 1 < j + 1
    BY <1>1, <1>2, <2>1 DEF DestroyedFirst
  <2> QED BY <2>2, <1>1
<1>9. ASSUME e.fn = "parent", NEW i \in 1..Len(ready), ready[i].fn = "destroy",
             home[ready[i].arg] = state[e.arg]
      PROVE  FALSE
  <2>1. i < 1
    BY <1>1, <1>2, <1>9 DEF DestroyedFirst
  <2> QED BY <2>1
<1> QED BY <1>1, <1>3, <1>4, <1>5, <1>6, <1>7, <1>8, <1>9 DEF ReadySound

\* q is the ready list when task t, which is not scheduled, is resumed or
\* finishes: by itself, or by the entry of the nursery it waits for.
Released(q, t) ==
    \/ q = ready /\ state[t] \in {"Running", "Returning", "Leaf"}
    \/ ready # <<>> /\ Head(ready) = ResumeParent(t) /\ q = Tail(ready)

\* By then every frame of the nursery that t waited for is gone.
LEMMA ReleasedFacts ==
    ASSUME TypeInv, Structure, NEW t \in Task, NEW q, Released(q, t)
    PROVE  /\ q \in Seq(Entry) /\ ReadySound(q)
           /\ state[t] \in {"Running", "Returning", "Leaf"} \cup Scope
           /\ state[t] \in Scope => ~executor[state[t]]
           /\ ~Contains(q, ResumeParent(t))
           /\ \A u \in Task : FrameScheduled(q, u)
           /\ \A u \in Task : u # t => ParentScheduled(q, u)
           /\ \A u \in Task \ {Root} : state[u] # "Unborn" => home[u] # state[t]
<1>0. ready \in Seq(Entry)
  BY DEF TypeInv, TypeOK, Entry
<1>1. CASE q = ready /\ state[t] \in {"Running", "Returning", "Leaf"}
  <2>1. state[t] \notin Scope
    BY <1>1
  <2>2. ~Contains(q, ResumeParent(t))
    BY <1>1, <2>1 DEF Structure, ReadySound, EntriesSound, EntrySound, Contains, ResumeParent
  <2>3. \A u \in Task \ {Root} : state[u] # "Unborn" => home[u] # state[t]
    BY <2>1 DEF TypeInv, Owned
  <2> QED BY <1>0, <1>1, <2>1, <2>2, <2>3 DEF Structure, ReadyComplete
<1>2. CASE ready # <<>> /\ Head(ready) = ResumeParent(t) /\ q = Tail(ready)
  <2> DEFINE P == ResumeParent(t)
  <2>1. /\ q \in Seq(Entry) /\ ReadySound(q) /\ ~Contains(q, P) /\ EntrySound(P)
        /\ \A y : Contains(ready, y) <=> Contains(q, y) \/ y = P
        /\ P.fn = "parent" =>
             \A i \in 1..Len(ready) :
                 ready[i].fn = "destroy" => home[ready[i].arg] # state[P.arg]
    BY <1>2, HeadTaken DEF Structure
  <2>2. P.fn = "parent" /\ P.arg = t
    BY DEF ResumeParent
  <2> HIDE DEF P
  <2>3. state[t] \in Scope /\ ~executor[state[t]]
    BY <2>1, <2>2 DEF EntrySound
  <2>4. ASSUME NEW u \in Task PROVE FrameScheduled(q, u)
    <3>1. ResumeTask(u) # P /\ DestroyFrame(u) # P
      BY <2>2 DEF ResumeTask, DestroyFrame
    <3> QED BY <2>1, <3>1 DEF Structure, ReadyComplete, FrameScheduled
  <2>5. \A u \in Task : u # t => ParentScheduled(q, u)
    BY <2>1, <2>2 DEF Structure, ReadyComplete, ParentScheduled, ResumeParent
  <2>6. ASSUME NEW u \in Task \ {Root}, state[u] # "Unborn", home[u] = state[t]
        PROVE  FALSE
    <3>1. tasks[home[u]] = <<>>
      BY <2>3, <2>6 DEF Structure, OpenNurseries
    <3>2. ~Contains(tasks[home[u]], u)
      BY <3>1 DEF Contains
    <3>3. state[u] = "Done"
      BY <2>6, <3>2 DEF Structure, ListsComplete, Alive
    <3>4. PICK i \in 1..Len(ready) : ready[i] = DestroyFrame(u)
      BY <3>3 DEF Structure, ReadyComplete, FrameScheduled, Contains
    <3>5. ready[i].fn = "destroy" /\ ready[i].arg = u
      BY <3>4 DEF DestroyFrame
    <3> QED BY <2>1, <2>2, <2>6, <3>5
  <2> QED BY <2>1, <2>3, <2>4, <2>5, <2>6 DEF P
<1> QED BY <1>1, <1>2 DEF Released

\* The entries of such a list are about other tasks.
LEMMA OtherEntries ==
    ASSUME TypeInv, Structure, NEW t \in Task, NEW q, Released(q, t)
    PROVE  \A i \in 1..Len(q) : q[i] \in Entry /\ q[i].arg # t
<1>0. /\ q \in Seq(Entry) /\ EntriesSound(q)
      /\ state[t] \in {"Running", "Returning", "Leaf"} \cup Scope
      /\ ~Contains(q, ResumeParent(t))
  BY ReleasedFacts DEF ReadySound
<1>1. SUFFICES ASSUME NEW i \in 1..Len(q) PROVE q[i] \in Entry /\ q[i].arg # t
  OBVIOUS
<1>2. q[i] \in Entry
  BY <1>0, ElementOfSeq
<1>3. CASE q[i].fn = "parent"
  <2>1. q[i] # ResumeParent(t)
    BY <1>0 DEF Contains
  <2> QED BY <1>2, <1>3, <2>1 DEF Entry, ResumeParent
<1>4. CASE q[i].fn # "parent"
  BY <1>0, <1>2, <1>4 DEF EntriesSound, EntrySound, Entry
<1> QED BY <1>2, <1>3, <1>4

\* One more entry, for a reason that did not exist before.
LEMMA EntryAdded ==
    ASSUME NEW q \in Seq(Entry), NEW e \in Entry,
           EntriesDistinct(q), ~Contains(q, e)
    PROVE  EntriesDistinct(Append(q, e))
<1>1. /\ Len(q) \in Nat /\ Len(Append(q, e)) = Len(q) + 1
      /\ Append(q, e)[Len(q) + 1] = e
      /\ \A i \in 1..Len(q) : Append(q, e)[i] = q[i]
  BY Appended
<1>2. \A i \in 1..(Len(q) + 1) : i \in 1..Len(q) \/ i = Len(q) + 1
  BY <1>1
<1>3. \A i \in 1..Len(q) : q[i] # e
  BY DEF Contains
<1> QED BY <1>1, <1>2, <1>3 DEF EntriesDistinct

\* A task that was suspended, or runs, is scheduled for its next step.
LEMMA ResumeMove ==
    ASSUME TypeInv, Structure, NEW t \in Task, NEW q, Released(q, t),
           state' = [state EXCEPT ![t] = "Ready"],
           ready' = Append(q, ResumeTask(t)),
           UNCHANGED <<home, tasks, parent, executor>>
    PROVE  Structure'
<1> USE DEF TypeInv, TypeOK
<1> DEFINE e == ResumeTask(t)
<1>0. /\ q \in Seq(Entry) /\ ReadySound(q)
      /\ state[t] \in {"Running", "Returning", "Leaf"} \cup Scope
      /\ state[t] \in Scope => ~executor[state[t]]
      /\ ~Contains(q, ResumeParent(t))
      /\ \A u \in Task : FrameScheduled(q, u)
      /\ \A u \in Task : u # t => ParentScheduled(q, u)
      /\ \A u \in Task \ {Root} : state[u] # "Unborn" => home[u] # state[t]
  BY ReleasedFacts
<1>1. e \in Entry /\ e.fn = "resume" /\ e.arg = t
  BY DEF ResumeTask, Entry
<1>2. "Ready" \notin Scope /\ state[t] \notin {"Unborn", "Ready", "Done"}
  BY <1>0
<1>3. OneOpener'
  BY <1>2 DEF Structure, OneOpener
<1>4. OpenNurseries'
  BY <1>0, <1>2 DEF Structure, OpenNurseries
<1>5. ListsSound'
  BY <1>2 DEF Structure, ListsSound, Alive
<1>6. ListsComplete'
  BY <1>2 DEF Structure, ListsComplete, Alive
<1>7. StructuredConcurrency'
  <2>1. SUFFICES ASSUME NEW u \in Task \ {Root}, state'[u] # "Unborn"
                 PROVE  \E p \in Task : state'[p] = home[u]
    BY DEF StructuredConcurrency, Exists
  <2>2. state[u] # "Unborn"
    BY <1>2, <2>1
  <2>3. PICK p \in Task : state[p] = home[u]
    BY <2>2 DEF Structure, StructuredConcurrency, Exists
  <2>4. p # t
    BY <1>0, <2>2, <2>3
  <2> QED BY <2>3, <2>4
<1> HIDE DEF e
<1>8. ~Contains(q, e)
  BY <1>0, <1>1, <1>2 DEF ReadySound, EntriesSound, EntrySound, Contains
<1>9. /\ Len(q) \in Nat /\ Len(ready') = Len(q) + 1 /\ ready'[Len(q) + 1] = e
      /\ \A i \in 1..Len(q) : ready'[i] = q[i]
      /\ \A y : Contains(ready', y) <=> Contains(q, y) \/ y = e
  BY <1>0, <1>1, Appended DEF e
<1>10. \A i \in 1..Len(ready') : i \in 1..Len(q) \/ i = Len(q) + 1
  BY <1>9
<1>11. \A i \in 1..Len(q) : q[i] \in Entry /\ q[i].arg # t
  BY OtherEntries
<1>12. ReadySound(ready)'
  <2>1. EntriesDistinct(ready')
    BY <1>0, <1>1, <1>8, EntryAdded DEF ReadySound, e
  <2>2. EntriesSound(ready)'
    <3>1. \A i \in 1..Len(q) : EntrySound(q[i])'
      BY <1>0, <1>11 DEF ReadySound, EntriesSound, EntrySound, Entry
    <3>2. EntrySound(e)'
      BY <1>1 DEF EntrySound
    <3> QED BY <3>1, <3>2, <1>9, <1>10 DEF EntriesSound
  <2>3. DestroyedFirst(ready)'
    <3>1. SUFFICES ASSUME NEW i \in 1..Len(ready'), NEW j \in 1..Len(ready'),
                          ready'[i].fn = "destroy", ready'[j].fn = "parent",
                          home[ready'[i].arg] = state'[ready'[j].arg]
                   PROVE  i < j
      BY DEF DestroyedFirst
    <3>2. i \in 1..Len(q) /\ j \in 1..Len(q)
      BY <1>1, <1>9, <1>10, <3>1
    <3>3. state'[q[j].arg] = state[q[j].arg]
      BY <1>11, <3>2 DEF Entry
    <3> QED BY <1>0, <1>9, <3>1, <3>2, <3>3 DEF ReadySound, DestroyedFirst
  <2> QED BY <2>1, <2>2, <2>3 DEF ReadySound, EntriesDistinct
<1>13. ReadyComplete'
  BY <1>0, <1>2, <1>9 DEF ReadyComplete, FrameScheduled, ParentScheduled, e
<1> QED BY <1>3, <1>4, <1>5, <1>6, <1>7, <1>12, <1>13 DEF Structure

\* What continuation() appends to the ready list, entry by entry.
LEMMA DeferredEntries ==
    ASSUME NEW q \in Seq(Entry), NEW t \in Task, NEW p \in Task
    PROVE  /\ q \o Deferred(t, p, FALSE) = Append(q, DestroyFrame(t))
           /\ q \o Deferred(t, p, TRUE) =
                Append(Append(q, DestroyFrame(t)), ResumeParent(p))
<1> DEFINE d == <<DestroyFrame(t)>>
           r == <<ResumeParent(p)>>
<1>1. DestroyFrame(t) \in Entry /\ ResumeParent(p) \in Entry
  BY DEF DestroyFrame, ResumeParent, Entry
<1>2. d \in Seq(Entry) /\ r \in Seq(Entry) /\ Append(q, DestroyFrame(t)) = q \o d
  BY <1>1, AppendIsConcat
<1>3. Deferred(t, p, FALSE) = d
  BY <1>2, ConcatEmptySeq DEF Deferred
<1>4. Deferred(t, p, TRUE) = d \o r
  BY DEF Deferred
<1>5. (q \o d) \o r = q \o (d \o r) /\ q \o d \in Seq(Entry)
  BY <1>2, ConcatAssociative, ConcatProperties
<1>6. Append(q \o d, ResumeParent(p)) = (q \o d) \o r
  BY <1>1, <1>5, AppendIsConcat
<1> QED BY <1>2, <1>3, <1>4, <1>5, <1>6

\* A task that finishes is in its nursery, which is open; and it is not the
\* one that waits for that nursery.
LEMMA FinishFacts ==
    ASSUME TypeInv, Structure, NEW t \in Task \ {Root}, NEW q, Released(q, t)
    PROVE  /\ home[t] \in Scope
           /\ Contains(tasks[home[t]], t) /\ tasks[home[t]] # <<>>
           /\ executor[home[t]] /\ parent[home[t]] \in Task \ {t}
           /\ state[parent[home[t]]] = home[t]
<1>1. /\ state[t] \notin {"Unborn", "Done"}
      /\ state[t] \in Scope => ~executor[state[t]]
  BY ReleasedFacts
<1>2. home[t] \in Scope /\ Contains(tasks[home[t]], t)
  BY <1>1 DEF TypeInv, Owned, Structure, ListsComplete, Alive
<1>3. tasks[home[t]] # <<>>
  BY <1>2 DEF Contains
<1> QED BY <1>1, <1>2, <1>3 DEF Structure, OpenNurseries

\* No other nursery loses its opener with t.
LEMMA FinishOpeners ==
    ASSUME TypeInv, Structure, NEW t \in Task, NEW q, Released(q, t),
           state' = [state EXCEPT ![t] = "Done"], UNCHANGED home
    PROVE  OneOpener' /\ StructuredConcurrency'
<1> USE DEF TypeInv, TypeOK
<1>1. /\ state[t] \notin {"Unborn", "Done"} /\ "Done" \notin Scope
      /\ \A u \in Task \ {Root} : state[u] # "Unborn" => home[u] # state[t]
  BY ReleasedFacts
<1>2. OneOpener'
  BY <1>1 DEF Structure, OneOpener
<1>3. SUFFICES ASSUME NEW u \in Task \ {Root}, state'[u] # "Unborn"
               PROVE  \E o \in Task : state'[o] = home[u]
  BY <1>2 DEF StructuredConcurrency, Exists
<1>4. state[u] # "Unborn"
  BY <1>1, <1>3
<1>5. PICK o \in Task : state[o] = home[u]
  BY <1>4 DEF Structure, StructuredConcurrency, Exists
<1>6. o # t
  BY <1>1, <1>4, <1>5
<1> QED BY <1>1, <1>5, <1>6

\* Its nursery still links exactly the tasks that are alive.
LEMMA FinishLists ==
    ASSUME TypeInv, Structure, NEW t \in Task \ {Root}, NEW q, Released(q, t),
           state' = [state EXCEPT ![t] = "Done"],
           tasks' = [tasks EXCEPT ![home[t]] = Unlink(tasks[home[t]], t)],
           UNCHANGED home
    PROVE  ListsSound' /\ ListsComplete'
<1> USE DEF TypeInv, TypeOK
<1>1. PICK n \in Scope : n = home[t] /\ Contains(tasks[n], t)
  BY FinishFacts
<1>2. PICK rest \in Seq(Task) : rest = Unlink(tasks[n], t)
  BY UnlinkType
<1>3. /\ \A u : Contains(rest, u) <=> Contains(tasks[n], u) /\ u # t
      /\ \A i, j \in 1..Len(rest) : rest[i] = rest[j] => i = j
  <2>1. PICK list \in Seq(Task) : list = tasks[n]
    OBVIOUS
  <2>2. \A i, j \in 1..Len(list) : list[i] = list[j] => i = j
    BY <2>1 DEF Structure, ListsSound
  <2>3. Contains(list, t)
    BY <1>1, <2>1
  <2>4. /\ \A u : Contains(Unlink(list, t), u) <=> Contains(list, u) /\ u # t
        /\ \A i, j \in 1..Len(Unlink(list, t)) :
             Unlink(list, t)[i] = Unlink(list, t)[j] => i = j
    BY <2>2, <2>3, UnlinkDistinct
  <2> QED BY <1>2, <2>1, <2>4
<1>4. tasks' = [tasks EXCEPT ![n] = rest]
  BY <1>1, <1>2
<1>5. ListsSound'
  <2>1. ASSUME NEW m \in Scope, NEW i \in 1..Len(tasks'[m])
        PROVE  /\ tasks'[m][i] # Root /\ home[tasks'[m][i]] = m
               /\ state'[tasks'[m][i]] \notin {"Unborn", "Done"}
               /\ \A j \in 1..Len(tasks'[m]) :
                    tasks'[m][j] = tasks'[m][i] => j = i
    <3>1. PICK u : u = tasks'[m][i]
      OBVIOUS
    <3>2. CASE m = n
      <4>1. tasks'[m] = rest
        BY <1>4, <3>2
      <4>2. u \in Task /\ Contains(tasks[n], u) /\ u # t
        <5>1. i \in 1..Len(rest) /\ u = rest[i]
          BY <2>1, <3>1, <4>1
        <5>2. u \in Task
          BY <5>1, <1>3, ElementOfSeq
        <5>3. Contains(rest, u)
          BY <5>1 DEF Contains
        <5> QED BY <5>2, <5>3, <1>3
      <4>3. u # Root /\ home[u] = n /\ Alive(u)
        BY <4>2 DEF Structure, ListsSound, Contains
      <4> QED BY <1>3, <3>1, <3>2, <4>1, <4>2, <4>3 DEF Alive
    <3>3. CASE m # n
      <4>1. tasks'[m] = tasks[m] /\ tasks[m] \in Seq(Task)
        BY <1>4, <3>3
      <4>2. u \in Task /\ u # Root /\ home[u] = m /\ Alive(u)
        BY <3>1, <4>1, ElementOfSeq DEF Structure, ListsSound
      <4>3. \A j \in 1..Len(tasks[m]) : tasks[m][j] = u => j = i
        BY <3>1, <4>1 DEF Structure, ListsSound
      <4> QED BY <1>1, <3>1, <3>3, <4>1, <4>2, <4>3 DEF Alive
    <3> QED BY <3>1, <3>2, <3>3
  <2> QED BY <2>1 DEF ListsSound, Alive
<1>6. ListsComplete'
  <2>1. SUFFICES ASSUME NEW u \in Task \ {Root}, Alive(u)'
                 PROVE  Contains(tasks'[home[u]], u)
    BY DEF ListsComplete
  <2>2. u # t /\ Alive(u)
    BY <2>1 DEF Alive
  <2>3. Contains(tasks[home[u]], u) /\ home[u] \in Scope
    BY <2>2 DEF Structure, ListsComplete, Owned, Alive
  <2> QED BY <1>3, <1>4, <2>2, <2>3
<1> QED BY <1>5, <1>6

\* The ready list once the frame of t is to be destroyed.
LEMMA FinishReady ==
    ASSUME TypeInv, Structure, NEW t \in Task \ {Root}, NEW q, Released(q, t),
           NEW r, r = Append(q, DestroyFrame(t)),
           state' = [state EXCEPT ![t] = "Done"], UNCHANGED home,
           \A m \in Scope : ~executor[m] => ~executor'[m]
    PROVE  /\ r \in Seq(Entry)
           /\ EntriesDistinct(r)
           /\ EntriesSound(r)'
           /\ DestroyedFirst(r)'
           /\ \A y : Contains(r, y) <=> Contains(q, y) \/ y = DestroyFrame(t)
           /\ \A p \in Task : state[p] = home[t] => ~Contains(r, ResumeParent(p))
<1> USE DEF TypeInv, TypeOK
<1> DEFINE D == DestroyFrame(t)
<1>1. D \in Entry /\ D.fn = "destroy" /\ D.arg = t
  BY DEF DestroyFrame, Entry
<1>2. \A i \in 1..Len(q) : q[i] \in Entry /\ q[i].arg # t
  BY OtherEntries
<1>3. /\ q \in Seq(Entry)
      /\ EntriesDistinct(q) /\ EntriesSound(q) /\ DestroyedFirst(q)
  BY ReleasedFacts DEF ReadySound
<1>4. home[t] \in Scope /\ executor[home[t]]
  BY FinishFacts
<1> HIDE DEF D
<1>5. /\ r \in Seq(Entry)
      /\ Len(q) \in Nat /\ Len(r) = Len(q) + 1 /\ r[Len(q) + 1] = D
      /\ \A i \in 1..Len(q) : r[i] = q[i]
      /\ \A y : Contains(r, y) <=> Contains(q, y) \/ y = D
  BY <1>1, <1>3, Appended DEF D
<1>6. \A i \in 1..Len(r) : i \in 1..Len(q) \/ i = Len(q) + 1
  BY <1>5
<1>7. EntriesDistinct(r)
  <2>1. ~Contains(q, D)
    BY <1>1, <1>2 DEF Contains
  <2> QED BY <1>1, <1>3, <2>1, EntryAdded DEF D
<1>8. EntriesSound(r)'
  <2>1. ASSUME NEW i \in 1..Len(q) PROVE EntrySound(q[i])'
    <3>1. EntrySound(q[i]) /\ q[i] \in Entry /\ q[i].arg # t
      BY <1>2, <1>3 DEF EntriesSound
    <3>2. state'[q[i].arg] = state[q[i].arg]
      BY <3>1 DEF Entry
    <3> QED BY <3>1, <3>2 DEF EntrySound
  <2>2. EntrySound(D)'
    BY <1>1 DEF EntrySound
  <2> QED BY <1>5, <1>6, <2>1, <2>2 DEF EntriesSound
\* the parent of an open nursery is not scheduled
<1>9. ASSUME NEW j \in 1..Len(q), q[j].fn = "parent"
      PROVE  state[q[j].arg] # home[t]
  BY <1>3, <1>4, <1>9 DEF EntriesSound, EntrySound
<1>10. DestroyedFirst(r)'
  <2>1. SUFFICES ASSUME NEW i \in 1..Len(r), NEW j \in 1..Len(r),
                        r[i].fn = "destroy", r[j].fn = "parent",
                        home[r[i].arg] = state'[r[j].arg]
                 PROVE  i < j
    BY DEF DestroyedFirst
  <2>2. j \in 1..Len(q)
    BY <1>1, <1>5, <1>6, <2>1
  <2>3. r[j] = q[j] /\ state'[q[j].arg] = state[q[j].arg]
    BY <1>2, <1>5, <2>2 DEF Entry
  <2>4. CASE i \in 1..Len(q)
    BY <1>3, <1>5, <2>1, <2>2, <2>3, <2>4 DEF DestroyedFirst
  <2>5. CASE i = Len(q) + 1
    BY <1>1, <1>5, <1>9, <2>1, <2>2, <2>3, <2>5
  <2> QED BY <1>6, <2>4, <2>5
<1>11. ASSUME NEW p \in Task, state[p] = home[t] PROVE ~Contains(r, ResumeParent(p))
  <2> DEFINE P == ResumeParent(p)
  <2>1. P.fn = "parent" /\ P.arg = p
    BY DEF ResumeParent
  <2> HIDE DEF P
  <2>2. ~Contains(q, P)
    BY <1>9, <1>11, <2>1 DEF Contains
  <2> QED BY <1>1, <1>5, <2>1, <2>2 DEF P
<1> QED BY <1>5, <1>7, <1>8, <1>10, <1>11 DEF D

\* The root task finishes.
LEMMA RootMove ==
    ASSUME TypeInv, Structure, NEW q, Released(q, Root),
           state' = [state EXCEPT ![Root] = "Done"], ready' = q,
           UNCHANGED <<home, tasks, parent, executor>>
    PROVE  Structure'
<1> USE DEF TypeInv, TypeOK
<1>0. /\ ReadySound(q) /\ "Done" \notin Scope
      /\ state[Root] \notin {"Unborn", "Ready", "Done"}
      /\ state[Root] \in Scope => ~executor[state[Root]]
      /\ \A u \in Task : FrameScheduled(q, u)
      /\ \A u \in Task : u # Root => ParentScheduled(q, u)
  BY ReleasedFacts
<1>1. \A i \in 1..Len(q) : q[i] \in Entry /\ q[i].arg # Root
  BY OtherEntries
<1>2. OneOpener' /\ StructuredConcurrency'
  BY FinishOpeners
<1>3. OpenNurseries'
  BY <1>0 DEF Structure, OpenNurseries
<1>4. ListsSound' /\ ListsComplete'
  BY <1>0 DEF Structure, ListsSound, ListsComplete, Alive
<1>5. ReadySound(ready)'
  <2>1. EntriesDistinct(ready)'
    BY <1>0 DEF ReadySound, EntriesDistinct
  <2>2. EntriesSound(ready)'
    BY <1>0, <1>1 DEF ReadySound, EntriesSound, EntrySound, Entry
  <2>3. DestroyedFirst(ready)'
    BY <1>0, <1>1 DEF ReadySound, DestroyedFirst, Entry
  <2> QED BY <2>1, <2>2, <2>3 DEF ReadySound
<1>6. ReadyComplete'
  BY <1>0 DEF ReadyComplete, FrameScheduled, ParentScheduled
<1> QED BY <1>2, <1>3, <1>4, <1>5, <1>6 DEF Structure

\* A task finishes that is not the last of its nursery.
LEMMA LeaveMove ==
    ASSUME TypeInv, Structure, NEW t \in Task \ {Root}, NEW q, Released(q, t),
           Unlink(tasks[home[t]], t) # <<>>,
           state' = [state EXCEPT ![t] = "Done"],
           tasks' = [tasks EXCEPT ![home[t]] = Unlink(tasks[home[t]], t)],
           ready' = Append(q, DestroyFrame(t)),
           UNCHANGED <<home, parent, executor>>
    PROVE  Structure'
<1> USE DEF TypeInv, TypeOK
<1>1. OneOpener' /\ StructuredConcurrency'
  BY FinishOpeners
<1>2. ListsSound' /\ ListsComplete'
  BY FinishLists
<1>3. /\ state[t] \notin {"Unborn", "Ready", "Done"} /\ "Done" \notin Scope
      /\ state[t] \in Scope => ~executor[state[t]]
      /\ \A u \in Task : FrameScheduled(q, u)
      /\ \A u \in Task : u # t => ParentScheduled(q, u)
  BY ReleasedFacts
<1>4. OpenNurseries'
  <2>1. \A m \in Scope : executor[m] => parent[m] # t
    BY <1>3 DEF Structure, OpenNurseries
  <2>2. home[t] \in Scope /\ executor[home[t]]
    BY FinishFacts
  <2> QED BY <2>1, <2>2 DEF Structure, OpenNurseries
<1>5. /\ EntriesDistinct(ready') /\ EntriesSound(ready)' /\ DestroyedFirst(ready)'
      /\ \A y : Contains(ready', y) <=> Contains(q, y) \/ y = DestroyFrame(t)
  <2>1. \A m \in Scope : ~executor[m] => ~executor'[m]
    OBVIOUS
  <2>2. PICK r : r = Append(q, DestroyFrame(t))
    OBVIOUS
  <2>3. /\ EntriesDistinct(r) /\ EntriesSound(r)' /\ DestroyedFirst(r)'
        /\ \A y : Contains(r, y) <=> Contains(q, y) \/ y = DestroyFrame(t)
    BY <2>1, <2>2, FinishReady
  <2> QED BY <2>2, <2>3 DEF EntriesSound, EntrySound, DestroyedFirst
<1>6. ReadySound(ready)'
  BY <1>5 DEF ReadySound, EntriesDistinct
<1>7. ReadyComplete'
  BY <1>3, <1>5 DEF ReadyComplete, FrameScheduled, ParentScheduled
<1> QED BY <1>1, <1>2, <1>4, <1>6, <1>7 DEF Structure

\* The parent of a closed nursery is scheduled, after everything else.
LEMMA ParentAppended ==
    ASSUME NEW p \in Task, NEW r \in Seq(Entry),
           EntriesDistinct(r), EntriesSound(r)', DestroyedFirst(r)',
           ~Contains(r, ResumeParent(p)),
           state'[p] \in Scope, ~executor'[state'[p]],
           ready' = Append(r, ResumeParent(p))
    PROVE  /\ ReadySound(ready)'
           /\ \A y : Contains(ready', y) <=> Contains(r, y) \/ y = ResumeParent(p)
<1> DEFINE P == ResumeParent(p)
<1>1. P \in Entry /\ P.fn = "parent" /\ P.arg = p /\ ready' = Append(r, P)
  BY DEF ResumeParent, Entry
<1>2. ~Contains(r, P)
  OBVIOUS
<1>3. EntriesDistinct(ready')
  BY <1>1, <1>2, EntryAdded
<1> HIDE DEF P
<1>4. /\ Len(r) \in Nat /\ Len(ready') = Len(r) + 1 /\ ready'[Len(r) + 1] = P
      /\ \A i \in 1..Len(r) : ready'[i] = r[i]
      /\ \A y : Contains(ready', y) <=> Contains(r, y) \/ y = P
  BY <1>1, Appended
<1>5. \A i \in 1..Len(ready') : i \in 1..Len(r) \/ i = Len(r) + 1
  BY <1>4
<1>6. EntriesSound(ready)'
  <2>1. \A i \in 1..Len(r) : EntrySound(r[i])'
    BY DEF EntriesSound
  <2>2. EntrySound(P)'
    BY <1>1 DEF EntrySound
  <2>3. SUFFICES ASSUME NEW i \in 1..Len(ready') PROVE EntrySound(ready[i])'
    BY DEF EntriesSound
  <2>4. CASE i \in 1..Len(r)
    <3>1. ready'[i] = r[i]
      BY <1>4, <2>4
    <3> QED BY <2>1, <2>4, <3>1 DEF EntrySound
  <2>5. CASE i = Len(r) + 1
    BY <1>4, <2>2, <2>5 DEF EntrySound
  <2> QED BY <1>5, <2>4, <2>5
<1>7. DestroyedFirst(ready)'
  <2>1. SUFFICES ASSUME NEW i \in 1..Len(ready'), NEW j \in 1..Len(ready'),
                        ready'[i].fn = "destroy", ready'[j].fn = "parent",
                        home'[ready'[i].arg] = state'[ready'[j].arg]
                 PROVE  i < j
    BY DEF DestroyedFirst
  <2>2. i \in 1..Len(r)
    BY <1>1, <1>4, <1>5, <2>1
  <2>3. CASE j \in 1..Len(r)
    BY <1>4, <2>1, <2>2, <2>3 DEF DestroyedFirst
  <2>4. CASE j = Len(r) + 1
    BY <1>4, <2>2, <2>4
  <2> QED BY <1>5, <2>3, <2>4
<1> QED BY <1>3, <1>4, <1>6, <1>7 DEF ReadySound, EntriesDistinct, P

\* The last task of a nursery finishes, and the nursery closes: the task that
\* waits for it is resumed, after the frame is destroyed.
LEMMA CloseMove ==
    ASSUME TypeInv, Structure, NEW t \in Task \ {Root}, NEW q, Released(q, t),
           Unlink(tasks[home[t]], t) = <<>>,
           state' = [state EXCEPT ![t] = "Done"],
           tasks' = [tasks EXCEPT ![home[t]] = Unlink(tasks[home[t]], t)],
           parent' = [parent EXCEPT ![home[t]] = None],
           executor' = [executor EXCEPT ![home[t]] = FALSE],
           ready' = Append(Append(q, DestroyFrame(t)), ResumeParent(parent[home[t]])),
           UNCHANGED home
    PROVE  Structure'
<1> USE DEF TypeInv, TypeOK
<1>1. OneOpener' /\ StructuredConcurrency'
  BY FinishOpeners
<1>2. ListsSound' /\ ListsComplete'
  BY FinishLists
<1>3. /\ state[t] \notin {"Unborn", "Ready", "Done"} /\ "Done" \notin Scope
      /\ state[t] \in Scope => ~executor[state[t]]
      /\ \A u \in Task : FrameScheduled(q, u)
      /\ \A u \in Task : u # t => ParentScheduled(q, u)
  BY ReleasedFacts
<1>4. PICK n \in Scope, p \in Task :
        /\ n = home[t] /\ p = parent[n] /\ p # t
        /\ state[p] = n /\ executor[n]
  BY FinishFacts
<1>5. OpenNurseries'
  <2>1. \A m \in Scope : executor[m] => parent[m] # t
    BY <1>3 DEF Structure, OpenNurseries
  <2>2. tasks'[n] = <<>> /\ parent'[n] = None /\ ~executor'[n]
    BY <1>4
  <2>3. \A m \in Scope \ {n} :
          tasks'[m] = tasks[m] /\ parent'[m] = parent[m] /\ executor'[m] = executor[m]
    BY <1>4
  <2> QED BY <2>1, <2>2, <2>3 DEF Structure, OpenNurseries
<1>6. PICK r : r = Append(q, DestroyFrame(t))
  OBVIOUS
<1>7. /\ r \in Seq(Entry)
      /\ EntriesDistinct(r) /\ EntriesSound(r)' /\ DestroyedFirst(r)'
      /\ \A y : Contains(r, y) <=> Contains(q, y) \/ y = DestroyFrame(t)
      /\ ~Contains(r, ResumeParent(p))
  <2>1. \A m \in Scope : ~executor[m] => ~executor'[m]
    OBVIOUS
  <2> QED BY <1>4, <1>6, <2>1, FinishReady
<1>8. state'[p] = n /\ ~executor'[n]
  BY <1>4
<1>9. /\ ReadySound(ready)'
      /\ \A y : Contains(ready', y) <=> Contains(r, y) \/ y = ResumeParent(p)
  BY <1>4, <1>6, <1>7, <1>8, ParentAppended
<1>10. ReadyComplete'
  <2>1. ASSUME NEW u \in Task PROVE FrameScheduled(ready, u)'
    BY <1>3, <1>7, <1>9 DEF FrameScheduled
  <2>2. ASSUME NEW u \in Task PROVE ParentScheduled(ready, u)'
    <3>1. SUFFICES ASSUME state'[u] \in Scope, ~executor'[state'[u]]
                   PROVE  Contains(ready', ResumeParent(u))
      BY DEF ParentScheduled
    <3>2. u # t /\ state[u] = state'[u]
      BY <1>3, <3>1
    <3>3. CASE state[u] = n
      <4>1. u = p
        BY <1>4, <3>3 DEF Structure, OneOpener
      <4> QED BY <4>1, <1>9
    <3>4. CASE state[u] # n
      BY <1>3, <1>4, <1>7, <1>9, <3>1, <3>2, <3>4 DEF ParentScheduled
    <3> QED BY <3>3, <3>4
  <2> QED BY <2>1, <2>2 DEF ReadyComplete
<1> QED BY <1>1, <1>2, <1>5, <1>9, <1>10 DEF Structure

\* Whichever way task t finishes.
LEMMA ContinueMove ==
    ASSUME TypeInv, Structure, NEW t \in Task, NEW q, Released(q, t),
           Continuation(t, q), UNCHANGED home
    PROVE  Structure'
<1> USE DEF TypeInv, TypeOK
<1>1. CASE t = Root
  <2>1. /\ state' = [state EXCEPT ![Root] = "Done"] /\ ready' = q
        /\ UNCHANGED <<home, tasks, parent, executor>>
    BY <1>1 DEF Continuation
  <2> QED BY <1>1, <2>1, RootMove
<1>2. CASE t # Root
  <2>1. /\ home[t] \in Scope /\ executor[home[t]]
        /\ parent[home[t]] \in Task /\ parent[home[t]] # None
    BY <1>2, FinishFacts
  <2>2. q \in Seq(Entry)
    BY ReleasedFacts
  <2> DEFINE n == home[t]
             rest == Unlink(tasks[n], t)
             closes == Closes(n, rest)
  <2>3. /\ state' = [state EXCEPT ![t] = "Done"]
        /\ tasks' = [tasks EXCEPT ![n] = rest]
        /\ parent' = [parent EXCEPT ![n] = IF closes THEN None ELSE @]
        /\ executor' = [executor EXCEPT ![n] = @ /\ ~closes]
        /\ ready' = q \o Deferred(t, parent[n], closes)
    BY <1>2 DEF Continuation
  <2>a. closes <=> rest = <<>>
    BY <2>1 DEF Closes
  <2>b. closes \in BOOLEAN
    BY DEF Closes
  <2> HIDE DEF closes
  <2>4. CASE rest = <<>>
    <3>1. closes = TRUE
      BY <2>a, <2>b, <2>4
    <3>2. /\ parent' = [parent EXCEPT ![n] = None]
          /\ executor' = [executor EXCEPT ![n] = FALSE]
      <4>1. parent' = [parent EXCEPT ![n] = None]
        BY <2>3, <3>1
      <4>2. executor' = [executor EXCEPT ![n] = FALSE]
        BY <2>3, <3>1
      <4> QED BY <4>1, <4>2
    <3>3. ready' = Append(Append(q, DestroyFrame(t)), ResumeParent(parent[n]))
      BY <2>1, <2>2, <2>3, <3>1, DeferredEntries
    <3> QED BY <1>2, <2>3, <2>4, <3>2, <3>3, CloseMove
  <2>5. CASE rest # <<>>
    <3>1. closes = FALSE
      BY <2>a, <2>b, <2>5
    <3>2. UNCHANGED <<parent, executor>>
      <4>1. parent' = [parent EXCEPT ![n] = parent[n]]
        BY <2>3, <3>1
      <4>2. executor' = [executor EXCEPT ![n] = executor[n]]
        BY <2>3, <3>1
      <4> QED BY <4>1, <4>2
    <3>3. ready' = Append(q, DestroyFrame(t))
      BY <2>1, <2>2, <2>3, <3>1, DeferredEntries
    <3> QED BY <1>2, <2>3, <2>5, <3>2, <3>3, LeaveMove
  <2> QED BY <2>4, <2>5
<1> QED BY <1>1, <1>2

\* The handle of a suspended task is resumed.
LEMMA ProxyMove ==
    ASSUME TypeInv, Structure, NEW t \in Task, NEW q, Released(q, t),
           \/ ResumeProxy(t, q) \/ DoResume(t, q, TRUE) \/ PropagateCancel(t, q),
           UNCHANGED home
    PROVE  Structure'
<1>1. ASSUME NEW pending \in BOOLEAN, DoResume(t, q, pending) PROVE Structure'
  BY <1>1, ResumeMove DEF DoResume
<1>2. CASE PropagateCancel(t, q)
  BY <1>2, ContinueMove DEF PropagateCancel
<1> QED BY <1>1, <1>2 DEF ResumeProxy

\* The executor resumes a frame.
LEMMA RunTaskMove ==
    ASSUME TypeInv, Structure, NEW t \in Task,
           ready # <<>>, Head(ready) = ResumeTask(t),
           state' = [state EXCEPT ![t] = "Running"], ready' = Tail(ready),
           UNCHANGED <<home, tasks, parent, executor>>
    PROVE  Structure'
<1> USE DEF TypeInv, TypeOK
<1> DEFINE e == ResumeTask(t)
<1>1. PICK q : q = Tail(ready)
  OBVIOUS
<1>2. /\ e \in Entry /\ EntrySound(e)
      /\ q \in Seq(Entry) /\ ReadySound(q) /\ ~Contains(q, e)
      /\ \A y : Contains(ready, y) <=> Contains(q, y) \/ y = e
  BY <1>1, HeadTaken DEF Structure
<1>3. e.fn = "resume" /\ e.arg = t
  BY DEF ResumeTask
<1> HIDE DEF e
<1>4. state[t] = "Ready" /\ "Running" \notin Scope /\ "Ready" \notin Scope
  BY <1>2, <1>3 DEF EntrySound
<1>5. \A i \in 1..Len(q) : q[i] \in Entry /\ q[i].arg # t
  <2>1. SUFFICES ASSUME NEW i \in 1..Len(q) PROVE q[i] \in Entry /\ q[i].arg # t
    OBVIOUS
  <2>2. q[i] \in Entry /\ EntrySound(q[i])
    BY <1>2, ElementOfSeq DEF ReadySound, EntriesSound
  <2>3. q[i] # e
    BY <1>2 DEF Contains
  <2> QED BY <1>4, <2>2, <2>3 DEF EntrySound, Entry, e, ResumeTask
<1>6. OneOpener' /\ OpenNurseries'
  BY <1>4 DEF Structure, OneOpener, OpenNurseries
<1>7. ListsSound' /\ ListsComplete'
  BY <1>4 DEF Structure, ListsSound, ListsComplete, Alive
<1>8. StructuredConcurrency'
  BY <1>4 DEF Structure, StructuredConcurrency, Exists, Owned
<1>9. ReadySound(ready)'
  <2>1. EntriesDistinct(ready)'
    BY <1>1, <1>2 DEF ReadySound, EntriesDistinct
  <2>2. EntriesSound(ready)'
    BY <1>1, <1>2, <1>5 DEF ReadySound, EntriesSound, EntrySound, Entry
  <2>3. DestroyedFirst(ready)'
    BY <1>1, <1>2, <1>5 DEF ReadySound, DestroyedFirst, Entry
  <2> QED BY <2>1, <2>2, <2>3 DEF ReadySound
<1>10. ReadyComplete'
  <2>1. ASSUME NEW u \in Task PROVE FrameScheduled(ready, u)'
    <3>1. DestroyFrame(u) # e /\ (u # t => ResumeTask(u) # e)
      BY <1>3 DEF DestroyFrame, ResumeTask
    <3> QED BY <1>1, <1>2, <1>4, <3>1 DEF Structure, ReadyComplete, FrameScheduled
  <2>2. ASSUME NEW u \in Task PROVE ParentScheduled(ready, u)'
    <3>1. ResumeParent(u) # e
      BY <1>3 DEF ResumeParent
    <3> QED BY <1>1, <1>2, <1>4, <3>1 DEF Structure, ReadyComplete, ParentScheduled
  <2> QED BY <2>1, <2>2 DEF ReadyComplete
<1> QED BY <1>6, <1>7, <1>8, <1>9, <1>10 DEF Structure

\* The executor destroys a frame.
LEMMA RunDestroyMove ==
    ASSUME TypeInv, Structure, NEW t \in Task,
           ready # <<>>, Head(ready) = DestroyFrame(t),
           state' = [state EXCEPT ![t] = "Unborn"],
           home' = [home EXCEPT ![t] = None], ready' = Tail(ready),
           UNCHANGED <<tasks, parent, executor>>
    PROVE  Structure'
<1> USE DEF TypeInv, TypeOK
<1> DEFINE e == DestroyFrame(t)
<1>1. PICK q : q = Tail(ready)
  OBVIOUS
<1>2. /\ e \in Entry /\ EntrySound(e)
      /\ q \in Seq(Entry) /\ ReadySound(q) /\ ~Contains(q, e)
      /\ \A y : Contains(ready, y) <=> Contains(q, y) \/ y = e
  BY <1>1, HeadTaken DEF Structure
<1>3. e.fn = "destroy" /\ e.arg = t
  BY DEF DestroyFrame
<1> HIDE DEF e
<1>4. state[t] = "Done" /\ t # Root /\ "Unborn" \notin Scope /\ "Done" \notin Scope
  BY <1>2, <1>3 DEF EntrySound
<1>5. \A i \in 1..Len(q) : q[i] \in Entry /\ q[i].arg # t
  <2>1. SUFFICES ASSUME NEW i \in 1..Len(q) PROVE q[i] \in Entry /\ q[i].arg # t
    OBVIOUS
  <2>2. q[i] \in Entry /\ EntrySound(q[i])
    BY <1>2, ElementOfSeq DEF ReadySound, EntriesSound
  <2>3. q[i] # e
    BY <1>2 DEF Contains
  <2> QED BY <1>4, <2>2, <2>3 DEF EntrySound, Entry, e, DestroyFrame
<1>6. OneOpener' /\ OpenNurseries'
  BY <1>4 DEF Structure, OneOpener, OpenNurseries
<1>7. ListsSound'
  <2>1. ASSUME NEW n \in Scope, NEW i \in 1..Len(tasks[n])
        PROVE  /\ tasks[n][i] # Root /\ home'[tasks[n][i]] = n
               /\ state'[tasks[n][i]] \notin {"Unborn", "Done"}
               /\ \A j \in 1..Len(tasks[n]) : tasks[n][j] = tasks[n][i] => j = i
    <3>1. PICK u \in Task : u = tasks[n][i]
      BY <2>1, ElementOfSeq
    <3>2. u # Root /\ home[u] = n /\ Alive(u)
      BY <3>1 DEF Structure, ListsSound
    <3>3. \A j \in 1..Len(tasks[n]) : tasks[n][j] = u => j = i
      BY <3>1 DEF Structure, ListsSound
    <3> QED BY <1>4, <3>1, <3>2, <3>3 DEF Alive
  <2> QED BY <2>1 DEF ListsSound, Alive
<1>8. ListsComplete'
  BY <1>4 DEF Structure, ListsComplete, Alive
<1>9. StructuredConcurrency'
  BY <1>4 DEF Structure, StructuredConcurrency, Exists, Owned
<1>10. ReadySound(ready)'
  <2>1. EntriesDistinct(ready)'
    BY <1>1, <1>2 DEF ReadySound, EntriesDistinct
  <2>2. EntriesSound(ready)'
    BY <1>1, <1>2, <1>5 DEF ReadySound, EntriesSound, EntrySound, Entry
  <2>3. DestroyedFirst(ready)'
    BY <1>1, <1>2, <1>5 DEF ReadySound, DestroyedFirst, Entry
  <2> QED BY <2>1, <2>2, <2>3 DEF ReadySound
<1>11. ReadyComplete'
  <2>1. ASSUME NEW u \in Task PROVE FrameScheduled(ready, u)'
    <3>1. ResumeTask(u) # e /\ (u # t => DestroyFrame(u) # e)
      BY <1>3 DEF DestroyFrame, ResumeTask
    <3> QED BY <1>1, <1>2, <1>4, <3>1 DEF Structure, ReadyComplete, FrameScheduled
  <2>2. ASSUME NEW u \in Task PROVE ParentScheduled(ready, u)'
    <3>1. ResumeParent(u) # e
      BY <1>3 DEF ResumeParent
    <3> QED BY <1>1, <1>2, <1>4, <3>1 DEF Structure, ReadyComplete, ParentScheduled
  <2> QED BY <2>1, <2>2 DEF ReadyComplete
<1> QED BY <1>6, <1>7, <1>8, <1>9, <1>10, <1>11 DEF Structure

\* Task c comes to life in nursery n, which is open, or which a running task
\* opens by the same step.
Born(c, n, s) ==
    /\ state[c] = "Unborn" /\ home' = [home EXCEPT ![c] = n]
    /\ \/ executor[n] /\ state' = [state EXCEPT ![c] = s]
       \/ ~Exists(n) /\ \E t \in Task :
            state[t] = "Running" /\ state' = [state EXCEPT ![t] = n, ![c] = s]
    /\ \A m \in Scope \ {n} :
        executor'[m] = executor[m] /\ parent'[m] = parent[m] /\ tasks'[m] = tasks[m]

LEMMA BornFacts ==
    ASSUME TypeInv, Structure, NEW c \in Task, NEW n \in Scope,
           NEW s \in {"Ready", "Done"}, Born(c, n, s)
    PROVE  /\ c # Root /\ home'[c] = n /\ state'[c] = s
           /\ \A u \in Task \ {c} : home'[u] = home[u]
           /\ \A u \in Task \ {c} :
                state'[u] = state[u] \/ (state[u] = "Running" /\ state'[u] = n)
           /\ \A u \in Task : state[u] \in Scope => state'[u] = state[u]
           /\ \A u, v \in Task : state'[u] = n /\ state'[v] = n => u = v
           /\ \E u \in Task : state'[u] = n
           /\ \A u \in Task : state[u] = n => executor[n]
<1> USE DEF TypeInv, TypeOK
<1>1. /\ c # Root /\ s \notin Scope /\ "Running" \notin Scope /\ "Unborn" \notin Scope
      /\ n \notin {"Ready", "Done", "Unborn", "Running"}
  BY DEF Owned, Born
<1>2. CASE executor[n] /\ state' = [state EXCEPT ![c] = s]
  <2>1. parent[n] \in Task /\ state[parent[n]] = n
    BY <1>2 DEF Structure, OpenNurseries
  <2>2. \A u \in Task \ {c} : state'[u] = state[u]
    BY <1>2
  <2>3. state'[c] = s /\ state[c] = "Unborn"
    BY <1>2 DEF Born
  <2> QED BY <1>1, <1>2, <2>1, <2>2, <2>3 DEF Born, Structure, OneOpener
<1>3. ASSUME ~Exists(n), NEW t \in Task, state[t] = "Running",
             state' = [state EXCEPT ![t] = n, ![c] = s]
      PROVE  /\ c # Root /\ home'[c] = n /\ state'[c] = s
             /\ \A u \in Task \ {c} : home'[u] = home[u]
             /\ \A u \in Task \ {c} :
                  state'[u] = state[u] \/ (state[u] = "Running" /\ state'[u] = n)
             /\ \A u \in Task : state[u] \in Scope => state'[u] = state[u]
             /\ \A u, v \in Task : state'[u] = n /\ state'[v] = n => u = v
             /\ \E u \in Task : state'[u] = n
             /\ \A u \in Task : state[u] = n => executor[n]
  <2>1. t # c /\ state[c] = "Unborn" /\ \A u \in Task : state[u] # n
    BY <1>3 DEF Born, Exists
  <2>2. state'[t] = n /\ state'[c] = s /\ \A u \in Task \ {c, t} : state'[u] = state[u]
    BY <1>3, <2>1
  <2> QED BY <1>1, <1>3, <2>1, <2>2 DEF Born
<1> QED BY <1>2, <1>3 DEF Born

LEMMA BornOpeners ==
    ASSUME TypeInv, Structure, NEW c \in Task, NEW n \in Scope,
           NEW s \in {"Ready", "Done"}, Born(c, n, s)
    PROVE  OneOpener' /\ StructuredConcurrency'
<1> USE DEF TypeInv, TypeOK
<1>1. /\ c # Root /\ home'[c] = n /\ state'[c] = s
      /\ \A u \in Task \ {c} : home'[u] = home[u]
      /\ \A u \in Task \ {c} :
           state'[u] = state[u] \/ (state[u] = "Running" /\ state'[u] = n)
      /\ \A u \in Task : state[u] \in Scope => state'[u] = state[u]
      /\ \A u, v \in Task : state'[u] = n /\ state'[v] = n => u = v
      /\ \E u \in Task : state'[u] = n
  BY BornFacts
<1>2. s \notin Scope /\ state[c] = "Unborn"
  BY DEF Born
<1>3. OneOpener'
  <2>1. SUFFICES ASSUME NEW u \in Task, NEW v \in Task,
                        state'[u] \in Scope, state'[u] = state'[v]
                 PROVE  u = v
    BY DEF OneOpener
  <2>2. CASE state'[u] = n
    <3>1. state'[u] = n /\ state'[v] = n
      BY <2>1, <2>2
    <3> QED BY ONLY <3>1, <1>1, u \in Task, v \in Task
  <2>3. CASE state'[u] # n
    <3>1. state'[u] = state[u] /\ state'[v] = state[v]
      BY <1>1, <1>2, <2>1, <2>3
    <3> QED BY <2>1, <3>1 DEF Structure, OneOpener
  <2> QED BY <2>2, <2>3
<1>4. StructuredConcurrency'
  <2>1. SUFFICES ASSUME NEW u \in Task \ {Root}, state'[u] # "Unborn"
                 PROVE  \E o \in Task : state'[o] = home'[u]
    BY DEF StructuredConcurrency, Exists
  <2>2. CASE u = c
    BY <1>1, <2>2
  <2>3. CASE u # c
    <3>1. state[u] # "Unborn" /\ home'[u] = home[u]
      BY <1>1, <2>1, <2>3
    <3>2. PICK o \in Task : state[o] = home[u] /\ home[u] \in Scope
      BY <3>1 DEF Structure, StructuredConcurrency, Exists, Owned
    <3> QED BY <1>1, <3>1, <3>2
  <2> QED BY <2>2, <2>3
<1> QED BY <1>3, <1>4

\* A stub is never in the list of its nursery, any other task is its last.
LEMMA BornLists ==
    ASSUME TypeInv, Structure, NEW c \in Task, NEW n \in Scope,
           NEW s \in {"Ready", "Done"}, Born(c, n, s),
           \/ s = "Ready" /\ tasks' = [tasks EXCEPT ![n] = Append(@, c)]
           \/ s = "Done" /\ tasks' = tasks
    PROVE  ListsSound' /\ ListsComplete'
<1> USE DEF TypeInv, TypeOK
<1>0. state[c] = "Unborn"
  BY DEF Born
<1>1. /\ c # Root /\ home'[c] = n /\ state'[c] = s
      /\ \A u \in Task \ {c} : home'[u] = home[u]
      /\ \A u \in Task \ {c} :
           state'[u] = state[u] \/ (state[u] = "Running" /\ state'[u] = n)
  BY BornFacts
<1>2. \A u \in Task \ {c} : Alive(u)' <=> Alive(u)
  BY <1>1 DEF Alive
\* the tasks that are in a list stay as they are
<1>3. ASSUME NEW m \in Scope, NEW i \in 1..Len(tasks[m])
      PROVE  /\ tasks[m][i] \in Task \ {c, Root} /\ home'[tasks[m][i]] = m
             /\ state'[tasks[m][i]] \notin {"Unborn", "Done"}
             /\ \A j \in 1..Len(tasks[m]) : tasks[m][j] = tasks[m][i] => j = i
  <2>1. PICK u \in Task : u = tasks[m][i]
    BY <1>3, ElementOfSeq
  <2>2. u # Root /\ home[u] = m /\ Alive(u)
    BY <2>1 DEF Structure, ListsSound
  <2>3. \A j \in 1..Len(tasks[m]) : tasks[m][j] = u => j = i
    BY <2>1 DEF Structure, ListsSound
  <2>4. u # c
    BY <1>0, <2>2 DEF Alive
  <2> QED BY <1>1, <1>2, <2>1, <2>2, <2>3, <2>4 DEF Alive
<1>4. CASE s = "Ready"
  <2>1. PICK list \in Seq(Task) : list = tasks[n]
    OBVIOUS
  <2>2. PICK longer : longer = Append(list, c)
    OBVIOUS
  <2>3. /\ Len(list) \in Nat /\ Len(longer) = Len(list) + 1 /\ longer[Len(list) + 1] = c
        /\ \A i \in 1..Len(list) : longer[i] = list[i]
        /\ \A y : Contains(longer, y) <=> Contains(list, y) \/ y = c
    BY <2>2, Appended
  <2>4. tasks'[n] = longer /\ \A m \in Scope \ {n} : tasks'[m] = tasks[m]
    BY <1>4, <2>1, <2>2
  <2>5. \A i \in 1..Len(longer) : i \in 1..Len(list) \/ i = Len(list) + 1
    BY <2>3
  <2>6. \A i \in 1..Len(list) :
          /\ list[i] \in Task \ {c, Root} /\ home'[list[i]] = n
          /\ state'[list[i]] \notin {"Unborn", "Done"}
          /\ \A j \in 1..Len(list) : list[j] = list[i] => j = i
    BY <1>3, <2>1
  <2>7. ASSUME NEW i \in 1..Len(longer)
        PROVE  /\ longer[i] # Root /\ home'[longer[i]] = n
               /\ state'[longer[i]] \notin {"Unborn", "Done"}
               /\ \A j \in 1..Len(longer) : longer[j] = longer[i] => j = i
    <3>1. CASE i \in 1..Len(list)
      <4>1. longer[i] = list[i] /\ longer[i] # c
        BY <2>3, <2>6, <3>1
      <4>2. ASSUME NEW j \in 1..Len(longer), longer[j] = longer[i] PROVE j = i
        <5>1. j \in 1..Len(list)
          BY <2>3, <2>5, <4>1, <4>2
        <5> QED BY <2>3, <2>6, <3>1, <4>1, <4>2, <5>1
      <4> QED BY <2>6, <3>1, <4>1, <4>2
    <3>2. CASE i = Len(list) + 1
      <4>1. longer[i] = c
        BY <2>3, <3>2
      <4>2. \A j \in 1..Len(list) : longer[j] # c
        BY <2>3, <2>6
      <4> QED BY <1>1, <1>4, <2>5, <3>2, <4>1, <4>2
    <3> QED BY <2>5, <3>1, <3>2
  <2>8. ASSUME NEW m \in Scope, NEW i \in 1..Len(tasks'[m])
        PROVE  /\ tasks'[m][i] # Root /\ home'[tasks'[m][i]] = m
               /\ state'[tasks'[m][i]] \notin {"Unborn", "Done"}
               /\ \A j \in 1..Len(tasks'[m]) : tasks'[m][j] = tasks'[m][i] => j = i
    <3>1. CASE m = n
      <4>1. tasks'[m] = longer
        BY <2>4, <3>1
      <4> QED BY <2>7, <2>8, <3>1, <4>1
    <3>2. CASE m # n
      BY <1>3, <2>4, <2>8, <3>2
    <3> QED BY <3>1, <3>2
  <2>9. ListsComplete'
    <3>1. SUFFICES ASSUME NEW u \in Task \ {Root}, Alive(u)'
                   PROVE  Contains(tasks'[home'[u]], u)
      BY DEF ListsComplete
    <3>2. CASE u = c
      <4>1. tasks'[home'[u]] = longer
        BY <1>1, <2>4, <3>2
      <4>2. Contains(longer, u)
        BY <2>3, <3>2
      <4> QED BY <4>1, <4>2
    <3>3. CASE u # c
      <4>1. Contains(tasks[home[u]], u) /\ home[u] \in Scope /\ home'[u] = home[u]
        BY <1>1, <1>2, <3>1, <3>3 DEF Structure, ListsComplete, Owned, Alive
      <4>2. CASE home[u] = n
        <5>1. tasks'[home'[u]] = longer
          BY <2>4, <4>1, <4>2
        <5>2. Contains(longer, u)
          BY <2>1, <2>3, <4>1, <4>2
        <5> QED BY <5>1, <5>2
      <4>3. CASE home[u] # n
        <5>1. tasks'[home'[u]] = tasks[home[u]]
          BY <2>4, <4>1, <4>3
        <5> QED BY <4>1, <5>1
      <4> QED BY <4>2, <4>3
    <3> QED BY <3>2, <3>3
  <2> QED BY <2>8, <2>9 DEF ListsSound, Alive
<1>5. CASE s = "Done"
  <2>1. tasks' = tasks
    BY <1>5
  <2>2. ListsComplete'
    BY <1>0, <1>1, <1>2, <1>5, <2>1 DEF Structure, ListsComplete, Alive
  <2> QED BY <1>3, <2>1, <2>2 DEF ListsSound, Alive
<1> QED BY <1>4, <1>5

\* Its entry comes last.
LEMMA BornReady ==
    ASSUME TypeInv, Structure, NEW c \in Task, NEW n \in Scope,
           NEW s \in {"Ready", "Done"}, Born(c, n, s),
           \A m \in Scope : Exists(m) => executor'[m] = executor[m],
           NEW e \in Entry, e.arg = c, e.fn # "parent", EntrySound(e)',
           NEW r, r = Append(ready, e)
    PROVE  /\ r \in Seq(Entry)
           /\ EntriesDistinct(r) /\ EntriesSound(r)' /\ DestroyedFirst(r)'
           /\ \A y : Contains(r, y) <=> Contains(ready, y) \/ y = e
<1>0. state[c] = "Unborn"
  BY DEF Born
<1>1. /\ c # Root /\ home'[c] = n /\ state'[c] = s
      /\ \A u \in Task \ {c} : home'[u] = home[u]
      /\ \A u \in Task \ {c} :
           state'[u] = state[u] \/ (state[u] = "Running" /\ state'[u] = n)
      /\ \A u \in Task : state[u] \in Scope => state'[u] = state[u]
      /\ \A u \in Task : state[u] = n => executor[n]
  BY BornFacts
<1>2. ready \in Seq(Entry)
  BY DEF TypeInv, TypeOK, Entry
<1>3. EntriesDistinct(ready) /\ EntriesSound(ready) /\ DestroyedFirst(ready)
  BY DEF Structure, ReadySound
<1>4. /\ r \in Seq(Entry)
      /\ Len(ready) \in Nat /\ Len(r) = Len(ready) + 1 /\ r[Len(ready) + 1] = e
      /\ \A i \in 1..Len(ready) : r[i] = ready[i]
      /\ \A y : Contains(r, y) <=> Contains(ready, y) \/ y = e
  <2>1. /\ Append(ready, e) \in Seq(Entry)
        /\ Len(ready) \in Nat /\ Len(Append(ready, e)) = Len(ready) + 1
        /\ Append(ready, e)[Len(ready) + 1] = e
        /\ \A i \in 1..Len(ready) : Append(ready, e)[i] = ready[i]
        /\ \A y : Contains(Append(ready, e), y) <=> Contains(ready, y) \/ y = e
    BY ONLY <1>2, e \in Entry, Appended
  <2> QED BY ONLY <2>1, r = Append(ready, e)
<1>5. \A i \in 1..Len(r) : i \in 1..Len(ready) \/ i = Len(ready) + 1
  BY <1>4
<1>6. ASSUME NEW i \in 1..Len(ready)
      PROVE  ready[i] \in Entry /\ EntrySound(ready[i]) /\ ready[i].arg \in Task \ {c}
  <2>1. ready[i] \in Entry /\ EntrySound(ready[i])
    BY <1>2, <1>3, ElementOfSeq DEF EntriesSound
  <2> QED BY <1>0, <2>1 DEF EntrySound, Entry
<1>7. EntriesDistinct(r)
  <2>1. ~Contains(ready, e)
    BY <1>6 DEF Contains
  <2> QED BY <1>2, <1>3, <2>1, EntryAdded
<1>8. EntriesSound(r)'
  <2>1. SUFFICES ASSUME NEW i \in 1..Len(r) PROVE EntrySound(r[i])'
    BY DEF EntriesSound
  <2>2. CASE i \in 1..Len(ready)
    <3>1. PICK u \in Task \ {c} : u = ready[i].arg
      BY <1>6, <2>2
    <3>2. r[i] = ready[i] /\ ready[i] \in Entry /\ EntrySound(ready[i])
      BY <1>4, <1>6, <2>2
    <3>3. state[u] # "Running" => state'[u] = state[u]
      BY <1>1
    <3>4. state[u] \in Scope => executor'[state[u]] = executor[state[u]]
      BY DEF Exists
    <3> QED BY <3>1, <3>2, <3>3, <3>4 DEF EntrySound, Entry
  <2>3. CASE i = Len(ready) + 1
    BY <1>4, <2>3 DEF EntrySound
  <2> QED BY <1>5, <2>2, <2>3
<1>9. DestroyedFirst(r)'
  <2>1. SUFFICES ASSUME NEW i \in 1..Len(r), NEW j \in 1..Len(r),
                        r[i].fn = "destroy", r[j].fn = "parent",
                        home'[r[i].arg] = state'[r[j].arg]
                 PROVE  i < j
    BY DEF DestroyedFirst
  <2>2. j \in 1..Len(ready)
    BY <1>4, <1>5, <2>1
  <2>3. /\ r[j] = ready[j] /\ ready[j].fn = "parent" /\ ready[j].arg \in Task
        /\ state[ready[j].arg] \in Scope /\ ~executor[state[ready[j].arg]]
    BY <1>4, <1>6, <2>1, <2>2 DEF EntrySound
  <2>4. state'[ready[j].arg] = state[ready[j].arg] /\ state[ready[j].arg] # n
    BY <1>1, <2>3
  <2>5. CASE i \in 1..Len(ready)
    <3>1. r[i] = ready[i] /\ home'[ready[i].arg] = home[ready[i].arg]
      BY <1>1, <1>4, <1>6, <2>5
    <3> QED BY <1>3, <2>1, <2>2, <2>3, <2>4, <2>5, <3>1 DEF DestroyedFirst
  <2>6. CASE i = Len(ready) + 1
    BY <1>1, <1>4, <2>1, <2>3, <2>4, <2>6
  <2> QED BY <1>5, <2>5, <2>6
<1> QED BY <1>4, <1>7, <1>8, <1>9

LEMMA TaskAppended ==
    ASSUME TypeInv, NEW n \in Scope, NEW c \in Task
    PROVE  Append(tasks[n], c) # <<>>
<1>1. PICK list \in Seq(Task) : list = tasks[n]
  BY DEF TypeInv, TypeOK
<1>2. /\ Append(list, c) \in Seq(Task)
      /\ Len(list) \in Nat /\ Len(Append(list, c)) = Len(list) + 1
      /\ Append(list, c)[Len(list) + 1] = c
      /\ \A i \in 1..Len(list) : Append(list, c)[i] = list[i]
      /\ \A y : Contains(Append(list, c), y) <=> Contains(list, y) \/ y = c
      /\ Append(list, c) # <<>>
  BY Appended
<1> QED BY <1>1, <1>2

\* A task, or a stub, is started in an open nursery.
LEMMA StartMove ==
    ASSUME TypeInv, Structure, NEW c \in Task, NEW n \in Scope,
           NEW s \in {"Ready", "Done"},
           executor[n], state[c] = "Unborn",
           state' = [state EXCEPT ![c] = s], home' = [home EXCEPT ![c] = n],
           \/ s = "Ready" /\ tasks' = [tasks EXCEPT ![n] = Append(@, c)]
           \/ s = "Done" /\ tasks' = tasks,
           NEW e, \/ s = "Ready" /\ e = ResumeTask(c)
                  \/ s = "Done" /\ e = DestroyFrame(c),
           ready' = Append(ready, e),
           UNCHANGED <<parent, executor>>
    PROVE  Structure'
<1>1. Born(c, n, s)
  BY DEF Born, TypeInv, TypeOK
<1>2. /\ OneOpener' /\ StructuredConcurrency'
      /\ ListsSound' /\ ListsComplete'
  <2>1. OneOpener' /\ StructuredConcurrency'
    BY <1>1, BornOpeners
  <2>2. ListsSound' /\ ListsComplete'
    BY <1>1, BornLists
  <2> QED BY <2>1, <2>2
<1> USE DEF TypeInv, TypeOK
<1>3. OpenNurseries'
  <2>1. \A u \in Task : state[u] \in Scope => state'[u] = state[u]
    BY <1>1, BornFacts
  <2>2. \A m \in Scope : tasks[m] # <<>> => tasks'[m] # <<>>
    BY TaskAppended
  <2>3. \A m \in Scope : ~executor[m] => tasks'[m] = tasks[m]
    OBVIOUS
  <2> QED BY <2>1, <2>2, <2>3 DEF Structure, OpenNurseries
<1>4. state'[c] = s /\ c # Root
  BY <1>1, BornFacts
<1>5. PICK r : r = Append(ready, e)
  OBVIOUS
<1>6. /\ r \in Seq(Entry)
      /\ EntriesDistinct(r) /\ EntriesSound(r)' /\ DestroyedFirst(r)'
      /\ \A y : Contains(r, y) <=> Contains(ready, y) \/ y = e
  <2>1. \A m \in Scope : Exists(m) => executor'[m] = executor[m]
    OBVIOUS
  <2>2. PICK fn \in {"resume", "destroy"} :
          /\ e \in Entry /\ e.arg = c /\ e.fn = fn
          /\ fn = IF s = "Ready" THEN "resume" ELSE "destroy"
    BY DEF Entry, ResumeTask, DestroyFrame
  <2>3. EntrySound(e)'
    BY <1>4, <2>2 DEF EntrySound
  <2>4. e.fn # "parent"
    BY <2>2
  <2>5. CASE s = "Ready"
    <3>1. Born(c, n, "Ready")
      BY <1>1, <2>5
    <3> QED BY <1>5, <2>1, <2>2, <2>3, <2>4, <3>1, BornReady
  <2>6. CASE s = "Done"
    <3>1. Born(c, n, "Done")
      BY <1>1, <2>6
    <3> QED BY <1>5, <2>1, <2>2, <2>3, <2>4, <3>1, BornReady
  <2> QED BY <2>5, <2>6
<1>7. EntriesDistinct(ready') /\ EntriesSound(ready)' /\ DestroyedFirst(ready)'
  BY <1>5, <1>6 DEF EntriesSound, EntrySound, DestroyedFirst
<1>8. ReadySound(ready)'
  BY <1>7 DEF ReadySound, EntriesDistinct
<1>9. ReadyComplete'
  BY <1>5, <1>6 DEF Structure, ReadyComplete, FrameScheduled, ParentScheduled
<1> QED BY <1>2, <1>3, <1>8, <1>9 DEF Structure

\* A nursery that does not exist is closed.
LEMMA FreshNursery ==
    ASSUME TypeInv, Structure, NEW n \in Scope, ~Exists(n)
    PROVE  ~executor[n] /\ parent[n] = None /\ tasks[n] = <<>>
BY DEF Structure, OpenNurseries, Exists

\* A nursery is opened, with its first task in it.
LEMMA OpenMove ==
    ASSUME TypeInv, Structure, NEW t \in Task, NEW c \in Task, NEW n \in Scope,
           state[t] = "Running", ~Exists(n), state[c] = "Unborn",
           state' = [state EXCEPT ![t] = n, ![c] = "Ready"],
           home' = [home EXCEPT ![c] = n],
           tasks' = [tasks EXCEPT ![n] = Append(@, c)],
           parent' = [parent EXCEPT ![n] = t],
           executor' = [executor EXCEPT ![n] = TRUE],
           ready' = Append(ready, ResumeTask(c))
    PROVE  Structure'
<1> USE DEF TypeInv, TypeOK
<1>1. Born(c, n, "Ready") /\ t # c
  BY DEF Born
<1>2. OneOpener' /\ StructuredConcurrency' /\ ListsSound' /\ ListsComplete'
  BY <1>1, BornOpeners, BornLists
<1>3. OpenNurseries'
  <2>1. \A u \in Task : state[u] \in Scope => state'[u] = state[u]
    BY <1>1, BornFacts
  <2>2. Append(tasks[n], c) # <<>>
    BY TaskAppended
  <2>3. tasks'[n] # <<>> /\ parent'[n] = t /\ executor'[n] /\ state'[t] = n
    BY <1>1, <2>2
  <2>4. \A m \in Scope \ {n} :
          tasks'[m] = tasks[m] /\ parent'[m] = parent[m] /\ executor'[m] = executor[m]
    OBVIOUS
  <2> QED BY <2>1, <2>3, <2>4 DEF Structure, OpenNurseries
<1>4. PICK r : r = Append(ready, ResumeTask(c))
  OBVIOUS
<1>5. /\ EntriesDistinct(r) /\ EntriesSound(r)' /\ DestroyedFirst(r)'
      /\ \A y : Contains(r, y) <=> Contains(ready, y) \/ y = ResumeTask(c)
  <2>1. \A m \in Scope : Exists(m) => executor'[m] = executor[m]
    OBVIOUS
  <2> DEFINE e == ResumeTask(c)
  <2>2. e \in Entry /\ e.arg = c /\ e.fn = "resume"
    BY DEF Entry, ResumeTask
  <2>3. state'[c] = "Ready" /\ c # Root
    BY <1>1, BornFacts
  <2> HIDE DEF e
  <2>4. EntrySound(e)'
    BY <2>2, <2>3 DEF EntrySound
  <2>5. r = Append(ready, e)
    BY <1>4 DEF e
  <2>6. /\ r \in Seq(Entry)
        /\ EntriesDistinct(r) /\ EntriesSound(r)' /\ DestroyedFirst(r)'
        /\ \A y : Contains(r, y) <=> Contains(ready, y) \/ y = e
    BY <1>1, <2>1, <2>2, <2>4, <2>5, BornReady
  <2> QED BY <2>6 DEF e
<1>6. ReadySound(ready)'
  <2>1. ready' = r
    BY <1>4
  <2>2. EntriesDistinct(ready') /\ EntriesSound(ready)' /\ DestroyedFirst(ready)'
    BY <1>5, <2>1 DEF EntriesSound, EntrySound, DestroyedFirst
  <2> QED BY <2>2 DEF ReadySound, EntriesDistinct
<1>7. ReadyComplete'
  <2>1. ASSUME NEW u \in Task PROVE FrameScheduled(ready, u)'
    <3>1. u # c => (state'[u] \in {"Ready", "Done"} => state'[u] = state[u])
      OBVIOUS
    <3>2. u = c => state'[u] = "Ready"
      BY <1>1
    <3> QED BY <1>4, <1>5, <3>1, <3>2 DEF Structure, ReadyComplete, FrameScheduled
  <2>2. ASSUME NEW u \in Task PROVE ParentScheduled(ready, u)'
    <3>1. SUFFICES ASSUME state'[u] \in Scope, ~executor'[state'[u]]
                   PROVE  Contains(ready', ResumeParent(u))
      BY DEF ParentScheduled
    <3>2. state[u] = state'[u] /\ ~executor[state[u]]
      BY <1>1, <3>1
    <3> QED BY <1>4, <1>5, <3>1, <3>2 DEF Structure, ReadyComplete, ParentScheduled
  <2> QED BY <2>1, <2>2 DEF ReadyComplete
<1> QED BY <1>2, <1>3, <1>6, <1>7 DEF Structure

\* A nursery is opened whose only task is a stub: it is closed at once.
LEMMA OpenStubMove ==
    ASSUME TypeInv, Structure, NEW t \in Task, NEW c \in Task, NEW n \in Scope,
           state[t] = "Running", ~Exists(n), state[c] = "Unborn",
           state' = [state EXCEPT ![t] = n, ![c] = "Done"],
           home' = [home EXCEPT ![c] = n],
           ready' = Append(Append(ready, DestroyFrame(c)), ResumeParent(t)),
           UNCHANGED <<tasks, parent, executor>>
    PROVE  Structure'
<1> USE DEF TypeInv, TypeOK
<1>1. Born(c, n, "Done") /\ t # c
  BY DEF Born
<1>2. OneOpener' /\ StructuredConcurrency' /\ ListsSound' /\ ListsComplete'
  BY <1>1, BornOpeners, BornLists
<1>3. OpenNurseries'
  <2>1. \A u \in Task : state[u] \in Scope => state'[u] = state[u]
    BY <1>1, BornFacts
  <2> QED BY <2>1 DEF Structure, OpenNurseries
<1>4. PICK r : r = Append(ready, DestroyFrame(c))
  OBVIOUS
<1>5. /\ r \in Seq(Entry)
      /\ EntriesDistinct(r) /\ EntriesSound(r)' /\ DestroyedFirst(r)'
      /\ \A y : Contains(r, y) <=> Contains(ready, y) \/ y = DestroyFrame(c)
  <2>1. \A m \in Scope : Exists(m) => executor'[m] = executor[m]
    OBVIOUS
  <2> DEFINE e == DestroyFrame(c)
  <2>2. e \in Entry /\ e.arg = c /\ e.fn = "destroy"
    BY DEF Entry, DestroyFrame
  <2>3. state'[c] = "Done" /\ c # Root
    BY <1>1, BornFacts
  <2> HIDE DEF e
  <2>4. EntrySound(e)'
    BY <2>2, <2>3 DEF EntrySound
  <2>5. r = Append(ready, e)
    BY <1>4 DEF e
  <2>6. /\ r \in Seq(Entry)
        /\ EntriesDistinct(r) /\ EntriesSound(r)' /\ DestroyedFirst(r)'
        /\ \A y : Contains(r, y) <=> Contains(ready, y) \/ y = e
    BY <1>1, <2>1, <2>2, <2>4, <2>5, BornReady
  <2> QED BY <2>6 DEF e
<1>6. state'[t] = n /\ ~executor'[n] /\ state'[c] = "Done"
  BY <1>1, FreshNursery
<1>7. ~Contains(r, ResumeParent(t))
  <2>1. ResumeParent(t) # DestroyFrame(c)
    BY DEF ResumeParent, DestroyFrame
  <2>2. ~Contains(ready, ResumeParent(t))
    <3>1. SUFFICES ASSUME EntrySound(ResumeParent(t)) PROVE FALSE
      BY DEF Structure, ReadySound, EntriesSound, Contains
    <3>2. state[t] \in Scope
      BY <3>1 DEF EntrySound, ResumeParent
    <3> QED BY <3>2
  <2> QED BY <1>5, <2>1, <2>2
<1>8. /\ ReadySound(ready)'
      /\ \A y : Contains(ready', y) <=> Contains(r, y) \/ y = ResumeParent(t)
  <2>1. ready' = Append(r, ResumeParent(t))
    BY <1>4
  <2>2. state'[t] \in Scope /\ ~executor'[state'[t]]
    BY <1>6
  <2> QED BY <1>5, <1>7, <2>1, <2>2, ParentAppended
<1>9. ReadyComplete'
  <2>1. ASSUME NEW u \in Task PROVE FrameScheduled(ready, u)'
    <3>1. u # c => (state'[u] \in {"Ready", "Done"} => state'[u] = state[u])
      OBVIOUS
    <3> QED BY <1>5, <1>6, <1>8, <3>1 DEF Structure, ReadyComplete, FrameScheduled
  <2>2. ASSUME NEW u \in Task PROVE ParentScheduled(ready, u)'
    <3>1. SUFFICES ASSUME state'[u] \in Scope, ~executor'[state'[u]], u # t
                   PROVE  Contains(ready', ResumeParent(u))
      BY <1>8 DEF ParentScheduled
    <3>2. state[u] = state'[u] /\ ~executor[state[u]]
      BY <1>1, <1>6, <3>1
    <3> QED BY <1>5, <1>8, <3>1, <3>2 DEF Structure, ReadyComplete, ParentScheduled
  <2> QED BY <2>1, <2>2 DEF ReadyComplete
<1> QED BY <1>2, <1>3, <1>8, <1>9 DEF Structure

(***************************************************************************)
(* Which step is which.                                                    *)
(***************************************************************************)

LEMMA StructureTaskStep ==
    ASSUME TypeInv, Structure, NEW t \in Task, TaskStep(t)
    PROVE  Structure'
<1> USE DEF promiseVars, nurseryVars
<1>1. CASE AwaitLeaf(t)
  BY <1>1, QuietMove DEF AwaitLeaf, OnCpu
<1>2. CASE EarlyCancel(t)
  <2>1. Released(ready, t) /\ PropagateCancel(t, ready) /\ UNCHANGED home
    BY <1>2 DEF EarlyCancel, OnCpu, Released
  <2> QED BY <2>1, ProxyMove
<1>3. CASE AwaitReadyAnyway(t)
  <2>1. Released(ready, t) /\ DoResume(t, ready, TRUE) /\ UNCHANGED home
    BY <1>3 DEF AwaitReadyAnyway, OnCpu, Released
  <2> QED BY <2>1, ProxyMove
<1>4. ASSUME NEW n \in Scope, NEW b \in Task, OpenNursery(t, n, b) PROVE Structure'
  <2>1. state[t] = "Running" /\ ~Exists(n) /\ state[b] = "Unborn"
    BY <1>4 DEF OpenNursery, AddTask, OnCpu
  <2> QED BY <1>4, <2>1, OpenMove DEF OpenNursery, AddTask
<1>5. ASSUME NEW n \in Scope, NEW b \in Task, OpenNurseryStub(t, n, b) PROVE Structure'
  <2>1. state[t] = "Running" /\ ~Exists(n) /\ state[b] = "Unborn"
    BY <1>5 DEF OpenNurseryStub, OnCpu
  <2>2. ready' = Append(Append(ready, DestroyFrame(b)), ResumeParent(t))
    <3>1. ready \in Seq(Entry)
      BY DEF TypeInv, TypeOK, Entry
    <3>2. ready' = ready \o Deferred(b, t, TRUE)
      BY <1>5 DEF OpenNurseryStub
    <3> QED BY <3>1, <3>2, DeferredEntries
  <2> QED BY <1>5, <2>1, <2>2, OpenStubMove DEF OpenNurseryStub
<1>6. CASE Return(t) \/ FinalSuspend(t)
  <2>1. Released(ready, t) /\ Continuation(t, ready) /\ UNCHANGED home
    BY <1>6 DEF Return, FinalSuspend, OnCpu, Released
  <2> QED BY <2>1, ContinueMove
<1>7. CASE Throw(t)
  BY <1>7, QuietMove DEF Throw, OnCpu
<1> QED BY <1>1, <1>2, <1>3, <1>4, <1>5, <1>6, <1>7 DEF TaskStep

LEMMA StructureCancelStep ==
    ASSUME TypeInv, Structure, NEW p \in Task, CancelStep(p)
    PROVE  Structure'
<1> USE DEF promiseVars, nurseryVars
<1>1. CASE CancelPending(p) \/ CancelLeafLater(p) \/ CancelNested(p)
  <2>1. UNCHANGED structure
    BY <1>1 DEF CancelPending, CancelLeafLater, CancelNested, structure
  <2> QED BY <2>1, StructureUnchanged
<1>2. CASE CancelLeaf(p)
  <2>1. Released(ready, p) /\ Continuation(p, ready) /\ UNCHANGED home
    BY <1>2 DEF CancelLeaf, Released
  <2> QED BY <2>1, ContinueMove
<1>3. CASE CancelLeafCompletes(p)
  <2>1. Released(ready, p) /\ DoResume(p, ready, TRUE) /\ UNCHANGED home
    BY <1>3 DEF CancelLeafCompletes, Released
  <2> QED BY <2>1, ProxyMove
<1> QED BY <1>1, <1>2, <1>3 DEF CancelStep

LEMMA StructureExecutorStep ==
    ASSUME TypeInv, Structure, NEW t \in Task, ExecutorStep(t)
    PROVE  Structure'
<1> USE DEF promiseVars, nurseryVars
<1>1. CASE RunTask(t)
  BY <1>1, RunTaskMove DEF RunTask, Draining, ResumeTask
<1>2. CASE RunDestroy(t)
  BY <1>2, RunDestroyMove DEF RunDestroy, Draining, DestroyFrame
<1>3. CASE RunParent(t)
  <2>1. Released(Tail(ready), t) /\ ResumeProxy(t, Tail(ready)) /\ UNCHANGED home
    BY <1>3 DEF RunParent, Draining, ResumeParent, Released
  <2> QED BY <2>1, ProxyMove
<1> QED BY <1>1, <1>2, <1>3 DEF ExecutorStep

LEMMA StructureCall ==
    ASSUME TypeInv, Structure, Call
    PROVE  Structure'
<1> USE DEF promiseVars, nurseryVars
<1>1. ASSUME NEW n \in Scope, NEW c \in Task, Start(n, c) PROVE Structure'
  <2>1. /\ executor[n] /\ state[c] = "Unborn"
        /\ state' = [state EXCEPT ![c] = "Ready"] /\ home' = [home EXCEPT ![c] = n]
        /\ tasks' = [tasks EXCEPT ![n] = Append(@, c)]
        /\ ready' = Append(ready, ResumeTask(c))
        /\ UNCHANGED <<parent, executor>>
    BY <1>1 DEF Start, AddTask
  <2> QED BY <2>1, StartMove
<1>2. ASSUME NEW n \in Scope, NEW c \in Task, StartStub(n, c) PROVE Structure'
  <2>1. /\ executor[n] /\ state[c] = "Unborn"
        /\ state' = [state EXCEPT ![c] = "Done"] /\ home' = [home EXCEPT ![c] = n]
        /\ UNCHANGED <<tasks, parent, executor>>
    BY <1>2 DEF StartStub
  <2>2. ready' = Append(ready, DestroyFrame(c))
    <3>1. ready \in Seq(Entry)
      BY DEF TypeInv, TypeOK, Entry
    <3>2. ready' = ready \o Deferred(c, c, FALSE)
      BY <1>2 DEF StartStub, Deferred
    <3> QED BY <3>1, <3>2, DeferredEntries
  <2> QED BY <2>1, <2>2, StartMove
<1>3. ASSUME NEW u \in Task, Wake(u) PROVE Structure'
  <2>1. Released(ready, u) /\ ResumeProxy(u, ready) /\ UNCHANGED home
    BY <1>3 DEF Wake, Released
  <2> QED BY <2>1, ProxyMove
<1>4. CASE CancelRoot \/ \E n \in Scope : CancelNursery(n)
  <2>1. UNCHANGED structure
    BY <1>4 DEF CancelNursery, CancelRoot, structure
  <2> QED BY <2>1, StructureUnchanged
<1> QED BY <1>1, <1>2, <1>3, <1>4 DEF Call

LEMMA StructureInit == Init => Structure
<1> SUFFICES ASSUME Init PROVE Structure
  OBVIOUS
<1> DEFINE e == ResumeTask(Root)
<1>1. /\ Len(ready) = 1 /\ ready[1] = e /\ 1..1 = {1}
      /\ \A y : Contains(ready, y) <=> y = e
  BY DEF Init, Contains
<1>2. e.fn = "resume" /\ e.arg = Root
  BY DEF ResumeTask
<1> HIDE DEF e
<1>3. /\ \A t \in Task : state[t] = IF t = Root THEN "Ready" ELSE "Unborn"
      /\ \A t \in Task : state[t] \notin Scope
      /\ \A n \in Scope : tasks[n] = <<>> /\ parent[n] = None /\ ~executor[n]
  BY DEF Init
<1>4. OneOpener /\ OpenNurseries /\ StructuredConcurrency
  BY <1>3 DEF OneOpener, OpenNurseries, StructuredConcurrency
<1>5. ListsSound /\ ListsComplete
  BY <1>3 DEF ListsSound, ListsComplete, Alive
<1>6. ReadySound(ready)
  BY <1>1, <1>2, <1>3
     DEF ReadySound, EntriesDistinct, EntriesSound, EntrySound, DestroyedFirst
<1>7. ReadyComplete
  BY <1>1, <1>3 DEF ReadyComplete, FrameScheduled, ParentScheduled, e
<1> QED BY <1>4, <1>5, <1>6, <1>7 DEF Structure

LEMMA IndInit == Init => IndInv
BY TypeInit, StructureInit DEF IndInv

LEMMA IndStep == IndInv /\ [Next]_vars => IndInv'
<1> SUFFICES ASSUME TypeInv, Structure, [Next]_vars PROVE TypeInv' /\ Structure'
  BY DEF IndInv
<1>1. TypeInv'
  BY TypeStep DEF Structure, ReadySound
<1>2. CASE Finished \/ UNCHANGED vars
  <2>1. UNCHANGED structure
    BY <1>2 DEF Finished, vars, structure
  <2> QED BY <1>1, <2>1, StructureUnchanged
<1>3. CASE Call
  BY <1>1, <1>3, StructureCall
<1>4. CASE \E t \in Task : TaskStep(t) \/ CancelStep(t) \/ ExecutorStep(t)
  BY <1>1, <1>4, StructureTaskStep, StructureCancelStep, StructureExecutorStep
<1> QED BY <1>2, <1>3, <1>4 DEF Next

(***************************************************************************)
(* The theorems.                                                           *)
(***************************************************************************)

\* Every variable keeps its type: the executor is never given a null task,
\* a nursery's list never has a hole.
THEOREM TypeCorrect == Spec => []TypeOK
<1>1. IndInv => TypeOK
  BY DEF IndInv, TypeInv
<1> QED BY IndInit, IndStep, <1>1, PTL DEF Spec

\* While a task of a nursery runs or its frame exists, some task waits for
\* that nursery: continuation() resumes the parent only after the frames of
\* all its tasks are gone.
THEOREM Structured == Spec => []StructuredConcurrency
<1>1. IndInv => StructuredConcurrency
  BY DEF IndInv, Structure
<1> QED BY IndInit, IndStep, <1>1, PTL DEF Spec

\* Whoever waits for a nursery waits for a task that is alive or has its own
\* resumption scheduled.
THEOREM NoWakeUpLost == Spec => []ParentIsWoken
<1>1. ASSUME IndInv, NEW p \in Task, NEW n \in Scope, state[p] = n
      PROVE  \/ executor[n] /\ tasks[n] # <<>> /\ parent[n] = p
             \/ ~executor[n] /\ Contains(ready, ResumeParent(p))
  <2>1. CASE executor[n]
    <3>1. parent[n] \in Task /\ state[parent[n]] = n /\ tasks[n] # <<>>
      BY <1>1, <2>1 DEF IndInv, Structure, OpenNurseries
    <3>2. parent[n] = p
      BY <1>1, <3>1 DEF IndInv, Structure, OneOpener
    <3> QED BY <2>1, <3>1, <3>2
  <2>2. CASE ~executor[n]
    BY <1>1, <2>2 DEF IndInv, Structure, ReadyComplete, ParentScheduled
  <2> QED BY <2>1, <2>2
<1>2. IndInv => ParentIsWoken
  BY <1>1 DEF ParentIsWoken
<1> QED BY IndInit, IndStep, <1>2, PTL DEF Spec

\* The ready list holds every frame that has to run or to be destroyed, once,
\* and no other: nothing is resumed or destroyed twice, or after its end.
THEOREM ReadyExact == Spec => []ReadyListExact
<1>1. ASSUME IndInv, NEW t \in Task
      PROVE  /\ Contains(ready, ResumeTask(t)) <=> state[t] = "Ready"
             /\ Contains(ready, DestroyFrame(t)) <=> state[t] = "Done" /\ t # Root
             /\ Contains(ready, ResumeParent(t)) => state[t] \in Scope
  <2>1. FrameScheduled(ready, t) /\ EntriesSound(ready)
    BY <1>1 DEF IndInv, Structure, ReadyComplete, ReadySound
  <2>2. ASSUME NEW e, Contains(ready, e) PROVE EntrySound(e)
    BY <2>1, <2>2 DEF Contains, EntriesSound
  <2>3. Contains(ready, ResumeTask(t)) => state[t] = "Ready"
    BY <2>2 DEF EntrySound, ResumeTask
  <2>4. Contains(ready, DestroyFrame(t)) => state[t] = "Done" /\ t # Root
    BY <2>2 DEF EntrySound, DestroyFrame
  <2>5. Contains(ready, ResumeParent(t)) => state[t] \in Scope
    BY <2>2 DEF EntrySound, ResumeParent
  <2> QED BY <2>1, <2>3, <2>4, <2>5 DEF FrameScheduled
<1>2. IndInv => \A i, j \in 1..Len(ready) : ready[i] = ready[j] => i = j
  BY DEF IndInv, Structure, ReadySound, EntriesDistinct
<1>3. IndInv => ReadyListExact
  BY <1>1, <1>2 DEF ReadyListExact
<1> QED BY IndInit, IndStep, <1>3, PTL DEF Spec

\* The exception of a nursery is replaced only by the first that is thrown,
\* and forgotten only when the parent is resumed: with it the nursery is gone.
LEMMA ExceptionStep ==
    ASSUME IndInv, Next, NEW n \in Scope, Exists(n), Exists(n)'
    PROVE  /\ exception[n] \in Task => exception'[n] = exception[n]
           /\ exception[n] # "none" => exception'[n] # "none"
<1> USE DEF IndInv, TypeInv, TypeOK, promiseVars, nurseryVars
<1>1. CASE UNCHANGED exception
  BY <1>1
<1>2. ASSUME NEW t \in Task, NEW m \in Scope, NEW b \in Task,
             OpenNursery(t, m, b) \/ OpenNurseryStub(t, m, b)
      PROVE  exception'[n] = exception[n]
  <2>1. n # m
    BY <1>2 DEF OpenNursery, OpenNurseryStub
  <2>2. PICK e : exception' = [exception EXCEPT ![m] = e]
    BY <1>2 DEF OpenNursery, OpenNurseryStub
  <2> QED BY <2>1, <2>2
<1>3. ASSUME NEW t \in Task, Throw(t)
      PROVE  /\ exception[n] \in Task => exception'[n] = exception[n]
             /\ exception[n] # "none" => exception'[n] # "none"
  BY <1>3 DEF Throw, StoredException
<1>4. ASSUME NEW m \in Scope, CancelNursery(m)
      PROVE  exception'[n] # exception[n] =>
                exception[n] = "none" /\ exception'[n] = "cancelled"
  BY <1>4 DEF CancelNursery, NeedCancel
<1>5. ASSUME NEW p \in Task, CancelNested(p)
      PROVE  exception'[n] # exception[n] =>
                exception[n] = "none" /\ exception'[n] = "cancelled"
  BY <1>5 DEF CancelNested, NeedCancel
<1>6. ASSUME NEW t \in Task, RunParent(t)
      PROVE  exception'[n] = exception[n]
  <2>1. PICK s \in {"Ready", "Done"} : state' = [state EXCEPT ![t] = s]
    <3>1. ResumeProxy(t, Tail(ready))
      BY <1>6 DEF RunParent
    <3> QED BY <3>1, ResumeMoves
  <2>2. PICK p \in Task : state'[p] = n
    BY DEF Exists
  <2>3. p # t /\ state[p] = n
    BY <2>1, <2>2
  <2>4. state[t] # n
    BY <2>3 DEF Structure, OneOpener
  <2> QED BY <1>6, <2>4 DEF RunParent
<1>7. ASSUME NEW t \in Task, TaskStep(t)
      PROVE  /\ exception[n] \in Task => exception'[n] = exception[n]
             /\ exception[n] # "none" => exception'[n] # "none"
  <2>1. \/ UNCHANGED exception \/ Throw(t)
        \/ \E m \in Scope, b \in Task :
                OpenNursery(t, m, b) \/ OpenNurseryStub(t, m, b)
    BY <1>7 DEF TaskStep, AwaitLeaf, EarlyCancel, AwaitReadyAnyway, Return, FinalSuspend
  <2> QED BY <1>1, <1>2, <1>3, <2>1
<1>8. ASSUME NEW t \in Task, CancelStep(t) \/ ExecutorStep(t)
      PROVE  /\ exception[n] \in Task => exception'[n] = exception[n]
             /\ exception[n] # "none" => exception'[n] # "none"
  <2>1. UNCHANGED exception \/ CancelNested(t) \/ RunParent(t)
    BY <1>8 DEF CancelStep, CancelPending, CancelLeaf, CancelLeafCompletes,
                CancelLeafLater, ExecutorStep, RunTask, RunDestroy
  <2> QED BY <1>1, <1>5, <1>6, <2>1
<1>9. CASE Call
  <2>1. UNCHANGED exception \/ \E m \in Scope : CancelNursery(m)
    BY <1>9 DEF Call, Start, StartStub, Wake, CancelRoot
  <2> QED BY <1>1, <1>4, <2>1
<1> QED BY <1>1, <1>7, <1>8, <1>9 DEF Next, Finished, vars

\* The first exception thrown in a nursery is the one its parent gets, and a
\* cancelled nursery stays cancelled until then.
THEOREM FirstExceptionKept == Spec => FirstExceptionWins
<1>1. IndInv /\ [Next]_vars =>
        [\A n \in Scope : Exists(n) /\ Exists(n)' =>
            /\ exception[n] \in Task => exception'[n] = exception[n]
            /\ exception[n] # "none" => exception'[n] # "none"]_vars
  BY ExceptionStep
<1> QED BY IndInit, IndStep, <1>1, PTL DEF Spec, FirstExceptionWins

(***************************************************************************)
(* Cancellation: the stack of captured lists.                              *)
(***************************************************************************)

\* Some list of c links task p.
InLists(c, p) == \E i \in 1..Len(c) : Contains(c[i], p)

\* No task is linked twice, be it in one list or in two.
OnceIn(c) ==
    \A i, k \in 1..Len(c) : \A j \in 1..Len(c[i]), l \in 1..Len(c[k]) :
        c[i][j] = c[k][l] => i = k /\ j = l

\* One more list on top of the stack.
LEMMA Stacked ==
    ASSUME NEW c \in Seq(Seq(Task)), NEW s \in Seq(Task)
    PROVE  /\ \A p : InLists(<<s>> \o c, p) <=> Contains(s, p) \/ InLists(c, p)
           /\ OnceIn(<<s>> \o c) <=>
                /\ EntriesDistinct(s) /\ OnceIn(c)
                /\ \A p : ~(Contains(s, p) /\ InLists(c, p))
<1> DEFINE r == <<s>> \o c
<1>1. /\ Len(c) \in Nat /\ Len(r) = Len(c) + 1
      /\ r[1] = s /\ \A i \in 1..Len(c) : r[i + 1] = c[i]
  OBVIOUS
<1>2. /\ 1 \in 1..Len(r)
      /\ \A i \in 1..Len(c) : i + 1 \in 1..Len(r) /\ i + 1 # 1
      /\ \A i \in 1..Len(r) : i = 1 \/ (i - 1 \in 1..Len(c) /\ (i - 1) + 1 = i)
  BY <1>1
<1> HIDE DEF r
<1>3. \A i \in 1..Len(r) : i # 1 => r[i] = c[i - 1]
  BY <1>1, <1>2
<1>4. \A p : InLists(r, p) <=> Contains(s, p) \/ InLists(c, p)
  <2>1. ASSUME NEW p, InLists(r, p) PROVE Contains(s, p) \/ InLists(c, p)
    <3>1. PICK i \in 1..Len(r) : Contains(r[i], p)
      BY <2>1 DEF InLists
    <3> QED BY <1>1, <1>2, <1>3, <3>1 DEF InLists
  <2>2. ASSUME NEW p, Contains(s, p) PROVE InLists(r, p)
    BY <1>1, <1>2, <2>2 DEF InLists
  <2>3. ASSUME NEW p, InLists(c, p) PROVE InLists(r, p)
    <3>1. PICK i \in 1..Len(c) : Contains(c[i], p)
      BY <2>3 DEF InLists
    <3>2. Contains(r[i + 1], p) /\ i + 1 \in 1..Len(r)
      BY <1>1, <1>2, <3>1
    <3> QED BY <3>2 DEF InLists
  <2> QED BY <2>1, <2>2, <2>3
<1>5. ASSUME OnceIn(r)
      PROVE  EntriesDistinct(s) /\ OnceIn(c) /\ \A p : ~(Contains(s, p) /\ InLists(c, p))
  <2>1. EntriesDistinct(s)
    BY <1>1, <1>2, <1>5 DEF OnceIn, EntriesDistinct
  <2>2. OnceIn(c)
    <3> SUFFICES ASSUME NEW i \in 1..Len(c), NEW k \in 1..Len(c),
                        NEW j \in 1..Len(c[i]), NEW l \in 1..Len(c[k]), c[i][j] = c[k][l]
                 PROVE  i = k /\ j = l
      BY DEF OnceIn
    <3>1. PICK x \in 1..Len(r) : x = i + 1 /\ r[x] = c[i]
      BY <1>1, <1>2
    <3>2. PICK y \in 1..Len(r) : y = k + 1 /\ r[y] = c[k]
      BY <1>1, <1>2
    <3>3. j \in 1..Len(r[x]) /\ l \in 1..Len(r[y]) /\ r[x][j] = r[y][l]
      BY <3>1, <3>2
    <3>4. x = y /\ j = l
      BY ONLY <1>5, <3>3, x \in 1..Len(r), y \in 1..Len(r) DEF OnceIn
    <3> QED BY <1>1, <3>1, <3>2, <3>4
  <2>3. ASSUME NEW p, Contains(s, p), InLists(c, p) PROVE FALSE
    <3>1. PICK j \in 1..Len(s) : s[j] = p
      BY <2>3 DEF Contains
    <3>2. PICK k \in 1..Len(c) : \E l \in 1..Len(c[k]) : c[k][l] = p
      BY <2>3 DEF InLists, Contains
    <3>3. k + 1 \in 1..Len(r) /\ r[k + 1] = c[k] /\ k + 1 # 1
      BY <1>1, <1>2
    <3>4. PICK l \in 1..Len(r[k + 1]) : r[k + 1][l] = p
      BY <3>2, <3>3
    <3>5. 1 \in 1..Len(r) /\ j \in 1..Len(r[1]) /\ r[1][j] = p
      BY <1>1, <1>2, <3>1
    <3>6. 1 = k + 1
      BY ONLY <1>5, <3>3, <3>4, <3>5 DEF OnceIn
    <3> QED BY <3>3, <3>6
  <2> QED BY <2>1, <2>2, <2>3
<1>6. ASSUME EntriesDistinct(s), OnceIn(c), \A p : ~(Contains(s, p) /\ InLists(c, p))
      PROVE  OnceIn(r)
  <2> SUFFICES ASSUME NEW i \in 1..Len(r), NEW k \in 1..Len(r),
                      NEW j \in 1..Len(r[i]), NEW l \in 1..Len(r[k]), r[i][j] = r[k][l]
               PROVE  i = k /\ j = l
    BY DEF OnceIn
  <2>1. CASE i = 1 /\ k = 1
    BY <2>1, <1>1, <1>6 DEF EntriesDistinct
  <2>2. CASE i # 1 /\ k # 1
    <3>1. PICK x \in 1..Len(c) : x = i - 1 /\ c[x] = r[i]
      BY <2>2, <1>2, <1>3
    <3>2. PICK y \in 1..Len(c) : y = k - 1 /\ c[y] = r[k]
      BY <2>2, <1>2, <1>3
    <3>3. j \in 1..Len(c[x]) /\ l \in 1..Len(c[y]) /\ c[x][j] = c[y][l]
      BY <3>1, <3>2
    <3>4. x = y /\ j = l
      BY ONLY <1>6, <3>3, x \in 1..Len(c), y \in 1..Len(c) DEF OnceIn
    <3> QED BY <1>1, <3>1, <3>2, <3>4
  <2>3. \A m, n \in 1..Len(r) : \A a \in 1..Len(r[m]), b \in 1..Len(r[n]) :
            m = 1 /\ n # 1 => r[m][a] # r[n][b]
    <3> SUFFICES ASSUME NEW n \in 1..Len(r), n # 1, NEW a \in 1..Len(s),
                        NEW b \in 1..Len(r[n]), s[a] = r[n][b]
                 PROVE  FALSE
      BY <1>1
    <3>1. Contains(s, s[a])
      BY DEF Contains
    <3>2. n - 1 \in 1..Len(c) /\ c[n - 1] = r[n]
      BY <1>2, <1>3
    <3>3. InLists(c, s[a])
      BY <3>2 DEF InLists, Contains
    <3> QED BY <3>1, <3>3, <1>6
  <2> QED BY <2>1, <2>2, <2>3
<1> QED BY <1>4, <1>5, <1>6 DEF r

\* Taking off the next task to cancel leaves the others, each of them once.
LEMMA TakenOff ==
    ASSUME captured \in Seq(Seq(Task) \ {<<>>}), captured # <<>>, OnceIn(captured)
    PROVE  /\ NextCaptured \in Task /\ InLists(captured, NextCaptured)
           /\ AfterCaptured \in Seq(Seq(Task)) /\ OnceIn(AfterCaptured)
           /\ \A p : InLists(AfterCaptured, p) <=> InLists(captured, p) /\ p # NextCaptured
<1> DEFINE top == Head(captured)
           low == Tail(captured)
           rest == Tail(top)
<1>1. top \in Seq(Task) /\ top # <<>> /\ low \in Seq(Seq(Task) \ {<<>>})
  BY HeadTailProperties
<1>2. low \in Seq(Seq(Task))
  <2>1. \A i \in 1..Len(low) : low[i] \in Seq(Task)
    BY <1>1, ElementOfSeq
  <2> QED BY <1>1, <2>1
<1>3. captured = <<top>> \o low
  BY <1>1, HeadTailProperties
<1>4. /\ \A p : InLists(captured, p) <=> Contains(top, p) \/ InLists(low, p)
      /\ EntriesDistinct(top) /\ OnceIn(low)
      /\ \A p : ~(Contains(top, p) /\ InLists(low, p))
  <2>1. /\ \A p : InLists(<<top>> \o low, p) <=> Contains(top, p) \/ InLists(low, p)
        /\ OnceIn(<<top>> \o low) <=>
             /\ EntriesDistinct(top) /\ OnceIn(low)
             /\ \A p : ~(Contains(top, p) /\ InLists(low, p))
    BY ONLY <1>1, <1>2, Stacked
  <2>2. OnceIn(<<top>> \o low)
    BY <1>3
  <2> QED BY ONLY <1>3, <2>1, <2>2
<1>5. /\ rest \in Seq(Task) /\ Head(top) = top[1] /\ 1 \in 1..Len(top)
      /\ Len(top) \in Nat /\ Len(rest) = Len(top) - 1
      /\ \A i \in 1..Len(rest) : i + 1 \in 1..Len(top) /\ rest[i] = top[i + 1]
      /\ \A p : Contains(top, p) <=> Contains(rest, p) \/ p = Head(top)
  BY <1>1, Popped
<1> HIDE DEF top, low, rest
<1>6. Head(top) \in Task /\ Contains(top, Head(top))
  BY <1>1, <1>5, ElementOfSeq
<1>7. EntriesDistinct(rest) /\ ~Contains(rest, Head(top))
  <2>1. ASSUME NEW i \in 1..Len(rest), NEW j \in 1..Len(rest), rest[i] = rest[j]
        PROVE  i = j
    <3>1. i + 1 = j + 1
      BY <1>4, <1>5, <2>1 DEF EntriesDistinct
    <3> QED BY <3>1, <1>5
  <2>2. ASSUME NEW i \in 1..Len(rest), rest[i] = top[1] PROVE FALSE
    <3>1. i + 1 = 1
      BY <1>4, <1>5, <2>2 DEF EntriesDistinct
    <3> QED BY <3>1, <1>5
  <2> QED BY <1>5, <2>1, <2>2 DEF EntriesDistinct, Contains
<1>8. AfterCaptured = IF rest = <<>> THEN low ELSE <<rest>> \o low
  BY DEF AfterCaptured, rest, low, top
<1>9. CASE rest = <<>>
  <2>1. \A p : ~Contains(rest, p)
    BY <1>9 DEF Contains
  <2> QED BY <1>2, <1>4, <1>5, <1>6, <1>8, <1>9, <2>1 DEF NextCaptured, top
<1>10. CASE rest # <<>>
  <2>1. AfterCaptured = <<rest>> \o low /\ <<rest>> \in Seq(Seq(Task))
    BY <1>5, <1>8, <1>10
  <2>2. AfterCaptured \in Seq(Seq(Task))
    BY <1>2, <2>1, ConcatProperties
  <2>3. \A p : InLists(AfterCaptured, p) <=> Contains(rest, p) \/ InLists(low, p)
    BY <1>2, <1>5, <2>1, Stacked
  <2>4. \A p : ~(Contains(rest, p) /\ InLists(low, p))
    BY <1>4, <1>5
  <2>5. OnceIn(AfterCaptured)
    BY <1>2, <1>4, <1>5, <1>7, <2>1, <2>4, Stacked
  <2> QED BY <1>4, <1>5, <1>6, <1>7, <2>2, <2>3, <2>5 DEF NextCaptured, top
<1> QED BY <1>9, <1>10

(***************************************************************************)
(* Cancellation: what is true of every task.                               *)
(***************************************************************************)

\* A pending cancellation, or a trampoline that expects one to be confirmed,
\* comes from a call of cancel(); ...
Justified(t) ==
    cancelReq[t] \/ onResume[t] = "doResumeAfterCancel" => t \in asked

\* ... which is called on a task only if its nursery is cancelled; ...
AskedSound(t) ==
    t \in asked =>
        /\ state[t] # "Unborn"
        /\ t # Root => exception[home[t]] # "none"

\* ... no task holds a cancellation back while it waits; ...
NothingHeldBack(t) == Suspended(t) => ~cancelReq[t]

\* ... a task of a cancelled nursery is being cancelled or about to be; ...
Reached(t) ==
    t # Root /\ Alive(t) /\ exception[home[t]] # "none" =>
        BeingCancelled(t) \/ InLists(captured, t)

\* ... and is about to be if it was not, and for that reason.
CapturedSound(t) ==
    InLists(captured, t) =>
        /\ Alive(t) /\ t \notin asked
        /\ t # Root => exception[home[t]] # "none"

TaskCancel(t) ==
    /\ Justified(t) /\ AskedSound(t) /\ NothingHeldBack(t)
    /\ Reached(t) /\ CapturedSound(t)

CancelInv == OnceIn(captured) /\ \A t \in Task : TaskCancel(t)

\* A step that is not about task u, nor about its nursery if it has one.
Apart(u) ==
    /\ state'[u] = state[u] /\ cancelReq'[u] = cancelReq[u]
    /\ onResume'[u] = onResume[u] /\ home'[u] = home[u]
    /\ u \in asked' <=> u \in asked
    /\ u # Root /\ state[u] # "Unborn" =>
          (exception'[home[u]] = "none" <=> exception[home[u]] = "none")
    /\ InLists(captured', u) <=> InLists(captured, u)

LEMMA ApartKeeps ==
    ASSUME NEW u \in Task, TaskCancel(u), Apart(u)
    PROVE  TaskCancel(u)'
<1>1. Justified(u)'
  BY DEF TaskCancel, Apart, Justified
<1>2. AskedSound(u)'
  BY DEF TaskCancel, Apart, AskedSound
<1>3. NothingHeldBack(u)'
  BY DEF TaskCancel, Apart, NothingHeldBack, Suspended
<1>4. Reached(u)'
  BY DEF TaskCancel, Apart, Reached, BeingCancelled, Suspended, Alive
<1>5. CapturedSound(u)'
  BY DEF TaskCancel, Apart, CapturedSound, Alive
<1> QED BY <1>1, <1>2, <1>3, <1>4, <1>5 DEF TaskCancel

LEMMA NothingCaptured == OnceIn(<<>>) /\ \A p : ~InLists(<<>>, p)
BY DEF OnceIn, InLists

\* What a step outside of doCancel has to keep of a task.
OutsideCancel(u) == Justified(u) /\ AskedSound(u) /\ NothingHeldBack(u) /\ Reached(u)

\* A step outside of doCancel.
LEMMA OutsideKeeps ==
    ASSUME CancelInv, captured = <<>>, captured' = <<>>,
           \A u \in Task : Apart(u) \/ OutsideCancel(u)'
    PROVE  CancelInv'
<1>1. OnceIn(captured)' /\ \A p : ~InLists(captured', p)
  BY NothingCaptured
<1>2. ASSUME NEW u \in Task PROVE TaskCancel(u)'
  <2>1. CASE OutsideCancel(u)'
    <3>1. CapturedSound(u)'
      BY <1>1 DEF CapturedSound
    <3> QED BY <2>1, <3>1 DEF TaskCancel, OutsideCancel
  <2>2. CASE Apart(u)
    BY <1>2, <2>2, ApartKeeps DEF CancelInv
  <2> QED BY <2>1, <2>2
<1> QED BY <1>1, <1>2 DEF CancelInv

\* Nursery::doCancel of a nursery that nothing has cancelled yet: the captured
\* lists are those below and all the tasks of the nursery that are alive.
LEMMA Swept ==
    ASSUME IndInv, CancelInv, NEW n \in Scope, exception[n] = "none",
           NEW low \in Seq(Seq(Task)), OnceIn(low),
           \A p : InLists(low, p) => InLists(captured, p)
    PROVE  /\ OnceIn(DoCancel(n, low))
           /\ \A u \in Task : InLists(DoCancel(n, low), u) <=>
                InLists(low, u) \/ (u # Root /\ home[u] = n /\ Alive(u))
<1> PICK list \in Seq(Task) : list = tasks[n]
  BY DEF IndInv, TypeInv, TypeOK
<1>1. \A u \in Task : Contains(list, u) <=> u # Root /\ home[u] = n /\ Alive(u)
  <2>1. ASSUME NEW u \in Task, Contains(list, u) PROVE u # Root /\ home[u] = n /\ Alive(u)
    BY <2>1 DEF IndInv, Structure, ListsSound, Contains
  <2>2. ASSUME NEW u \in Task, u # Root, home[u] = n, Alive(u) PROVE Contains(list, u)
    BY <2>2 DEF IndInv, Structure, ListsComplete
  <2> QED BY <2>1, <2>2
<1>2. CASE executor[n]
  <2>1. list # <<>> /\ EntriesDistinct(list)
    BY <1>2 DEF IndInv, Structure, OpenNurseries, ListsSound, EntriesDistinct
  <2>2. DoCancel(n, low) = <<list>> \o low
    BY <1>2, <2>1 DEF DoCancel
  <2>3. \A u \in Task : InLists(low, u) => ~Contains(list, u)
    BY <1>1 DEF CancelInv, TaskCancel, CapturedSound
  <2>4. \A p : ~(Contains(list, p) /\ InLists(low, p))
    BY <2>3, ElementOfSeq DEF Contains
  <2> QED BY <1>1, <2>1, <2>2, <2>4, Stacked
<1>3. CASE ~executor[n]
  <2>1. list = <<>>
    BY <1>3 DEF IndInv, Structure, OpenNurseries
  <2>2. \A p : ~Contains(list, p)
    BY <2>1 DEF Contains
  <2>3. DoCancel(n, low) = low
    BY <1>3 DEF DoCancel
  <2> QED BY <1>1, <2>2, <2>3
<1> QED BY <1>2, <1>3

\* ... and each of them is then a task of a cancelled nursery.
LEMMA SweptKeeps ==
    ASSUME IndInv, CancelInv, NEW n \in Scope, exception[n] = "none",
           NEW low \in Seq(Seq(Task)), OnceIn(low),
           \A p : InLists(low, p) => InLists(captured, p),
           captured' = DoCancel(n, low),
           NEW e \in {"cancelled"} \cup Task, exception' = [exception EXCEPT ![n] = e],
           NEW u \in Task, InLists(low, u) <=> InLists(captured, u),
           Alive(u)' <=> Alive(u), state'[u] = state[u] \/ state'[u] = "Returning",
           state[u] = "Unborn" <=> state'[u] = "Unborn",
           cancelReq'[u] = cancelReq[u], onResume'[u] = onResume[u], home'[u] = home[u],
           u \in asked' <=> u \in asked,
           state'[u] # state[u] => u # Root /\ home[u] = n
    PROVE  TaskCancel(u)'
<1>0. TaskCancel(u) /\ exception \in [Scope -> {"none", "cancelled"} \cup Task]
  BY DEF CancelInv, IndInv, TypeInv, TypeOK
<1>1. InLists(captured', u) <=> InLists(captured, u) \/ (u # Root /\ home[u] = n /\ Alive(u))
  <2>1. \A v \in Task : InLists(DoCancel(n, low), v) <=>
            InLists(low, v) \/ (v # Root /\ home[v] = n /\ Alive(v))
    BY Swept
  <2> QED BY <2>1
<1>2. /\ u # Root /\ home[u] = n => u \notin asked
      /\ exception'[n] # "none"
      /\ home[u] \in Scope /\ home[u] # n => exception'[home[u]] = exception[home[u]]
      /\ u # Root /\ state[u] # "Unborn" => home[u] \in Scope
  BY <1>0 DEF TaskCancel, AskedSound, IndInv, TypeInv, Owned
<1>3. Justified(u)'
  BY <1>0 DEF TaskCancel, Justified
<1>4. AskedSound(u)'
  BY <1>0, <1>2 DEF TaskCancel, AskedSound
<1>5. NothingHeldBack(u)'
  <2>1. CASE state'[u] = state[u]
    BY <1>0, <2>1 DEF TaskCancel, NothingHeldBack, Suspended
  <2>2. CASE state'[u] = "Returning"
    BY <2>2 DEF NothingHeldBack, Suspended
  <2> QED BY <2>1, <2>2
<1>6. Reached(u)'
  <2>1. CASE home[u] = n
    BY <1>1, <2>1 DEF Reached
  <2>2. CASE home[u] # n
    <3>1. SUFFICES ASSUME u # Root, Alive(u), exception'[home[u]] # "none"
                   PROVE  BeingCancelled(u)' \/ InLists(captured, u)'
      BY DEF Reached
    <3>2. state[u] # "Unborn" /\ state'[u] = state[u]
      BY <2>2, <3>1 DEF Alive
    <3>3. BeingCancelled(u) \/ InLists(captured, u)
      BY <1>0, <1>2, <2>2, <3>1, <3>2 DEF TaskCancel, Reached
    <3> QED BY <1>1, <3>2, <3>3 DEF BeingCancelled, Suspended
  <2> QED BY <2>1, <2>2
<1>7. CapturedSound(u)'
  <2>1. CASE InLists(captured, u)
    BY <1>0, <1>2, <2>1 DEF TaskCancel, CapturedSound, Alive
  <2>2. CASE u # Root /\ home[u] = n /\ Alive(u)
    BY <1>2, <2>2 DEF CapturedSound
  <2> QED BY <1>1, <2>1, <2>2 DEF CapturedSound
<1> QED BY <1>3, <1>4, <1>5, <1>6, <1>7 DEF TaskCancel

\* A step that is about task t only.
Only(t) ==
    \A u \in Task \ {t} :
        /\ state'[u] = state[u] /\ cancelReq'[u] = cancelReq[u]
        /\ onResume'[u] = onResume[u] /\ home'[u] = home[u]
        /\ u \in asked' <=> u \in asked

LEMMA OneTaskKeeps ==
    ASSUME CancelInv, captured = <<>>, UNCHANGED <<captured, exception>>,
           NEW t \in Task, Only(t),
           Justified(t)', AskedSound(t)', NothingHeldBack(t)', Reached(t)'
    PROVE  CancelInv'
<1>1. \A u \in Task \ {t} : Apart(u)
  BY DEF Only, Apart
<1>2. OutsideCancel(t)'
  BY DEF OutsideCancel
<1>3. captured' = <<>>
  OBVIOUS
<1> QED BY ONLY CancelInv, captured = <<>>, t \in Task, <1>1, <1>2, <1>3, OutsideKeeps

\* A task that does not wait, or will not any more, may stop to exist.
LEMMA Leaves ==
    ASSUME CancelInv, NEW t \in Task, state'[t] = "Done", state[t] # "Unborn",
           cancelReq'[t] = cancelReq[t], onResume'[t] = onResume[t],
           home'[t] = home[t], t \in asked' <=> t \in asked,
           exception' = exception
    PROVE  Justified(t)' /\ AskedSound(t)' /\ NothingHeldBack(t)' /\ Reached(t)'
<1>0. TaskCancel(t) /\ "Done" \notin Scope
  BY DEF CancelInv
<1>1. Justified(t)' /\ AskedSound(t)'
  BY <1>0 DEF TaskCancel, Justified, AskedSound
<1>2. NothingHeldBack(t)' /\ Reached(t)'
  BY <1>0 DEF NothingHeldBack, Suspended, Reached, Alive
<1> QED BY <1>1, <1>2

\* What a task that waited is resumed with: a cancellation that is confirmed
\* goes on to its next co_await.
LEMMA ProxyKeeps ==
    ASSUME IndInv, CancelInv, captured = <<>>, UNCHANGED <<captured, home, asked>>,
           NEW t \in Task, NEW q, Suspended(t), ResumeProxy(t, q),
           \A u \in Task \ {Root} :
                state[u] # "Unborn" => exception'[home[u]] = exception[home[u]]
    PROVE  CancelInv'
<1> USE DEF IndInv, TypeInv, TypeOK
<1>0. TaskCancel(t) /\ state[t] # "Unborn" /\ Alive(t) /\ ~InLists(captured, t)
  BY NothingCaptured DEF CancelInv, Suspended, Alive
<1>1. Only(t)
  BY DEF ResumeProxy, DoResume, PropagateCancel, Continuation, Only
<1>2. \A u \in Task \ {t} : Apart(u)
  BY <1>1 DEF Only, Apart
<1>3. t # Root => exception'[home'[t]] = exception[home[t]]
  BY <1>0
<1>4. ASSUME onResume[t] = "doResume" /\ DoResume(t, q, FALSE)
      PROVE  OutsideCancel(t)'
  <2>1. /\ state'[t] = "Ready" /\ ~cancelReq'[t] /\ onResume'[t] = "doNothing"
        /\ ~BeingCancelled(t)
    BY <1>0, <1>4 DEF DoResume, BeingCancelled, TaskCancel, NothingHeldBack
  <2>2. t # Root => exception[home[t]] = "none"
    BY <1>0, <2>1 DEF TaskCancel, Reached
  <2>3. Justified(t)' /\ AskedSound(t)' /\ NothingHeldBack(t)' /\ Reached(t)'
    BY <1>0, <1>3, <2>1, <2>2
       DEF Justified, AskedSound, NothingHeldBack, Reached, TaskCancel
  <2> QED BY <2>3 DEF OutsideCancel
<1>5. ASSUME onResume[t] = "doResumeAfterCancel" /\ DoResume(t, q, TRUE)
      PROVE  OutsideCancel(t)'
  <2>1. state'[t] = "Ready" /\ cancelReq'[t] /\ t \in asked
    BY <1>0, <1>5 DEF DoResume, TaskCancel, Justified
  <2>2. Justified(t)' /\ AskedSound(t)' /\ NothingHeldBack(t)' /\ Reached(t)'
    BY <1>0, <1>3, <2>1
       DEF Justified, AskedSound, NothingHeldBack, Suspended, Reached, BeingCancelled, TaskCancel
  <2> QED BY <2>2 DEF OutsideCancel
<1>6. ASSUME PropagateCancel(t, q)
      PROVE  OutsideCancel(t)'
  <2>1. state'[t] = "Done" /\ UNCHANGED <<cancelReq, onResume>>
    BY <1>6 DEF PropagateCancel, Continuation
  <2>2. Justified(t)' /\ AskedSound(t)' /\ NothingHeldBack(t)' /\ Reached(t)'
    BY <1>0, <1>3, <2>1
       DEF Justified, AskedSound, NothingHeldBack, Suspended, Reached, Alive, TaskCancel
  <2> QED BY <2>2 DEF OutsideCancel
<1>7. OutsideCancel(t)'
  BY <1>4, <1>5, <1>6 DEF ResumeProxy
<1>8. captured' = <<>>
  OBVIOUS
<1> QED BY ONLY CancelInv, captured = <<>>, <1>2, <1>7, <1>8, OutsideKeeps

\* A step of a captured list: cancel() of its next task.
LEMMA AskedKeeps ==
    ASSUME IndInv, CancelInv, captured # <<>>, NEW p \in Task, p = NextCaptured,
           captured' = AfterCaptured, UNCHANGED <<home, exception>>,
           asked' = asked \cup {p}, Only(p), state'[p] # "Unborn",
           NothingHeldBack(p)', Alive(p)' => BeingCancelled(p)'
    PROVE  CancelInv'
<1>1. /\ InLists(captured, p) /\ OnceIn(captured')
      /\ \A u : InLists(captured', u) <=> InLists(captured, u) /\ u # p
  BY TakenOff DEF CancelInv, IndInv, TypeInv, TypeOK
<1>2. ASSUME NEW u \in Task, u # p PROVE TaskCancel(u)'
  <2>1. Apart(u)
    BY <1>1, <1>2 DEF Only, Apart
  <2> QED BY <2>1, ApartKeeps DEF CancelInv
<1>3. TaskCancel(p)'
  <2>1. p # Root => exception[home[p]] # "none"
    BY <1>1 DEF CancelInv, TaskCancel, CapturedSound
  <2>2. Justified(p)' /\ AskedSound(p)' /\ Reached(p)' /\ CapturedSound(p)'
    BY <1>1, <2>1 DEF Justified, AskedSound, Reached, CapturedSound
  <2> QED BY <2>2 DEF TaskCancel
<1> QED BY <1>1, <1>2, <1>3 DEF CancelInv

LEMMA CancelInit == Init => CancelInv
<1> SUFFICES ASSUME Init PROVE CancelInv
  OBVIOUS
<1>1. OnceIn(captured) /\ \A t \in Task : ~InLists(captured, t)
  BY NothingCaptured DEF Init
<1>2. ASSUME NEW t \in Task PROVE TaskCancel(t)
  <2>1. /\ ~cancelReq[t] /\ onResume[t] # "doResumeAfterCancel" /\ t \notin asked
        /\ t # Root => state[t] = "Unborn"
    BY DEF Init
  <2> QED BY <1>1, <2>1 DEF TaskCancel, Justified, AskedSound, NothingHeldBack,
                            Reached, CapturedSound, Alive
<1> QED BY <1>1, <1>2 DEF CancelInv

LEMMA CancelTaskStep ==
    ASSUME IndInv, CancelInv, NEW t \in Task, TaskStep(t)
    PROVE  CancelInv'
<1> USE DEF IndInv, TypeInv, TypeOK, promiseVars, nurseryVars
<1>0. /\ captured = <<>> /\ TaskCancel(t) /\ ~InLists(captured, t)
      /\ state[t] \in {"Running", "Returning"} /\ ~Suspended(t) /\ Alive(t)
  <2>1. captured = <<>> /\ state[t] \in {"Running", "Returning"}
    BY DEF TaskStep, AwaitLeaf, EarlyCancel, AwaitReadyAnyway, OpenNursery,
           OpenNurseryStub, Return, Throw, FinalSuspend, OnCpu
  <2> QED BY <2>1, NothingCaptured DEF CancelInv, Suspended, Alive
<1>1. t # Root => home[t] \in Scope /\ (exception[home[t]] # "none" => cancelReq[t])
  BY <1>0 DEF Owned, TaskCancel, Reached, BeingCancelled
<1>2. CASE AwaitLeaf(t)
  <2>1. /\ state'[t] = "Leaf" /\ onResume'[t] = Trampoline(cancelReq[t])
        /\ ~cancelReq'[t] /\ UNCHANGED <<home, asked, exception, captured>> /\ Only(t)
    BY <1>2 DEF AwaitLeaf, Only
  <2>2. Justified(t)' /\ AskedSound(t)'
    BY <1>0, <2>1 DEF Justified, AskedSound, TaskCancel, Trampoline
  <2>3. NothingHeldBack(t)' /\ Reached(t)'
    BY <1>1, <2>1 DEF NothingHeldBack, Reached, BeingCancelled, Suspended, Trampoline
  <2> QED BY <1>0, <2>1, <2>2, <2>3, OneTaskKeeps
<1>3. CASE EarlyCancel(t) \/ Return(t) \/ FinalSuspend(t)
  <2>1. /\ state'[t] = "Done" /\ Only(t)
        /\ UNCHANGED <<cancelReq, onResume, home, asked, exception, captured>>
    BY <1>3 DEF EarlyCancel, Return, FinalSuspend, PropagateCancel, Continuation, Only
  <2>2. Justified(t)' /\ AskedSound(t)' /\ NothingHeldBack(t)' /\ Reached(t)'
    BY <1>0, <2>1, Leaves
  <2> QED BY <1>0, <2>1, <2>2, OneTaskKeeps
<1>4. CASE AwaitReadyAnyway(t)
  <2>1. /\ state'[t] = "Ready" /\ cancelReq'[t] /\ cancelReq[t] /\ Only(t)
        /\ UNCHANGED <<home, asked, exception, captured>>
    BY <1>4 DEF AwaitReadyAnyway, DoResume, Only
  <2>2. Justified(t)' /\ AskedSound(t)'
    BY <1>0, <2>1 DEF Justified, AskedSound, TaskCancel
  <2>3. NothingHeldBack(t)' /\ Reached(t)'
    BY <2>1 DEF NothingHeldBack, Reached, BeingCancelled, Suspended
  <2> QED BY <1>0, <2>1, <2>2, <2>3, OneTaskKeeps
<1>5. ASSUME NEW n \in Scope, NEW b \in Task,
             OpenNursery(t, n, b) \/ OpenNurseryStub(t, n, b)
      PROVE  CancelInv'
  <2>1. /\ state[b] = "Unborn" /\ b # t /\ b # Root /\ ~Exists(n) /\ state[t] = "Running"
        /\ onResume[b] = "doNothing" /\ UNCHANGED captured
    BY <1>5 DEF OpenNursery, OpenNurseryStub, AddTask, OnCpu, Owned
  <2>2. b \notin asked /\ ~cancelReq[b]
    BY <2>1 DEF CancelInv, TaskCancel, AskedSound, Justified
  <2>3. PICK s \in {"Ready", "Done"}, e \in {"none", "cancelled"} :
          /\ state' = [state EXCEPT ![t] = n, ![b] = s]
          /\ home' = [home EXCEPT ![b] = n]
          /\ onResume' = [onResume EXCEPT ![t] = Trampoline(cancelReq[t])]
          /\ exception' = [exception EXCEPT ![n] = e]
          /\ asked' = IF e = "cancelled" THEN asked \cup {b} ELSE asked
          /\ cancelReq[t] => e = "cancelled"
          /\ ~cancelReq'[t] /\ (s = "Ready" => cancelReq'[b] = (e = "cancelled"))
          /\ s = "Done" => ~cancelReq'[b]
          /\ \A u \in Task \ {t, b} : cancelReq'[u] = cancelReq[u]
    <3>1. CASE OpenNursery(t, n, b)
      <4>1. /\ state' = [state EXCEPT ![t] = n, ![b] = "Ready"]
            /\ home' = [home EXCEPT ![b] = n]
            /\ onResume' = [onResume EXCEPT ![t] = Trampoline(cancelReq[t])]
            /\ cancelReq' = [cancelReq EXCEPT ![t] = FALSE, ![b] = cancelReq[t]]
            /\ exception' = [exception EXCEPT ![n] =
                    IF cancelReq[t] THEN "cancelled" ELSE "none"]
            /\ asked' = IF cancelReq[t] THEN asked \cup {b} ELSE asked
        BY <3>1 DEF OpenNursery, AddTask
      <4>2. cancelReq'[t] = FALSE /\ cancelReq'[b] = cancelReq[t]
        BY <2>1, <4>1
      <4>3. CASE cancelReq[t]
        BY <4>1, <4>2, <4>3
      <4>4. CASE ~cancelReq[t]
        BY <4>1, <4>2, <4>4
      <4> QED BY <4>3, <4>4
    <3>2. CASE OpenNurseryStub(t, n, b)
      <4>1. /\ state' = [state EXCEPT ![t] = n, ![b] = "Done"]
            /\ home' = [home EXCEPT ![b] = n]
            /\ onResume' = [onResume EXCEPT ![t] = Trampoline(cancelReq[t])]
            /\ cancelReq' = [cancelReq EXCEPT ![t] = FALSE]
        BY <3>2 DEF OpenNurseryStub
      <4>2. PICK e \in {"none", "cancelled"} :
              /\ cancelReq[t] => e = "cancelled"
              /\ exception' = [exception EXCEPT ![n] = e]
              /\ asked' = IF e = "cancelled" THEN asked \cup {b} ELSE asked
        BY <3>2 DEF OpenNurseryStub
      <4>3. ~cancelReq'[t] /\ ~cancelReq'[b]
        BY <2>1, <2>2, <4>1
      <4> QED BY <4>1, <4>2, <4>3
    <3> QED BY <1>5, <3>1, <3>2
  <2>4. \A u \in Task \ {Root} : state[u] # "Unborn" =>
            home[u] # n /\ home[u] \in Scope /\ exception'[home[u]] = exception[home[u]]
    BY <2>1, <2>3 DEF Structure, StructuredConcurrency, Exists, Owned
  <2>5. \A u \in Task \ {t, b} : Apart(u)
    BY <2>1, <2>3, <2>4 DEF Apart
  <2>6. Justified(t)' /\ AskedSound(t)' /\ NothingHeldBack(t)' /\ Reached(t)'
    <3>1. /\ state'[t] = n /\ onResume'[t] = Trampoline(cancelReq[t]) /\ home'[t] = home[t]
          /\ t # Root => exception'[home[t]] = exception[home[t]]
          /\ t \in asked' <=> t \in asked
      BY <1>0, <2>1, <2>3, <2>4
    <3>2. Justified(t)' /\ AskedSound(t)'
      BY <1>0, <2>1, <2>3, <3>1 DEF Justified, AskedSound, TaskCancel, Trampoline
    <3>3. NothingHeldBack(t)' /\ Reached(t)'
      BY <1>1, <2>3, <3>1 DEF NothingHeldBack, Reached, BeingCancelled, Suspended, Trampoline
    <3> QED BY <3>2, <3>3
  <2>7. Justified(b)' /\ AskedSound(b)' /\ NothingHeldBack(b)' /\ Reached(b)'
    <3>1. /\ state'[b] = s /\ onResume'[b] = "doNothing" /\ home'[b] = n
          /\ exception'[n] = e /\ s \notin Scope /\ s \notin {"Unborn", "Leaf"}
          /\ b \in asked' <=> e = "cancelled"
      BY <2>1, <2>2, <2>3
    <3>2. Justified(b)' /\ AskedSound(b)'
      BY <2>3, <3>1 DEF Justified, AskedSound
    <3>3. NothingHeldBack(b)' /\ Reached(b)'
      BY <2>3, <3>1 DEF NothingHeldBack, Reached, BeingCancelled, Suspended, Alive
    <3> QED BY <3>2, <3>3
  <2>8. \A u \in Task : Apart(u) \/ OutsideCancel(u)'
    BY <2>5, <2>6, <2>7 DEF OutsideCancel
  <2>9. captured' = <<>>
    BY <1>0, <2>1
  <2> QED BY ONLY CancelInv, <1>0, <2>8, <2>9, OutsideKeeps
<1>6. CASE Throw(t)
  <2>0. state' = [state EXCEPT ![t] = "Returning"] /\ state[t] = "Running"
        /\ UNCHANGED <<cancelReq, onResume, home, asked>>
    BY <1>6 DEF Throw, OnCpu
  <2>1. /\ state'[t] = "Returning" /\ \A u \in Task \ {t} : state'[u] = state[u]
        /\ "Returning" \notin Scope /\ ~Suspended(t)'
    BY <2>0 DEF Suspended
  <2>2. Justified(t)' /\ NothingHeldBack(t)'
    BY <1>0, <2>0, <2>1 DEF Justified, NothingHeldBack, TaskCancel
  <2>3. CASE t = Root
    <3>1. UNCHANGED <<exception, captured>> /\ Only(t)
      BY <1>6, <2>0, <2>1, <2>3 DEF Throw, Only
    <3>2. AskedSound(t)' /\ Reached(t)'
      BY <2>1, <2>3 DEF AskedSound, Reached
    <3> QED BY <1>0, <2>2, <3>1, <3>2, OneTaskKeeps
  <2>4. CASE t # Root
    <3> DEFINE n == home[t]
    <3>1. /\ n \in Scope
          /\ exception' = [exception EXCEPT ![n] = StoredException(n, t)]
          /\ captured' = IF NeedCancel(n) THEN DoCancel(n, captured) ELSE captured
      BY <1>1, <1>6, <2>4 DEF Throw
    <3>2. StoredException(n, t) \in {"cancelled"} \cup Task
      BY <3>1 DEF StoredException
    <3>3. CASE NeedCancel(n)
      <4>1. /\ exception[n] = "none" /\ captured' = DoCancel(n, captured)
            /\ captured \in Seq(Seq(Task)) /\ OnceIn(captured)
        BY <1>0, <3>1, <3>3 DEF NeedCancel, CancelInv
      <4>2. ASSUME NEW u \in Task PROVE TaskCancel(u)'
        <5>1. /\ Alive(u)' <=> Alive(u)
              /\ state[u] = "Unborn" <=> state'[u] = "Unborn"
              /\ state'[u] = state[u] \/ state'[u] = "Returning"
              /\ state'[u] # state[u] => u # Root /\ home[u] = n
          BY <2>0, <2>1, <2>4 DEF Alive
        <5> HIDE DEF n
        <5> QED BY <2>0, <3>1, <3>2, <4>1, <5>1, SweptKeeps
      <4>3. OnceIn(captured')
        BY <3>1, <4>1, Swept
      <4> QED BY <4>2, <4>3 DEF CancelInv
    <3>4. CASE ~NeedCancel(n)
      <4>1. exception[n] # "none" /\ captured' = captured
        BY <3>1, <3>4 DEF NeedCancel
      <4>2. \A u \in Task : home[u] \in Scope =>
                (exception'[home[u]] = "none" <=> exception[home[u]] = "none")
        BY <3>1, <3>2, <4>1
      <4>3. \A u \in Task \ {t} : Apart(u)
        BY <2>0, <2>1, <4>1, <4>2 DEF Apart, Owned
      <4>4. AskedSound(t)' /\ Reached(t)'
        BY <1>0, <1>1, <2>0, <2>1, <2>4, <4>1, <4>2
           DEF AskedSound, Reached, BeingCancelled, TaskCancel
      <4>5. \A u \in Task : Apart(u) \/ OutsideCancel(u)'
        BY <2>2, <4>3, <4>4 DEF OutsideCancel
      <4>6. captured' = <<>>
        BY <1>0, <4>1
      <4> QED BY ONLY CancelInv, <1>0, <4>5, <4>6, OutsideKeeps
    <3> QED BY <3>3, <3>4
  <2> QED BY <2>3, <2>4
<1> QED BY <1>2, <1>3, <1>4, <1>5, <1>6 DEF TaskStep

LEMMA CancelCancelStep ==
    ASSUME IndInv, CancelInv, NEW p \in Task, CancelStep(p)
    PROVE  CancelInv'
<1> USE DEF IndInv, TypeInv, TypeOK, promiseVars, nurseryVars
<1>0. captured # <<>> /\ p = NextCaptured
  BY DEF CancelStep, CancelPending, CancelLeaf, CancelLeafCompletes,
         CancelLeafLater, CancelNested
<1>1. /\ InLists(captured, p) /\ AfterCaptured \in Seq(Seq(Task)) /\ OnceIn(AfterCaptured)
      /\ \A u : InLists(AfterCaptured, u) <=> InLists(captured, u) /\ u # p
  BY <1>0, TakenOff DEF CancelInv
<1>2. /\ TaskCancel(p) /\ Alive(p) /\ state[p] # "Unborn"
      /\ p # Root => exception[home[p]] # "none" /\ home[p] \in Scope
  BY <1>1 DEF CancelInv, TaskCancel, CapturedSound, Alive, Owned
<1>3. CASE CancelPending(p)
  <2>1. /\ captured' = AfterCaptured /\ asked' = asked \cup {p} /\ Only(p)
        /\ UNCHANGED <<state, home, exception>> /\ cancelReq'[p] /\ ~Suspended(p)
    BY <1>3 DEF CancelPending, Only
  <2> QED BY <1>0, <1>2, <2>1, AskedKeeps DEF NothingHeldBack, Suspended, BeingCancelled
<1>4. CASE CancelLeaf(p)
  <2>1. /\ captured' = AfterCaptured /\ asked' = asked \cup {p} /\ Only(p)
        /\ UNCHANGED <<home, exception>> /\ state'[p] = "Done" /\ "Done" \notin Scope
    BY <1>4 DEF CancelLeaf, Continuation, Only
  <2> QED BY <1>0, <2>1, AskedKeeps DEF NothingHeldBack, Suspended, Alive
<1>5. CASE CancelLeafCompletes(p)
  <2>1. /\ captured' = AfterCaptured /\ asked' = asked \cup {p} /\ Only(p)
        /\ UNCHANGED <<home, exception>> /\ state'[p] = "Ready" /\ cancelReq'[p]
        /\ "Ready" \notin Scope
    BY <1>5 DEF CancelLeafCompletes, DoResume, Only
  <2> QED BY <1>0, <2>1, AskedKeeps DEF NothingHeldBack, Suspended, BeingCancelled
<1>6. CASE \/ CancelLeafLater(p)
           \/ CancelNested(p) /\ ~NeedCancel(state[p])
  <2>1. Suspended(p) /\ state[p] \in Scope \cup {"Leaf"}
    BY <1>6 DEF CancelLeafLater, CancelNested, Suspended
  <2>2. /\ captured' = AfterCaptured /\ asked' = asked \cup {p}
        /\ onResume' = [onResume EXCEPT ![p] = "doResumeAfterCancel"]
        /\ UNCHANGED <<state, cancelReq, home, exception>>
    BY <1>6 DEF CancelLeafLater, CancelNested
  <2>3. Only(p) /\ onResume'[p] = "doResumeAfterCancel"
    BY <2>2 DEF Only
  <2> QED BY <1>0, <1>2, <2>1, <2>2, <2>3, AskedKeeps
          DEF TaskCancel, NothingHeldBack, Suspended, BeingCancelled
<1>7. CASE CancelNested(p) /\ NeedCancel(state[p])
  <2> DEFINE m == state[p]
  <2>1. /\ m \in Scope /\ exception[m] = "none"
        /\ captured' = DoCancel(m, AfterCaptured)
        /\ exception' = [exception EXCEPT ![m] = "cancelled"]
        /\ onResume' = [onResume EXCEPT ![p] = "doResumeAfterCancel"]
        /\ asked' = asked \cup {p} /\ UNCHANGED <<state, cancelReq, home>>
    BY <1>7 DEF CancelNested, NeedCancel
  <2> HIDE DEF m
  <2>2. /\ OnceIn(captured')
        /\ \A u \in Task : InLists(captured', u) <=>
              InLists(AfterCaptured, u) \/ (u # Root /\ home[u] = m /\ Alive(u))
    BY <1>1, <2>1, Swept
  <2>3. ASSUME NEW u \in Task, u # p PROVE TaskCancel(u)'
    <3>1. /\ InLists(AfterCaptured, u) <=> InLists(captured, u)
          /\ \A x : InLists(AfterCaptured, x) => InLists(captured, x)
          /\ state'[u] = state[u] /\ (Alive(u)' <=> Alive(u))
          /\ cancelReq'[u] = cancelReq[u] /\ onResume'[u] = onResume[u]
          /\ home'[u] = home[u] /\ (u \in asked' <=> u \in asked)
      BY <1>1, <2>1, <2>3 DEF Alive
    <3> QED BY <1>1, <2>1, <3>1, SweptKeeps
  <2>4. TaskCancel(p)'
    <3>1. /\ onResume'[p] = "doResumeAfterCancel" /\ Suspended(p)' /\ Suspended(p)
          /\ p \in asked'
      BY <2>1 DEF Suspended, m
    <3>2. p # Root => home[p] # m /\ exception'[home[p]] = exception[home[p]]
      BY <1>2, <2>1
    <3>3. ~InLists(captured', p)
      BY <1>1, <2>2, <3>2
    <3>4. Justified(p)' /\ AskedSound(p)'
      BY <1>2, <2>1, <3>1, <3>2 DEF Justified, AskedSound
    <3>5. NothingHeldBack(p)' /\ Reached(p)'
      BY <1>2, <2>1, <3>1 DEF NothingHeldBack, Reached, BeingCancelled, TaskCancel
    <3>6. CapturedSound(p)'
      BY <3>3 DEF CapturedSound
    <3> QED BY <3>4, <3>5, <3>6 DEF TaskCancel
  <2> QED BY <2>2, <2>3, <2>4 DEF CancelInv
<1> QED BY <1>3, <1>4, <1>5, <1>6, <1>7 DEF CancelStep

LEMMA CancelExecutorStep ==
    ASSUME IndInv, CancelInv, NEW t \in Task, ExecutorStep(t)
    PROVE  CancelInv'
<1> USE DEF IndInv, TypeInv, TypeOK, promiseVars, nurseryVars
<1>0. captured = <<>> /\ UNCHANGED captured /\ TaskCancel(t) /\ ~InLists(captured, t)
  <2>1. captured = <<>> /\ UNCHANGED captured
    BY DEF ExecutorStep, RunTask, RunDestroy, RunParent, Draining
  <2> QED BY <2>1, NothingCaptured DEF CancelInv
<1>1. CASE RunTask(t)
  <2>1. PICK e \in Entry : e = Head(ready) /\ EntrySound(e)
    BY <1>1, HeadTaken DEF RunTask, Draining, Structure
  <2>2. state[t] = "Ready"
    BY <1>1, <2>1 DEF RunTask, Draining, EntrySound
  <2>3. /\ state'[t] = "Running" /\ Only(t)
        /\ UNCHANGED <<cancelReq, onResume, home, asked, exception>>
    BY <1>1 DEF RunTask, Only
  <2>4. Justified(t)' /\ AskedSound(t)'
    BY <1>0, <2>2, <2>3 DEF Justified, AskedSound, TaskCancel
  <2>5. NothingHeldBack(t)' /\ Reached(t)'
    BY <1>0, <2>2, <2>3
       DEF NothingHeldBack, Reached, BeingCancelled, Suspended, Alive, TaskCancel
  <2> QED BY <1>0, <2>3, <2>4, <2>5, OneTaskKeeps
<1>2. CASE RunDestroy(t)
  <2>1. /\ state'[t] = "Unborn" /\ ~cancelReq'[t] /\ onResume'[t] = "doNothing"
        /\ t \notin asked' /\ UNCHANGED exception /\ Only(t)
    BY <1>2 DEF RunDestroy, Only
  <2>2. Justified(t)' /\ AskedSound(t)' /\ NothingHeldBack(t)' /\ Reached(t)'
    BY <2>1 DEF Justified, AskedSound, NothingHeldBack, Reached, Alive
  <2> QED BY <1>0, <2>1, <2>2, OneTaskKeeps
<1>3. CASE RunParent(t)
  <2>1. /\ ResumeProxy(t, Tail(ready)) /\ UNCHANGED <<home, asked>>
        /\ exception' = [exception EXCEPT ![state[t]] = "none"]
        /\ Released(Tail(ready), t)
    BY <1>3 DEF RunParent, Draining, Released, ResumeParent
  <2>2. \A u \in Task \ {Root} : state[u] # "Unborn" => home[u] # state[t]
    BY <2>1, ReleasedFacts
  <2>3. \A u \in Task \ {Root} :
            state[u] # "Unborn" => exception'[home[u]] = exception[home[u]]
    BY <2>1, <2>2 DEF Owned
  <2>4. PICK e \in Entry : e = Head(ready) /\ EntrySound(e)
    BY <1>3, HeadTaken DEF RunParent, Draining, Structure
  <2>5. Suspended(t)
    BY <1>3, <2>4 DEF RunParent, Draining, EntrySound, Suspended
  <2> QED BY <1>0, <2>1, <2>3, <2>5, ProxyKeeps
<1> QED BY <1>1, <1>2, <1>3 DEF ExecutorStep

LEMMA CancelCall ==
    ASSUME IndInv, CancelInv, Call
    PROVE  CancelInv'
<1> USE DEF IndInv, TypeInv, TypeOK, promiseVars, nurseryVars
<1>0. captured = <<>> /\ \A u : ~InLists(captured, u)
  <2>1. Call => Caller
    BY ONLY DEF Call, Start, StartStub, CancelNursery, Wake, CancelRoot, Caller
  <2>2. captured = <<>>
    BY ONLY Call, <2>1 DEF Caller, Idle, OnCpu
  <2> QED BY ONLY <2>2, NothingCaptured
<1>1. ASSUME NEW n \in Scope, NEW c \in Task, Start(n, c) \/ StartStub(n, c)
      PROVE  CancelInv'
  <2>1. /\ state[c] = "Unborn" /\ c # Root /\ onResume[c] = "doNothing"
        /\ c \notin asked /\ ~cancelReq[c]
    BY <1>1 DEF Start, StartStub, AddTask, Owned, CancelInv, TaskCancel, AskedSound, Justified
  <2>2. /\ state'[c] \in {"Ready", "Done"} /\ home'[c] = n /\ UNCHANGED onResume
        /\ c \in asked' <=> exception[n] # "none"
        /\ cancelReq'[c] => exception[n] # "none"
        /\ state'[c] = "Ready" /\ exception[n] # "none" => cancelReq'[c]
        /\ UNCHANGED <<exception, captured>> /\ Only(c)
    <3>1. CASE Start(n, c)
      BY <2>1, <3>1 DEF Start, AddTask, CancelledAtStart, Only
    <3>2. CASE StartStub(n, c)
      BY <2>1, <3>2 DEF StartStub, CancelledAtStart, Only
    <3> QED BY <1>1, <3>1, <3>2
  <2>3. state'[c] \notin Scope /\ state'[c] \notin {"Leaf", "Unborn"}
    BY <2>2
  <2>4. Justified(c)' /\ AskedSound(c)' /\ NothingHeldBack(c)' /\ Reached(c)'
    BY <2>1, <2>2, <2>3
       DEF Justified, AskedSound, NothingHeldBack, Suspended, Reached, BeingCancelled, Alive
  <2> QED BY <1>0, <2>2, <2>4, OneTaskKeeps
<1>2. ASSUME NEW n \in Scope, CancelNursery(n) PROVE CancelInv'
  <2>1. /\ exception[n] = "none" /\ captured' = DoCancel(n, captured)
        /\ exception' = [exception EXCEPT ![n] = "cancelled"]
        /\ UNCHANGED <<state, cancelReq, onResume, home, asked>>
        /\ captured \in Seq(Seq(Task)) /\ OnceIn(captured)
    BY <1>0, <1>2 DEF CancelNursery, NeedCancel, CancelInv
  <2>2. ASSUME NEW u \in Task PROVE TaskCancel(u)'
    <3>1. /\ Alive(u)' <=> Alive(u)
          /\ state'[u] = state[u] /\ cancelReq'[u] = cancelReq[u]
          /\ onResume'[u] = onResume[u] /\ home'[u] = home[u]
          /\ u \in asked' <=> u \in asked
      BY <2>1 DEF Alive
    <3>2. "cancelled" \in {"cancelled"} \cup Task
      OBVIOUS
    <3>3. \A p : InLists(captured, p) => InLists(captured, p)
      OBVIOUS
    <3> QED BY ONLY IndInv, CancelInv, n \in Scope, u \in Task, <2>1, <3>1, <3>2, <3>3, SweptKeeps
  <2>3. OnceIn(captured')
    BY <2>1, Swept
  <2> QED BY <2>2, <2>3 DEF CancelInv
<1>3. ASSUME NEW u \in Task, Wake(u) PROVE CancelInv'
  <2>1. /\ Suspended(u) /\ ResumeProxy(u, ready)
        /\ UNCHANGED <<captured, home, asked, exception>>
    BY <1>3 DEF Wake, Suspended
  <2> QED BY <1>0, <2>1, ProxyKeeps
<1>4. CASE CancelRoot
  <2>1. /\ captured' = <<<<Root>>>> /\ Root \notin asked /\ Suspended(Root)
        /\ UNCHANGED <<state, cancelReq, onResume, home, exception, asked>>
    BY <1>4 DEF CancelRoot
  <2>2. /\ \A p : Contains(<<Root>>, p) <=> p = Root
        /\ EntriesDistinct(<<Root>>)
    BY DEF Contains, EntriesDistinct
  <2>3. OnceIn(captured') /\ \A p : InLists(captured', p) <=> p = Root
    <3> DEFINE none == <<>>
               one == <<Root>>
    <3>1. captured' = <<one>> \o none /\ one \in Seq(Task) /\ none \in Seq(Seq(Task))
      BY <2>1
    <3>2. OnceIn(none) /\ \A p : ~InLists(none, p)
      BY NothingCaptured
    <3>3. EntriesDistinct(one) /\ \A p : Contains(one, p) <=> p = Root
      BY <2>2
    <3> HIDE DEF none, one
    <3>4. /\ \A p : InLists(<<one>> \o none, p) <=> Contains(one, p) \/ InLists(none, p)
          /\ OnceIn(<<one>> \o none) <=>
               /\ EntriesDistinct(one) /\ OnceIn(none)
               /\ \A p : ~(Contains(one, p) /\ InLists(none, p))
      BY ONLY <3>1, Stacked
    <3> QED BY ONLY <3>1, <3>2, <3>3, <3>4
  <2>4. ASSUME NEW u \in Task PROVE TaskCancel(u)'
    <3>1. CASE u = Root
      <4>1. TaskCancel(u) /\ state[u] \in Scope \cup {"Leaf"}
        BY <2>1, <3>1 DEF CancelInv, Suspended
      <4>2. Justified(u)' /\ AskedSound(u)' /\ NothingHeldBack(u)'
        BY <2>1, <4>1 DEF TaskCancel, Justified, AskedSound, NothingHeldBack, Suspended
      <4>3. Reached(u)' /\ CapturedSound(u)'
        BY <2>1, <3>1, <4>1 DEF Reached, CapturedSound, Alive
      <4> QED BY <4>2, <4>3 DEF TaskCancel
    <3>2. CASE u # Root
      <4>1. Apart(u)
        BY <1>0, <2>1, <2>3, <3>2 DEF Apart
      <4> QED BY <4>1, ApartKeeps DEF CancelInv
    <3> QED BY <3>1, <3>2
  <2> QED BY <2>3, <2>4 DEF CancelInv
<1> QED BY <1>1, <1>2, <1>3, <1>4 DEF Call

LEMMA CancelKept == IndInv /\ CancelInv /\ [Next]_vars => CancelInv'
<1> SUFFICES ASSUME IndInv, CancelInv, [Next]_vars PROVE CancelInv'
  OBVIOUS
<1>1. CASE UNCHANGED vars \/ Finished
  <2>1. captured' = captured /\ \A u \in Task : Apart(u)
    BY <1>1 DEF vars, Finished, Apart
  <2>2. OnceIn(captured)'
    BY <2>1 DEF CancelInv
  <2> QED BY <2>1, <2>2, ApartKeeps DEF CancelInv
<1>2. CASE Next /\ ~Finished
  BY <1>2, CancelTaskStep, CancelCancelStep, CancelExecutorStep, CancelCall DEF Next
<1> QED BY <1>1, <1>2

LEMMA CancelCorrect == Spec => [](IndInv /\ CancelInv)
BY IndInit, IndStep, CancelInit, CancelKept, PTL DEF Spec

\* A task is cancelled only because its nursery is, or, for the root task,
\* because its parent asked.
THEOREM CancelJustified == Spec => []CancelHasReason
<1>1. CancelInv => CancelHasReason
  BY DEF CancelInv, TaskCancel, Justified, AskedSound, CancelHasReason, BeingCancelled
<1> QED BY <1>1, CancelCorrect, PTL

\* When Nursery::doCancel has returned, each task of a cancelled nursery is
\* being cancelled: those it linked, and those started since.
THEOREM CancelReaches == Spec => []CancelReachesAll
<1>1. CancelInv => CancelReachesAll
  BY NothingCaptured DEF CancelInv, TaskCancel, Reached, CancelReachesAll
<1> QED BY <1>1, CancelCorrect, PTL

\* cancel() is called at most once on a task, and on no task that is done.
THEOREM CancelOnce == Spec => []CancelledOnce
<1>1. ASSUME IndInv, CancelInv PROVE CancelledOnce
  <2> SUFFICES ASSUME NEW i \in 1..Len(captured), NEW j \in 1..Len(captured[i])
               PROVE  /\ Alive(captured[i][j]) /\ captured[i][j] \notin asked
                      /\ \A k \in 1..Len(captured) : \A l \in 1..Len(captured[k]) :
                            captured[k][l] = captured[i][j] => k = i /\ l = j
    BY DEF CancelledOnce
  <2>1. captured[i] \in Seq(Task)
    BY <1>1, ElementOfSeq DEF IndInv, TypeInv, TypeOK
  <2>2. captured[i][j] \in Task /\ InLists(captured, captured[i][j])
    BY <2>1, ElementOfSeq DEF InLists, Contains
  <2> QED BY <1>1, <2>2 DEF CancelInv, TaskCancel, CapturedSound, OnceIn
<1> QED BY <1>1, CancelCorrect, PTL

\* A task stops waiting for a nursery only in RunParent.
LEMMA LeaveStep ==
    ASSUME IndInv, Next, NEW p \in Task, NEW n \in Scope,
           state[p] = n, state'[p] # n
    PROVE  RunParent(p)
<1> USE DEF IndInv, TypeInv, TypeOK, promiseVars, nurseryVars
<1>0. n \notin {"Unborn", "Ready", "Running", "Returning", "Leaf", "Done"}
  OBVIOUS
<1>1. ASSUME NEW t \in Task, NEW s, state' = [state EXCEPT ![t] = s] PROVE t = p
  BY <1>1
<1>2. ASSUME NEW t \in Task, NEW q,
             \/ ResumeProxy(t, q) \/ PropagateCancel(t, q) \/ Continuation(t, q)
             \/ DoResume(t, q, FALSE) \/ DoResume(t, q, TRUE)
      PROVE  t = p
  BY <1>1, <1>2, ResumeMoves
<1>3. ASSUME NEW t \in Task, TaskStep(t) PROVE FALSE
  <2>1. state[t] \in {"Running", "Returning"}
    BY <1>3 DEF TaskStep, AwaitLeaf, EarlyCancel, AwaitReadyAnyway, OpenNursery,
               OpenNurseryStub, Return, Throw, FinalSuspend, OnCpu
  <2>2. t # p
    BY <1>0, <2>1
  <2>3. CASE AwaitLeaf(t) \/ Throw(t)
    BY <2>2, <2>3 DEF AwaitLeaf, Throw
  <2>4. CASE EarlyCancel(t) \/ AwaitReadyAnyway(t) \/ Return(t) \/ FinalSuspend(t)
    BY <1>2, <2>2, <2>4 DEF EarlyCancel, AwaitReadyAnyway, Return, FinalSuspend
  <2>5. ASSUME NEW m \in Scope, NEW b \in Task,
               OpenNursery(t, m, b) \/ OpenNurseryStub(t, m, b)
        PROVE  FALSE
    <3>1. state[b] = "Unborn"
      BY <2>5 DEF OpenNursery, OpenNurseryStub, AddTask
    <3>2. b # p
      BY <1>0, <3>1
    <3> QED BY <2>2, <2>5, <3>2 DEF OpenNursery, OpenNurseryStub
  <2> QED BY <1>3, <2>3, <2>4, <2>5 DEF TaskStep
<1>4. ASSUME NEW t \in Task, CancelStep(t) PROVE FALSE
  <2>1. CASE CancelPending(t) \/ CancelLeafLater(t) \/ CancelNested(t)
    BY <2>1 DEF CancelPending, CancelLeafLater, CancelNested
  <2>2. CASE CancelLeaf(t) \/ CancelLeafCompletes(t)
    BY <1>0, <1>2, <2>2 DEF CancelLeaf, CancelLeafCompletes
  <2> QED BY <1>4, <2>1, <2>2 DEF CancelStep
<1>5. ASSUME NEW t \in Task, ExecutorStep(t) PROVE RunParent(p)
  <2>1. CASE RunTask(t) \/ RunDestroy(t)
    <3>1. PICK e \in Entry : e = Head(ready) /\ EntrySound(e)
      BY <2>1, HeadTaken DEF RunTask, RunDestroy, Draining, Structure
    <3>2. e.arg = t /\ e.fn \in {"resume", "destroy"}
      BY <2>1, <3>1 DEF RunTask, RunDestroy, Draining
    <3>3. state[t] \in {"Ready", "Done"}
      BY <3>1, <3>2 DEF EntrySound
    <3>4. t = p
      BY <1>1, <2>1 DEF RunTask, RunDestroy
    <3> QED BY <1>0, <3>3, <3>4
  <2>2. CASE RunParent(t)
    BY <1>2, <2>2 DEF RunParent
  <2> QED BY <1>5, <2>1, <2>2 DEF ExecutorStep
<1>6. ASSUME Call PROVE FALSE
  <2>1. ASSUME NEW m \in Scope, NEW c \in Task, Start(m, c) \/ StartStub(m, c)
        PROVE  FALSE
    <3>1. state[c] = "Unborn" /\ c = p
      BY <1>1, <2>1 DEF Start, StartStub, AddTask
    <3> QED BY <1>0, <3>1
  <2>2. ASSUME NEW u \in Task, Wake(u) PROVE FALSE
    <3>1. state[u] = "Leaf" /\ u = p
      BY <1>2, <2>2 DEF Wake
    <3> QED BY <1>0, <3>1
  <2>3. CASE CancelRoot \/ \E m \in Scope : CancelNursery(m)
    BY <2>3 DEF CancelRoot, CancelNursery
  <2> QED BY <1>6, <2>1, <2>2, <2>3 DEF Call
<1> QED BY <1>3, <1>4, <1>5, <1>6 DEF Next, Finished, vars

\* The task that opened a nursery gets the exception stored there, even when
\* it is being cancelled itself, and ends by cancellation only if it was
\* cancelled and so was the nursery.
THEOREM OutcomeDelivered == Spec => ParentOutcome
<1>1. ASSUME IndInv, CancelInv, Next, NEW p \in Task, NEW n \in Scope,
             state[p] = n, state'[p] # n
      PROVE  /\ exception[n] \in Task => state'[p] = "Ready"
             /\ state'[p] = "Done" => p \in asked /\ exception[n] = "cancelled"
  <2>1. ResumeProxy(p, Tail(ready)) /\ state[p] # "Leaf"
    BY <1>1, LeaveStep DEF RunParent
  <2>2. \/ DoResume(p, Tail(ready), FALSE) \/ DoResume(p, Tail(ready), TRUE)
        \/ /\ PropagateCancel(p, Tail(ready)) /\ onResume[p] = "doResumeAfterCancel"
           /\ FALSE \in MustResume(p)
    <3>1. \A must \in MustResume(p) : must \in BOOLEAN
      BY DEF MustResume
    <3> QED BY <2>1, <3>1 DEF ResumeProxy
  <2>3. CASE DoResume(p, Tail(ready), FALSE) \/ DoResume(p, Tail(ready), TRUE)
    <3>1. state' = [state EXCEPT ![p] = "Ready"]
      BY <2>3 DEF DoResume
    <3>2. state'[p] = "Ready"
      BY <1>1, <3>1 DEF IndInv, TypeInv, TypeOK
    <3> QED BY <3>2
  <2>4. CASE /\ onResume[p] = "doResumeAfterCancel"
             /\ FALSE \in MustResume(p)
    <3>1. exception[n] = "cancelled"
      BY <1>1, <2>1, <2>4 DEF MustResume
    <3>2. p \in asked
      BY <1>1, <2>4 DEF CancelInv, TaskCancel, Justified
    <3>3. "cancelled" \notin Task
      OBVIOUS
    <3> QED BY <3>1, <3>2, <3>3
  <2> QED BY <2>2, <2>3, <2>4
<1>2. IndInv /\ CancelInv /\ [Next]_vars =>
        [\A p \in Task, n \in Scope : state[p] = n /\ state'[p] # n =>
            /\ exception[n] \in Task => state'[p] = "Ready"
            /\ state'[p] = "Done" => p \in asked /\ exception[n] = "cancelled"]_vars
  BY <1>1
<1> QED BY CancelCorrect, <1>2, PTL DEF Spec, ParentOutcome
(***************************************************************************)
(* What a nursery promises: Nursery implements NurseryScope.               *)
(***************************************************************************)

USE WatchedAssumption

\* The watched nursery is not the name of a state.
LEMMA NotAState ==
    Watched \notin {"Unborn", "Ready", "Running", "Returning", "Leaf", "Done"}
BY ONLY NurseryAssumption, WatchedAssumption

\* The sets of tasks A and B differ in b at most.
LEMMA GainsOrLoses ==
    ASSUME NEW A \in SUBSET Task, NEW B \in SUBSET Task, NEW b \in Task,
           \A u \in Task \ {b} : u \in B <=> u \in A
    PROVE  /\ b \in B => B = A \cup {b}
           /\ b \notin B => B = A \ {b}
           /\ (b \in A <=> b \in B) => B = A
OBVIOUS

\* The root task is in no nursery.
RootOutside == home[Root] = None

\* Task u is seen in the watched nursery, at work or as a frame.
Seen(u) == home[u] = Watched /\ Alive(u)
SeenDone(u) == home[u] = Watched /\ state[u] = "Done"

\* What the contract looks at, task by task.
LEMMA Views ==
    /\ \A u \in Task : u \in Active(Watched) <=> Seen(u)
    /\ \A u \in Task : u \in Zombies(Watched) <=> SeenDone(u)
    /\ Active(Watched) \subseteq Task /\ Zombies(Watched) \subseteq Task
BY DEF Active, Zombies, Seen, SeenDone

LEMMA ViewsThen ==
    /\ \A u \in Task : u \in Active(Watched)' <=> Seen(u)'
    /\ \A u \in Task : u \in Zombies(Watched)' <=> SeenDone(u)'
    /\ Active(Watched)' \subseteq Task /\ Zombies(Watched)' \subseteq Task
BY DEF Active, Zombies, Seen, SeenDone

\* A step that at most one task's place in the watched nursery changes.
LEMMA OneSeen ==
    ASSUME NEW b \in Task,
           \A u \in Task \ {b} : (Seen(u)' <=> Seen(u)) /\ (SeenDone(u)' <=> SeenDone(u))
    PROVE  /\ Seen(b)' => Active(Watched)' = Active(Watched) \cup {b}
           /\ ~Seen(b)' => Active(Watched)' = Active(Watched) \ {b}
           /\ (Seen(b)' <=> Seen(b)) => Active(Watched)' = Active(Watched)
           /\ SeenDone(b)' => Zombies(Watched)' = Zombies(Watched) \cup {b}
           /\ ~SeenDone(b)' => Zombies(Watched)' = Zombies(Watched) \ {b}
           /\ (SeenDone(b)' <=> SeenDone(b)) => Zombies(Watched)' = Zombies(Watched)
<1>1. /\ Active(Watched) \in SUBSET Task /\ Active(Watched)' \in SUBSET Task
      /\ \A u \in Task \ {b} : u \in Active(Watched)' <=> u \in Active(Watched)
      /\ Seen(b)' <=> b \in Active(Watched)'
      /\ Seen(b) <=> b \in Active(Watched)
  BY Views, ViewsThen
<1>2. /\ Zombies(Watched) \in SUBSET Task /\ Zombies(Watched)' \in SUBSET Task
      /\ \A u \in Task \ {b} : u \in Zombies(Watched)' <=> u \in Zombies(Watched)
      /\ SeenDone(b)' <=> b \in Zombies(Watched)'
      /\ SeenDone(b) <=> b \in Zombies(Watched)
  BY Views, ViewsThen
<1>3. /\ Seen(b)' => Active(Watched)' = Active(Watched) \cup {b}
      /\ ~Seen(b)' => Active(Watched)' = Active(Watched) \ {b}
      /\ (Seen(b)' <=> Seen(b)) => Active(Watched)' = Active(Watched)
  BY ONLY <1>1, GainsOrLoses, b \in Task
<1>4. /\ SeenDone(b)' => Zombies(Watched)' = Zombies(Watched) \cup {b}
      /\ ~SeenDone(b)' => Zombies(Watched)' = Zombies(Watched) \ {b}
      /\ (SeenDone(b)' <=> SeenDone(b)) => Zombies(Watched)' = Zombies(Watched)
  BY ONLY <1>2, GainsOrLoses, b \in Task
<1> QED BY <1>3, <1>4

\* A step that its user does not see.
LEMMA NothingSeen ==
    ASSUME Exists(Watched)' <=> Exists(Watched), exception'[Watched] = exception[Watched],
           \A u \in Task : (Seen(u)' <=> Seen(u)) /\ (SeenDone(u)' <=> SeenDone(u))
    PROVE  UNCHANGED Contract!vars
<1>1. Active(Watched)' = Active(Watched)
  BY Views, ViewsThen
<1>2. Zombies(Watched)' = Zombies(Watched)
  BY Views, ViewsThen
<1>3. Exists(Watched)' = Exists(Watched)
  BY DEF Exists
<1> QED BY <1>1, <1>2, <1>3 DEF Contract!vars

\* A task goes from one state in which it is alive to another.
LEMMA LivesOn ==
    ASSUME TypeInv, NEW t \in Task, NEW s, state' = [state EXCEPT ![t] = s],
           state[t] \notin {"Unborn", "Done"}, s \notin {"Unborn", "Done"},
           state[t] # Watched, s # Watched,
           home' = home, exception'[Watched] = exception[Watched]
    PROVE  UNCHANGED Contract!vars
<1> USE DEF TypeInv, TypeOK
<1>1. Exists(Watched)' <=> Exists(Watched)
  BY DEF Exists
<1>2. \A u \in Task : (Seen(u)' <=> Seen(u)) /\ (SeenDone(u)' <=> SeenDone(u))
  BY DEF Seen, SeenDone, Alive
<1> QED BY <1>1, <1>2, NothingSeen

\* A task of whatever nursery finishes.
LEMMA FinishSeen ==
    ASSUME TypeInv, NEW t \in Task, state' = [state EXCEPT ![t] = "Done"],
           state[t] \notin {"Unborn", "Done"}, state[t] # Watched,
           home' = home, exception'[Watched] = exception[Watched]
    PROVE  [Contract!Next]_(Contract!vars)
<1> USE DEF TypeInv, TypeOK
<1>1. Exists(Watched)' = Exists(Watched)
  BY DEF Exists
<1>2. \A u \in Task \ {t} : (Seen(u)' <=> Seen(u)) /\ (SeenDone(u)' <=> SeenDone(u))
  BY DEF Seen, SeenDone, Alive
<1>3. CASE home[t] = Watched
  <2>1. Seen(t) /\ ~Seen(t)' /\ SeenDone(t)'
    BY <1>3 DEF Seen, SeenDone, Alive
  <2>2. Active(Watched)' = Active(Watched) \ {t}
    BY ONLY <1>2, <2>1, OneSeen, t \in Task
  <2>3. Zombies(Watched)' = Zombies(Watched) \cup {t}
    BY ONLY <1>2, <2>1, OneSeen, t \in Task
  <2>4. t \in Active(Watched)
    BY <2>1, Views
  <2>5. Contract!Finish(t)
    BY <1>1, <2>2, <2>3, <2>4 DEF Contract!Finish
  <2> QED BY <2>5 DEF Contract!Next
<1>4. CASE home[t] # Watched
  <2>1. (Seen(t)' <=> Seen(t)) /\ (SeenDone(t)' <=> SeenDone(t))
    BY <1>4 DEF Seen, SeenDone
  <2> QED BY <1>1, <1>2, <2>1, NothingSeen
<1> QED BY <1>3, <1>4

\* A task is resumed or finishes.
LEMMA MovesSeen ==
    ASSUME TypeInv, NEW t \in Task, NEW q,
           \/ ResumeProxy(t, q) \/ PropagateCancel(t, q) \/ Continuation(t, q)
           \/ DoResume(t, q, FALSE) \/ DoResume(t, q, TRUE),
           state[t] \notin {"Unborn", "Done"}, state[t] # Watched,
           home' = home, exception'[Watched] = exception[Watched]
    PROVE  [Contract!Next]_(Contract!vars)
<1>1. PICK s \in {"Ready", "Done"} : state' = [state EXCEPT ![t] = s]
  BY ResumeMoves
<1>2. CASE s = "Done"
  BY <1>1, <1>2, FinishSeen
<1>3. CASE s = "Ready"
  <2>1. s \notin {"Unborn", "Done"} /\ s # Watched
    BY <1>3
  <2> QED BY <1>1, <2>1, LivesOn
<1> QED BY <1>2, <1>3

\* A nursery that nobody waits for has no tasks, and no frames of tasks.
LEMMA Deserted ==
    ASSUME IndInv, RootOutside, ~Exists(Watched)
    PROVE  \A u \in Task : ~Seen(u) /\ ~SeenDone(u)
<1>1. Root \in Task /\ ~Seen(Root) /\ ~SeenDone(Root)
  BY DEF RootOutside, Seen, SeenDone
<1>2. ASSUME NEW u \in Task \ {Root} PROVE ~Seen(u) /\ ~SeenDone(u)
  BY <1>2 DEF IndInv, Structure, StructuredConcurrency, Seen, SeenDone, Alive
<1> QED BY <1>1, <1>2

\* A task comes into the world in nursery n; s says whether it is done.
LEMMA BornSeen ==
    ASSUME TypeInv, NEW n \in Scope, NEW b \in Task, state[b] = "Unborn",
           home' = [home EXCEPT ![b] = n],
           \A u \in Task \ {b} : (Alive(u)' <=> Alive(u)) /\ (state'[u] = "Done" <=> state[u] = "Done")
    PROVE  /\ n = Watched /\ Alive(b)' =>
                /\ Active(Watched)' = Active(Watched) \cup {b}
                /\ Zombies(Watched)' = Zombies(Watched)
           /\ n = Watched /\ state'[b] = "Done" =>
                /\ Active(Watched)' = Active(Watched)
                /\ Zombies(Watched)' = Zombies(Watched) \cup {b}
           /\ n # Watched =>
                \A u \in Task : (Seen(u)' <=> Seen(u)) /\ (SeenDone(u)' <=> SeenDone(u))
           /\ b \notin Active(Watched) \cup Zombies(Watched)
<1> USE DEF TypeInv, TypeOK
<1>1. \A u \in Task \ {b} : (Seen(u)' <=> Seen(u)) /\ (SeenDone(u)' <=> SeenDone(u))
  BY DEF Seen, SeenDone
<1>2. ~Seen(b) /\ ~SeenDone(b) /\ home'[b] = n
  BY DEF Seen, SeenDone, Alive
<1>3. b \notin Active(Watched) \cup Zombies(Watched)
  BY <1>2, Views
<1>4. CASE n = Watched /\ Alive(b)'
  <2>1. Seen(b)' /\ ~SeenDone(b)'
    BY <1>2, <1>4 DEF Seen, SeenDone, Alive
  <2>2. Active(Watched)' = Active(Watched) \cup {b}
    BY ONLY <1>1, <2>1, OneSeen, b \in Task
  <2>3. Zombies(Watched)' = Zombies(Watched)
    BY ONLY <1>1, <1>2, <2>1, OneSeen, b \in Task
  <2>4. state'[b] # "Done"
    BY <1>4 DEF Alive
  <2> QED BY <1>3, <1>4, <2>2, <2>3, <2>4
<1>5. CASE n = Watched /\ state'[b] = "Done"
  <2>1. ~Seen(b)' /\ SeenDone(b)' /\ ~Alive(b)'
    BY <1>2, <1>5 DEF Seen, SeenDone, Alive
  <2>2. Active(Watched)' = Active(Watched)
    BY ONLY <1>1, <1>2, <2>1, OneSeen, b \in Task
  <2>3. Zombies(Watched)' = Zombies(Watched) \cup {b}
    BY ONLY <1>1, <2>1, OneSeen, b \in Task
  <2> QED BY <1>3, <1>5, <2>1, <2>2, <2>3
<1>6. CASE n # Watched
  <2>1. (Seen(b)' <=> Seen(b)) /\ (SeenDone(b)' <=> SeenDone(b))
    BY <1>2, <1>6 DEF Seen, SeenDone
  <2> QED BY <1>1, <1>3, <1>6, <2>1
<1> QED BY <1>3, <1>4, <1>5, <1>6

\* A nursery is opened, with a first task that runs or with a stub.
LEMMA OpenSeen ==
    ASSUME IndInv, RootOutside, NEW t \in Task, NEW n \in Scope, NEW b \in Task,
           OpenNursery(t, n, b) \/ OpenNurseryStub(t, n, b)
    PROVE  [Contract!Next]_(Contract!vars)
<1> USE DEF IndInv, TypeInv, TypeOK
<1>1. /\ state[t] = "Running" /\ state[b] = "Unborn" /\ t # b /\ ~Exists(n)
      /\ home' = [home EXCEPT ![b] = n]
  BY DEF OpenNursery, OpenNurseryStub, OnCpu, AddTask
<1>2. PICK s \in {"Ready", "Done"} : state' = [state EXCEPT ![t] = n, ![b] = s]
  BY DEF OpenNursery, OpenNurseryStub
<1>3. PICK e \in {"none", "cancelled"} : exception' = [exception EXCEPT ![n] = e]
  BY DEF OpenNursery, OpenNurseryStub
<1>4. state'[t] = n /\ state'[b] = s /\ \A u \in Task \ {t, b} : state'[u] = state[u]
  BY <1>1, <1>2
<1>5. \A u \in Task \ {b} :
        (Alive(u)' <=> Alive(u)) /\ (state'[u] = "Done" <=> state[u] = "Done")
  BY <1>1, <1>4 DEF Alive
<1>6. /\ n = Watched /\ Alive(b)' =>
            /\ Active(Watched)' = Active(Watched) \cup {b}
            /\ Zombies(Watched)' = Zombies(Watched)
      /\ n = Watched /\ state'[b] = "Done" =>
            /\ Active(Watched)' = Active(Watched)
            /\ Zombies(Watched)' = Zombies(Watched) \cup {b}
      /\ n # Watched =>
            \A u \in Task : (Seen(u)' <=> Seen(u)) /\ (SeenDone(u)' <=> SeenDone(u))
  BY ONLY <1>1, <1>5, BornSeen, TypeInv, n \in Scope, b \in Task
<1>7. CASE n = Watched
  <2>1. Active(Watched) = {} /\ Zombies(Watched) = {}
    BY <1>1, <1>7, Deserted, Views
  <2>2. Exists(Watched)'
    BY <1>4, <1>7 DEF Exists
  <2>3. exception'[Watched] \in {"none", "cancelled"}
    BY <1>3, <1>7
  <2>4. CASE s = "Ready"
    <3>1. Alive(b)'
      BY <1>4, <2>4 DEF Alive
    <3>2. Active(Watched)' = {b} /\ Zombies(Watched)' = Zombies(Watched)
      BY ONLY <1>7, <1>6, <2>1, <3>1
    <3> QED BY <1>1, <1>7, <2>1, <2>2, <2>3, <3>2 DEF Contract!Next, Contract!Open
  <2>5. CASE s = "Done"
    <3>1. Zombies(Watched)' = {b} /\ Active(Watched)' = Active(Watched)
      BY ONLY <1>4, <1>7, <1>6, <2>1, <2>5
    <3> QED BY <1>1, <1>7, <2>1, <2>2, <2>3, <3>1 DEF Contract!Next, Contract!Open
  <2> QED BY <2>4, <2>5
<1>8. CASE n # Watched
  <2>1. \A u \in Task : (Seen(u)' <=> Seen(u)) /\ (SeenDone(u)' <=> SeenDone(u))
    BY ONLY <1>8, <1>6
  <2>2. \A u \in Task : state'[u] = Watched <=> state[u] = Watched
    BY <1>1, <1>4, <1>8, NotAState
  <2>3. exception'[Watched] = exception[Watched]
    BY <1>3, <1>8
  <2>4. Exists(Watched)' <=> Exists(Watched)
    BY ONLY <2>2 DEF Exists
  <2> QED BY ONLY <2>1, <2>3, <2>4, NothingSeen
<1> QED BY <1>7, <1>8

\* A task is started in a nursery that is open, so that another one is alive.
LEMMA StartSeen ==
    ASSUME IndInv, NEW n \in Scope, NEW c \in Task, Start(n, c) \/ StartStub(n, c)
    PROVE  [Contract!Next]_(Contract!vars)
<1> USE DEF IndInv, TypeInv, TypeOK
<1>1. /\ state[c] = "Unborn" /\ executor[n] /\ UNCHANGED exception
      /\ home' = [home EXCEPT ![c] = n]
  BY DEF Start, StartStub, AddTask, nurseryVars
<1>2. PICK s \in {"Ready", "Done"} : state' = [state EXCEPT ![c] = s]
  BY DEF Start, StartStub
<1>3. state'[c] = s /\ \A u \in Task \ {c} : state'[u] = state[u]
  BY <1>2
<1>4. \A u \in Task \ {c} :
        (Alive(u)' <=> Alive(u)) /\ (state'[u] = "Done" <=> state[u] = "Done")
  BY <1>3 DEF Alive
<1>5. Exists(Watched)' = Exists(Watched)
  <2>1. \A u \in Task : state'[u] = Watched <=> state[u] = Watched
    BY <1>1, <1>3, NotAState
  <2> QED BY ONLY <2>1 DEF Exists
<1>6. CASE n = Watched
  <2>1. Exists(Watched)
    BY <1>1, <1>6 DEF Structure, OpenNurseries, Exists
  <2>2. Active(Watched) # {}
    <3>1. tasks[n] \in Seq(Task) /\ tasks[n] # <<>>
      BY <1>1 DEF Structure, OpenNurseries
    <3>2. 1 \in 1..Len(tasks[n]) /\ tasks[n][1] \in Task
      BY <3>1, EmptySeq, LenProperties, ElementOfSeq
    <3>3. Seen(tasks[n][1])
      BY <1>6, <3>2 DEF Structure, ListsSound, Seen
    <3> QED BY <3>2, <3>3, Views
  <2>3. c \notin Active(Watched) \cup Zombies(Watched)
    BY <1>1, <1>4, BornSeen
  <2>4. CASE s = "Ready"
    <3>1. Alive(c)'
      BY <1>3, <2>4 DEF Alive
    <3>2. Active(Watched)' = Active(Watched) \cup {c} /\ Zombies(Watched)' = Zombies(Watched)
      BY <1>1, <1>4, <1>6, <3>1, BornSeen
    <3> QED BY <1>1, <1>5, <2>1, <2>2, <2>3, <3>2 DEF Contract!Next, Contract!Start
  <2>5. CASE s = "Done"
    <3>1. Zombies(Watched)' = Zombies(Watched) \cup {c} /\ Active(Watched)' = Active(Watched)
      BY <1>1, <1>3, <1>4, <1>6, <2>5, BornSeen
    <3> QED BY <1>1, <1>5, <2>1, <2>2, <2>3, <3>1 DEF Contract!Next, Contract!Start
  <2> QED BY <2>4, <2>5
<1>7. CASE n # Watched
  <2>1. \A u \in Task : (Seen(u)' <=> Seen(u)) /\ (SeenDone(u)' <=> SeenDone(u))
    BY <1>1, <1>4, <1>7, BornSeen
  <2> QED BY <1>1, <1>5, <2>1, NothingSeen
<1> QED BY <1>6, <1>7

\* An exception leaves a task: the first is kept.
LEMMA ThrowSeen ==
    ASSUME IndInv, RootOutside, NEW t \in Task, Throw(t)
    PROVE  [Contract!Next]_(Contract!vars)
<1> USE DEF IndInv, TypeInv, TypeOK
<1>1. state[t] = "Running" /\ state' = [state EXCEPT ![t] = "Returning"] /\ home' = home
  BY DEF Throw, OnCpu
<1>2. Exists(Watched)' = Exists(Watched)
  BY <1>1 DEF Exists
<1>3. \A u \in Task : (Seen(u)' <=> Seen(u)) /\ (SeenDone(u)' <=> SeenDone(u))
  BY <1>1 DEF Seen, SeenDone, Alive
<1>4. CASE exception'[Watched] = exception[Watched]
  BY <1>2, <1>3, <1>4, NothingSeen
<1>5. CASE exception'[Watched] # exception[Watched]
  <2>1. t # Root /\ home[t] = Watched /\ exception'[Watched] = StoredException(Watched, t)
    BY <1>5 DEF Throw
  <2>2. exception[Watched] \in {"none", "cancelled"} /\ exception'[Watched] = t
    BY <1>5, <2>1 DEF StoredException
  <2>3. Seen(t)
    BY <1>1, <2>1 DEF Seen, Alive
  <2>4. t \in Active(Watched)
    BY <2>3, Views
  <2>5. Active(Watched)' = Active(Watched) /\ Zombies(Watched)' = Zombies(Watched)
    BY ONLY <1>3, OneSeen, t \in Task
  <2> QED BY <1>2, <2>2, <2>4, <2>5 DEF Contract!Next, Contract!Fail
<1> QED BY <1>4, <1>5

\* A nursery is cancelled, by a call or because its opener is.
LEMMA CancelSeen ==
    ASSUME TypeInv, NEW n \in Scope, Exists(n),
           exception' = [exception EXCEPT ![n] = IF NeedCancel(n) THEN "cancelled" ELSE @],
           UNCHANGED <<state, home>>
    PROVE  [Contract!Next]_(Contract!vars)
<1> USE DEF TypeInv, TypeOK
<1>1. Exists(Watched)' = Exists(Watched)
  BY DEF Exists
<1>2. \A u \in Task : (Seen(u)' <=> Seen(u)) /\ (SeenDone(u)' <=> SeenDone(u))
  BY DEF Seen, SeenDone, Alive
<1>3. CASE n = Watched /\ NeedCancel(n)
  <2>1. exception[Watched] = "none" /\ exception'[Watched] = "cancelled"
    BY <1>3 DEF NeedCancel
  <2>2. Active(Watched)' = Active(Watched) /\ Zombies(Watched)' = Zombies(Watched)
    BY ONLY <1>2, OneSeen, NurseryAssumption
  <2> QED BY <1>1, <1>3, <2>1, <2>2 DEF Contract!Next, Contract!Cancel
<1>4. CASE ~(n = Watched /\ NeedCancel(n))
  BY <1>1, <1>2, <1>4, NothingSeen
<1> QED BY <1>3, <1>4

\* The frame of a task is destroyed.
LEMMA DestroySeen ==
    ASSUME IndInv, NEW t \in Task, RunDestroy(t)
    PROVE  [Contract!Next]_(Contract!vars)
<1> USE DEF IndInv, TypeInv, TypeOK
<1>1. state[t] = "Done"
  <2>1. ready # <<>> /\ Head(ready) = [fn |-> "destroy", arg |-> t]
    BY DEF RunDestroy, Draining
  <2>2. EntrySound(Head(ready))
    BY <2>1, HeadTaken DEF Structure
  <2> QED BY <2>1, <2>2 DEF EntrySound
<1>2. /\ state' = [state EXCEPT ![t] = "Unborn"] /\ home' = [home EXCEPT ![t] = None]
      /\ exception' = exception
  BY DEF RunDestroy, nurseryVars
<1>3. Exists(Watched)' = Exists(Watched)
  BY <1>1, <1>2 DEF Exists
<1>4. \A u \in Task \ {t} : (Seen(u)' <=> Seen(u)) /\ (SeenDone(u)' <=> SeenDone(u))
  BY <1>2 DEF Seen, SeenDone, Alive
<1>5. ~Seen(t) /\ ~Seen(t)' /\ ~SeenDone(t)'
  BY <1>1, <1>2 DEF Seen, SeenDone, Alive
<1>6. CASE SeenDone(t)
  <2>1. Active(Watched)' = Active(Watched) /\ Zombies(Watched)' = Zombies(Watched) \ {t}
    BY ONLY <1>4, <1>5, OneSeen, t \in Task
  <2>2. t \in Zombies(Watched)
    BY <1>6, Views
  <2> QED BY <1>2, <1>3, <2>1, <2>2 DEF Contract!Next, Contract!Reap
<1>7. CASE ~SeenDone(t)
  BY <1>2, <1>3, <1>4, <1>5, <1>7, NothingSeen
<1> QED BY <1>6, <1>7

\* The opener goes on: its nursery has no tasks and no frames left.
LEMMA LeaveSeen ==
    ASSUME IndInv, RootOutside, NEW t \in Task, RunParent(t)
    PROVE  [Contract!Next]_(Contract!vars)
<1> USE DEF IndInv, TypeInv, TypeOK
<1>1. /\ ready # <<>> /\ Head(ready) = ResumeParent(t) /\ ResumeProxy(t, Tail(ready))
      /\ home' = home /\ exception' = [exception EXCEPT ![state[t]] = "none"]
  BY DEF RunParent, Draining, ResumeParent
<1>2. /\ state[t] \in Scope /\ ~executor[state[t]]
      /\ \A i \in 1..Len(ready) :
            ready[i].fn = "destroy" => home[ready[i].arg] # state[t]
  <2>1. ResumeParent(t).fn = "parent" /\ ResumeParent(t).arg = t
    BY DEF ResumeParent
  <2>2. /\ EntrySound(ResumeParent(t))
        /\ \A i \in 1..Len(ready) :
                ready[i].fn = "destroy" => home[ready[i].arg] # state[ResumeParent(t).arg]
    BY <1>1, <2>1, HeadTaken DEF Structure
  <2> QED BY <2>1, <2>2 DEF EntrySound
<1>3. state[t] \notin {"Unborn", "Done"}
  BY <1>2
<1>4. CASE state[t] # Watched
  <2>1. exception'[Watched] = exception[Watched]
    BY <1>1, <1>4
  <2> QED BY <1>1, <1>3, <1>4, <2>1, MovesSeen
<1>5. CASE state[t] = Watched
  <2>1. ASSUME NEW u \in Task \ {Root} PROVE ~Seen(u) /\ ~SeenDone(u)
    <3>1. ASSUME Seen(u) PROVE FALSE
      <4>1. Contains(tasks[Watched], u)
        BY <3>1 DEF Structure, ListsComplete, Seen
      <4>2. tasks[Watched] = <<>>
        BY <1>2, <1>5 DEF Structure, OpenNurseries
      <4> QED BY <4>1, <4>2 DEF Contains
    <3>2. ASSUME SeenDone(u) PROVE FALSE
      <4>1. Contains(ready, DestroyFrame(u))
        BY <3>2 DEF Structure, ReadyComplete, FrameScheduled, SeenDone
      <4>2. PICK i \in 1..Len(ready) : ready[i] = DestroyFrame(u)
        BY <4>1 DEF Contains
      <4> QED BY <1>2, <1>5, <3>2, <4>2 DEF DestroyFrame, SeenDone
    <3> QED BY <3>1, <3>2
  <2>2. \A u \in Task : ~Seen(u) /\ ~SeenDone(u)
    BY <2>1 DEF RootOutside, Seen, SeenDone
  <2>3. Active(Watched) = {} /\ Zombies(Watched) = {}
    BY <2>2, Views
  <2>4. PICK s \in {"Ready", "Done"} : state' = [state EXCEPT ![t] = s]
    BY <1>1, ResumeMoves
  <2>5. home[t] # Watched
    BY <1>3, <2>2 DEF Seen, Alive
  <2>6. \A u \in Task : ~Seen(u)' /\ ~SeenDone(u)'
    BY <1>1, <2>2, <2>4, <2>5 DEF Seen, SeenDone, Alive
  <2>7. Active(Watched)' = {} /\ Zombies(Watched)' = {}
    BY <2>6, ViewsThen
  <2>8. Exists(Watched)
    BY <1>5 DEF Exists
  <2>9. ~Exists(Watched)'
    <3>1. ASSUME NEW u \in Task, state'[u] = Watched PROVE FALSE
      <4>1. u # t /\ state[u] = Watched
        BY <2>4, <3>1
      <4> QED BY <1>5, <4>1 DEF Structure, OneOpener
    <3> QED BY <3>1 DEF Exists
  <2>10. exception'[Watched] = "none"
    BY <1>1, <1>5
  <2> QED BY <2>3, <2>7, <2>8, <2>9, <2>10 DEF Contract!Next, Contract!Leave
<1> QED BY <1>4, <1>5

LEMMA ContractStep ==
    ASSUME IndInv, RootOutside, [Next]_vars
    PROVE  [Contract!Next]_(Contract!vars)
<1> USE DEF IndInv, TypeInv, TypeOK, promiseVars, nurseryVars
<1>1. CASE UNCHANGED <<state, home, exception>>
  <2>1. Exists(Watched)' <=> Exists(Watched)
    BY <1>1 DEF Exists
  <2>2. \A u \in Task : (Seen(u)' <=> Seen(u)) /\ (SeenDone(u)' <=> SeenDone(u))
    BY <1>1 DEF Seen, SeenDone, Alive
  <2> QED BY <1>1, <2>1, <2>2, NothingSeen
<1>2. ASSUME NEW t \in Task, TaskStep(t) PROVE [Contract!Next]_(Contract!vars)
  <2>1. CASE AwaitLeaf(t)
    <3>1. /\ state[t] = "Running" /\ state' = [state EXCEPT ![t] = "Leaf"]
          /\ UNCHANGED <<home, exception>>
      BY <2>1 DEF AwaitLeaf, OnCpu
    <3>2. /\ state[t] \notin {"Unborn", "Done"} /\ "Leaf" \notin {"Unborn", "Done"}
          /\ state[t] # Watched /\ "Leaf" # Watched
          /\ exception'[Watched] = exception[Watched]
      BY <3>1, NotAState
    <3> QED BY ONLY <3>1, <3>2, TypeInv, t \in Task, LivesOn
  <2>2. CASE EarlyCancel(t) \/ AwaitReadyAnyway(t) \/ Return(t) \/ FinalSuspend(t)
    <3>1. /\ state[t] \in {"Running", "Returning"} /\ UNCHANGED <<home, exception>>
          /\ \/ PropagateCancel(t, ready) \/ DoResume(t, ready, TRUE)
             \/ Continuation(t, ready)
      BY <2>2 DEF EarlyCancel, AwaitReadyAnyway, Return, FinalSuspend, OnCpu
    <3>2. state[t] \notin {"Unborn", "Done"} /\ state[t] # Watched
      BY <3>1
    <3> QED BY <3>1, <3>2, MovesSeen
  <2> QED BY <1>2, <2>1, <2>2, OpenSeen, ThrowSeen DEF TaskStep
<1>3. ASSUME NEW t \in Task, CancelStep(t) PROVE [Contract!Next]_(Contract!vars)
  <2>1. CASE CancelPending(t) \/ CancelLeafLater(t)
    BY <1>1, <2>1 DEF CancelPending, CancelLeafLater
  <2>2. CASE CancelLeaf(t) \/ CancelLeafCompletes(t)
    <3>1. /\ state[t] = "Leaf" /\ UNCHANGED <<home, exception>>
          /\ \E q : DoResume(t, q, TRUE) \/ Continuation(t, q)
      BY <2>2 DEF CancelLeaf, CancelLeafCompletes
    <3>2. state[t] \notin {"Unborn", "Done"} /\ state[t] # Watched
      BY <3>1
    <3> QED BY <3>1, <3>2, MovesSeen
  <2>3. CASE CancelNested(t)
    <3>1. /\ state[t] \in Scope /\ UNCHANGED <<state, home>>
          /\ exception' = [exception EXCEPT ![state[t]] =
                IF NeedCancel(state[t]) THEN "cancelled" ELSE @]
      BY <2>3 DEF CancelNested
    <3>2. Exists(state[t])
      BY DEF Exists
    <3> QED BY <3>1, <3>2, CancelSeen
  <2> QED BY <1>3, <2>1, <2>2, <2>3 DEF CancelStep
<1>4. ASSUME NEW t \in Task, ExecutorStep(t) PROVE [Contract!Next]_(Contract!vars)
  <2>1. CASE RunTask(t)
    <3>1. /\ ready # <<>> /\ Head(ready) = [fn |-> "resume", arg |-> t]
          /\ state' = [state EXCEPT ![t] = "Running"] /\ UNCHANGED <<home, exception>>
      BY <2>1 DEF RunTask, Draining
    <3>2. state[t] = "Ready"
      <4>1. EntrySound(Head(ready))
        BY <3>1, HeadTaken DEF Structure
      <4> QED BY <3>1, <4>1 DEF EntrySound
    <3>3. /\ state[t] \notin {"Unborn", "Done"} /\ "Running" \notin {"Unborn", "Done"}
          /\ state[t] # Watched /\ "Running" # Watched
          /\ exception'[Watched] = exception[Watched]
      BY <3>1, <3>2, NotAState
    <3> QED BY ONLY <3>1, <3>3, TypeInv, t \in Task, LivesOn
  <2> QED BY <1>4, <2>1, DestroySeen, LeaveSeen DEF ExecutorStep
<1>5. ASSUME Call PROVE [Contract!Next]_(Contract!vars)
  <2>1. ASSUME NEW n \in Scope, CancelNursery(n) PROVE [Contract!Next]_(Contract!vars)
    <3>1. /\ Exists(n) /\ UNCHANGED <<state, home>>
          /\ exception' = [exception EXCEPT ![n] = IF NeedCancel(n) THEN "cancelled" ELSE @]
      BY <2>1 DEF CancelNursery
    <3> QED BY <3>1, CancelSeen
  <2>2. ASSUME NEW u \in Task, Wake(u) PROVE [Contract!Next]_(Contract!vars)
    <3>1. state[u] = "Leaf" /\ ResumeProxy(u, ready) /\ UNCHANGED <<home, exception>>
      BY <2>2 DEF Wake
    <3>2. state[u] \notin {"Unborn", "Done"} /\ state[u] # Watched
      BY <3>1
    <3> QED BY <3>1, <3>2, MovesSeen
  <2>3. CASE CancelRoot
    BY <1>1, <2>3 DEF CancelRoot
  <2> QED BY <1>5, <2>1, <2>2, <2>3, StartSeen DEF Call
<1>6. CASE Finished \/ UNCHANGED vars
  BY <1>1, <1>6 DEF Finished, vars
<1> QED BY <1>2, <1>3, <1>4, <1>5, <1>6 DEF Next

LEMMA RootStays == IndInv /\ RootOutside /\ [Next]_vars => RootOutside'
<1> SUFFICES ASSUME IndInv, RootOutside, [Next]_vars PROVE home'[Root] = None
  BY DEF RootOutside
<1> USE DEF IndInv, TypeInv, TypeOK, promiseVars, nurseryVars
<1>1. state[Root] # "Unborn" /\ home[Root] = None /\ Root \in Task
  BY DEF Owned, RootOutside
<1>2. ASSUME NEW n \in Scope, NEW b \in Task, state[b] = "Unborn",
             home' = [home EXCEPT ![b] = n]
      PROVE  home'[Root] = None
  BY <1>1, <1>2
<1>3. ASSUME NEW t \in Task, TaskStep(t) PROVE home'[Root] = None
  <2>1. \/ UNCHANGED home
        \/ \E n \in Scope, b \in Task : OpenNursery(t, n, b) \/ OpenNurseryStub(t, n, b)
    BY <1>3 DEF TaskStep, AwaitLeaf, EarlyCancel, AwaitReadyAnyway, Return, Throw, FinalSuspend
  <2>2. ASSUME NEW n \in Scope, NEW b \in Task,
               OpenNursery(t, n, b) \/ OpenNurseryStub(t, n, b)
        PROVE  home'[Root] = None
    <3>1. state[b] = "Unborn" /\ home' = [home EXCEPT ![b] = n]
      BY <2>2 DEF OpenNursery, OpenNurseryStub, AddTask
    <3> QED BY <1>2, <3>1
  <2> QED BY <1>1, <2>1, <2>2
<1>4. ASSUME NEW t \in Task, CancelStep(t) \/ ExecutorStep(t) PROVE home'[Root] = None
  <2>1. UNCHANGED home \/ home' = [home EXCEPT ![t] = None]
    BY <1>4 DEF CancelStep, CancelPending, CancelLeaf, CancelLeafCompletes, CancelLeafLater,
                CancelNested, ExecutorStep, RunTask, RunDestroy, RunParent
  <2> QED BY <1>1, <2>1
<1>5. CASE Call
  <2>1. ASSUME NEW n \in Scope, NEW c \in Task, Start(n, c) \/ StartStub(n, c)
        PROVE  home'[Root] = None
    <3>1. state[c] = "Unborn" /\ home' = [home EXCEPT ![c] = n]
      BY <2>1 DEF Start, StartStub, AddTask
    <3> QED BY <1>2, <3>1
  <2>2. CASE CancelRoot \/ \E n \in Scope : CancelNursery(n)
    BY <1>1, <2>2 DEF CancelRoot, CancelNursery
  <2>3. ASSUME NEW u \in Task, Wake(u) PROVE home'[Root] = None
    BY <1>1, <2>3 DEF Wake
  <2> QED BY <1>5, <2>1, <2>2, <2>3 DEF Call
<1>6. CASE Finished \/ UNCHANGED vars
  BY <1>1, <1>6 DEF Finished, vars
<1> QED BY <1>3, <1>4, <1>5, <1>6 DEF Next

\* Every nursery keeps its promise, step by step: its opener does not go on
\* before each of its tasks has finished and its frame is gone, no task gets
\* into one without a task that is alive, the first exception is kept.
THEOREM NurseryKeepsContract == Spec => ScopeContract
<1>1. Init => RootOutside /\ Contract!Init
  <2> SUFFICES ASSUME Init PROVE RootOutside /\ Contract!Init
    OBVIOUS
  <2>1. /\ \A u \in Task : home[u] = None /\ state[u] \in {"Ready", "Unborn"}
        /\ exception[Watched] = "none" /\ None \notin Scope
    BY DEF Init
  <2>2. ~Exists(Watched)
    BY <2>1 DEF Exists
  <2>3. Active(Watched) = {} /\ Zombies(Watched) = {}
    BY <2>1 DEF Active, Zombies
  <2> QED BY <2>1, <2>2, <2>3 DEF RootOutside, Contract!Init
<1>2. IndInv /\ RootOutside /\ [Next]_vars => [Contract!Next]_(Contract!vars)
  BY ContractStep
<1> QED BY IndInit, IndStep, RootStays, <1>1, <1>2, PTL
        DEF Spec, ScopeContract, Contract!Spec
=============================================================================
