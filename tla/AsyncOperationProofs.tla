------------------------ MODULE AsyncOperationProofs ------------------------
(***************************************************************************)
(* Proofs about AsyncOperation, for chains of any depth, any pool and any  *)
(* choice of the bodies that suspend.  AwaitInv gives what a co_await      *)
(* delivers; OpInv, who executes and who destroys a coroutine; CallersInv, *)
(* that the callers alone do nothing undefined.                            *)
(***************************************************************************)
EXTENDS AsyncOperation, Integers, TLAPS

\* No operation has awaited anything at first.
LEMMA AwaitInit == Init => AwaitInv
  BY DEF Init, AwaitInv, AwaitNeverDelivers, Results

\* Once await_ready has taken the future, await_resume finds it taken.
LEMMA AwaitStep == AwaitInv /\ [Next]_vars => AwaitInv'
<1> SUFFICES ASSUME AwaitInv, [Next]_vars
             PROVE  AwaitInv'
  OBVIOUS
<1> USE OpsAssumption DEF AwaitInv, AwaitNeverDelivers, Ops, Results, Undefined
<1>a. ASSUME UNCHANGED <<at, promise, retrieved>>
      PROVE  AwaitInv'
  BY <1>a
<1>1. ASSUME NEW t \in Threads, NEW o \in Ops, Yield(t, o)
      PROVE  AwaitInv'
  BY <1>1 DEF Yield
<1>2. ASSUME NEW t \in Threads, NEW o \in Ops, CallNext(t, o)
      PROVE  AwaitInv'
  BY <1>2 DEF CallNext
<1>3. ASSUME NEW t \in Threads, NEW o \in Ops, CancelNext(t, o)
      PROVE  AwaitInv'
  BY <1>3, <1>a DEF CancelNext
<1>4. ASSUME NEW t \in Threads, NEW o \in Ops, AwaitReady(t, o)
      PROVE  AwaitInv'
  <2>1. CASE frame[o + 1] = "freed"
    BY <1>4, <2>1, <1>a DEF AwaitReady
  <2>2. CASE frame[o + 1] # "freed"
    <3>1. /\ retrieved' = [retrieved EXCEPT ![o + 1] = TRUE]
          /\ at' = [at EXCEPT ![o] = "resume"]
          /\ promise' = promise
      BY <1>4, <2>2 DEF AwaitReady
    <3>2. \A p \in Ops : p < Depth => p + 1 \in Ops
      OBVIOUS
    <3>3. \A p \in Ops : retrieved'[p] = (retrieved[p] \/ p = o + 1)
      BY <3>1, Zenon
    <3>4. QED
      BY <3>1, <3>2, <3>3
  <2>3. QED
    BY <2>1, <2>2
<1>5. ASSUME NEW t \in Threads, NEW o \in Ops, NEW r \in {"value", "error"},
              AwaitResume(t, o, r)
      PROVE  AwaitInv'
  <2>1. CASE ~CanDestroy(o + 1)
    BY <1>5, <2>1, <1>a DEF AwaitResume
  <2>2. CASE CanDestroy(o + 1)
    <3>1. /\ at[o] = "resume" /\ at' = [at EXCEPT ![o] = "end"]
          /\ retrieved' = retrieved
          /\ promise' = [promise EXCEPT ![o] = IF retrieved[o + 1] THEN "canceled"
                                               ELSE Stored(o, r)]
      BY <1>5, <2>2 DEF AwaitResume
    <3>2. Stored(o, r) \in Results
      BY DEF Stored
    <3>3. o < Depth => promise' = [promise EXCEPT ![o] = "canceled"]
      BY <3>1
    <3>4. QED
      BY <3>1, <3>2, <3>3
  <2>3. QED
    BY <2>1, <2>2
<1>6. ASSUME NEW t \in Threads, NEW o \in Ops, NEW r \in {"value", "error"},
              Return(t, o, r)
      PROVE  AwaitInv'
  BY <1>6 DEF Return, Stored
<1>7. CASE Start
  BY <1>7, <1>a DEF Start
<1>8. CASE Cancel
  BY <1>8, <1>a DEF Cancel
<1>9. CASE GetFuture
  <2>1. CASE frame[1] = "freed"
    BY <1>9, <2>1, <1>a DEF GetFuture
  <2>2. CASE frame[1] # "freed"
    <3>1. /\ retrieved' = [retrieved EXCEPT ![1] = TRUE]
          /\ UNCHANGED <<at, promise>>
      BY <1>9, <2>2 DEF GetFuture
    <3>2. \A p \in Ops : retrieved'[p] = (retrieved[p] \/ p = 1)
      BY <3>1, Zenon
    <3>3. QED
      BY <3>1, <3>2
  <2>3. QED
    BY <2>1, <2>2
<1>10. CASE GetReturns
  BY <1>10, <1>a DEF GetReturns
<1>11. CASE Drop
  BY <1>11, <1>a DEF Drop
<1>12. ASSUME NEW w \in Workers, Take(w)
      PROVE  AwaitInv'
  BY <1>12, <1>a DEF Take
<1>13. ASSUME NEW w \in Workers, NEW o \in Ops, CtorTask(w, o)
      PROVE  AwaitInv'
  BY <1>13, <1>a DEF CtorTask, Resume
<1>14. ASSUME NEW w \in Workers, NEW o \in Ops, CtorTaskDestroys(w, o)
      PROVE  AwaitInv'
  BY <1>14, <1>a DEF CtorTaskDestroys
<1>15. ASSUME NEW w \in Workers, NEW o \in Ops, ResumeTask(w, o)
      PROVE  AwaitInv'
  BY <1>15, <1>a DEF ResumeTask, Resume
<1>16. ASSUME NEW w \in Workers, NEW o \in Ops, ResumeTaskEnds(w, o)
      PROVE  AwaitInv'
  BY <1>16, <1>a DEF ResumeTaskEnds
<1>17. CASE UNCHANGED vars
  BY <1>17, <1>a DEF vars
<1> HIDE DEF AwaitInv, AwaitNeverDelivers, Ops, Results, Undefined
<1>18. QED
  BY <1>1, <1>2, <1>3, <1>4, <1>5, <1>6, <1>7, <1>8, <1>9, <1>10,
     <1>11, <1>12, <1>13, <1>14, <1>15, <1>16, <1>17
  DEF Next, BodyStep, TaskStep

\* No co_await delivers the result of what it awaits: an operation that awaits
\* another one can only end with operation_canceled.
THEOREM AwaitsAreCanceled == Spec => []AwaitNeverDelivers
<1>1. AwaitInv => AwaitNeverDelivers
  BY DEF AwaitInv
<1>2. QED
  BY <1>1, AwaitInit, AwaitStep, PTL DEF Spec

-----------------------------------------------------------------------------
(* Who executes which coroutine, and what its object and its frame are.    *)

Places(t) == 1..Len(stack[t])

\* A coroutine is on one stack, in one place, exactly while its frame runs.
StackInv ==
  /\ \A t \in Threads : \A i \in Places(t) : frame[stack[t][i]] = "running"
  /\ \A o \in Ops : frame[o] = "running" =>
       \E t \in Threads : \E i \in Places(t) : stack[t][i] = o
  /\ \A t, u \in Threads : \A i \in Places(t) : \A j \in Places(u) :
       stack[t][i] = stack[u][j] => t = u /\ i = j

\* Object and frame are made together, in turn.
LifeInv ==
  /\ \A o \in Ops : object[o] = "none" <=> frame[o] = "absent"
  /\ \A o \in Ops : object[o] = "none" => at[o] = "begin"
  /\ \A o \in Ops : o < Depth /\ Ready(o) => object[o + 1] = "none"
  /\ \A o \in Ops : at[o] \in {"called", "resume"} => o < Depth
  /\ driver = "start" => object[1] = "none"

\* A worker executes a coroutine only in the middle of a task that resumes it.
JobInv ==
  \A w \in Workers : job[w].kind \in {"none", "ctor", "resume"} => stack[w] = <<>>

\* Who destroys a coroutine that was started, and who answers its promise.
OwnerInv == FramesOwned /\ \A o \in Ops : promise[o] # "unset" => at[o] = "end"

\* TypeOK but for its clause on the stacks, which StackInv completes.
Stacks == stack \in [Threads -> Seq(Ops)]
Types ==
  /\ frame \in [Ops -> {"absent", "running", "suspended", "final", "freed"}]
  /\ at \in [Ops -> {"begin", "go", "called", "resume", "end"}]
  /\ object \in [Ops -> {"none", "alive", "dead"}]
  /\ promise \in [Ops -> Results]
  /\ retrieved \in [Ops -> BOOLEAN]
  /\ cancelled \in [Ops -> BOOLEAN]
  /\ queue \in Seq(Tasks)
  /\ job \in [Workers -> Jobs]
  /\ driver \in {"start", "hold", "wait", "got", "gone"}

OpInv == Types /\ Stacks /\ StackInv /\ LifeInv /\ JobInv /\ OwnerInv

\* A stack with a frame on top of it.
LEMMA PushFacts ==
  ASSUME NEW S, NEW s \in Seq(S), NEW x \in S
  PROVE  /\ <<x>> \o s \in Seq(S)
         /\ Len(<<x>> \o s) = Len(s) + 1
         /\ (<<x>> \o s)[1] = x
         /\ \A i \in 2..(Len(s) + 1) : (<<x>> \o s)[i] = s[i - 1]
  OBVIOUS

\* A stack without its top.
LEMMA TailFacts ==
  ASSUME NEW S, NEW s \in Seq(S), s # <<>>
  PROVE  /\ Tail(s) \in Seq(S)
         /\ Len(s) \in Nat /\ Len(s) >= 1
         /\ Len(Tail(s)) = Len(s) - 1
         /\ Head(s) = s[1]
         /\ \A i \in 1..(Len(s) - 1) : Tail(s)[i] = s[i + 1]
  OBVIOUS

\* A step that keeps the stacks, and starts and ends no coroutine.
LEMMA StackKept ==
  ASSUME Stacks, StackInv, UNCHANGED stack,
         \A o \in Ops : frame'[o] = "running" <=> frame[o] = "running"
  PROVE  StackInv' /\ Stacks'
<1>1. \A t \in Threads : \A i \in Places(t) : stack[t][i] \in Ops
  BY DEF Stacks, Places
<1>2. QED
  BY <1>1 DEF StackInv, Stacks, Places

\* A coroutine that ends or suspends leaves the stack of its thread.
LEMMA StackLeft ==
  ASSUME Stacks, StackInv, NEW t \in Threads, NEW o \in Ops,
         Running(t, o), stack' = [stack EXCEPT ![t] = Tail(@)],
         frame'[o] # "running",
         \A p \in Ops : p # o => (frame'[p] = "running" <=> frame[p] = "running")
  PROVE  StackInv' /\ Stacks'
<1>0. ASSUME NEW p \in Threads, NEW q \in Threads, NEW m \in Places(p), NEW n \in Places(q),
             stack[p][m] = stack[q][n]
      PROVE  p = q /\ m = n
  BY <1>0 DEF StackInv
<1>1. /\ stack[t] \in Seq(Ops) /\ stack[t] # <<>>
      /\ Head(stack[t]) = o
  BY DEF Stacks, Running
<1>2. /\ stack'[t] = Tail(stack[t])
      /\ \A u \in Threads : u # t => stack'[u] = stack[u]
  BY DEF Stacks
<1>3. /\ Tail(stack[t]) \in Seq(Ops)
      /\ Len(stack[t]) \in Nat /\ Len(stack[t]) >= 1
      /\ Len(Tail(stack[t])) = Len(stack[t]) - 1
      /\ stack[t][1] = o
      /\ \A i \in 1..(Len(stack[t]) - 1) : Tail(stack[t])[i] = stack[t][i + 1]
  BY <1>1, TailFacts
<1>4. \A u \in Threads : \A i \in Places(u) : stack[u][i] \in Ops
  BY DEF Stacks, Places
<1>5. Stacks'
  BY <1>2, <1>3 DEF Stacks
<1>6. ASSUME NEW u \in Threads, NEW i \in Places(u)'
      PROVE  \E k \in Places(u) : /\ k = IF u = t THEN i + 1 ELSE i
                                  /\ stack'[u][i] = stack[u][k]
                                  /\ stack[u][k] # o
  <2>1. CASE u = t
    <3>1. /\ i + 1 \in Places(t) /\ 1 \in Places(t)
          /\ stack'[t][i] = stack[t][i + 1]
          /\ i + 1 # 1
      <4>1. i \in 1..(Len(stack[t]) - 1)
        BY <2>1, <1>2, <1>3 DEF Places
      <4>2. stack'[t][i] = stack[t][i + 1]
        BY <4>1, <1>2, <1>3
      <4>3. QED
        BY <4>1, <4>2, <1>3 DEF Places
    <3>2. stack[t][i + 1] # stack[t][1]
      BY <3>1 DEF StackInv
    <3>3. QED
      BY <2>1, <3>1, <3>2, <1>3
  <2>2. CASE u # t
    <3>1. i \in Places(u) /\ stack'[u][i] = stack[u][i]
      BY <2>2, <1>2 DEF Places
    <3>2. 1 \in Places(t)
      BY <1>3 DEF Places
    <3>3. stack[u][i] # stack[t][1]
      BY <2>2, <3>1, <3>2 DEF StackInv
    <3>4. QED
      BY <2>2, <3>1, <3>3, <1>3
  <2>3. QED
    BY <2>1, <2>2
<1>7. ASSUME NEW u \in Threads, NEW i \in Places(u)'
      PROVE  frame'[stack'[u][i]] = "running"
  <2>1. PICK k \in Places(u) : stack'[u][i] = stack[u][k] /\ stack[u][k] # o
    BY <1>6
  <2>2. frame[stack[u][k]] = "running" /\ stack[u][k] \in Ops
    BY <1>4 DEF StackInv
  <2>3. QED
    BY <2>1, <2>2
<1>8. ASSUME NEW p \in Ops, frame'[p] = "running"
      PROVE  \E u \in Threads : \E i \in Places(u)' : stack'[u][i] = p
  <2>1. p # o /\ frame[p] = "running"
    BY <1>8
  <2>0. PICK u \in Threads : \E i \in Places(u) : stack[u][i] = p
    BY <2>1 DEF StackInv
  <2>2. PICK i \in Places(u) : stack[u][i] = p
    BY <2>0
  <2>3. CASE u = t
    <3>1. i # 1 /\ i \in 1..Len(stack[t])
      BY <2>1, <2>2, <2>3, <1>3 DEF Places
    <3>2. i - 1 \in 1..(Len(stack[t]) - 1) /\ (i - 1) + 1 = i
      BY <3>1, <1>3
    <3>3. i - 1 \in Places(t)' /\ stack'[t][i - 1] = p
      BY <2>2, <2>3, <3>2, <1>2, <1>3 DEF Places
    <3>4. QED
      BY <3>3
  <2>4. CASE u # t
    BY <2>2, <2>4, <1>2 DEF Places
  <2>5. QED
    BY <2>3, <2>4
<1>9. ASSUME NEW u \in Threads, NEW v \in Threads,
             NEW i \in Places(u)', NEW j \in Places(v)', stack'[u][i] = stack'[v][j]
      PROVE  u = v /\ i = j
  <2>1. PICK k \in Places(u) : /\ k = IF u = t THEN i + 1 ELSE i
                              /\ stack'[u][i] = stack[u][k]
    BY <1>6
  <2>2. PICK l \in Places(v) : /\ l = IF v = t THEN j + 1 ELSE j
                              /\ stack'[v][j] = stack[v][l]
    BY <1>6
  <2>a. stack[u][k] = stack[v][l]
    BY <2>1, <2>2, <1>9
  <2>3. u = v /\ k = l
    BY <2>a, <1>0
  <2>4. i \in Int /\ j \in Int
    BY DEF Places
  <2>5. QED
    BY <2>1, <2>2, <2>3, <2>4
<1>10. QED
  BY <1>5, <1>7, <1>8, <1>9 DEF StackInv

\* A coroutine that starts, or is resumed, goes onto the stack of its thread.
LEMMA StackPushed ==
  ASSUME Stacks, StackInv, NEW t \in Threads, NEW o \in Ops,
         stack' = [stack EXCEPT ![t] = <<o>> \o @],
         frame[o] # "running", frame'[o] = "running",
         \A p \in Ops : p # o => (frame'[p] = "running" <=> frame[p] = "running")
  PROVE  StackInv' /\ Stacks'
<1>0. ASSUME NEW p \in Threads, NEW q \in Threads, NEW m \in Places(p), NEW n \in Places(q),
             stack[p][m] = stack[q][n]
      PROVE  p = q /\ m = n
  BY <1>0 DEF StackInv
<1>1. stack[t] \in Seq(Ops) /\ Len(stack[t]) \in Nat
  BY DEF Stacks
<1>2. /\ stack'[t] = <<o>> \o stack[t]
      /\ \A u \in Threads : u # t => stack'[u] = stack[u]
  BY DEF Stacks
<1>3. /\ stack'[t] \in Seq(Ops)
      /\ Len(stack'[t]) = Len(stack[t]) + 1
      /\ stack'[t][1] = o
      /\ \A i \in 2..(Len(stack[t]) + 1) : stack'[t][i] = stack[t][i - 1]
  BY <1>1, <1>2, PushFacts
<1>4. ASSUME NEW u \in Threads, NEW i \in Places(u)
      PROVE  stack[u][i] \in Ops /\ stack[u][i] # o
  <2>1. stack[u][i] \in Ops
    BY DEF Stacks, Places
  <2>2. frame[stack[u][i]] = "running"
    BY DEF StackInv
  <2>3. QED
    BY <2>1, <2>2
<1>5. Stacks'
  BY <1>2, <1>3 DEF Stacks
<1>6. ASSUME NEW u \in Threads, NEW i \in Places(u)'
      PROVE  \/ u = t /\ i = 1 /\ stack'[u][i] = o
             \/ \E k \in Places(u) : /\ k = IF u = t THEN i - 1 ELSE i
                                     /\ stack'[u][i] = stack[u][k]
                                     /\ stack[u][k] # o
  <2>1. CASE u = t
    <3>1. CASE i = 1
      BY <2>1, <3>1, <1>3
    <3>2. CASE i # 1
      <4>1. i \in 2..(Len(stack[t]) + 1) /\ i - 1 \in Places(t)
        BY <2>1, <3>2, <1>1, <1>3 DEF Places
      <4>2. QED
        BY <2>1, <4>1, <1>3, <1>4
    <3>3. QED
      BY <3>1, <3>2
  <2>2. CASE u # t
    <3>1. i \in Places(u) /\ stack'[u][i] = stack[u][i]
      BY <2>2, <1>2 DEF Places
    <3>2. QED
      BY <2>2, <3>1, <1>4
  <2>3. QED
    BY <2>1, <2>2
<1>7. ASSUME NEW u \in Threads, NEW i \in Places(u)'
      PROVE  frame'[stack'[u][i]] = "running"
  <2>1. CASE stack'[u][i] = o
    BY <2>1
  <2>2. CASE stack'[u][i] # o
    <3>1. PICK k \in Places(u) : stack'[u][i] = stack[u][k] /\ stack[u][k] # o
      BY <1>6, <2>2
    <3>2. frame[stack[u][k]] = "running" /\ stack[u][k] \in Ops
      BY <1>4 DEF StackInv
    <3>3. QED
      BY <3>1, <3>2
  <2>3. QED
    BY <2>1, <2>2
<1>8. ASSUME NEW p \in Ops, frame'[p] = "running"
      PROVE  \E u \in Threads : \E i \in Places(u)' : stack'[u][i] = p
  <2>1. CASE p = o
    <3>1. 1 \in Places(t)'
      BY <1>1, <1>3 DEF Places
    <3>2. QED
      BY <3>1, <2>1, <1>3
  <2>2. CASE p # o
    <3>1. frame[p] = "running"
      BY <1>8, <2>2
    <3>0. PICK u \in Threads : \E i \in Places(u) : stack[u][i] = p
      BY <3>1 DEF StackInv
    <3>2. PICK i \in Places(u) : stack[u][i] = p
      BY <3>0
    <3>3. CASE u = t
      <4>1. i + 1 \in Places(t)' /\ stack'[t][i + 1] = p
        BY <3>2, <3>3, <1>1, <1>3 DEF Places
      <4>2. QED
        BY <4>1
    <3>4. CASE u # t
      BY <3>2, <3>4, <1>2 DEF Places
    <3>5. QED
      BY <3>3, <3>4
  <2>3. QED
    BY <2>1, <2>2
<1>9. ASSUME NEW u \in Threads, NEW v \in Threads,
             NEW i \in Places(u)', NEW j \in Places(v)', stack'[u][i] = stack'[v][j]
      PROVE  u = v /\ i = j
  <2>1. CASE stack'[u][i] = o
    BY <2>1, <1>6, <1>9
  <2>2. CASE stack'[u][i] # o
    <3>1. PICK k \in Places(u) : /\ k = IF u = t THEN i - 1 ELSE i
                                /\ stack'[u][i] = stack[u][k]
      BY <1>6, <2>2
    <3>2. PICK l \in Places(v) : /\ l = IF v = t THEN j - 1 ELSE j
                                /\ stack'[v][j] = stack[v][l]
      BY <1>6, <1>9, <2>2
    <3>a. stack[u][k] = stack[v][l]
      BY <3>1, <3>2, <1>9
    <3>3. u = v /\ k = l
      BY <3>a, <1>0
    <3>4. i \in Int /\ j \in Int
      BY DEF Places
    <3>5. QED
      BY <3>1, <3>2, <3>3, <3>4
  <2>3. QED
    BY <2>1, <2>2
<1>10. QED
  BY <1>5, <1>7, <1>8, <1>9 DEF StackInv

\* The inductive invariant of the operations gives their types.
LEMMA OpTypes == OpInv => TypeOK
<1>1. Stacks => \A t \in Threads : stack[t] \in Seq(Ops)
  BY DEF Stacks
<1>2. ASSUME Stacks, StackInv
      PROVE  \A o \in Ops : frame[o] = "running"
               <=> \E t \in Threads : \E i \in 1..Len(stack[t]) : stack[t][i] = o
  BY <1>2 DEF StackInv, Places
<1>3. QED
  BY <1>1, <1>2 DEF OpInv, OwnerInv, Types, TypeOK

\* A coroutine that executes is running, so it has been made and not destroyed.
LEMMA RunningFacts ==
  ASSUME OpInv, NEW t \in Threads, NEW o \in Ops, Running(t, o)
  PROVE  /\ frame[o] = "running" /\ object[o] = "alive" /\ driver # "gone"
         /\ stack[t] # <<>>
<1>1. stack[t] \in Seq(Ops) /\ stack[t] # <<>> /\ Head(stack[t]) = o
  BY DEF OpInv, Stacks, Running
<1>2. 1 \in Places(t) /\ stack[t][1] = o
  BY <1>1, TailFacts DEF Places
<1>3. frame[o] = "running"
  BY <1>2 DEF OpInv, StackInv
<1>4. QED
  BY <1>1, <1>3 DEF OpInv, LifeInv, OwnerInv, FramesOwned

\* A step of a body on a thread leaves the tasks of the workers alone.
LEMMA JobKept ==
  ASSUME OpInv, NEW t \in Threads, stack[t] # <<>> \/ t = Driver, UNCHANGED job,
         \A u \in Threads : u # t => stack'[u] = stack[u]
  PROVE  JobInv'
  BY OpsAssumption DEF OpInv, JobInv, Threads

\* Destroying frames that may be destroyed starts and ends no coroutine, and
\* touches none that is destroyed already.
LEMMA OwnedFacts ==
  ASSUME OpInv, NEW o \in Ops, CanDestroy(o)
  PROVE  /\ \A p \in Owned(o) :
              /\ p \in Ops /\ frame[p] \in {"suspended", "final"}
              /\ object[p] = "alive"
         /\ driver # "gone"
         /\ o \in Owned(o) /\ Owned(o) \subseteq Ops
<1>1. o \in Owned(o) /\ Owned(o) \subseteq Ops
  BY DEF Owned
<1>2. \A p \in Owned(o) : frame[p] \in {"suspended", "final"}
  BY DEF CanDestroy
<1>3. QED
  BY <1>1, <1>2 DEF OpInv, LifeInv, OwnerInv, FramesOwned

\* Before the first call nothing is alive and no task is queued.
LEMMA OpInit == Init => OpInv
<1> SUFFICES ASSUME Init PROVE OpInv
  OBVIOUS
<1> USE OpsAssumption
<1>1. Types /\ Stacks
  BY DEF Init, Types, Stacks, Results, Tasks, Jobs
<1>2. \A t \in Threads : Places(t) = {}
  BY DEF Init, Places
<1>3. StackInv
  BY <1>2 DEF Init, StackInv
<1>4. LifeInv /\ JobInv /\ OwnerInv
  BY DEF Init, LifeInv, JobInv, OwnerInv, FramesOwned, Ready, Ops, Threads
<1>5. QED
  BY <1>1, <1>3, <1>4 DEF OpInv

\* Every step of a thread, and of the pool, keeps the invariant of the operations.
LEMMA OpStep == OpInv /\ [Next]_vars => OpInv'
<1> SUFFICES ASSUME OpInv, [Next]_vars
             PROVE  OpInv'
  OBVIOUS
<1> USE OpsAssumption
<1>a. ASSUME UNCHANGED <<frame, at, object, promise, retrieved, cancelled, stack,
                         queue, job, driver>>
      PROVE  OpInv'
  BY <1>a DEF OpInv, Types, Stacks, StackInv, Places, LifeInv, Ready, JobInv, OwnerInv, FramesOwned
<1>b. ASSUME NEW what, Undefined(what)
      PROVE  OpInv'
  BY <1>a, <1>b DEF Undefined
<1>c. Types /\ Stacks /\ StackInv /\ LifeInv /\ JobInv /\ OwnerInv
  BY DEF OpInv
<1>d. ASSUME UNCHANGED <<frame, stack>>
      PROVE  StackInv' /\ Stacks'
  BY <1>c, <1>d, StackKept
<1>e. ASSUME UNCHANGED <<frame, stack, object, promise, job, at>>,
             driver' = driver \/ driver' \notin {"start", "gone"}, Types'
      PROVE  OpInv'
  <2>1. LifeInv'
    BY <1>c, <1>e DEF LifeInv, Ready
  <2>2. JobInv' /\ OwnerInv'
    BY <1>c, <1>e DEF JobInv, OwnerInv, FramesOwned
  <2>3. QED
    BY <1>d, <1>e, <2>1, <2>2 DEF OpInv
<1>1. ASSUME NEW t \in Threads, NEW o \in Ops, Yield(t, o)
      PROVE  OpInv'
  <2>1. /\ Running(t, o) /\ at[o] = "begin"
        /\ at' = [at EXCEPT ![o] = "go"]
        /\ frame' = [frame EXCEPT ![o] = "suspended"]
        /\ stack' = [stack EXCEPT ![t] = Tail(@)]
        /\ UNCHANGED <<object, promise, retrieved, cancelled, queue, job, driver>>
    BY <1>1 DEF Yield, Leave
  <2>2. frame[o] = "running" /\ object[o] = "alive" /\ driver # "gone" /\ stack[t] # <<>>
    BY <2>1, RunningFacts
  <2>3. Types'
    BY <1>c, <2>1 DEF Types
  <2>4. StackInv' /\ Stacks'
    BY <1>c, <2>1, StackLeft DEF Types
  <2>5. LifeInv'
    BY <1>c, <2>1, <2>2 DEF Types, LifeInv, Ready
  <2>6. JobInv'
    BY <1>c, <2>1, <2>2, JobKept DEF Stacks
  <2>7. OwnerInv'
    BY <1>c, <2>1, <2>2 DEF Types, OwnerInv, FramesOwned
  <2>8. QED
    BY <2>3, <2>4, <2>5, <2>6, <2>7 DEF OpInv
<1>2. ASSUME NEW t \in Threads, NEW o \in Ops, CallNext(t, o)
      PROVE  OpInv'
  <2>1. /\ Running(t, o) /\ Ready(o) /\ o < Depth
        /\ at' = [at EXCEPT ![o] = "called"]
        /\ frame' = [frame EXCEPT ![o + 1] = "running"]
        /\ object' = [object EXCEPT ![o + 1] = "alive"]
        /\ queue' = Append(queue, Task("ctor", o + 1))
        /\ stack' = [stack EXCEPT ![t] = <<o + 1>> \o @]
        /\ UNCHANGED <<promise, retrieved, cancelled, job, driver>>
    BY <1>2 DEF CallNext, Call
  <2>2. frame[o] = "running" /\ object[o] = "alive" /\ driver # "gone" /\ stack[t] # <<>>
    BY <2>1, RunningFacts
  <2>3. o + 1 \in Ops /\ o + 1 # o
    BY <2>1 DEF Ops
  <2>4. object[o + 1] = "none" /\ frame[o + 1] = "absent"
    BY <1>c, <2>1, <2>3 DEF LifeInv
  <2>5. Types'
    BY <1>c, <2>1, <2>3 DEF Types, Tasks, Task
  <2>6. StackInv' /\ Stacks'
    BY <1>c, <2>1, <2>3, <2>4, StackPushed DEF Types
  <2>7. LifeInv'
    <3>1. \A p \in Ops : p < Depth /\ Ready(p)' => object'[p + 1] = "none"
      BY <1>c, <2>1, <2>3 DEF Types, LifeInv, Ready, Ops
    <3>2. 1 \in Ops /\ (driver = "start" => 1 # o)
      BY <1>c, <2>2 DEF LifeInv, Ops
    <3>3. QED
      BY <1>c, <2>1, <2>2, <2>3, <3>1, <3>2 DEF Types, LifeInv, Ops
  <2>8. JobInv'
    BY <1>c, <2>1, <2>2, JobKept DEF Stacks
  <2>9. OwnerInv'
    BY <1>c, <2>1, <2>2, <2>3 DEF Types, OwnerInv, FramesOwned, Ready
  <2>10. QED
    BY <2>5, <2>6, <2>7, <2>8, <2>9 DEF OpInv
<1>3. ASSUME NEW t \in Threads, NEW o \in Ops, CancelNext(t, o)
      PROVE  OpInv'
  <2>1. Types'
    BY <1>3, <1>c DEF CancelNext, Types
  <2>2. QED
    BY <1>3, <1>e, <2>1 DEF CancelNext
<1>4. ASSUME NEW t \in Threads, NEW o \in Ops, AwaitReady(t, o)
      PROVE  OpInv'
  <2>1. CASE frame[o + 1] = "freed"
    BY <1>4, <1>b, <2>1 DEF AwaitReady
  <2>2. CASE frame[o + 1] # "freed"
    <3>1. /\ Running(t, o) /\ at[o] = "called"
          /\ at' = [at EXCEPT ![o] = "resume"]
          /\ retrieved' = [retrieved EXCEPT ![o + 1] = TRUE]
          /\ UNCHANGED <<object, promise, cancelled, job, driver>>
          /\ \/ UNCHANGED <<frame, stack, queue>>
             \/ /\ frame' = [frame EXCEPT ![o] = "suspended"]
                /\ queue' = Append(queue, Task("resume", o))
                /\ stack' = [stack EXCEPT ![t] = Tail(@)]
      BY <1>4, <2>2 DEF AwaitReady, Leave
    <3>2. frame[o] = "running" /\ object[o] = "alive" /\ driver # "gone" /\ stack[t] # <<>>
      BY <3>1, RunningFacts
    <3>3. Types'
      <4>1. Task("resume", o) \in Tasks
        BY DEF Task, Tasks
      <4>2. queue' \in Seq(Tasks)
        <5>1. queue' = queue \/ queue' = Append(queue, Task("resume", o))
          BY <3>1
        <5>2. QED
          BY <1>c, <4>1, <5>1 DEF Types
      <4>3. retrieved' \in [Ops -> BOOLEAN]
        BY <1>c, <3>1 DEF Types
      <4>4. QED
        BY <1>c, <3>1, <4>2, <4>3 DEF Types
    <3>4. StackInv' /\ Stacks'
      BY <1>c, <1>d, <3>1, StackLeft DEF Types
    <3>5. LifeInv'
      BY <1>c, <3>1, <3>2 DEF Types, LifeInv, Ready
    <3>6. JobInv'
      BY <1>c, <3>1, <3>2, JobKept DEF Stacks
    <3>7. OwnerInv'
      BY <1>c, <3>1, <3>2 DEF Types, OwnerInv, FramesOwned
    <3>8. QED
      BY <3>3, <3>4, <3>5, <3>6, <3>7 DEF OpInv
  <2>3. QED
    BY <2>1, <2>2
<1>5. ASSUME NEW t \in Threads, NEW o \in Ops, NEW r \in {"value", "error"},
              AwaitResume(t, o, r)
      PROVE  OpInv'
  <2>1. CASE ~CanDestroy(o + 1)
    BY <1>5, <1>b, <2>1 DEF AwaitResume
  <2>2. CASE CanDestroy(o + 1)
    <3>1. /\ Running(t, o)
          /\ promise' = [promise EXCEPT ![o] = IF retrieved[o + 1] THEN "canceled"
                                               ELSE Stored(o, r)]
          /\ at' = [at EXCEPT ![o] = "end"]
          /\ frame' = [p \in Ops |-> IF p \in Owned(o + 1) THEN "freed"
                                     ELSE IF p = o THEN "final" ELSE frame[p]]
          /\ object' = [p \in Ops |-> IF p \in Owned(o + 1) THEN "dead" ELSE object[p]]
          /\ stack' = [stack EXCEPT ![t] = Tail(@)]
          /\ UNCHANGED <<retrieved, cancelled, queue, job, driver>>
      BY <1>5, <2>2 DEF AwaitResume, Leave, ObjectsDead
    <3>2. frame[o] = "running" /\ object[o] = "alive" /\ driver # "gone" /\ stack[t] # <<>>
      BY <3>1, RunningFacts
    <3>0. o + 1 \in Ops
      <4>1. at[o] = "resume"
        BY <1>5 DEF AwaitResume
      <4>2. o < Depth
        BY <1>c, <4>1 DEF LifeInv
      <4>3. QED
        BY <4>2 DEF Ops
    <3>3. \A p \in Owned(o + 1) :
            /\ p \in Ops /\ frame[p] \in {"suspended", "final"}
            /\ object[p] = "alive"
      BY <2>2, <3>0, OwnedFacts
    <3>4. Stored(o, r) \in Results
      BY DEF Stored, Results
    <3>5. Types'
      BY <1>c, <3>1, <3>4 DEF Types, Results
    <3>6. StackInv' /\ Stacks'
      BY <1>c, <3>1, <3>2, <3>3, StackLeft DEF Types
    <3>7. LifeInv'
      <4>1. \A p \in Ops : /\ object'[p] = "none" <=> object[p] = "none"
                           /\ frame'[p] = "absent" <=> frame[p] = "absent"
        BY <1>c, <3>1, <3>2, <3>3 DEF Types
      <4>2. \A p \in Ops : p < Depth => p + 1 \in Ops
        BY DEF Ops
      <4>3. 1 \in Ops
        BY DEF Ops
      <4>4. QED
        BY <1>c, <3>1, <3>2, <4>1, <4>2, <4>3 DEF Types, LifeInv, Ready
    <3>8. JobInv'
      BY <1>c, <3>1, <3>2, JobKept DEF Stacks
    <3>9. OwnerInv'
      BY <1>c, <3>1, <3>2, <3>3 DEF Types, OwnerInv, FramesOwned
    <3>10. QED
      BY <3>5, <3>6, <3>7, <3>8, <3>9 DEF OpInv
  <2>3. QED
    BY <2>1, <2>2
<1>6. ASSUME NEW t \in Threads, NEW o \in Ops, NEW r \in {"value", "error"},
              Return(t, o, r)
      PROVE  OpInv'
  <2>1. /\ Running(t, o)
        /\ promise' = [promise EXCEPT ![o] = Stored(o, r)]
        /\ at' = [at EXCEPT ![o] = "end"]
        /\ frame' = [frame EXCEPT ![o] = "final"]
        /\ stack' = [stack EXCEPT ![t] = Tail(@)]
        /\ UNCHANGED <<object, retrieved, cancelled, queue, job, driver>>
    BY <1>6 DEF Return, Leave
  <2>2. frame[o] = "running" /\ object[o] = "alive" /\ driver # "gone" /\ stack[t] # <<>>
    BY <2>1, RunningFacts
  <2>3. Stored(o, r) \in Results
    BY DEF Stored, Results
  <2>4. Types'
    BY <1>c, <2>1, <2>3 DEF Types
  <2>5. StackInv' /\ Stacks'
    BY <1>c, <2>1, StackLeft DEF Types
  <2>6. LifeInv'
    BY <1>c, <2>1, <2>2 DEF Types, LifeInv, Ready
  <2>7. JobInv'
    BY <1>c, <2>1, <2>2, JobKept DEF Stacks
  <2>8. OwnerInv'
    BY <1>c, <2>1, <2>2 DEF Types, OwnerInv, FramesOwned
  <2>9. QED
    BY <2>4, <2>5, <2>6, <2>7, <2>8 DEF OpInv
<1>7. CASE Start
  <2>1. /\ driver = "start" /\ driver' = "hold"
        /\ frame' = [frame EXCEPT ![1] = "running"]
        /\ object' = [object EXCEPT ![1] = "alive"]
        /\ queue' = Append(queue, Task("ctor", 1))
        /\ stack' = [stack EXCEPT ![Driver] = <<1>> \o @]
        /\ UNCHANGED <<at, promise, retrieved, cancelled, job>>
    BY <1>7 DEF Start, Call
  <2>2. 1 \in Ops /\ Driver \in Threads
    BY DEF Ops, Threads
  <2>3. object[1] = "none" /\ frame[1] = "absent"
    BY <1>c, <2>1, <2>2 DEF LifeInv
  <2>4. Types'
    BY <1>c, <2>1, <2>2 DEF Types, Task, Tasks
  <2>5. StackInv' /\ Stacks'
    <3>1. frame'[1] = "running" /\ \A p \in Ops : p # 1 => frame'[p] = frame[p]
      BY <1>c, <2>1, <2>2 DEF Types
    <3>2. frame[1] # "running"
      BY <2>3
    <3>3. QED
      BY <1>c, <2>1, <2>2, <3>1, <3>2, StackPushed
  <2>6. LifeInv'
    <3>1. \A p \in Ops : p < Depth => p + 1 \in Ops /\ p + 1 # 1
      BY DEF Ops
    <3>2. QED
      BY <1>c, <2>1, <2>2, <3>1 DEF Types, LifeInv, Ready
  <2>7. JobInv'
    BY <1>c, <2>1, <2>2, JobKept DEF Stacks
  <2>8. OwnerInv'
    BY <1>c, <2>1, <2>3 DEF Types, OwnerInv, FramesOwned
  <2>9. QED
    BY <2>4, <2>5, <2>6, <2>7, <2>8 DEF OpInv
<1>8. CASE Cancel
  <2>1. Types'
    BY <1>8, <1>c DEF Cancel, Types
  <2>2. QED
    BY <1>8, <1>e, <2>1 DEF Cancel
<1>9. CASE GetFuture
  <2>1. CASE frame[1] = "freed"
    BY <1>9, <1>b, <2>1 DEF GetFuture
  <2>2. CASE frame[1] # "freed"
    <3>1. Types'
      BY <1>9, <1>c, <2>2 DEF GetFuture, Types
    <3>2. QED
      BY <1>9, <1>e, <2>2, <3>1 DEF GetFuture
  <2>3. QED
    BY <2>1, <2>2
<1>10. CASE GetReturns
  <2>1. Types'
    BY <1>10, <1>c DEF GetReturns, Types
  <2>2. QED
    BY <1>10, <1>e, <2>1 DEF GetReturns
<1>11. CASE Drop
  <2>1. CASE ~CanDestroy(1)
    BY <1>11, <1>b, <2>1 DEF Drop
  <2>2. CASE CanDestroy(1)
    <3>1. /\ frame' = [p \in Ops |-> IF p \in Owned(1) THEN "freed" ELSE frame[p]]
          /\ object' = [p \in Ops |-> IF p \in Owned(1) THEN "dead" ELSE object[p]]
          /\ driver' = "gone"
          /\ UNCHANGED <<at, promise, retrieved, cancelled, stack, queue, job>>
      BY <1>11, <2>2 DEF Drop, DestroyFrame, ObjectsDead
    <3>2. 1 \in Ops
      BY DEF Ops
    <3>3. \A p \in Owned(1) :
            /\ p \in Ops /\ frame[p] \in {"suspended", "final"}
            /\ object[p] = "alive"
      BY <2>2, <3>2, OwnedFacts
    <3>4. Types'
      BY <1>c, <3>1 DEF Types
    <3>5. StackInv' /\ Stacks'
      BY <1>c, <3>1, <3>3, StackKept
    <3>6. LifeInv'
      <4>1. \A p \in Ops : /\ object'[p] = "none" <=> object[p] = "none"
                           /\ frame'[p] = "absent" <=> frame[p] = "absent"
        BY <1>c, <3>1, <3>3 DEF Types
      <4>2. \A p \in Ops : p < Depth => p + 1 \in Ops
        BY DEF Ops
      <4>3. QED
        BY <1>c, <3>1, <4>1, <4>2 DEF LifeInv, Ready
    <3>7. JobInv' /\ OwnerInv'
      <4>1. \A p \in Ops : object'[p] # "alive"
        BY <3>1 DEF Owned, Ops
      <4>2. QED
        BY <1>c, <3>1, <3>3, <4>1 DEF Types, JobInv, OwnerInv, FramesOwned
    <3>8. QED
      BY <3>4, <3>5, <3>6, <3>7 DEF OpInv
  <2>3. QED
    BY <2>1, <2>2
<1>12. ASSUME NEW w \in Workers, Take(w)
      PROVE  OpInv'
  <2>1. /\ job[w] = NoJob /\ queue # <<>>
        /\ job' = [job EXCEPT ![w] = Head(queue)]
        /\ queue' = Tail(queue)
        /\ UNCHANGED <<frame, at, object, promise, retrieved, cancelled, stack, driver>>
    BY <1>12 DEF Take
  <2>2. Head(queue) \in Tasks /\ Tail(queue) \in Seq(Tasks)
    BY <1>c, <2>1 DEF Types
  <2>3. Types'
    BY <1>c, <2>1, <2>2 DEF Types, Jobs
  <2>4. stack[w] = <<>>
    BY <1>c, <2>1 DEF JobInv, NoJob, Task
  <2>5. JobInv'
    BY <1>c, <2>1, <2>4 DEF Types, JobInv
  <2>6. LifeInv' /\ OwnerInv'
    BY <1>c, <2>1 DEF LifeInv, Ready, OwnerInv, FramesOwned
  <2>7. QED
    BY <2>1, <2>3, <2>5, <2>6, <1>d DEF OpInv
\* The ends of a task, when it neither resumes nor destroys anything.
<1>f. ASSUME NEW w \in Workers, NEW o \in Ops, NEW next \in Jobs, stack[w] = <<>>,
             job' = [job EXCEPT ![w] = next],
             UNCHANGED <<frame, at, object, promise, retrieved, cancelled, stack, queue,
                         driver>>
      PROVE  OpInv'
  <2>1. Types' /\ JobInv'
    BY <1>c, <1>f DEF Types, JobInv
  <2>2. LifeInv' /\ OwnerInv'
    BY <1>c, <1>f DEF LifeInv, Ready, OwnerInv, FramesOwned
  <2>3. QED
    BY <1>d, <1>f, <2>1, <2>2 DEF OpInv
<1>g. ASSUME NEW w \in Workers, NEW o \in Ops, NEW next \in Jobs, Resume(w, o, next),
             stack[w] = <<>>, frame[o] = "suspended", next.kind \in {"destroy", "after"}
      PROVE  OpInv'
  <2>1. /\ frame' = [frame EXCEPT ![o] = "running"]
        /\ stack' = [stack EXCEPT ![w] = <<o>>]
        /\ job' = [job EXCEPT ![w] = next]
        /\ UNCHANGED <<at, object, promise, retrieved, cancelled, queue, driver>>
    BY <1>g DEF Resume
  <2>2. w \in Threads
    BY DEF Threads
  <2>3. stack' = [stack EXCEPT ![w] = <<o>> \o @]
    BY <1>c, <1>g, <2>1, <2>2 DEF Stacks
  <2>4. StackInv' /\ Stacks'
    BY <1>c, <1>g, <2>1, <2>2, <2>3, StackPushed DEF Types
  <2>5. Types'
    BY <1>c, <2>1 DEF Types
  <2>6. LifeInv'
    BY <1>c, <1>g, <2>1 DEF Types, LifeInv, Ready
  <2>7. JobInv'
    BY <1>c, <1>g, <2>1 DEF Types, Stacks, JobInv
  <2>8. OwnerInv'
    BY <1>c, <1>g, <2>1 DEF Types, OwnerInv, FramesOwned
  <2>9. QED
    BY <2>4, <2>5, <2>6, <2>7, <2>8 DEF OpInv
<1>h. \A o \in Ops : /\ Task("destroy", o) \in Jobs /\ Task("destroy", o).kind = "destroy"
                     /\ Task("after", o) \in Jobs /\ Task("after", o).kind = "after"
                     /\ Task("ctor", o).kind = "ctor" /\ Task("resume", o).kind = "resume"
                     /\ NoJob \in Jobs
  BY DEF Task, Jobs
<1>13. ASSUME NEW w \in Workers, NEW o \in Ops, CtorTask(w, o)
      PROVE  OpInv'
  <2>1. job[w] = Task("ctor", o) /\ stack[w] = <<>>
    BY <1>13, <1>c, <1>h DEF CtorTask, JobInv
  <2>2. \/ \E what : Undefined(what)
        \/ /\ job' = [job EXCEPT ![w] = Task("destroy", o)]
           /\ UNCHANGED <<frame, at, object, promise, retrieved, cancelled, stack, queue,
                          driver>>
        \/ frame[o] = "suspended" /\ Resume(w, o, Task("destroy", o))
    BY <1>13 DEF CtorTask
  <2>3. QED
    BY <1>b, <1>f, <1>g, <1>h, <2>1, <2>2
<1>14. ASSUME NEW w \in Workers, NEW o \in Ops, CtorTaskDestroys(w, o)
      PROVE  OpInv'
  <2>1. CASE object[o] = "dead" \/ ~CanDestroy(o)
    BY <1>14, <1>b, <2>1 DEF CtorTaskDestroys
  <2>2. CASE object[o] # "dead" /\ CanDestroy(o)
    <3>1. /\ stack[w] = <<>>
          /\ frame' = [p \in Ops |-> IF p \in Owned(o) THEN "freed" ELSE frame[p]]
          /\ object' = [p \in Ops |-> IF p \in Owned(o) \ {o} THEN "dead" ELSE object[p]]
          /\ job' = [job EXCEPT ![w] = NoJob]
          /\ UNCHANGED <<at, promise, retrieved, cancelled, stack, queue, driver>>
      BY <1>14, <2>2 DEF CtorTaskDestroys, DestroyFrame, ObjectsDead
    <3>2. /\ o \in Owned(o)
          /\ \A p \in Owned(o) :
               /\ p \in Ops /\ frame[p] \in {"suspended", "final"}
               /\ object[p] = "alive"
      BY <2>2, OwnedFacts
    <3>3. Types'
      BY <1>c, <1>h, <3>1 DEF Types
    <3>4. StackInv' /\ Stacks'
      BY <1>c, <3>1, <3>2, StackKept
    <3>5. LifeInv'
      <4>1. \A p \in Ops : /\ object'[p] = "none" <=> object[p] = "none"
                           /\ frame'[p] = "absent" <=> frame[p] = "absent"
        BY <1>c, <3>1, <3>2 DEF Types
      <4>2. 1 \in Ops /\ \A p \in Ops : p < Depth => p + 1 \in Ops
        BY DEF Ops
      <4>3. QED
        BY <1>c, <3>1, <4>1, <4>2 DEF LifeInv, Ready
    <3>6. JobInv'
      BY <1>c, <3>1 DEF Types, JobInv
    <3>7. OwnerInv'
      <4>1. object[o] = "alive"
        BY <1>c, <2>2, <3>2 DEF Types
      <4>2. QED
        BY <1>c, <3>1, <3>2, <4>1 DEF Types, OwnerInv, FramesOwned
    <3>8. QED
      BY <3>3, <3>4, <3>5, <3>6, <3>7 DEF OpInv
  <2>3. QED
    BY <2>1, <2>2
<1>15. ASSUME NEW w \in Workers, NEW o \in Ops, ResumeTask(w, o)
      PROVE  OpInv'
  <2>1. job[w] = Task("resume", o) /\ stack[w] = <<>>
    BY <1>15, <1>c, <1>h DEF ResumeTask, JobInv
  <2>2. \/ \E what : Undefined(what)
        \/ /\ job' = [job EXCEPT ![w] = NoJob]
           /\ UNCHANGED <<frame, at, object, promise, retrieved, cancelled, stack, queue,
                          driver>>
        \/ frame[o] = "suspended" /\ Resume(w, o, Task("after", o))
    BY <1>15 DEF ResumeTask
  <2>3. QED
    BY <1>b, <1>f, <1>g, <1>h, <2>1, <2>2
<1>16. ASSUME NEW w \in Workers, NEW o \in Ops, ResumeTaskEnds(w, o)
      PROVE  OpInv'
  BY <1>16, <1>f, <1>h DEF ResumeTaskEnds
<1>17. CASE UNCHANGED vars
  BY <1>17, <1>a DEF vars
<1>18. QED
  BY <1>1, <1>2, <1>3, <1>4, <1>5, <1>6, <1>7, <1>8, <1>9, <1>10,
     <1>11, <1>12, <1>13, <1>14, <1>15, <1>16, <1>17
  DEF Next, BodyStep, TaskStep

\* The type invariant, and in it that a coroutine is on one stack exactly while its
\* frame runs: two threads never execute one coroutine, whatever resumes it.
THEOREM AsyncTypeCorrect == Spec => []TypeOK
  BY OpInit, OpStep, OpTypes, PTL DEF Spec

\* Nothing leaks: what was started and not destroyed has an object that will destroy
\* it, and dropping the first object ends the whole chain.
THEOREM AsyncFramesOwned == Spec => []FramesOwned
<1>1. OpInv => FramesOwned
  BY DEF OpInv, OwnerInv
<1>2. QED
  BY <1>1, OpInit, OpStep, PTL DEF Spec

-----------------------------------------------------------------------------
(* Before a worker has taken the first task.                               *)

\* The first task of all is that of operation 1.
FirstTaken == object[1] # "none" /\ ~Waiting(1)

Top == Len(stack[Driver])

\* Only the driver's own steps have happened, and the first task is first in line.
QueueInv ==
  /\ undefined = "none"
  /\ \A w \in Workers : job[w] = NoJob
  /\ object[1] = "none" => driver = "start" /\ queue = <<>>
  /\ object[1] # "none" =>
       /\ Len(queue) >= 1 /\ queue[1] = Task("ctor", 1)
       /\ \A i \in 2..Len(queue) : queue[i] # Task("ctor", 1)
  /\ driver \in {"hold", "wait", "got"} => object[1] = "alive"
  /\ driver # "hold" => stack[Driver] = <<>>

\* The driver executes operations 1 to Top, each called by the one before, and what
\* is alive beyond them has suspended or ended: it may be read, and destroyed.
CallInv ==
  /\ \A i \in 1..Top : stack[Driver][i] = Top + 1 - i
  /\ \A o \in 1..Top : object[o] = "alive"
  /\ \A o \in 1..Top : o < Top => at[o] = "called"
  /\ \A o \in 1..Top : at[o] \in {"called", "resume"} => object[o + 1] = "alive"
  /\ \A o \in Ops : object[o] = "alive" =>
       o \in 1..Top \/ frame[o] \in {"suspended", "final"}

CallersInv == ~FirstTaken => QueueInv /\ CallInv

\* At first the driver has called nothing.
LEMMA CallersInit == Init => CallersInv
  BY OpsAssumption DEF Init, CallersInv, QueueInv, CallInv, Top, Ops, Threads

\* How the queue and the objects change.
LEMMA QueueSteps ==
  ASSUME OpInv, [Next]_vars, driver # "start"
  PROVE  /\ \/ queue' = queue
            \/ queue # <<>> /\ queue' = Tail(queue)
            \/ \E x \in Tasks : x # Task("ctor", 1) /\ queue' = Append(queue, x)
         /\ object[1] # "none" => object'[1] # "none"
<1> USE OpsAssumption
<1>0. 1 \in Ops /\ DOMAIN object = Ops
  BY DEF OpInv, Types, Ops
<1>1. \A S : ObjectsDead(S) /\ object[1] # "none" => object'[1] # "none"
  BY <1>0 DEF ObjectsDead
<1>2. ASSUME NEW t \in Threads, NEW o \in Ops, CallNext(t, o)
      PROVE  /\ Task("ctor", o + 1) \in Tasks /\ Task("ctor", o + 1) # Task("ctor", 1)
             /\ queue' = Append(queue, Task("ctor", o + 1))
             /\ object[1] # "none" => object'[1] # "none"
  BY <1>2, <1>0 DEF CallNext, Call, Task, Tasks, Ops
<1>3. ASSUME NEW t \in Threads, NEW o \in Ops, AwaitReady(t, o)
      PROVE  /\ Task("resume", o) \in Tasks /\ Task("resume", o) # Task("ctor", 1)
             /\ queue' = queue \/ queue' = Append(queue, Task("resume", o))
             /\ object' = object
  BY <1>3 DEF AwaitReady, Task, Tasks, Undefined
<1>4. ASSUME NEW t \in Threads, NEW o \in Ops, NEW r \in {"value", "error"},
             AwaitResume(t, o, r)
      PROVE  queue' = queue /\ (object[1] # "none" => object'[1] # "none")
  BY <1>1, <1>4 DEF AwaitResume, Undefined
<1>5. ASSUME Drop
      PROVE  queue' = queue /\ (object[1] # "none" => object'[1] # "none")
  BY <1>1, <1>5 DEF Drop, Undefined
<1>6. ASSUME NEW w \in Workers, NEW o \in Ops, CtorTaskDestroys(w, o)
      PROVE  queue' = queue /\ (object[1] # "none" => object'[1] # "none")
  BY <1>1, <1>6 DEF CtorTaskDestroys, Undefined
<1>7. ASSUME NEW t \in Threads, NEW o \in Ops, NEW r \in {"value", "error"},
             Yield(t, o) \/ CancelNext(t, o) \/ Return(t, o, r)
      PROVE  queue' = queue /\ object' = object
  BY <1>7 DEF Yield, CancelNext, Return
<1>8. ASSUME NEW w \in Workers, NEW o \in Ops,
             CtorTask(w, o) \/ ResumeTask(w, o) \/ ResumeTaskEnds(w, o)
      PROVE  queue' = queue /\ object' = object
  BY <1>8 DEF CtorTask, ResumeTask, ResumeTaskEnds, Resume, Undefined
<1>9. ASSUME Cancel \/ GetFuture \/ GetReturns \/ UNCHANGED vars
      PROVE  queue' = queue /\ object' = object
  BY <1>9 DEF Cancel, GetFuture, GetReturns, vars, Undefined
<1>10. ~Start
  BY DEF Start
<1>11. ASSUME NEW w \in Workers, Take(w)
       PROVE  queue # <<>> /\ queue' = Tail(queue) /\ object' = object
  BY <1>11 DEF Take
<1>12. QED
  BY <1>2, <1>3, <1>4, <1>5, <1>6, <1>7, <1>8, <1>9, <1>10, <1>11
  DEF Next, BodyStep, TaskStep

\* Once taken, the first task is never in line again.
LEMMA FirstStaysTaken ==
  ASSUME OpInv, [Next]_vars, FirstTaken
  PROVE  FirstTaken'
<1>1. driver # "start" /\ object[1] # "none" /\ ~Waiting(1)
  BY DEF OpInv, LifeInv, FirstTaken
<1>2. queue \in Seq(Tasks)
  BY DEF OpInv, Types
<1>3. object'[1] # "none"
  BY <1>1, QueueSteps
<1>4. CASE queue' = queue
  BY <1>1, <1>3, <1>4 DEF FirstTaken, Waiting
<1>5. CASE queue # <<>> /\ queue' = Tail(queue)
  <2>1. /\ Len(queue) \in Nat /\ Len(Tail(queue)) = Len(queue) - 1
        /\ \A i \in 1..(Len(queue) - 1) : Tail(queue)[i] = queue[i + 1]
    BY <1>2, <1>5, TailFacts
  <2>2. QED
    BY <1>1, <1>3, <1>5, <2>1 DEF FirstTaken, Waiting
<1>6. ASSUME NEW x \in Tasks, x # Task("ctor", 1), queue' = Append(queue, x)
      PROVE  FirstTaken'
  <2>1. /\ Len(queue) \in Nat /\ Len(queue') = Len(queue) + 1
        /\ queue'[Len(queue) + 1] = x
        /\ \A i \in 1..Len(queue) : queue'[i] = queue[i]
    BY <1>2, <1>6
  <2>2. QED
    BY <1>1, <1>3, <1>6, <2>1 DEF FirstTaken, Waiting
<1>7. QED
  BY <1>1, <1>4, <1>5, <1>6, QueueSteps

\* While only the driver executes, what it executes is operation Top.
LEMMA TopRuns ==
  ASSUME OpInv, QueueInv, CallInv, NEW t \in Threads, NEW o \in Ops, Running(t, o)
  PROVE  /\ t = Driver /\ o = Top /\ Top \in Nat /\ Top >= 1 /\ driver = "hold"
         /\ stack[Driver] \in Seq(Ops) /\ stack[Driver] # <<>>
         /\ object[o] = "alive" /\ frame[o] = "running"
<1>1. stack[t] # <<>> /\ stack[t] \in Seq(Ops) /\ frame[o] = "running"
  BY RunningFacts DEF OpInv, Stacks
<1>2. t = Driver
  BY <1>1 DEF OpInv, JobInv, QueueInv, NoJob, Task, Threads
<1>3. Top \in Nat /\ Top >= 1 /\ stack[Driver][1] = o
  BY <1>1, <1>2, TailFacts DEF Top, Running
<1>4. o = Top
  BY <1>3 DEF CallInv, Ops
<1>5. QED
  BY <1>1, <1>2, <1>3, <1>4 DEF QueueInv, CallInv

\* Beyond Top, what is alive can be read and destroyed.
LEMMA BeyondTop ==
  ASSUME OpInv, CallInv, NEW o \in Ops, o > Top, object[o] = "alive", Top \in Nat
  PROVE  frame[o] # "freed" /\ CanDestroy(o)
<1>1. \A p \in Owned(o) : p \in Ops /\ p > Top /\ object[p] = "alive"
  BY OpsAssumption DEF Owned, Ops
<1>2. QED
  BY <1>1 DEF CallInv, CanDestroy

\* Operation Top suspends or ends, and leaves the rest as it was but for objects
\* that die.
LEMMA TopLeaves ==
  ASSUME OpInv, CallInv, Top \in Nat, Top >= 1, Top \in Ops,
         stack[Driver] # <<>>, stack'[Driver] = Tail(stack[Driver]),
         \A p \in Ops : p < Top => at'[p] = at[p],
         \A p \in Ops : p <= Top => object'[p] = object[p],
         \A p \in Ops : object'[p] = "alive" => object[p] = "alive",
         frame'[Top] \in {"suspended", "final"},
         \A p \in Ops : p > Top /\ object'[p] = "alive" => frame'[p] = frame[p]
  PROVE  CallInv'
<1> USE OpsAssumption
<1>1. /\ Top' = Top - 1
      /\ \A i \in 1..(Top - 1) : stack'[Driver][i] = stack[Driver][i + 1]
  BY TailFacts DEF OpInv, Stacks, Top, Threads
<1>2. \A o \in 1..Top : o \in Ops
  BY DEF Ops
<1>3. \A i \in (1..Top)' : stack'[Driver][i] = Top' + 1 - i
  <2> SUFFICES ASSUME NEW i \in (1..Top)'
               PROVE  stack'[Driver][i] = Top' + 1 - i
    OBVIOUS
  <2>1. i \in 1..(Top - 1) /\ i + 1 \in 1..Top
    BY <1>1
  <2>2. stack[Driver][i + 1] = Top + 1 - (i + 1)
    BY <2>1 DEF CallInv
  <2>3. Top' + 1 - i = Top - i /\ Top + 1 - (i + 1) = Top - i
    BY <1>1, <2>1
  <2>4. QED
    BY <1>1, <2>1, <2>2, <2>3
<1>4. \A o \in (1..Top)' : object'[o] = "alive" /\ at'[o] = "called"
  BY <1>1, <1>2 DEF CallInv
<1>5. \A o \in (1..Top)' : object'[o + 1] = "alive"
  <2> SUFFICES ASSUME NEW o \in 1..(Top - 1)
               PROVE  object'[o + 1] = "alive"
    BY <1>1
  <2>1. o + 1 \in 1..Top
    OBVIOUS
  <2>2. QED
    BY <2>1, <1>2 DEF CallInv
<1>6. \A o \in Ops : object'[o] = "alive" =>
        o \in (1..Top)' \/ frame'[o] \in {"suspended", "final"}
  <2> SUFFICES ASSUME NEW o \in Ops, object'[o] = "alive", o >= Top
               PROVE  frame'[o] \in {"suspended", "final"}
    BY <1>1 DEF Ops
  <2>1. CASE o = Top
    BY <2>1
  <2>2. CASE o # Top
    BY <2>2 DEF CallInv, Ops
  <2>3. QED
    BY <2>1, <2>2
<1>7. QED
  BY <1>3, <1>4, <1>5, <1>6 DEF CallInv

\* The queue while no worker takes anything.
LEMMA QueueKept ==
  ASSUME OpInv, QueueInv, UNCHANGED <<undefined, job, driver>>, object'[1] = object[1],
         driver # "start", stack'[Driver] = stack[Driver] \/ driver = "hold",
         \/ queue' = queue
         \/ \E x \in Tasks : x # Task("ctor", 1) /\ queue' = Append(queue, x)
  PROVE  QueueInv'
<1>1. object[1] # "none"
  BY DEF QueueInv
<1>2. /\ Len(queue') >= 1 /\ queue'[1] = Task("ctor", 1)
      /\ \A i \in 2..Len(queue') : queue'[i] # Task("ctor", 1)
  <2>1. CASE queue' = queue
    BY <1>1, <2>1 DEF QueueInv
  <2>2. ASSUME NEW x \in Tasks, x # Task("ctor", 1), queue' = Append(queue, x)
        PROVE  /\ Len(queue') >= 1 /\ queue'[1] = Task("ctor", 1)
               /\ \A i \in 2..Len(queue') : queue'[i] # Task("ctor", 1)
    <3>1. queue \in Seq(Tasks)
      BY DEF OpInv, Types
    <3>2. /\ Len(queue) \in Nat /\ Len(queue') = Len(queue) + 1
          /\ queue'[Len(queue) + 1] = x
          /\ \A i \in 1..Len(queue) : queue'[i] = queue[i]
      BY <2>2, <3>1
    <3>3. QED
      BY <1>1, <2>2, <3>2 DEF QueueInv
  <2>3. QED
    BY <2>1, <2>2
<1>3. QED
  BY <1>1, <1>2 DEF QueueInv

\* While no worker has taken the first task, only the driver executes, and it keeps CallersInv.
LEMMA CallersStep == OpInv /\ CallersInv /\ [Next]_vars => CallersInv'
<1> SUFFICES ASSUME OpInv, CallersInv, [Next]_vars, ~FirstTaken'
             PROVE  QueueInv' /\ CallInv'
  BY DEF CallersInv
<1> USE OpsAssumption
<1>a. QueueInv /\ CallInv
  BY FirstStaysTaken DEF CallersInv
<1>b. /\ Types /\ Stacks /\ LifeInv /\ 1 \in Ops
      /\ Driver \in Threads /\ Top \in Nat
  BY DEF OpInv, Stacks, Ops, Threads, Top
<1>c. ASSUME UNCHANGED <<stack, object, frame, at>>
      PROVE  CallInv'
  BY <1>a, <1>c DEF CallInv, Top
<1>1. ASSUME NEW t \in Threads, NEW o \in Ops, Yield(t, o)
      PROVE  QueueInv' /\ CallInv'
  <2>1. /\ Running(t, o)
        /\ at' = [at EXCEPT ![o] = "go"]
        /\ frame' = [frame EXCEPT ![o] = "suspended"]
        /\ stack' = [stack EXCEPT ![t] = Tail(@)]
        /\ UNCHANGED <<object, queue, job, driver, undefined>>
    BY <1>1 DEF Yield, Leave
  <2>2. t = Driver /\ o = Top /\ Top >= 1 /\ driver = "hold" /\ stack[Driver] # <<>>
    BY <1>a, <2>1, TopRuns
  <2>3. QueueInv'
    BY <1>a, <2>1, <2>2, QueueKept
  <2>4. stack'[Driver] = Tail(stack[Driver])
    BY <1>b, <2>1, <2>2 DEF Stacks
  <2>5. /\ frame'[o] = "suspended" /\ \A p \in Ops : p # o => frame'[p] = frame[p]
        /\ \A p \in Ops : p # o => at'[p] = at[p]
    BY <1>b, <2>1 DEF Types
  <2>6. QED
    BY <1>a, <1>b, <2>1, <2>2, <2>3, <2>4, <2>5, TopLeaves DEF Ops
<1>2. ASSUME NEW t \in Threads, NEW o \in Ops, CallNext(t, o)
      PROVE  QueueInv' /\ CallInv'
  <2>1. /\ Running(t, o) /\ Ready(o) /\ o < Depth
        /\ at' = [at EXCEPT ![o] = "called"]
        /\ frame' = [frame EXCEPT ![o + 1] = "running"]
        /\ object' = [object EXCEPT ![o + 1] = "alive"]
        /\ queue' = Append(queue, Task("ctor", o + 1))
        /\ stack' = [stack EXCEPT ![t] = <<o + 1>> \o @]
        /\ UNCHANGED <<job, driver, undefined>>
    BY <1>2 DEF CallNext, Call
  <2>2. /\ t = Driver /\ o = Top /\ Top >= 1 /\ driver = "hold"
        /\ stack[Driver] \in Seq(Ops)
    BY <1>a, <2>1, TopRuns
  <2>3. o + 1 \in Ops /\ object[o + 1] = "none" /\ at[o + 1] = "begin"
    BY <1>b, <2>1 DEF LifeInv, Ops
  <2>4. /\ object'[1] = object[1]
        /\ Task("ctor", o + 1) \in Tasks /\ Task("ctor", o + 1) # Task("ctor", 1)
    BY <1>b, <2>1, <2>3 DEF Types, Task, Tasks, Ops
  <2>5. QueueInv'
    BY <1>a, <2>1, <2>2, <2>4, QueueKept
  <2>6. /\ Top' = Top + 1 /\ stack'[Driver][1] = Top + 1
        /\ \A i \in 2..(Top + 1) : stack'[Driver][i] = stack[Driver][i - 1]
    <3>1. stack'[Driver] = <<o + 1>> \o stack[Driver]
      BY <1>b, <2>1, <2>2 DEF Stacks
    <3>2. QED
      BY <2>2, <2>3, <3>1, PushFacts DEF Top
  <2>7. \A i \in (1..Top)' : stack'[Driver][i] = Top' + 1 - i
    <3> SUFFICES ASSUME NEW i \in (1..Top)'
                 PROVE  stack'[Driver][i] = Top' + 1 - i
      OBVIOUS
    <3>1. CASE i = 1
      BY <1>b, <2>6, <3>1
    <3>2. CASE i # 1
      <4>1. i \in 2..(Top + 1) /\ i - 1 \in 1..Top
        BY <1>b, <2>6, <3>2
      <4>2. stack[Driver][i - 1] = Top + 1 - (i - 1)
        BY <1>a, <4>1 DEF CallInv
      <4>3. QED
        BY <1>b, <2>6, <4>1, <4>2
    <3>3. QED
      BY <3>1, <3>2
  <2>8. /\ object'[o + 1] = "alive" /\ \A p \in Ops : p # o + 1 => object'[p] = object[p]
        /\ at'[o] = "called" /\ \A p \in Ops : p # o => at'[p] = at[p]
        /\ \A p \in Ops : p # o + 1 => frame'[p] = frame[p]
    BY <1>b, <2>1, <2>3 DEF Types
  <2>9. (1..Top)' = 1..(o + 1) /\ \A p \in 1..(o + 1) : p \in Ops
    BY <2>2, <2>3, <2>6 DEF Ops
  <2>10. Top' = o + 1 /\ o \in Nat
    BY <1>b, <2>2, <2>6
  <2>11. \A p \in 1..o : p \in Ops /\ p # o + 1 /\ object[p] = "alive"
                        /\ (p < o => at[p] = "called")
    BY <1>a, <2>2, <2>9, <2>10 DEF CallInv
  <2>12. \A p \in 1..(o + 1) : object'[p] = "alive" /\ (p < o + 1 => at'[p] = "called")
    BY <2>8, <2>10, <2>11
  <2>13. \A p \in 1..(o + 1) : at'[p] \in {"called", "resume"} => object'[p + 1] = "alive"
    <3>1. at'[o + 1] = "begin"
      BY <2>3, <2>8, <2>10
    <3>2. \A p \in 1..o : p + 1 \in 1..(o + 1)
      BY <2>10
    <3>3. QED
      BY <2>10, <2>12, <3>1, <3>2
  <2>14. \A p \in Ops : object'[p] = "alive" =>
           p \in 1..(o + 1) \/ frame'[p] \in {"suspended", "final"}
    <3> SUFFICES ASSUME NEW p \in Ops, object'[p] = "alive", p \notin 1..(o + 1)
                 PROVE  frame'[p] \in {"suspended", "final"}
      OBVIOUS
    <3>1. p # o + 1 /\ p \notin 1..o
      BY <2>10 DEF Ops
    <3>2. object[p] = "alive" /\ frame'[p] = frame[p]
      BY <2>8, <3>1
    <3>3. QED
      BY <1>a, <2>2, <3>1, <3>2 DEF CallInv
  <2>15. QED
    BY <2>5, <2>7, <2>9, <2>10, <2>12, <2>13, <2>14 DEF CallInv
<1>3. ASSUME NEW t \in Threads, NEW o \in Ops, CancelNext(t, o)
      PROVE  QueueInv' /\ CallInv'
  <2>1. driver = "hold"
    BY <1>3, <1>a, TopRuns DEF CancelNext
  <2>2. QED
    BY <1>3, <1>a, <1>c, <2>1, QueueKept DEF CancelNext
<1>4. ASSUME NEW t \in Threads, NEW o \in Ops, AwaitReady(t, o)
      PROVE  QueueInv' /\ CallInv'
  <2>1. Running(t, o) /\ at[o] = "called"
    BY <1>4 DEF AwaitReady
  <2>2. /\ t = Driver /\ o = Top /\ Top >= 1 /\ driver = "hold" /\ stack[Driver] # <<>>
        /\ object[o] = "alive"
    BY <1>a, <2>1, TopRuns
  <2>3. object[o + 1] = "alive" /\ o + 1 \in Ops
    BY <1>a, <1>b, <2>1, <2>2 DEF CallInv, LifeInv, Ops
  <2>4. frame[o + 1] # "freed"
    BY <1>a, <1>b, <2>2, <2>3, BeyondTop
  <2>5. /\ at' = [at EXCEPT ![o] = "resume"]
        /\ UNCHANGED <<object, job, driver, undefined>>
        /\ \/ UNCHANGED <<frame, stack, queue>>
           \/ /\ frame' = [frame EXCEPT ![o] = "suspended"]
              /\ queue' = Append(queue, Task("resume", o))
              /\ stack' = [stack EXCEPT ![t] = Tail(@)]
    BY <1>4, <2>4 DEF AwaitReady, Leave
  <2>6. Task("resume", o) \in Tasks /\ Task("resume", o) # Task("ctor", 1)
    BY DEF Task, Tasks
  <2>7. QueueInv'
    BY <1>a, <2>2, <2>5, <2>6, QueueKept
  <2>8. at'[o] = "resume" /\ \A p \in Ops : p # o => at'[p] = at[p]
    BY <1>b, <2>5 DEF Types
  <2>9. CASE UNCHANGED <<frame, stack, queue>>
    <3>1. Top' = Top /\ \A p \in 1..Top : p \in Ops
      BY <2>2, <2>9 DEF Top, Ops
    <3>2. \A p \in 1..Top : p < Top => at'[p] = "called"
      BY <1>a, <2>2, <2>8, <3>1 DEF CallInv
    <3>3. \A p \in 1..Top : at'[p] \in {"called", "resume"} => object[p + 1] = "alive"
      BY <1>a, <2>2, <2>3, <2>8, <3>1 DEF CallInv
    <3>4. QED
      BY <1>a, <2>5, <2>7, <2>9, <3>1, <3>2, <3>3 DEF CallInv
  <2>10. CASE /\ frame' = [frame EXCEPT ![o] = "suspended"]
              /\ stack' = [stack EXCEPT ![t] = Tail(@)]
    <3>1. stack'[Driver] = Tail(stack[Driver])
      BY <1>b, <2>2, <2>10 DEF Stacks
    <3>2. frame'[o] = "suspended" /\ \A p \in Ops : p # o => frame'[p] = frame[p]
      BY <1>b, <2>10 DEF Types
    <3>3. QED
      BY <1>a, <1>b, <2>2, <2>5, <2>7, <2>8, <3>1, <3>2, TopLeaves DEF Ops
  <2>11. QED
    BY <2>5, <2>9, <2>10
<1>5. ASSUME NEW t \in Threads, NEW o \in Ops, NEW r \in {"value", "error"},
              AwaitResume(t, o, r)
      PROVE  QueueInv' /\ CallInv'
  <2>1. Running(t, o) /\ at[o] = "resume"
    BY <1>5 DEF AwaitResume
  <2>2. /\ t = Driver /\ o = Top /\ Top >= 1 /\ driver = "hold" /\ stack[Driver] # <<>>
        /\ object[o] = "alive"
    BY <1>a, <2>1, TopRuns
  <2>3. object[o + 1] = "alive" /\ o + 1 \in Ops
    BY <1>a, <1>b, <2>1, <2>2 DEF CallInv, LifeInv, Ops
  <2>4. CanDestroy(o + 1)
    BY <1>a, <1>b, <2>2, <2>3, BeyondTop
  <2>5. /\ at' = [at EXCEPT ![o] = "end"]
        /\ frame' = [p \in Ops |-> IF p \in Owned(o + 1) THEN "freed"
                                   ELSE IF p = o THEN "final" ELSE frame[p]]
        /\ object' = [p \in Ops |-> IF p \in Owned(o + 1) THEN "dead" ELSE object[p]]
        /\ stack' = [stack EXCEPT ![t] = Tail(@)]
        /\ UNCHANGED <<queue, job, driver, undefined>>
    BY <1>5, <2>4 DEF AwaitResume, Leave, ObjectsDead
  <2>6. \A p \in Ops : p <= o => p \notin Owned(o + 1)
    BY DEF Owned, Ops
  <2>7. object'[1] = object[1]
    BY <1>b, <2>5, <2>6 DEF Ops
  <2>8. QueueInv'
    BY <1>a, <2>2, <2>5, <2>7, QueueKept
  <2>9. stack'[Driver] = Tail(stack[Driver])
    BY <1>b, <2>2, <2>5 DEF Stacks
  <2>10. /\ frame'[o] = "final"
         /\ \A p \in Ops : p > o /\ object'[p] = "alive" => frame'[p] = frame[p]
         /\ \A p \in Ops : p <= o => object'[p] = object[p]
         /\ \A p \in Ops : object'[p] = "alive" => object[p] = "alive"
         /\ \A p \in Ops : p # o => at'[p] = at[p]
    BY <1>b, <2>5, <2>6 DEF Types, Ops
  <2>11. QED
    BY <1>a, <1>b, <2>2, <2>8, <2>9, <2>10, TopLeaves DEF Ops
<1>6. ASSUME NEW t \in Threads, NEW o \in Ops, NEW r \in {"value", "error"},
              Return(t, o, r)
      PROVE  QueueInv' /\ CallInv'
  <2>1. /\ Running(t, o)
        /\ at' = [at EXCEPT ![o] = "end"]
        /\ frame' = [frame EXCEPT ![o] = "final"]
        /\ stack' = [stack EXCEPT ![t] = Tail(@)]
        /\ UNCHANGED <<object, queue, job, driver, undefined>>
    BY <1>6 DEF Return, Leave
  <2>2. t = Driver /\ o = Top /\ Top >= 1 /\ driver = "hold" /\ stack[Driver] # <<>>
    BY <1>a, <2>1, TopRuns
  <2>3. QueueInv'
    BY <1>a, <2>1, <2>2, QueueKept
  <2>4. stack'[Driver] = Tail(stack[Driver])
    BY <1>b, <2>1, <2>2 DEF Stacks
  <2>5. /\ frame'[o] = "final" /\ \A p \in Ops : p # o => frame'[p] = frame[p]
        /\ \A p \in Ops : p # o => at'[p] = at[p]
    BY <1>b, <2>1 DEF Types
  <2>6. QED
    BY <1>a, <1>b, <2>1, <2>2, <2>3, <2>4, <2>5, TopLeaves DEF Ops
<1>7. CASE Start
  <2>1. /\ driver = "start" /\ driver' = "hold"
        /\ frame' = [frame EXCEPT ![1] = "running"]
        /\ object' = [object EXCEPT ![1] = "alive"]
        /\ queue' = Append(queue, Task("ctor", 1))
        /\ stack' = [stack EXCEPT ![Driver] = <<1>> \o @]
        /\ UNCHANGED <<at, job, undefined>>
    BY <1>7 DEF Start, Call
  <2>2. object[1] = "none" /\ at[1] = "begin" /\ queue = <<>> /\ stack[Driver] = <<>>
    BY <1>a, <1>b, <2>1 DEF LifeInv, QueueInv
  <2>3. queue' = <<Task("ctor", 1)>> /\ stack'[Driver] = <<1>>
    BY <1>b, <2>1, <2>2 DEF Stacks
  <2>4. object'[1] = "alive" /\ \A p \in Ops : p # 1 =>
          object'[p] = object[p] /\ frame'[p] = frame[p]
    BY <1>b, <2>1 DEF Types
  <2>5. Len(queue') = 1 /\ queue'[1] = Task("ctor", 1)
    BY <2>3
  <2>6. QueueInv'
    BY <1>a, <2>1, <2>4, <2>5 DEF QueueInv
  <2>7. Top = 0 /\ Top' = 1 /\ stack'[Driver][1] = 1
    BY <2>2, <2>3 DEF Top
  <2>8. CallInv'
    BY <1>a, <1>b, <2>1, <2>2, <2>4, <2>7 DEF CallInv, Ops
  <2>9. QED
    BY <2>6, <2>8
<1>8. CASE Cancel
  BY <1>8, <1>a, <1>c, QueueKept DEF Cancel, Holding
<1>9. CASE GetFuture
  <2>1. driver = "hold" /\ stack[Driver] = <<>> /\ Top = 0
    BY <1>9 DEF GetFuture, Holding, Top
  <2>2. frame[1] # "freed"
    BY <1>a, <1>b, <2>1, BeyondTop DEF QueueInv
  <2>3. /\ driver' = "wait"
        /\ UNCHANGED <<frame, at, object, stack, queue, job, undefined>>
    BY <1>9, <2>2 DEF GetFuture
  <2>4. QED
    BY <1>a, <1>c, <2>1, <2>3 DEF QueueInv
<1>10. CASE GetReturns
  BY <1>10, <1>a, <1>c DEF GetReturns, QueueInv
<1>11. CASE Drop
  <2>1. stack[Driver] = <<>> /\ Top = 0 /\ driver \in {"hold", "got"}
    BY <1>11, <1>a DEF Drop, Holding, QueueInv, Top
  <2>2. object[1] = "alive"
    BY <1>a, <2>1 DEF QueueInv
  <2>3. CanDestroy(1)
    BY <1>a, <1>b, <2>1, <2>2, BeyondTop
  <2>4. /\ frame' = [p \in Ops |-> IF p \in Owned(1) THEN "freed" ELSE frame[p]]
        /\ object' = [p \in Ops |-> IF p \in Owned(1) THEN "dead" ELSE object[p]]
        /\ driver' = "gone"
        /\ UNCHANGED <<at, stack, queue, job, undefined>>
    BY <1>11, <2>3 DEF Drop, DestroyFrame, ObjectsDead
  <2>5. object'[1] = "dead"
    BY <1>b, <2>4 DEF Owned
  <2>6. QueueInv'
    BY <1>a, <2>1, <2>2, <2>4, <2>5 DEF QueueInv
  <2>7. Top' = 0
    BY <2>1, <2>4 DEF Top
  <2>8. \A p \in Ops : object'[p] # "alive"
    BY <2>4 DEF Owned, Ops
  <2>9. CallInv'
    BY <2>7, <2>8 DEF CallInv
  <2>10. QED
    BY <2>6, <2>9
<1>12. ASSUME NEW w \in Workers, Take(w)
       PROVE  QueueInv' /\ CallInv'
  <2>1. queue # <<>> /\ queue' = Tail(queue) /\ object' = object
    BY <1>12 DEF Take
  <2>2. object[1] # "none" /\ \A i \in 2..Len(queue) : queue[i] # Task("ctor", 1)
    BY <1>a, <2>1 DEF QueueInv
  <2>3. /\ Len(queue) \in Nat /\ Len(Tail(queue)) = Len(queue) - 1
        /\ \A i \in 1..(Len(queue) - 1) : Tail(queue)[i] = queue[i + 1]
    BY <1>b, <2>1, TailFacts DEF Types
  <2>4. \A i \in 1..(Len(queue) - 1) : Tail(queue)[i] # Task("ctor", 1)
    <3> TAKE i \in 1..(Len(queue) - 1)
    <3>1. i + 1 \in 2..Len(queue)
      BY <2>3
    <3>2. QED
      BY <2>2, <2>3, <3>1
  <2>5. FirstTaken'
    BY <2>1, <2>2, <2>3, <2>4 DEF FirstTaken, Waiting
  <2>6. QED
    BY <2>5
<1>13. ASSUME NEW w \in Workers, NEW o \in Ops, TaskStep(w, o)
       PROVE  QueueInv' /\ CallInv'
  <2>1. \E kind \in {"ctor", "destroy", "resume", "after"} : job[w] = Task(kind, o)
    BY <1>13 DEF TaskStep, CtorTask, CtorTaskDestroys, ResumeTask, ResumeTaskEnds
  <2>2. job[w] = NoJob
    BY <1>a DEF QueueInv
  <2>3. QED
    BY <2>1, <2>2 DEF NoJob, Task
<1>14. CASE UNCHANGED vars
  BY <1>14, <1>a, <1>c DEF vars, QueueInv
<1>15. QED
  BY <1>1, <1>2, <1>3, <1>4, <1>5, <1>6, <1>7, <1>8, <1>9, <1>10,
     <1>11, <1>12, <1>13, <1>14
  DEF Next, BodyStep

\* The callers' own steps are all defined: nothing undefined happens before a worker
\* has taken the first task, that of operation 1.
THEOREM AsyncUndefined == Spec => []UndefinedNeedsTask
<1>1. OpInv /\ CallersInv => UndefinedNeedsTask
  BY OpsAssumption DEF CallersInv, QueueInv, FirstTaken, UndefinedNeedsTask, Ops
<1>2. QED
  BY <1>1, OpInit, OpStep, CallersInit, CallersStep, PTL DEF Spec
=============================================================================
