-------------------------- MODULE ControllerProofs --------------------------
(***************************************************************************)
(* Safety of the dynamic controller for every number of workers, GVRs,     *)
(* instances and retries: no two workers process one key, and no event     *)
(* comes before its handler, however the operations of the registry        *)
(* interleave; and while no two operations of one GVR are under way, the   *)
(* types and the agreement of the two maps with the informers that run.    *)
(***************************************************************************)
EXTENDS DynamicController, RegistryProofs

\* The keys in line are to be processed and nobody processes them.
LineIsDirty ==
    \A i \in 1..Len(queue) : queue[i] \in dirty /\ queue[i] \notin processing

\* A worker has a key while it processes one; the queue knows; and no other
\* worker has the same.
KeysAreTaken ==
    \A w \in Worker :
        /\ key[w] # NoKey <=> worker[w] \in {"sync", "handle"}
        /\ key[w] # NoKey => key[w] \in processing
        /\ \A v \in Worker : key[v] = key[w] => v = w \/ key[v] = NoKey

\* No worker has started before the informers have synced.
NobodyYet == run = "syncing" => \A w \in Worker : worker[w] = "off"

QueueInv == LineIsDirty /\ KeysAreTaken /\ NobodyYet

\* An event of instance k is on its way to a worker, or with one.
Carried(k) == stream[k] # <<>> \/ k \in dirty \cup processing \cup waiting

\* There are events of g, or there will be.
Pending(g) ==
    \/ \E i \in live : i[1] = g
    \/ \E c \in Caller : call[c].gvr = g /\ call[c].at = "runInformer"
    \/ \E k \in Key : k[1] = g /\ Carried(k)

\* While nobody has stopped serving g, no operation removes what is known of
\* it, and its handler is there before its events.
HandlerFirst(g) ==
    g \in served =>
        /\ \A c \in Caller : call[c].gvr = g =>
              call[c].at \notin {"stop", "shutdown", "deleteInformer",
                                "deleteHandler"}
        /\ Pending(g) => handlers[g] # NoHandler

HandlerInv ==
    /\ RegistryShape
    /\ \A g \in GVR : HandlerFirst(g)
    /\ missed \cap served = {}

-----------------------------------------------------------------------------
(***************************************************************************)
(* The work queue and the workers.                                         *)
(***************************************************************************)

\* Appending what is not in a sequence, and dropping its head, keep its
\* elements different.
LEMMA AppendDistinct ==
    ASSUME NEW S, NEW s \in Seq(S), IsInjective(s), NEW x \in S,
           \A i \in 1..Len(s) : s[i] # x
    PROVE  /\ Append(s, x) \in Seq(S)
           /\ Len(Append(s, x)) = Len(s) + 1
           /\ \A i \in 1..Len(s) : Append(s, x)[i] = s[i]
           /\ Append(s, x)[Len(s) + 1] = x
           /\ IsInjective(Append(s, x))
<1>1. /\ Append(s, x) \in Seq(S)
      /\ Len(Append(s, x)) = Len(s) + 1
      /\ \A i \in 1..Len(s) : Append(s, x)[i] = s[i]
      /\ Append(s, x)[Len(s) + 1] = x
  OBVIOUS
<1>2. /\ DOMAIN s = 1..Len(s) /\ Len(s) \in Nat
      /\ DOMAIN Append(s, x) = 1..(Len(s) + 1)
  BY <1>1
<1>3. ASSUME NEW i \in 1..(Len(s) + 1), NEW j \in 1..(Len(s) + 1),
             Append(s, x)[i] = Append(s, x)[j]
      PROVE  i = j
  <2>1. CASE i = Len(s) + 1 \/ j = Len(s) + 1
    BY <1>1, <1>2, <1>3, <2>1
  <2>2. CASE i \in 1..Len(s) /\ j \in 1..Len(s)
    BY <1>1, <1>2, <1>3, <2>2 DEF IsInjective
  <2> QED
    BY <1>2, <2>1, <2>2
<1> QED
  BY <1>1, <1>2, <1>3 DEF IsInjective

\* Taking the first key off the queue leaves the others distinct, and without it.
LEMMA TailDistinct ==
    ASSUME NEW S, NEW s \in Seq(S), IsInjective(s), s # <<>>
    PROVE  /\ Len(s) \in Nat \ {0} /\ Head(s) = s[1] /\ s[1] \in S
           /\ Tail(s) \in Seq(S)
           /\ Len(Tail(s)) = Len(s) - 1
           /\ \A i \in 1..(Len(s) - 1) : /\ Tail(s)[i] = s[i + 1]
                                        /\ s[i + 1] # s[1]
           /\ IsInjective(Tail(s))
<1>1. /\ Len(s) \in Nat \ {0} /\ Head(s) = s[1] /\ s[1] \in S
      /\ Tail(s) \in Seq(S)
      /\ Len(Tail(s)) = Len(s) - 1
      /\ \A i \in 1..(Len(s) - 1) : Tail(s)[i] = s[i + 1]
  OBVIOUS
<1>2. DOMAIN s = 1..Len(s) /\ DOMAIN Tail(s) = 1..(Len(s) - 1)
  BY <1>1
<1>3. \A i, j \in 1..Len(s) : s[i] = s[j] => i = j
  BY <1>2 DEF IsInjective
<1>4. \A i \in 1..(Len(s) - 1) : s[i + 1] # s[1]
  BY <1>1, <1>3
<1>5. \A i, j \in 1..(Len(s) - 1) : Tail(s)[i] = Tail(s)[j] => i = j
  BY <1>1, <1>3
<1> QED
  BY <1>1, <1>2, <1>4, <1>5 DEF IsInjective

\* queue.Add puts no key in line twice, and none that is processed.
LEMMA AddKeeps ==
    ASSUME DataOK, LineIsDirty, NEW k \in Key, Add(k), processing' = processing
    PROVE  /\ queue' \in Seq(Key) /\ IsInjective(queue')
           /\ dirty' \subseteq Key
           /\ LineIsDirty'
<1>1. CASE closed \/ k \in dirty \/ k \in processing
  <2>1. queue' = queue
    BY <1>1, Zenon DEF Add
  <2>2. dirty \subseteq dirty' /\ dirty' \subseteq dirty \cup {k}
    BY DEF Add
  <2>3. queue' \in Seq(Key) /\ IsInjective(queue')
    BY <2>1, Zenon DEF DataOK
  <2> QED
    BY <2>1, <2>2, <2>3 DEF DataOK, LineIsDirty
<1>2. CASE ~closed /\ k \notin dirty /\ k \notin processing
  <2>1. /\ queue \in Seq(Key) /\ IsInjective(queue)
        /\ \A i \in 1..Len(queue) : queue[i] # k
        /\ queue' = Append(queue, k) /\ dirty' = dirty \cup {k}
    BY <1>2 DEF DataOK, LineIsDirty, Add
  <2>2. /\ queue' \in Seq(Key) /\ IsInjective(queue')
        /\ Len(queue') = Len(queue) + 1
        /\ \A i \in 1..Len(queue) : queue'[i] = queue[i]
        /\ queue'[Len(queue) + 1] = k
    BY <2>1, AppendDistinct
  <2>3. LineIsDirty'
    <3> SUFFICES ASSUME NEW i \in 1..(Len(queue) + 1)
                 PROVE  queue'[i] \in dirty' /\ queue'[i] \notin processing
      BY <2>2 DEF LineIsDirty
    <3>1. CASE i = Len(queue) + 1
      BY <1>2, <2>1, <2>2, <3>1
    <3>2. CASE i \in 1..Len(queue)
      BY <2>1, <2>2, <3>2 DEF LineIsDirty
    <3> QED
      BY <2>1, <3>1, <3>2
  <2> QED
    BY <2>1, <2>2, <2>3 DEF DataOK
<1> QED
  BY <1>1, <1>2

\* queue.Done puts the key that was processed back in line if it is dirty.
LEMMA DoneKeeps ==
    ASSUME DataOK, QueueInv, NEW w \in Worker, worker[w] \in {"sync", "handle"},
           NEW added \in SUBSET {key[w]}, QueueDone(w, added), run' = run
    PROVE  /\ queue' \in Seq(Key) /\ IsInjective(queue')
           /\ dirty' \subseteq Key
           /\ processing' \subseteq Key
           /\ worker' \in [Worker -> {"off", "get", "sync", "handle"}]
           /\ key' \in [Worker -> Key \cup {NoKey}]
           /\ QueueInv'
<1>1. key[w] \in Key /\ key[w] \in processing /\ key[w] # NoKey
  BY DEF DataOK, QueueInv, KeysAreTaken
<1>2. /\ queue' \in Seq(Key) /\ IsInjective(queue')
      /\ dirty' \subseteq Key
      /\ LineIsDirty'
  <2>1. CASE key[w] \in dirty'
    <3>1. /\ queue \in Seq(Key) /\ IsInjective(queue)
          /\ \A i \in 1..Len(queue) : queue[i] # key[w]
          /\ queue' = Append(queue, key[w])
      BY <1>1, <2>1 DEF DataOK, QueueInv, LineIsDirty, QueueDone
    <3>2. /\ queue' \in Seq(Key) /\ IsInjective(queue')
          /\ Len(queue') = Len(queue) + 1
          /\ \A i \in 1..Len(queue) : queue'[i] = queue[i]
          /\ queue'[Len(queue) + 1] = key[w]
      BY <1>1, <3>1, AppendDistinct
    <3> QED
      BY <1>1, <2>1, <3>1, <3>2 DEF DataOK, QueueInv, LineIsDirty, QueueDone
  <2>2. CASE key[w] \notin dirty'
    BY <1>1, <2>2 DEF DataOK, QueueInv, LineIsDirty, QueueDone
  <2> QED
    BY <2>1, <2>2
<1>3. /\ processing' \subseteq Key
      /\ worker' \in [Worker -> {"off", "get", "sync", "handle"}]
      /\ key' \in [Worker -> Key \cup {NoKey}]
  BY DEF DataOK, QueueDone
<1>4. KeysAreTaken'
  BY <1>1 DEF DataOK, QueueInv, KeysAreTaken, QueueDone
<1>5. NobodyYet'
  BY DEF DataOK, QueueInv, NobodyYet, QueueDone
<1> QED
  BY <1>2, <1>3, <1>4, <1>5 DEF QueueInv

\* queue.Get hands out a key that nobody processes.
LEMMA GetKeeps ==
    ASSUME DataOK, QueueInv, NEW w \in Worker, Get(w)
    PROVE  DataOK' /\ QueueInv'
<1>1. /\ Head(queue) = queue[1] /\ queue[1] \in Key
      /\ queue[1] \in dirty /\ queue[1] \notin processing
      /\ queue[1] # NoKey
  BY ControllerAssumption DEF DataOK, QueueInv, LineIsDirty, Get
<1>2. /\ queue' \in Seq(Key) /\ IsInjective(queue')
      /\ LineIsDirty'
  <2>1. queue \in Seq(Key) /\ IsInjective(queue) /\ queue # <<>>
    BY DEF DataOK, Get
  <2>2. /\ queue' \in Seq(Key) /\ IsInjective(queue')
        /\ Len(queue) \in Nat \ {0} /\ Len(queue') = Len(queue) - 1
        /\ \A i \in 1..(Len(queue) - 1) : /\ queue'[i] = queue[i + 1]
                                         /\ queue[i + 1] # queue[1]
    BY <2>1, TailDistinct DEF Get
  <2> QED
    BY <1>1, <2>2 DEF QueueInv, LineIsDirty, Get
<1>3. KeysAreTaken'
  BY <1>1 DEF DataOK, QueueInv, KeysAreTaken, Get
<1>4. NobodyYet'
  BY DEF DataOK, QueueInv, NobodyYet, Get
<1>5. DataOK'
  BY <1>1, <1>2 DEF DataOK, Get, objectVars
<1> QED
  BY <1>2, <1>3, <1>4, <1>5 DEF QueueInv

\* What a worker does at the end keeps the counters and the delayed keys.
LEMMA OutcomeKeeps ==
    ASSUME DataOK, QueueInv, NEW w \in Worker, worker[w] \in {"sync", "handle"},
           \/ Settled(w)
           \/ RequeueNeeded(w)
           \/ RequeueNeededAfter(w)
           \/ RateLimited(w),
           UNCHANGED <<objectVars, closed, run, served>>,
           missed' \subseteq GVR, hidden' \subseteq Key
    PROVE  DataOK' /\ QueueInv'
<1>1. key[w] \in Key
  BY DEF DataOK, QueueInv, KeysAreTaken
<1>2. QueueDone(w, {}) \/ QueueDone(w, {key[w]})
  BY Zenon DEF Settled, RequeueNeeded, RequeueNeededAfter, RateLimited, AddAfter
<1>3. /\ queue' \in Seq(Key) /\ IsInjective(queue')
      /\ dirty' \subseteq Key
      /\ processing' \subseteq Key
      /\ worker' \in [Worker -> {"off", "get", "sync", "handle"}]
      /\ key' \in [Worker -> Key \cup {NoKey}]
      /\ QueueInv'
  <2>1. CASE QueueDone(w, {})
    BY <2>1, DoneKeeps
  <2>2. CASE QueueDone(w, {key[w]})
    BY <2>2, DoneKeeps
  <2> QED
    BY <1>2, <2>1, <2>2
<1>4. waiting' \subseteq Key /\ owed' \subseteq Key
  BY <1>1 DEF DataOK, Settled, RequeueNeeded, RequeueNeededAfter, RateLimited,
     AddAfter, Owe
<1>5. requeues' \in [Key -> 0..QueueMaxRetries]
  BY <1>1, ControllerAssumption DEF DataOK, Settled, RequeueNeeded,
     RequeueNeededAfter, RateLimited, Forget
<1>6. DataOK'
  BY <1>3, <1>4, <1>5 DEF DataOK, objectVars
<1> QED
  BY <1>3, <1>6

\* Every step of a worker keeps the queue in order.
LEMMA WorkerKeeps ==
    ASSUME DataOK, QueueInv, NEW w \in Worker, WorkerNext(w)
    PROVE  DataOK' /\ QueueInv'
<1>1. CASE Get(w)
  BY <1>1, GetKeeps
<1>2. CASE WorkerEnds(w)
  BY <1>2 DEF WorkerEnds, DataOK, QueueInv, LineIsDirty, KeysAreTaken,
     NobodyYet,
     objectVars, queueVars
<1>3. CASE SyncFunc(w)
  BY <1>3 DEF SyncFunc, DataOK, QueueInv, LineIsDirty, KeysAreTaken, NobodyYet,
     objectVars, queueVars
<1>4. CASE NoHandlerFound(w)
  <2>1. key[w] \in Key
    BY <1>4 DEF NoHandlerFound, DataOK, QueueInv, KeysAreTaken
  <2>2. missed' \subseteq GVR /\ hidden' \subseteq Key
    BY <1>4, <2>1 DEF NoHandlerFound, DataOK, Key
  <2> QED
    BY <1>4, <2>2, OutcomeKeeps DEF NoHandlerFound
<1>5. CASE ProcessNextWorkItem(w)
  <2>1. missed' \subseteq GVR /\ hidden' \subseteq Key
    BY <1>5 DEF ProcessNextWorkItem, DataOK
  <2> QED
    BY <1>5, <2>1, OutcomeKeeps DEF ProcessNextWorkItem
<1> QED
  BY <1>1, <1>2, <1>3, <1>4, <1>5 DEF WorkerNext

\* Changes of instances, and their way through the informers.
LEMMA InformerKeeps ==
    ASSUME DataOK, QueueInv, ClusterNext \/ InformerNext
    PROVE  DataOK' /\ QueueInv'
<1> USE ControllerAssumption
<1>1. ASSUME NEW k \in Key, NEW n \in 0..MaxGeneration, Change(k, n),
             owed' \subseteq Key
      PROVE  DataOK' /\ QueueInv'
  <2>1. Append(stream[k], n) \in Seq(0..MaxGeneration)
    BY DEF DataOK
  <2>2. stream' \in [Key -> Seq(0..MaxGeneration)]
    BY <1>1, <2>1 DEF Change, DataOK
  <2>3. UNCHANGED <<queueVars, run, workerVars>>
    BY <1>1 DEF Change
  <2>4. DataOK'
    BY <1>1, <2>2 DEF Change, DataOK, queueVars, workerVars
  <2> QED
    BY <2>3, <2>4 DEF QueueInv, LineIsDirty, KeysAreTaken, NobodyYet, queueVars,
       workerVars
<1>2. CASE ClusterNext
  <2> SUFFICES ASSUME NEW k \in Key,
                      Create(k) \/ EditSpec(k) \/ EditStatus(k) \/ Delete(k)
               PROVE  DataOK' /\ QueueInv'
    BY <1>2 DEF ClusterNext
  <2>1. owed' \subseteq Key
    BY DEF Create, EditSpec, EditStatus, Delete, DataOK
  <2>2. \E n \in 0..MaxGeneration : Change(k, n)
    BY DEF Create, EditSpec, EditStatus, Delete, DataOK
  <2> QED
    BY <1>1, <2>1, <2>2
<1>3. ASSUME NEW g \in GVR, NEW n \in 1..MaxCalls, InitialList(g, n)
      PROVE  DataOK' /\ QueueInv'
  <2>1. stream' \in [Key -> Seq(0..MaxGeneration)]
    <3>1. \A k \in Key : Append(stream[k], object[k]) \in Seq(0..MaxGeneration)
      BY DEF DataOK
    <3> QED
      BY <1>3, <3>1 DEF InitialList, DataOK
  <2> QED
    BY <1>3, <2>1 DEF InitialList, DataOK, queueVars, workerVars, QueueInv,
       LineIsDirty, KeysAreTaken, NobodyYet
<1>4. ASSUME NEW k \in Key, Deliver(k)
      PROVE  DataOK' /\ QueueInv'
  <2>1. /\ queue' \in Seq(Key) /\ IsInjective(queue')
        /\ dirty' \subseteq Key
        /\ LineIsDirty'
    BY <1>4, AddKeeps DEF Deliver, DataOK, QueueInv, LineIsDirty
  <2>2. /\ Head(stream[k]) \in 0..MaxGeneration
        /\ Tail(stream[k]) \in Seq(0..MaxGeneration)
    BY <1>4 DEF Deliver, DataOK
  <2> QED
    BY <1>4, <2>1, <2>2 DEF Deliver, DataOK, workerVars, QueueInv, KeysAreTaken,
       NobodyYet
<1>5. ASSUME NEW k \in Key, Relist(k)
      PROVE  DataOK' /\ QueueInv'
  <2>1. /\ queue' \in Seq(Key) /\ IsInjective(queue')
        /\ dirty' \subseteq Key
        /\ LineIsDirty'
    BY <1>5, AddKeeps DEF Relist, DataOK, QueueInv, LineIsDirty
  <2>2. hidden' \subseteq Key
    BY <1>5, Zenon DEF Relist, DataOK
  <2> QED
    BY <1>5, <2>1, <2>2 DEF Relist, DataOK, workerVars, QueueInv, KeysAreTaken,
       NobodyYet
<1>6. ASSUME NEW k \in Key, DelayEnds(k)
      PROVE  DataOK' /\ QueueInv'
  <2>1. /\ queue' \in Seq(Key) /\ IsInjective(queue')
        /\ dirty' \subseteq Key
        /\ LineIsDirty'
    BY <1>6, AddKeeps DEF DelayEnds, QueueInv
  <2> QED
    BY <1>6, <2>1 DEF DelayEnds, DataOK, objectVars, workerVars, QueueInv,
       KeysAreTaken, NobodyYet
<1> QED
  BY <1>2, <1>3, <1>4, <1>5, <1>6 DEF InformerNext

\* Run, and the operations of the registry.
LEMMA RunKeeps ==
    ASSUME DataOK, QueueInv, RunNext \/ CallerNext \/ UNCHANGED vars
    PROVE  DataOK' /\ QueueInv'
<1>1. CASE WaitForInformersSync
  BY <1>1 DEF WaitForInformersSync, DataOK, objectVars, queueVars, QueueInv,
     LineIsDirty, KeysAreTaken, NobodyYet
<1>2. CASE SyncCancelled \/ RunCancelled \/ GracefulShutdown
  BY <1>2 DEF SyncCancelled, RunCancelled, GracefulShutdown, DataOK, objectVars,
     queueVars, workerVars, QueueInv, LineIsDirty, KeysAreTaken, NobodyYet
<1>3. ASSUME NEW c \in Caller, NEW g \in GVR,
             Unregister(c, g) \/ \E h \in Handler : Register(c, g, h)
      PROVE  DataOK' /\ QueueInv'
  BY <1>3 DEF Unregister, Register, DataOK, objectVars, queueVars, workerVars,
     QueueInv, LineIsDirty, KeysAreTaken, NobodyYet
<1>4. ASSUME NEW c \in Caller, RegistryStep(c)
      PROVE  DataOK' /\ QueueInv'
  <2>1. <<>> \in Seq(0..MaxGeneration) /\ 0 \in 0..MaxGeneration
    BY ControllerAssumption
  <2>2. /\ stream' \in [Key -> Seq(0..MaxGeneration)]
        /\ cache' \in [Key -> 0..MaxGeneration]
    BY <1>4, <2>1 DEF RegistryStep, DataOK
  <2> QED
    BY <1>4, <2>2 DEF RegistryStep, DataOK, queueVars, workerVars, QueueInv,
       LineIsDirty, KeysAreTaken, NobodyYet
<1>5. CASE UNCHANGED vars
  BY <1>5 DEF vars, DataOK, objectVars, queueVars, workerVars, QueueInv,
     LineIsDirty, KeysAreTaken, NobodyYet
<1> QED
  BY <1>1, <1>2, <1>3, <1>4, <1>5 DEF RunNext, CallerNext

\* At the start the queue is empty and nobody works.
LEMMA InitQueue == Init => DataOK /\ QueueInv
<1> SUFFICES ASSUME Init PROVE DataOK /\ QueueInv
  OBVIOUS
<1>1. DataOK
  <2>1. queue \in Seq(Key) /\ IsInjective(queue)
    BY DEF Init, IsInjective
  <2>2. /\ object \in [Key -> 0..MaxGeneration]
        /\ stream \in [Key -> Seq(0..MaxGeneration)]
        /\ cache \in [Key -> 0..MaxGeneration]
        /\ requeues \in [Key -> 0..QueueMaxRetries]
        /\ changes \in 0..MaxChanges
    BY ControllerAssumption DEF Init
  <2> QED
    BY <2>1, <2>2 DEF Init, DataOK
<1>2. QueueInv
  BY ControllerAssumption DEF Init, QueueInv, LineIsDirty, KeysAreTaken,
     NobodyYet
<1> QED
  BY <1>1, <1>2

\* Every step keeps the queue in order: workers, informers, Run and its callers.
LEMMA QueueStep ==
    ASSUME DataOK, QueueInv, [Next]_vars
    PROVE  DataOK' /\ QueueInv'
<1>1. ASSUME NEW w \in Worker, WorkerNext(w)
      PROVE  DataOK' /\ QueueInv'
  BY <1>1, WorkerKeeps
<1> QED
  BY <1>1, InformerKeeps, RunKeeps DEF Next

\* At every moment: the keys in line are dirty and nobody processes them,
\* and what the workers process the queue knows.
THEOREM QueueInvHolds == Spec => [](DataOK /\ QueueInv)
<1> DEFINE Inv == DataOK /\ QueueInv
<1>1. Init => Inv
  BY InitQueue
<1>2. Inv /\ [Next]_vars => Inv'
  BY QueueStep
<1> QED
  BY <1>1, <1>2, PTL DEF Spec

\* However many workers there are, and whatever events, delays and requeues
\* add a key while it is processed, two workers never process one instance
\* (processNextWorkItem).
THEOREM KeysAreProcessedAlone == Spec => []OneReconcilePerKey
<1>1. QueueInv => OneReconcilePerKey
  BY DEF QueueInv, KeysAreTaken, OneReconcilePerKey
<1> QED
  BY <1>1, QueueInvHolds, PTL

-----------------------------------------------------------------------------
(***************************************************************************)
(* Handlers come before events.                                            *)
(***************************************************************************)

\* A step that leaves the registry alone and carries no event but those that
\* were carried, or those of a GVR that is watched, preserves the invariant.
LEMMA CarriedKeeps ==
    ASSUME HandlerInv, UNCHANGED registryVars, served' = served, missed' = missed,
           \A k \in Key : Carried(k)' => Carried(k) \/ Watched(k[1])
    PROVE  HandlerInv'
<1>1. RegistryShape'
  BY UnchangedShape DEF HandlerInv
<1>2. ASSUME NEW g \in GVR
      PROVE  HandlerFirst(g)'
  <2>1. \A k \in Key : Watched(k[1]) => \E i \in live : i[1] = k[1]
    BY DEF Watched, HandlerInv, RegistryShape
  <2>2. Pending(g)' => Pending(g)
    BY <2>1 DEF Pending, registryVars
  <2> QED
    BY <2>2 DEF HandlerInv, HandlerFirst, registryVars
<1> QED
  BY <1>1, <1>2 DEF HandlerInv

\* Workers and Run carry no new events, and find the handler of a GVR that
\* nobody has stopped serving.
LEMMA WorkerHandlers ==
    ASSUME DataOK, QueueInv, HandlerInv, NEW w \in Worker, WorkerNext(w)
    PROVE  HandlerInv'
<1>1. CASE Get(w)
  <2>1. Head(queue) \in dirty
    BY <1>1 DEF Get, DataOK, QueueInv, LineIsDirty
  <2> QED
    BY <1>1, <2>1, CarriedKeeps DEF Get, Carried, objectVars
<1>2. CASE WorkerEnds(w) \/ SyncFunc(w)
  BY <1>2, CarriedKeeps DEF WorkerEnds, SyncFunc, Carried, objectVars, queueVars
<1>3. ASSUME worker[w] \in {"sync", "handle"},
             Settled(w) \/ RequeueNeeded(w) \/ RequeueNeededAfter(w)
               \/ RateLimited(w),
             UNCHANGED objectVars
      PROVE  \A k \in Key : Carried(k)' => Carried(k)
  <2>1. key[w] \in processing
    BY <1>3 DEF QueueInv, KeysAreTaken
  <2> QED
    BY <1>3, <2>1 DEF Settled, RequeueNeeded, RequeueNeededAfter, RateLimited,
       AddAfter, QueueDone, Carried, objectVars
<1>4. CASE ProcessNextWorkItem(w)
  BY <1>3, <1>4, CarriedKeeps DEF ProcessNextWorkItem
<1>5. CASE NoHandlerFound(w)
  <2>1. key[w] \in Key /\ key[w] \in processing /\ key[w][1] \in GVR
    BY <1>5 DEF NoHandlerFound, DataOK, QueueInv, KeysAreTaken, Key
  <2>2. key[w][1] \notin served
    BY <1>5, <2>1 DEF NoHandlerFound, HandlerInv, HandlerFirst, Pending, Carried
  <2>3. \A k \in Key : Carried(k)' => Carried(k)
    BY <1>3, <1>5 DEF NoHandlerFound
  <2>4. RegistryShape' /\ \A g \in GVR : HandlerFirst(g)'
    <3>1. RegistryShape'
      BY <1>5, UnchangedShape DEF NoHandlerFound, HandlerInv
    <3>2. ASSUME NEW g \in GVR
          PROVE  HandlerFirst(g)'
      <4>1. Pending(g)' => Pending(g)
        BY <1>5, <2>3 DEF NoHandlerFound, Pending, registryVars
      <4> QED
        BY <1>5, <4>1 DEF NoHandlerFound, HandlerInv, HandlerFirst, registryVars
    <3> QED
      BY <3>1, <3>2
  <2> QED
    BY <1>5, <2>2, <2>4 DEF NoHandlerFound, HandlerInv
<1> QED
  BY <1>1, <1>2, <1>4, <1>5 DEF WorkerNext

\* Informers carry events of GVRs that are watched, whose informers live.
LEMMA InformerHandlers ==
    ASSUME DataOK, HandlerInv, ClusterNext \/ InformerNext
    PROVE  HandlerInv'
<1>1. ASSUME NEW k \in Key, NEW n, Change(k, n)
      PROVE  HandlerInv'
  BY <1>1, CarriedKeeps DEF Change, Carried, DataOK, queueVars
<1>2. CASE ClusterNext
  BY <1>1, <1>2 DEF ClusterNext, Create, EditSpec, EditStatus, Delete
<1>3. ASSUME NEW g \in GVR, NEW n \in 1..MaxCalls, InitialList(g, n)
      PROVE  HandlerInv'
  <2>1. RegistryShape'
    BY <1>3, SyncShape DEF InitialList, HandlerInv
  <2>2. ASSUME NEW x \in GVR
        PROVE  HandlerFirst(x)'
    <3>1. \E i \in live : i[1] = g
      <4>1. <<g, n>> \in live /\ <<g, n>>[1] = g
        BY <1>3 DEF InitialList, Sync
      <4> QED
        BY <4>1
    <3>2. \A k \in Key : Carried(k)' => Carried(k) \/ k[1] = g
      BY <1>3 DEF InitialList, Carried, queueVars
    <3>3. Pending(x)' => Pending(x)
      BY <1>3, <3>1, <3>2 DEF InitialList, Sync, Pending
    <3> QED
      BY <1>3, <3>3 DEF InitialList, Sync, HandlerInv, HandlerFirst
  <2> QED
    BY <1>3, <2>1, <2>2 DEF InitialList, HandlerInv
<1>4. ASSUME NEW k \in Key, Deliver(k)
      PROVE  HandlerInv'
  <2>1. \A x \in Key : Carried(x)' => Carried(x)
    BY <1>4 DEF Deliver, Add, Carried, DataOK
  <2> QED
    BY <1>4, <2>1, CarriedKeeps DEF Deliver
<1>5. ASSUME NEW k \in Key, Relist(k)
      PROVE  HandlerInv'
  <2>1. \A x \in Key : Carried(x)' => Carried(x)
    BY <1>5 DEF Relist, Add, Carried, DataOK
  <2> QED
    BY <1>5, <2>1, CarriedKeeps DEF Relist
<1>6. ASSUME NEW k \in Key, DelayEnds(k)
      PROVE  HandlerInv'
  <2>1. \A x \in Key : Carried(x)' => Carried(x)
    BY <1>6 DEF DelayEnds, Add, Carried, objectVars
  <2> QED
    BY <1>6, <2>1, CarriedKeeps DEF DelayEnds
<1> QED
  BY <1>2, <1>3, <1>4, <1>5, <1>6 DEF InformerNext

\* An operation stores the handler before its informer runs, and removes the
\* handler only of a GVR that someone stops serving.
LEMMA OperationHandlers ==
    ASSUME HandlerInv, NEW c \in Caller, RegistryStep(c)
    PROVE  HandlerInv'
<1>1. RegistryShape /\ OperationStep(c) /\ served' = served /\ missed' = missed
  BY DEF HandlerInv, RegistryStep
<1>2. RegistryShape'
  BY <1>1, OperationShape
<1>3. \A k \in Key : Carried(k)' => Carried(k)
  BY DEF RegistryStep, Carried, queueVars
<1>4. ASSUME NEW g \in GVR
      PROVE  HandlerFirst(g)'
  <2> SUFFICES ASSUME g \in served
               PROVE  /\ \A e \in Caller : call'[e].gvr = g =>
                            call'[e].at \notin {"stop", "shutdown",
                                               "deleteInformer", "deleteHandler"}
                      /\ Pending(g)' => handlers'[g] # NoHandler
    BY <1>1 DEF HandlerFirst
  <2>1. /\ \A e \in Caller : call[e].gvr = g =>
              call[e].at \notin {"stop", "shutdown", "deleteInformer",
                                "deleteHandler"}
        /\ Pending(g) => handlers[g] # NoHandler
    BY DEF HandlerInv, HandlerFirst
  <2>2. CASE LoadForStart(c)
    BY <1>1, <1>3, <2>1, <2>2 DEF LoadForStart, Continue, RegistryShape,
       BringsHandler, Pending
  <2>3. CASE UpdateHandler(c)
    BY <1>1, <1>3, <2>1, <2>3 DEF UpdateHandler, Done, Idle, RegistryShape,
       BringsHandler, Pending
  <2>4. CASE StoreHandler(c)
    BY <1>1, <1>3, <2>1, <2>4 DEF StoreHandler, Continue, RegistryShape,
       BringsHandler, Pending
  <2>5. CASE RunInformer(c)
    BY <1>1, <1>3, <2>1, <2>5 DEF RunInformer, RegistryShape, BringsHandler,
       Pending
  <2>6. CASE WaitForCacheSync(c)
    BY <1>1, <1>3, <2>1, <2>6 DEF WaitForCacheSync, Continue, RegistryShape,
       BringsHandler, Pending
  <2>7. CASE StoreInformer(c)
    BY <1>1, <1>3, <2>1, <2>7 DEF StoreInformer, Done, Idle, RegistryShape,
       BringsHandler, Pending
  <2>8. CASE NotRegistered(c)
    BY <1>1, <1>3, <2>1, <2>8 DEF NotRegistered, Done, Idle, RegistryShape,
       BringsHandler, Pending
  <2>9. CASE LoadForStop(c)
    BY <1>1, <1>3, <2>1, <2>9 DEF LoadForStop, RegistryShape, BringsHandler,
       Pending
  <2>10. CASE Shutdown(c)
    BY <1>1, <1>3, <2>1, <2>10 DEF Shutdown, Continue, RegistryShape,
       BringsHandler, Pending
  <2>11. CASE DeleteInformer(c)
    BY <1>1, <1>3, <2>1, <2>11 DEF DeleteInformer, Continue, RegistryShape,
       BringsHandler, Pending
  <2>12. CASE DeleteHandler(c)
    BY <1>1, <1>3, <2>1, <2>12 DEF DeleteHandler, Done, Idle, RegistryShape,
       BringsHandler, Pending
  <2> QED
    BY <1>1, <2>2, <2>3, <2>4, <2>5, <2>6, <2>7, <2>8, <2>9, <2>10, <2>11,
       <2>12
       DEF OperationStep
<1> QED
  BY <1>1, <1>2, <1>4 DEF HandlerInv

\* The steps of Run, Register and Unregister keep a handler ahead of the events
\* of its informer.
LEMMA CallerHandlers ==
    ASSUME HandlerInv, RunNext \/ CallerNext \/ UNCHANGED vars
    PROVE  HandlerInv'
<1>1. CASE RunNext \/ UNCHANGED vars
  BY <1>1, CarriedKeeps DEF RunNext, WaitForInformersSync, SyncCancelled,
     RunCancelled, GracefulShutdown, vars, Carried, objectVars, queueVars
<1>2. ASSUME NEW c \in Caller, NEW g \in GVR, NEW h \in Handler,
             Register(c, g, h)
      PROVE  HandlerInv'
  <2>1. RegistryShape'
    BY <1>2, CallShape DEF Register, HandlerInv
  <2>2. ASSUME NEW x \in GVR
        PROVE  HandlerFirst(x)'
    BY <1>2 DEF Register, StartServingGVK, HandlerInv, RegistryShape,
       HandlerFirst, Pending, Carried, objectVars, queueVars
  <2> QED
    BY <1>2, <2>1, <2>2 DEF Register, HandlerInv
<1>3. ASSUME NEW c \in Caller, NEW g \in GVR, Unregister(c, g)
      PROVE  HandlerInv'
  <2>1. RegistryShape'
    BY <1>3, CallShape DEF Unregister, HandlerInv
  <2>2. ASSUME NEW x \in GVR
        PROVE  HandlerFirst(x)'
    BY <1>3 DEF Unregister, StopServiceGVK, HandlerInv, RegistryShape,
       HandlerFirst, Pending, Carried, objectVars, queueVars
  <2> QED
    BY <1>3, <2>1, <2>2 DEF Unregister, HandlerInv
<1>4. ASSUME NEW c \in Caller, RegistryStep(c)
      PROVE  HandlerInv'
  BY <1>4, OperationHandlers
<1> QED
  BY <1>1, <1>2, <1>3, <1>4 DEF CallerNext

\* At the start there is no informer and no event.
LEMMA InitHandlers == Init => HandlerInv
<1> SUFFICES ASSUME Init PROVE HandlerInv
  OBVIOUS
<1>1. RegistryShape
  BY EmptyShape DEF Init
<1>2. \A g \in GVR : HandlerFirst(g)
  BY DEF Init, RegistryInit, Idle, HandlerFirst, Pending, Carried
<1> QED
  BY <1>1, <1>2 DEF Init, HandlerInv

\* However the calls of any number of callers interleave: a worker finds no
\* handler only for a GVR that someone stops serving (StartServingGVK and
\* syncFunc).
THEOREM HandlersComeFirst == Spec => []HandlerBeforeEvents
<1> DEFINE Inv == DataOK /\ QueueInv /\ HandlerInv
<1>1. Init => Inv
  BY InitQueue, InitHandlers
<1>2. Inv /\ [Next]_vars => Inv'
  <2>1. ASSUME Inv, [Next]_vars PROVE HandlerInv'
    <3>1. ASSUME NEW w \in Worker, WorkerNext(w)
          PROVE  HandlerInv'
      BY <2>1, <3>1, WorkerHandlers
    <3> QED
      BY <2>1, <3>1, InformerHandlers, CallerHandlers DEF Next
  <2> QED
    BY <2>1, QueueStep
<1>3. Inv => HandlerBeforeEvents
  BY DEF HandlerInv, HandlerBeforeEvents
<1> QED
  BY <1>1, <1>2, <1>3, PTL DEF Spec

-----------------------------------------------------------------------------
(***************************************************************************)
(* Callers of the registry that keep apart.                                *)
(***************************************************************************)

\* Every step keeps the bookkeeping of the registry while no two operations of
\* one GVR are under way before it or after it.
LEMMA ApartStep ==
    ASSUME Apart, Apart', RegistryInv, AgreedInv, [Next]_vars
    PROVE  RegistryInv' /\ AgreedInv'
<1>1. CASE UNCHANGED registryVars
  BY <1>1, UnchangedSafe, StandsAgrees DEF registryVars
<1>2. ASSUME NEW c \in Caller, NEW g \in GVR, NEW h \in Handler,
             Register(c, g, h)
      PROVE  RegistryInv' /\ AgreedInv'
  BY <1>2, StartSafe, StartAgrees DEF Register
<1>3. ASSUME NEW c \in Caller, NEW g \in GVR, Unregister(c, g)
      PROVE  RegistryInv' /\ AgreedInv'
  BY <1>3, StopSafe, StopAgrees DEF Unregister
<1>4. ASSUME NEW c \in Caller, RegistryStep(c)
      PROVE  RegistryInv' /\ AgreedInv'
  <2>1. OperationStep(c)
    BY <1>4 DEF RegistryStep
  <2>2. call[c].at = "deleteInformer" => Starters(call[c].gvr) = {}
    <3>1. ASSUME call[c].at = "deleteInformer",
                 NEW d \in Caller, d \in Starters(call[c].gvr)
          PROVE  FALSE
      <4>1. /\ ~Resting(c) /\ ~Resting(d) /\ call[d].gvr = call[c].gvr
            /\ call[d].at # "deleteInformer"
        BY <3>1 DEF Starters, Starting, Resting
      <4> QED
        BY <3>1, <4>1 DEF Apart
    <3> QED
      BY <3>1 DEF Starters
  <2>3. RegistryInv'
    BY <2>1, <2>2, OperationSafe
  <2> QED
    BY <2>1, <2>3, OperationAgrees DEF RegistryInv
<1>5. ASSUME NEW g, NEW n, InitialList(g, n)
      PROVE  RegistryInv' /\ AgreedInv'
  BY <1>5, SyncSafe, StandsAgrees DEF InitialList, Sync
<1>6. CASE ClusterNext
  BY <1>1, <1>6 DEF ClusterNext, Create, EditSpec, EditStatus, Delete, Change
<1>7. ASSUME NEW k \in Key, Deliver(k) \/ Relist(k) \/ DelayEnds(k)
      PROVE  RegistryInv' /\ AgreedInv'
  BY <1>1, <1>7 DEF Deliver, Relist, DelayEnds
<1>8. CASE RunNext
  BY <1>1, <1>8 DEF RunNext, WaitForInformersSync, SyncCancelled, RunCancelled,
     GracefulShutdown
<1>9. ASSUME NEW w \in Worker, WorkerNext(w)
      PROVE  RegistryInv' /\ AgreedInv'
  BY <1>1, <1>9 DEF WorkerNext, Get, WorkerEnds, SyncFunc, NoHandlerFound,
     ProcessNextWorkItem
<1>10. CASE UNCHANGED vars
  BY <1>1, <1>10 DEF vars
<1> QED
  BY <1>2, <1>3, <1>4, <1>5, <1>6, <1>7, <1>8, <1>9, <1>10
     DEF Next, InformerNext, CallerNext

\* While no two operations of one GVR are under way, the bookkeeping of informers
\* and calls holds and the two maps are in step with the operations, in every
\* reachable state (StartServingGVK, StopServiceGVK and Run of
\* dynamic_controller.go).
THEOREM RegistryHolds == Spec /\ []Apart => [](RegistryInv /\ AgreedInv)
<1> DEFINE Inv == RegistryInv /\ AgreedInv
<1>1. Init => Inv
  BY EmptySafe, EmptyAgrees DEF Init
<1>2. Inv /\ Apart /\ Apart' /\ [Next]_vars => Inv'
  BY ApartStep
<1> QED
  BY <1>1, <1>2, PTL DEF Spec

\* Every variable stays in its type: NumRequeues never passes QueueMaxRetries,
\* no key is in line twice, and no more than MaxCalls informers are started
\* for a GVR.
THEOREM ControllerTypeCorrect == Spec /\ []Apart => []TypeOK
<1>1. RegistryInv /\ DataOK => TypeOK
  BY DEF RegistryInv, TypeOK
<1> QED
  BY <1>1, RegistryHolds, QueueInvHolds, PTL

\* Whenever no operation is under way the registry knows every informer that
\* runs, and a GVR has a handler exactly when it has an informer, after any
\* StartServingGVK and StopServiceGVK of callers that keep apart.
THEOREM RegistryIsConsistent == Spec /\ []Apart => []RegistryConsistent
<1>1. RegistryInv /\ AgreedInv => RegistryConsistent
  BY AgreedIsConsistent DEF RegistryInv
<1> QED
  BY <1>1, RegistryHolds, PTL

\* One caller, as resource-group-concurrent-reconciles has it unless it is set,
\* keeps apart from itself: the registry is consistent without a condition on
\* the behaviour.
THEOREM OneCallerIsConsistent ==
    ASSUME \A c, d \in Caller : c = d
    PROVE  Spec => [](TypeOK /\ RegistryConsistent)
<1>1. Apart
  BY DEF Apart
<1> QED
  BY <1>1, ControllerTypeCorrect, RegistryIsConsistent, PTL
=============================================================================
