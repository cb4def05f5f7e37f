------------------------- MODULE DynamicController -------------------------
(***************************************************************************)
(* The dynamic controller (pkg/dynamiccontroller): one work queue and its  *)
(* workers serve the instances of every registered GVR.  Informers turn    *)
(* changes of the instances into keys of the queue, workers hand the keys  *)
(* to the handler of their GVR, and the GVRs are registered and            *)
(* unregistered meanwhile (module Registry).                               *)
(*                                                                         *)
(* The queue of client-go is external and is modelled from its contract:   *)
(* a key is in the queue or being processed at most once, a key added      *)
(* while it is processed comes back when it is done, and a delayed key     *)
(* waits outside the queue.                                                *)
(***************************************************************************)
EXTENDS Registry, Sequences, SequencesExt

CONSTANTS
    Name,            \* the names of the instances of a GVR
    Worker,          \* the workers that Run spins up
    NoKey,           \* a worker processes no key
    QueueMaxRetries, \* Config.QueueMaxRetries
    Cancellable,     \* can the context of Run be cancelled?
    Relists,         \* can a watch be lost, and the informer list again?
    MaxGeneration,   \* bound: the generations of an instance
    MaxChanges       \* bound: the changes of the instances

Key == GVR \X Name

ASSUME ControllerAssumption ==
    /\ NoKey \notin Key
    /\ QueueMaxRetries \in Nat
    /\ Cancellable \in BOOLEAN
    /\ Relists \in BOOLEAN
    /\ MaxGeneration \in Nat \ {0}
    /\ MaxChanges \in Nat

VARIABLES
    \* The instances and the informers' view of them.
    object,   \* key -> its generation in the cluster, 0 when it is absent
    stream,   \* key -> the generations the informer has yet to deliver
    cache,    \* key -> the generation it delivered last
    owed,     \* history: the existing instances for which a reconciliation
              \* must start
    changes,
    \* The work queue.
    queue,    \* the keys in line
    dirty,    \* the keys to be processed, in line or not
    processing, \* the keys a worker took and has not called Done for
    waiting,  \* the keys to be added after a delay
    requeues, \* NumRequeues
    closed,   \* ShutDown was called
    \* Run and its workers.
    run,      \* "syncing", "running", "stopping" or "returned"
    worker,   \* what each worker does: "off", "get", "sync", "handle"
    key,      \* the key it processes
    served,   \* history: the GVRs that StopServiceGVK was never called for
    missed,   \* history: the GVRs a worker found no handler for
    hidden    \* history: the instances created anew between two lists

objectVars == <<object, stream, cache, changes>>
queueVars == <<queue, dirty, processing, waiting, requeues, closed>>
workerVars == <<worker, key>>
vars == <<registryVars, objectVars, owed, queueVars, run, workerVars, served,
          missed, hidden>>

DataOK ==
    /\ object \in [Key -> 0..MaxGeneration]
    /\ stream \in [Key -> Seq(0..MaxGeneration)]
    /\ cache \in [Key -> 0..MaxGeneration]
    /\ owed \subseteq Key
    /\ changes \in 0..MaxChanges
    /\ queue \in Seq(Key) /\ IsInjective(queue)
    /\ dirty \subseteq Key
    /\ processing \subseteq Key
    /\ waiting \subseteq Key
    /\ requeues \in [Key -> 0..QueueMaxRetries]
    /\ closed \in BOOLEAN
    /\ run \in {"syncing", "running", "stopping", "returned"}
    /\ worker \in [Worker -> {"off", "get", "sync", "handle"}]
    /\ key \in [Worker -> Key \cup {NoKey}]
    /\ served \subseteq GVR
    /\ missed \subseteq GVR
    /\ hidden \subseteq Key

\* The variables stay in their ranges; NumRequeues never passes
\* QueueMaxRetries (processNextWorkItem, dynamic_controller.go:276).
TypeOK == RegistryTypeOK /\ DataOK

Init ==
    /\ RegistryInit
    /\ object \in [Key -> {0, 1}]
    /\ stream = [k \in Key |-> <<>>]
    /\ cache = [k \in Key |-> 0]
    /\ owed = {k \in Key : object[k] # 0}
    /\ changes = 0
    /\ queue = <<>>
    /\ dirty = {}
    /\ processing = {}
    /\ waiting = {}
    /\ requeues = [k \in Key |-> 0]
    /\ closed = FALSE
    /\ run = "syncing"
    /\ worker = [w \in Worker |-> "off"]
    /\ key = [w \in Worker |-> NoKey]
    /\ served = GVR
    /\ missed = {}
    /\ hidden = {}

-----------------------------------------------------------------------------
(***************************************************************************)
(* The instances change in the cluster.  A change of the spec is a new     *)
(* generation; an instance that is created anew starts at 1 again.         *)
(***************************************************************************)

Watched(g) == \E i \in synced : i[1] = g

\* Key k is at generation n now: the informer will hear of it.
Change(k, n) ==
    /\ changes < MaxChanges
    /\ changes' = changes + 1
    /\ object' = [object EXCEPT ![k] = n]
    /\ stream' = IF Watched(k[1]) THEN [stream EXCEPT ![k] = Append(@, n)]
                                  ELSE stream
    /\ UNCHANGED <<registryVars, cache, queueVars, run, workerVars, served,
                   missed, hidden>>

Create(k) ==
    /\ object[k] = 0
    /\ Change(k, 1)
    /\ owed' = owed \cup {k}

EditSpec(k) ==
    /\ object[k] \in 1..(MaxGeneration - 1)
    /\ Change(k, object[k] + 1)
    /\ owed' = owed \cup {k}

\* A change of the status or of the metadata, and a resync, keep the
\* generation.
EditStatus(k) ==
    /\ object[k] # 0
    /\ Change(k, object[k])
    /\ UNCHANGED owed

Delete(k) ==
    /\ object[k] # 0
    /\ Change(k, 0)
    /\ owed' = owed \ {k}

-----------------------------------------------------------------------------
(***************************************************************************)
(* Informers.                                                              *)
(***************************************************************************)

\* queue.Add
Add(k) ==
    IF closed \/ k \in dirty
      THEN UNCHANGED <<queue, dirty>>
      ELSE /\ dirty' = dirty \cup {k}
           /\ queue' = IF k \in processing THEN queue ELSE Append(queue, k)

\* The initial list: every instance there is becomes an add event.
InitialList(g, n) ==
    /\ Sync(g, n)
    /\ stream' = [k \in Key |-> IF k[1] = g /\ object[k] # 0
                                  THEN Append(stream[k], object[k])
                                  ELSE stream[k]]
    /\ UNCHANGED <<object, cache, changes, owed, queueVars, run, workerVars,
                   served, missed, hidden>>

\* Mutant: keys that are being processed are not enqueued.
DeliverUnlessProcessing(k) ==
    /\ stream[k] # <<>>
    /\ IF Head(stream[k]) # cache[k] /\ k \notin processing
         THEN Add(k)
         ELSE UNCHANGED <<queue, dirty>>
    /\ cache' = [cache EXCEPT ![k] = Head(stream[k])]
    /\ stream' = [stream EXCEPT ![k] = Tail(@)]
    /\ UNCHANGED <<registryVars, object, changes, owed, processing, waiting,
                   requeues, closed, run, workerVars, served, missed,
                   hidden>>

\* The event handlers: an object that is new or gone, and an update of its
\* generation, is enqueued (enqueueObject); updateFunc skips the others.
Deliver(k) ==
    /\ stream[k] # <<>>
    /\ IF Head(stream[k]) # cache[k] THEN Add(k)
                                     ELSE UNCHANGED <<queue, dirty>>
    /\ cache' = [cache EXCEPT ![k] = Head(stream[k])]
    /\ stream' = [stream EXCEPT ![k] = Tail(@)]
    /\ UNCHANGED <<registryVars, object, changes, owed, processing, waiting,
                   requeues, closed, run, workerVars, served, missed,
                   hidden>>

\* The watch breaks and the informer lists again: what happened to k since
\* becomes one event.  If k is gone the event carries a tombstone, which
\* enqueueObject cannot cast and drops.  If k was deleted and created anew up
\* to the generation that is cached, updateFunc skips it.
Relist(k) ==
    /\ Relists
    /\ Watched(k[1])
    /\ stream[k] # <<>>
    /\ IF object[k] \notin {0, cache[k]} THEN Add(k)
                                         ELSE UNCHANGED <<queue, dirty>>
    /\ hidden' = IF object[k] = cache[k] /\ 0 \in ToSet(stream[k])
                   THEN hidden \cup {k} ELSE hidden
    /\ cache' = [cache EXCEPT ![k] = object[k]]
    /\ stream' = [stream EXCEPT ![k] = <<>>]
    /\ UNCHANGED <<registryVars, object, changes, owed, processing, waiting,
                   requeues, closed, run, workerVars, served, missed>>

\* The delay of a key is over.
DelayEnds(k) ==
    /\ k \in waiting
    /\ ~closed
    /\ waiting' = waiting \ {k}
    /\ Add(k)
    /\ UNCHANGED <<registryVars, objectVars, owed, processing, requeues,
                   closed, run, workerVars, served, missed, hidden>>

-----------------------------------------------------------------------------
(***************************************************************************)
(* Run.                                                                    *)
(***************************************************************************)

\* Whatever is registered fails the cast to a SharedIndexInformer.
AllInformerHaveSynced == \A g \in GVR : informers[g] = 0

\* WaitForInformersSync polls until all have synced; then the workers start.
WaitForInformersSync ==
    /\ run = "syncing"
    /\ AllInformerHaveSynced
    /\ run' = "running"
    /\ worker' = [w \in Worker |-> "get"]
    /\ UNCHANGED <<registryVars, objectVars, owed, queueVars, key, served,
                   missed, hidden>>

\* The context is cancelled while Run waits: it fails.
SyncCancelled ==
    /\ Cancellable
    /\ run = "syncing"
    /\ run' = "returned"
    /\ closed' = TRUE
    /\ UNCHANGED <<registryVars, objectVars, owed, queue, dirty, processing,
                   waiting, requeues, workerVars, served, missed,
                   hidden>>

\* The context is cancelled while the workers run.
RunCancelled ==
    /\ Cancellable
    /\ run = "running"
    /\ run' = "stopping"
    /\ UNCHANGED <<registryVars, objectVars, owed, queueVars, workerVars,
                   served, missed, hidden>>

\* Shutdown of the factories returns at once and stops no informer, nobody
\* waits for the workers, and Run shuts the queue down as it returns.
GracefulShutdown ==
    /\ run = "stopping"
    /\ run' = "returned"
    /\ closed' = TRUE
    /\ UNCHANGED <<registryVars, objectVars, owed, queue, dirty, processing,
                   waiting, requeues, workerVars, served, missed,
                   hidden>>

-----------------------------------------------------------------------------
(***************************************************************************)
(* The workers.                                                            *)
(***************************************************************************)

\* Mutant: queue.Done is called before the key is processed.
GetAndDone(w) ==
    /\ worker[w] = "get"
    /\ queue # <<>>
    /\ key' = [key EXCEPT ![w] = Head(queue)]
    /\ queue' = Tail(queue)
    /\ dirty' = dirty \ {Head(queue)}
    /\ worker' = [worker EXCEPT ![w] = "sync"]
    /\ UNCHANGED <<registryVars, objectVars, owed, processing, waiting,
                   requeues, closed, run, served, missed, hidden>>

\* queue.Get
Get(w) ==
    /\ worker[w] = "get"
    /\ queue # <<>>
    /\ key' = [key EXCEPT ![w] = Head(queue)]
    /\ queue' = Tail(queue)
    /\ dirty' = dirty \ {Head(queue)}
    /\ processing' = processing \cup {Head(queue)}
    /\ worker' = [worker EXCEPT ![w] = "sync"]
    /\ UNCHANGED <<registryVars, objectVars, owed, waiting, requeues, closed,
                   run, served, missed, hidden>>

\* queue.Get says that the queue is empty and shut down.
WorkerEnds(w) ==
    /\ worker[w] = "get"
    /\ queue = <<>>
    /\ closed
    /\ worker' = [worker EXCEPT ![w] = "off"]
    /\ UNCHANGED <<registryVars, objectVars, owed, queueVars, run, key,
                   served, missed, hidden>>

\* queue.Done(k), after the given keys were added while k was processed.
QueueDone(w, added) ==
    LET k == key[w] IN
    /\ dirty' = dirty \cup added
    /\ processing' = processing \ {k}
    /\ queue' = IF k \in dirty' THEN Append(queue, k) ELSE queue
    /\ worker' = [worker EXCEPT ![w] = "get"]
    /\ key' = [key EXCEPT ![w] = NoKey]

Forget(w) == requeues' = [requeues EXCEPT ![key[w]] = 0]

\* A reconciliation that is to be repeated is owed while k exists.
Owe(k) == owed' = IF object[k] = 0 THEN owed ELSE owed \cup {k}

\* err is nil, NotFound or requeue.NoRequeue.
Settled(w) ==
    /\ Forget(w)
    /\ QueueDone(w, {})
    /\ UNCHANGED <<waiting, owed>>

\* Mutant: the queue takes the key back although it is shut down.
RequeueNeededAlways(w) ==
    /\ QueueDone(w, {key[w]})
    /\ Owe(key[w])
    /\ UNCHANGED <<waiting, requeues>>

\* requeue.RequeueNeeded: at once, without rate limiting.
RequeueNeeded(w) ==
    /\ QueueDone(w, IF closed THEN {} ELSE {key[w]})
    /\ Owe(key[w])
    /\ UNCHANGED <<waiting, requeues>>

\* AddAfter, which AddRateLimited ends with too.
AddAfter(w) ==
    /\ waiting' = IF closed THEN waiting ELSE waiting \cup {key[w]}
    /\ Owe(key[w])
    /\ QueueDone(w, {})

\* requeue.RequeueNeededAfter: nothing is counted and nothing is forgotten.
RequeueNeededAfter(w) ==
    /\ AddAfter(w)
    /\ UNCHANGED requeues

\* Mutant: one retry too many.
RateLimitedOnceMore(w) ==
    IF requeues[key[w]] <= QueueMaxRetries
      THEN /\ AddAfter(w)
           /\ requeues' = [requeues EXCEPT ![key[w]] = @ + 1]
      ELSE Settled(w)

\* Any other error: again with rate limiting, or dropped.
RateLimited(w) ==
    IF requeues[key[w]] < QueueMaxRetries
      THEN /\ AddAfter(w)
           /\ requeues' = [requeues EXCEPT ![key[w]] = @ + 1]
      ELSE Settled(w)

\* syncFunc finds the handler of the GVR and calls it.
SyncFunc(w) ==
    /\ worker[w] = "sync"
    /\ handlers[key[w][1]] # NoHandler
    /\ owed' = owed \ {key[w]}
    /\ hidden' = hidden \ {key[w]}
    /\ worker' = [worker EXCEPT ![w] = "handle"]
    /\ UNCHANGED <<registryVars, objectVars, queueVars, run, key, served,
                   missed>>

\* syncFunc finds no handler: an error like any other.
NoHandlerFound(w) ==
    /\ worker[w] = "sync"
    /\ handlers[key[w][1]] = NoHandler
    /\ missed' = missed \cup {key[w][1]}
    /\ RateLimited(w)
    /\ UNCHANGED <<registryVars, objectVars, closed, run, served, hidden>>

\* The handler returns, and processNextWorkItem handles what it returned.
ProcessNextWorkItem(w) ==
    /\ worker[w] = "handle"
    /\ \/ Settled(w)
       \/ RequeueNeeded(w)
       \/ RequeueNeededAfter(w)
       \/ RateLimited(w)
    /\ UNCHANGED <<registryVars, objectVars, closed, run, served, missed,
                   hidden>>

-----------------------------------------------------------------------------
(***************************************************************************)
(* Registration.                                                           *)
(***************************************************************************)

Register(c, g, h) ==
    /\ StartServingGVK(c, g, h)
    /\ UNCHANGED <<objectVars, owed, queueVars, run, workerVars, served,
                   missed, hidden>>

Unregister(c, g) ==
    /\ StopServiceGVK(c, g)
    /\ served' = served \ {g}
    /\ UNCHANGED <<objectVars, owed, queueVars, run, workerVars, missed,
                   hidden>>

\* A step of an operation.  What an informer that stops had yet to deliver
\* is lost.
RegistryStep(c) ==
    /\ OperationStep(c)
    /\ LET kept == {k \in Key : \E i \in synced' : i[1] = k[1]} IN
       /\ stream' = [k \in Key |-> IF k \in kept THEN stream[k] ELSE <<>>]
       /\ cache' = [k \in Key |-> IF k \in kept THEN cache[k] ELSE 0]
    /\ UNCHANGED <<object, changes, owed, queueVars, run, workerVars, served,
                   missed, hidden>>

-----------------------------------------------------------------------------
ClusterNext == \E k \in Key : Create(k) \/ EditSpec(k) \/ EditStatus(k)
                              \/ Delete(k)

InformerNext ==
    \/ \E g \in GVR, n \in 1..MaxCalls : InitialList(g, n)
    \/ \E k \in Key : Deliver(k) \/ Relist(k) \/ DelayEnds(k)

RunNext == WaitForInformersSync \/ SyncCancelled \/ RunCancelled
           \/ GracefulShutdown

WorkerNext(w) == Get(w) \/ WorkerEnds(w) \/ SyncFunc(w) \/ NoHandlerFound(w)
                 \/ ProcessNextWorkItem(w)

CallerNext ==
    \E c \in Caller : \/ \E g \in GVR : \/ Unregister(c, g)
                                        \/ \E h \in Handler : Register(c, g, h)
                      \/ RegistryStep(c)

Next ==
    \/ ClusterNext
    \/ InformerNext
    \/ RunNext
    \/ CallerNext
    \/ \E w \in Worker : WorkerNext(w)

Spec == Init /\ [][Next]_vars

\* Goroutines that can take a step take it: the workers, the informers that
\* have listed, the timers of the queue, Run and the callers inside an
\* operation.  Nothing is assumed of who changes instances, of new calls, of
\* cancellation, or of the first list of an informer, which may never succeed.
Fairness ==
    /\ \A w \in Worker : WF_vars(WorkerNext(w))
    /\ \A k \in Key : WF_vars(Deliver(k)) /\ WF_vars(DelayEnds(k))
    /\ WF_vars(WaitForInformersSync \/ GracefulShutdown)
    /\ \A c \in Caller : WF_vars(RegistryStep(c))

FairSpec == Spec /\ Fairness

-----------------------------------------------------------------------------
(***************************************************************************)
(* Properties.                                                             *)
(***************************************************************************)

\* Two workers never process the same key, even when events for it arrive
\* and its delays end while it is processed: the handler of an instance does
\* not run twice at a time (processNextWorkItem, dynamic_controller.go:234).
OneReconcilePerKey ==
    \A v, w \in Worker : v # w /\ key[v] = key[w] => key[v] = NoKey

\* A worker meets "no handler found" only for a GVR that someone stops
\* serving: registration stores the handler before any event can reach the
\* queue (StartServingGVK, dynamic_controller.go:461; syncFunc, :304).
HandlerBeforeEvents == missed \cap served = {}

\* While the workers run and a GVR stays registered, every instance that was
\* created or edited, and every reconciliation that asked to be run again,
\* is followed by a reconciliation that starts later; whatever else happens
\* to the key meanwhile, lost watches included (enqueueObject,
\* processNextWorkItem).  The exception is an instance whose deletion and
\* re-creation fell between two lists (updateFunc compares generations only,
\* dynamic_controller.go:382).
EventsReconciled ==
    \A k \in Key :
        (k \in owed /\ run = "running" /\ informers[k[1]] # 0)
            ~> \/ k \notin owed
               \/ k \in hidden
               \/ run # "running"
               \/ informers[k[1]] = 0

\* Run does not wait for its workers, but they all end once it has returned:
\* what they still process is put back into no queue (gracefulShutdown,
\* dynamic_controller.go:324; processNextWorkItem, :234).
WorkersDrain == run = "returned" ~> \A w \in Worker : worker[w] = "off"
=============================================================================
