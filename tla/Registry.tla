------------------------------ MODULE Registry ------------------------------
(***************************************************************************)
(* The registry of the dynamic controller: the maps informers and handlers *)
(* of pkg/dynamiccontroller, the informers that run, and the two           *)
(* operations on them, StartServingGVK and StopServiceGVK.  The maps are   *)
(* sync.Maps, so each access to one is atomic, but an operation makes      *)
(* several accesses and those of different callers interleave.             *)
(*                                                                         *)
(* The modules that extend this one say who calls the operations, and what *)
(* the informers deliver.                                                  *)
(***************************************************************************)
EXTENDS Naturals, FiniteSets

CONSTANTS
    GVR,       \* the resources that can be served
    Caller,    \* the goroutines that call the two operations
    Handler,   \* the handlers they register
    NoHandler, \* the map handlers has no entry
    MaxCalls   \* bound: the informers that are started for one GVR

ASSUME RegistryAssumption ==
    /\ GVR # {}
    /\ IsFiniteSet(Caller)
    /\ NoHandler \notin Handler
    /\ MaxCalls \in Nat

VARIABLES
    informers, \* the map: GVR -> the number of an informer, 0 for no entry
    handlers,  \* the map: GVR -> handler
    started,   \* GVR -> how many informers were started for it
    live,      \* <<GVR, number>> of the informers that run
    synced,    \* those whose initial list was delivered: HasSynced
    call       \* the operation each caller is in

registryVars == <<informers, handlers, started, live, synced, call>>

Operations == {"none", "start", "update", "storeHandler", "runInformer",
               "waitForCacheSync", "storeInformer", "stop", "shutdown",
               "deleteInformer", "deleteHandler"}

\* A caller that is in no operation.
Idle == [at |-> "none", gvr |-> CHOOSE g \in GVR : TRUE,
         handler |-> NoHandler, informer |-> 0]

RegistryTypeOK ==
    /\ informers \in [GVR -> 0..MaxCalls]
    /\ handlers \in [GVR -> Handler \cup {NoHandler}]
    /\ started \in [GVR -> 0..MaxCalls]
    /\ live \subseteq {<<g, n>> : g \in GVR, n \in 1..MaxCalls}
    /\ synced \subseteq live
    /\ call \in [Caller -> [at : Operations, gvr : GVR,
                            handler : Handler \cup {NoHandler},
                            informer : 0..MaxCalls]]

RegistryInit ==
    /\ informers = [g \in GVR |-> 0]
    /\ handlers = [g \in GVR |-> NoHandler]
    /\ started = [g \in GVR |-> 0]
    /\ live = {}
    /\ synced = {}
    /\ call = [c \in Caller |-> Idle]

Resting(c) == call[c].at = "none"

\* Caller c goes on with its operation.
Continue(c, at) == call' = [call EXCEPT ![c].at = at]

\* The operation of caller c returns.
Done(c) == call' = [call EXCEPT ![c] = Idle]

-----------------------------------------------------------------------------
(***************************************************************************)
(* StartServingGVK.                                                        *)
(***************************************************************************)

\* Caller c may still start an informer for g.
Starting(c, g) ==
    /\ call[c].at \in {"start", "storeHandler", "runInformer"}
    /\ call[c].gvr = g

StartServingGVK(c, g, h) ==
    /\ Resting(c)
    /\ h \in Handler
    /\ \/ informers[g] # 0
       \/ started[g] + Cardinality({d \in Caller : Starting(d, g)}) < MaxCalls
    /\ call' = [call EXCEPT ![c] = [at |-> "start", gvr |-> g, handler |-> h,
                                    informer |-> 0]]
    /\ UNCHANGED <<informers, handlers, started, live, synced>>

\* Mutant: an informer is started whether or not there is one.
LoadNothing(c) ==
    /\ call[c].at = "start"
    /\ Continue(c, "storeHandler")
    /\ UNCHANGED <<informers, handlers, started, live, synced>>

\* informers.Load
LoadForStart(c) ==
    /\ call[c].at = "start"
    /\ Continue(c, IF informers[call[c].gvr] # 0 THEN "update"
                                                 ELSE "storeHandler")
    /\ UNCHANGED <<informers, handlers, started, live, synced>>

\* The informer is registered already: only the handler is replaced.
UpdateHandler(c) ==
    /\ call[c].at = "update"
    /\ handlers' = [handlers EXCEPT ![call[c].gvr] = call[c].handler]
    /\ Done(c)
    /\ UNCHANGED <<informers, started, live, synced>>

\* Mutant: the handler is stored with the informer, after the sync.
StoreHandlerLater(c) ==
    /\ call[c].at = "storeHandler"
    /\ Continue(c, "runInformer")
    /\ UNCHANGED <<informers, handlers, started, live, synced>>

\* handlers.Store, before the informer exists.
StoreHandler(c) ==
    /\ call[c].at = "storeHandler"
    /\ handlers' = [handlers EXCEPT ![call[c].gvr] = call[c].handler]
    /\ Continue(c, "runInformer")
    /\ UNCHANGED <<informers, started, live, synced>>

\* Mutant: the informer is created but not run.
NeverRunInformer(c) ==
    LET n == started[call[c].gvr] + 1 IN
    /\ call[c].at = "runInformer"
    /\ started' = [started EXCEPT ![call[c].gvr] = n]
    /\ call' = [call EXCEPT ![c] = [@ EXCEPT !.at = "waitForCacheSync",
                                             !.informer = n]]
    /\ UNCHANGED <<informers, handlers, live, synced>>

\* go informer.Run
RunInformer(c) ==
    LET g == call[c].gvr
        n == started[g] + 1 IN
    /\ call[c].at = "runInformer"
    /\ started' = [started EXCEPT ![g] = n]
    /\ live' = live \cup {<<g, n>>}
    /\ call' = [call EXCEPT ![c] = [@ EXCEPT !.at = "waitForCacheSync",
                                             !.informer = n]]
    /\ UNCHANGED <<informers, handlers, synced>>

\* WaitForCacheSync returns once the informer has synced.  It waits on a
\* context that only the registered informer can cancel, and this one is
\* not registered yet: there is no other way out.
WaitForCacheSync(c) ==
    /\ call[c].at = "waitForCacheSync"
    /\ <<call[c].gvr, call[c].informer>> \in synced
    /\ Continue(c, "storeInformer")
    /\ UNCHANGED <<informers, handlers, started, live, synced>>

\* informers.Store
StoreInformer(c) ==
    /\ call[c].at = "storeInformer"
    /\ informers' = [informers EXCEPT ![call[c].gvr] = call[c].informer]
    /\ Done(c)
    /\ UNCHANGED <<handlers, started, live, synced>>

-----------------------------------------------------------------------------
(***************************************************************************)
(* StopServiceGVK.                                                         *)
(***************************************************************************)

StopServiceGVK(c, g) ==
    /\ Resting(c)
    /\ call' = [call EXCEPT ![c] = [at |-> "stop", gvr |-> g,
                                    handler |-> NoHandler, informer |-> 0]]
    /\ UNCHANGED <<informers, handlers, started, live, synced>>

\* informers.Load finds nothing to unregister.
NotRegistered(c) ==
    /\ call[c].at = "stop"
    /\ informers[call[c].gvr] = 0
    /\ Done(c)
    /\ UNCHANGED <<informers, handlers, started, live, synced>>

\* informers.Load
LoadForStop(c) ==
    LET g == call[c].gvr IN
    /\ call[c].at = "stop"
    /\ informers[g] # 0
    /\ call' = [call EXCEPT ![c] = [@ EXCEPT !.at = "shutdown",
                                             !.informer = informers[g]]]
    /\ UNCHANGED <<informers, handlers, started, live, synced>>

\* Mutant: the informer is removed from the map but not cancelled.
ShutdownFactoryOnly(c) ==
    /\ call[c].at = "shutdown"
    /\ Continue(c, "deleteInformer")
    /\ UNCHANGED <<informers, handlers, started, live, synced>>

\* wrapper.shutdown() cancels the context of the informer.  Shutdown of the
\* factory has nothing to wait for: the factory did not start the informer.
Shutdown(c) ==
    LET i == <<call[c].gvr, call[c].informer>> IN
    /\ call[c].at = "shutdown"
    /\ live' = live \ {i}
    /\ synced' = synced \ {i}
    /\ Continue(c, "deleteInformer")
    /\ UNCHANGED <<informers, handlers, started>>

\* informers.Delete
DeleteInformer(c) ==
    /\ call[c].at = "deleteInformer"
    /\ informers' = [informers EXCEPT ![call[c].gvr] = 0]
    /\ Continue(c, "deleteHandler")
    /\ UNCHANGED <<handlers, started, live, synced>>

\* handlers.Delete.  Nothing is removed from the queue.
DeleteHandler(c) ==
    /\ call[c].at = "deleteHandler"
    /\ handlers' = [handlers EXCEPT ![call[c].gvr] = NoHandler]
    /\ Done(c)
    /\ UNCHANGED <<informers, started, live, synced>>

-----------------------------------------------------------------------------
\* The steps inside an operation.
OperationStep(c) ==
    \/ LoadForStart(c)
    \/ UpdateHandler(c)
    \/ StoreHandler(c)
    \/ RunInformer(c)
    \/ WaitForCacheSync(c)
    \/ StoreInformer(c)
    \/ NotRegistered(c)
    \/ LoadForStop(c)
    \/ Shutdown(c)
    \/ DeleteInformer(c)
    \/ DeleteHandler(c)

\* The list of an informer succeeded.
Sync(g, n) ==
    /\ <<g, n>> \in live \ synced
    /\ synced' = synced \cup {<<g, n>>}
    /\ UNCHANGED <<informers, handlers, started, live, call>>

\* When no operation is under way, the registry knows every informer that
\* runs, and a GVR has a handler exactly when it has an informer: none runs
\* on after it was stopped, none was forgotten (StartServingGVK and
\* StopServiceGVK, dynamic_controller.go:425-532).
RegistryConsistent ==
    (\A c \in Caller : Resting(c)) =>
        /\ live = {<<g, informers[g]>> : g \in {x \in GVR : informers[x] # 0}}
        /\ \A g \in GVR : informers[g] # 0 <=> handlers[g] # NoHandler

\* The informer that c started runs, and its first list has not succeeded.
AwaitsList(c) ==
    /\ call[c].at = "waitForCacheSync"
    /\ <<call[c].gvr, call[c].informer>> \in live \ synced

\* A call of StartServingGVK or StopServiceGVK comes to its end, or to the
\* first list of its own informer, for which it waits as long as it takes:
\* the "timeout" of the comment is none (dynamic_controller.go:474-475).
\* Once the list has succeeded it comes to its end.  No list is assumed to
\* succeed.
CallsReturn == \A c \in Caller : ~Resting(c) ~> (Resting(c) \/ AwaitsList(c))
=============================================================================
