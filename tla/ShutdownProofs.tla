--------------------------- MODULE ShutdownProofs ---------------------------
(***************************************************************************)
(* The process does not end before the work it has waited for, for any     *)
(* number of dispatches and goroutines.                                    *)
(***************************************************************************)
EXTENDS Shutdown, FiniteSetTheorems, TLAPS

(* dispatches between tools.Working and the go statement *)
Counted == {h \in Handlers : handler[h] = "counted"}

(* The counter of the wait group is what runs and what is about to: it does *)
(* not pass zero while a worker started before the end of the wait is busy. *)
WaitInv ==
    /\ handler \in [Handlers -> HandlerPCs]
    /\ worker \in [Workers -> WorkerPCs]
    /\ IsFiniteSet(Running) /\ IsFiniteSet(Counted)
    /\ wg = Cardinality(Running) + Cardinality(Counted)
    /\ \A w \in early : w \in Workers /\ worker[w] # "off"
    /\ waiter \in {"shutdown", "over"} => early \cap Running = {}
    /\ ~ listening => waiter = "over"
    /\ exited => ~ listening

LEMMA WaitStarts == Init => WaitInv
  <1> SUFFICES ASSUME Init PROVE WaitInv
    OBVIOUS
  <1>1. Running = {} /\ Counted = {}
    BY DEF Init, Running, Counted
  <1> QED
    BY <1>1, FS_EmptySet DEF Init, WaitInv, HandlerPCs, WorkerPCs

(* what is left when neither a goroutine nor a dispatch moves *)
LEMMA RestKeepsWaiting ==
    ASSUME WaitInv, UNCHANGED <<wg, handler, worker, early>>,
           waiter' \in {"shutdown", "over"} => early \cap Running = {},
           ~ listening' => waiter' = "over",
           exited' => ~ listening'
    PROVE  WaitInv'
  <1>1. UNCHANGED <<Running, Counted>>
    BY DEF Running, Counted
  <1> QED
    BY <1>1 DEF WaitInv

LEMMA HandlersKeepWaiting ==
    ASSUME WaitInv, NEW h \in Handlers, Accept(h) \/ Count(h)
    PROVE  WaitInv'
  <1> USE DEF WaitInv
  <1>1. UNCHANGED Running /\ UNCHANGED <<worker, waiter, listening, exited, early>>
    BY DEF Accept, Count, Running
  <1>2. CASE Accept(h)
    <2>1. UNCHANGED <<wg, Counted>> /\ handler' \in [Handlers -> HandlerPCs]
      BY <1>2 DEF Accept, Counted, HandlerPCs
    <2> QED
      BY <1>1, <2>1
  <1>3. CASE Count(h)
    <2>1. /\ Counted' = Counted \cup {h} /\ h \notin Counted
          /\ wg' = wg + 1 /\ handler' \in [Handlers -> HandlerPCs]
      BY <1>3 DEF Count, Counted, Working, HandlerPCs
    <2>2. /\ IsFiniteSet(Counted') /\ Cardinality(Counted') = Cardinality(Counted) + 1
          /\ Cardinality(Counted) \in Nat /\ Cardinality(Running) \in Nat
      BY <2>1, FS_AddElement, FS_CardinalityType
    <2>3. wg' = Cardinality(Running') + Cardinality(Counted')
      BY <1>1, <2>1, <2>2
    <2> QED
      BY <1>1, <2>1, <2>2, <2>3
  <1> QED
    BY <1>2, <1>3

(* a worker starts: the dispatch that counted it counts no more *)
LEMMA GoKeepsWaiting ==
    ASSUME WaitInv, NEW h \in Handlers, NEW w \in Workers, Go(h, w)
    PROVE  WaitInv'
  <1> USE DEF WaitInv
  <1>1. /\ Counted' = Counted \ {h} /\ h \in Counted
        /\ handler' \in [Handlers -> HandlerPCs]
    BY DEF Go, Counted, HandlerPCs
  <1>2. /\ Running' = Running \cup {w} /\ w \notin Running /\ w \notin early
        /\ worker' \in [Workers -> WorkerPCs]
        /\ worker'[w] = "working" /\ \A v \in Workers : v # w => worker'[v] = worker[v]
    BY DEF Go, Running, WorkerPCs
  <1>3. /\ IsFiniteSet(Counted') /\ Cardinality(Counted') = Cardinality(Counted) - 1
        /\ IsFiniteSet(Running') /\ Cardinality(Running') = Cardinality(Running) + 1
        /\ Cardinality(Counted) \in Nat /\ Cardinality(Running) \in Nat
    BY <1>1, <1>2, FS_AddElement, FS_RemoveElement, FS_CardinalityType
  <1>4. wg' = Cardinality(Running') + Cardinality(Counted')
    BY <1>3 DEF Go
  <1>5. UNCHANGED <<waiter, listening, exited>>
    BY DEF Go
  <1>6. \A v \in early' : v \in Workers /\ worker'[v] # "off"
    BY <1>2 DEF Go
  <1>7. waiter' \in {"shutdown", "over"} => early' \cap Running' = {}
    BY <1>2, <1>5 DEF Go
  <1> QED
    BY <1>1, <1>2, <1>3, <1>4, <1>5, <1>6, <1>7

LEMMA ReturnKeepsWaiting ==
    ASSUME WaitInv, NEW w \in Workers, Return(w)
    PROVE  WaitInv'
  <1> USE DEF WaitInv
  <1>1. /\ Running' = Running \ {w} /\ w \in Running
        /\ worker' \in [Workers -> WorkerPCs] /\ worker'[w] = "over"
        /\ \A v \in Workers : v # w => worker'[v] = worker[v]
    BY DEF Return, Running, WorkerPCs
  <1>2. UNCHANGED <<handler, waiter, listening, exited, early>> /\ UNCHANGED Counted
    BY DEF Return, Counted
  <1>3. /\ IsFiniteSet(Running') /\ Cardinality(Running') = Cardinality(Running) - 1
        /\ Cardinality(Running) \in Nat /\ Cardinality(Counted) \in Nat
    BY <1>1, FS_RemoveElement, FS_CardinalityType
  <1>4. wg' = Cardinality(Running') + Cardinality(Counted')
    BY <1>2, <1>3 DEF Return, Done
  <1> QED
    BY <1>1, <1>2, <1>3, <1>4

(* Nothing runs when the wait ends. *)
LEMMA WaitEndsWork ==
    ASSUME WaitInv, wg = 0
    PROVE  Running = {}
  <1>1. Cardinality(Running) \in Nat /\ Cardinality(Counted) \in Nat
    BY FS_CardinalityType DEF WaitInv
  <1>2. Cardinality(Running) = 0
    BY <1>1 DEF WaitInv
  <1> QED
    BY <1>2, FS_EmptySet DEF WaitInv

LEMMA WaitInductive == Spec => []WaitInv
  <1>1. ASSUME WaitInv, [Next]_vars PROVE WaitInv'
    <2>1. CASE Signal
      BY <1>1, <2>1, RestKeepsWaiting DEF Signal, WaitInv
    <2>2. CASE StartWaiting
      BY <1>1, <2>2, RestKeepsWaiting DEF StartWaiting, WaitInv
    <2>3. CASE Wait
      BY <1>1, <2>3, RestKeepsWaiting, WaitEndsWork DEF Wait, MayEnd, WaitInv
    <2>4. CASE CloseListener
      BY <1>1, <2>4, RestKeepsWaiting DEF CloseListener, WaitInv
    <2>5. CASE Exit
      BY <1>1, <2>5, RestKeepsWaiting DEF Exit, WaitInv
    <2>6. CASE UNCHANGED vars
      BY <1>1, <2>6, RestKeepsWaiting DEF vars, WaitInv
    <2> QED
      BY <1>1, <2>1, <2>2, <2>3, <2>4, <2>5, <2>6,
         HandlersKeepWaiting, GoKeepsWaiting, ReturnKeepsWaiting DEF Next
  <1> QED
    BY <1>1, WaitStarts, PTL DEF Spec

(* The server ends only after the goroutines that were started before its   *)
(* wait was over: tools.Working is called before the go statement, so that  *)
(* between the two the counter already holds the worker.                    *)
THEOREM WorkWaitedForEnds == Spec => []EarlyWorkEnds
  <1>1. WaitInv => EarlyWorkEnds
    BY DEF WaitInv, EarlyWorkEnds
  <1> QED
    BY <1>1, WaitInductive, PTL
=============================================================================
