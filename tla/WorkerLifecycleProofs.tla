----------------------- MODULE WorkerLifecycleProofs -----------------------
(***************************************************************************)
(* Proofs of the safety of WorkerLifecycle, for any number of workers,     *)
(* calls, deaths, outages and stops.                                       *)
(***************************************************************************)
EXTENDS WorkerLifecycle, TLAPS

(***************************************************************************)
(* The inductive invariant.  What a worker has created stays created, and  *)
(* what it has closed is told by its phase.                                *)
(***************************************************************************)
Progress(w) ==
  /\ phase[w] # "down" => \A i \in 1..built[w] : Startup[i] \in indexes
  /\ phase[w] \in {"serving", "draining", "closing"} => built[w] = Len(Startup)
  /\ phase[w] \in {"building", "serving", "draining"} => closed[w] = {}
  /\ phase[w] = "closing" => closed[w] = {"repository"}
  /\ phase[w] = "down" /\ ending[w] = "stopped" => closed[w] = Stores

(* A call is at a worker that may still use its stores.                    *)
Housed(c) ==
  /\ await[c] = "none" <=> worker[c] = NoWorker
  /\ worker[c] # NoWorker => phase[worker[c]] \in {"serving", "draining"}

(* The types of the processes and of the world they live in.               *)
ProcessTypes ==
  /\ phase \in [Workers -> {"down", "building", "serving", "draining", "closing"}]
  /\ built \in [Workers -> 0..5]
  /\ closed \in [Workers -> SUBSET Stores]
  /\ ending \in [Workers -> {"none", "startup_failed", "stopped",
                           "shutdown_failed", "killed"}]
  /\ worker \in [Calls -> Workers \cup {NoWorker}]
  /\ await \in [Calls -> Stores \cup {"none"}]
  /\ indexes \subseteq Indexes

WorldTypes ==
  /\ mongo \in {"up", "down"}
  /\ wanted \in {"running", "stopped"}
  /\ kills \in 0..MaxKills /\ outages \in 0..MaxOutages /\ stops \in 0..MaxStops

IInv ==
  /\ ProcessTypes
  /\ WorldTypes
  /\ \A w \in Workers : Progress(w)
  /\ \A c \in Calls : Housed(c)

-----------------------------------------------------------------------------
LEMMA FiveIndexes ==
  /\ Len(Startup) = 5
  /\ \A i \in 1..Len(Startup) : Startup[i] \in Indexes
  BY DEF Startup, Indexes

LEMMA TypesTogether == TypeOK <=> ProcessTypes /\ WorldTypes
  BY FiveIndexes DEF TypeOK, ProcessTypes, WorldTypes

LEMMA WorldKept ==
  ASSUME WorldTypes, UNCHANGED <<worldVars, kills>>
  PROVE  WorldTypes'
<1>1. UNCHANGED <<mongo, wanted, outages, stops, kills>>
  BY DEF worldVars
<1> QED
  BY <1>1 DEF WorldTypes

LEMMA InitIInv == Init => IInv
<1> SUFFICES ASSUME Init PROVE IInv
  OBVIOUS
<1> USE DEF Init
<1>1. ProcessTypes
  BY DEF ProcessTypes
<1>2. WorldTypes
  BY BoundsAssumption DEF WorldTypes
<1>3. ASSUME NEW w \in Workers PROVE Progress(w)
  BY DEF Progress
<1>4. ASSUME NEW c \in Calls PROVE Housed(c)
  BY DEF Housed
<1> QED
  BY <1>1, <1>2, <1>3, <1>4 DEF IInv

(* A step in the life of w that takes no call away.                        *)
LEMMA LifespanStep ==
  ASSUME IInv, NEW w \in Workers, ProcessTypes', Progress(w)',
         UNCHANGED <<worker, await, worldVars, kills>>,
         indexes \subseteq indexes',
         \A u \in Workers \ {w} :
           /\ phase'[u] = phase[u] /\ built'[u] = built[u]
           /\ closed'[u] = closed[u] /\ ending'[u] = ending[u],
         \/ phase[w] \notin {"serving", "draining"}
         \/ phase'[w] \in {"serving", "draining"}
         \/ Drained(w)
  PROVE  IInv'
<1>1. ASSUME NEW u \in Workers PROVE Progress(u)'
  <2>1. CASE u = w
    BY <2>1
  <2>2. CASE u # w
    BY <2>2 DEF IInv, Progress
  <2> QED
    BY <2>1, <2>2
<1>2. ASSUME NEW c \in Calls PROVE Housed(c)'
  <2>1. Housed(c) /\ worker[c] \in Workers \cup {NoWorker}
    BY DEF IInv, ProcessTypes
  <2>2. worker[c] = w => phase'[w] \in {"serving", "draining"}
    BY <2>1, NoWorkerAssumption DEF Housed, Drained
  <2> QED
    BY <2>1, <2>2 DEF Housed
<1>3. WorldTypes'
  BY WorldKept DEF IInv
<1> QED
  BY <1>1, <1>2, <1>3 DEF IInv

LEMMA StartSteps ==
  ASSUME IInv, NEW w \in Workers, StartProcess(w) \/ Serve(w)
  PROVE  IInv'
<1>1. ProcessTypes /\ Progress(w)
  BY DEF IInv
<1>2. CASE StartProcess(w)
  <2>1. /\ phase[w] = "down" /\ phase' = [phase EXCEPT ![w] = "building"]
        /\ built' = [built EXCEPT ![w] = 0]
        /\ closed' = [closed EXCEPT ![w] = {}]
        /\ UNCHANGED <<ending, worker, await, indexes, worldVars, kills>>
    BY <1>2 DEF StartProcess, Enter, callVars
  <2>2. ProcessTypes'
    BY <1>1, <2>1 DEF ProcessTypes
  <2>3. Progress(w)'
    BY <1>1, <2>1 DEF ProcessTypes, Progress
  <2> QED
    BY <1>1, <2>1, <2>2, <2>3, LifespanStep DEF ProcessTypes
<1>3. CASE Serve(w)
  <2>1. /\ phase[w] = "building" /\ phase' = [phase EXCEPT ![w] = "serving"]
        /\ built[w] = Len(Startup)
        /\ UNCHANGED <<built, closed, ending, worker, await, indexes, worldVars,
                       kills>>
    BY <1>3 DEF Serve, Enter, callVars
  <2>2. ProcessTypes'
    BY <1>1, <2>1 DEF ProcessTypes
  <2>3. Progress(w)'
    BY <1>1, <2>1 DEF ProcessTypes, Progress
  <2> QED
    BY <1>1, <2>1, <2>2, <2>3, LifespanStep DEF ProcessTypes
<1> QED
  BY <1>2, <1>3

LEMMA CreateIndexStep ==
  ASSUME IInv, NEW w \in Workers, CreateIndex(w)
  PROVE  IInv'
<1>1. /\ phase[w] = "building" /\ UNCHANGED <<phase, closed, ending, worker,
                                              await, worldVars, kills>>
      /\ ProcessTypes /\ Progress(w)
      /\ built[w] < Len(Startup)
      /\ built' = [built EXCEPT ![w] = @ + 1]
      /\ indexes' = indexes \cup {Startup[built[w] + 1]}
  BY DEF CreateIndex, IInv, callVars
<1>2. built[w] \in 0..4 /\ built'[w] = built[w] + 1
  BY <1>1, FiveIndexes DEF ProcessTypes
<1>3. Startup[built[w] + 1] \in Indexes
  BY <1>2, FiveIndexes
<1>4. ProcessTypes'
  <2>1. built' \in [Workers -> 0..5]
    BY <1>1, <1>2 DEF ProcessTypes
  <2> QED
    BY <1>1, <1>3, <2>1 DEF ProcessTypes
<1>5. Progress(w)'
  <2>1. \A i \in 1..built'[w] : i \in 1..built[w] \/ i = built[w] + 1
    BY <1>2
  <2>2. \A i \in 1..built'[w] : Startup[i] \in indexes'
    BY <1>1, <2>1 DEF Progress
  <2> QED
    BY <1>1, <2>2 DEF Progress
<1>6. \A u \in Workers \ {w} : built'[u] = built[u]
  BY <1>1 DEF ProcessTypes
<1> QED
  BY <1>1, <1>4, <1>5, <1>6, LifespanStep

(* The ends of a process by itself.                                        *)
LEMMA ExitSteps ==
  ASSUME IInv, NEW w \in Workers,
         StartupFails(w) \/ CloseRequestLog(w) \/ CloseRaises(w)
  PROVE  IInv'
<1>1. ProcessTypes /\ Progress(w)
  BY DEF IInv
<1>2. PICK how \in {"startup_failed", "stopped", "shutdown_failed"} :
        /\ phase' = [phase EXCEPT ![w] = "down"]
        /\ ending' = [ending EXCEPT ![w] = how]
        /\ closed' = IF how = "stopped"
                       THEN [closed EXCEPT ![w] = @ \cup {"request_log"}]
                       ELSE closed
        /\ how = "stopped" => phase[w] = "closing"
        /\ phase[w] \notin {"serving", "draining"} \/ Drained(w)
        /\ indexes \subseteq indexes'
        /\ UNCHANGED <<built, worker, await, worldVars, kills>>
  BY DEF StartupFails, CloseRequestLog, CloseRaises, Exit, Enter, callVars
<1>3. indexes' \subseteq Indexes
  <2>1. CASE StartupFails(w)
    <3>1. built[w] + 1 \in 1..Len(Startup)
      BY <1>1, <2>1, FiveIndexes DEF StartupFails, ProcessTypes
    <3> QED
      BY <1>1, <2>1, <3>1, FiveIndexes DEF StartupFails, ProcessTypes
  <2>2. CASE CloseRequestLog(w) \/ CloseRaises(w)
    BY <1>1, <2>2 DEF CloseRequestLog, CloseRaises, ProcessTypes
  <2> QED
    BY <2>1, <2>2
<1>4. ProcessTypes'
  <2>1. closed' \in [Workers -> SUBSET Stores]
    BY <1>1, <1>2 DEF ProcessTypes, Stores
  <2> QED
    BY <1>1, <1>2, <1>3, <2>1 DEF ProcessTypes
<1>5. Progress(w)'
  <2>1. how = "stopped" => closed'[w] = Stores
    BY <1>1, <1>2 DEF ProcessTypes, Progress, Stores
  <2> QED
    BY <1>1, <1>2, <2>1 DEF ProcessTypes, Progress
<1>6. \A u \in Workers \ {w} :
        /\ phase'[u] = phase[u] /\ built'[u] = built[u]
        /\ closed'[u] = closed[u] /\ ending'[u] = ending[u]
  BY <1>1, <1>2 DEF ProcessTypes
<1> QED
  BY <1>2, <1>4, <1>5, <1>6, LifespanStep

LEMMA CloseRepositoryStep ==
  ASSUME IInv, NEW w \in Workers, CloseRepository(w)
  PROVE  IInv'
<1>1. /\ phase[w] = "draining" /\ Drained(w)
      /\ phase' = [phase EXCEPT ![w] = "closing"]
      /\ closed' = [closed EXCEPT ![w] = @ \cup {"repository"}]
      /\ UNCHANGED <<built, ending, worker, await, indexes, worldVars, kills>>
      /\ ProcessTypes /\ Progress(w)
  BY DEF CloseRepository, Enter, callVars, IInv
<1>2. ProcessTypes'
  BY <1>1 DEF ProcessTypes, Stores
<1>3. Progress(w)'
  BY <1>1 DEF ProcessTypes, Progress
<1>4. \A u \in Workers \ {w} : phase'[u] = phase[u] /\ closed'[u] = closed[u]
  BY <1>1 DEF ProcessTypes
<1> QED
  BY <1>1, <1>2, <1>3, <1>4, LifespanStep

(* The steps of calls.                                                     *)
LEMMA CallStep ==
  ASSUME IInv, NEW c \in Calls,
         HandleCall(c) \/ \E w \in Workers : Accept(c, w)
  PROVE  IInv'
<1>1. /\ ProcessTypes /\ Housed(c)
      /\ UNCHANGED <<phase, built, closed, ending, indexes, worldVars, kills>>
  BY DEF IInv, HandleCall, Accept, Respond, Log
<1>2. PICK w \in Workers \cup {NoWorker}, store \in Stores \cup {"none"} :
        /\ worker' = [worker EXCEPT ![c] = w]
        /\ await' = [await EXCEPT ![c] = store]
        /\ store = "none" <=> w = NoWorker
        /\ w # NoWorker => phase[w] \in {"serving", "draining"}
  <2>1. CASE Respond(c)
    <3>1. worker[c] # NoWorker /\ worker[c] \in Workers
      BY <1>1, <2>1 DEF Respond, Housed, ProcessTypes
    <3>2. worker' = [worker EXCEPT ![c] = worker[c]]
      BY <1>1, <2>1 DEF Respond, ProcessTypes
    <3>3. await' = [await EXCEPT ![c] = "request_log"]
      BY <2>1 DEF Respond
    <3> QED
      BY <1>1, <3>1, <3>2, <3>3 DEF Housed, Stores
  <2>2. CASE Log(c)
    BY <2>2 DEF Log
  <2>3. CASE \E u \in Workers : Accept(c, u)
    <3>1. PICK u \in Workers : Accept(c, u)
      BY <2>3
    <3>2. u # NoWorker /\ "repository" \in Stores
      BY NoWorkerAssumption DEF Stores
    <3> QED
      BY <3>1, <3>2 DEF Accept
  <2> QED
    BY <2>1, <2>2, <2>3 DEF HandleCall
<1>3. ProcessTypes'
  BY <1>1, <1>2 DEF ProcessTypes
<1>4. WorldTypes'
  BY <1>1, WorldKept DEF IInv
<1>5. ASSUME NEW u \in Workers PROVE Progress(u)'
  BY <1>1 DEF IInv, Progress
<1>6. ASSUME NEW d \in Calls PROVE Housed(d)'
  BY <1>1, <1>2 DEF ProcessTypes, IInv, Housed
<1> QED
  BY <1>3, <1>4, <1>5, <1>6 DEF IInv

(* The steps of the world.                                                 *)
LEMMA StopStep ==
  ASSUME IInv, Stop
  PROVE  IInv'
<1>1. /\ ProcessTypes /\ WorldTypes
      /\ stops < MaxStops /\ stops' = stops + 1 /\ wanted' = "stopped"
      /\ UNCHANGED <<built, closed, worker, await, indexes, mongo, outages, kills>>
  BY DEF IInv, Stop, callVars
<1>2. \A u \in Workers :
        /\ phase'[u] = CASE phase[u] = "serving"  -> "draining"
                         [] phase[u] = "building" -> "down"
                         [] OTHER                 -> phase[u]
        /\ ending'[u] = IF phase[u] = "building" THEN "startup_failed" ELSE ending[u]
  BY DEF Stop
<1>3. /\ phase' \in [Workers -> {"down", "building", "serving", "draining",
                                 "closing"}]
      /\ ending' \in [Workers -> {"none", "startup_failed", "stopped",
                                "shutdown_failed", "killed"}]
  BY <1>1 DEF Stop, ProcessTypes
<1>4. ProcessTypes'
  BY <1>1, <1>3 DEF ProcessTypes
<1>5. WorldTypes'
  <2>1. stops' \in 0..MaxStops
    BY <1>1, BoundsAssumption DEF WorldTypes
  <2> QED
    BY <1>1, <2>1 DEF WorldTypes
<1>6. ASSUME NEW u \in Workers PROVE Progress(u)'
  BY <1>1, <1>2 DEF IInv, Progress
<1>7. ASSUME NEW d \in Calls PROVE Housed(d)'
  BY <1>1, <1>2 DEF IInv, Housed, ProcessTypes
<1> QED
  BY <1>4, <1>5, <1>6, <1>7 DEF IInv

LEMMA KillStep ==
  ASSUME IInv, NEW w \in Workers, Kill(w)
  PROVE  IInv'
<1>1. /\ ProcessTypes /\ WorldTypes
      /\ kills < MaxKills /\ kills' = kills + 1
      /\ phase' = [phase EXCEPT ![w] = "down"]
      /\ ending' = [ending EXCEPT ![w] = "killed"]
      /\ UNCHANGED <<built, closed, indexes, mongo, wanted, outages, stops>>
  BY DEF IInv, Kill, Exit, Enter, worldVars
<1>2. \A d \in Calls :
        /\ worker'[d] = IF worker[d] = w THEN NoWorker ELSE worker[d]
        /\ await'[d] = IF worker[d] = w THEN "none" ELSE await[d]
  BY DEF Kill
<1>3. /\ worker' \in [Calls -> Workers \cup {NoWorker}]
      /\ await' \in [Calls -> Stores \cup {"none"}]
  BY <1>1 DEF Kill, ProcessTypes
<1>4. ProcessTypes'
  BY <1>1, <1>3 DEF ProcessTypes
<1>5. WorldTypes'
  <2>1. kills' \in 0..MaxKills
    BY <1>1, BoundsAssumption DEF WorldTypes
  <2> QED
    BY <1>1, <2>1 DEF WorldTypes
<1>6. ASSUME NEW u \in Workers PROVE Progress(u)'
  BY <1>1 DEF IInv, Progress, ProcessTypes
<1>7. ASSUME NEW d \in Calls PROVE Housed(d)'
  BY <1>1, <1>2 DEF IInv, Housed, ProcessTypes
<1> QED
  BY <1>4, <1>5, <1>6, <1>7 DEF IInv

LEMMA WorldStep ==
  ASSUME IInv, MongoFails \/ MongoRecovers \/ Deploy \/ UNCHANGED vars
  PROVE  IInv'
<1>1. /\ ProcessTypes /\ WorldTypes
      /\ UNCHANGED <<phase, built, closed, ending, worker, await, indexes, stops,
                     kills>>
  BY DEF IInv, MongoFails, MongoRecovers, Deploy, vars, callVars, worldVars
<1>2. /\ mongo' \in {"up", "down"} /\ wanted' \in {"running", "stopped"}
      /\ \/ outages' = outages
         \/ outages < MaxOutages /\ outages' = outages + 1
  BY <1>1 DEF WorldTypes, MongoFails, MongoRecovers, Deploy, vars, worldVars
<1>3. outages' \in 0..MaxOutages
  BY <1>1, <1>2, BoundsAssumption DEF WorldTypes
<1>4. ProcessTypes' /\ WorldTypes'
  BY <1>1, <1>2, <1>3 DEF ProcessTypes, WorldTypes
<1>5. ASSUME NEW u \in Workers PROVE Progress(u)'
  BY <1>1 DEF IInv, Progress
<1>6. ASSUME NEW d \in Calls PROVE Housed(d)'
  BY <1>1 DEF IInv, Housed
<1> QED
  BY <1>4, <1>5, <1>6 DEF IInv

LEMMA NextIInv == IInv /\ [Next]_vars => IInv'
<1> SUFFICES ASSUME IInv, [Next]_vars PROVE IInv'
  OBVIOUS
<1>1. ASSUME NEW w \in Workers, Lifespan(w) PROVE IInv'
  BY <1>1, StartSteps, CreateIndexStep, ExitSteps, CloseRepositoryStep
  DEF Lifespan
<1> QED
  BY <1>1, CallStep, StopStep, KillStep, WorldStep DEF Next

LEMMA Invariance == Spec => []IInv
  BY InitIInv, NextIInv, PTL DEF Spec

-----------------------------------------------------------------------------
(* Every variable keeps its type and its bound.                            *)
THEOREM TypeCorrect == Spec => []TypeOK
<1>1. IInv => TypeOK
  BY TypesTogether DEF IInv
<1> QED
  BY <1>1, Invariance, PTL

(* No call meets a closed store: lifespan resumes after the last log entry *)
(* (swagger_service.py:66).                                                *)
THEOREM StoresAreOpen == Spec => []NoUseAfterClose
<1>1. IInv => NoUseAfterClose
  BY NoWorkerAssumption DEF IInv, ProcessTypes, Housed, Progress, NoUseAfterClose
<1> QED
  BY <1>1, Invariance, PTL

(* A worker that takes calls has its indexes (mongo_svc.py:19).            *)
THEOREM IndexesAreThere == Spec => []ServingIsIndexed
<1>1. IInv => ServingIsIndexed
  BY DEF IInv, Progress, ServingIsIndexed, Indexes
<1> QED
  BY <1>1, Invariance, PTL

(* service_stopped is said of closed stores only (swagger_service.py:68).  *)
THEOREM StopIsOrderly == Spec => []StoppedIsClosed
<1>1. IInv => StoppedIsClosed
  BY DEF IInv, Progress, StoppedIsClosed
<1> QED
  BY <1>1, Invariance, PTL

-----------------------------------------------------------------------------
(* What the operator wants decides which phases there are.                 *)
AsWanted(w) ==
  /\ wanted = "stopped" => phase[w] \notin {"building", "serving"}
  /\ wanted = "running" => phase[w] \notin {"draining", "closing"}

WantedInv == IInv /\ \A w \in Workers : AsWanted(w)

LEMMA WantedInvariance == Spec => []WantedInv
<1>1. Init => WantedInv
  BY InitIInv DEF Init, WantedInv, AsWanted
<1>2. WantedInv /\ [Next]_vars => WantedInv'
  <2> SUFFICES ASSUME WantedInv, [Next]_vars, NEW u \in Workers
               PROVE  AsWanted(u)'
    BY NextIInv DEF WantedInv
  <2>1. ProcessTypes /\ wanted \in {"stopped", "running"} /\ AsWanted(u)
    BY DEF WantedInv, IInv, WorldTypes
  <2>2. CASE Stop
    BY <2>1, <2>2 DEF Stop, ProcessTypes, AsWanted
  <2>3. CASE Deploy
    BY <2>3 DEF Deploy, AsWanted
  <2>4. ASSUME NEW w \in Workers, Lifespan(w) \/ Kill(w) PROVE AsWanted(u)'
    <3>1. AsWanted(w)
      BY DEF WantedInv
    <3> QED
      BY <2>1, <2>4, <3>1
      DEF Lifespan, StartProcess, CreateIndex, StartupFails, Serve,
          CloseRepository, CloseRequestLog, CloseRaises, Kill, Exit, Enter,
          worldVars, ProcessTypes, AsWanted
  <2>5. ASSUME \/ \E c \in Calls : HandleCall(c) \/ \E w \in Workers : Accept(c, w)
               \/ MongoFails \/ MongoRecovers
               \/ UNCHANGED vars
        PROVE  AsWanted(u)'
    BY <2>1, <2>5
    DEF HandleCall, Respond, Log, Accept, MongoFails, MongoRecovers, vars,
        worldVars, AsWanted
  <2> QED
    BY <2>2, <2>3, <2>4, <2>5 DEF Next
<1> QED
  BY <1>1, <1>2, PTL DEF Spec

(* While the service stops nothing begins, and what moves comes nearer to  *)
(* its end: it takes at most two steps of each process and each call.      *)
THEOREM StoppingAdvances == Spec => StoppingIsProgress
<1> DEFINE ProcessMoves(w) ==
             UNCHANGED phase[w] \/ WayDown(w)' < WayDown(w)
           CallMoves(c) ==
             UNCHANGED <<worker[c], await[c]>> \/ WayThrough(c)' < WayThrough(c)
           Advance ==
             wanted = "stopped" /\ wanted' = "stopped" =>
               /\ \A w \in Workers : ProcessMoves(w)
               /\ \A c \in Calls : CallMoves(c)
<1>1. WantedInv /\ [Next]_vars => [Advance]_vars
  <2> SUFFICES ASSUME WantedInv, Next, wanted = "stopped"
               PROVE  /\ \A w \in Workers : ProcessMoves(w)
                      /\ \A c \in Calls : CallMoves(c)
    OBVIOUS
  <2>1. ProcessTypes /\ \A w \in Workers : phase[w] \notin {"building", "serving"}
    BY DEF WantedInv, IInv, AsWanted
  <2>2. ASSUME NEW w \in Workers, Lifespan(w), NEW u \in Workers
        PROVE  ProcessMoves(u)
    BY <2>1, <2>2
    DEF Lifespan, StartProcess, CreateIndex, StartupFails, Serve,
        CloseRepository, CloseRequestLog, CloseRaises, Exit, Enter,
        ProcessTypes, WayDown
  <2>3. ASSUME NEW w \in Workers, Lifespan(w), NEW c \in Calls
        PROVE  CallMoves(c)
    BY <2>3
    DEF Lifespan, StartProcess, CreateIndex, StartupFails, Serve,
        CloseRepository, CloseRequestLog, CloseRaises, callVars
  <2>4. ASSUME NEW w \in Workers, Kill(w), NEW u \in Workers
        PROVE  ProcessMoves(u)
    BY <2>1, <2>4 DEF Kill, Exit, Enter, ProcessTypes, WayDown
  <2>5. ASSUME NEW w \in Workers, Kill(w), NEW c \in Calls
        PROVE  CallMoves(c)
    <3>1. Housed(c) /\ await[c] \in Stores \cup {"none"}
      BY <2>1 DEF WantedInv, IInv, ProcessTypes
    <3>2. CASE worker[c] = w
      <4>1. await[c] \in {"repository", "request_log"} /\ await'[c] = "none"
        BY <2>5, <3>1, <3>2, NoWorkerAssumption DEF Kill, Housed, Stores
      <4> QED
        BY <4>1 DEF WayThrough
    <3>3. CASE worker[c] # w
      BY <2>5, <3>3 DEF Kill
    <3> QED
      BY <3>2, <3>3
  <2>6. ASSUME NEW d \in Calls, HandleCall(d), NEW c \in Calls
        PROVE  CallMoves(c)
    BY <2>1, <2>6 DEF HandleCall, Respond, Log, ProcessTypes, WayThrough
  <2>7. ASSUME NEW d \in Calls, NEW w \in Workers PROVE ~Accept(d, w)
    BY <2>1 DEF Accept
  <2>8. ~Stop
    BY DEF Stop
  <2>9. ASSUME NEW c \in Calls, HandleCall(c), NEW u \in Workers
        PROVE  ProcessMoves(u)
    BY <2>9 DEF HandleCall, Respond, Log
  <2>10. CASE Deploy \/ MongoFails \/ MongoRecovers
    BY <2>10 DEF Deploy, MongoFails, MongoRecovers, callVars
  <2> HIDE DEF ProcessMoves, CallMoves
  <2> QED
    BY <2>2, <2>3, <2>4, <2>5, <2>6, <2>7, <2>8, <2>9, <2>10 DEF Next
<1> QED
  BY <1>1, WantedInvariance, PTL DEF Spec, StoppingIsProgress

(* With Mongo up, a process that is wanted and not killed gets to serving  *)
(* without a step back: in seven moves, its five indexes among them.       *)
THEOREM StartingAdvances == Spec => StartingIsProgress
<1> DEFINE Moves(w) == UNCHANGED <<phase[w], built[w]>> \/ WayUp(w)' < WayUp(w)
           Advance ==
             wanted = "running" /\ wanted' = "running" /\ mongo = "up"
             /\ kills' = kills => \A w \in Workers : Moves(w)
<1>1. WantedInv /\ [Next]_vars => [Advance]_vars
  <2> SUFFICES ASSUME WantedInv, Next, wanted = "running", wanted' = "running",
                      mongo = "up", kills' = kills, NEW u \in Workers
               PROVE  Moves(u)
    OBVIOUS
  <2>1. /\ ProcessTypes
        /\ \A w \in Workers : phase[w] \notin {"draining", "closing"}
    BY DEF WantedInv, IInv, AsWanted
  <2>2. kills \in Nat /\ Len(Startup) = 5
    BY BoundsAssumption, FiveIndexes DEF WantedInv, IInv, WorldTypes
  <2>3. built[u] \in 0..5 /\ (built' = built => built'[u] = built[u])
    BY <2>1 DEF ProcessTypes
  <2>4. ASSUME NEW w \in Workers, StartProcess(w) PROVE Moves(u)
    <3>1. CASE u = w
      <4>1. phase[u] = "down" /\ phase'[u] = "building" /\ built'[u] = 0
        BY <2>1, <2>4, <3>1 DEF StartProcess, Enter, ProcessTypes
      <4> QED
        BY <2>2, <4>1 DEF WayUp
    <3>2. CASE u # w
      BY <2>1, <2>4, <3>2 DEF StartProcess, Enter, ProcessTypes
    <3> QED
      BY <3>1, <3>2
  <2>5. ASSUME NEW w \in Workers, CreateIndex(w) PROVE Moves(u)
    <3>1. CASE u = w
      <4>1. /\ phase[u] = "building" /\ phase'[u] = "building"
            /\ built'[u] = built[u] + 1
        BY <2>1, <2>5, <3>1 DEF CreateIndex, ProcessTypes
      <4> QED
        BY <2>2, <2>3, <4>1 DEF WayUp
    <3>2. CASE u # w
      BY <2>1, <2>5, <3>2 DEF CreateIndex, ProcessTypes
    <3> QED
      BY <3>1, <3>2
  <2>6. ASSUME NEW w \in Workers, Serve(w) PROVE Moves(u)
    <3>1. CASE u = w
      <4>1. /\ phase[u] = "building" /\ phase'[u] = "serving"
            /\ built[u] = 5
        BY <2>1, <2>2, <2>6, <3>1 DEF Serve, Enter, ProcessTypes
      <4> QED
        BY <2>2, <2>3, <4>1 DEF WayUp
    <3>2. CASE u # w
      BY <2>1, <2>6, <3>2 DEF Serve, Enter, ProcessTypes
    <3> QED
      BY <3>1, <3>2
  <2>7. ASSUME NEW w \in Workers
        PROVE  /\ ~StartupFails(w) /\ ~CloseRepository(w)
               /\ ~CloseRequestLog(w) /\ ~CloseRaises(w) /\ ~Kill(w)
    BY <2>1, <2>2
    DEF StartupFails, CloseRepository, CloseRequestLog, CloseRaises, Kill
  <2>8. CASE \/ \E c \in Calls :
                  HandleCall(c) \/ \E w \in Workers : Accept(c, w)
             \/ MongoFails \/ MongoRecovers \/ Deploy
    BY <2>8
    DEF HandleCall, Respond, Log, Accept, MongoFails, MongoRecovers, Deploy
  <2>9. ~Stop
    BY DEF Stop
  <2> HIDE DEF Moves
  <2> QED
    BY <2>4, <2>5, <2>6, <2>7, <2>8, <2>9 DEF Next, Lifespan
<1> QED
  BY <1>1, WantedInvariance, PTL DEF Spec, StartingIsProgress
=============================================================================
