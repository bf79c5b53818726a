-------------------------- MODULE WorkerLifecycle --------------------------
(***************************************************************************)
(* The life of the worker processes over Mongo: the start-up and shutdown  *)
(* halves of lifespan (swagger_service.py), which open and close the two   *)
(* stores one after the other, with the calls that use them in between.    *)
(* What runs lifespan is outside of the source and modelled from how       *)
(* run_swagger_service.py, docker-compose.yml and lifespan rely on it:     *)
(* uvicorn serves once the start-up half is through, on a signal to stop   *)
(* takes no more calls, waits for the tasks of those it has, and resumes   *)
(* the shutdown half; a process that has died is started again.  What the  *)
(* calls do is in ClassifyService.  With the memory repository there is    *)
(* nothing to open or close, and nothing here can fail.                    *)
(***************************************************************************)
EXTENDS Integers, Sequences

CONSTANTS
  Workers,      \* worker processes (-w)
  Calls,        \* calls in flight at a time
  NoWorker,
  MaxKills,     \* bound on the violent deaths of processes
  MaxOutages,   \* bound on the outages of Mongo
  MaxStops      \* bound on the orderly stops of the service

ASSUME NoWorkerAssumption == NoWorker \notin Workers
ASSUME BoundsAssumption == MaxKills \in Nat /\ MaxOutages \in Nat /\ MaxStops \in Nat

VARIABLES
  phase,    \* phase[w]: where the process w is in its life
  built,    \* built[w]: how many indexes its start-up has seen created
  closed,   \* closed[w]: the stores it has closed
  ending,   \* ending[w]: how its last process ended
  worker,   \* worker[c]: the worker that handles the call c, or NoWorker
  await,    \* await[c]: the store its handler may be using, or "none"
  indexes,  \* the indexes there are in Mongo
  mongo,    \* "up" or "down"
  wanted,   \* the service should be "running" or "stopped"
  kills, outages, stops

callVars == <<worker, await>>
worldVars == <<mongo, wanted, outages, stops>>
vars == <<phase, built, closed, ending, callVars, indexes, worldVars, kills>>

Stores == {"repository", "request_log"}

(* What start-up creates, in this order: build_repository, then            *)
(* build_request_log, each with its init_indexes.                          *)
Startup == << <<"repository", "created_at">>,
              <<"repository", "request_id">>,
              <<"repository", "intent_created_at">>,
              <<"request_log", "created_at">>,
              <<"request_log", "request_id">> >>

Indexes == {Startup[i] : i \in 1..Len(Startup)}

Init ==
  /\ phase = [w \in Workers |-> "down"]
  /\ built = [w \in Workers |-> 0]
  /\ closed = [w \in Workers |-> {}]
  /\ ending = [w \in Workers |-> "none"]
  /\ worker = [c \in Calls |-> NoWorker]
  /\ await = [c \in Calls |-> "none"]
  /\ indexes = {}
  /\ mongo \in {"up", "down"}
  /\ wanted = "running"
  /\ kills = 0 /\ outages = 0 /\ stops = 0

Enter(w, next) == phase' = [phase EXCEPT ![w] = next]

Exit(w, how) == Enter(w, "down") /\ ending' = [ending EXCEPT ![w] = how]

-----------------------------------------------------------------------------
(* Start-up.                                                               *)
StartProcess(w) ==
  /\ phase[w] = "down"
  /\ wanted = "running"
  /\ Enter(w, "building")
  /\ built' = [built EXCEPT ![w] = 0]
  /\ closed' = [closed EXCEPT ![w] = {}]
  /\ UNCHANGED <<ending, callVars, indexes, worldVars, kills>>

(* Fault: an index that exists is an error, as in a CREATE INDEX of SQL.   *)
CreateIndex_onlyNew(w) ==
  /\ phase[w] = "building"
  /\ built[w] < Len(Startup)
  /\ mongo = "up"
  /\ Startup[built[w] + 1] \notin indexes
  /\ indexes' = indexes \cup {Startup[built[w] + 1]}
  /\ built' = [built EXCEPT ![w] = @ + 1]
  /\ UNCHANGED <<phase, closed, ending, callVars, worldVars, kills>>

(* create_index leaves an index that exists as it is.                      *)
CreateIndex(w) ==
  /\ phase[w] = "building"
  /\ built[w] < Len(Startup)
  /\ mongo = "up"
  /\ indexes' = indexes \cup {Startup[built[w] + 1]}
  /\ built' = [built EXCEPT ![w] = @ + 1]
  /\ UNCHANGED <<phase, closed, ending, callVars, worldVars, kills>>

(* Fault: the start-up goes on, again and again, without the indexes it    *)
(* could not create.                                                       *)
StartupFails_ignored(w) ==
  /\ phase[w] = "building"
  /\ mongo = "down"
  /\ built' = [built EXCEPT ![w] = @ + 1]
  /\ UNCHANGED <<phase, closed, ending, callVars, indexes, worldVars, kills>>

(* Fault: as CreateIndex_onlyNew, and the process gives up.                *)
StartupFails_onExisting(w) ==
  /\ phase[w] = "building"
  /\ built[w] < Len(Startup)
  /\ mongo = "down" \/ Startup[built[w] + 1] \in indexes
  /\ Exit(w, "startup_failed")
  /\ indexes' \in {indexes, indexes \cup {Startup[built[w] + 1]}}
  /\ UNCHANGED <<built, closed, callVars, worldVars, kills>>

(* No server within 3 s, or no reply: the index may be there or not.       *)
(* lifespan raises, and the process gives up before it serves.             *)
StartupFails(w) ==
  /\ phase[w] = "building"
  /\ built[w] < Len(Startup)
  /\ mongo = "down"
  /\ Exit(w, "startup_failed")
  /\ indexes' \in {indexes, indexes \cup {Startup[built[w] + 1]}}
  /\ UNCHANGED <<built, closed, callVars, worldVars, kills>>

(* lifespan yields: service_started.                                       *)
Serve(w) ==
  /\ phase[w] = "building"
  /\ built[w] = Len(Startup)
  /\ Enter(w, "serving")
  /\ UNCHANGED <<built, closed, ending, callVars, indexes, worldVars, kills>>

-----------------------------------------------------------------------------
(* Calls.  Their handlers use the repository until they have answered, and *)
(* the request log after that; neither waits for Mongo for ever.           *)

(* Fault: a worker that is stopping still takes calls.                     *)
Accept_untilClosed(c, w) ==
  /\ phase[w] \in {"serving", "draining"}
  /\ worker[c] = NoWorker
  /\ worker' = [worker EXCEPT ![c] = w]
  /\ await' = [await EXCEPT ![c] = "repository"]
  /\ UNCHANGED <<phase, built, closed, ending, indexes, worldVars, kills>>

Accept(c, w) ==
  /\ phase[w] = "serving"
  /\ worker[c] = NoWorker
  /\ worker' = [worker EXCEPT ![c] = w]
  /\ await' = [await EXCEPT ![c] = "repository"]
  /\ UNCHANGED <<phase, built, closed, ending, indexes, worldVars, kills>>

Respond(c) ==
  /\ await[c] = "repository"
  /\ await' = [await EXCEPT ![c] = "request_log"]
  /\ UNCHANGED <<phase, built, closed, ending, worker, indexes, worldVars, kills>>

(* The entry is written, or its failure swallowed.                         *)
Log(c) ==
  /\ await[c] = "request_log"
  /\ worker' = [worker EXCEPT ![c] = NoWorker]
  /\ await' = [await EXCEPT ![c] = "none"]
  /\ UNCHANGED <<phase, built, closed, ending, indexes, worldVars, kills>>

-----------------------------------------------------------------------------
(* Shutdown.                                                               *)

(* The operator stops the service.  A worker that serves begins to drain;  *)
(* one that is starting up ends without a shutdown half.                   *)
Stop ==
  /\ wanted = "running"
  /\ stops < MaxStops
  /\ stops' = stops + 1
  /\ wanted' = "stopped"
  /\ phase' = [w \in Workers |->
       CASE phase[w] = "serving"  -> "draining"
         [] phase[w] = "building" -> "down"
         [] OTHER                 -> phase[w]]
  /\ ending' = [w \in Workers |->
       IF phase[w] = "building" THEN "startup_failed" ELSE ending[w]]
  /\ UNCHANGED <<built, closed, callVars, indexes, mongo, outages, kills>>

(* Fault: the log entry is written by a task of its own, which no one      *)
(* waits for.                                                              *)
Drained_forgettingLog(w) == \A c \in Calls : worker[c] = w => await[c] = "request_log"

(* Every task of a call has ended, its log entry included: the middleware  *)
(* awaits that before it returns.                                          *)
Drained(w) == \A c \in Calls : worker[c] # w

(* repository.close()                                                      *)
CloseRepository(w) ==
  /\ phase[w] = "draining"
  /\ Drained(w)
  /\ Enter(w, "closing")
  /\ closed' = [closed EXCEPT ![w] = @ \cup {"repository"}]
  /\ UNCHANGED <<built, ending, callVars, indexes, worldVars, kills>>

(* request_log.close(), then service_stopped.                              *)
CloseRequestLog(w) ==
  /\ phase[w] = "closing"
  /\ Exit(w, "stopped")
  /\ closed' = [closed EXCEPT ![w] = @ \cup {"request_log"}]
  /\ UNCHANGED <<built, callVars, indexes, worldVars, kills>>

(* Fault: the process reports an orderly stop whatever close() did.        *)
CloseRaises_swallowed(w) ==
  /\ \/ phase[w] = "draining" /\ Drained(w)
     \/ phase[w] = "closing"
  /\ Exit(w, "stopped")
  /\ UNCHANGED <<built, closed, callVars, indexes, worldVars, kills>>

(* A close that raises ends lifespan there: service_stopped is not logged, *)
(* and if it was the first the second store is not closed.                 *)
CloseRaises(w) ==
  /\ \/ phase[w] = "draining" /\ Drained(w)
     \/ phase[w] = "closing"
  /\ Exit(w, "shutdown_failed")
  /\ UNCHANGED <<built, closed, callVars, indexes, worldVars, kills>>

-----------------------------------------------------------------------------
(* The world around.                                                       *)
Kill(w) ==
  /\ phase[w] # "down"
  /\ kills < MaxKills
  /\ kills' = kills + 1
  /\ Exit(w, "killed")
  /\ worker' = [c \in Calls |-> IF worker[c] = w THEN NoWorker ELSE worker[c]]
  /\ await' = [c \in Calls |-> IF worker[c] = w THEN "none" ELSE await[c]]
  /\ UNCHANGED <<built, closed, indexes, worldVars>>

MongoFails ==
  /\ mongo = "up"
  /\ outages < MaxOutages
  /\ outages' = outages + 1
  /\ mongo' = "down"
  /\ UNCHANGED <<phase, built, closed, ending, callVars, indexes, wanted, stops, kills>>

MongoRecovers ==
  /\ mongo = "down"
  /\ mongo' = "up"
  /\ UNCHANGED <<phase, built, closed, ending, callVars, indexes, wanted, outages,
                 stops, kills>>

(* The operator starts the service again, once it has stopped.             *)
Deploy ==
  /\ wanted = "stopped"
  /\ \A w \in Workers : phase[w] = "down"
  /\ wanted' = "running"
  /\ UNCHANGED <<phase, built, closed, ending, callVars, indexes, mongo, outages,
                 stops, kills>>

(* What lifespan does in the process w, and what runs it.                  *)
Lifespan(w) ==
  \/ StartProcess(w)
  \/ CreateIndex(w)
  \/ StartupFails(w)
  \/ Serve(w)
  \/ CloseRepository(w)
  \/ CloseRequestLog(w)
  \/ CloseRaises(w)

HandleCall(c) == Respond(c) \/ Log(c)

Next ==
  \/ \E w \in Workers : Lifespan(w) \/ Kill(w)
  \/ \E c \in Calls : HandleCall(c) \/ \E w \in Workers : Accept(c, w)
  \/ Stop \/ Deploy \/ MongoFails \/ MongoRecovers

Spec == Init /\ [][Next]_vars

(***************************************************************************)
(* Calls end (ClassifyService's EveryCallEnds), the driver ends every      *)
(* operation with a reply or an error, and a process that is wanted is     *)
(* started.  Nobody has to kill, stop or deploy, and Mongo need not        *)
(* recover.                                                                *)
(***************************************************************************)
FairSpec ==
  /\ Spec
  /\ \A w \in Workers : WF_vars(Lifespan(w))
  /\ \A c \in Calls : WF_vars(HandleCall(c))

-----------------------------------------------------------------------------
TypeOK ==
  /\ phase \in [Workers -> {"down", "building", "serving", "draining", "closing"}]
  /\ built \in [Workers -> 0..Len(Startup)]
  /\ closed \in [Workers -> SUBSET Stores]
  /\ ending \in [Workers -> {"none", "startup_failed", "stopped",
                           "shutdown_failed", "killed"}]
  /\ worker \in [Calls -> Workers \cup {NoWorker}]
  /\ await \in [Calls -> Stores \cup {"none"}]
  /\ indexes \subseteq Indexes
  /\ mongo \in {"up", "down"}
  /\ wanted \in {"running", "stopped"}
  /\ kills \in 0..MaxKills /\ outages \in 0..MaxOutages /\ stops \in 0..MaxStops

(* swagger_service.py:35-66: a call is handled by a process that lives and *)
(* has both of its stores open, from its arrival until its log entry is    *)
(* written, however the process is stopped meanwhile.                      *)
NoUseAfterClose ==
  \A c \in Calls : worker[c] # NoWorker =>
    /\ phase[worker[c]] \in {"serving", "draining"}
    /\ closed[worker[c]] = {}

(* mongo_svc.py:20: whatever start-ups failed or were killed half-way      *)
(* before, a worker takes calls only with all five indexes in place.       *)
ServingIsIndexed ==
  \A w \in Workers : phase[w] \in {"serving", "draining"} => Indexes \subseteq indexes

(* swagger_service.py:66-68: a process that reports service_stopped has    *)
(* closed both stores, the second one included.                            *)
StoppedIsClosed ==
  \A w \in Workers : ending[w] = "stopped" /\ phase[w] = "down" => closed[w] = Stores

(* A process told to stop does so, however slow its calls are.             *)
StopEnds == wanted = "stopped" ~> \A w \in Workers : phase[w] = "down"

(* Once Mongo stays up, a service that is wanted serves, on every worker   *)
(* and for good: no earlier failure of a start-up gets in its way.         *)
EventuallyServes ==
  <>[](mongo = "up" /\ wanted = "running") => <>[](\A w \in Workers : phase[w] = "serving")

(* What StopEnds owes to safety: while the service stops, no process and   *)
(* no call begins (swagger_service.py:66: the shutdown half is the last of *)
(* a process), and one that moves comes nearer to its end.                 *)
WayDown(w) ==
  CASE phase[w] = "draining" -> 2
    [] phase[w] = "closing"  -> 1
    [] phase[w] = "down"     -> 0
    [] OTHER                 -> 3

WayThrough(c) ==
  CASE await[c] = "repository"  -> 2
    [] await[c] = "request_log" -> 1
    [] OTHER                    -> 0

StoppingIsProgress ==
  [][wanted = "stopped" /\ wanted' = "stopped" =>
       /\ \A w \in Workers : UNCHANGED phase[w] \/ WayDown(w)' < WayDown(w)
       /\ \A c \in Calls :
            UNCHANGED <<worker[c], await[c]>> \/ WayThrough(c)' < WayThrough(c)]_vars

(* What EventuallyServes owes to safety: while the service is wanted and   *)
(* Mongo is up, a process that nobody kills comes nearer to serving with   *)
(* every move, the indexes it finds there (mongo_svc.py:20) and those that *)
(* others create at the same time included.                                *)
WayUp(w) ==
  CASE phase[w] = "serving"  -> 0
    [] phase[w] = "building" -> Len(Startup) - built[w] + 1
    [] OTHER                 -> Len(Startup) + 2

StartingIsProgress ==
  [][wanted = "running" /\ wanted' = "running" /\ mongo = "up" /\ kills' = kills =>
       \A w \in Workers :
         UNCHANGED <<phase[w], built[w]>> \/ WayUp(w)' < WayUp(w)]_vars
=============================================================================
