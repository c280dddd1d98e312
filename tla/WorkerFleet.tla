----------------------------- MODULE WorkerFleet -----------------------------
(***************************************************************************)
(* The workers of one namespace: immutable_worker_lifespan of              *)
(* app/harness/worker_bootstrap.py from start to stop, the queries they    *)
(* serve, and the provider slots those queries take (ProviderRateLimit).   *)
(* The settings they all start from are rows of the same MySQL server,     *)
(* which an administrator may write at any time, though the operations     *)
(* guide asks for all workers to be stopped first.                         *)
(*                                                                         *)
(* Each worker serves one query at a time, so a worker is also the Task of *)
(* ProviderRateLimit.  The settings are abstracted to the limit of the     *)
(* provider and to whether all default sections are there.                 *)
(***************************************************************************)
EXTENDS ProviderRateLimit

CONSTANT Build \* release bundle and environment of a process

Settings == [rpm : Rpm, seeded : BOOLEAN]
Prints   == [build : Build, baseline : Settings]

ASSUME FleetAssumption == Unset \notin Build \cup Settings \cup Prints

VARIABLES
    settings, \* the persisted settings, [rpm, seeded]
    print,    \* the row of worker_release_config
    startup,  \* worker that has the lease of the start-up session
    stage,    \* [Task -> Stage]
    mem,      \* [Task -> Memory], what the process keeps of its start
    written,  \* history: workers whose baseline was written since they read it
    fooled    \* history: a worker read its baseline again though it was written

fleetVars == <<settings, print, startup, stage, mem, written, fooled>>
history == <<written, fooled>>

Memory   == [build : Build \cup {Unset}, baseline : Settings \cup {Unset},
             rpm : Rpm \cup {Unset}]
Blank    == [build |-> Unset, baseline |-> Unset, rpm |-> Unset]
InStartup == {"baselined", "loaded"}
Starting == InStartup \cup {"waiting", "released", "registered"}
Stage    == Starting \cup {"down", "serving", "query"}

FleetTypeOK ==
    /\ RateTypeOK
    /\ settings \in Settings
    /\ print \in Prints \cup {Unset}
    /\ startup \in Task \cup {NoTask}
    /\ stage \in [Task -> Stage]
    /\ mem \in [Task -> Memory]
    /\ written \subseteq Task
    /\ fooled \in BOOLEAN

FleetInit ==
    /\ RateInit
    /\ settings \in Settings
    /\ print = Unset
    /\ startup = NoTask
    /\ stage = [w \in Task |-> "down"]
    /\ mem = [w \in Task |-> Blank]
    /\ written = {}
    /\ fooled = FALSE

-----------------------------------------------------------------------------
(* Helper state formulae *)

Goes(w, from, to) == stage[w] = from /\ stage' = [stage EXCEPT ![w] = to]

Fingerprint(w) == [build |-> mem[w].build, baseline |-> mem[w].baseline]

Keeps(w, field, value) == mem' = [mem EXCEPT ![w] = [@ EXCEPT ![field] = value]]

Forgets(w) ==
    /\ mem' = [mem EXCEPT ![w] = Blank]
    /\ written' = written \ {w}
    /\ UNCHANGED fooled

(* The lease of the start-up is given back, if w still has it.             *)
GivesBack(w) == startup' = IF startup = w THEN NoTask ELSE startup

-----------------------------------------------------------------------------
(* Start-up *)

(* A process starts: its release is loaded and covers its environment.     *)
Start(w) ==
    /\ Goes(w, "down", "waiting")
    /\ \E b \in Build : Keeps(w, "build", b)
    /\ UNCHANGED <<rateVars, settings, print, startup, history>>

(* The start-up session is free: the settings are read before anything is  *)
(* initialized.                                                            *)
EnterStartup(w) ==
    /\ Goes(w, "waiting", "baselined")
    /\ startup = NoTask
    /\ startup' = w
    /\ Keeps(w, "baseline", settings)
    /\ UNCHANGED <<rateVars, settings, print, history>>

(* init_db inserts the default sections that are missing, then the LLM     *)
(* router is built from the settings as they are.                          *)
Initialize(w) ==
    /\ Goes(w, "baselined", "loaded")
    /\ settings' = [settings EXCEPT !.seeded = TRUE]
    /\ Keeps(w, "rpm", settings.rpm)
    /\ UNCHANGED <<rateVars, print, startup, history>>

LeaveStartup(w) ==
    /\ Goes(w, "loaded", "released")
    /\ startup = w
    /\ GivesBack(w)
    /\ UNCHANGED <<rateVars, settings, print, mem, history>>

(* Mutant: the settings are not read again.                                *)
RegisterUnread(w) ==
    /\ Goes(w, "released", "registered")
    /\ print' = IF print = Unset THEN Fingerprint(w) ELSE print
    /\ fooled' = (fooled \/ (w \in written /\ settings = mem[w].baseline))
    /\ written' = written \ {w}
    /\ UNCHANGED <<rateVars, settings, startup, mem>>

(* The settings are read again and are, or are again, the baseline; then   *)
(* INSERT IGNORE of the fingerprint: the first worker's stays.             *)
Register(w) ==
    /\ Goes(w, "released", "registered")
    /\ settings = mem[w].baseline
    /\ print' = IF print = Unset THEN Fingerprint(w) ELSE print
    /\ fooled' = (fooled \/ w \in written)
    /\ written' = written \ {w}
    /\ UNCHANGED <<rateVars, settings, startup, mem>>

(* Mutant: the stored fingerprint is not compared.                         *)
PublishBlind(w) ==
    /\ Goes(w, "registered", "serving")
    /\ UNCHANGED <<rateVars, settings, print, startup, mem, history>>

(* The stored fingerprint is this worker's: the runtime is published.      *)
Publish(w) ==
    /\ Goes(w, "registered", "serving")
    /\ print = Fingerprint(w)
    /\ UNCHANGED <<rateVars, settings, print, startup, mem, history>>

(* The start-up ends without a runtime: the session was busy for thirty    *)
(* seconds, its lease was lost, a component is not available, the settings *)
(* or the fingerprint differ, or a call to the server failed.              *)
StartFails(w) ==
    /\ stage[w] \in Starting
    /\ stage' = [stage EXCEPT ![w] = "down"]
    /\ Forgets(w)
    /\ GivesBack(w)
    /\ UNCHANGED <<rateVars, settings, print>>

(* The server ends the connection that holds the lease.                    *)
StartupLost ==
    /\ startup # NoTask
    /\ startup' = NoTask
    /\ UNCHANGED <<rateVars, settings, print, stage, mem, history>>

-----------------------------------------------------------------------------
(* Service *)

(* shared_query_scope: verify_configuration reads the settings.            *)
BeginQuery(w) ==
    /\ Goes(w, "serving", "query")
    /\ settings = mem[w].baseline
    /\ UNCHANGED <<rateVars, settings, print, startup, mem, history>>

(* _wait_rate of a model call.                                             *)
CallModel(w) ==
    /\ stage[w] = "query"
    /\ Reserve(w, mem[w].rpm)
    /\ UNCHANGED fleetVars

EndQuery(w) ==
    /\ Goes(w, "query", "serving")
    /\ pc[w] = "idle"
    /\ UNCHANGED <<rateVars, settings, print, startup, mem, history>>

(* Requests are drained before the lifespan ends.                          *)
Stop(w) ==
    /\ Goes(w, "serving", "down")
    /\ Forgets(w)
    /\ UNCHANGED <<rateVars, settings, print, startup>>

(* The process dies; the server drops its connections.                     *)
Crash(w) ==
    /\ stage[w] # "down"
    /\ stage' = [stage EXCEPT ![w] = "down"]
    /\ Forgets(w)
    /\ GivesBack(w)
    /\ IF pc[w] = "idle" THEN UNCHANGED rateVars ELSE Fails(w)
    /\ UNCHANGED <<settings, print>>

(* The administrator saves settings.                                       *)
Alter ==
    /\ \E r \in Rpm \ {settings.rpm} : settings' = [settings EXCEPT !.rpm = r]
    /\ written' = written \cup {w \in Task : stage[w] \in InStartup \cup {"released"}}
    /\ UNCHANGED <<rateVars, print, startup, stage, mem, fooled>>

(* The transaction of a model call goes on.                                *)
Transaction ==
    /\ \/ \E w \in Task : \/ Lock(w) \/ Compare(w) \/ Purge(w) \/ Count(w) \/ Insert(w)
                          \/ Confirmed(w) \/ Fails(w)
       \/ ServerFinishes \/ ClockTicks
    /\ UNCHANGED fleetVars

FleetNext ==
    \/ \E w \in Task :
          \/ Start(w) \/ EnterStartup(w) \/ Initialize(w) \/ LeaveStartup(w)
          \/ Register(w) \/ Publish(w) \/ StartFails(w)
          \/ BeginQuery(w) \/ CallModel(w) \/ EndQuery(w) \/ Stop(w) \/ Crash(w)
    \/ StartupLost \/ Alter \/ Transaction

FleetSpec == FleetInit /\ [][FleetNext]_<<rateVars, fleetVars>>

-----------------------------------------------------------------------------
(* Properties *)

(* The workers that serve at the same time were started from the same      *)
(* release, environment and settings, whatever was written in between (and *)
(* every variable has its type).                                           *)
OneConfiguration == FleetTypeOK /\ \A v, w \in Task :
    {stage[v], stage[w]} \subseteq {"serving", "query"} => Fingerprint(v) = Fingerprint(w)

(* A model call is refused because its worker has another limit than the   *)
(* one in use only if some worker found the settings as they were although *)
(* they had been written and written back since its first reading: across  *)
(* restarts, crashes and writes at other times the limits of the fleet     *)
(* agree.                                                                  *)
LimitsAgree == \A w \in Task :
    At(w, "compare") /\ staged.config # asked[w] => fooled
=============================================================================
