---------------------------- MODULE ProcessProofs ---------------------------
(***************************************************************************)
(* Module Process for every set of inputs: the types, what is accepted can *)
(* run and does not depend on the other mode's duration, a process that    *)
(* has ended has left nothing running and ends without an error only when  *)
(* asked to, and /healthz answers 200 only for a fresh synchronisation.    *)
(***************************************************************************)
EXTENDS Process, TLAPS

Flags == /\ signalled \in BOOLEAN /\ cancelled \in BOOLEAN
         /\ closing \in BOOLEAN /\ listening \in BOOLEAN

(* The health server, its listener and the goroutine that serves.          *)
ServerOrder ==
  /\ health \in {"off", "listen"} => serve = "none" /\ ~closing
  /\ health = "select" => ~closing
  /\ health \in {"shutdown", "drain"} => closing
  /\ health \in {"return", "ended"} => serve \notin {"begin", "accept"}
  /\ listening => serve \in {"begin", "accept"}
  /\ serve = "accept" /\ closing => ~listening
  /\ serve = "closed" => closing

(* An error belongs to a server that is over; one that is over without an  *)
(* error was told to end.                                                  *)
ServerErrors ==
  /\ healthErr # "ok" => health \in {"return", "ended"}
  /\ closing => cancelled
  /\ health \in {"return", "ended"} => healthErr # "ok" \/ cancelled

(* The worker runs only in main's worker state.  Without a signal it is    *)
(* cancelled only because the health server failed.                        *)
WorkerOrder ==
  /\ main \in {"off", "start", "store"} => health = "off" /\ ~cancelled
  /\ main = "worker" => phase \in {"starting", "serving", "ok", "failed"}
  /\ main = "join" => phase \in {"ok", "failed"}
  /\ main = "worker" /\ phase = "ok" => cancelled
  /\ main = "worker" /\ cancelled /\ ~signalled => health = "ended" /\ healthErr # "ok"
  /\ main = "join" /\ phase = "ok" /\ ~signalled => health = "ended" /\ healthErr # "ok"

Outcome ==
  main = "exited" =>
    /\ health \in {"off", "ended"}
    /\ result = "ok" => signalled /\ phase # "failed" /\ healthErr = "ok"

Inv == Flags /\ ServerOrder /\ ServerErrors /\ WorkerOrder /\ Outcome

LEMMA InitInv == Init => Inv
  BY DEF Init, Inv, Flags, ServerOrder, ServerErrors, WorkerOrder, Outcome

-----------------------------------------------------------------------------
(* Steps of main.                                                          *)
LEMMA MainInv ==
  ASSUME Inv, Exec \/ Main \/ StoreFails \/ WorkerSteps
  PROVE  Inv'
<1> USE DEF Inv
<1>1. CASE Exec
  BY <1>1 DEF Exec, flags, work, server, probes,
              Flags, ServerOrder, ServerErrors, WorkerOrder, Outcome
<1>2. CASE Reject
  BY <1>2 DEF Reject, Exit, flags, work, server, probes,
              Flags, ServerOrder, ServerErrors, WorkerOrder, Outcome
<1>3. CASE Configure
  BY <1>3 DEF Configure, flags, work, server, probes,
              Flags, ServerOrder, ServerErrors, WorkerOrder, Outcome
<1>4. CASE StoreFails
  BY <1>4 DEF StoreFails, Exit, flags, work, server, probes,
              Flags, ServerOrder, ServerErrors, WorkerOrder, Outcome
<1>5. CASE WithHealth
  <2>1. phase' \in {"starting", "serving"}
    BY <1>5 DEF WithHealth, W!Start, Downloading!Start
  <2>2. /\ main = "store" /\ main' = "worker" /\ cancelled' = signalled
        /\ health' \in {"off", "listen"}
        /\ UNCHANGED <<result, signalled, healthErr, serve, closing, listening>>
    BY <1>5 DEF WithHealth
  <2>3. health = "off" /\ healthErr = "ok" /\ ~closing
    BY <2>2 DEF WorkerOrder, ServerOrder, ServerErrors
  <2> QED BY <2>1, <2>2, <2>3 DEF Flags, ServerOrder, ServerErrors, WorkerOrder, Outcome
<1>6. CASE WorkerSteps
  <2>1. main = "worker" /\ UNCHANGED <<main, result, signalled, server>>
    BY <1>6 DEF WorkerSteps
  <2>2. cancelled' = cancelled /\ phase' \in {"starting", "serving", "ok", "failed"}
        /\ (phase' = "ok" => cancelled)
    BY <1>6 DEF WorkerSteps, W!Serve, W!Fail, W!Sync, W!Finish, W!Alive, WorkerOrder
  <2> QED BY <2>1, <2>2 DEF server, Flags, ServerOrder, ServerErrors, WorkerOrder, Outcome
<1>7. CASE WorkerReturnsAlone
  BY <1>7 DEF WorkerReturnsAlone, WorkerErr, Exit, flags, work, server, probes, W!Ended,
              Flags, ServerOrder, ServerErrors, WorkerOrder, Outcome
<1>8. CASE WorkerReturns
  BY <1>8 DEF WorkerReturns, setup, work, server, probes, W!Ended,
              Flags, ServerOrder, ServerErrors, WorkerOrder, Outcome
<1>9. CASE Join
  BY <1>9 DEF Join, WorkerErr, Exit, flags, work, server, probes,
              Flags, ServerOrder, ServerErrors, WorkerOrder, Outcome
<1> QED BY <1>1, <1>2, <1>3, <1>4, <1>5, <1>6, <1>7, <1>8, <1>9 DEF Main

(* Steps of the health server and of the goroutine that serves.            *)
LEMMA ServerInv ==
  ASSUME Inv, RunHealthServer \/ Serve
  PROVE  Inv'
<1> USE DEF Inv, StepTo, Served, others, work,
            Flags, ServerOrder, ServerErrors, WorkerOrder, Outcome
<1>1. CASE Listen
  BY <1>1 DEF Listen
<1>2. CASE ListenFails
  BY <1>2 DEF ListenFails
<1>3. CASE ServeEnded
  BY <1>3 DEF ServeEnded
<1>4. CASE ShutdownStarts
  BY <1>4 DEF ShutdownStarts
<1>5. CASE ShutdownReturns
  BY <1>5 DEF ShutdownReturns
<1>6. CASE ShutdownExpires
  BY <1>6 DEF ShutdownExpires
<1>7. CASE Drain
  BY <1>7 DEF Drain
<1>8. CASE HealthReturns
  BY <1>8 DEF HealthReturns
<1>9. CASE ServeBegins
  BY <1>9 DEF ServeBegins
<1>10. CASE ServeFails
  BY <1>10 DEF ServeFails
<1>11. CASE ServeCloses
  BY <1>11 DEF ServeCloses
<1> QED BY <1>1, <1>2, <1>3, <1>4, <1>5, <1>6, <1>7, <1>8, <1>9, <1>10, <1>11
       DEF RunHealthServer, Serve

LEMMA EnvironmentInv ==
  ASSUME Inv, ProbeArrives \/ ProbeReads \/ Healthz \/ Signal \/ Gone \/ Tick \/ UNCHANGED vars
  PROVE  Inv'
<1> USE DEF Inv, Flags, ServerOrder, ServerErrors, WorkerOrder, Outcome
<1>1. CASE ProbeArrives \/ ProbeReads \/ Healthz \/ Tick
  BY <1>1 DEF ProbeArrives, ProbeReads, Healthz, Tick, flags, work, server, probes
<1>2. CASE Signal
  BY <1>2 DEF Signal, work, server
<1>3. CASE Gone
  BY <1>3 DEF Gone
<1>4. CASE UNCHANGED vars
  BY <1>4 DEF vars, flags, work, server
<1> QED BY <1>1, <1>2, <1>3, <1>4

LEMMA InvHolds == Spec => []Inv
<1>1. Inv /\ [Next]_vars => Inv'
  BY MainInv, ServerInv, EnvironmentInv DEF Next
<1> QED BY <1>1, InitInv, PTL DEF Spec

(* When run returns nothing of the process is left: no goroutine serves,   *)
(* nothing listens, whichever of Serve and Shutdown came first.            *)
THEOREM NothingIsLeft == Spec => []NothingLeft
<1>1. Inv => NothingLeft
  BY DEF Inv, Outcome, ServerOrder, NothingLeft
<1> QED BY <1>1, InvHolds, PTL

(* An exit code of 0 means that a signal asked for the end and that        *)
(* neither the worker nor the health server had an error.                  *)
THEOREM ZeroWasAsked == Spec => []ZeroMeansAsked
<1>1. Inv => ZeroMeansAsked
  BY DEF Inv, Outcome, ZeroMeansAsked
<1> QED BY <1>1, InvHolds, PTL
-----------------------------------------------------------------------------
(* Configuration.                                                          *)

(* What runs is in order.                                                  *)
LEMMA RunnableConfig ==
  ASSUME Runnable
  PROVE  /\ Cfg.mode \in Modes
         /\ Cfg.mode = "upload" => Cfg.healthGrace > 0 /\ Cfg.path # Empty /\ Cfg.outDir = Empty
         /\ Cfg.mode = "download" => /\ Cfg.interval \in MinInterval..MaxInterval
                                     /\ Cfg.outDir # Empty /\ Cfg.path = Empty
<1> DEFINE c == Resolved(input.args, Env)
<1>1. validate(c, FromFlag(input.args.interval), FromFlag(input.args.healthGrace))
  BY DEF Runnable, Accepts
<1>2. /\ c.mode \in Modes
      /\ c.mode = "upload" => c.healthGrace > 0 /\ c.path # Empty /\ c.outDir = Empty
      /\ c.mode = "download" => /\ c.interval \in MinInterval..MaxInterval
                                /\ c.outDir # Empty /\ c.path = Empty
  <2> HIDE DEF c
  <2> QED BY <1>1 DEF validate
<1>3. /\ Cfg.mode = c.mode /\ Cfg.path = c.path /\ Cfg.outDir = c.outDir
      /\ c.mode = "download" => Cfg.interval = c.interval
      /\ c.mode # "download" => Cfg.healthGrace = c.healthGrace
  BY DEF Cfg, LoadConfig, Resolved
<1> QED BY <1>2, <1>3 DEF Modes

LEMMA GraceIsInt ==
  ASSUME Runnable, input \in Inputs, Cfg.mode = "upload"
  PROVE  Cfg.healthGrace \in Int
<1> DEFINE e == Env.healthGrace
           f == input.args.healthGrace
<1>1. e \in Durations
  <2>1. FilesReadable(input.env, input.files)
    BY DEF Runnable
  <2>2. "healthGrace" \in DOMAIN input.env /\ input.env.healthGrace \in Durations
        /\ input.files.healthGrace \in Durations \cup {Unreadable}
    BY ProcessAssumption DEF Settings
  <2>3. e = IF "healthGrace" \in Needed(input.env, input.files)
              THEN input.files.healthGrace ELSE input.env.healthGrace
    BY <2>2 DEF Env, resolveFileEnv
  <2> QED BY <2>1, <2>2, <2>3 DEF FilesReadable
<1>2. f \in Durations
  BY ProcessAssumption
<1>3. e # Garbage /\ f # Garbage
  BY DEF Runnable, Accepts, Parses
<1>4. Cfg.healthGrace = durationFlag(f, envOr(e, DefaultHealthGrace))
  BY DEF Cfg, LoadConfig, Resolved
<1>5. DefaultHealthGrace \in Int
  BY ConfigAssumption
<1> HIDE DEF e, f
<1> QED BY <1>1, <1>2, <1>3, <1>4, <1>5 DEF durationFlag, envOr, FromFlag, Durations

LEMMA WindowIsPositive ==
  ASSUME Runnable, input \in Inputs
  PROVE  freshness(Cfg) \in Nat /\ freshness(Cfg) > 0
<1>0. MinInterval \in Nat /\ MaxInterval \in Nat /\ MinInterval > 0
  BY ConfigAssumption
<1>1. CASE Cfg.mode = "download"
  BY <1>0, <1>1, RunnableConfig DEF freshness
<1>2. CASE Cfg.mode = "upload"
  BY <1>2, GraceIsInt, RunnableConfig DEF freshness
<1> QED BY <1>1, <1>2, RunnableConfig DEF Modes

(* What a process may be started with is at hand until it is resolved.     *)
Started == main = "start" => input \in Inputs

LEMMA StartedHolds == Spec => []Started
<1>1. Init => Started
  BY DEF Init, Started
<1>2. Started /\ [Next]_vars => Started'
  <2> SUFFICES ASSUME Started, [Next]_vars, main' = "start" PROVE input' \in Inputs
    BY DEF Started
  <2>1. CASE Exec
    BY <2>1 DEF Exec
  <2>2. CASE UNCHANGED <<main, input>>
    BY <2>2 DEF Started
  <2>3. Exec \/ UNCHANGED <<main, input>>
    <3>1. CASE Main \/ StoreFails
      BY <3>1 DEF Main, StoreFails, Reject, Configure, WithHealth, WorkerReturnsAlone,
                  WorkerReturns, Join, Exit
    <3>2. CASE WorkerSteps
      BY <3>2 DEF WorkerSteps, setup
    <3>3. CASE RunHealthServer \/ Serve
      BY <3>3 DEF RunHealthServer, Serve, Listen, ListenFails, ServeEnded, ShutdownStarts,
                  ShutdownReturns, ShutdownExpires, Drain, HealthReturns, StepTo,
                  ServeBegins, ServeFails, ServeCloses, others, setup
    <3>4. CASE ProbeArrives \/ ProbeReads \/ Healthz \/ Signal \/ Tick
      BY <3>4 DEF ProbeArrives, ProbeReads, Healthz, Signal, Tick, setup
    <3>5. CASE Gone
      BY <3>5 DEF Gone
    <3>6. CASE UNCHANGED vars
      BY <3>6 DEF vars, setup
    <3> QED BY <3>1, <3>2, <3>3, <3>4, <3>5, <3>6 DEF Next
  <2> QED BY <2>1, <2>2, <2>3
<1> QED BY <1>1, <1>2, PTL DEF Spec

(* A step of main from its start into its store is Configure, with what    *)
(* LoadConfig accepted.                                                    *)
LEMMA OnlyAcceptedConfigures ==
  ASSUME [Next]_vars, main = "start", main' = "store"
  PROVE  Runnable
<1>1. CASE Configure
  BY <1>1 DEF Configure
<1>2. CASE ~Configure
  BY <1>2 DEF Next, vars, Exec, Main, StoreFails, Reject, WithHealth,
     WorkerReturnsAlone, WorkerReturns, Join, Exit, WorkerSteps, RunHealthServer, Serve,
     Listen, ListenFails, ServeEnded, ShutdownStarts, ShutdownReturns, ShutdownExpires,
     Drain, HealthReturns, StepTo, ServeBegins, ServeFails, ServeCloses, others,
     ProbeArrives, ProbeReads, Healthz, Signal, Gone, Tick
<1> QED BY <1>1, <1>2

(* Whatever flags, variables and files a process is started with, if it    *)
(* gets past LoadConfig its durations are in range and its /healthz can be *)
(* green.                                                                  *)
THEOREM AcceptedRuns == Spec => AcceptedIsRunnable
<1>1. ASSUME Started, [Next]_vars, main = "start", main' = "store"
      PROVE  /\ freshness(Cfg) > 0
             /\ Cfg.mode = "download" => /\ Cfg.interval \in MinInterval..MaxInterval
                                         /\ freshness(Cfg) >= 2 * Cfg.interval
             /\ {Cfg.path, Cfg.outDir} \cap {Empty} # {} /\ {Cfg.path, Cfg.outDir} # {Empty}
  <2>1. Runnable
    BY <1>1, OnlyAcceptedConfigures
  <2>2. freshness(Cfg) \in Nat /\ freshness(Cfg) > 0
    BY <1>1, <2>1, WindowIsPositive DEF Started
  <2>3. Cfg.mode = "download" => freshness(Cfg) = 2 * Cfg.interval
    BY DEF freshness
  <2>4. Cfg.mode = "download" => Cfg.interval \in MinInterval..MaxInterval
    BY <2>1, RunnableConfig
  <2>5. Cfg.mode = "download" => freshness(Cfg) >= 2 * Cfg.interval
    BY <2>2, <2>3
  <2>6. \/ Cfg.path # Empty /\ Cfg.outDir = Empty
        \/ Cfg.outDir # Empty /\ Cfg.path = Empty
    BY <2>1, RunnableConfig DEF Modes
  <2>7. {Cfg.path, Cfg.outDir} \cap {Empty} # {} /\ {Cfg.path, Cfg.outDir} # {Empty}
    <3>1. ASSUME NEW p, NEW o, (p # Empty /\ o = Empty) \/ (o # Empty /\ p = Empty)
          PROVE  {p, o} \cap {Empty} # {} /\ {p, o} # {Empty}
      <4>1. Empty \in {p, o} \cap {Empty}
        BY <3>1
      <4>2. \E x \in {p, o} : x # Empty
        BY <3>1
      <4> QED BY <4>1, <4>2
    <3> QED BY <2>6, <3>1
  <2> QED BY <2>2, <2>4, <2>5, <2>7
<1> QED BY <1>1, StartedHolds, PTL DEF Spec, AcceptedIsRunnable

(* What a duration variable of the other mode holds is neither looked at   *)
(* nor kept, unless it is malformed.                                       *)
LEMMA OtherDurationUnused ==
  ASSUME NEW args, NEW env, NEW d, d # Garbage,
         Settings \subseteq DOMAIN env,
         Accepts(args, env),
         NEW o, o = OtherDuration(Resolved(args, env).mode)
  PROVE  /\ Accepts(args, [env EXCEPT ![o] = d])
         /\ LoadConfig(args, [env EXCEPT ![o] = d]) = LoadConfig(args, env)
<1> DEFINE e == [env EXCEPT ![o] = d]
           c == Resolved(args, env)
           b == Resolved(args, e)
<1>1. c.mode \in Modes /\ o \in {"interval", "healthGrace"}
  BY DEF Accepts, validate, OtherDuration
<1>2. /\ \A s \in Settings : s # o => e[s] = env[s]
      /\ e[o] = d
  BY <1>1 DEF Settings
<1>3. Parses(args, e)
  <2>1. Parses(args, env)
    BY DEF Accepts
  <2>2. ASSUME NEW s \in {"interval", "healthGrace", "logLevel"} PROVE Garbage \notin {args[s], e[s]}
    <3>1. args[s] # Garbage /\ env[s] # Garbage /\ s \in Settings
      BY <2>1 DEF Parses, Settings
    <3> QED BY <1>2, <3>1
  <2> HIDE DEF e
  <2> QED BY <2>2 DEF Parses
<1>4. /\ e.mode = env.mode /\ e.path = env.path /\ e.outDir = env.outDir
      /\ e.bucket = env.bucket /\ e.key = env.key /\ e.healthAddr = env.healthAddr
  BY <1>1, <1>2 DEF Settings
<1>5. o # "interval" => e.interval = env.interval
  BY <1>2 DEF Settings
<1>6. o # "healthGrace" => e.healthGrace = env.healthGrace
  BY <1>2 DEF Settings
<1>7. b.mode = c.mode /\ c.mode \in Modes
  BY <1>1, <1>4 DEF Resolved
<1>8. validate(b, FromFlag(args.interval), FromFlag(args.healthGrace))
  <2>1. validate(c, FromFlag(args.interval), FromFlag(args.healthGrace))
    BY DEF Accepts
  <2>2. /\ b.path = c.path /\ b.outDir = c.outDir /\ b.bucket = c.bucket /\ b.key = c.key
        /\ o # "interval" => b.interval = c.interval
        /\ o # "healthGrace" => b.healthGrace = c.healthGrace
    BY <1>4, <1>5, <1>6 DEF Resolved
  <2>3. /\ c.mode = "upload" => o = "interval"
        /\ c.mode = "download" => o = "healthGrace"
    BY DEF OtherDuration
  <2> HIDE DEF b, c
  <2> QED BY <1>7, <2>1, <2>2, <2>3 DEF validate, Modes
<1>9. LoadConfig(args, e) = LoadConfig(args, env)
  <2>1. CASE c.mode = "upload"
    <3>1. o = "interval"
      BY <2>1 DEF OtherDuration
    <3> HIDE DEF e
    <3> QED BY <2>1, <3>1, <1>4, <1>6, <1>7 DEF LoadConfig, Resolved
  <2>2. CASE c.mode = "download"
    <3>1. o = "healthGrace"
      BY <2>2 DEF OtherDuration
    <3> HIDE DEF e
    <3> QED BY <2>2, <3>1, <1>4, <1>5, <1>7 DEF LoadConfig, Resolved
  <2> QED BY <1>7, <2>1, <2>2 DEF Modes
<1> QED BY <1>3, <1>8, <1>9 DEF Accepts

(* One environment can be shared by uploaders and downloaders: whatever    *)
(* duration the variable of the other mode holds, LoadConfig accepts the   *)
(* same and arrives at the same configuration.                             *)
THEOREM OtherModesDuration == Spec => OtherModesDurationIgnored
<1>1. ASSUME Started, [Next]_vars, main = "start", main' = "store",
             NEW d \in {Absent, Empty} \cup -1..(MaxInterval + 1)
      PROVE  LET env == [Env EXCEPT ![OtherDuration(Cfg.mode)] = d]
             IN  Accepts(input.args, env) /\ LoadConfig(input.args, env) = Cfg
  <2>1. Runnable /\ input \in Inputs
    BY <1>1, OnlyAcceptedConfigures DEF Started
  <2>2. Accepts(input.args, Env)
    BY <2>1 DEF Runnable
  <2>3. Settings \subseteq DOMAIN Env
    BY <2>1, ProcessAssumption DEF Env, resolveFileEnv
  <2>4. d # Garbage
    <3>1. MaxInterval \in Int
      BY ConfigAssumption
    <3> QED BY <3>1, ConfigAssumption
  <2>5. Cfg.mode = Resolved(input.args, Env).mode
    BY DEF Cfg, LoadConfig, Resolved
  <2> QED BY <2>2, <2>3, <2>4, <2>5, OtherDurationUnused DEF Cfg
<1>2. Started /\ [Next]_vars
      => [ main = "start" /\ main' = "store" =>
             \A d \in {Absent, Empty} \cup -1..(MaxInterval + 1) :
               LET env == [Env EXCEPT ![OtherDuration(Cfg.mode)] = d]
               IN  Accepts(input.args, env) /\ LoadConfig(input.args, env) = Cfg ]_vars
  BY <1>1
<1> QED BY <1>2, StartedHolds, PTL DEF Spec, OtherModesDurationIgnored

-----------------------------------------------------------------------------
(* Types.                                                                  *)

LEMMA TypeStep ==
  ASSUME TypeOK, Started, [Next]_vars
  PROVE  TypeOK'
<1> USE DEF TypeOK, Errors, Idle, Arrived, W!Alive, W!Ended
<1>1. MaxTime \in Nat /\ NoInput \notin Inputs
  BY ProcessAssumption
<1>2. CASE Exec
  BY <1>1, <1>2 DEF Exec, flags, work, server, probes
<1>3. CASE Reject \/ StoreFails
  BY <1>3 DEF Reject, StoreFails, Exit, flags, work, server, probes
<1>4. CASE Configure
  <2>1. input \in Inputs /\ Runnable
    BY <1>4 DEF Configure, Started
  <2>2. mode' \in Modes /\ window' \in Nat
    BY <1>4, <2>1, RunnableConfig, WindowIsPositive DEF Configure
  <2> QED BY <1>4, <2>2 DEF Configure, flags, work, server, probes
<1>5. CASE WithHealth
  <2>1. phase' \in W!Alive
    BY <1>5 DEF WithHealth, W!Start, Downloading!Start
  <2> QED BY <1>5, <2>1 DEF WithHealth, setup, probes
<1>6. CASE WorkerSteps
  <2>1. phase' \in W!Alive \cup W!Ended /\ lastSync' \in {lastSync, now} /\ UNCHANGED <<cancelled, now>>
    BY <1>6 DEF WorkerSteps, W!Serve, W!Fail, W!Sync, W!Finish
  <2>2. UNCHANGED <<main, setup, result, signalled, server, probes>>
    BY <1>6 DEF WorkerSteps
  <2> QED BY <2>1, <2>2 DEF setup, server, probes
<1>7. CASE WorkerReturnsAlone \/ WorkerReturns
  BY <1>7 DEF WorkerReturnsAlone, WorkerReturns, WorkerErr, Exit, setup, flags, work, server, probes
<1>8. CASE Join
  BY <1>8 DEF Join, WorkerErr, Exit, flags, work, server, probes
<1>9. CASE RunHealthServer
  BY <1>9 DEF RunHealthServer, Listen, ListenFails, ServeEnded, ShutdownStarts, ShutdownReturns,
              ShutdownExpires, Drain, HealthReturns, StepTo, others, setup, work, probes
<1>10. CASE Serve
  BY <1>10 DEF Serve, ServeBegins, ServeFails, ServeCloses, others, setup, work, probes
<1>11. CASE ProbeArrives \/ ProbeReads \/ Healthz
  BY <1>1, <1>11 DEF ProbeArrives, ProbeReads, Healthz, setup, flags, work, server
<1>12. CASE Signal
  BY <1>12 DEF Signal, setup, work, server, probes
<1>13. CASE Gone
  <2>1. main' = "off" /\ input' = NoInput
    BY <1>13 DEF Gone
  <2>2. lastSync' \in 0..now' /\ now' \in 1..MaxTime
    BY <1>1, <1>13 DEF Gone
  <2>3. probe' \in {Idle, Arrived} \cup 0..MaxTime /\ window' \in Nat
    BY <1>13 DEF Gone
  <2>4. mode' \in Modes \cup {"none"} /\ result' \in {"none", "ok"} \cup Errors
        /\ phase' \in W!Alive \cup W!Ended
    BY <1>13 DEF Gone
  <2>5. /\ signalled' \in BOOLEAN /\ cancelled' \in BOOLEAN
        /\ closing' \in BOOLEAN /\ listening' \in BOOLEAN
    BY <1>13 DEF Gone
  <2> QED BY <1>13, <2>1, <2>2, <2>3, <2>4, <2>5 DEF Gone
<1>14. CASE Tick
  BY <1>1, <1>14 DEF Tick, setup, flags, work, server, probes
<1>15. CASE UNCHANGED vars
  BY <1>15 DEF vars, setup, flags, work, server, probes
<1> QED BY <1>2, <1>3, <1>4, <1>5, <1>6, <1>7, <1>8, <1>9, <1>10, <1>11, <1>12, <1>13, <1>14,
           <1>15 DEF Next, Main

(* Whatever a process is started with, every variable keeps its type: the  *)
(* window of /healthz is a number of what LoadConfig has parsed, and what  *)
(* the process was started with is gone once it is resolved.               *)
THEOREM TypeCorrect == Spec => []TypeOK
<1>1. ASSUME Init PROVE TypeOK
  <2>1. lastSync \in 0..now /\ now \in 1..MaxTime
    BY <1>1, ProcessAssumption DEF Init
  <2>2. main \in {"off"} /\ input = NoInput /\ window \in Nat
    BY <1>1 DEF Init
  <2>3. probe \in {Idle, Arrived} \cup 0..MaxTime
    BY <1>1 DEF Init
  <2>4. phase \in W!Alive \cup W!Ended
    BY <1>1 DEF Init, W!Ended
  <2> QED BY <1>1, <2>1, <2>2, <2>3, <2>4 DEF Init, TypeOK
<1>2. TypeOK /\ Started /\ [Next]_vars => TypeOK'
  BY TypeStep
<1> QED BY <1>1, <1>2, StartedHolds, PTL DEF Spec

-----------------------------------------------------------------------------
(* Health.                                                                 *)

(* What a request has read is not newer than what is there now.            *)
Clock ==
  /\ now \in Nat /\ window \in Nat
  /\ lastSync \in 0..now
  /\ probe \in {Idle, Arrived} \cup 0..lastSync

LEMMA ClockStep ==
  ASSUME Clock, Started, [Next]_vars
  PROVE  Clock'
<1> USE DEF Clock, Idle, Arrived
<1>1. CASE UNCHANGED <<now, window, lastSync, probe>>
  BY <1>1
<1>2. CASE Configure
  <2>1. window' \in Nat
    <3>1. Runnable /\ input \in Inputs
      BY <1>2 DEF Configure, Started
    <3>2. window' = IF Cfg.healthAddr = Empty THEN 0 ELSE freshness(Cfg)
      BY <1>2 DEF Configure
    <3> QED BY <3>1, <3>2, WindowIsPositive
  <2> QED BY <1>2, <2>1 DEF Configure, work, probes
<1>3. CASE Exec \/ Reject \/ StoreFails \/ WorkerReturnsAlone \/ Join
  BY <1>1, <1>3 DEF Exec, Reject, StoreFails, WorkerReturnsAlone, Join, Exit, work, probes
<1>4. CASE WithHealth \/ WorkerReturns
  BY <1>1, <1>4 DEF WithHealth, WorkerReturns, setup, work, probes
<1>5. CASE WorkerSteps
  <2>1. UNCHANGED <<now, window, probe>> /\ lastSync' \in {lastSync, now}
    BY <1>5 DEF WorkerSteps, W!Serve, W!Fail, W!Sync, W!Finish, setup, probes
  <2> QED BY <2>1
<1>6. CASE RunHealthServer \/ Serve
  BY <1>1, <1>6 DEF RunHealthServer, Serve, Listen, ListenFails, ServeEnded, ShutdownStarts,
                    ShutdownReturns, ShutdownExpires, Drain, HealthReturns, StepTo,
                    ServeBegins, ServeFails, ServeCloses, others, setup, work, probes
<1>7. CASE ProbeArrives \/ ProbeReads \/ Healthz
  BY <1>7 DEF ProbeArrives, ProbeReads, Healthz, setup, work
<1>8. CASE Signal
  BY <1>1, <1>8 DEF Signal, setup, work, probes
<1>9. CASE Gone
  BY <1>9 DEF Gone
<1>10. CASE Tick
  BY <1>10 DEF Tick, setup, work, probes
<1>11. CASE UNCHANGED vars
  BY <1>1, <1>11 DEF vars, setup, work, probes
<1> QED BY <1>2, <1>3, <1>4, <1>5, <1>6, <1>7, <1>8, <1>9, <1>10, <1>11 DEF Next, Main

(* Only the handler answers, and it looks at the clock last.               *)
LEMMA AnswerStep ==
  ASSUME Clock, [Next]_vars, answer' = "200", answer # "200"
  PROVE  lastSync # 0 /\ now - lastSync <= window
<1>1. CASE Healthz
  <2>1. probe \in Nat /\ probe # 0 /\ now - probe <= window
    BY <1>1 DEF Healthz
  <2> QED BY <2>1 DEF Clock, Idle, Arrived
<1>2. ~(Exec \/ Main \/ StoreFails \/ WorkerSteps)
  BY DEF Exec, Main, Reject, Configure, StoreFails, WithHealth, WorkerReturnsAlone,
         WorkerReturns, Join, Exit, WorkerSteps, probes
<1>3. ~(RunHealthServer \/ Serve)
  BY DEF RunHealthServer, Serve, Listen, ListenFails, ServeEnded, ShutdownStarts,
         ShutdownReturns, ShutdownExpires, Drain, HealthReturns, StepTo,
         ServeBegins, ServeFails, ServeCloses, others, probes
<1>4. ~(ProbeArrives \/ ProbeReads \/ Signal \/ Gone \/ Tick \/ UNCHANGED vars)
  BY DEF ProbeArrives, ProbeReads, Signal, Gone, Tick, vars, probes
<1> QED BY <1>1, <1>2, <1>3, <1>4 DEF Next

(* /healthz never answers 200 for a synchronisation that is not there or   *)
(* not in the window, although it reads the time before the clock.         *)
THEOREM GreenFresh == Spec => GreenIsFresh
<1>1. Init => Clock
  BY DEF Init, Clock, Idle
<1>2. Clock /\ Started /\ [Next]_vars => Clock'
  BY ClockStep
<1>3. Clock /\ [Next]_vars
      => [ answer' = "200" /\ answer # "200" => lastSync # 0 /\ now - lastSync <= window ]_vars
  BY AnswerStep
<1> QED BY <1>1, <1>2, <1>3, StartedHolds, PTL DEF Spec, GreenIsFresh
=============================================================================
