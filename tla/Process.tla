------------------------------- MODULE Process ------------------------------
(***************************************************************************)
(* One certific process from exec to exit (cmd/certific/main.go and        *)
(* health.go): main, the goroutine of the health server and the one that   *)
(* serves HTTP share a context around a worker.  Of the worker only what   *)
(* module Worker promises is used; Uploader and Downloader implement that. *)
(***************************************************************************)
EXTENDS Config

CONSTANTS Inputs,     \* the flags, variables and files a process may be started with
          MaxTime     \* bound on the clock

NoInput == [args |-> "none"]

Durations == Int \cup {Absent, Empty, Garbage}

Settings == {"mode", "path", "outDir", "bucket", "key", "healthAddr", "interval",
             "healthGrace", "logLevel"}

ASSUME ProcessAssumption ==
  /\ MaxTime \in Nat \ {0}
  /\ NoInput \notin Inputs
  /\ \A i \in Inputs :
       /\ Settings \subseteq DOMAIN i.env
       /\ \A d \in {"interval", "healthGrace"} :
            {i.args[d], i.env[d]} \subseteq Durations /\ i.files[d] \in Durations \cup {Unreadable}

VARIABLES
  main,       \* where main stands
  input,      \* what the process was started with, until that is resolved
  mode,       \* cfg.Mode
  window,     \* freshness window of /healthz, 0 when there is no health server
  result,     \* what run returns: no error, or whose
  signalled,  \* ctx is done
  cancelled,  \* workerCtx is done
  phase,      \* the worker, as in module Worker
  lastSync,   \* what its LastSync returns
  now,        \* the clock
  health,     \* where RunHealthServer stands
  healthErr,  \* what it returned
  serve,      \* where srv.Serve stands; its error, once it has returned, is in serveErr
  closing,    \* Shutdown was called
  listening,  \* the port is taken
  probe,      \* a request for /healthz: none, arrived, or the lastSync it read
  answer      \* its answer

server == <<health, healthErr, serve, closing, listening>>
probes == <<probe, answer>>
setup  == <<input, mode, window>>
work   == <<phase, lastSync>>
flags  == <<signalled, cancelled>>
vars   == <<main, setup, result, flags, work, now, server, probes>>

(* What only main, the worker and /healthz change.                         *)
others == <<main, setup, result, signalled, work, now, probes>>

W == INSTANCE Worker WITH Fallible <- TRUE             \* an uploader
Downloading == INSTANCE Worker WITH Fallible <- FALSE  \* a downloader

Idle == -2
Arrived == -1

Errors == {"config", "store", "worker", "listen", "serve"}

TypeOK ==
  /\ main \in {"off", "start", "store", "worker", "join", "exited"}
  /\ main = "start" <=> input # NoInput
  /\ mode \in Modes \cup {"none"}
  /\ window \in Nat
  /\ result \in {"none", "ok"} \cup Errors
  /\ signalled \in BOOLEAN /\ cancelled \in BOOLEAN
  /\ phase \in W!Alive \cup W!Ended
  /\ lastSync \in 0..now /\ now \in 1..MaxTime
  /\ health \in {"off", "listen", "select", "shutdown", "drain", "return", "ended"}
  /\ healthErr \in {"ok", "listen", "serve"}
  /\ serve \in {"none", "begin", "accept", "closed", "error"}
  /\ closing \in BOOLEAN /\ listening \in BOOLEAN
  /\ probe \in {Idle, Arrived} \cup 0..MaxTime
  /\ answer \in {"none", "200", "503"}

Init ==
  /\ main = "off" /\ input = NoInput /\ mode = "none" /\ window = 0 /\ result = "none"
  /\ signalled = FALSE /\ cancelled = FALSE
  /\ phase = "down" /\ lastSync = 0 /\ now = 1
  /\ health = "off" /\ healthErr = "ok"
  /\ serve = "none" /\ closing = FALSE /\ listening = FALSE
  /\ probe = Idle /\ answer = "none"

-----------------------------------------------------------------------------
(* main, run, runUpload and runDownload.                                   *)

Exec ==
  /\ main = "off"
  /\ main' = "start" /\ input' \in Inputs
  /\ UNCHANGED <<mode, window, result, flags, work, now, server, probes>>

Env == resolveFileEnv(input.env, input.files)

Runnable == FilesReadable(input.env, input.files) /\ Accepts(input.args, Env)

Cfg == LoadConfig(input.args, Env)

Exit(r) ==
  /\ main' = "exited" /\ result' = r /\ input' = NoInput
  /\ UNCHANGED <<mode, window, flags, work, now, server, probes>>

Reject == main = "start" /\ ~Runnable /\ Exit("config")

Configure ==
  /\ main = "start" /\ Runnable
  /\ main' = "store" /\ input' = NoInput
  /\ mode' = Cfg.mode
  /\ window' = IF Cfg.healthAddr = Empty THEN 0 ELSE freshness(Cfg)
  /\ UNCHANGED <<result, flags, work, now, server, probes>>

StoreFails == main = "store" /\ Exit("store")

(* withHealth: the worker runs in main's goroutine, the server beside it.  *)
WithHealth ==
  /\ main = "store"
  /\ main' = "worker"
  /\ phase' = IF mode = "upload" THEN W!Start ELSE Downloading!Start
  /\ cancelled' = signalled
  /\ health' = IF window = 0 THEN "off" ELSE "listen"
  /\ UNCHANGED <<setup, result, signalled, lastSync, now, healthErr, serve, closing,
                 listening, probes>>

WorkerSteps ==
  /\ main = "worker"
  /\ W!Serve \/ W!Fail \/ W!Sync \/ W!Finish
  /\ UNCHANGED <<main, setup, result, signalled, server, probes>>

WorkerErr == IF phase = "failed" THEN "worker" ELSE "ok"

WorkerReturnsAlone ==
  main = "worker" /\ phase \in W!Ended /\ health = "off" /\ Exit(WorkerErr)

WorkerReturns ==
  /\ main = "worker" /\ phase \in W!Ended /\ health # "off"
  /\ main' = "join" /\ cancelled' = TRUE
  /\ UNCHANGED <<setup, result, signalled, work, now, server, probes>>

JoinDropsError ==   \* mutant: only the worker's error counts
  main = "join" /\ health = "ended" /\ Exit(WorkerErr)

(* wg.Wait; the worker's error, or else the health server's.               *)
Join ==
  /\ main = "join" /\ health = "ended"
  /\ Exit(IF WorkerErr # "ok" THEN WorkerErr ELSE healthErr)

-----------------------------------------------------------------------------
(* RunHealthServer and the goroutine it starts.                            *)

Listen ==
  /\ health = "listen" /\ health' = "select"
  /\ listening' = TRUE /\ serve' = "begin"
  /\ UNCHANGED <<others, cancelled, healthErr, closing>>

ListenFails ==
  /\ health = "listen" /\ health' = "return"
  /\ healthErr' = "listen"
  /\ UNCHANGED <<others, cancelled, serve, closing, listening>>

(* Serve takes the listener over, or closes it if Shutdown came first.     *)
ServeBegins ==
  /\ serve = "begin" /\ serve' = IF closing THEN "closed" ELSE "accept"
  /\ listening' = ~closing
  /\ UNCHANGED <<others, cancelled, health, healthErr, closing>>

ServeFails ==
  /\ serve = "accept" /\ ~closing /\ serve' = "error"
  /\ listening' = FALSE
  /\ UNCHANGED <<others, cancelled, health, healthErr, closing>>

ServeCloses ==
  /\ serve = "accept" /\ closing /\ serve' = "closed"
  /\ UNCHANGED <<others, cancelled, health, healthErr, closing, listening>>

(* Shutdown closes a listener that Serve has taken over, no other.         *)
ShutdownStarts ==
  /\ health = "select" /\ cancelled /\ health' = "shutdown"
  /\ closing' = TRUE
  /\ listening' = (listening /\ serve = "begin")
  /\ UNCHANGED <<others, cancelled, healthErr, serve>>

StepTo(to) == health' = to /\ UNCHANGED <<others, cancelled, healthErr, serve, closing, listening>>

(* Shutdown returns when no request is left, ...                           *)
ShutdownReturns == health = "shutdown" /\ probe = Idle /\ StepTo("drain")

ShutdownUnbounded == FALSE   \* mutant: Shutdown without a timeout

(* ... or after five seconds.                                              *)
ShutdownExpires == health = "shutdown" /\ probe # Idle /\ StepTo("drain")

Served == serve \in {"closed", "error"}

DrainNothing == health = "drain" /\ StepTo("return")   \* mutant: serveErr is not received

Drain == health = "drain" /\ Served /\ StepTo("return")

(* The select receives from serveErr.                                      *)
ServeEnded ==
  /\ health = "select" /\ Served /\ health' = "return"
  /\ healthErr' = IF serve = "closed" THEN "ok" ELSE "serve"
  /\ UNCHANGED <<others, cancelled, serve, closing, listening>>

(* withHealth's goroutine cancels the worker before it is done.            *)
HealthReturns ==
  /\ health = "return" /\ health' = "ended"
  /\ cancelled' = TRUE
  /\ UNCHANGED <<others, healthErr, serve, closing, listening>>

-----------------------------------------------------------------------------
(* /healthz.                                                               *)

ProbeReads ==
  /\ probe = Arrived /\ probe' = lastSync
  /\ UNCHANGED <<main, setup, result, flags, work, now, server, answer>>

HealthzEarly ==   \* mutant: the zero time is taken as a synchronisation
  /\ probe \in Nat /\ probe' = Idle
  /\ answer' = IF now - probe <= window THEN "200" ELSE "503"
  /\ UNCHANGED <<main, setup, result, flags, work, now, server>>

(* The clock is read after lastSync.                                       *)
Healthz ==
  /\ probe \in Nat /\ probe' = Idle
  /\ answer' = IF probe # 0 /\ now - probe <= window THEN "200" ELSE "503"
  /\ UNCHANGED <<main, setup, result, flags, work, now, server>>

-----------------------------------------------------------------------------
(* The environment.                                                        *)

ProbeArrives ==
  /\ probe = Idle /\ serve = "accept" /\ ~closing
  /\ probe' = Arrived /\ answer' = "none"
  /\ UNCHANGED <<main, setup, result, flags, work, now, server>>

(* SIGTERM or SIGINT cancels ctx, and workerCtx with it.                   *)
Signal ==
  /\ main \notin {"off", "exited"} /\ ~signalled
  /\ signalled' = TRUE
  /\ cancelled' = (cancelled \/ main \in {"worker", "join"})
  /\ UNCHANGED <<main, setup, result, work, now, server, probes>>

(* The process is killed, or over: nothing of it is left.                  *)
Gone ==
  /\ main # "off"
  /\ main' = "off" /\ input' = NoInput /\ mode' = "none" /\ window' = 0 /\ result' = "none"
  /\ signalled' = FALSE /\ cancelled' = FALSE
  /\ phase' = "down" /\ lastSync' = 0
  /\ health' = "off" /\ healthErr' = "ok"
  /\ serve' = "none" /\ closing' = FALSE /\ listening' = FALSE
  /\ probe' = Idle /\ answer' = "none"
  /\ UNCHANGED now

Tick ==
  /\ now < MaxTime /\ now' = now + 1
  /\ UNCHANGED <<main, setup, result, flags, work, server, probes>>

-----------------------------------------------------------------------------
Main == \/ Reject \/ Configure \/ WithHealth
        \/ WorkerReturnsAlone \/ WorkerReturns \/ Join

RunHealthServer == \/ Listen \/ ListenFails \/ ServeEnded
                   \/ ShutdownStarts \/ ShutdownReturns \/ ShutdownExpires
                   \/ Drain \/ HealthReturns

Serve == ServeBegins \/ ServeFails \/ ServeCloses

Next == \/ Exec \/ Main \/ StoreFails \/ WorkerSteps
        \/ RunHealthServer \/ Serve
        \/ ProbeArrives \/ ProbeReads \/ Healthz
        \/ Signal \/ Gone \/ Tick

Spec == Init /\ [][Next]_vars

(* Uploader!ShutdownEnds and Downloader!StopEnds: a cancelled worker ends. *)
WorkerStops == WorkerSteps /\ cancelled /\ phase' \in W!Ended

(* Goroutines are scheduled and timers fire.  Nothing is assumed of the    *)
(* port, of clients, of S3, nor that a handler ever finishes.              *)
Fairness ==
  /\ WF_vars(Main) /\ WF_vars(RunHealthServer)
  /\ WF_vars(ServeBegins) /\ WF_vars(ServeCloses)
  /\ WF_vars(WorkerStops)

FairSpec == Spec /\ Fairness

-----------------------------------------------------------------------------
(* Properties.                                                             *)

(* When run returns, the goroutines withHealth started have ended and the  *)
(* port is free, also when Shutdown overtook Serve: the next process can   *)
(* bind it.                                                                *)
NothingLeft ==
  main = "exited" => health \in {"off", "ended"} /\ ~listening /\ serve \notin {"begin", "accept"}

(* An exit code of 0 means that somebody asked for it by a signal, and     *)
(* that neither the worker nor the health server had an error: a           *)
(* supervisor that restarts on failure never takes a death for an end.     *)
ZeroMeansAsked ==
  main = "exited" /\ result = "ok" => signalled /\ phase # "failed" /\ healthErr = "ok"

(* A 200 is given only while the latest synchronisation of this process is *)
(* within the window, although lastSync and the clock are read one after   *)
(* the other while the worker goes on: a worker that has not synchronised  *)
(* yet, or that stopped doing so a window ago, wedged or shutting down,    *)
(* does not look healthy.                                                  *)
GreenIsFresh ==
  [][ answer' = "200" /\ answer # "200" => lastSync # 0 /\ now - lastSync <= window ]_vars

(* What LoadConfig accepts can run: a download interval that Downloader    *)
(* accepts and MinInterval..MaxInterval allows, one of path and out-dir,   *)
(* and a window in which /healthz can be green, for a downloader one that  *)
(* two polls fit in, wherever each setting came from.                      *)
AcceptedIsRunnable ==
  [][ main = "start" /\ main' = "store" =>
        /\ freshness(Cfg) > 0
        /\ Cfg.mode = "download" => /\ Cfg.interval \in MinInterval..MaxInterval
                                    /\ freshness(Cfg) >= 2 * Cfg.interval
        /\ {Cfg.path, Cfg.outDir} \cap {Empty} # {} /\ {Cfg.path, Cfg.outDir} # {Empty} ]_vars

OtherDuration(m) == IF m = "upload" THEN "interval" ELSE "healthGrace"

(* README.md:164-167, config.go:206-208: a duration variable of the other  *)
(* mode, as long as it is a duration, makes no difference, so that one     *)
(* environment can be shared by uploaders and downloaders.                 *)
OtherModesDurationIgnored ==
  [][ main = "start" /\ main' = "store" =>
        \A d \in {Absent, Empty} \cup -1..(MaxInterval + 1) :
          LET env == [Env EXCEPT ![OtherDuration(Cfg.mode)] = d]
          IN  Accepts(input.args, env) /\ LoadConfig(input.args, env) = Cfg ]_vars

(* After a signal, after the end of the worker and after the end of the    *)
(* health server, whichever comes first, the process ends, even if a       *)
(* client never finishes its request: nothing runs on blind.               *)
EndsTogether ==
  (signalled \/ health = "ended" \/ (main = "worker" /\ phase \in W!Ended))
    ~> main \in {"exited", "off"}
=============================================================================
