------------------------------- MODULE Config -------------------------------
(***************************************************************************)
(* Configuration: *_FILE variables (cmd/certific/main.go), then flags over *)
(* CERTIFIC_* variables over defaults, then validation (config.go).        *)
(*                                                                         *)
(* args, env and files give each setting its flag, its variable and the    *)
(* content of the file its *_FILE variable names.  Texts are model values; *)
(* a duration is an integer or Garbage.  Of the log level only whether it  *)
(* is one matters.  Region and endpoint are passed on as they are, and the *)
(* errors are told apart by nobody: LoadConfig accepts or does not.        *)
(***************************************************************************)
EXTENDS Integers

CONSTANTS MinInterval, MaxInterval, DefaultInterval, DefaultHealthGrace,
          Absent,       \* not given at all
          Empty,        \* the empty text
          Garbage,      \* not a duration, not a log level
          Unreadable    \* a file that cannot be read

ASSUME ConfigAssumption ==
  /\ {MinInterval, MaxInterval, DefaultInterval, DefaultHealthGrace} \subseteq Nat \ {0}
  /\ DefaultInterval \in MinInterval..MaxInterval
  /\ Garbage \notin Int \cup {Absent, Empty}

Modes == {"upload", "download"}

-----------------------------------------------------------------------------
(* resolveFileEnv: a file stands in for a variable that is not set, not    *)
(* for one set to the empty text.                                          *)

Needed(env, files) == {s \in DOMAIN env : env[s] = Absent /\ files[s] # Absent}

FilesReadable(env, files) == \A s \in Needed(env, files) : files[s] # Unreadable

resolveFileEnv(env, files) ==
  [s \in DOMAIN env |-> IF s \in Needed(env, files) THEN files[s] ELSE env[s]]

-----------------------------------------------------------------------------
(* LoadConfig.                                                             *)

envOr(e, default) == IF e \in {Absent, Empty} THEN default ELSE e

(* A text flag that is given counts, also when it is given as empty ...    *)
textFlag(f, v) == IF f = Absent THEN v ELSE f

(* ... a duration flag given as empty does not.                            *)
FromFlag(f) == f \notin {Absent, Empty}

durationFlag(f, v) == IF FromFlag(f) THEN f ELSE v

(* Flag, variable, default, in that precedence.                            *)
Resolved(args, env) ==
  [mode        |-> textFlag(args.mode, envOr(env.mode, Empty)),
   path        |-> textFlag(args.path, envOr(env.path, Empty)),
   outDir      |-> textFlag(args.outDir, envOr(env.outDir, Empty)),
   bucket      |-> textFlag(args.bucket, envOr(env.bucket, Empty)),
   key         |-> textFlag(args.key, envOr(env.key, "acme.json")),
   healthAddr  |-> textFlag(args.healthAddr, envOr(env.healthAddr, Empty)),
   interval    |-> durationFlag(args.interval, envOr(env.interval, DefaultInterval)),
   healthGrace |-> durationFlag(args.healthGrace, envOr(env.healthGrace, DefaultHealthGrace))]

(* A malformed variable is an error even when a flag overrides it or the   *)
(* mode has no use for it.                                                 *)
Parses(args, env) ==
  \A s \in {"interval", "healthGrace", "logLevel"} : Garbage \notin {args[s], env[s]}

validateNoRange(c, intervalFromFlag, healthGraceFromFlag) ==   \* mutant: bounds unchecked
  /\ c.mode \in Modes
  /\ c.bucket # Empty /\ c.key # Empty
  /\ c.mode = "upload" => /\ c.path # Empty /\ c.outDir = Empty
                          /\ ~intervalFromFlag
  /\ c.mode = "download" => /\ c.outDir # Empty /\ c.path = Empty
                            /\ ~healthGraceFromFlag

validateBoth(c, intervalFromFlag, healthGraceFromFlag) ==   \* mutant: both durations are checked in both modes
  /\ c.mode \in Modes
  /\ c.bucket # Empty /\ c.key # Empty
  /\ c.healthGrace > 0 /\ c.interval \in MinInterval..MaxInterval
  /\ c.mode = "upload" => c.path # Empty /\ c.outDir = Empty /\ ~intervalFromFlag
  /\ c.mode = "download" => c.outDir # Empty /\ c.path = Empty /\ ~healthGraceFromFlag

validate(c, intervalFromFlag, healthGraceFromFlag) ==
  /\ c.mode \in Modes
  /\ c.bucket # Empty /\ c.key # Empty
  /\ c.mode = "upload" => /\ c.path # Empty /\ c.outDir = Empty
                          /\ ~intervalFromFlag
                          /\ c.healthGrace > 0
  /\ c.mode = "download" => /\ c.outDir # Empty /\ c.path = Empty
                            /\ ~healthGraceFromFlag
                            /\ c.interval \in MinInterval..MaxInterval

Accepts(args, env) ==
  /\ Parses(args, env)
  /\ validate(Resolved(args, env), FromFlag(args.interval), FromFlag(args.healthGrace))

(* The setting of the other mode is zeroed.                                *)
LoadConfig(args, env) ==
  LET c == Resolved(args, env)
  IN  IF c.mode = "download" THEN [c EXCEPT !.healthGrace = 0] ELSE [c EXCEPT !.interval = 0]

freshnessOneInterval(c) == IF c.mode = "download" THEN c.interval ELSE c.healthGrace   \* mutant: the budget is one interval

(* runUpload and runDownload: the freshness window of /healthz.            *)
freshness(c) == IF c.mode = "download" THEN 2 * c.interval ELSE c.healthGrace
=============================================================================
