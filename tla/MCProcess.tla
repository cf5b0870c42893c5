------------------------------ MODULE MCProcess -----------------------------
(***************************************************************************)
(* What a process is started with: modes and paths, a bucket and a key,    *)
(* durations, each in every combination of flag, variable and file with    *)
(* the other settings in order.                                            *)
(***************************************************************************)
EXTENDS Process

None == [mode |-> Absent, path |-> Absent, outDir |-> Absent, bucket |-> Absent,
         key |-> Absent, healthAddr |-> Absent,
         interval |-> Absent, healthGrace |-> Absent, logLevel |-> Absent]

MCPaths ==
  { [args  |-> [None EXCEPT !.mode = m, !.path = p, !.outDir = o, !.bucket = "b"],
     env   |-> [None EXCEPT !.mode = em, !.path = ep, !.outDir = eo, !.healthAddr = h],
     files |-> None] :
      m \in {Absent, "upload", "download"}, em \in {Absent, "download", "copy"},
      p \in {Absent, Empty, "p"}, ep \in {Absent, "p"},
      o \in {Absent, Empty, "p"}, eo \in {Absent, "p"}, h \in {Absent, ":80"} }

MCBuckets ==
  { [args  |-> [None EXCEPT !.mode = "upload", !.path = "p", !.bucket = b, !.key = k],
     env   |-> [None EXCEPT !.bucket = eb, !.healthAddr = ":80"],
     files |-> [None EXCEPT !.bucket = fb]] :
      b \in {Absent, Empty, "b"}, k \in {Absent, Empty},
      eb \in {Absent, Empty, "b"}, fb \in {Absent, Unreadable, "b"} }

MCDurations ==
  { [args  |-> [None EXCEPT !.mode = m, !.path = IF m = "upload" THEN "p" ELSE Absent,
                            !.outDir = IF m = "upload" THEN Absent ELSE "p",
                            !.bucket = "b", !.interval = i, !.healthGrace = g, !.logLevel = l],
     env   |-> [None EXCEPT !.interval = ei, !.healthGrace = eg, !.healthAddr = ":80"],
     files |-> None] :
      m \in {"upload", "download"}, l \in {Absent, Garbage},
      i \in {Absent, Empty, Garbage, MinInterval}, ei \in {Absent, Garbage, 0, MaxInterval},
      g \in {Absent, Empty, Garbage, 1}, eg \in {Absent, Garbage, -1, 0, 3} }

MCInputs == MCPaths \cup MCBuckets \cup MCDurations
=============================================================================
