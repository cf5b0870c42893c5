------------------------------- MODULE Worker -------------------------------
(***************************************************************************)
(* What an uploader and a downloader both promise to the process that runs *)
(* them, without their mechanisms: Run starts up, then serves until its    *)
(* context is cancelled.  Only the start-up may fail; nothing S3 does to a *)
(* worker that serves ends it.  LastSync is zero until the first success   *)
(* and afterwards the time of the latest one.                              *)
(***************************************************************************)
EXTENDS Integers

CONSTANT Fallible       \* whether starting up may fail

VARIABLES phase,        \* where Run stands
          cancelled,    \* its context is done
          lastSync,     \* what LastSync returns, 0 for never
          now           \* the clock

vars == <<phase, cancelled, lastSync, now>>

Alive == {"starting", "serving"}
Ended == {"ok", "failed", "down"}   \* Run returned nil or an error, or its process died

Start == IF Fallible THEN "starting" ELSE "serving"

Init == /\ phase = Start
        /\ cancelled \in BOOLEAN
        /\ lastSync = 0 /\ now \in Nat \ {0}

Serve == phase = "starting" /\ phase' = "serving" /\ UNCHANGED <<cancelled, lastSync, now>>

Fail == phase = "starting" /\ phase' = "failed" /\ UNCHANGED <<cancelled, lastSync, now>>

Sync == phase \in Alive /\ lastSync' = now /\ UNCHANGED <<phase, cancelled, now>>

(* A last synchronisation may coincide with the end: the shutdown flush.   *)
Finish == /\ phase = "serving" /\ cancelled
          /\ phase' = "ok"
          /\ lastSync' \in {lastSync, now}
          /\ UNCHANGED <<cancelled, now>>

Cancel == cancelled' = TRUE /\ UNCHANGED <<phase, lastSync, now>>

Die == phase' = "down" /\ cancelled' = FALSE /\ lastSync' = 0 /\ UNCHANGED now

Restart == /\ phase \in Ended /\ phase' = Start
           /\ cancelled' \in BOOLEAN /\ lastSync' = 0
           /\ UNCHANGED now

Tick == now' = now + 1 /\ UNCHANGED <<phase, cancelled, lastSync>>

Next == Serve \/ Fail \/ Sync \/ Finish \/ Cancel \/ Die \/ Restart \/ Tick

Spec == Init /\ [][Next]_vars
=============================================================================
