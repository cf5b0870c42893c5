------------------------------- MODULE Pacing -------------------------------
(***************************************************************************)
(* How long a downloader may go without a synchronisation: the polling     *)
(* interval, the attempts of a cycle and their jittered exponential        *)
(* backoff (downloader.go, uploader.go), against the window of two         *)
(* intervals that /healthz gives it (cmd/certific/main.go).                *)
(*                                                                         *)
(* One tick of the clock is any unit that divides the durations.  Trouble  *)
(* is whatever makes an attempt fail: S3 out of reach, a file that does    *)
(* not parse, a full disk.  An attempt takes at most Latency.              *)
(***************************************************************************)
EXTENDS Integers

CONSTANTS Interval,   \* Downloader.Interval
          Initial,    \* BackoffConfig.Initial
          Max,        \* BackoffConfig.Max
          Latency,    \* bound on one attempt
          MaxQuiet    \* bound on the clock since the latest synchronisation

ASSUME PacingAssumption == /\ {Interval, Initial, Max, MaxQuiet} \subseteq Nat \ {0}
                           /\ Initial <= Max
                           /\ Latency \in Nat

VARIABLES
  trouble,  \* an attempt made now would fail
  hit,      \* this attempt met trouble
  pc,       \* where cycle stands: in tryCycle, in sleepCtx, or Run waits
  delay,    \* cycle's delay
  spent,    \* time since then
  due,      \* when that ends
  quiet,    \* time since the latest synchronisation, or since the start
  failing,  \* history: an attempt of this cycle has failed
  since,    \* history: the time since the first one did
  calm      \* history: the time since there was trouble or a synchronisation

loop    == <<pc, delay, spent, due, failing>>
history == <<quiet, since, calm>>
vars    == <<trouble, hit, loop, history>>

TypeOK ==
  /\ trouble \in BOOLEAN /\ hit \in BOOLEAN /\ failing \in BOOLEAN
  /\ pc \in {"try", "sleep", "wait"}
  /\ delay \in Initial..Max
  /\ due \in Nat /\ spent \in 0..due
  /\ quiet \in 0..MaxQuiet
  /\ since \in Nat /\ calm \in Nat

(* The first cycle runs immediately.                                       *)
Init ==
  /\ trouble \in BOOLEAN /\ hit = trouble
  /\ pc = "try" /\ delay = Initial /\ spent = 0 /\ due \in 0..Latency
  /\ quiet = 0 /\ failing = FALSE /\ since = 0 /\ calm = 0

-----------------------------------------------------------------------------
nextDelayUncapped(d) == 2 * d   \* mutant: Max is not applied

nextDelay(d) == IF 2 * d > Max THEN Max ELSE 2 * d

jitterDoubles(d) == {t \in 0..(2 * d) : t >= d}   \* mutant: up to 100 % of d is added

(* d, give or take a fifth.                                                *)
jitter(d) == {t \in 0..(2 * d) : 8 * d <= 10 * t /\ 10 * t <= 12 * d}

Enter(where) == pc' = where /\ spent' = 0

Try == Enter("try") /\ due' \in 0..Latency /\ hit' = trouble /\ UNCHANGED <<trouble, failing, history>>

(* tryCycle returns nil or errSkipped; Run waits for after(d.Interval).    *)
Succeeds ==
  /\ pc = "try" /\ spent = due
  /\ Enter("wait") /\ due' = Interval
  /\ failing' = FALSE
  /\ quiet' = 0 /\ since' = 0 /\ calm' = 0
  /\ UNCHANGED <<trouble, hit, delay>>

Fails ==
  /\ pc = "try" /\ spent = due /\ hit
  /\ Enter("sleep") /\ due' \in jitter(delay)
  /\ failing' = TRUE
  /\ UNCHANGED <<trouble, hit, delay, history>>

Wakes ==
  /\ pc = "sleep" /\ spent = due
  /\ delay' = nextDelay(delay)
  /\ Try

NextCycleKeepsDelay == pc = "wait" /\ spent = due /\ Try /\ UNCHANGED delay   \* mutant: the backoff is not reset

NextCycle ==
  /\ pc = "wait" /\ spent = due
  /\ delay' = Initial
  /\ Try

-----------------------------------------------------------------------------
Breaks ==
  /\ ~trouble /\ trouble' = TRUE
  /\ hit' = TRUE /\ calm' = 0
  /\ UNCHANGED <<loop, quiet, since>>

Mends ==
  /\ trouble /\ trouble' = FALSE
  /\ UNCHANGED <<hit, loop, history>>

Tick ==
  /\ spent < due /\ quiet < MaxQuiet
  /\ spent' = spent + 1 /\ quiet' = quiet + 1
  /\ since' = IF failing THEN since + 1 ELSE 0
  /\ calm' = IF trouble THEN 0 ELSE calm + 1
  /\ UNCHANGED <<trouble, hit, pc, delay, due, failing>>

Next == Succeeds \/ Fails \/ Wakes \/ NextCycle \/ Breaks \/ Mends \/ Tick

Spec == Init /\ [][Next]_vars

-----------------------------------------------------------------------------
(* Properties; all in tenths.                                              *)

Smaller(a, b) == IF a < b THEN a ELSE b
Larger(a, b) == IF a < b THEN b ELSE a

(* From the first failed attempt of the cycle, if one has failed, to the   *)
(* end of the trouble.                                                     *)
Outage == IF failing THEN since - calm ELSE 0

(* What the backoff may add to an outage: the sleep it ends in and the     *)
(* attempts on either side.  The sleeps before grew with the outage.       *)
Overshoot == Smaller(35 * Latency + 12 * Initial + 15 * Outage, 20 * Latency + 12 * Max)

(* /healthz of a downloader turns 503 only for trouble that lasts: an      *)
(* outage with its overshoot outlives the second of the two intervals (by  *)
(* default, 23 s of it are always survived), whatever the jitter and       *)
(* however many outages there were before.                                 *)
ShortOutageStaysGreen ==
  quiet > 2 * Interval => 10 * Interval < 10 * Latency + 10 * Outage + Overshoot

(* Without trouble, the next synchronisation is at most the longest sleep  *)
(* or an interval away, and the attempts on either side.                   *)
PromptRecovery == 10 * calm <= 10 * Latency + Larger(10 * Interval, 10 * Latency + 12 * Max)
=============================================================================
