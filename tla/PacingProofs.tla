---------------------------- MODULE PacingProofs ----------------------------
(***************************************************************************)
(* Module Pacing for every interval, backoff and latency: the types, that  *)
(* a short outage leaves /healthz green, and that recovery is prompt.      *)
(***************************************************************************)
EXTENDS Pacing, TLAPS

(* The parts of the types that mix no numbers with Booleans.               *)
Flags == trouble \in BOOLEAN /\ hit \in BOOLEAN /\ failing \in BOOLEAN
Places == pc \in {"try", "sleep", "wait"}
Numbers == /\ delay \in Initial..Max
           /\ due \in Nat /\ spent \in 0..due
           /\ quiet \in 0..MaxQuiet
           /\ since \in Nat /\ calm \in Nat

(* The sum of the sleeps so far is at least four fifths of what the delay  *)
(* has grown by.                                                           *)
Grown(slept) == 8 * (delay - Initial) <= 10 * slept

Waiting == ~failing /\ due = Interval /\ quiet = spent

Sleeping ==
  /\ failing
  /\ 10 * due <= 12 * delay /\ 8 * delay <= 10 * due
  /\ calm <= Latency + spent
  /\ Grown(since - spent)

Trying ==
  /\ due <= Latency
  /\ hit => calm <= spent
  /\ ~failing => delay = Initial /\ quiet <= Interval + spent
  /\ failing => /\ Grown(since - spent)
                /\ 10 * calm <= 10 * Latency + 10 * spent + 12 * Max
                /\ 10 * calm <= 25 * Latency + 10 * spent + 12 * Initial + 15 * Outage

Timing ==
  /\ trouble => calm = 0
  /\ calm <= quiet
  /\ ~failing => since = 0
  /\ failing => quiet <= Interval + Latency + since
  /\ pc = "wait" => Waiting
  /\ pc = "sleep" => Sleeping
  /\ pc = "try" => Trying

LEMMA TypesSplit == TypeOK <=> Flags /\ Places /\ Numbers
  BY DEF TypeOK, Flags, Places, Numbers

LEMMA Constants ==
  /\ Interval \in Nat /\ Interval > 0 /\ Initial \in Nat /\ Initial > 0
  /\ Max \in Nat /\ Initial <= Max /\ Latency \in Nat /\ MaxQuiet \in Nat
  BY PacingAssumption

LEMMA NextDelayBounds ==
  ASSUME NEW d \in Initial..Max
  PROVE  nextDelay(d) \in Initial..Max /\ nextDelay(d) <= 2 * d
  BY Constants DEF nextDelay

LEMMA JitterBounds ==
  ASSUME NEW d \in Nat, NEW t \in jitter(d)
  PROVE  t \in Nat /\ 8 * d <= 10 * t /\ 10 * t <= 12 * d
  BY DEF jitter

-----------------------------------------------------------------------------
LEMMA InitTypes == Init => TypeOK
<1> SUFFICES ASSUME Init PROVE TypeOK
  OBVIOUS
<1>1. Flags
  BY DEF Init, Flags
<1>2. Places
  BY DEF Init, Places
<1>3. Numbers
  BY Constants DEF Init, Numbers
<1> QED BY <1>1, <1>2, <1>3, TypesSplit

LEMMA NextTypes == TypeOK /\ [Next]_vars => TypeOK'
<1> SUFFICES ASSUME TypeOK, [Next]_vars PROVE TypeOK'
  OBVIOUS
<1>0. Flags /\ Places /\ Numbers
  BY TypesSplit
<1> SUFFICES Flags' /\ Places' /\ Numbers'
  BY DEF TypeOK, Flags, Places, Numbers
<1>1. CASE Succeeds
  <2>1. Flags'
    BY <1>0, <1>1 DEF Succeeds, Flags
  <2>2. Places'
    BY <1>1 DEF Succeeds, Enter, Places
  <2>3. Numbers'
    BY <1>0, <1>1, Constants DEF Succeeds, Enter, Numbers
  <2> QED BY <2>1, <2>2, <2>3
<1>2. CASE Fails
  <2>1. Flags'
    BY <1>0, <1>2 DEF Fails, history, Flags
  <2>2. Places'
    BY <1>2 DEF Fails, Enter, Places
  <2>3. delay \in Nat /\ due' \in jitter(delay)
    BY <1>0, <1>2, Constants DEF Fails, Numbers
  <2>4. due' \in Nat
    BY <2>3, JitterBounds
  <2>5. Numbers'
    BY <1>0, <1>2, <2>4 DEF Fails, Enter, history, Numbers
  <2> QED BY <2>1, <2>2, <2>5
<1>3. CASE Wakes
  <2>1. Flags'
    BY <1>0, <1>3 DEF Wakes, Try, history, Flags
  <2>2. Places'
    BY <1>3 DEF Wakes, Try, Enter, Places
  <2>3. delay' \in Initial..Max
    BY <1>0, <1>3, NextDelayBounds DEF Wakes, Numbers
  <2>4. Numbers'
    BY <1>0, <1>3, <2>3, Constants DEF Wakes, Try, Enter, history, Numbers
  <2> QED BY <2>1, <2>2, <2>4
<1>4. CASE NextCycle
  <2>1. Flags'
    BY <1>0, <1>4 DEF NextCycle, Try, history, Flags
  <2>2. Places'
    BY <1>4 DEF NextCycle, Try, Enter, Places
  <2>3. Numbers'
    BY <1>0, <1>4, Constants DEF NextCycle, Try, Enter, history, Numbers
  <2> QED BY <2>1, <2>2, <2>3
<1>5. CASE Breaks
  <2>1. Flags'
    BY <1>0, <1>5 DEF Breaks, loop, Flags
  <2>2. Places' /\ Numbers'
    BY <1>0, <1>5 DEF Breaks, loop, Places, Numbers
  <2> QED BY <2>1, <2>2
<1>6. CASE Mends
  <2>1. Flags'
    BY <1>0, <1>6 DEF Mends, loop, Flags
  <2>2. Places' /\ Numbers'
    BY <1>0, <1>6 DEF Mends, loop, history, Places, Numbers
  <2> QED BY <2>1, <2>2
<1>7. CASE Tick
  <2>1. Flags'
    BY <1>0, <1>7 DEF Tick, Flags
  <2>2. Places'
    BY <1>0, <1>7 DEF Tick, Places
  <2>3. since' \in Nat /\ calm' \in Nat
    BY <1>0, <1>7 DEF Tick, Numbers
  <2>4. Numbers'
    BY <1>0, <1>7, <2>3, Constants DEF Tick, Numbers
  <2> QED BY <2>1, <2>2, <2>4
<1>8. CASE UNCHANGED vars
  BY <1>0, <1>8 DEF vars, loop, history, Flags, Places, Numbers
<1> QED BY <1>1, <1>2, <1>3, <1>4, <1>5, <1>6, <1>7, <1>8 DEF Next

(* Types: the delay stays between Initial and Max, and no phase is longer  *)
(* than it was to be.                                                      *)
THEOREM TypeCorrect == Spec => []TypeOK
  BY InitTypes, NextTypes, PTL DEF Spec
-----------------------------------------------------------------------------
LEMMA InitTiming == Init => Timing
  BY Constants DEF Init, Timing, Trying

LEMMA NextTiming == TypeOK /\ Timing /\ [Next]_vars => Timing'
<1> SUFFICES ASSUME TypeOK, Timing, [Next]_vars PROVE Timing'
  OBVIOUS
<1>0. Flags /\ Places /\ Numbers
  BY TypesSplit
<1> USE Constants
<1>1. CASE Succeeds
  <2>1. (trouble => calm = 0)' /\ (calm <= quiet)' /\ pc' = "wait" /\ ~failing' /\ since' = 0
    BY <1>1 DEF Succeeds, Enter
  <2>2. Waiting'
    BY <1>1 DEF Succeeds, Enter, Waiting
  <2> QED BY <2>1, <2>2 DEF Timing
<1>2. CASE Fails
  <2>1. delay \in Nat /\ due' \in jitter(delay) /\ pc' = "sleep" /\ failing' /\ Trying
    BY <1>0, <1>2 DEF Fails, Enter, Numbers, Timing
  <2>2. due' \in Nat /\ 8 * delay <= 10 * due' /\ 10 * due' <= 12 * delay
    BY <2>1, JitterBounds
  <2>3. spent' = 0 /\ spent = due /\ hit /\ UNCHANGED <<trouble, delay, quiet, since, calm>>
    BY <1>2 DEF Fails, Enter, history
  <2>4. calm <= Latency
    BY <1>0, <2>1, <2>3 DEF Trying, Numbers
  <2>5. Grown(since)
    BY <1>0, <2>1, <2>3 DEF Trying, Grown, Numbers, Timing
  <2>6. Grown(since - spent)'
    BY <1>0, <2>3, <2>5 DEF Grown, Numbers
  <2>7. (calm <= Latency + spent)'
    BY <2>3, <2>4
  <2>8. Sleeping'
    BY <2>1, <2>2, <2>3, <2>6, <2>7 DEF Sleeping
  <2>9. quiet <= Interval + Latency + since
    BY <1>0, <2>1, <2>3 DEF Trying, Numbers, Timing
  <2> QED BY <2>1, <2>3, <2>8, <2>9 DEF Timing
<1>3. CASE Wakes
  <2>1. Sleeping /\ spent = due /\ delay' = nextDelay(delay)
    BY <1>3 DEF Wakes, Timing
  <2>2. /\ pc' = "try" /\ spent' = 0 /\ due' \in 0..Latency /\ hit' = trouble
        /\ UNCHANGED <<trouble, failing, quiet, since, calm>>
    BY <1>3 DEF Wakes, Try, Enter, history
  <2>3. delay' \in Initial..Max /\ delay' <= 2 * delay
    BY <1>0, <2>1, NextDelayBounds DEF Numbers
  <2>4. Grown(since)'
    BY <1>0, <2>1, <2>2, <2>3 DEF Sleeping, Grown, Numbers
  <2>5. /\ 10 * calm <= 10 * Latency + 12 * Max
        /\ 10 * calm <= 25 * Latency + 12 * Initial + 15 * (since - calm)
    BY <1>0, <2>1 DEF Sleeping, Grown, Numbers
  <2>6. Trying'
    BY <1>0, <2>1, <2>2, <2>4, <2>5 DEF Trying, Sleeping, Grown, Outage, Numbers, Timing
  <2> QED BY <2>1, <2>2, <2>6 DEF Timing, Sleeping
<1>4. CASE NextCycle
  <2>1. Waiting /\ spent = due /\ delay' = Initial
    BY <1>4 DEF NextCycle, Timing
  <2>2. /\ pc' = "try" /\ spent' = 0 /\ due' \in 0..Latency /\ hit' = trouble
        /\ UNCHANGED <<trouble, failing, quiet, since, calm>>
    BY <1>4 DEF NextCycle, Try, Enter, history
  <2>3. Trying'
    BY <1>0, <2>1, <2>2 DEF Trying, Waiting, Numbers, Timing
  <2> QED BY <2>1, <2>2, <2>3 DEF Timing, Waiting
<1>5. CASE Breaks
  <2>1. /\ calm' = 0 /\ hit' /\ trouble'
        /\ UNCHANGED <<pc, delay, spent, due, failing, quiet, since>>
    BY <1>5 DEF Breaks, loop
  <2>2. pc = "wait" => Waiting'
    BY <2>1 DEF Waiting, Timing
  <2>3. pc = "sleep" => Sleeping'
    BY <1>0, <2>1 DEF Sleeping, Grown, Numbers, Timing
  <2>4. pc = "try" => Trying'
    BY <1>0, <2>1 DEF Trying, Grown, Outage, Numbers, Timing
  <2> QED BY <1>0, <2>1, <2>2, <2>3, <2>4 DEF Timing, Numbers
<1>6. CASE Mends
  BY <1>6 DEF Mends, loop, history, Timing, Waiting, Sleeping, Trying, Grown, Outage
<1>7. CASE Tick
  <2>1. /\ spent < due /\ spent' = spent + 1 /\ quiet' = quiet + 1
        /\ since' = (IF failing THEN since + 1 ELSE 0)
        /\ calm' = (IF trouble THEN 0 ELSE calm + 1)
        /\ UNCHANGED <<trouble, hit, pc, delay, due, failing>>
    BY <1>7 DEF Tick
  <2>2. since' \in Nat /\ calm' \in Nat /\ calm' <= calm + 1 /\ (trouble => calm' = 0)
    BY <1>0, <2>1 DEF Numbers
  <2>3. pc = "wait" => Waiting'
    BY <1>0, <2>1 DEF Waiting, Numbers, Timing
  <2>4. pc = "sleep" => Sleeping'
    BY <1>0, <2>1, <2>2 DEF Sleeping, Grown, Numbers, Timing
  <2>5. ASSUME pc = "try" PROVE Trying'
    <3>1. Trying
      BY <2>5 DEF Timing
    <3>2. due' <= Latency /\ (hit => calm <= spent)' /\ (~failing => delay = Initial /\ quiet <= Interval + spent)'
      BY <1>0, <2>1, <2>2, <3>1 DEF Trying, Numbers
    <3>3. failing => Grown(since - spent)'
      BY <1>0, <2>1, <3>1 DEF Trying, Grown, Numbers
    <3>4. failing => (10 * calm <= 10 * Latency + 10 * spent + 12 * Max)'
      BY <1>0, <2>1, <2>2, <3>1 DEF Trying, Numbers
    <3>5. failing => (10 * calm <= 25 * Latency + 10 * spent + 12 * Initial + 15 * Outage)'
      BY <1>0, <2>1, <2>2, <3>1 DEF Trying, Outage, Numbers
    <3> QED BY <2>1, <3>2, <3>3, <3>4, <3>5 DEF Trying
  <2>6. (calm <= quiet)' /\ (~failing => since = 0)' /\ (failing => quiet <= Interval + Latency + since)'
    BY <1>0, <2>1, <2>2 DEF Numbers, Timing
  <2> QED BY <2>1, <2>2, <2>3, <2>4, <2>5, <2>6 DEF Timing
<1>8. CASE UNCHANGED vars
  BY <1>8 DEF vars, loop, history, Timing, Waiting, Sleeping, Trying, Grown, Outage
<1> QED BY <1>1, <1>2, <1>3, <1>4, <1>5, <1>6, <1>7, <1>8 DEF Next

LEMMA TimingHolds == Spec => [](TypeOK /\ Timing)
  BY InitTypes, NextTypes, InitTiming, NextTiming, PTL DEF Spec

-----------------------------------------------------------------------------
(* What Timing says of the sleep an outage ends in.                        *)
LEMMA OvershootBound ==
  ASSUME TypeOK, Timing, failing
  PROVE  10 * calm <= Overshoot
<1>0. Flags /\ Places /\ Numbers
  BY TypesSplit
<1> USE Constants
<1>1. pc # "wait"
  BY DEF Timing, Waiting
<1>2. CASE pc = "sleep"
  <2>1. Sleeping
    BY <1>2 DEF Timing
  <2>2. 10 * calm <= 20 * Latency + 12 * Max
    BY <1>0, <2>1 DEF Sleeping, Numbers
  <2>3. 10 * calm <= 35 * Latency + 12 * Initial + 15 * (since - calm)
    BY <1>0, <2>1 DEF Sleeping, Grown, Numbers
  <2> QED BY <2>2, <2>3 DEF Overshoot, Outage, Smaller
<1>3. CASE pc = "try"
  <2>1. Trying
    BY <1>3 DEF Timing
  <2>2. 10 * calm <= 20 * Latency + 12 * Max
    BY <1>0, <2>1 DEF Trying, Numbers
  <2>3. 10 * calm <= 35 * Latency + 12 * Initial + 15 * (since - calm)
    BY <1>0, <2>1 DEF Trying, Outage, Numbers
  <2> QED BY <2>2, <2>3 DEF Overshoot, Outage, Smaller
<1> QED BY <1>0, <1>1, <1>2, <1>3 DEF Places

(* /healthz turns 503 only for trouble longer than an interval less its    *)
(* overshoot, for every interval, backoff, jitter and latency: with no     *)
(* failed attempt the latest synchronisation is an interval and an attempt *)
(* ago, with one the age is that, the outage and the time since.           *)
THEOREM ShortOutages == Spec => []ShortOutageStaysGreen
<1>1. TypeOK /\ Timing => ShortOutageStaysGreen
  <2> SUFFICES ASSUME TypeOK, Timing, quiet > 2 * Interval
               PROVE  10 * Interval < 10 * Latency + 10 * Outage + Overshoot
    BY DEF ShortOutageStaysGreen
  <2>0. Flags /\ Places /\ Numbers
    BY TypesSplit
  <2>1. CASE failing
    <3>1. 10 * calm <= Overshoot
      BY <2>1, OvershootBound
    <3>2. quiet <= Interval + Latency + since
      BY <2>1 DEF Timing
    <3>3. Overshoot \in Int
      BY <2>0, <2>1, Constants DEF Overshoot, Outage, Smaller, Numbers
    <3> QED BY <2>0, <2>1, <3>1, <3>2, <3>3, Constants DEF Outage, Numbers
  <2>2. CASE ~failing
    <3>1. quiet <= Interval + Latency
      BY <2>0, <2>2, Constants DEF Timing, Waiting, Sleeping, Trying, Places, Numbers
    <3>2. Overshoot >= 0 /\ Overshoot \in Int
      BY <2>2, Constants DEF Overshoot, Outage, Smaller
    <3> QED BY <2>0, <2>2, <3>1, <3>2, Constants DEF Outage, Numbers
  <2> QED BY <2>1, <2>2
<1> QED BY <1>1, TimingHolds, PTL

(* Recovery is prompt: the last sleep is at most Max and a fifth, and the  *)
(* attempt that failed before it met the trouble.                          *)
THEOREM Recovery == Spec => []PromptRecovery
<1>1. TypeOK /\ Timing => PromptRecovery
  <2> SUFFICES ASSUME TypeOK, Timing PROVE PromptRecovery
    OBVIOUS
  <2>0. Flags /\ Places /\ Numbers
    BY TypesSplit
  <2>1. CASE failing
    <3>1. 10 * calm <= 20 * Latency + 12 * Max
      <4>1. 10 * calm <= Overshoot
        BY <2>1, OvershootBound
      <4> QED BY <2>0, <4>1, Constants DEF Overshoot, Outage, Smaller, Numbers
    <3> QED BY <2>0, <3>1, Constants DEF PromptRecovery, Larger, Numbers
  <2>2. CASE ~failing
    <3>1. calm <= Interval + Latency
      BY <2>0, <2>2, Constants DEF Timing, Waiting, Sleeping, Trying, Places, Numbers
    <3> QED BY <2>0, <3>1, Constants DEF PromptRecovery, Larger, Numbers
  <2> QED BY <2>1, <2>2
<1> QED BY <1>1, TimingHolds, PTL
=============================================================================
