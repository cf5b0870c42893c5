--------------------------- MODULE UploaderProofs ---------------------------
(***************************************************************************)
(* Proofs about Uploader, for every number of versions, queue capacity and *)
(* clock bound: the inductive invariant, that an idle uploader has         *)
(* published the file, what a shutdown flush and lastSync promise, and     *)
(* that the uploader implements Publication.                               *)
(***************************************************************************)
EXTENDS Uploader, TLAPS

USE DEF ErrNotFound, PutFailed

USE UploaderAssumption

-----------------------------------------------------------------------------
(* The queue.                                                              *)

(* Consuming an event loses no match but the one consumed.                 *)
LEMMA MatchTail ==
  ASSUME NEW q \in Seq(Events), q # <<>>, HasMatch(q)
  PROVE  eventMatches(Head(q)) \/ HasMatch(Tail(q))
<1>1. PICK i \in 1..Len(q) : eventMatches(q[i])
  BY DEF HasMatch
<1>2. CASE i = 1
  BY <1>1, <1>2
<1>3. CASE i # 1
  <2>1. i - 1 \in 1..Len(Tail(q)) /\ Tail(q)[i - 1] = q[i]
    BY <1>3
  <2> QED BY <1>1, <2>1 DEF HasMatch
<1> QED BY <1>2, <1>3

(* Appending an event keeps every match, and is one if the event matches.  *)
LEMMA MatchAppend ==
  ASSUME NEW q \in Seq(Events), NEW ev \in Events,
         HasMatch(q) \/ eventMatches(ev)
  PROVE  HasMatch(Append(q, ev))
<1>1. /\ Len(Append(q, ev)) = Len(q) + 1
      /\ Append(q, ev)[Len(q) + 1] = ev
      /\ \A i \in 1..Len(q) : Append(q, ev)[i] = q[i]
  OBVIOUS
<1>2. CASE eventMatches(ev)
  BY <1>1, <1>2 DEF HasMatch
<1>3. CASE HasMatch(q)
  BY <1>1, <1>3 DEF HasMatch
<1> QED BY <1>2, <1>3

(* The kernel's queue keeps its bound and forgets no change: a matching    *)
(* event ends up in the queue, or the change is known as missed.           *)
LEMMA NotifyQueue ==
  ASSUME TypeOK, NEW ev \in Events, Notify(ev)
  PROVE  /\ QueueOK' /\ missed' \in BOOLEAN
         /\ HasMatch(queue) => HasMatch(queue')
         /\ missed => missed'
         /\ pc \in Watched /\ eventMatches(ev) => missed' \/ HasMatch(queue')
<1>0. QueueOK /\ queue \in Seq(Events) /\ missed \in BOOLEAN
  BY DEF TypeOK, QueueOK
<1>1. CASE /\ pc \notin Watched \/ (ev \in {"write", "chmod"} /\ EndsWith(ev))
           /\ UNCHANGED <<queue, missed>>
  <2>1. pc \in Watched /\ eventMatches(ev) => HasMatch(queue)
    BY <1>0, <1>1 DEF EndsWith, HasMatch, eventMatches
  <2> QED BY <1>0, <1>1, <2>1 DEF QueueOK, EndsWith, HasMatch
<1>2. CASE /\ Len(queue) < QueueCap
           /\ queue' = Append(queue, ev) /\ UNCHANGED missed
  <2>1. QueueOK'
    BY <1>0, <1>2 DEF QueueOK, EndsWith
  <2> QED BY <1>0, <1>2, <2>1, MatchAppend
<1>3. CASE /\ Len(queue) >= QueueCap
           /\ queue' = IF EndsWith("overflow") THEN queue ELSE Append(queue, "overflow")
           /\ missed' = (missed \/ eventMatches(ev))
  <2>1. "overflow" \in Events
    BY DEF Events
  <2>2. QueueOK'
    <3>1. CASE EndsWith("overflow")
      BY <1>0, <1>3, <3>1 DEF QueueOK, EndsWith
    <3>2. CASE ~EndsWith("overflow")
      BY <1>0, <1>3, <2>1, <3>2 DEF QueueOK, EndsWith
    <3> QED BY <3>1, <3>2
  <2>3. HasMatch(queue) => HasMatch(queue')
    BY <1>0, <1>3, <2>1, MatchAppend
  <2>4. /\ missed' \in BOOLEAN /\ (missed => missed')
        /\ eventMatches(ev) => missed'
    BY <1>0, <1>3 DEF eventMatches
  <2> QED BY <2>2, <2>3, <2>4
<1> QED BY <1>1, <1>2, <1>3 DEF Notify

-----------------------------------------------------------------------------
(* Type correctness.                                                       *)

USE DEF Absent, Torn, Versions

(* What the issuer does to the disk keeps its types and touches nothing of *)
(* the uploader's but the queue.                                           *)
LEMMA IssuerType ==
  ASSUME TypeOK, Issuer
  PROVE  TypeOK'
<1> USE DEF TypeOK, Untouched, ctx, clock
<1>1. CASE IssuerTruncate
  <2>1. PICK ev \in Events : Notify(ev) /\ file' = -1
    BY <1>1 DEF IssuerTruncate, Events
  <2>2. QueueOK' /\ missed' \in BOOLEAN
    BY <2>1, NotifyQueue
  <2> QED BY <1>1, <2>1, <2>2 DEF IssuerTruncate, QueueOK
<1>2. ASSUME NEW v \in 1..MaxVersion, IssuerFinish(v) \/ IssuerReplace(v)
      PROVE  TypeOK'
  <2>1. PICK ev \in Events : Notify(ev)
    BY <1>2 DEF IssuerFinish, IssuerReplace, Events
  <2>2. QueueOK' /\ missed' \in BOOLEAN
    BY <2>1, NotifyQueue
  <2> QED BY <1>2, <2>2 DEF IssuerFinish, IssuerReplace, Issue, QueueOK
<1>3. ASSUME NEW ev \in Events, IssuerRemove(ev) \/ Noise(ev)
      PROVE  TypeOK'
  <2>1. QueueOK' /\ missed' \in BOOLEAN
    BY <1>3, NotifyQueue DEF IssuerRemove, Noise
  <2> QED BY <1>3, <2>1 DEF IssuerRemove, Noise, QueueOK, disk
<1> QED BY <1>1, <1>2, <1>3 DEF Issuer

(* The steps on the queue other than Notify keep its bound.               *)
LEMMA QueueSteps ==
  ASSUME QueueOK
  PROVE  /\ UNCHANGED queue => QueueOK'
         /\ queue' = <<>> => QueueOK'
         /\ queue # <<>> /\ queue' = Tail(queue) => QueueOK'
<1>1. UNCHANGED queue => QueueOK'
  BY DEF QueueOK, EndsWith
<1>2. queue' = <<>> => QueueOK'
  BY DEF QueueOK, EndsWith
<1>3. ASSUME queue # <<>>, queue' = Tail(queue)
      PROVE  QueueOK'
  <2> DEFINE m == Len(queue)
             n == Len(queue')
  <2>1. n = m - 1 /\ n \in Nat /\ queue' \in Seq(Events)
    BY <1>3 DEF QueueOK
  <2>2. m \in Nat /\ (m > QueueCap => m = QueueCap + 1)
    BY DEF QueueOK
  <2> HIDE DEF m, n
  <2>3. ~(n > QueueCap)
    BY <2>1, <2>2
  <2> QED BY <2>1, <2>3 DEF QueueOK, n
<1> QED BY <1>1, <1>2, <1>3

(* A process that has forgotten everything is well typed.                  *)
LEMMA ForgetType ==
  ASSUME TypeOK, Forget
  PROVE  /\ buf' \in 0..MaxVersion /\ lastHash' \in 0..MaxVersion
         /\ armed' \in BOOLEAN /\ QueueOK' /\ missed' \in BOOLEAN
         /\ cancelled' \in BOOLEAN /\ flush' \in {"no", "running", "expired"}
         /\ lastSync' \in 0..now' /\ now' \in 1..MaxTime
<1>1. QueueOK'
  BY QueueSteps DEF TypeOK, Forget
<1>2. /\ buf' \in 0..MaxVersion /\ lastHash' \in 0..MaxVersion
      /\ lastSync' \in 0..now' /\ now' \in 1..MaxTime
  BY DEF TypeOK, Forget
<1>3. /\ armed' \in BOOLEAN /\ missed' \in BOOLEAN /\ cancelled' \in BOOLEAN
      /\ flush' \in {"no", "running", "expired"}
  BY DEF Forget
<1> QED BY <1>1, <1>2, <1>3

(* Every step keeps the types.                                             *)
LEMMA TypeStep ==
  ASSUME TypeOK, [Next]_vars
  PROVE  TypeOK'
<1> USE QueueSteps DEF TypeOK, Booting, Watched, Running, Stopped, disk, memory, ctx, clock
<1>1. CASE BootstrapNotFound
  BY <1>1 DEF BootstrapNotFound, markSync
<1>2. CASE BootstrapGet
  BY <1>2 DEF BootstrapGet
<1>3. CASE BootstrapWrite
  BY <1>3 DEF BootstrapWrite, markSync
<1>4. CASE StartFail
  BY <1>4 DEF StartFail
<1>5. CASE WatchDir
  BY <1>5 DEF WatchDir
<1>6. CASE Upload
  <2> USE DEF Return, markSync
  <2>1. CASE ReadFails
    BY <2>1 DEF ReadFails
  <2>2. CASE ReadInvalid
    BY <2>2 DEF ReadInvalid
  <2>3. CASE ReadUnchanged
    <3>1. lastSync' \in 0..now' /\ now' \in 1..MaxTime
      BY <2>3 DEF ReadUnchanged
    <3>2. pc' \in Running \cup Stopped /\ missed' \in BOOLEAN
      BY <2>3 DEF ReadUnchanged
    <3>3. QueueOK'
      BY <2>3 DEF ReadUnchanged
    <3> QED BY <2>3, <3>1, <3>2, <3>3 DEF ReadUnchanged
  <2>4. CASE ReadChanged
    <3>1. buf' \in 0..MaxVersion /\ pc' = "put" /\ missed' = FALSE
      BY <2>4 DEF ReadChanged
    <3>2. UNCHANGED <<file, issued, object, lastHash, armed, queue, cancelled, flush,
                      lastSync, now>>
      BY <2>4 DEF ReadChanged
    <3> QED BY <3>1, <3>2
  <2>5. CASE PutOk
    BY <2>5 DEF PutOk
  <2>6. CASE PutError
    BY <2>6 DEF PutError
  <2>7. CASE SleepElapses
    BY <2>7 DEF SleepElapses
  <2>8. CASE SleepCancelled
    BY <2>8 DEF SleepCancelled
  <2> QED BY <1>6, <2>1, <2>2, <2>3, <2>4, <2>5, <2>6, <2>7, <2>8 DEF Upload
<1>7. CASE OnCancel
  BY <1>7 DEF OnCancel
<1>8. CASE OnEvent
  BY <1>8 DEF OnEvent, eventMatches
<1>9. CASE OnError
  BY <1>9 DEF OnError
<1>10. CASE OnTimer
  BY <1>10 DEF OnTimer
<1>11. CASE Issuer
  BY <1>11, IssuerType
<1>12. CASE Sigterm
  BY <1>12 DEF Sigterm
<1>13. CASE FlushExpires
  BY <1>13 DEF FlushExpires
<1>14. CASE Crash
  <2>1. Forget
    BY <1>14 DEF Crash
  <2>2. /\ file' \in Torn..MaxVersion /\ issued' \in 0..MaxVersion
        /\ object' \in 0..MaxVersion /\ pc' \in Running \cup Stopped
    BY <1>14 DEF Crash
  <2> QED BY <2>1, <2>2, ForgetType
<1>15. CASE Restart
  <2>1. Forget
    BY <1>15 DEF Restart
  <2>2. /\ file' \in Torn..MaxVersion /\ issued' \in 0..MaxVersion
        /\ object' \in 0..MaxVersion /\ pc' \in Running \cup Stopped
    BY <1>15 DEF Restart
  <2> QED BY <2>1, <2>2, ForgetType
<1>16. CASE Tick
  BY <1>16 DEF Tick
<1>17. CASE UNCHANGED vars
  BY <1>17 DEF vars
<1> QED BY <1>1, <1>2, <1>3, <1>4, <1>5, <1>6, <1>7, <1>8, <1>9, <1>10, <1>11,
           <1>12, <1>13, <1>14, <1>15, <1>16, <1>17 DEF Next, Run

(* Type correctness: Uploader!Spec never leaves the types it declares, the *)
(* inotify queue never outgrows its capacity by more than one.             *)
THEOREM TypeCorrect == Spec => []TypeOK
<1>1. Init => TypeOK
  <2> SUFFICES ASSUME Init PROVE TypeOK
    OBVIOUS
  <2>1. QueueOK
    BY DEF Init, QueueOK
  <2>2. /\ file \in Torn..MaxVersion /\ issued \in 0..MaxVersion
        /\ object \in 0..MaxVersion
    BY DEF Init
  <2>3. /\ buf \in 0..MaxVersion /\ lastHash \in 0..MaxVersion
        /\ lastSync \in 0..now /\ now \in 1..MaxTime
    BY DEF Init
  <2>4. /\ pc \in Running /\ armed = FALSE /\ missed = FALSE
        /\ cancelled = FALSE /\ flush = "no"
    BY DEF Init, Running, Booting
  <2> QED BY <2>1, <2>2, <2>3, <2>4 DEF TypeOK
<1>2. TypeOK /\ [Next]_vars => TypeOK'
  BY TypeStep
<1> QED BY <1>1, <1>2, PTL DEF Spec

-----------------------------------------------------------------------------
(* Hash, object, held bytes and file stay in the order of issue.           *)

(* The issuer only writes its newest version or the one after it.          *)
LEMMA IssuerOrdered ==
  ASSUME TypeOK, Ordered, Issuer
  PROVE  Ordered'
<1> USE DEF TypeOK, Ordered, Untouched, ctx, clock
<1>1. CASE IssuerTruncate
  BY <1>1 DEF IssuerTruncate
<1>2. ASSUME NEW v \in 1..MaxVersion, IssuerFinish(v) \/ IssuerReplace(v)
      PROVE  Ordered'
  <2>1. /\ v \in Int /\ issued <= v /\ issued' = v /\ file' = v
        /\ UNCHANGED <<object, pc, buf, lastHash>>
    BY <1>2 DEF IssuerFinish, IssuerReplace, Issue
  <2> QED BY <2>1 DEF Watched
<1>3. ASSUME NEW ev \in Events, IssuerRemove(ev) \/ Noise(ev)
      PROVE  Ordered'
  <2>1. /\ file' \in {file, 0} /\ issued' = issued
        /\ UNCHANGED <<object, pc, buf, lastHash>>
    BY <1>3 DEF IssuerRemove, Noise, disk
  <2> QED BY <2>1 DEF Watched
<1> QED BY <1>1, <1>2, <1>3 DEF Issuer

(* Every step keeps the order.                                             *)
LEMMA OrderedStep ==
  ASSUME TypeOK, Ordered, [Next]_vars
  PROVE  Ordered'
<1> USE DEF TypeOK, Ordered, Watched, disk, memory, ctx, clock
<1>1. CASE BootstrapNotFound
  BY <1>1 DEF BootstrapNotFound
<1>2. CASE BootstrapGet
  BY <1>2 DEF BootstrapGet
<1>3. CASE BootstrapWrite
  BY <1>3 DEF BootstrapWrite
<1>4. CASE StartFail
  BY <1>4 DEF StartFail
<1>5. CASE WatchDir
  BY <1>5 DEF WatchDir
<1>6. CASE Upload
  <2>1. CASE ReadFails
    BY <2>1 DEF ReadFails, Return
  <2>2. CASE ReadInvalid
    BY <2>2 DEF ReadInvalid, Return
  <2>3. CASE ReadUnchanged
    BY <2>3 DEF ReadUnchanged, Return
  <2>4. CASE ReadChanged
    BY <2>4 DEF ReadChanged
  <2>5. CASE PutOk
    BY <2>5 DEF PutOk, Return
  <2>6. CASE PutError
    BY <2>6 DEF PutError, Return
  <2>7. CASE SleepElapses
    BY <2>7 DEF SleepElapses
  <2>8. CASE SleepCancelled
    BY <2>8 DEF SleepCancelled, Return
  <2> QED BY <1>6, <2>1, <2>2, <2>3, <2>4, <2>5, <2>6, <2>7, <2>8 DEF Upload
<1>7. CASE OnCancel
  BY <1>7 DEF OnCancel
<1>8. CASE OnEvent
  BY <1>8 DEF OnEvent
<1>9. CASE OnError
  BY <1>9 DEF OnError
<1>10. CASE OnTimer
  BY <1>10 DEF OnTimer
<1>11. CASE Issuer
  BY <1>11, IssuerOrdered
<1>12. CASE Sigterm
  BY <1>12 DEF Sigterm
<1>13. CASE FlushExpires
  BY <1>13 DEF FlushExpires
<1>14. CASE Crash
  <2>1. pc' = "down" /\ object' \in {object, buf} /\ (object' = object \/ pc = "put")
    BY <1>14 DEF Crash
  <2> QED BY <1>14, <2>1 DEF Crash
<1>15. CASE Restart
  BY <1>15 DEF Restart, Forget
<1>16. CASE Tick
  BY <1>16 DEF Tick
<1>17. CASE UNCHANGED vars
  BY <1>17 DEF vars
<1> QED BY <1>1, <1>2, <1>3, <1>4, <1>5, <1>6, <1>7, <1>8, <1>9, <1>10, <1>11,
           <1>12, <1>13, <1>14, <1>15, <1>16, <1>17 DEF Next, Run

-----------------------------------------------------------------------------
(* A change is read, queued, scheduled, or known to be missed.             *)

(* A write by the issuer that matters ends up in the queue or is missed.   *)
LEMMA IssuerNoLost ==
  ASSUME TypeOK, NoLostChange, Issuer
  PROVE  NoLostChange'
<1> USE DEF NoLostChange, Untouched, ctx
<1>1. CASE IssuerTruncate
  BY <1>1 DEF IssuerTruncate
<1>2. ASSUME NEW v \in 1..MaxVersion, IssuerFinish(v) \/ IssuerReplace(v)
      PROVE  NoLostChange'
  <2>1. PICK ev \in Events : Notify(ev) /\ eventMatches(ev)
    BY <1>2 DEF IssuerFinish, IssuerReplace, Events, eventMatches
  <2>2. pc \in Watched => missed' \/ HasMatch(queue')
    BY <2>1, NotifyQueue
  <2>3. pc' = pc
    BY <1>2 DEF IssuerFinish, IssuerReplace
  <2>4. HasMatch(queue)' <=> HasMatch(queue')
    BY DEF HasMatch, eventMatches
  <2> QED BY <2>2, <2>3, <2>4 DEF Watched
<1>3. ASSUME NEW ev \in Events, IssuerRemove(ev)
      PROVE  NoLostChange'
  BY <1>3 DEF IssuerRemove
<1>4. ASSUME NEW ev \in Events, Noise(ev)
      PROVE  NoLostChange'
  <2>1. (HasMatch(queue) => HasMatch(queue')) /\ (missed => missed')
    BY <1>4, NotifyQueue DEF Noise
  <2>2. UNCHANGED <<file, pc, buf, lastHash, armed, cancelled>>
    BY <1>4 DEF Noise, disk
  <2>3. HasMatch(queue)' <=> HasMatch(queue')
    BY DEF HasMatch, eventMatches
  <2> QED BY <2>1, <2>2, <2>3
<1> QED BY <1>1, <1>2, <1>3, <1>4 DEF Issuer

(* Every step keeps the account of changes.                                *)
LEMMA NoLostStep ==
  ASSUME TypeOK, NoLostChange, [Next]_vars
  PROVE  NoLostChange'
<1> USE DEF NoLostChange, disk, memory, ctx, clock
<1>0. HasMatch(queue)' <=> HasMatch(queue')
  BY DEF HasMatch, eventMatches
<1>1. CASE BootstrapNotFound
  BY <1>1 DEF BootstrapNotFound
<1>2. CASE BootstrapGet
  BY <1>2 DEF BootstrapGet
<1>3. CASE BootstrapWrite
  BY <1>3 DEF BootstrapWrite
<1>4. CASE StartFail
  BY <1>4 DEF StartFail
<1>5. CASE WatchDir
  BY <1>5 DEF WatchDir
<1>6. CASE Upload
  <2> USE DEF Return
  <2>1. CASE ReadFails
    BY <2>1 DEF ReadFails
  <2>2. CASE ReadInvalid
    BY <2>2 DEF ReadInvalid
  <2>3. CASE ReadUnchanged
    BY <2>3 DEF ReadUnchanged
  <2>4. CASE ReadChanged
    BY <2>4 DEF ReadChanged
  <2>5. CASE PutOk
    BY <1>0, <2>5 DEF PutOk
  <2>6. CASE PutError
    <3>1. CASE UploadCtxDone
      BY <1>0, <2>6, <3>1 DEF PutError, UploadCtxDone
    <3>2. CASE ~UploadCtxDone
      BY <1>0, <2>6, <3>2 DEF PutError
    <3> QED BY <3>1, <3>2
  <2>7. CASE SleepElapses
    BY <1>0, <2>7 DEF SleepElapses
  <2>8. CASE SleepCancelled
    BY <1>0, <2>8 DEF SleepCancelled, UploadCtxDone
  <2> QED BY <1>6, <2>1, <2>2, <2>3, <2>4, <2>5, <2>6, <2>7, <2>8 DEF Upload
<1>7. CASE OnCancel
  BY <1>7 DEF OnCancel
<1>8. CASE OnEvent
  <2>1. HasMatch(queue) => eventMatches(Head(queue)) \/ HasMatch(queue')
    BY <1>8, MatchTail DEF OnEvent, TypeOK, QueueOK
  <2>2. armed' = (armed \/ eventMatches(Head(queue)))
    BY <1>8 DEF OnEvent
  <2>3. UNCHANGED <<file, pc, buf, lastHash, missed, cancelled>> /\ pc = "select"
    BY <1>8 DEF OnEvent
  <2> QED BY <1>0, <2>1, <2>2, <2>3
<1>9. CASE OnError
  <2>1. HasMatch(queue) => HasMatch(queue')
    BY <1>9, MatchTail DEF OnError, TypeOK, QueueOK, eventMatches
  <2>2. UNCHANGED <<file, pc, buf, lastHash, armed, missed, cancelled>>
    BY <1>9 DEF OnError
  <2> QED BY <1>0, <2>1, <2>2
<1>10. CASE OnTimer
  BY <1>10 DEF OnTimer
<1>11. CASE Issuer
  BY <1>11, IssuerNoLost
<1>12. CASE Sigterm
  BY <1>0, <1>12 DEF Sigterm
<1>13. CASE FlushExpires
  BY <1>0, <1>13 DEF FlushExpires
<1>14. CASE Crash
  BY <1>14 DEF Crash
<1>15. CASE Restart
  BY <1>15 DEF Restart
<1>16. CASE Tick
  BY <1>0, <1>16 DEF Tick
<1>17. CASE UNCHANGED vars
  BY <1>0, <1>17 DEF vars
<1> QED BY <1>1, <1>2, <1>3, <1>4, <1>5, <1>6, <1>7, <1>8, <1>9, <1>10, <1>11,
           <1>12, <1>13, <1>14, <1>15, <1>16, <1>17 DEF Next, Run

-----------------------------------------------------------------------------
(* The flush is the last thing Run does.                                   *)

(* Every step keeps it that way.                                           *)
LEMMA FlushStep ==
  ASSUME FlushIsLast, [Next]_vars
  PROVE  FlushIsLast'
<1> USE DEF FlushIsLast, Return, disk, memory, ctx, clock
<1>1. CASE /\ UNCHANGED <<cancelled, flush>>
           /\ pc' \in {pc, "done"} \/ pc \notin {"read", "put", "sleep", "done"}
  BY <1>1
<1>2. CASE Upload
  BY <1>2 DEF Upload, ReadFails, ReadInvalid, ReadUnchanged, ReadChanged,
              PutOk, PutError, SleepElapses, SleepCancelled
<1>3. CASE OnCancel
  BY <1>3 DEF OnCancel
<1>4. CASE Sigterm
  BY <1>4 DEF Sigterm
<1>5. CASE FlushExpires
  BY <1>5 DEF FlushExpires
<1>6. CASE Crash
  BY <1>6 DEF Crash, Forget
<1>7. CASE Restart
  BY <1>7 DEF Restart, Forget
<1>8. BootstrapNotFound \/ BootstrapGet \/ BootstrapWrite \/ StartFail \/ WatchDir
      => UNCHANGED ctx /\ pc \notin {"read", "put", "sleep", "done"}
  BY DEF BootstrapNotFound, BootstrapGet, BootstrapWrite, StartFail, WatchDir, Booting
<1>9. OnEvent \/ OnError \/ OnTimer => UNCHANGED ctx /\ pc = "select"
  BY DEF OnEvent, OnError, OnTimer
<1>10. Issuer \/ Tick \/ UNCHANGED vars => UNCHANGED <<ctx, pc>>
  BY DEF Issuer, IssuerTruncate, IssuerFinish, IssuerReplace, IssuerRemove, Noise,
         Untouched, Tick, vars
<1> QED BY <1>1, <1>2, <1>3, <1>4, <1>5, <1>6, <1>7, <1>8, <1>9, <1>10 DEF Next, Run

-----------------------------------------------------------------------------
(* The theorems.                                                           *)

(* The inductive invariant holds of every behaviour.                       *)
THEOREM Invariance == Spec => []IInv
<1>1. Init => Ordered
  BY DEF Init, Ordered, Watched
<1>2. Init => NoLostChange
  BY DEF Init, NoLostChange
<1>3. TypeOK /\ Ordered /\ [Next]_vars => Ordered'
  BY OrderedStep
<1>4. TypeOK /\ NoLostChange /\ [Next]_vars => NoLostChange'
  BY NoLostStep
<1>5. Init => FlushIsLast
  BY DEF Init, FlushIsLast
<1>6. FlushIsLast /\ [Next]_vars => FlushIsLast'
  BY FlushStep
<1> QED BY <1>1, <1>2, <1>3, <1>4, <1>5, <1>6, TypeCorrect, PTL DEF Spec, IInv

(* An idle uploader that missed nothing has published the file.            *)
THEOREM IdleHasPublished == Spec => []QuiescentPublished
<1>1. IInv => QuiescentPublished
  BY DEF IInv, TypeOK, Ordered, NoLostChange, QuiescentPublished, Pending, Watched
<1> QED BY <1>1, Invariance, PTL

(* A shutdown flush that finishes in time leaves S3 equal to the file.     *)
THEOREM FlushPublishes == Spec => ShutdownFlushPublishes
<1>1. ASSUME IInv, [Next]_vars, pc # "done", pc' = "done", flush' = "running",
             ~missed', ~HasMatch(queue'), file \in Versions
      PROVE  object' = file'
  <2> USE DEF IInv, TypeOK, disk, memory, ctx, clock
  <2>1. CASE ReadFails
    BY <1>1, <2>1 DEF ReadFails
  <2>2. CASE ReadInvalid
    BY <1>1, <2>2 DEF ReadInvalid
  <2>3. CASE ReadUnchanged
    <3>1. pc \in Watched /\ file = lastHash /\ UNCHANGED <<file, object>>
      BY <2>3 DEF ReadUnchanged, Watched
    <3>2. lastHash <= object /\ object <= file
      BY <1>1, <3>1 DEF Ordered
    <3> QED BY <1>1, <3>1, <3>2
  <2>4. CASE PutOk
    BY <1>1, <2>4 DEF PutOk, NoLostChange
  <2>5. CASE PutError
    BY <1>1, <2>5 DEF PutError, UploadCtxDone
  <2>6. CASE SleepCancelled
    BY <1>1, <2>6 DEF SleepCancelled, UploadCtxDone
  <2>7. CASE OnCancel
    BY <1>1, <2>7 DEF OnCancel, FlushIsLast
  <2>8. \/ ReadFails \/ ReadInvalid \/ ReadUnchanged \/ PutOk \/ PutError
        \/ SleepCancelled \/ OnCancel
    <3> USE <1>1
    <3>1. ~Issuer
      BY DEF Issuer, IssuerTruncate, IssuerFinish, IssuerReplace, IssuerRemove, Noise, Untouched
    <3>2. ~BootstrapNotFound /\ ~BootstrapGet /\ ~BootstrapWrite /\ ~StartFail /\ ~WatchDir
      BY DEF BootstrapNotFound, BootstrapGet, BootstrapWrite, StartFail, WatchDir
    <3>3. ~ReadChanged /\ ~SleepElapses /\ ~OnEvent /\ ~OnError /\ ~OnTimer
      BY DEF ReadChanged, SleepElapses, OnEvent, OnError, OnTimer
    <3>4. ~Sigterm /\ ~FlushExpires /\ ~Crash /\ ~Restart /\ ~Tick /\ ~UNCHANGED vars
      BY DEF Sigterm, FlushExpires, Crash, Restart, Tick, vars
    <3> QED BY <3>1, <3>2, <3>3, <3>4 DEF Next, Run, Upload
  <2> QED BY <2>1, <2>2, <2>3, <2>4, <2>5, <2>6, <2>7, <2>8
<1>2. IInv /\ [Next]_vars =>
        [ pc # "done" /\ pc' = "done" /\ flush' = "running" /\ ~missed' /\ ~HasMatch(queue')
          => (file \in Versions => object' = file') ]_vars
  BY <1>1
<1> QED BY <1>2, Invariance, PTL DEF Spec, ShutdownFlushPublishes

(* lastSync moves only when the object is what the uploader last saw.      *)
THEOREM SyncIsHonest == Spec => SyncMeansPublished
<1>1. ASSUME IInv, [Next]_vars, lastSync' \notin {0, lastSync}
      PROVE  object' = lastHash'
  <2> USE DEF IInv, TypeOK, disk, memory, ctx, clock
  <2>1. CASE BootstrapNotFound
    BY <1>1, <2>1 DEF BootstrapNotFound, Ordered
  <2>2. CASE BootstrapWrite
    BY <1>1, <2>2 DEF BootstrapWrite, Ordered
  <2>3. CASE ReadUnchanged
    <3>1. /\ pc \in Watched /\ file \in Versions /\ file = lastHash
          /\ UNCHANGED <<object, lastHash>>
      BY <2>3 DEF ReadUnchanged, Watched
    <3>2. lastHash <= object /\ object <= file
      BY <1>1, <3>1 DEF Ordered
    <3> QED BY <1>1, <3>1, <3>2
  <2>4. CASE PutOk
    BY <2>4 DEF PutOk
  <2>5. BootstrapNotFound \/ BootstrapWrite \/ ReadUnchanged \/ PutOk
    <3> USE <1>1
    <3>1. ~Issuer
      BY DEF Issuer, IssuerTruncate, IssuerFinish, IssuerReplace, IssuerRemove, Noise, Untouched
    <3>2. ~BootstrapGet /\ ~StartFail /\ ~WatchDir
      BY DEF BootstrapGet, StartFail, WatchDir
    <3>3. /\ ~ReadFails /\ ~ReadInvalid /\ ~ReadChanged
          /\ ~PutError /\ ~SleepElapses /\ ~SleepCancelled
      BY DEF ReadFails, ReadInvalid, ReadChanged, PutError, SleepElapses, SleepCancelled
    <3>4. ~OnCancel /\ ~OnEvent /\ ~OnError /\ ~OnTimer
      BY DEF OnCancel, OnEvent, OnError, OnTimer
    <3>5. ~Sigterm /\ ~FlushExpires /\ ~Crash /\ ~Restart /\ ~Tick /\ ~UNCHANGED vars
      BY DEF Sigterm, FlushExpires, Crash, Restart, Forget, Tick, vars
    <3> QED BY <3>1, <3>2, <3>3, <3>4, <3>5 DEF Next, Run, Upload
  <2> QED BY <2>1, <2>2, <2>3, <2>4, <2>5
<1>2. IInv /\ [Next]_vars => [ lastSync' \notin {0, lastSync} => object' = lastHash' ]_vars
  BY <1>1
<1> QED BY <1>2, Invariance, PTL DEF Spec, SyncMeansPublished

(* The uploader implements Publication: what S3 holds only moves forward,  *)
(* to a complete version the issuer wrote.                                 *)
THEOREM Refinement == Spec => PublishesIssued
<1>1. Init => Abs!Init
  BY DEF Init, Abs!Init
<1>2. ASSUME IInv, [Next]_vars
      PROVE  [Abs!Next]_(Abs!vars)
  <2> USE DEF Abs!vars
  <2> USE DEF IInv, TypeOK, disk, memory, ctx, clock
  <2>1. CASE UNCHANGED <<issued, object>>
    BY <2>1
  <2>2. ASSUME UNCHANGED issued, object' = buf, pc \in {"put", "sleep"}
        PROVE  [Abs!Next]_(Abs!vars)
    <3>1. buf \in object..issued
      BY <1>2, <2>2 DEF Ordered
    <3>2. object' = object \/ object' \in (object + 1)..issued
      BY <1>2, <2>2, <3>1
    <3> QED BY <2>2, <3>2 DEF Abs!Next, Abs!Publish
  <2>3. CASE PutOk
    BY <2>2, <2>3 DEF PutOk
  <2>4. CASE PutError
    BY <2>1, <2>2, <2>4 DEF PutError
  <2>5. CASE Crash
    BY <2>1, <2>2, <2>5 DEF Crash
  <2>6. CASE Issuer
    <3>1. object' = object
      BY <2>6 DEF Issuer, IssuerTruncate, IssuerFinish, IssuerReplace, IssuerRemove,
                  Noise, Untouched
    <3>2. ASSUME NEW v \in Versions, Issue(v)
          PROVE  issued' \in {issued, issued + 1} /\ issued' <= MaxVersion
      BY <3>2 DEF Issue
    <3>3. issued' = issued \/ (issued' \in {issued, issued + 1} /\ issued' <= MaxVersion)
      BY <2>6, <3>2 DEF Issuer, IssuerTruncate, IssuerFinish, IssuerReplace,
                        IssuerRemove, Noise
    <3> QED BY <1>2, <3>1, <3>3 DEF Abs!Next, Abs!Issue
  <2>7. CASE ~(PutOk \/ PutError \/ Crash \/ Issuer)
    <3> USE <1>2, <2>7
    <3>1. BootstrapNotFound \/ BootstrapGet \/ BootstrapWrite \/ StartFail \/ WatchDir
          => UNCHANGED <<issued, object>>
      BY DEF BootstrapNotFound, BootstrapGet, BootstrapWrite, StartFail, WatchDir
    <3>2. \/ ReadFails \/ ReadInvalid \/ ReadUnchanged \/ ReadChanged
          \/ SleepElapses \/ SleepCancelled
          => UNCHANGED <<issued, object>>
      BY DEF ReadFails, ReadInvalid, ReadUnchanged, ReadChanged, SleepElapses, SleepCancelled
    <3>3. OnCancel \/ OnEvent \/ OnError \/ OnTimer => UNCHANGED <<issued, object>>
      BY DEF OnCancel, OnEvent, OnError, OnTimer
    <3>4. Sigterm \/ FlushExpires \/ Restart \/ Tick \/ UNCHANGED vars
          => UNCHANGED <<issued, object>>
      BY DEF Sigterm, FlushExpires, Restart, Tick, vars
    <3> QED BY <2>1, <3>1, <3>2, <3>3, <3>4 DEF Next, Run, Upload
  <2> QED BY <2>3, <2>4, <2>5, <2>6, <2>7
<1>3. IInv /\ [Next]_vars => [Abs!Next]_(Abs!vars)
  BY <1>2
<1> QED BY <1>1, <1>3, Invariance, PTL DEF Spec, PublishesIssued, Abs!Spec

(* What module Worker sees of pc.                                          *)
LEMMA PhaseOfPc ==
  /\ pc \in {"bootGet", "bootWrite", "watch"} => Phase = "starting"
  /\ pc \in {"read", "put", "sleep", "select"} => Phase = "serving"
  /\ pc = "done" => Phase = "ok"
  /\ pc = "failed" => Phase = "failed"
  /\ pc = "down" => Phase = "down"
BY DEF Phase, Booting, Watched

LEMMA PhaseOfNextPc ==
  /\ pc' \in {"bootGet", "bootWrite", "watch"} => Phase' = "starting"
  /\ pc' \in {"read", "put", "sleep", "select"} => Phase' = "serving"
  /\ pc' = "done" => Phase' = "ok"
  /\ pc' = "failed" => Phase' = "failed"
  /\ pc' = "down" => Phase' = "down"
BY DEF Phase, Booting, Watched

(* Whatever S3, the file and the queue do, Run ends by itself only while   *)
(* it starts up, and lastSync is never but the time of the latest success. *)
THEOREM PromisesWorker == Spec => IsWorker
<1>1. Init => Life!Init
  <2> SUFFICES ASSUME Init PROVE Life!Init
    OBVIOUS
  <2>1. Phase = "starting" /\ lastSync = 0 /\ now \in Nat \ {0}
    BY PhaseOfPc DEF Init
  <2>2. cancelled \in BOOLEAN
    BY DEF Init
  <2> QED BY <2>1, <2>2 DEF Life!Init, Life!Start
<1>2. ASSUME IInv, [Next]_vars
      PROVE  [Life!Next]_(Life!vars)
  <2> USE <1>2, PhaseOfPc, PhaseOfNextPc
  <2> USE DEF IInv, disk, memory, ctx, clock
  <2>1. CASE UNCHANGED <<Phase, cancelled, lastSync, now>>
    BY <2>1 DEF Life!vars
  <2>2. CASE Phase = "starting" /\ Phase' = "starting" /\ markSync /\ UNCHANGED cancelled
    BY <2>2 DEF Life!Next, Life!Sync, Life!Alive, markSync
  \* one round of uploadWithRetry is over, in the loop or in the flush
  <2>3. CASE /\ pc \in {"read", "put", "sleep"} /\ Return /\ UNCHANGED <<cancelled, now>>
             /\ lastSync' \in {lastSync, now}
    <3>1. CASE flush = "no"
      <4>1. Phase = "serving" /\ Phase' = "serving"
        BY <2>3, <3>1 DEF Return
      <4>2. lastSync' = lastSync => UNCHANGED <<Phase, cancelled, lastSync, now>>
        BY <2>3, <4>1
      <4>3. lastSync' = now => Life!Sync
        BY <2>3, <4>1 DEF Life!Sync, Life!Alive
      <4> QED BY <2>1, <2>3, <4>2, <4>3 DEF Life!Next
    <3>2. CASE flush # "no"
      <4>1. Phase = "serving" /\ Phase' = "ok" /\ cancelled
        BY <2>3, <3>2 DEF Return, FlushIsLast
      <4> QED BY <2>3, <4>1 DEF Life!Next, Life!Finish
    <3> QED BY <3>1, <3>2
  <2>4. CASE BootstrapNotFound \/ BootstrapWrite
    BY <2>2, <2>4 DEF BootstrapNotFound, BootstrapWrite
  <2>5. CASE BootstrapGet
    BY <2>1, <2>5 DEF BootstrapGet
  <2>6. CASE StartFail
    BY <2>6 DEF StartFail, Booting, Life!Next, Life!Fail
  <2>7. CASE WatchDir
    BY <2>7 DEF WatchDir, Life!Next, Life!Serve
  <2>8. CASE ReadFails \/ ReadInvalid
    BY <2>3, <2>8 DEF ReadFails, ReadInvalid
  <2>9. CASE ReadUnchanged \/ PutOk
    BY <2>3, <2>9 DEF ReadUnchanged, PutOk, markSync
  <2>10. CASE ReadChanged \/ SleepElapses
    BY <2>1, <2>10 DEF ReadChanged, SleepElapses
  <2>11. CASE PutError
    <3>1. CASE pc' = "sleep"
      BY <2>1, <2>11, <3>1 DEF PutError
    <3>2. CASE pc' # "sleep"
      BY <2>3, <2>11, <3>2 DEF PutError
    <3> QED BY <3>1, <3>2
  <2>12. CASE SleepCancelled
    BY <2>3, <2>12 DEF SleepCancelled
  <2>13. CASE OnCancel
    <3>1. CASE armed
      BY <2>1, <2>13, <3>1 DEF OnCancel
    <3>2. CASE ~armed
      BY <2>13, <3>2 DEF OnCancel, Life!Next, Life!Finish
    <3> QED BY <3>1, <3>2
  <2>14. CASE OnEvent \/ OnError \/ OnTimer
    BY <2>1, <2>14 DEF OnEvent, OnError, OnTimer
  <2>15. CASE Issuer
    <3>1. UNCHANGED <<pc, cancelled, lastSync, now>>
      BY <2>15 DEF Issuer, IssuerTruncate, IssuerFinish, IssuerReplace, IssuerRemove,
                   Noise, Untouched
    <3> QED BY <2>1, <3>1 DEF Phase
  <2>16. CASE Sigterm
    BY <2>16 DEF Sigterm, Phase, Life!Next, Life!Cancel
  <2>17. CASE FlushExpires
    BY <2>1, <2>17 DEF FlushExpires, Phase
  <2>18. CASE Crash
    BY <2>18 DEF Crash, Forget, Life!Next, Life!Die
  <2>19. CASE Restart
    <3>1. Phase \in {"ok", "failed", "down"} /\ Phase' = "starting"
      BY <2>19 DEF Restart, Stopped
    <3> QED BY <2>19, <3>1 DEF Restart, Forget, Life!Next, Life!Restart, Life!Ended, Life!Start
  <2>20. CASE Tick
    BY <2>20 DEF Tick, Phase, Life!Next, Life!Tick
  <2>21. CASE UNCHANGED vars
    BY <2>1, <2>21 DEF vars, Phase
  <2> QED BY <2>4, <2>5, <2>6, <2>7, <2>8, <2>9, <2>10, <2>11, <2>12, <2>13, <2>14, <2>15,
             <2>16, <2>17, <2>18, <2>19, <2>20, <2>21 DEF Next, Run, Upload
<1>3. IInv /\ [Next]_vars => [Life!Next]_(Life!vars)
  BY <1>2
<1> QED BY <1>1, <1>3, Invariance, PTL DEF Spec, IsWorker, Life!Spec
=============================================================================
