-------------------------- MODULE DownloaderProofs --------------------------
(***************************************************************************)
(* Proofs about Downloader in every environment: its types, that the etag  *)
(* skip is sound unless somebody meddled, the abstract specifications it   *)
(* implements, and that a recorded synchronisation is not older than the   *)
(* cycle that records it.                                                  *)
(***************************************************************************)
EXTENDS MCDownloader, TLAPS

USE DEF isNotFound

(* The bounds are natural numbers, and a version is one from 1.            *)
LEMMA BoundTypes == MaxVersion \in Nat /\ MaxTime \in Nat /\ MaxTime >= 1
BY DownloaderAssumption, ContentsAssumption

LEMMA GoodTypes == Good \subseteq Versions /\ Good \subseteq 0..MaxVersion /\ 0 \notin Good
BY ContentsAssumption DEF Good, Versions

(* A process that starts again has nothing in memory.                      *)
LEMMA ForgetType ==
  ASSUME TypeOK, Forget
  PROVE  /\ headEtag' \in 0..MaxVersion /\ body' \in 0..MaxVersion
         /\ lastEtag' \in 0..MaxVersion /\ cancelled' \in BOOLEAN /\ meddled' \in BOOLEAN
         /\ lastSync' \in 0..now' /\ now' \in 1..MaxTime
<1>1. headEtag' \in 0..MaxVersion /\ body' \in 0..MaxVersion /\ lastEtag' \in 0..MaxVersion
  BY BoundTypes DEF Forget, NoEtag, NoObject
<1>2. lastSync' \in 0..now' /\ now' \in 1..MaxTime
  BY BoundTypes DEF TypeOK, Forget
<1>3. cancelled' \in BOOLEAN /\ meddled' \in BOOLEAN
  BY DEF Forget
<1> QED BY <1>1, <1>2, <1>3

(* Every step keeps the types.                                             *)
LEMMA TypeStep == TypeOK /\ [Next]_vars => TypeOK'
<1> SUFFICES ASSUME TypeOK, [Next]_vars PROVE TypeOK'
  OBVIOUS
<1> USE BoundTypes DEF TypeOK, Running, NoDir, s3, local, flags, clock
<1>1. CASE CycleStart \/ IntervalElapses \/ Stop \/ BackoffElapses \/ BackoffCancelled
  BY <1>1 DEF CycleStart, IntervalElapses, Stop, BackoffElapses, BackoffCancelled
<1>2. CASE HeadNotFound \/ HeadUnchanged \/ HeadChanged \/ CallFails \/ GetNotFound
  BY <1>2 DEF HeadNotFound, HeadUnchanged, HeadChanged, CallFails, GetNotFound,
              Retry, markSync, Etag, NoEtag
<1>3. CASE GetBody
  <2>1. body' = object /\ object # 0
    BY <1>3 DEF GetBody, NoObject
  <2>2. pc' \in {"renderEmpty", "sleep", "render"} /\ (pc' = "render" => body' \in Good)
    BY <1>3, <2>1, ContentsAssumption DEF GetBody, Good, NoObject, Versions
  <2>3. UNCHANGED <<s3, live, headEtag, lastEtag, flags, clock>>
    BY <1>3 DEF GetBody
  <2> QED BY <2>1, <2>2, <2>3
<1>4. CASE RenderOk
  BY <1>4 DEF RenderOk, markSync, NoEtag
<1>5. CASE RenderEmptyOk
  BY <1>5 DEF RenderEmptyOk, markSync, Empty
<1>6. ASSUME PartialRender, pc \in {"render", "renderEmpty"} PROVE live' \in NoDir..MaxVersion
  BY <1>6 DEF PartialRender, Goal, Empty, Mixed, NoDir
<1>7. CASE RenderFails
  BY <1>6, <1>7 DEF RenderFails, Retry
<1>8. CASE Publish \/ Delete \/ Restore \/ Rollback \/ Tamper
  <2>1. object' \in 0..MaxVersion /\ newest' \in 0..MaxVersion /\ live' \in NoDir..MaxVersion
    BY <1>8 DEF Publish, Delete, Restore, Rollback, Tamper, NoObject, Mixed
  <2>2. meddled' \in BOOLEAN
    BY <1>8 DEF Publish, Delete, Restore, Rollback, Tamper
  <2>3. UNCHANGED <<sendsEtag, pc, local, cancelled, clock>>
    BY <1>8 DEF Publish, Delete, Restore, Rollback, Tamper
  <2> QED BY <2>1, <2>2, <2>3
<1>9. CASE Crash
  <2>1. live' \in NoDir..MaxVersion /\ pc' = "down" /\ UNCHANGED s3
    BY <1>6, <1>9 DEF Crash
  <2> QED BY <1>9, <2>1, ForgetType DEF Crash
<1>10. CASE Sigterm
  BY <1>10 DEF Sigterm
<1>11. CASE Tick
  <2>1. now' \in 1..MaxTime /\ lastSync' \in 0..now'
    BY <1>11 DEF Tick
  <2> QED BY <1>11, <2>1 DEF Tick
<1>12. CASE Restart
  BY <1>12, ForgetType DEF Restart
<1>13. CASE UNCHANGED vars
  BY <1>13 DEF vars
<1> QED
  BY <1>1, <1>2, <1>3, <1>4, <1>5, <1>7, <1>8, <1>9, <1>10, <1>11, <1>12, <1>13 DEF Next, Run

(* A gateway that has never run has values of the right types.             *)
LEMMA InitTypes == Init => TypeOK
<1> SUFFICES ASSUME Init PROVE TypeOK
  OBVIOUS
<1>1. /\ object \in 0..MaxVersion /\ newest \in 0..MaxVersion
      /\ live \in NoDir..MaxVersion
  BY BoundTypes DEF Init, NoDir
<1>2. /\ headEtag \in 0..MaxVersion /\ body \in 0..MaxVersion
      /\ lastEtag \in 0..MaxVersion
      /\ lastSync \in 0..now /\ now \in 1..MaxTime
  BY BoundTypes DEF Init, NoEtag, NoObject
<1>3. pc \in Running /\ pc # "render" /\ cancelled = FALSE /\ meddled = FALSE
      /\ sendsEtag \in BOOLEAN
  BY DEF Init, Running
<1> QED BY <1>1, <1>2, <1>3 DEF TypeOK

(* Every variable of the downloader stays in its domain, whatever the      *)
(* environment does; in particular what is rendered always parsed.         *)
THEOREM TypeCorrect == Spec => []TypeOK
BY InitTypes, TypeStep, PTL DEF Spec

-----------------------------------------------------------------------------
(* The etag skip.                                                          *)

(* With an etag on every Head, a Get is only made for an object other than *)
(* the one lastEtag stands for.                                            *)
LEMMA SkipMeansEqual ==
  ASSUME TypeOK, sendsEtag, object # NoObject
  PROVE  Etag(object) = object /\ (skips <=> object = lastEtag)
BY DEF TypeOK, Etag, skips, NoEtag, NoObject

(* The store stays what it is; only a new process forgets the meddling.    *)
LEMMA FlagSteps ==
  ASSUME [Next]_vars
  PROVE  /\ UNCHANGED sendsEtag
         /\ meddled /\ ~meddled' => Crash \/ Restart
<1> USE DEF s3, flags
<1>1. CycleStart \/ IntervalElapses \/ Stop \/ BackoffElapses \/ BackoffCancelled
      => UNCHANGED <<sendsEtag, meddled>>
  BY DEF CycleStart, IntervalElapses, Stop, BackoffElapses, BackoffCancelled
<1>2. HeadNotFound \/ HeadUnchanged \/ HeadChanged \/ CallFails \/ GetNotFound
      => UNCHANGED <<sendsEtag, meddled>>
  BY DEF HeadNotFound, HeadUnchanged, HeadChanged, CallFails, GetNotFound
<1>3. GetBody \/ RenderOk \/ RenderEmptyOk \/ RenderFails => UNCHANGED <<sendsEtag, meddled>>
  BY DEF GetBody, RenderOk, RenderEmptyOk, RenderFails
<1>4. Publish \/ Delete \/ Sigterm \/ Tick \/ UNCHANGED vars => UNCHANGED <<sendsEtag, meddled>>
  BY DEF Publish, Delete, Sigterm, Tick, vars
<1>5. Restore \/ Rollback \/ Tamper => UNCHANGED sendsEtag /\ meddled'
  BY DEF Restore, Rollback, Tamper
<1>6. Crash \/ Restart => UNCHANGED sendsEtag
  BY DEF Crash, Restart
<1> QED BY <1>1, <1>2, <1>3, <1>4, <1>5, <1>6 DEF Next, Run

(* A process that starts again holds no etag and is not in a cycle.        *)
LEMMA FreshStart ==
  ASSUME Crash \/ Restart
  PROVE  /\ headEtag' = 0 /\ body' = 0 /\ lastEtag' = 0
         /\ pc' \in {"down", "cycle"} /\ UNCHANGED <<object, newest>>
BY DEF Crash, Restart, Forget, NoEtag, NoObject, s3

(* What the process knows is never newer than the newest version, nor than *)
(* the object nobody meddled with.                                         *)
LEMMA NewestStep ==
  ASSUME TypeOK, Newest, [Next]_vars
  PROVE  Newest'
<1> USE BoundTypes DEF TypeOK, Newest, NoObject, NoEtag, s3, local, flags
<1>1. CASE CycleStart \/ IntervalElapses \/ Stop \/ BackoffElapses \/ BackoffCancelled
  BY <1>1 DEF CycleStart, IntervalElapses, Stop, BackoffElapses, BackoffCancelled
<1>2. CASE HeadNotFound \/ HeadUnchanged \/ CallFails \/ GetNotFound \/ GetBody
  BY <1>2 DEF HeadNotFound, HeadUnchanged, CallFails, GetNotFound, GetBody
<1>3. CASE HeadChanged
  BY <1>3 DEF HeadChanged, Etag
<1>4. CASE RenderOk
  BY <1>4 DEF RenderOk
<1>5. CASE RenderEmptyOk \/ RenderFails
  BY <1>5 DEF RenderEmptyOk, RenderFails
<1>6. CASE Publish \/ Delete
  BY <1>6 DEF Publish, Delete
<1>7. CASE Restore \/ Rollback \/ Tamper
  BY <1>7 DEF Restore, Rollback, Tamper
<1>8. CASE Sigterm \/ Tick
  BY <1>8 DEF Sigterm, Tick
<1>9. CASE Crash \/ Restart
  BY <1>9, FreshStart
<1>10. CASE UNCHANGED vars
  BY <1>10 DEF vars
<1> QED
  BY <1>1, <1>2, <1>3, <1>4, <1>5, <1>6, <1>7, <1>8, <1>9, <1>10 DEF Next, Run

(* A cycle that gets past the skip is after something newer than lastEtag, *)
(* and stays so while the object moves on under it.                        *)
LEMMA CycleStep ==
  ASSUME TypeOK, Newest, sendsEtag, ~meddled, CycleIsNewer, [Next]_vars, ~meddled'
  PROVE  CycleIsNewer'
<1> USE BoundTypes DEF TypeOK, Newest, CycleIsNewer, NoObject, NoEtag, s3, local
<1>1. CASE CycleStart \/ IntervalElapses \/ Stop \/ BackoffElapses \/ BackoffCancelled
  BY <1>1 DEF CycleStart, IntervalElapses, Stop, BackoffElapses, BackoffCancelled
<1>2. CASE HeadNotFound \/ HeadUnchanged \/ CallFails \/ GetNotFound
  BY <1>2 DEF HeadNotFound, HeadUnchanged, CallFails, Retry, GetNotFound
<1>3. CASE HeadChanged
  BY <1>3, SkipMeansEqual DEF HeadChanged
<1>4. CASE GetBody
  <2>1. pc' \in {"renderEmpty", "sleep", "render"}
    BY <1>4 DEF GetBody
  <2>2. UNCHANGED <<object, newest, headEtag, lastEtag>> /\ body' = object
        /\ headEtag <= object /\ lastEtag < headEtag
    BY <1>4 DEF GetBody
  <2> QED BY <2>1, <2>2
<1>5. CASE RenderOk \/ RenderEmptyOk \/ RenderFails
  BY <1>5 DEF RenderOk, RenderEmptyOk, RenderFails, Retry
<1>6. CASE Publish \/ Delete
  <2>1. UNCHANGED <<pc, headEtag, body, lastEtag>>
    BY <1>6 DEF Publish, Delete
  <2>2. object' = NoObject \/ object' = newest + 1
    BY <1>6 DEF Publish, Delete
  <2> QED BY <2>1, <2>2
<1>7. ~(Restore \/ Rollback \/ Tamper)
  BY DEF Restore, Rollback, Tamper
<1>8. CASE Sigterm \/ Tick
  BY <1>8 DEF Sigterm, Tick
<1>9. CASE Crash \/ Restart
  BY <1>9, FreshStart
<1>10. CASE UNCHANGED vars
  BY <1>10 DEF vars
<1> QED
  BY <1>1, <1>2, <1>3, <1>4, <1>5, <1>6, <1>7, <1>8, <1>9, <1>10 DEF Next, Run

(* live/ changes only for an object newer than lastEtag's, or for none;    *)
(* the object changes only to a newer one; and lastEtag changes only to    *)
(* that of the object just rendered, or of one before it.                  *)
LEMMA SkipStep ==
  ASSUME TypeOK, Newest, sendsEtag, ~meddled, CycleIsNewer, SkipIsSound, [Next]_vars, ~meddled'
  PROVE  SkipIsSound'
<1> USE BoundTypes DEF TypeOK, Newest, CycleIsNewer, SkipIsSound, NoObject, NoEtag, s3, local
<1>1. CASE CycleStart \/ IntervalElapses \/ Stop \/ BackoffElapses \/ BackoffCancelled
  BY <1>1 DEF CycleStart, IntervalElapses, Stop, BackoffElapses, BackoffCancelled
<1>2. CASE HeadNotFound \/ HeadUnchanged \/ HeadChanged \/ CallFails \/ GetNotFound \/ GetBody
  BY <1>2 DEF HeadNotFound, HeadUnchanged, HeadChanged, CallFails, GetNotFound, GetBody
<1>3. CASE RenderOk
  \* headEtag <= body <= object: if the object is still Head's, it is what was rendered
  BY <1>3 DEF RenderOk
<1>4. CASE RenderEmptyOk
  BY <1>4 DEF RenderEmptyOk
<1>5. CASE RenderFails
  BY <1>5 DEF RenderFails
<1>6. CASE Publish \/ Delete
  BY <1>6 DEF Publish, Delete
<1>7. ~(Restore \/ Rollback \/ Tamper)
  BY DEF Restore, Rollback, Tamper
<1>8. CASE Sigterm \/ Tick
  BY <1>8 DEF Sigterm, Tick
<1>9. CASE Crash \/ Restart
  BY <1>9, FreshStart
<1>10. CASE UNCHANGED vars
  BY <1>10 DEF vars
<1> QED
  BY <1>1, <1>2, <1>3, <1>4, <1>5, <1>6, <1>7, <1>8, <1>9, <1>10 DEF Next, Run

(* A fresh process has nothing to skip.                                    *)
LEMMA FreshSkip ==
  ASSUME TypeOK, Crash \/ Restart
  PROVE  CycleIsNewer' /\ SkipIsSound'
BY FreshStart DEF CycleIsNewer, SkipIsSound, NoObject

(* The strengthening holds in every state, in every environment.           *)
THEOREM Invariance == Spec => []IInv
<1> DEFINE Sound == sendsEtag /\ ~meddled => CycleIsNewer /\ SkipIsSound
<1>1. Init => Newest /\ Sound
  <2>1. Init => Newest
    BY BoundTypes DEF Init, Newest, NoObject, NoEtag
  <2>2. Init => CycleIsNewer /\ SkipIsSound
    BY DEF Init, CycleIsNewer, SkipIsSound, NoObject, NoEtag
  <2> QED BY <2>1, <2>2
<1>2. TypeOK /\ Newest /\ [Next]_vars => Newest'
  BY NewestStep
<1>3. TypeOK /\ Newest /\ Sound /\ [Next]_vars => Sound'
  <2> SUFFICES ASSUME TypeOK, Newest, Sound, [Next]_vars, sendsEtag', ~meddled'
               PROVE  CycleIsNewer' /\ SkipIsSound'
    OBVIOUS
  <2>1. CASE Crash \/ Restart
    BY <2>1, FreshSkip
  <2>2. CASE ~(Crash \/ Restart)
    <3>1. sendsEtag /\ ~meddled
      BY <2>2, FlagSteps
    <3> QED BY <3>1, CycleStep, SkipStep
  <2> QED BY <2>1, <2>2
<1> QED BY <1>1, <1>2, <1>3, TypeCorrect, PTL DEF Spec, IInv

(* The etag skip never keeps stale certificates, unless somebody meddled   *)
(* since the process started: if the next Head would skip, live/ holds the *)
(* object.                                                                 *)
THEOREM SkipSound == Spec => []SkipIsSound
<1>1. IInv => SkipIsSound
  BY DEF IInv, SkipIsSound
<1> QED BY <1>1, Invariance, PTL

-----------------------------------------------------------------------------
(* What the rest of the system relies on.                                  *)

LEMMA PhaseOfPc ==
  /\ pc \in Running => Phase = "serving"
  /\ pc = "stopped" => Phase = "ok"
  /\ pc = "down" => Phase = "down"
BY DEF Phase, Running

LEMMA PhaseOfNextPc ==
  /\ pc' \in Running => Phase' = "serving"
  /\ pc' = "stopped" => Phase' = "ok"
  /\ pc' = "down" => Phase' = "down"
BY DEF Phase, Running

(* Whatever S3, the object and the disk do, Run ends only when it is told  *)
(* to, and lastSync is never but the time of the latest success.           *)
THEOREM PromisesWorker == Spec => IsWorker
<1>1. Init => Life!Init
  <2> SUFFICES ASSUME Init PROVE Life!Init
    OBVIOUS
  <2>1. Phase = "serving" /\ lastSync = 0 /\ now \in Nat \ {0}
    BY PhaseOfPc DEF Init, Running
  <2>2. cancelled \in BOOLEAN
    BY DEF Init
  <2> QED BY <2>1, <2>2 DEF Life!Init, Life!Start
<1>2. ASSUME [Next]_vars
      PROVE  [Life!Next]_(Life!vars)
  <2> USE <1>2, PhaseOfPc, PhaseOfNextPc DEF Running, s3, local, flags, clock
  <2>1. CASE UNCHANGED <<Phase, cancelled, lastSync, now>>
    BY <2>1 DEF Life!vars
  <2>2. CASE Phase = "serving" /\ Phase' = "serving" /\ markSync /\ UNCHANGED cancelled
    BY <2>2 DEF Life!Next, Life!Sync, Life!Alive, markSync
  <2>3. CASE CycleStart \/ IntervalElapses \/ BackoffElapses \/ BackoffCancelled
    BY <2>1, <2>3 DEF CycleStart, IntervalElapses, BackoffElapses, BackoffCancelled
  <2>4. CASE HeadNotFound \/ HeadChanged \/ GetNotFound
    BY <2>1, <2>4 DEF HeadNotFound, HeadChanged, GetNotFound
  <2>5. CASE CallFails \/ RenderFails
    BY <2>1, <2>5 DEF CallFails, RenderFails, Retry
  <2>6. CASE GetBody
    <3>1. pc = "get" /\ pc' \in {"renderEmpty", "sleep", "render"}
      BY <2>6 DEF GetBody
    <3> QED BY <2>1, <2>6, <3>1 DEF GetBody
  <2>7. CASE HeadUnchanged \/ RenderOk \/ RenderEmptyOk
    BY <2>2, <2>7 DEF HeadUnchanged, RenderOk, RenderEmptyOk
  <2>8. CASE Stop
    BY <2>8 DEF Stop, Life!Next, Life!Finish
  <2>9. CASE Publish \/ Delete \/ Restore \/ Rollback \/ Tamper
    BY <2>1, <2>9 DEF Publish, Delete, Restore, Rollback, Tamper, Phase
  <2>10. CASE Sigterm
    BY <2>10 DEF Sigterm, Life!Next, Life!Cancel, Phase
  <2>11. CASE Crash
    BY <2>11 DEF Crash, Forget, Life!Next, Life!Die
  <2>12. CASE Restart
    <3>1. Phase \in {"ok", "down"} /\ Phase' = "serving"
      BY <2>12 DEF Restart
    <3> QED BY <2>12, <3>1 DEF Restart, Forget, Life!Next, Life!Restart, Life!Ended, Life!Start
  <2>13. CASE Tick
    BY <2>13 DEF Tick, Phase, Life!Next, Life!Tick
  <2>14. CASE UNCHANGED vars
    BY <2>1, <2>14 DEF vars, Phase
  <2> QED BY <2>3, <2>4, <2>5, <2>6, <2>7, <2>8, <2>9, <2>10, <2>11, <2>12, <2>13, <2>14
          DEF Next, Run
<1>3. [Next]_vars => [Life!Next]_(Life!vars)
  BY <1>2
<1> QED BY <1>1, <1>3, PTL DEF Spec, IsWorker, Life!Spec

LEMMA FetchedOfPc ==
  /\ pc = "render" => Fetched = body
  /\ pc = "renderEmpty" => Fetched = Empty
  /\ pc \notin {"render", "renderEmpty"} => Fetched = Node!Nothing
BY DEF Fetched, Nothing, Node!Nothing

LEMMA FetchedOfNextPc ==
  /\ pc' = "render" => Fetched' = body'
  /\ pc' = "renderEmpty" => Fetched' = Empty
  /\ pc' \notin {"render", "renderEmpty"} => Fetched' = Node!Nothing
BY DEF Fetched, Nothing, Node!Nothing, Empty

(* The downloader implements Gateway: live/ only changes to what was       *)
(* fetched and parsed, or part of that on the way, whatever fails or dies. *)
THEOREM PromisesGateway == Spec => IsGateway
<1>1. Init => Node!Init
  <2> SUFFICES ASSUME Init PROVE Node!Init
    OBVIOUS
  <2>1. Fetched = Node!Nothing /\ live = Node!NoDir
    BY FetchedOfPc DEF Init, NoDir, Node!NoDir
  <2>2. object \in 0..MaxVersion
    BY DEF Init
  <2> QED BY <2>1, <2>2 DEF Node!Init
<1>2. ASSUME TypeOK, [Next]_vars
      PROVE  [Node!Next]_(Node!vars)
  <2> USE <1>2, FetchedOfPc, FetchedOfNextPc, BoundTypes, GoodTypes
      DEF s3, local, flags, clock
  <2>0. object \in 0..MaxVersion /\ (pc = "render" => body \in 1..MaxVersion)
    BY DEF TypeOK, Good, Versions
  <2>1. CASE UNCHANGED <<object, live, Fetched>>
    BY <2>1 DEF Node!vars
  <2>2. CASE /\ pc \notin {"render", "renderEmpty"} /\ pc' \notin {"render", "renderEmpty"}
             /\ UNCHANGED <<object, live>>
    BY <2>1, <2>2
  <2>3. CASE CycleStart \/ IntervalElapses \/ Stop \/ BackoffElapses \/ BackoffCancelled
    BY <2>2, <2>3 DEF CycleStart, IntervalElapses, Stop, BackoffElapses, BackoffCancelled
  <2>4. CASE HeadUnchanged \/ HeadChanged \/ CallFails
    BY <2>2, <2>4 DEF HeadUnchanged, HeadChanged, CallFails, Retry
  \* what is to be rendered has just been fetched
  <2>5. ASSUME object \notin BadVersions, Fetched' = Node!Image(object), UNCHANGED <<object, live>>
        PROVE  Node!Next
    BY <2>5 DEF Node!Next, Node!Fetch
  <2>6. CASE HeadNotFound \/ GetNotFound
    <3>1. object = 0 /\ pc' = "renderEmpty" /\ UNCHANGED <<object, live>>
      BY <2>6 DEF HeadNotFound, GetNotFound, NoObject
    <3>2. object \notin BadVersions /\ Node!Image(object) = 0
      BY <3>1, ContentsAssumption DEF Versions, Node!Image, Node!Empty
    <3> QED BY <2>5, <3>1, <3>2 DEF Empty
  <2>7. CASE GetBody
    <3>1. pc = "get" /\ body' = object /\ object # 0 /\ UNCHANGED <<object, live>>
      BY <2>7 DEF GetBody, NoObject
    <3>2. CASE object \in EmptyVersions
      <4>1. pc' = "renderEmpty" /\ object \notin BadVersions
        BY <2>7, <3>2, ContentsAssumption DEF GetBody
      <4>2. Node!Image(object) = 0
        BY <3>2 DEF Node!Image, Node!Empty
      <4> QED BY <2>5, <3>1, <4>1, <4>2 DEF Empty
    <3>3. CASE object \in BadVersions
      <4>1. pc' = "sleep"
        BY <2>7, <3>3, ContentsAssumption DEF GetBody
      <4> QED BY <2>2, <3>1, <4>1
    <3>4. CASE object \notin EmptyVersions \cup BadVersions
      <4>1. pc' = "render"
        BY <2>7, <3>4 DEF GetBody
      <4>2. Node!Image(object) = object
        BY <3>4 DEF Node!Image
      <4> QED BY <2>5, <3>1, <3>4, <4>1, <4>2
    <3> QED BY <3>2, <3>3, <3>4
  \* a Render ends
  <2>8. ASSUME pc \in {"render", "renderEmpty"}, Fetched' = Node!Nothing, UNCHANGED object,
               live' = Goal \/ PartialRender
        PROVE  [Node!Next]_(Node!vars)
    <3>1. Fetched = Goal /\ Goal \in Nat
      BY <2>0, <2>8 DEF Goal, Empty
    <3>2. Fetched # Node!Nothing
      BY <3>1 DEF Node!Nothing
    <3>3. CASE live' = Goal
      BY <2>8, <3>1, <3>2, <3>3 DEF Node!Next, Node!Apply
    <3>4. CASE live' # Goal
      <4>1. live # Goal /\ live' \in {live, Mixed}
        BY <2>8, <3>4 DEF PartialRender
      <4> QED BY <2>8, <3>1, <3>2, <4>1 DEF Node!Next, Node!Abandon, Node!Mixed, Mixed
    <3> QED BY <3>3, <3>4
  <2>9. CASE RenderOk \/ RenderEmptyOk
    BY <2>8, <2>9 DEF RenderOk, RenderEmptyOk, Goal
  <2>10. CASE RenderFails
    BY <2>8, <2>10 DEF RenderFails, Retry
  <2>11. CASE Crash
    <3>1. CASE pc \in {"render", "renderEmpty"}
      BY <2>8, <2>11, <3>1 DEF Crash
    <3>2. CASE pc \notin {"render", "renderEmpty"}
      BY <2>2, <2>11, <3>2 DEF Crash
    <3> QED BY <3>1, <3>2
  <2>12. CASE Publish \/ Delete \/ Restore \/ Rollback
    <3>1. object' \in 0..MaxVersion
      BY <2>12 DEF Publish, Delete, Restore, Rollback, NoObject, TypeOK
    <3>2. UNCHANGED <<pc, body, live>>
      BY <2>12 DEF Publish, Delete, Restore, Rollback
    <3>3. UNCHANGED Fetched
      BY <3>2 DEF Fetched
    <3> QED BY <3>1, <3>2, <3>3 DEF Node!Next, Node!Move
  <2>13. CASE Tamper
    <3>1. UNCHANGED <<pc, body, object>>
      BY <2>13 DEF Tamper
    <3>2. UNCHANGED Fetched
      BY <3>1 DEF Fetched
    <3>3. live # NoDir /\ live' = Mixed
      BY <2>13 DEF Tamper
    <3> QED BY <3>1, <3>2, <3>3 DEF Node!Next, Node!Meddle, Node!NoDir, NoDir, Node!Mixed, Mixed
  <2>14. CASE Sigterm \/ Tick \/ UNCHANGED vars
    BY <2>1, <2>14 DEF Sigterm, Tick, vars, Fetched
  <2>15. CASE Restart
    BY <2>2, <2>15 DEF Restart
  <2> QED BY <2>3, <2>4, <2>6, <2>7, <2>9, <2>10, <2>11, <2>12, <2>13, <2>14, <2>15 DEF Next, Run
<1>3. TypeOK /\ [Next]_vars => [Node!Next]_(Node!vars)
  BY <1>2
<1> QED BY <1>1, <1>3, TypeCorrect, PTL DEF Spec, IsGateway, Node!Spec

-----------------------------------------------------------------------------
(* What a recorded synchronisation says, with the history of MCDownloader. *)

(* The history adds no behaviour.                                          *)
LEMMA HistoryIsOnlyHistory == HistorySpec => Spec
<1>1. HistoryInit => Init
  BY DEF HistoryInit
<1>2. [HistoryNext]_allVars => [Next]_vars
  BY DEF HistoryNext, allVars
<1> QED BY <1>1, <1>2, PTL DEF HistorySpec, Spec

(* What a cycle is about to render is what the object held during it, and  *)
(* live/ never holds a version that has no certificates or does not parse. *)
Seen ==
  /\ object \in seen
  /\ pc = "render" => body \in seen
  /\ pc = "renderEmpty" => \E v \in seen : Image(v) = Empty
  /\ live \notin EmptyVersions \cup BadVersions

LEMMA SeenInit == HistoryInit => Seen
<1> SUFFICES ASSUME HistoryInit PROVE Seen
  OBVIOUS
<1>1. live \notin EmptyVersions \cup BadVersions
  BY ContentsAssumption DEF HistoryInit, Init, NoDir, Versions
<1> QED BY <1>1 DEF HistoryInit, Init, Seen

(* live/ changes to what was fetched, or to no version at all.             *)
LEMMA LiveStep ==
  ASSUME TypeOK, live \notin EmptyVersions \cup BadVersions, [Next]_vars
  PROVE  live' \notin EmptyVersions \cup BadVersions
<1>0. /\ Empty \notin EmptyVersions \cup BadVersions
      /\ Mixed \notin EmptyVersions \cup BadVersions
      /\ pc = "render" => body \notin EmptyVersions \cup BadVersions
  BY ContentsAssumption DEF Empty, Mixed, Versions, TypeOK, Good
<1> USE DEF s3
<1>1. CASE CycleStart \/ IntervalElapses \/ Stop \/ BackoffElapses \/ BackoffCancelled
  BY <1>1 DEF CycleStart, IntervalElapses, Stop, BackoffElapses, BackoffCancelled
<1>2. CASE HeadNotFound \/ HeadUnchanged \/ HeadChanged \/ CallFails \/ GetNotFound \/ GetBody
  BY <1>2 DEF HeadNotFound, HeadUnchanged, HeadChanged, CallFails, GetNotFound, GetBody
<1>3. CASE RenderOk \/ RenderEmptyOk
  BY <1>0, <1>3 DEF RenderOk, RenderEmptyOk
<1>4. ASSUME PartialRender, pc \in {"render", "renderEmpty"}
      PROVE  live' \notin EmptyVersions \cup BadVersions
  BY <1>0, <1>4 DEF PartialRender, Goal
<1>5. CASE RenderFails
  BY <1>4, <1>5 DEF RenderFails
<1>6. CASE Publish \/ Delete \/ Restore \/ Rollback
  BY <1>6 DEF Publish, Delete, Restore, Rollback
<1>7. CASE Tamper
  BY <1>0, <1>7 DEF Tamper
<1>8. CASE Crash
  BY <1>4, <1>8 DEF Crash
<1>9. CASE Sigterm \/ Restart \/ Tick \/ UNCHANGED vars
  BY <1>9 DEF Sigterm, Restart, Tick, vars
<1> QED BY <1>1, <1>2, <1>3, <1>5, <1>6, <1>7, <1>8, <1>9 DEF Next, Run

(* A cycle goes on to render only what it has just found.                  *)
LEMMA FoundStep ==
  ASSUME [Next]_vars, pc' \in {"render", "renderEmpty"}
  PROVE  \/ pc' = pc /\ body' = body
         \/ pc # "cycle" /\ UNCHANGED object
            /\ (pc' = "render" => body' = object)
            /\ (pc' = "renderEmpty" => Image(object) = Empty)
<1> USE DEF s3, local
<1>1. ~(CycleStart \/ IntervalElapses \/ Stop \/ BackoffElapses \/ BackoffCancelled)
  BY DEF CycleStart, IntervalElapses, Stop, BackoffElapses, BackoffCancelled
<1>2. ~(HeadUnchanged \/ HeadChanged \/ CallFails)
  BY DEF HeadUnchanged, HeadChanged, CallFails, Retry
<1>3. CASE HeadNotFound \/ GetNotFound
  <2>1. Image(object) = Empty /\ pc' = "renderEmpty"
    BY <1>3, ContentsAssumption DEF HeadNotFound, GetNotFound, isNotFound, NoObject, Image, Empty,
                                      Versions
  <2> QED BY <1>3, <2>1 DEF HeadNotFound, GetNotFound
<1>4. CASE GetBody
  <2>1. object \notin EmptyVersions => pc' # "renderEmpty"
    BY <1>4 DEF GetBody
  <2> QED BY <1>4, <2>1 DEF GetBody, Image
<1>5. ~(RenderOk \/ RenderEmptyOk \/ RenderFails)
  BY DEF RenderOk, RenderEmptyOk, RenderFails, Retry
<1>6. CASE Publish \/ Delete \/ Restore \/ Rollback \/ Tamper
  BY <1>6 DEF Publish, Delete, Restore, Rollback, Tamper
<1>7. CASE Sigterm \/ Tick \/ UNCHANGED vars
  BY <1>7 DEF Sigterm, Tick, vars
<1>8. ~(Crash \/ Restart)
  BY DEF Crash, Restart
<1> QED BY <1>1, <1>2, <1>3, <1>4, <1>5, <1>6, <1>7, <1>8 DEF Next, Run

LEMMA SeenStep ==
  ASSUME TypeOK, Seen, [HistoryNext]_allVars
  PROVE  Seen'
<1>0. [Next]_vars
  BY DEF HistoryNext, allVars
<1>1. live' \notin EmptyVersions \cup BadVersions
  BY <1>0, LiveStep DEF Seen
<1>2. object' \in seen'
  BY DEF HistoryNext, allVars, vars, s3, Seen
<1>3. pc # "cycle" => seen \subseteq seen'
  BY DEF HistoryNext, allVars
<1>4. pc' = "render" => body' \in seen'
  <2> SUFFICES ASSUME pc' = "render" PROVE body' \in seen'
    OBVIOUS
  <2>1. CASE pc' = pc /\ body' = body
    BY <1>3, <2>1 DEF Seen
  <2>2. CASE body' = object /\ UNCHANGED object
    BY <1>2, <2>2
  <2> QED BY <1>0, <2>1, <2>2, FoundStep
<1>5. pc' = "renderEmpty" => \E v \in seen' : Image(v) = Empty
  <2> SUFFICES ASSUME pc' = "renderEmpty" PROVE \E v \in seen' : Image(v) = Empty
    OBVIOUS
  <2>1. CASE pc' = pc
    BY <1>3, <2>1 DEF Seen
  <2>2. CASE UNCHANGED object /\ Image(object) = Empty
    BY <1>2, <2>2
  <2> QED BY <1>0, <2>1, <2>2, FoundStep
<1>6. (\E v \in seen : Image(v) = Empty)' <=> \E v \in seen' : Image(v) = Empty
  BY DEF Image, Empty
<1> QED BY <1>1, <1>2, <1>4, <1>5, <1>6 DEF Seen

(* Unless an etag misleads it, a cycle that records a synchronisation      *)
(* leaves live/ with what the object held at some moment of that cycle.    *)
THEOREM SyncIsCurrent == HistorySpec => SyncMeansCurrent
<1>1. ASSUME IInv, Seen, [HistoryNext]_allVars,
             pc \in {"head", "render", "renderEmpty"}, pc' = "wait", ~Misled
      PROVE  live' \in {Image(v) : v \in seen'}
  <2>0. [Next]_vars
    BY <1>1 DEF HistoryNext, allVars
  <2>1. seen \subseteq seen'
    BY <1>1 DEF HistoryNext, allVars
  <2>2. SUFFICES \E v \in seen : live' = Image(v)
    BY <2>1
  <2>3. HeadUnchanged \/ RenderOk \/ RenderEmptyOk
    <3> USE <1>1 DEF Retry
    <3>1. ~(CycleStart \/ IntervalElapses \/ Stop \/ BackoffElapses \/ BackoffCancelled)
      BY DEF CycleStart, IntervalElapses, Stop, BackoffElapses, BackoffCancelled
    <3>2. ~(HeadNotFound \/ HeadChanged \/ CallFails \/ GetNotFound \/ GetBody \/ RenderFails)
      BY DEF HeadNotFound, HeadChanged, CallFails, GetNotFound, GetBody, RenderFails
    <3>3. ~(Publish \/ Delete \/ Restore \/ Rollback \/ Tamper)
      BY DEF Publish, Delete, Restore, Rollback, Tamper
    <3>4. ~(Sigterm \/ Crash \/ Restart \/ Tick \/ UNCHANGED vars)
      BY DEF Sigterm, Crash, Restart, Tick, vars
    <3> QED BY <2>0, <3>1, <3>2, <3>3, <3>4 DEF Next, Run
  <2>4. CASE HeadUnchanged
    <3>1. sendsEtag /\ ~meddled /\ object # NoObject /\ object = lastEtag /\ live' = live
      BY <1>1, <2>4 DEF HeadUnchanged, isNotFound, skips, Etag, Misled
    <3>2. live = object
      BY <1>1, <3>1 DEF IInv, SkipIsSound
    <3>3. Image(object) = live
      BY <1>1, <3>2 DEF Image, Seen
    <3> QED BY <1>1, <3>1, <3>3 DEF Seen
  <2>5. CASE RenderOk
    <3>1. pc = "render" /\ live' = body /\ body \in Good
      BY <1>1, <2>5 DEF RenderOk, IInv, TypeOK
    <3>2. Image(body) = body
      BY <3>1 DEF Image, Good
    <3> QED BY <1>1, <3>1, <3>2 DEF Seen
  <2>6. CASE RenderEmptyOk
    BY <1>1, <2>6 DEF RenderEmptyOk, Seen
  <2> QED BY <2>3, <2>4, <2>5, <2>6
<1>2. IInv /\ Seen /\ [HistoryNext]_allVars
      => [ (pc \in {"head", "render", "renderEmpty"} /\ pc' = "wait" /\ ~Misled)
             => (live' \in {Image(v) : v \in seen'}) ]_allVars
  BY <1>1
<1>3. IInv /\ Seen /\ [HistoryNext]_allVars => Seen'
  BY SeenStep DEF IInv
<1> QED BY <1>2, <1>3, SeenInit, HistoryIsOnlyHistory, Invariance, PTL
        DEF HistorySpec, SyncMeansCurrent
=============================================================================
