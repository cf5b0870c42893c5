-------------------------- MODULE DeploymentProofs --------------------------
(***************************************************************************)
(* Proof that a downloader in the place of one gateway is a System again,  *)
(* for any number of other gateways: so a deployment of real downloaders,  *)
(* put in one after the other, is what the theorems on System speak about. *)
(* What they say of a gateway is then said of that downloader.             *)
(***************************************************************************)
EXTENDS Deployment, DownloaderProofs

(* A function on all gateways is its value here and its values elsewhere.  *)
LEMMA WithValues ==
  ASSUME NEW x, NEW f
  PROVE  /\ Here \in Gateways /\ With(x, f)[Here] = x
         /\ \A g \in Others : g \in Gateways /\ g # Here /\ With(x, f)[g] = f[g]
BY DeploymentAssumption DEF With, Gateways

(* The initial states are initial states of System.                        *)
LEMMA SystemInit == DeploymentInit => Deployed /\ Whole!Init
<1> SUFFICES ASSUME DeploymentInit PROVE Deployed /\ Whole!Init
  OBVIOUS
<1>1. /\ live = NoDir /\ Fetched = Whole!Nothing /\ NoDir = Whole!NoDir
      /\ lives = [g \in Others |-> Whole!NoDir]
      /\ fetches = [g \in Others |-> Whole!Nothing]
      /\ bests = [g \in Others |-> 0]
  BY FetchedOfPc DEF DeploymentInit, Init, Rest!Init, NoDir, Rest!NoDir, Whole!NoDir,
                     Node!Nothing, Rest!Nothing, Whole!Nothing
<1>2. Whole!Upload!Init
  BY DEF DeploymentInit, Rest!Init, Rest!Upload!Init, Whole!Upload!Init
<1>3. /\ With(live, lives) = [g \in Gateways |-> Whole!NoDir]
      /\ With(Fetched, fetches) = [g \in Gateways |-> Whole!Nothing]
      /\ With(served, bests) = [g \in Gateways |-> 0]
  BY <1>1 DEF DeploymentInit, With, Gateways
<1>4. TypeOK
  BY InitTypes DEF DeploymentInit
<1>5. Deployed
  BY <1>1, <1>2, <1>4, BoundTypes DEF DeploymentInit, Deployed, OnOthers, NoDir, Whole!Upload!Init
<1> QED BY <1>2, <1>3, <1>5 DEF Whole!Init

-----------------------------------------------------------------------------
(* The steps of the uploader's side and of the other gateways.             *)

(* The two sides of the system count and call things alike.                *)
LEMMA SameWords ==
  /\ Rest!Nothing = Whole!Nothing /\ Rest!Mixed = Whole!Mixed
  /\ \A v : Rest!Image(v) = Whole!Image(v)
BY DEF Rest!Nothing, Whole!Nothing, Rest!Mixed, Whole!Mixed, Rest!Image, Whole!Image,
       Rest!Empty, Whole!Empty

(* What this gateway's process does not do, it does not see, but for the   *)
(* object.                                                                 *)
LEMMA ProcessIdle ==
  ASSUME UNCHANGED process
  PROVE  UNCHANGED <<live, pc, body, Fetched, served>>
BY DEF process, local, Fetched

(* What the uploader's side does is what it does in System.                *)
LEMMA UploadStep ==
  ASSUME Deployed, Issue \/ Put
  PROVE  Deployed' /\ (Whole!Issue \/ Whole!Publish)
<1>1. UNCHANGED <<process, lives, fetches, bests>>
  BY DEF Issue, Put, Rest!Issue, Rest!Publish, Rest!gateways
<1>2. UNCHANGED Whole!gateways
  BY <1>1, ProcessIdle DEF Whole!gateways, With
<1>3. Whole!Issue \/ Whole!Publish
  BY <1>2 DEF Issue, Put, Rest!Issue, Rest!Publish, Whole!Issue, Whole!Publish,
              Rest!Upload!Issue, Whole!Upload!Issue, Rest!Upload!Publish, Whole!Upload!Publish
<1>4. /\ issued' \in 0..MaxVersion
      /\ object' \in 0..MaxVersion /\ newest' \in 0..MaxVersion
  BY BoundTypes DEF Deployed, TypeOK, Issue, Put, Rest!Issue, Rest!Publish,
                    Rest!Upload!Issue, Rest!Upload!Publish
<1>5. TypeOK'
  BY <1>1, <1>4 DEF Deployed, TypeOK, process, local, flags, clock
<1>6. Deployed'
  BY <1>1, <1>4, <1>5, ProcessIdle DEF Deployed, OnOthers
<1> QED BY <1>3, <1>6

(* So is what another gateway does: it is not Here, and keeps to itself.   *)
LEMMA OtherStep ==
  ASSUME Deployed, Other
  PROVE  Deployed' /\ Whole!Next
<1>1. UNCHANGED <<object, newest, issued, process>>
  BY DEF Other, Rest!Fetch, Rest!Apply, Rest!Abandon
<1>2. UNCHANGED <<live, Fetched, served>>
  BY <1>1, ProcessIdle
<1>3. TypeOK'
  BY <1>1 DEF Deployed, TypeOK, process, local, flags, clock
<1>4. PICK g \in Others : Rest!Fetch(g) \/ Rest!Apply(g) \/ Rest!Abandon(g)
  BY DEF Other
<1>5. OnOthers(lives) /\ OnOthers(fetches) /\ OnOthers(bests)
  BY DEF Deployed
<1>6. /\ g \in Gateways
      /\ With(live, lives)[g] = lives[g] /\ With(Fetched, fetches)[g] = fetches[g]
      /\ With(served, bests)[g] = bests[g]
  BY WithValues
<1>7. OnOthers(lives') /\ OnOthers(fetches') /\ OnOthers(bests')
  BY <1>4, <1>5 DEF OnOthers, Rest!Fetch, Rest!Apply, Rest!Abandon
<1>8. Deployed'
  BY <1>1, <1>2, <1>3, <1>7 DEF Deployed, OnOthers
<1>9. CASE Rest!Fetch(g)
  <2>1. object \notin BadVersions /\ fetches' = [fetches EXCEPT ![g] = Whole!Image(object)]
        /\ UNCHANGED <<issued, object, lives, bests>>
    BY <1>9, SameWords DEF Rest!Fetch
  <2>2. With(Fetched', fetches') = [With(Fetched, fetches) EXCEPT ![g] = Whole!Image(object)]
    BY <1>2, <1>5, <2>1, DeploymentAssumption DEF With, Gateways, OnOthers
  <2>3. UNCHANGED <<With(live, lives), With(served, bests)>>
    BY <1>2, <2>1 DEF With
  <2>4. Whole!Fetch(g)
    BY <2>1, <2>2, <2>3 DEF Whole!Fetch, With
  <2> QED BY <1>6, <1>8, <2>4 DEF Whole!Next
<1>10. CASE Rest!Apply(g)
  <2> DEFINE newBest == IF fetches[g] > bests[g] THEN fetches[g] ELSE bests[g]
  <2>1. /\ fetches[g] # Whole!Nothing
        /\ lives' = [lives EXCEPT ![g] = fetches[g]]
        /\ bests' = [bests EXCEPT ![g] = newBest]
        /\ fetches' = [fetches EXCEPT ![g] = Whole!Nothing]
        /\ UNCHANGED <<issued, object>>
    BY <1>5, <1>10, SameWords DEF Rest!Apply
  <2>2. With(live', lives') = [With(live, lives) EXCEPT ![g] = fetches[g]]
    BY <1>2, <1>5, <2>1, DeploymentAssumption DEF With, Gateways, OnOthers
  <2>3. With(Fetched', fetches') = [With(Fetched, fetches) EXCEPT ![g] = Whole!Nothing]
    BY <1>2, <1>5, <2>1, DeploymentAssumption DEF With, Gateways, OnOthers
  <2>4. With(served', bests') = [With(served, bests) EXCEPT ![g] = newBest]
    BY <1>2, <1>5, <2>1, DeploymentAssumption DEF With, Gateways, OnOthers
  <2>5. Whole!Apply(g)
    BY <1>6, <2>1, <2>2, <2>3, <2>4 DEF Whole!Apply, With
  <2> QED BY <1>6, <1>8, <2>5 DEF Whole!Next
<1>11. CASE Rest!Abandon(g)
  <2>1. /\ fetches[g] # Whole!Nothing
        /\ fetches' = [fetches EXCEPT ![g] = Whole!Nothing]
        /\ UNCHANGED <<issued, object, bests>>
    BY <1>11, SameWords DEF Rest!Abandon
  <2>2. PICK v \in IF lives[g] = fetches[g] THEN {lives[g]} ELSE {lives[g], Whole!Mixed} :
          lives' = [lives EXCEPT ![g] = v]
    BY <1>11, SameWords DEF Rest!Abandon
  <2>3. With(live', lives') = [With(live, lives) EXCEPT ![g] = v]
    BY <1>2, <1>5, <2>2, DeploymentAssumption DEF With, Gateways, OnOthers
  <2>4. With(Fetched', fetches') = [With(Fetched, fetches) EXCEPT ![g] = Whole!Nothing]
    BY <1>2, <1>5, <2>1, DeploymentAssumption DEF With, Gateways, OnOthers
  <2>5. UNCHANGED With(served, bests)
    BY <1>2, <2>1 DEF With
  <2>6. Whole!Abandon(g)
    BY <1>6, <2>1, <2>2, <2>3, <2>4, <2>5 DEF Whole!Abandon, With
  <2> QED BY <1>6, <1>8, <2>6 DEF Whole!Next
<1> QED BY <1>4, <1>9, <1>10, <1>11

-----------------------------------------------------------------------------
(* The steps of the downloader.                                            *)

(* A step that leaves the object, live/ and what is being put there alone, *)
(* as most of a cycle does, is none for the system.                        *)
LEMMA Hidden ==
  ASSUME Deployed, UNCHANGED <<object, live, Fetched, others>>, served' = served
  PROVE  UNCHANGED Whole!vars
BY DEF Whole!vars, Whole!gateways, With, others

(* A cycle goes on to render what the object is at that moment.            *)
LEMMA FetchHere ==
  ASSUME Deployed, object \notin BadVersions, Fetched' = Whole!Image(object),
         UNCHANGED <<object, live, others>>, served' = served
  PROVE  Whole!Fetch(Here)
<1>1. With(Fetched', fetches') = [With(Fetched, fetches) EXCEPT ![Here] = Whole!Image(object)]
  BY DEF With, Gateways, others
<1>2. UNCHANGED <<issued, With(live, lives), With(served, bests)>>
  BY DEF With, others
<1> QED BY <1>1, <1>2 DEF Whole!Fetch, With

(* A Render ends with what was fetched in live/, or with what was there    *)
(* before, or with a mixture.                                              *)
LEMMA RenderHere ==
  ASSUME Deployed, Fetched \in 0..MaxVersion, Fetched' = Whole!Nothing,
         live' \in IF live = Fetched THEN {live} ELSE {live, Fetched, Whole!Mixed},
         served' = IF live' > served THEN live' ELSE served,
         UNCHANGED <<object, others>>
  PROVE  Whole!Apply(Here) \/ Whole!Abandon(Here)
<1>1. /\ With(live, lives)[Here] = live /\ With(Fetched, fetches)[Here] = Fetched
      /\ With(served, bests)[Here] = served
  BY WithValues
<1>2. /\ With(live', lives') = [With(live, lives) EXCEPT ![Here] = live']
      /\ With(Fetched', fetches') = [With(Fetched, fetches) EXCEPT ![Here] = Whole!Nothing]
      /\ With(served', bests') = [With(served, bests) EXCEPT ![Here] = served']
  BY DEF With, Gateways, others
<1>3. Fetched # Whole!Nothing /\ UNCHANGED issued
  BY DEF Whole!Nothing, others
<1>4. CASE live' = Fetched
  BY <1>1, <1>2, <1>3, <1>4 DEF Whole!Apply, With
<1>5. CASE live' # Fetched
  <2>1. live # Fetched /\ live' \in {live, Whole!Mixed}
    BY <1>5
  <2>2. served' = served
    BY <2>1, BoundTypes DEF Deployed, TypeOK, NoDir, Whole!Mixed
  <2>3. UNCHANGED With(served, bests)
    BY <2>2 DEF With, others
  <2> QED BY <1>1, <1>2, <1>3, <2>1, <2>3 DEF Whole!Abandon, With
<1> QED BY <1>4, <1>5

(* Every step of the downloader is one of these.                           *)
LEMMA ProcessStep ==
  ASSUME Deployed, Process
  PROVE  Deployed' /\ [Whole!Next]_(Whole!vars)
<1> USE FetchedOfPc, FetchedOfNextPc, BoundTypes, GoodTypes DEF s3, local, flags, clock
<1>0. /\ TypeOK /\ live <= served /\ served \in 0..MaxVersion
      /\ UNCHANGED others /\ served' = IF live' > served THEN live' ELSE served
      /\ Here \in Gateways /\ Node!Nothing = Whole!Nothing
      /\ object \in 0..MaxVersion /\ (pc = "render" => body \in 0..MaxVersion)
  BY WithValues DEF Deployed, TypeOK, Process, Node!Nothing, Whole!Nothing
<1>1. TypeOK'
  BY <1>0, TypeStep DEF Process, Next
<1>2. Deployed'
  <2>1. served' \in 0..MaxVersion /\ live' <= served'
    BY <1>0, <1>1 DEF TypeOK, NoDir
  <2> QED BY <1>0, <1>1, <2>1 DEF Deployed, OnOthers, others
<1> SUFFICES [Whole!Next]_(Whole!vars)
  BY <1>2
<1>3. UNCHANGED live => served' = served
  BY <1>0 DEF TypeOK, NoDir
<1>4. CASE UNCHANGED <<object, live, Fetched>>
  BY <1>0, <1>3, <1>4, Hidden
<1>5. CASE /\ pc \notin {"render", "renderEmpty"} /\ pc' \notin {"render", "renderEmpty"}
           /\ UNCHANGED <<object, live>>
  BY <1>4, <1>5
\* what is to be rendered has just been fetched
<1>6. ASSUME object \notin BadVersions, Fetched' = Whole!Image(object), UNCHANGED <<object, live>>
      PROVE  Whole!Next
  BY <1>0, <1>3, <1>6, FetchHere DEF Whole!Next
\* a Render ends
<1>7. ASSUME pc \in {"render", "renderEmpty"}, pc' \notin {"render", "renderEmpty"},
             UNCHANGED object, live' = Goal \/ PartialRender
      PROVE  Whole!Next
  <2>1. Fetched = Goal /\ Fetched \in 0..MaxVersion /\ Fetched' = Whole!Nothing
    BY <1>0, <1>7 DEF Goal, Empty
  <2>2. live' \in IF live = Fetched THEN {live} ELSE {live, Fetched, Whole!Mixed}
    BY <1>7, <2>1 DEF PartialRender, Mixed, Whole!Mixed
  <2>3. Whole!Apply(Here) \/ Whole!Abandon(Here)
    BY <1>0, <1>7, <2>1, <2>2, RenderHere
  <2> QED BY <1>0, <2>3 DEF Whole!Next
<1>8. CASE CycleStart \/ IntervalElapses \/ Stop \/ BackoffElapses \/ BackoffCancelled
  BY <1>5, <1>8 DEF CycleStart, IntervalElapses, Stop, BackoffElapses, BackoffCancelled
<1>9. CASE HeadUnchanged \/ HeadChanged \/ CallFails
  BY <1>5, <1>9 DEF HeadUnchanged, HeadChanged, CallFails, Retry
<1>10. CASE HeadNotFound \/ GetNotFound
  <2>1. object = 0 /\ pc' = "renderEmpty" /\ UNCHANGED <<object, live>>
    BY <1>10 DEF HeadNotFound, GetNotFound, isNotFound, NoObject
  <2>2. object \notin BadVersions /\ Whole!Image(object) = 0
    BY <2>1, ContentsAssumption DEF Versions, Whole!Image, Whole!Empty
  <2> QED BY <1>6, <2>1, <2>2 DEF Empty
<1>11. CASE GetBody
  <2>1. pc = "get" /\ body' = object /\ object # 0 /\ UNCHANGED <<object, live>>
    BY <1>11 DEF GetBody, isNotFound, NoObject
  <2>2. CASE object \in EmptyVersions
    <3>1. pc' = "renderEmpty" /\ object \notin BadVersions /\ Whole!Image(object) = 0
      BY <1>11, <2>2, ContentsAssumption DEF GetBody, Whole!Image, Whole!Empty
    <3> QED BY <1>6, <2>1, <3>1 DEF Empty
  <2>3. CASE object \in BadVersions
    <3>1. pc' = "sleep"
      BY <1>11, <2>3, ContentsAssumption DEF GetBody
    <3> QED BY <1>5, <2>1, <3>1
  <2>4. CASE object \notin EmptyVersions \cup BadVersions
    <3>1. pc' = "render" /\ Whole!Image(object) = object
      BY <1>11, <2>4 DEF GetBody, Whole!Image
    <3> QED BY <1>6, <2>1, <2>4, <3>1
  <2> QED BY <2>2, <2>3, <2>4
<1>12. CASE RenderOk \/ RenderEmptyOk
  BY <1>7, <1>12 DEF RenderOk, RenderEmptyOk, Goal
<1>13. CASE RenderFails
  BY <1>7, <1>13 DEF RenderFails, Retry
<1>14. CASE Crash
  <2>1. CASE pc \in {"render", "renderEmpty"}
    BY <1>7, <1>14, <2>1 DEF Crash
  <2>2. CASE pc \notin {"render", "renderEmpty"}
    BY <1>5, <1>14, <2>2 DEF Crash
  <2> QED BY <2>1, <2>2
<1>15. CASE Sigterm \/ Tick
  BY <1>4, <1>15 DEF Sigterm, Tick, Fetched
<1>16. CASE Restart
  BY <1>5, <1>16 DEF Restart
<1> QED BY <1>8, <1>9, <1>10, <1>11, <1>12, <1>13, <1>14, <1>15, <1>16 DEF Process, Run

-----------------------------------------------------------------------------
(* Every step keeps the invariant and is a step of System.                 *)
LEMMA DeploymentStep ==
  ASSUME Deployed, [DeploymentNext]_deployment
  PROVE  Deployed' /\ [Whole!Next]_(Whole!vars)
<1>1. CASE Issue \/ Put
  BY <1>1, UploadStep DEF Whole!Next
<1>2. CASE Other
  BY <1>2, OtherStep
<1>3. CASE Process
  BY <1>3, ProcessStep
<1>4. CASE UNCHANGED deployment
  <2>1. UNCHANGED <<object, newest, process, others>>
    BY <1>4 DEF deployment
  <2>2. UNCHANGED <<live, Fetched, served>>
    BY <2>1, ProcessIdle
  <2>3. TypeOK'
    BY <2>1 DEF Deployed, TypeOK, process, local, flags, clock
  <2>4. Deployed'
    BY <2>1, <2>2, <2>3 DEF Deployed, OnOthers, others
  <2> QED BY <2>1, <2>2, <2>4, Hidden
<1> QED BY <1>1, <1>2, <1>3, <1>4 DEF DeploymentNext

(* A downloader among the gateways, with its etags, cycles, retries and    *)
(* crashes, is one of the gateways System has, whatever is published while *)
(* it is at work and whatever the others do.                               *)
THEOREM Composed == DeploymentSpec => IsSystem
<1>1. DeploymentInit => Deployed /\ Whole!Init
  BY SystemInit
<1>2. Deployed /\ [DeploymentNext]_deployment => Deployed' /\ [Whole!Next]_(Whole!vars)
  BY DeploymentStep
<1> QED BY <1>1, <1>2, PTL DEF DeploymentSpec, IsSystem, Whole!Spec

-----------------------------------------------------------------------------
(* What is proved of System, for the downloader.                           *)

Proved == INSTANCE SystemProofs WITH
  published <- object,
  live <- With(live, lives), fetched <- With(Fetched, fetches), best <- With(served, bests)

(* System with its proofs is System.                                       *)
LEMMA SameSystem == Whole!Spec => Proved!Spec
<1>1. /\ \A v : Whole!Image(v) = Proved!Image(v)
      /\ Whole!Nothing = Proved!Nothing /\ Whole!Mixed = Proved!Mixed /\ Whole!NoDir = Proved!NoDir
  BY DEF Whole!Image, Proved!Image, Whole!Nothing, Proved!Nothing, Whole!Mixed, Proved!Mixed,
         Whole!NoDir, Proved!NoDir, Whole!Empty, Proved!Empty
<1>2. Whole!vars = Proved!vars /\ Whole!gateways = Proved!gateways
  BY DEF Whole!vars, Proved!vars, Whole!gateways, Proved!gateways
<1>3. Whole!Init => Proved!Init
  BY <1>1 DEF Whole!Init, Proved!Init, Whole!Upload!Init, Proved!Upload!Init
<1>4. Whole!Next => Proved!Next
  <2>1. Whole!Issue \/ Whole!Publish => Proved!Issue \/ Proved!Publish
    BY <1>2 DEF Whole!Issue, Whole!Publish, Whole!Upload!Issue, Whole!Upload!Publish,
                Proved!Issue, Proved!Publish, Proved!Upload!Issue, Proved!Upload!Publish,
                Whole!gateways, Proved!gateways
  <2>2. ASSUME NEW g \in Gateways PROVE Whole!Fetch(g) => Proved!Fetch(g)
    BY <1>1 DEF Whole!Fetch, Proved!Fetch
  <2>3. ASSUME NEW g \in Gateways PROVE Whole!Apply(g) => Proved!Apply(g)
    BY <1>1 DEF Whole!Apply, Proved!Apply
  <2>4. ASSUME NEW g \in Gateways PROVE Whole!Abandon(g) => Proved!Abandon(g)
    BY <1>1 DEF Whole!Abandon, Proved!Abandon
  <2> QED BY <2>1, <2>2, <2>3, <2>4 DEF Whole!Next, Proved!Next
<1>5. [Whole!Next]_(Whole!vars) => [Proved!Next]_(Proved!vars)
  BY <1>4 DEF Whole!vars, Proved!vars, Whole!gateways, Proved!gateways
<1> QED BY <1>3, <1>5, PTL DEF Whole!Spec, Proved!Spec

(* What is assumed of the constants is what System assumes.                *)
LEMMA SameConstants == Proved!ContentsAssumption
BY ContentsAssumption DEF Proved!ContentsAssumption, Proved!Versions, Versions

(* Every variable of the deployment stays in its domain.                   *)
THEOREM DeploymentTypes == DeploymentSpec => []DeploymentTypeOK
<1>1. Proved!Spec => []Proved!TypeOK
  BY SameConstants, Proved!TypeCorrect
<1>2. DeploymentSpec => []Deployed
  BY SystemInit, DeploymentStep, PTL DEF DeploymentSpec
<1>3. Deployed /\ Proved!TypeOK => DeploymentTypeOK
  <2> SUFFICES ASSUME Deployed, Proved!TypeOK PROVE DeploymentTypeOK
    OBVIOUS
  <2>1. \A g \in Others : /\ lives[g] \in Proved!NoDir..MaxVersion
                          /\ fetches[g] \in {Proved!Nothing} \cup 0..MaxVersion
                          /\ bests[g] \in 0..MaxVersion
    BY WithValues DEF Proved!TypeOK
  <2>2. /\ lives \in [Others -> Rest!NoDir..MaxVersion]
        /\ fetches \in [Others -> {Rest!Nothing} \cup 0..MaxVersion]
        /\ bests \in [Others -> 0..MaxVersion]
    BY <2>1 DEF Deployed, OnOthers, Proved!NoDir, Rest!NoDir, Proved!Nothing, Rest!Nothing
  <2> QED BY <2>2 DEF DeploymentTypeOK, Deployed, Rest!TypeOK, Proved!TypeOK
<1> QED BY <1>1, <1>2, <1>3, Composed, SameSystem, PTL DEF IsSystem

(* No gateway serves an older version than before, the downloader in full  *)
(* no more than the others, whatever fails, crashes or is published        *)
(* between its Head, its Get and its Render.                               *)
THEOREM NoneGoesBack == DeploymentSpec => []NeverBackward
<1>1. Proved!Spec => []Proved!NeverBackward
  BY SameConstants, Proved!Forwards
<1>2. Proved!NeverBackward => NeverBackward
  BY DEF NeverBackward, Whole!NeverBackward, Proved!NeverBackward,
         Whole!Versions, Proved!Versions, Whole!Empty, Proved!Empty
<1> QED BY <1>1, <1>2, Composed, SameSystem, PTL DEF IsSystem
=============================================================================
