---------------------------- MODULE RenderProofs ----------------------------
(***************************************************************************)
(* Proofs about Render, for any set of hosts and any number of versions:   *)
(* whatever fails, and wherever the process dies, the index never names a  *)
(* missing file; and a Render that succeeds is exact.                      *)
(***************************************************************************)
EXTENDS Render, TLAPS

USE RenderAssumption

-----------------------------------------------------------------------------
(* The files of a host, and the host of a file.                            *)
LEMMA FilesOfHosts ==
  /\ \A f \in Files : f[1] \in Hosts /\ f[2] \in {"crt", "key"} /\ f = <<f[1], f[2]>>
  /\ \A h \in Hosts : <<h, "crt">> \in Files /\ <<h, "key">> \in Files
BY DEF Files

(* Wanted hosts are hosts, and a file of a wanted host has a version.      *)
LEMMA WantType ==
  ASSUME TypeOK
  PROVE  /\ Wanted \in SUBSET Hosts
         /\ \A f \in Files : Want(f) \in 0..MaxVersion
BY FilesOfHosts DEF TypeOK, Certs, Wanted, Want

(* The index names hosts.                                                  *)
LEMMA RefsType ==
  ASSUME TypeOK
  PROVE  Refs \subseteq Hosts
<1>1. index \in SUBSET Hosts \/ index = NoIndex
  BY DEF TypeOK
<1>2. CASE index = NoIndex
  BY <1>2 DEF Refs
<1>3. CASE index # NoIndex
  BY <1>1, <1>3 DEF Refs
<1> QED BY <1>2, <1>3

(* Every step keeps the types.                                             *)
LEMMA TypeStep ==
  ASSUME TypeOK, [Next]_vars
  PROVE  TypeOK'
<1> USE DEF TypeOK, disk, locals, history
<1>1. ASSUME NEW certs \in Certs, Begin(certs)
      PROVE  TypeOK'
  BY <1>1 DEF Begin
<1>2. ASSUME NEW f \in Files, SkipFile(f)
      PROVE  TypeOK'
  BY <1>2 DEF SkipFile
<1>3. ASSUME NEW f \in Files, StageFile(f) \/ StageUnread(f)
      PROVE  TypeOK'
  BY <1>3 DEF StageFile, StageUnread, Stage
<1>4. ASSUME NEW f \in Files, StageFileFails(f)
      PROVE  TypeOK'
  BY <1>4 DEF StageFileFails, Fail
<1>5. ASSUME NEW f \in Files, RemoveStale(f)
      PROVE  TypeOK'
  BY <1>5 DEF RemoveStale
<1>6. CASE RenameFile
  <2>1. Want(tmp) \in 0..MaxVersion
    BY <1>6, WantType DEF RenameFile
  <2> QED BY <1>6, <2>1 DEF RenameFile
<1>7. CASE CertsDone
  BY <1>7 DEF CertsDone
<1>8. CASE SkipIndex
  BY <1>8 DEF SkipIndex
<1>9. CASE StageIndex \/ StageIndexUnread
  BY <1>9 DEF StageIndex, StageIndexUnread, Stage
<1>10. CASE StageIndexFails
  BY <1>10 DEF StageIndexFails, Fail
<1>11. CASE RenameIndex
  BY <1>11, WantType DEF RenameIndex
<1>12. CASE ListLive
  BY <1>12 DEF ListLive, keep
<1>13. CASE Finish
  BY <1>13 DEF Finish
<1>14. CASE MkdirFails
  BY <1>14 DEF MkdirFails, Fail
<1>15. CASE MoveFails
  BY <1>15 DEF MoveFails, Fail
<1>16. CASE PruneFails
  BY <1>16 DEF PruneFails, Fail
<1>17. CASE Crash
  BY <1>17 DEF Crash
<1>18. CASE UNCHANGED vars
  BY <1>18 DEF vars
<1> QED BY <1>1, <1>2, <1>3, <1>4, <1>5, <1>6, <1>7, <1>8, <1>9, <1>10, <1>11, <1>12,
           <1>13, <1>14, <1>15, <1>16, <1>17, <1>18 DEF Next

(* Every step keeps what the steps before it have established.             *)
LEMMA ProgressStep ==
  ASSUME TypeOK, Progress, [Next]_vars
  PROVE  Progress'
<1> USE DEF Progress, disk, locals
<1>1. ASSUME NEW certs \in Certs, Begin(certs)
      PROVE  Progress'
  BY <1>1, FilesOfHosts DEF Begin, Want, TypeOK
<1>2. ASSUME NEW f \in Files, SkipFile(f)
      PROVE  Progress'
  BY <1>2 DEF SkipFile, NextFile, Want
<1>3. ASSUME NEW f \in Files, StageFile(f) \/ StageUnread(f)
      PROVE  Progress'
  BY <1>3 DEF StageFile, StageUnread, Stage, NextFile, Want
<1>4. ASSUME NEW f \in Files, StageFileFails(f)
      PROVE  Progress'
  BY <1>4 DEF StageFileFails, Fail
<1>5. ASSUME NEW f \in Files, RemoveStale(f)
      PROVE  Progress'
  <2>1. /\ pc = "remove" /\ f \in stale /\ stale' = stale \ {f}
        /\ live' = [live EXCEPT ![f] = 0]
        /\ UNCHANGED <<index, target, pc, todo, tmp>>
    BY <1>5 DEF RemoveStale
  <2>2. f \notin keep
    BY <2>1
  <2>3. keep' = keep /\ Wanted' = Wanted /\ \A g \in Files : Want(g)' = Want(g)
    BY <2>1 DEF keep, Want, Wanted
  <2>4. \A g \in Files : live'[g] = IF g = f THEN 0 ELSE live[g]
    BY <2>1 DEF TypeOK
  <2>5. \A g \in keep : g \in Files /\ live'[g] = Want(g)
    BY <2>1, <2>2, <2>4 DEF keep
  <2>6. stale' = {g \in Files : live'[g] # 0} \ keep
    BY <2>1, <2>4
  <2>7. tmp \notin Files /\ tmp # TlsYml /\ index = Wanted
    BY <2>1
  <2> QED BY <2>1, <2>3, <2>5, <2>6, <2>7
<1>6. CASE RenameFile
  <2>1. /\ pc = "certs" /\ tmp \in Files /\ todo' = todo \ {tmp}
        /\ live' = [live EXCEPT ![tmp] = Want(tmp)] /\ tmp' = Nothing
        /\ UNCHANGED <<target, pc>>
    BY <1>6 DEF RenameFile
  <2>2. \A g \in Files : live'[g] = IF g = tmp THEN Want(tmp) ELSE live[g]
    BY <2>1 DEF TypeOK
  <2>3. \A g \in Files : Want(g)' = Want(g)
    BY <2>1 DEF Want
  <2>4. \A g \in Files : Want(g)' # 0 /\ g \notin todo' => live'[g] = Want(g)'
    BY <2>1, <2>2, <2>3
  <2>5. \A g \in todo' : Want(g)' # 0
    BY <2>1, <2>3 DEF TypeOK
  <2>6. pc' = "certs" /\ tmp' \notin Files /\ tmp' # TlsYml
    BY <2>1
  <2> QED BY <2>4, <2>5, <2>6
<1>7. CASE CertsDone
  BY <1>7 DEF CertsDone, keep, Want
<1>8. CASE SkipIndex
  BY <1>8 DEF SkipIndex, keep, Want, Wanted
<1>9. CASE StageIndex \/ StageIndexUnread
  BY <1>9 DEF StageIndex, StageIndexUnread, Stage, keep, Want
<1>10. CASE StageIndexFails
  BY <1>10 DEF StageIndexFails, Fail
<1>11. CASE RenameIndex
  BY <1>11 DEF RenameIndex, keep, Want, Wanted
<1>12. CASE ListLive
  BY <1>12 DEF ListLive, keep, Want, Wanted
<1>13. CASE Finish
  BY <1>13 DEF Finish
<1>14. CASE MkdirFails
  BY <1>14 DEF MkdirFails, Fail
<1>15. CASE MoveFails
  BY <1>15 DEF MoveFails, Fail
<1>16. CASE PruneFails
  BY <1>16 DEF PruneFails, Fail
<1>17. CASE Crash
  BY <1>17 DEF Crash
<1>18. CASE UNCHANGED vars
  BY <1>18 DEF vars, keep, Want, Wanted
<1> QED BY <1>1, <1>2, <1>3, <1>4, <1>5, <1>6, <1>7, <1>8, <1>9, <1>10, <1>11, <1>12,
           <1>13, <1>14, <1>15, <1>16, <1>17, <1>18 DEF Next

-----------------------------------------------------------------------------
(* The steps that touch neither a file of live/ nor the index.             *)
LEMMA QuietSteps ==
  ASSUME [Next]_vars
  PROVE  \/ UNCHANGED <<live, index>>
         \/ RenameFile \/ RenameIndex \/ \E f \in Files : RemoveStale(f)
<1> USE DEF disk
<1>1. ASSUME NEW certs \in Certs, Begin(certs)
      PROVE  UNCHANGED <<live, index>>
  BY <1>1 DEF Begin
<1>2. ASSUME NEW f \in Files, SkipFile(f) \/ StageFile(f) \/ StageUnread(f) \/ StageFileFails(f)
      PROVE  UNCHANGED <<live, index>>
  BY <1>2 DEF SkipFile, StageFile, StageUnread, Stage, StageFileFails, Fail
<1>3. CertsDone \/ SkipIndex \/ StageIndex \/ StageIndexUnread \/ StageIndexFails => UNCHANGED <<live, index>>
  BY DEF CertsDone, SkipIndex, StageIndex, StageIndexUnread, Stage, StageIndexFails, Fail
<1>4. ListLive \/ Finish \/ MkdirFails \/ MoveFails \/ PruneFails \/ Crash
      => UNCHANGED <<live, index>>
  BY DEF ListLive, Finish, MkdirFails, MoveFails, PruneFails, Fail, Crash
<1>5. UNCHANGED vars => UNCHANGED <<live, index>>
  BY DEF vars
<1> QED BY <1>1, <1>2, <1>3, <1>4, <1>5 DEF Next

(* No step makes the index name a missing file.                            *)
LEMMA DangleStep ==
  ASSUME TypeOK, Progress, IndexNeverDangles, [Next]_vars
  PROVE  IndexNeverDangles'
<1> SUFFICES ASSUME NEW h \in Refs'
             PROVE  live'[<<h, "crt">>] # 0 /\ live'[<<h, "key">>] # 0
  BY DEF IndexNeverDangles
<1> USE DEF TypeOK, Progress, IndexNeverDangles
<1>0. Refs \subseteq Hosts
  BY RefsType
<1>1. CASE UNCHANGED <<live, index>>
  BY <1>1 DEF Refs
<1>2. CASE RenameFile
  <2>1. /\ tmp \in Files /\ Want(tmp) # 0 /\ UNCHANGED index
        /\ live' = [live EXCEPT ![tmp] = Want(tmp)]
    BY <1>2 DEF RenameFile
  <2>2. h \in Refs /\ <<h, "crt">> \in Files /\ <<h, "key">> \in Files
    BY <1>0, <2>1, FilesOfHosts DEF Refs
  <2> QED BY <2>1, <2>2
<1>3. CASE RenameIndex
  <2>1. pc = "index" /\ index' = Wanted /\ UNCHANGED live
    BY <1>3 DEF RenameIndex
  <2>2. h \in Wanted
    BY <2>1 DEF Refs
  <2>3. <<h, "crt">> \in keep /\ <<h, "key">> \in keep
    BY <2>2, FilesOfHosts DEF keep, Want, Wanted
  <2> QED BY <2>1, <2>3 DEF keep
<1>4. ASSUME NEW f \in Files, RemoveStale(f)
      PROVE  live'[<<h, "crt">>] # 0 /\ live'[<<h, "key">>] # 0
  <2>1. /\ pc = "remove" /\ f \notin keep /\ UNCHANGED index
        /\ live' = [live EXCEPT ![f] = 0]
    BY <1>4 DEF RemoveStale
  <2>2. h \in Wanted /\ h \in Refs
    BY <2>1 DEF Refs
  <2>3. /\ <<h, "crt">> \in keep /\ <<h, "key">> \in keep
        /\ <<h, "crt">> \in Files /\ <<h, "key">> \in Files
    BY <2>2, FilesOfHosts DEF keep, Want, Wanted
  <2> QED BY <2>1, <2>2, <2>3
<1> QED BY <1>1, <1>2, <1>3, <1>4, QuietSteps

(* Only Finish reports success.                                            *)
LEMMA OnlyFinishSucceeds ==
  ASSUME Next, ~Finish
  PROVE  ~(pc' = "idle" /\ result' = "ok")
BY DEF Next, Begin, SkipFile, NextFile, StageFile, StageUnread, Stage, StageFileFails, RemoveStale,
       RenameFile, CertsDone, SkipIndex, StageIndex, StageIndexUnread, StageIndexFails, RenameIndex,
       ListLive, MkdirFails, MoveFails, PruneFails, Fail, Crash

(* When Finish reports success, nothing is left to do.                     *)
LEMMA ExactStep ==
  ASSUME TypeOK, Progress, RenderExact, [Next]_vars
  PROVE  RenderExact'
<1> USE DEF RenderExact, LiveIsExact, disk, locals
<1>1. CASE Finish
  <2>1. \A f \in Files : live[f] = Want(f)
    <3> TAKE f \in Files
    <3>1. CASE f \in keep
      BY <1>1, <3>1 DEF Finish, Progress
    <3>2. CASE f \notin keep
      BY <1>1, <3>2 DEF Finish, Progress, keep
    <3> QED BY <3>1, <3>2
  <2> QED BY <1>1, <2>1 DEF Finish, Progress, Want, Wanted
<1>2. CASE UNCHANGED vars
  BY <1>2 DEF vars, Want, Wanted
<1>3. CASE Next /\ ~Finish
  BY <1>3, OnlyFinishSucceeds
<1> QED BY <1>1, <1>2, <1>3

(* The flags go with what happens to live/.                                *)
LEMMA HonestStep ==
  ASSUME TypeOK, Progress, Honest, [Next]_vars
  PROVE  Honest'
<1> USE DEF Honest, disk, history
<1>1. ASSUME NEW certs \in Certs, Begin(certs)
      PROVE  Honest'
  BY <1>1 DEF Begin, Progress
<1>2. ASSUME NEW f \in Files, SkipFile(f)
      PROVE  Honest'
  BY <1>2 DEF SkipFile, NextFile
<1>3. ASSUME NEW f \in Files, StageFile(f)
      PROVE  Honest'
  BY <1>3 DEF StageFile, Stage, NextFile, Want
<1>4. ASSUME NEW f \in Files, StageUnread(f)
      PROVE  Honest'
  BY <1>4 DEF StageUnread, Stage, NextFile
<1>5. ASSUME NEW f \in Files, StageFileFails(f) \/ RemoveStale(f)
      PROVE  Honest'
  <2>1. CASE StageFileFails(f)
    BY <2>1 DEF StageFileFails, Fail
  <2>2. CASE RemoveStale(f)
    BY <2>2 DEF RemoveStale, Progress
  <2> QED BY <1>5, <2>1, <2>2
<1>6. CASE RenameFile
  BY <1>6 DEF RenameFile
<1>7. CASE CertsDone \/ SkipIndex \/ ListLive
  BY <1>7 DEF CertsDone, SkipIndex, ListLive, Progress
<1>8. CASE StageIndex
  BY <1>8 DEF StageIndex, Stage, Wanted
<1>9. CASE StageIndexUnread
  BY <1>9 DEF StageIndexUnread, Stage
<1>10. CASE RenameIndex
  BY <1>10 DEF RenameIndex
<1>11. CASE StageIndexFails \/ MkdirFails \/ MoveFails \/ PruneFails
  BY <1>11 DEF StageIndexFails, MkdirFails, MoveFails, PruneFails, Fail
<1>12. CASE Finish
  BY <1>12 DEF Finish, Progress
<1>13. CASE Crash
  BY <1>13 DEF Crash
<1>14. CASE UNCHANGED vars
  BY <1>14 DEF vars, locals, Want, Wanted
<1> QED
  BY <1>1, <1>2, <1>3, <1>4, <1>5, <1>6, <1>7, <1>8, <1>9, <1>10, <1>11, <1>12, <1>13, <1>14
  DEF Next

(* Only Finish reports a change, and it reports what happened.             *)
LEMMA ReportStep ==
  ASSUME TypeOK, Honest, ChangeIsReported, [Next]_vars
  PROVE  ChangeIsReported'
<1> USE DEF ChangeIsReported, disk, locals, history
<1>1. CASE Finish
  BY <1>1 DEF Finish, Honest
<1>2. CASE UNCHANGED vars
  BY <1>2 DEF vars
<1>3. CASE Next /\ ~Finish
  BY <1>3, OnlyFinishSucceeds
<1> QED BY <1>1, <1>2, <1>3

(* A file is only ever replaced by what is wanted of it, and only removed  *)
(* when it is not wanted.                                                  *)
LEMMA RightStays ==
  ASSUME TypeOK, Progress, pc # "idle", [Next]_vars
  PROVE  /\ \A f \in Files : live[f] = Want(f) => live'[f] = Want(f)'
         /\ index = Wanted => index' = Wanted'
<1> USE DEF TypeOK, Want, Wanted
<1>1. UNCHANGED target
  <2>1. ~(\E certs \in Certs : Begin(certs))
    BY DEF Begin
  <2> QED
    BY <2>1 DEF Next, SkipFile, NextFile, StageFile, StageUnread, Stage, StageFileFails, RemoveStale,
                RenameFile, CertsDone, SkipIndex, StageIndex, StageIndexUnread, StageIndexFails,
                RenameIndex, ListLive, Finish, MkdirFails, MoveFails, PruneFails, Fail, Crash, vars, locals
<1>2. CASE UNCHANGED <<live, index>>
  BY <1>1, <1>2
<1>3. CASE RenameFile
  BY <1>1, <1>3 DEF RenameFile
<1>4. CASE RenameIndex
  BY <1>1, <1>4 DEF RenameIndex
<1>5. ASSUME NEW f \in Files, RemoveStale(f)
      PROVE  /\ \A g \in Files : live[g] = Want(g) => live'[g] = Want(g)'
             /\ index' = index
  <2>1. pc = "remove" /\ f \in stale /\ live' = [live EXCEPT ![f] = 0] /\ index' = index
    BY <1>5 DEF RemoveStale
  <2>2. f \notin keep
    BY <2>1 DEF Progress
  <2>3. Want(f) = 0
    BY <2>2 DEF keep
  <2> QED BY <1>1, <2>1, <2>3
<1>6. ASSUME NEW f \in Files, RemoveStale(f)
      PROVE  index = Wanted => index' = Wanted'
  BY <1>1, <1>5, <1>6
<1> QED BY <1>2, <1>3, <1>4, <1>5, <1>6, QuietSteps

(* Such a step does not even touch the directories, if all can be read.    *)
LEMMA ExactIsQuiet ==
  ASSUME TypeOK, Progress, Honest, pc # "idle", LiveIsExact, ~unread', [Next]_vars
  PROVE  UNCHANGED disk
<1> USE DEF LiveIsExact, disk, history
<1>1. ~unread
  <2>1. ~(\E certs \in Certs : Begin(certs))
    BY DEF Begin
  <2> QED
    BY <2>1 DEF Next, SkipFile, NextFile, StageFile, StageUnread, Stage, StageFileFails, RemoveStale,
                RenameFile, CertsDone, SkipIndex, StageIndex, StageIndexUnread, StageIndexFails,
                RenameIndex, ListLive, Finish, MkdirFails, MoveFails, PruneFails, Fail, Crash, vars
<1>2. tmp = Nothing
  BY <1>1 DEF Honest, TypeOK
<1>3. ASSUME NEW f \in Files, SkipFile(f) \/ StageFile(f) \/ StageUnread(f) \/ StageFileFails(f)
      PROVE  UNCHANGED disk
  BY <1>3 DEF SkipFile, StageFile, StageUnread, StageFileFails
<1>4. ASSUME NEW f \in Files, RemoveStale(f)
      PROVE  FALSE
  <2>1. live[f] # 0 /\ f \notin keep
    BY <1>4 DEF RemoveStale, Progress
  <2> QED BY <2>1 DEF keep
<1>5. CASE CertsDone \/ SkipIndex \/ StageIndex \/ StageIndexUnread \/ StageIndexFails
  BY <1>5 DEF CertsDone, SkipIndex, StageIndex, StageIndexUnread, StageIndexFails
<1>6. ~RenameFile /\ ~RenameIndex /\ ~MoveFails
  BY <1>2, RenderAssumption DEF RenameFile, RenameIndex, MoveFails
<1>7. CASE ListLive \/ Finish \/ MkdirFails \/ PruneFails \/ Crash
  BY <1>7 DEF ListLive, Finish, MkdirFails, PruneFails, Fail, Crash
<1>8. CASE UNCHANGED vars
  BY <1>8 DEF vars
<1>9. ~(\E certs \in Certs : Begin(certs))
  BY DEF Begin
<1> QED BY <1>3, <1>4, <1>5, <1>6, <1>7, <1>8, <1>9 DEF Next

-----------------------------------------------------------------------------
(* The inductive invariant holds of every behaviour.                       *)
THEOREM Invariance == Spec => []IInv
<1>1. Init => TypeOK
  <2> SUFFICES ASSUME Init PROVE TypeOK
    OBVIOUS
  <2> USE DEF Init
  <2>1. live \in [Files -> 0..MaxVersion] /\ target \in Certs
    BY DEF Certs
  <2>2. index \in (SUBSET Hosts) \cup {NoIndex}
    OBVIOUS
  <2>3. /\ staging = {} /\ todo = {} /\ stale = {}
        /\ tmp \in Files \cup {TlsYml, Nothing}
    OBVIOUS
  <2>4. /\ pc = "idle" /\ result = "none"
        /\ changed = FALSE /\ pruned = FALSE /\ touched = FALSE /\ unread = FALSE
    OBVIOUS
  <2> QED BY <2>1, <2>2, <2>3, <2>4 DEF TypeOK
<1>2. Init => Progress /\ IndexNeverDangles /\ RenderExact
  BY DEF Init, Progress, IndexNeverDangles, Refs, RenderExact, LiveIsExact
<1>7. Init => Honest /\ ChangeIsReported
  BY DEF Init, Honest, ChangeIsReported
<1>3. TypeOK /\ [Next]_vars => TypeOK'
  BY TypeStep
<1>4. TypeOK /\ Progress /\ [Next]_vars => Progress'
  BY ProgressStep
<1>5. TypeOK /\ Progress /\ IndexNeverDangles /\ [Next]_vars => IndexNeverDangles'
  BY DangleStep
<1>6. TypeOK /\ Progress /\ RenderExact /\ [Next]_vars => RenderExact'
  BY ExactStep
<1>8. TypeOK /\ Progress /\ Honest /\ [Next]_vars => Honest'
  BY HonestStep
<1>9. TypeOK /\ Honest /\ ChangeIsReported /\ [Next]_vars => ChangeIsReported'
  BY ReportStep
<1> QED BY <1>1, <1>2, <1>3, <1>4, <1>5, <1>6, <1>7, <1>8, <1>9, PTL DEF Spec, IInv

(* Every variable of Render stays in its domain.                           *)
THEOREM TypeCorrect == Spec => []TypeOK
<1>1. IInv => TypeOK
  BY DEF IInv
<1> QED BY <1>1, Invariance, PTL

(* Whatever fails and wherever the process dies, a reload of Traefik finds *)
(* every file the index names.                                             *)
THEOREM NeverDangles == Spec => []IndexNeverDangles
<1>1. IInv => IndexNeverDangles
  BY DEF IInv
<1> QED BY <1>1, Invariance, PTL

(* A Render that succeeds leaves exactly its argument in live/.            *)
THEOREM SuccessIsExact == Spec => []RenderExact
<1>1. IInv => RenderExact
  BY DEF IInv
<1> QED BY <1>1, Invariance, PTL

(* A Render that succeeds reports a change exactly when it made one.       *)
THEOREM ReportsChange == Spec => []ChangeIsReported
<1>1. IInv => ChangeIsReported
  BY DEF IInv
<1> QED BY <1>1, Invariance, PTL

(* Every file that is right already stays right while Render runs, fails   *)
(* or dies, and so does the index.                                         *)
THEOREM NeverSpoils == Spec => RenderNeverSpoils
<1>1. IInv /\ [Next]_vars
      => [pc # "idle" =>
            /\ \A f \in Files : live[f] = Want(f) => live'[f] = Want(f)'
            /\ index = Wanted => index' = Wanted']_vars
  BY RightStays DEF IInv
<1> QED BY <1>1, Invariance, PTL DEF Spec, RenderNeverSpoils

(* Rendering what live/ already holds touches nothing.                     *)
THEOREM Quiet == Spec => IdenticalRenderIsQuiet
<1>1. IInv /\ [Next]_vars => [pc # "idle" /\ LiveIsExact /\ ~unread' => UNCHANGED disk]_vars
  BY ExactIsQuiet DEF IInv
<1> QED BY <1>1, Invariance, PTL DEF Spec, IdenticalRenderIsQuiet
-----------------------------------------------------------------------------
(* Render implements Serving.  A host's pair of files, as Traefik sees it. *)
LEMMA TwoOf ==
  \A a, b : /\ {a, b} = {a} <=> a = b
           /\ 0 \in {a, b} <=> a = 0 \/ b = 0
  OBVIOUS

USE DEF Torn, Missing

LEMMA PairIs ==
  ASSUME TypeOK, IndexNeverDangles, NEW h \in Hosts
  PROVE  /\ live[<<h, "crt">>] \in 0..MaxVersion /\ live[<<h, "key">>] \in 0..MaxVersion
         /\ h \notin Refs => Pair(h) = 0
         /\ h \in Refs =>
              /\ live[<<h, "crt">>] # 0 /\ live[<<h, "key">>] # 0
              /\ Pair(h) = IF live[<<h, "crt">>] = live[<<h, "key">>]
                           THEN live[<<h, "crt">>] ELSE Torn
              /\ Pair(h) # 0
<1>1. /\ live[<<h, "crt">>] \in 0..MaxVersion /\ live[<<h, "key">>] \in 0..MaxVersion
  BY FilesOfHosts DEF TypeOK
<1>2. h \in Refs => live[<<h, "crt">>] # 0 /\ live[<<h, "key">>] # 0
  BY DEF IndexNeverDangles
<1>3. h \notin Refs => Pair(h) = 0
  BY DEF Pair
<1>4. h \in Refs => Pair(h) = IF live[<<h, "crt">>] = live[<<h, "key">>]
                              THEN live[<<h, "crt">>] ELSE Torn
  BY <1>2, TwoOf DEF Pair
<1> QED BY <1>1, <1>2, <1>3, <1>4

(* What is not touched is served as before.                                *)
LEMMA SamePair ==
  ASSUME NEW h, UNCHANGED index, live'[<<h, "crt">>] = live[<<h, "crt">>],
         live'[<<h, "key">>] = live[<<h, "key">>]
  PROVE  Pair(h)' = Pair(h)
<1>1. Refs' = Refs
  BY DEF Refs
<1> QED BY <1>1 DEF Pair

(* Where the index is the wanted one and the wanted files are there,       *)
(* Traefik serves what was asked for.                                      *)
LEMMA ServesTarget ==
  ASSUME TypeOK, index = Wanted, \A f \in keep : live[f] = Want(f)
  PROVE  [h \in Hosts |-> Pair(h)] = target
<1>1. Refs = Wanted
  BY RenderAssumption DEF Refs, Wanted, NoIndex
<1>2. target \in [Hosts -> 0..MaxVersion]
  BY DEF TypeOK, Certs
<1>3. ASSUME NEW h \in Hosts
      PROVE  Pair(h) = target[h]
  <2>1. CASE target[h] = 0
    BY <1>1, <2>1 DEF Pair, Wanted
  <2>2. CASE target[h] # 0
    <3>1. h \in Refs
      BY <1>1, <2>2 DEF Wanted
    <3>2. <<h, "crt">> \in keep /\ <<h, "key">> \in keep
      BY <2>2, FilesOfHosts DEF keep, Want
    <3>3. live[<<h, "crt">>] = target[h] /\ live[<<h, "key">>] = target[h]
      BY <3>2 DEF Want
    <3>4. {live[<<h, "crt">>], live[<<h, "key">>]} = {target[h]}
      BY <3>3
    <3> QED BY <2>2, <3>1, <3>3, <3>4 DEF Pair
  <2> QED BY <2>1, <2>2
<1> QED BY <1>2, <1>3

(* Renaming a file renews one host that is served, or one that is not yet. *)
LEMMA RenameFileServes ==
  ASSUME TypeOK, Progress, IndexNeverDangles, RenameFile
  PROVE  (\E h \in Hosts : Serve!Renew(h)) \/ UNCHANGED Serve!vars
<1> DEFINE served == [g \in Hosts |-> Pair(g)]
<1>1. /\ pc = "certs" /\ tmp \in Files /\ Want(tmp) # 0
      /\ live' = [live EXCEPT ![tmp] = Want(tmp)]
      /\ UNCHANGED <<index, target, pc, result>>
  BY DEF RenameFile, Progress
<1>2. PICK h \in Hosts : /\ target[h] = Want(tmp) /\ tmp \in {<<h, "crt">>, <<h, "key">>}
                         /\ <<h, "crt">> \in Files /\ <<h, "key">> \in Files
  <2>1. /\ tmp[1] \in Hosts /\ tmp \in {<<tmp[1], "crt">>, <<tmp[1], "key">>}
        /\ <<tmp[1], "crt">> \in Files /\ <<tmp[1], "key">> \in Files
    BY <1>1, FilesOfHosts
  <2> QED BY <2>1 DEF Want
<1>3. \A f \in Files : live'[f] = IF f = tmp THEN target[h] ELSE live[f]
  BY <1>1, <1>2 DEF TypeOK
<1>4. ASSUME NEW g \in Hosts, g # h
      PROVE  Pair(g)' = Pair(g)
  <2>1. <<g, "crt">> \in Files /\ <<g, "key">> \in Files /\ <<g, "crt">> # tmp /\ <<g, "key">> # tmp
    BY <1>2, <1>4, FilesOfHosts
  <2> QED BY <1>1, <1>3, <2>1, SamePair
<1>5. Refs' = Refs
  BY <1>1 DEF Refs
<1>6. CASE h \notin Refs \/ Pair(h)' = Pair(h)
  <2>1. Pair(h)' = Pair(h)
    BY <1>5, <1>6 DEF Pair
  <2>2. served' = served
    BY <1>4, <2>1
  <2> QED BY <1>1, <2>2 DEF Serve!vars
<1>7. CASE h \in Refs /\ Pair(h)' # Pair(h)
  <2>1. /\ live[<<h, "crt">>] # 0 /\ live[<<h, "key">>] # 0
        /\ Pair(h) # 0 /\ Pair(h) = IF live[<<h, "crt">>] = live[<<h, "key">>]
                                    THEN live[<<h, "crt">>] ELSE Torn
    BY <1>7, PairIs
  <2>2. live'[<<h, "crt">>] # 0 /\ live'[<<h, "key">>] # 0
    BY <1>1, <1>2, <1>3, <2>1
  <2>3. Pair(h)' = IF live'[<<h, "crt">>] = live'[<<h, "key">>]
                   THEN live'[<<h, "crt">>] ELSE Torn
    BY <1>5, <1>7, <2>2, TwoOf DEF Pair
  <2>4. Pair(h)' \in {Torn, target[h]}
    BY <1>2, <1>3, <2>3
  <2>5. Pair(h) # target[h]
    BY <1>2, <1>3, <1>7, <2>1, <2>3
  <2>6. served' = [served EXCEPT ![h] = Pair(h)']
    BY <1>2, <1>4
  <2>7. served[h] = Pair(h) /\ target[h] # 0
    BY <1>1, <1>2
  <2>8. Serve!Renew(h)
    BY <1>1, <2>1, <2>4, <2>5, <2>6, <2>7
    DEF Serve!Renew, Serve!NotServed, Serve!Torn
  <2> QED BY <1>2, <2>8
<1> QED BY <1>6, <1>7
(* Renaming the index makes Traefik serve what was asked for, at once.     *)
LEMMA RenameIndexServes ==
  ASSUME TypeOK, Progress, IndexNeverDangles, RenameIndex
  PROVE  Serve!Switch
<1> DEFINE served == [h \in Hosts |-> Pair(h)]
<1>1. /\ pc = "index" /\ pc' = "prune" /\ index' = Wanted
      /\ UNCHANGED <<live, target, result>>
      /\ \A f \in keep : live[f] = Want(f)
  BY DEF RenameIndex, Progress
<1>2. ASSUME NEW h \in Hosts, served[h] # 0, target[h] # 0
      PROVE  served[h] = target[h]
  <2>1. h \in Refs
    BY <1>2 DEF Pair
  <2>2. <<h, "crt">> \in keep /\ <<h, "key">> \in keep
    BY <1>2, FilesOfHosts DEF keep, Want
  <2>3. live[<<h, "crt">>] = target[h] /\ live[<<h, "key">>] = target[h]
    BY <1>1, <2>2 DEF Want
  <2> QED BY <1>2, <2>1, <2>3, TwoOf DEF Pair
<1>3. served' = target
  <2>1. Refs' = Wanted
    BY <1>1, RenderAssumption DEF Refs, Wanted, NoIndex
  <2>2. ASSUME NEW h \in Hosts
        PROVE  Pair(h)' = target[h]
    <3>1. CASE target[h] = 0
      BY <2>1, <3>1 DEF Pair, Wanted
    <3>2. CASE target[h] # 0
      <4>1. <<h, "crt">> \in keep /\ <<h, "key">> \in keep
        BY <3>2, FilesOfHosts DEF keep, Want
      <4>2. live'[<<h, "crt">>] = target[h] /\ live'[<<h, "key">>] = target[h]
        BY <1>1, <4>1 DEF Want
      <4>3. h \in Refs'
        BY <2>1, <3>2 DEF Wanted
      <4> QED BY <3>2, <4>2, <4>3, TwoOf DEF Pair
    <3> QED BY <3>1, <3>2
  <2> QED BY <2>2 DEF TypeOK, Certs
<1> QED BY <1>1, <1>2, <1>3 DEF Serve!Switch, Serve!NotServed

(* What is pruned was not served.                                          *)
LEMMA RemoveServes ==
  ASSUME TypeOK, Progress, NEW f \in Files, RemoveStale(f)
  PROVE  UNCHANGED Serve!vars
<1>1. /\ pc = "remove" /\ f \notin keep /\ index = Wanted
      /\ live' = [live EXCEPT ![f] = 0]
      /\ UNCHANGED <<index, target, pc, result>>
  BY DEF RemoveStale, Progress
<1>2. Refs' = Refs /\ Refs = Wanted
  BY <1>1, RenderAssumption DEF Refs, Wanted, NoIndex
<1>3. ASSUME NEW h \in Hosts
      PROVE  Pair(h)' = Pair(h)
  <2>1. CASE f[1] = h
    <3>1. h \notin Refs
      BY <1>1, <1>2, <2>1 DEF keep, Want, Wanted
    <3> QED BY <1>2, <3>1 DEF Pair
  <2>2. CASE f[1] # h
    <3>1. <<h, "crt">> # f /\ <<h, "key">> # f /\ <<h, "crt">> \in Files /\ <<h, "key">> \in Files
      BY <2>2, FilesOfHosts
    <3>2. live'[<<h, "crt">>] = live[<<h, "crt">>] /\ live'[<<h, "key">>] = live[<<h, "key">>]
      BY <1>1, <3>1 DEF TypeOK
    <3> QED BY <1>1, <3>2, SamePair
  <2> QED BY <2>1, <2>2
<1> QED BY <1>1, <1>3 DEF Serve!vars

(* Success means that what was asked for is served.                        *)
LEMMA FinishServes ==
  ASSUME TypeOK, Progress, Finish
  PROVE  Serve!Succeed
<1>1. /\ pc = "remove" /\ pc' = "idle" /\ result' = "ok"
      /\ index = Wanted /\ \A f \in keep : live[f] = Want(f)
      /\ UNCHANGED <<live, index, target>>
  BY DEF Finish, Progress, disk
<1>2. [h \in Hosts |-> Pair(h)] = target
  BY <1>1, ServesTarget
<1>3. [h \in Hosts |-> Pair(h)]' = [h \in Hosts |-> Pair(h)]
  BY <1>1 DEF Pair, Refs
<1> QED BY <1>1, <1>2, <1>3 DEF Serve!Succeed

(* The steps that modify neither live/ nor the index begin an attempt, end *)
(* one without success, or are hidden.                                     *)
LEMMA HiddenServes ==
  ASSUME TypeOK, Progress, Next, UNCHANGED <<live, index>>, ~Finish, ~RenameFile, ~RenameIndex,
         \A f \in Files : ~RemoveStale(f)
  PROVE  Serve!Next \/ UNCHANGED Serve!vars
<1>1. [h \in Hosts |-> Pair(h)]' = [h \in Hosts |-> Pair(h)]
  BY DEF Pair, Refs
<1>2. ASSUME NEW certs \in Certs, Begin(certs)
      PROVE  Serve!Next
  <2>1. Serve!Begin(certs)
    BY <1>1, <1>2 DEF Begin, Serve!Begin
  <2> QED BY <2>1 DEF Serve!Next, Serve!Certs, Certs
<1>3. CASE pc # "idle" /\ pc' = "idle" /\ result' \in {"error", "none"} /\ UNCHANGED target
  BY <1>1, <1>3 DEF Serve!Next, Serve!GiveUp
<1>4. CASE pc # "idle" /\ pc' # "idle" /\ UNCHANGED <<target, result>>
  BY <1>1, <1>4 DEF Serve!vars
<1>5. ASSUME NEW f \in Files, SkipFile(f) \/ StageFile(f) \/ StageUnread(f)
      PROVE  pc # "idle" /\ pc' # "idle" /\ UNCHANGED <<target, result>>
  BY <1>5 DEF SkipFile, StageFile, StageUnread, Stage, NextFile
<1>6. ASSUME NEW f \in Files, StageFileFails(f)
      PROVE  pc # "idle" /\ pc' = "idle" /\ result' \in {"error", "none"} /\ UNCHANGED target
  BY <1>6 DEF StageFileFails, NextFile, Fail
<1>7. CertsDone \/ SkipIndex \/ StageIndex \/ StageIndexUnread \/ ListLive
      => pc # "idle" /\ pc' # "idle" /\ UNCHANGED <<target, result>>
  BY DEF CertsDone, SkipIndex, StageIndex, StageIndexUnread, Stage, ListLive
<1>8. ASSUME StageIndexFails \/ MkdirFails \/ MoveFails \/ PruneFails \/ Crash
      PROVE  pc # "idle" /\ pc' = "idle" /\ result' \in {"error", "none"} /\ UNCHANGED target
  BY <1>8 DEF StageIndexFails, MkdirFails, MoveFails, PruneFails, Fail, Crash, Progress, TypeOK
<1> QED BY <1>2, <1>3, <1>4, <1>5, <1>6, <1>7, <1>8 DEF Next

(* Render implements Serving: whatever fails and wherever it dies, hosts   *)
(* come and go in one step, after every certificate that stays is renewed, *)
(* and only a pair that is being renewed is ever torn.                     *)
THEOREM PromisesServing == Spec => IsServing
<1>1. Init => Serve!Init
  <2> SUFFICES ASSUME Init PROVE Serve!Init
    OBVIOUS
  <2>1. \A h \in Hosts : Pair(h) = 0
    BY DEF Init, Pair, Refs
  <2>2. target \in Certs
    BY DEF Init, Certs
  <2> QED BY <2>1, <2>2 DEF Init, Serve!Init, Serve!NotServed, Serve!Certs, Certs
<1>2. IInv /\ [Next]_vars => [Serve!Next]_(Serve!vars)
  <2> SUFFICES ASSUME IInv, [Next]_vars PROVE Serve!Next \/ UNCHANGED Serve!vars
    OBVIOUS
  <2>1. TypeOK /\ Progress /\ IndexNeverDangles
    BY DEF IInv
  <2>2. CASE UNCHANGED vars
    BY <2>2 DEF vars, disk, locals, Serve!vars, Pair, Refs
  <2>3. CASE RenameFile
    BY <2>1, <2>3, RenameFileServes DEF Serve!Next
  <2>4. CASE RenameIndex
    BY <2>1, <2>4, RenameIndexServes DEF Serve!Next
  <2>5. ASSUME NEW f \in Files, RemoveStale(f)
        PROVE  UNCHANGED Serve!vars
    BY <2>1, <2>5, RemoveServes
  <2>6. CASE Finish
    BY <2>1, <2>6, FinishServes DEF Serve!Next
  <2>7. CASE /\ Next /\ ~Finish /\ ~RenameFile /\ ~RenameIndex
             /\ \A f \in Files : ~RemoveStale(f)
    <3>1. UNCHANGED <<live, index>>
      BY <2>7, QuietSteps
    <3> QED BY <2>1, <2>7, <3>1, HiddenServes
  <2> QED BY <2>2, <2>3, <2>4, <2>5, <2>6, <2>7
<1> QED BY <1>1, <1>2, Invariance, PTL DEF Spec, IsServing, Serve!Spec
=============================================================================
