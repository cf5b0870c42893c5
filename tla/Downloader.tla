----------------------------- MODULE Downloader -----------------------------
(***************************************************************************)
(* certific download: the process that polls one S3 object and reconciles  *)
(* a gateway's live/ directory with it (internal/certific/downloader.go).  *)
(*                                                                         *)
(* The object's content is its version; an etag is derived from the        *)
(* content, so equal contents have equal etags.  Some versions are empty   *)
(* files and some do not parse.  Render is one step here: it ends with     *)
(* live/ equal to its argument or fails with live/ part way (module Render *)
(* has its single file operations).                                        *)
(***************************************************************************)
EXTENDS Contents

CONSTANTS MaxTime,        \* bound on the clock
          Env             \* what else may happen: see the environment below

EnvMoves == {"fault", "delete", "restore", "rollback", "tamper"}

ASSUME DownloaderAssumption == MaxTime \in Nat \ {0} /\ Env \subseteq EnvMoves

NoEtag == 0
Good == Versions \ (EmptyVersions \cup BadVersions)

VARIABLES
  object,     \* version in S3
  newest,     \* newest version ever published
  sendsEtag,  \* whether this store sends an etag with Head
  live,       \* what live/ holds
  pc,         \* where Run stands
  headEtag,   \* etag the current Head returned
  body,       \* version the last Get returned
  lastEtag,   \* Downloader.lastEtag
  cancelled,  \* ctx is done
  lastSync,   \* Downloader.lastSync, 0 when never
  now,        \* the clock
  meddled     \* history: since the process started, the object was put back to
              \* an earlier version, or somebody else changed live/

s3    == <<object, newest, sendsEtag>>
local == <<headEtag, body, lastEtag>>
flags == <<cancelled, meddled>>
clock == <<lastSync, now>>
vars  == <<s3, live, pc, local, flags, clock>>

Running == {"cycle", "head", "get", "render", "renderEmpty", "sleep", "wait"}

TypeOK ==
  /\ object \in 0..MaxVersion
  /\ newest \in 0..MaxVersion
  /\ sendsEtag \in BOOLEAN
  /\ live \in NoDir..MaxVersion
  /\ pc \in Running \cup {"stopped", "down"}
  /\ headEtag \in 0..MaxVersion
  /\ body \in 0..MaxVersion /\ (pc = "render" => body \in Good)
  /\ lastEtag \in 0..MaxVersion
  /\ cancelled \in BOOLEAN /\ meddled \in BOOLEAN
  /\ lastSync \in 0..now
  /\ now \in 1..MaxTime

(* A gateway that has never run: OutDir is there, live/ is not.            *)
Init ==
  /\ newest \in 0..MaxVersion /\ object = newest
  /\ sendsEtag \in BOOLEAN
  /\ live = NoDir
  /\ pc = "cycle"
  /\ headEtag = NoEtag /\ body = NoObject /\ lastEtag = NoEtag
  /\ cancelled = FALSE /\ meddled = FALSE
  /\ lastSync = 0 /\ now = 1

markSync == lastSync' = now /\ UNCHANGED now

-----------------------------------------------------------------------------
(* Run and cycle.                                                          *)

CycleStartNoCheck ==   \* mutant: cycle does not look at ctx
  /\ pc = "cycle"
  /\ pc' = "head"
  /\ UNCHANGED <<s3, live, local, flags, clock>>

CycleStart ==
  /\ pc = "cycle"
  /\ pc' = IF cancelled THEN "wait" ELSE "head"
  /\ UNCHANGED <<s3, live, local, flags, clock>>

IntervalElapses ==
  /\ pc = "wait"
  /\ pc' = "cycle"
  /\ UNCHANGED <<s3, live, local, flags, clock>>

Stop ==
  /\ pc = "wait" /\ cancelled
  /\ pc' = "stopped"
  /\ UNCHANGED <<s3, live, local, flags, clock>>

BackoffElapses ==
  /\ pc = "sleep"
  /\ pc' = "cycle"
  /\ UNCHANGED <<s3, live, local, flags, clock>>

BackoffCancelled ==
  /\ pc = "sleep" /\ cancelled
  /\ pc' = "wait"
  /\ UNCHANGED <<s3, live, local, flags, clock>>

(* tryCycle returned an error.                                             *)
Retry == pc' = "sleep" /\ UNCHANGED clock

-----------------------------------------------------------------------------
(* tryCycle.                                                               *)

Etag(v) == IF sendsEtag THEN v ELSE NoEtag

(* The several ways S3 says that an object is missing are one error.       *)
isNotFound == object = NoObject

HeadNotFoundKeeps ==   \* mutant: a 404 counts as a sync and leaves live/ alone
  /\ pc = "head" /\ isNotFound
  /\ pc' = "wait"
  /\ markSync
  /\ UNCHANGED <<s3, live, local, flags>>

HeadNotFound ==
  /\ pc = "head" /\ isNotFound
  /\ pc' = "renderEmpty"
  /\ UNCHANGED <<s3, live, local, flags, clock>>

skipsNoEtag == Etag(object) = lastEtag   \* mutant: a missing etag is compared too

(* Head's etag is known and the one a Render that succeeded recorded.      *)
skips == Etag(object) # NoEtag /\ Etag(object) = lastEtag

HeadUnchanged ==
  /\ pc = "head" /\ ~isNotFound /\ skips
  /\ pc' = "wait"
  /\ markSync
  /\ UNCHANGED <<s3, live, local, flags>>

HeadChanged ==
  /\ pc = "head" /\ ~isNotFound /\ ~skips
  /\ pc' = "get"
  /\ headEtag' = Etag(object)
  /\ UNCHANGED <<s3, live, body, lastEtag, flags, clock>>

(* Head, Get or reading the body fails, by itself or because ctx is done.  *)
CallFails ==
  /\ pc \in {"head", "get"}
  /\ "fault" \in Env \/ cancelled
  /\ Retry
  /\ UNCHANGED <<s3, live, local, flags>>

GetNotFound ==
  /\ pc = "get" /\ isNotFound
  /\ pc' = "renderEmpty"
  /\ UNCHANGED <<s3, live, local, flags, clock>>

GetBodyAsIs ==   \* mutant: an empty body is not told apart
  /\ pc = "get" /\ ~isNotFound
  /\ body' = object
  /\ pc' = IF object \in BadVersions THEN "sleep" ELSE "render"
  /\ UNCHANGED <<s3, live, headEtag, lastEtag, flags, clock>>

(* What Get returns is what the object holds now, which may be newer than  *)
(* what Head saw.                                                          *)
GetBody ==
  /\ pc = "get" /\ ~isNotFound
  /\ body' = object
  /\ pc' = CASE object \in EmptyVersions -> "renderEmpty"
             [] object \in BadVersions   -> "sleep"
             [] OTHER                    -> "render"
  /\ UNCHANGED <<s3, live, headEtag, lastEtag, flags, clock>>

RenderOk ==
  /\ pc = "render"
  /\ live' = body
  /\ lastEtag' = IF headEtag # NoEtag THEN headEtag ELSE body
  /\ pc' = "wait"
  /\ markSync
  /\ UNCHANGED <<s3, headEtag, body, flags>>

(* lastEtag is left alone.                                                 *)
RenderEmptyOk ==
  /\ pc = "renderEmpty"
  /\ live' = Empty
  /\ pc' = "wait"
  /\ markSync
  /\ UNCHANGED <<s3, local, flags>>

(* What the Render under way is to leave in live/.                         *)
Goal == IF pc = "render" THEN body ELSE Empty

PartialRenderAny == live' \in {live, Goal, Mixed}   \* mutant: files are rewritten in place

(* A Render that fails or dies has done nothing, some or all of its work;  *)
(* it spoils nothing that was right already (Render!RenderNeverSpoils).    *)
PartialRender == live' \in IF live = Goal THEN {live} ELSE {live, Goal, Mixed}

RenderFailsPoisons ==   \* mutant: lastEtag is recorded before the render
  /\ pc \in {"render", "renderEmpty"} /\ "fault" \in Env
  /\ PartialRender
  /\ lastEtag' = headEtag
  /\ Retry
  /\ UNCHANGED <<s3, headEtag, body, flags>>

RenderFailsFatal ==   \* mutant: a failed render ends Run
  /\ pc \in {"render", "renderEmpty"} /\ "fault" \in Env
  /\ PartialRender
  /\ pc' = "stopped"
  /\ UNCHANGED <<s3, local, flags, clock>>

RenderFailsRetriesBody ==   \* mutant: the retry renders what the failed attempt had got
  /\ pc \in {"render", "renderEmpty"} /\ "fault" \in Env
  /\ PartialRender
  /\ UNCHANGED <<s3, pc, local, flags, clock>>

RenderFails ==
  /\ pc \in {"render", "renderEmpty"} /\ "fault" \in Env
  /\ PartialRender
  /\ Retry
  /\ UNCHANGED <<s3, local, flags>>

-----------------------------------------------------------------------------
(* The environment.                                                        *)

(* The uploader publishes a new version.                                   *)
Publish ==
  /\ newest < MaxVersion
  /\ newest' = newest + 1 /\ object' = newest'
  /\ UNCHANGED <<sendsEtag, live, pc, local, flags, clock>>

Delete ==
  /\ "delete" \in Env /\ object # NoObject
  /\ object' = NoObject
  /\ UNCHANGED <<newest, sendsEtag, live, pc, local, flags, clock>>

(* The uploader, restarted, finds no object and uploads its file again.    *)
Restore ==
  /\ "restore" \in Env /\ object = NoObject /\ newest # NoObject
  /\ object' = newest
  /\ meddled' = TRUE
  /\ UNCHANGED <<newest, sendsEtag, live, pc, local, cancelled, clock>>

(* An operator puts an earlier version back.                               *)
Rollback ==
  /\ "rollback" \in Env
  /\ object' \in 1..newest
  /\ meddled' = TRUE
  /\ UNCHANGED <<newest, sendsEtag, live, pc, local, cancelled, clock>>

(* A file in live/ is deleted or corrupted.                                *)
Tamper ==
  /\ "tamper" \in Env /\ live # NoDir
  /\ live' = Mixed
  /\ meddled' = TRUE
  /\ UNCHANGED <<s3, pc, local, cancelled, clock>>

Sigterm ==
  /\ pc \in Running /\ ~cancelled
  /\ cancelled' = TRUE
  /\ UNCHANGED <<s3, live, pc, local, meddled, clock>>

Forget ==
  /\ headEtag' = NoEtag /\ body' = NoObject /\ lastEtag' = NoEtag
  /\ cancelled' = FALSE /\ meddled' = FALSE
  /\ lastSync' = 0 /\ UNCHANGED now

(* The process dies, perhaps in the middle of a Render.                    *)
Crash ==
  /\ pc \in Running
  /\ pc' = "down"
  /\ IF pc \in {"render", "renderEmpty"} THEN PartialRender ELSE UNCHANGED live
  /\ Forget
  /\ UNCHANGED s3

Restart ==
  /\ pc \in {"stopped", "down"}
  /\ pc' = "cycle"
  /\ Forget
  /\ UNCHANGED <<s3, live>>

Tick ==
  /\ now < MaxTime
  /\ now' = now + 1
  /\ UNCHANGED <<s3, live, pc, local, flags, lastSync>>

-----------------------------------------------------------------------------
Run == \/ CycleStart \/ IntervalElapses \/ Stop \/ BackoffElapses \/ BackoffCancelled
       \/ HeadNotFound \/ HeadUnchanged \/ HeadChanged \/ CallFails
       \/ GetNotFound \/ GetBody
       \/ RenderOk \/ RenderEmptyOk \/ RenderFails

Next == \/ Run
        \/ Publish \/ Delete \/ Restore \/ Rollback \/ Tamper
        \/ Sigterm \/ Crash \/ Restart \/ Tick

Spec == Init /\ [][Next]_vars

(* The process is scheduled and restarted, and select sees ctx.Done() some *)
(* time.  Nothing is assumed of S3 or the disk.                            *)
Fairness == WF_vars(Run) /\ WF_vars(Restart) /\ SF_vars(Stop)

FairSpec == Spec /\ Fairness

-----------------------------------------------------------------------------
(* Properties.                                                             *)

(* The etag may say "unchanged" of something it does not stand for.        *)
Misled == sendsEtag /\ meddled

(* Unless the object was put back to what it held before or somebody else  *)
(* changed live/ since the process started, the etag skip is sound:        *)
(* whenever the next Head would skip the Get, live/ already holds the      *)
(* object's certificates, whatever was published between the Head and the  *)
(* Get that set lastEtag, whatever failed.                                 *)
SkipIsSound ==
  sendsEtag /\ ~meddled /\ object # NoObject /\ object = lastEtag => live = object

Phase == CASE pc \in Running -> "serving" [] pc = "stopped" -> "ok" [] OTHER -> pc

Life == INSTANCE Worker WITH phase <- Phase, Fallible <- FALSE

(* downloader.go:88-93, which main.go relies on: Run ends only after its   *)
(* context was cancelled, never for anything S3, a malformed object or the *)
(* disk does, and LastSync is never anything but the time of the latest    *)
(* success of this process.                                                *)
IsWorker == Life!Spec

(* S3 and the disk succeed again and again if they are asked again and     *)
(* again.                                                                  *)
Answers ==
  /\ SF_vars(HeadNotFound) /\ SF_vars(HeadChanged)
  /\ SF_vars(GetNotFound) /\ SF_vars(GetBody)
  /\ SF_vars(RenderOk) /\ SF_vars(RenderEmptyOk)

Fetched == CASE pc = "render" -> body [] pc = "renderEmpty" -> Empty [] OTHER -> Nothing

Node == INSTANCE Gateway WITH fetched <- Fetched

(* What the rest of the system sees of a downloader: live/ changes only to *)
(* the certificates of an object that was there and parsed, or to part of  *)
(* that on the way, and a Render that is retried or dies spoils nothing.   *)
(* System composes gateways that promise this.                             *)
IsGateway == Node!Spec

LeftAlone == <>[][Run \/ Restart \/ Tick]_vars

(* Left alone, the gateway ends up with the object's certificates, or none *)
(* if there is no object or an empty one, whatever happened before; only   *)
(* an etag that misleads can prevent it.                                   *)
EventuallyServed ==
  Answers /\ LeftAlone
    => <>[](~Misled /\ object \notin BadVersions => live = Image(object))

(* SIGTERM ends Run, even if S3 and the disk never answer well.            *)
StopEnds == cancelled ~> pc \in {"stopped", "down"}

(* README.md:257-262: "Corrupted local file on a gateway.  The next        *)
(* download cycle re-parses acme.json and reconciles <out-dir>/live/ back  *)
(* to match".  Left alone after somebody modified live/, the gateway ends  *)
(* up with the object's certificates again.                                *)
CorruptionIsReconciled ==
  Answers /\ LeftAlone => <>[](object \in Good => live = object)

-----------------------------------------------------------------------------
(* The inductive invariant behind SkipIsSound.                             *)

(* Nothing known is newer than the newest version, nor, unless somebody    *)
(* meddled, than the object, if there is one.                              *)
Newest ==
  /\ object <= newest
  /\ headEtag <= newest /\ body <= newest /\ lastEtag <= newest
  /\ object # NoObject /\ ~meddled =>
       headEtag <= object /\ body <= object /\ lastEtag <= object

(* A cycle only gets as far as changing live/ for an object newer than the *)
(* one lastEtag stands for, so what it leaves half done is not skipped.    *)
CycleIsNewer ==
  /\ pc = "get" => lastEtag < headEtag
  /\ pc = "render" => lastEtag < headEtag /\ headEtag <= body
  /\ pc = "renderEmpty" => object = NoObject \/ lastEtag < object

(* These hold together in every state.                                     *)
IInv == TypeOK /\ Newest /\ (sendsEtag /\ ~meddled => CycleIsNewer /\ SkipIsSound)
=============================================================================
