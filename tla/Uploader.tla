------------------------------ MODULE Uploader ------------------------------
(***************************************************************************)
(* certific upload: the process that keeps one S3 object equal to the      *)
(* acme.json Traefik maintains (internal/certific/uploader.go).            *)
(*                                                                         *)
(* A file content is its version: 1, 2, ... in the order the issuer wrote  *)
(* them, Torn for bytes that json.Valid refuses (Traefik truncates the     *)
(* file before writing it), Absent for no file.  An object and a hash are  *)
(* versions too, Absent meaning "no object" and "hasHash is false".        *)
(*                                                                         *)
(* The environment is the issuer writing the file, the kernel's inotify    *)
(* queue, S3, signals, crashes and the container's restart policy.         *)
(***************************************************************************)
EXTENDS Integers, Sequences

CONSTANTS MaxVersion,   \* bound on the versions the issuer writes
          QueueCap,     \* length at which the inotify queue overflows
          MaxTime,      \* bound on the clock
          Faults        \* whether S3 calls and reads may fail by themselves

ASSUME UploaderAssumption == /\ MaxVersion \in Nat
                             /\ QueueCap \in Nat \ {0}
                             /\ MaxTime \in Nat \ {0}
                             /\ Faults \in BOOLEAN

Absent == 0
Torn == -1
Versions == 1..MaxVersion

VARIABLES
  file,       \* content of Path on the issuer's disk
  issued,     \* newest version the issuer has written
  object,     \* content of the S3 object
  pc,         \* where Run stands
  buf,        \* bytes held between a read and the write that uses them
  lastHash,   \* Uploader.lastHash / hasHash
  armed,      \* debounceCh # nil: a debounced upload is scheduled
  queue,      \* directory events the loop has not consumed
  cancelled,  \* ctx is done
  flush,      \* the shutdown flush: not started, running, out of time
  lastSync,   \* Uploader.lastSync, 0 when never
  now,        \* the clock
  missed      \* history: a change was lost to an overflow or a failed read

disk   == <<file, issued>>
memory == <<buf, lastHash, armed, queue, missed>>
ctx    == <<cancelled, flush>>
clock  == <<lastSync, now>>
vars   == <<disk, object, pc, memory, ctx, clock>>

Events == {"write", "create", "rename", "remove", "chmod", "elsewhere", "overflow"}

Booting == {"bootGet", "bootWrite"}
Watched == {"read", "put", "sleep", "select"}   \* the directory watch exists
Running == Booting \cup {"watch"} \cup Watched
Stopped == {"done", "failed", "down"}

(* The last event in the kernel's queue.                                   *)
EndsWith(ev) == queue # <<>> /\ queue[Len(queue)] = ev

(* One place is left for the overflow event when the queue is full.        *)
QueueOK ==
  /\ queue \in Seq(Events)
  /\ Len(queue) > QueueCap => Len(queue) = QueueCap + 1 /\ EndsWith("overflow")

TypeOK ==
  /\ file \in Torn..MaxVersion
  /\ issued \in 0..MaxVersion
  /\ object \in 0..MaxVersion
  /\ pc \in Running \cup Stopped
  /\ buf \in 0..MaxVersion
  /\ lastHash \in 0..MaxVersion
  /\ armed \in BOOLEAN
  /\ QueueOK
  /\ cancelled \in BOOLEAN
  /\ flush \in {"no", "running", "expired"}
  /\ lastSync \in 0..now
  /\ now \in 1..MaxTime
  /\ missed \in BOOLEAN

(* A new process: what an earlier one left is on disk and in S3.  The      *)
(* local file may be older than the object (a fresh volume, a backup), and *)
(* the issuer's newest version is at least as new as both.                 *)
Init ==
  /\ issued \in 0..MaxVersion
  /\ file \in Torn..issued
  /\ object \in 0..issued
  /\ pc = "bootGet"
  /\ buf = Absent /\ lastHash = Absent
  /\ armed = FALSE /\ queue = <<>> /\ missed = FALSE
  /\ cancelled = FALSE /\ flush = "no"
  /\ lastSync = 0 /\ now = 1

-----------------------------------------------------------------------------
(* bootstrap: seed Path from the object before watching.                   *)

markSync == lastSync' = now /\ UNCHANGED now

(* Get tells a missing object from every other error.                      *)
ErrNotFound == object = Absent

BootstrapNotFound ==
  /\ pc = "bootGet" /\ ErrNotFound
  /\ pc' = "watch"
  /\ markSync
  /\ UNCHANGED <<disk, object, memory, ctx>>

BootstrapGet ==
  /\ pc = "bootGet" /\ ~ErrNotFound
  /\ pc' = "bootWrite"
  /\ buf' = object
  /\ UNCHANGED <<disk, object, lastHash, armed, queue, missed, ctx, clock>>

BootstrapWriteKeepsLocal ==   \* mutant: a local file is kept, but the hash recorded
  /\ pc = "bootWrite"
  /\ pc' = "watch"
  /\ file' = IF file = Absent THEN buf ELSE file
  /\ lastHash' = buf
  /\ markSync
  /\ UNCHANGED <<issued, object, buf, armed, queue, missed, ctx>>

(* writeFileAtomic replaces Path by one rename, whatever Path holds now.   *)
BootstrapWrite ==
  /\ pc = "bootWrite"
  /\ pc' = "watch"
  /\ file' = buf
  /\ lastHash' = buf
  /\ markSync
  /\ UNCHANGED <<issued, object, buf, armed, queue, missed, ctx>>

(* Any other error of bootstrap, or of setting up the watch, ends Run.     *)
StartFail ==
  /\ pc \in Booting \cup {"watch"}
  /\ Faults \/ cancelled
  /\ pc' = "failed"
  /\ UNCHANGED <<disk, object, memory, ctx, clock>>

WatchDir ==
  /\ pc = "watch"
  /\ pc' = "read"
  /\ UNCHANGED <<disk, object, memory, ctx, clock>>

-----------------------------------------------------------------------------
(* uploadWithRetry, called by Run with ctx and by the flush with flushCtx. *)

FlushUnderCancelledCtx == cancelled   \* mutant: the flush is given ctx itself

UploadCtxDone == IF flush = "no" THEN cancelled ELSE flush = "expired"

Return == pc' = IF flush = "no" THEN "select" ELSE "done"

(* os.ReadFile fails.  A file that is not there will be announced when it  *)
(* is created; a file that is there but unreadable will not.               *)
ReadFails ==
  /\ pc = "read"
  /\ file = Absent \/ Faults
  /\ missed' = (file # Absent)
  /\ Return
  /\ UNCHANGED <<disk, object, buf, lastHash, armed, queue, ctx, clock>>

ReadInvalid ==
  /\ pc = "read" /\ file = Torn
  /\ missed' = FALSE
  /\ Return
  /\ UNCHANGED <<disk, object, buf, lastHash, armed, queue, ctx, clock>>

ReadUnchanged ==
  /\ pc = "read" /\ file \in Versions /\ file = lastHash
  /\ missed' = FALSE
  /\ markSync
  /\ Return
  /\ UNCHANGED <<disk, object, buf, lastHash, armed, queue, ctx>>

ReadChangedUnchecked ==   \* mutant: no json.Valid
  /\ pc = "read" /\ file \notin {Absent, lastHash}
  /\ missed' = FALSE
  /\ buf' = file
  /\ pc' = "put"
  /\ UNCHANGED <<disk, object, lastHash, armed, queue, ctx, clock>>

ReadChanged ==
  /\ pc = "read" /\ file \in Versions /\ file # lastHash
  /\ missed' = FALSE
  /\ buf' = file
  /\ pc' = "put"
  /\ UNCHANGED <<disk, object, lastHash, armed, queue, ctx, clock>>

PutOk ==
  /\ pc = "put"
  /\ object' = buf
  /\ lastHash' = buf
  /\ markSync
  /\ Return
  /\ UNCHANGED <<disk, buf, armed, queue, missed, ctx>>

(* A Put that reports an error may have been applied all the same.         *)
PutFailed == object' \in {object, buf}

PutErrorGivesUp ==   \* mutant: no retry
  /\ pc = "put"
  /\ Faults \/ UploadCtxDone
  /\ PutFailed
  /\ Return
  /\ UNCHANGED <<disk, memory, ctx, clock>>

PutErrorEndsRun ==   \* mutant: a failed Put is fatal
  /\ pc = "put"
  /\ Faults \/ UploadCtxDone
  /\ PutFailed
  /\ IF UploadCtxDone THEN Return ELSE pc' = "failed"
  /\ UNCHANGED <<disk, memory, ctx, clock>>

PutErrorMarksSync ==   \* mutant: every attempt counts as a synchronisation
  /\ pc = "put"
  /\ Faults \/ UploadCtxDone
  /\ PutFailed
  /\ IF UploadCtxDone THEN Return ELSE pc' = "sleep"
  /\ markSync
  /\ UNCHANGED <<disk, memory, ctx>>

PutError ==
  /\ pc = "put"
  /\ Faults \/ UploadCtxDone
  /\ PutFailed
  /\ IF UploadCtxDone THEN Return ELSE pc' = "sleep"
  /\ UNCHANGED <<disk, memory, ctx, clock>>

SleepElapses ==
  /\ pc = "sleep"
  /\ pc' = "put"
  /\ UNCHANGED <<disk, object, memory, ctx, clock>>

SleepCancelled ==
  /\ pc = "sleep" /\ UploadCtxDone
  /\ Return
  /\ UNCHANGED <<disk, object, memory, ctx, clock>>

-----------------------------------------------------------------------------
(* The watch loop.  Go's select takes any ready case.                      *)

eventMatchesNoCreate(ev) == ev \in {"write", "rename"}   \* mutant: renames into place go unseen

eventMatches(ev) == ev \in {"write", "create", "rename"}

OnCancel ==
  /\ pc = "select" /\ cancelled
  /\ IF armed THEN pc' = "read" /\ flush' = "running"
              ELSE pc' = "done" /\ UNCHANGED flush
  /\ UNCHANGED <<disk, object, memory, cancelled, clock>>

OnEvent ==
  /\ pc = "select" /\ queue # <<>> /\ Head(queue) # "overflow"
  /\ queue' = Tail(queue)
  /\ armed' = (armed \/ eventMatches(Head(queue)))
  /\ UNCHANGED <<disk, object, pc, buf, lastHash, missed, ctx, clock>>

(* fsnotify delivers an overflow on Errors: it is logged, nothing more.    *)
OnError ==
  /\ pc = "select" /\ queue # <<>> /\ Head(queue) = "overflow"
  /\ queue' = Tail(queue)
  /\ UNCHANGED <<disk, object, pc, buf, lastHash, armed, missed, ctx, clock>>

OnTimer ==
  /\ pc = "select" /\ armed
  /\ armed' = FALSE
  /\ pc' = "read"
  /\ UNCHANGED <<disk, object, buf, lastHash, queue, missed, ctx, clock>>

-----------------------------------------------------------------------------
(* The environment.                                                        *)

(* The kernel appends the event to the watch's queue, unless it repeats    *)
(* the last one, or the queue is full and the event is lost.               *)
Notify(ev) ==
  \/ /\ pc \notin Watched \/ (ev \in {"write", "chmod"} /\ EndsWith(ev))
     /\ UNCHANGED <<queue, missed>>
  \/ /\ pc \in Watched /\ Len(queue) < QueueCap
     /\ ~(ev \in {"write", "chmod"} /\ EndsWith(ev))
     /\ queue' = Append(queue, ev)
     /\ UNCHANGED missed
  \/ /\ pc \in Watched /\ Len(queue) >= QueueCap
     /\ ~(ev \in {"write", "chmod"} /\ EndsWith(ev))
     /\ queue' = IF EndsWith("overflow") THEN queue ELSE Append(queue, "overflow")
     /\ missed' = (missed \/ eventMatches(ev))

Untouched == UNCHANGED <<object, pc, buf, lastHash, armed, ctx, clock>>

(* Traefik's own write: truncate, then write.                              *)
IssuerTruncate ==
  /\ file # Torn
  /\ file' = Torn
  /\ Notify(IF file = Absent THEN "create" ELSE "write")
  /\ UNCHANGED issued /\ Untouched

Issue(v) == v \in {issued, issued + 1} \cap Versions /\ issued' = v /\ file' = v

IssuerFinish(v) == file = Torn /\ Issue(v) /\ Notify("write") /\ Untouched

(* An atomic writer renames a tempfile over Path.                          *)
IssuerReplace(v) == Issue(v) /\ Notify("create") /\ Untouched

(* Path is unlinked, or moved away.                                        *)
IssuerRemove(ev) ==
  /\ file # Absent /\ ev \in {"remove", "rename"}
  /\ file' = Absent
  /\ Notify(ev)
  /\ UNCHANGED issued /\ Untouched

(* Events that change no content: a chmod of Path, another file.           *)
Noise(ev) ==
  /\ pc \in Watched /\ ev \in {"chmod", "elsewhere"}
  /\ Notify(ev)
  /\ UNCHANGED disk /\ Untouched

Sigterm ==
  /\ pc \in Running /\ ~cancelled
  /\ cancelled' = TRUE
  /\ UNCHANGED <<disk, object, pc, memory, flush, clock>>

FlushUnbounded == FALSE   \* mutant: context.Background() without a timeout

(* shutdownFlushTimeout.                                                   *)
FlushExpires ==
  /\ pc \in Running /\ flush = "running"
  /\ flush' = "expired"
  /\ UNCHANGED <<disk, object, pc, memory, cancelled, clock>>

Forget ==
  /\ buf' = Absent /\ lastHash' = Absent
  /\ armed' = FALSE /\ queue' = <<>> /\ missed' = FALSE
  /\ cancelled' = FALSE /\ flush' = "no"
  /\ lastSync' = 0 /\ UNCHANGED now

(* The process dies; a Put it had sent may still be applied.               *)
Crash ==
  /\ pc \in Running
  /\ pc' = "down"
  /\ object' \in {object} \cup (IF pc = "put" THEN {buf} ELSE {})
  /\ Forget
  /\ UNCHANGED disk

Restart ==
  /\ pc \in Stopped
  /\ pc' = "bootGet"
  /\ Forget
  /\ UNCHANGED <<disk, object>>

Tick ==
  /\ now < MaxTime
  /\ now' = now + 1
  /\ UNCHANGED <<disk, object, pc, memory, ctx, lastSync>>

-----------------------------------------------------------------------------
Upload == \/ ReadFails \/ ReadInvalid \/ ReadUnchanged \/ ReadChanged
          \/ PutOk \/ PutError \/ SleepElapses \/ SleepCancelled

Run == \/ BootstrapNotFound \/ BootstrapGet \/ BootstrapWrite \/ StartFail \/ WatchDir
       \/ Upload
       \/ OnCancel \/ OnEvent \/ OnError \/ OnTimer

Issuer == \/ IssuerTruncate
          \/ \E v \in Versions : IssuerFinish(v) \/ IssuerReplace(v)
          \/ \E ev \in Events : IssuerRemove(ev) \/ Noise(ev)

Next == Run \/ Issuer \/ Sigterm \/ FlushExpires \/ Crash \/ Restart \/ Tick

Spec == Init /\ [][Next]_vars

(* The process is scheduled and the container restarted; timers fire; Go's *)
(* select picks a ready case at random, so none is passed over forever.    *)
(* Nothing is assumed of S3 or the disk.                                   *)
Fairness ==
  /\ WF_vars(Run) /\ WF_vars(Restart) /\ WF_vars(FlushExpires)
  /\ SF_vars(OnTimer) /\ SF_vars(OnEvent) /\ SF_vars(OnCancel)

FairSpec == Spec /\ Fairness

-----------------------------------------------------------------------------
(* Properties.                                                             *)

HasMatch(q) == \E i \in 1..Len(q) : eventMatches(q[i])

Pending == armed \/ HasMatch(queue)

(* When the loop is idle, with no upload scheduled and no change on its    *)
(* way, and no change was lost on the way to it, S3 holds the file.  What  *)
(* could break it: the order of Add and the first read, an event consumed  *)
(* during an upload, the dedup hash going stale, a Put given up.           *)
QuiescentPublished ==
  pc = "select" /\ ~Pending /\ ~missed /\ ~cancelled /\ file \in Versions => object = file

(* A shutdown flush that finishes in time leaves S3 equal to the file,     *)
(* unless the file changed while it ran: the flush must not run under the  *)
(* context that was just cancelled.                                        *)
ShutdownFlushPublishes ==
  [][ pc # "done" /\ pc' = "done" /\ flush' = "running" /\ ~missed' /\ ~HasMatch(queue')
      => (file \in Versions => object' = file') ]_vars

(* lastSync only ever moves at a moment when the object is the content the *)
(* uploader last saw there: health never counts an upload that failed.     *)
SyncMeansPublished ==
  [][ lastSync' \notin {0, lastSync} => object' = lastHash' ]_vars

Abs == INSTANCE Publication WITH published <- object

(* Across crashes, restarts, half-applied Puts, torn writes and an older   *)
(* local file, the object is a complete version and never goes back.       *)
PublishesIssued == Abs!Spec

Phase == CASE pc \in Booting \cup {"watch"} -> "starting"
           [] pc \in Watched -> "serving"
           [] pc = "done" -> "ok"
           [] OTHER -> pc

Life == INSTANCE Worker WITH phase <- Phase, Fallible <- TRUE

(* uploader.go:101-103 and main.go rely on it: once the watch is up, Run   *)
(* ends only after its context was cancelled, whatever S3, the file and    *)
(* the queue do, and what LastSync shows is never anything but the time of *)
(* the latest success of this process.                                     *)
IsWorker == Life!Spec

(* S3 and the disk succeed again and again if they are asked again and     *)
(* again.                                                                  *)
Answers ==
  /\ SF_vars(BootstrapNotFound) /\ SF_vars(BootstrapGet) /\ SF_vars(BootstrapWrite)
  /\ SF_vars(WatchDir)
  /\ SF_vars(PutOk)

(* Once the issuer, signals and crashes leave it alone, the uploader makes *)
(* S3 equal to the file, however often S3 failed before.                   *)
EventuallyPublished ==
  Answers /\ <>[][Run \/ Restart \/ Tick]_vars
    => <>[](file \in Versions /\ ~missed => object = file)

(* SIGTERM ends Run even if S3 never answers well and the issuer never     *)
(* stops writing: the flush is bounded, the retry loop gives up.           *)
ShutdownEnds == cancelled ~> pc \in Stopped

-----------------------------------------------------------------------------
(* The inductive invariant behind the safety properties.                   *)

(* Hash, object, held bytes and file are in the order they were issued.    *)
Ordered ==
  /\ object <= issued /\ file <= issued
  /\ pc = "bootGet" => lastHash = Absent
  /\ pc = "bootWrite" => buf = object
  /\ pc \in {"watch"} \cup Watched =>
       lastHash <= object /\ (file \in Versions => object <= file)
  /\ pc \in {"put", "sleep"} =>
       buf \in object..issued /\ (file \in Versions => buf <= file)

(* A change not yet read is in the queue, scheduled, or known as missed.   *)
NoLostChange ==
  ~missed /\ ~HasMatch(queue) /\ file \in Versions =>
    /\ pc \in {"put", "sleep"} => file = buf
    /\ pc = "select" /\ ~armed /\ ~cancelled => file = lastHash

(* A flush follows a cancellation and does not come back to the loop.      *)
FlushIsLast == flush # "no" => cancelled /\ pc \in {"read", "put", "sleep", "done"}

(* These hold together in every state: each step of the uploader and of    *)
(* its environment preserves them all, and the properties follow from them.*)
IInv == TypeOK /\ Ordered /\ NoLostChange /\ FlushIsLast
=============================================================================
