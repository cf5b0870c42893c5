------------------------------- MODULE Render -------------------------------
(***************************************************************************)
(* Render (internal/certific/render.go): reconcile the directory live/,    *)
(* which a gateway's Traefik watches, with a set of certificates, one file *)
(* operation at a time, each of which may fail or be the last before the   *)
(* process dies.                                                           *)
(*                                                                         *)
(* A host stands for a certificate's file stem; that different hosts have  *)
(* different stems is the caller's part and assumed here.  The content of  *)
(* x.crt and x.key is the version of the certificate it belongs to, 0 when *)
(* the file is not there.  tls.yml is the set of hosts it names.           *)
(***************************************************************************)
EXTENDS Integers

CONSTANTS Hosts,        \* file stems
          MaxVersion,   \* certificate versions per host
          NoHost,       \* in the place of tls.yml's hosts when it is not there
          Faults,       \* whether file operations may fail
          TlsYml,       \* the name tls.yml in the staging directory
          Nothing       \* no temporary file under way

Files == Hosts \X {"crt", "key"}

ASSUME RenderAssumption == /\ MaxVersion \in Nat
                           /\ Faults \in BOOLEAN
                           /\ NoHost \notin Hosts
                           /\ TlsYml \notin Files
                           /\ Nothing \notin Files \cup {TlsYml}

NoIndex == {NoHost}

VARIABLES
  live,      \* live/: file -> version
  index,     \* live/tls.yml
  staging,   \* names of the temporary files in .staging/
  target,    \* the argument of Render: host -> version, 0 when not in certs
  pc,        \* where Render stands
  todo,      \* files step 1 has not dealt with
  tmp,       \* name staged and not yet renamed
  stale,     \* directory entries step 3 has still to remove
  changed,   \* Render's result so far
  pruned,    \* pruneDir's result so far
  result,    \* outcome of the last Render
  touched,   \* history: live/ was modified since this Render began
  unread     \* history: a file of live/ could not be read to be compared

disk == <<live, index, staging>>
locals == <<target, pc, todo, tmp, stale, changed, pruned, result>>
history == <<touched, unread>>
vars == <<disk, locals, history>>

Certs == [Hosts -> 0..MaxVersion]

(* The certificates asked for; what live/ should hold of a file.           *)
Wanted == {h \in Hosts : target[h] # 0}
Want(f) == target[f[1]]

(* The hosts whose files Traefik is told to load.                          *)
Refs == IF index = NoIndex THEN {} ELSE index

TypeOK ==
  /\ live \in [Files -> 0..MaxVersion]
  /\ index \in (SUBSET Hosts) \cup {NoIndex}
  /\ staging \subseteq Files \cup {TlsYml}
  /\ target \in Certs
  /\ pc \in {"idle", "certs", "index", "prune", "remove"}
  /\ todo \subseteq Files
  /\ tmp \in Files \cup {TlsYml, Nothing}
  /\ stale \subseteq Files
  /\ changed \in BOOLEAN /\ pruned \in BOOLEAN
  /\ result \in {"none", "ok", "error"}
  /\ touched \in BOOLEAN /\ unread \in BOOLEAN

Init ==
  /\ live = [f \in Files |-> 0] /\ index = NoIndex /\ staging = {}
  /\ target = [h \in Hosts |-> 0]
  /\ pc = "idle" /\ todo = {} /\ tmp = Nothing /\ stale = {}
  /\ changed = FALSE /\ pruned = FALSE /\ result = "none"
  /\ touched = FALSE /\ unread = FALSE

-----------------------------------------------------------------------------
Begin(certs) ==
  /\ pc = "idle"
  /\ pc' = "certs"
  /\ target' = certs
  /\ todo' = {f \in Files : certs[f[1]] # 0}
  /\ changed' = FALSE /\ pruned' = FALSE /\ result' = "none" /\ touched' = FALSE
  /\ unread' = FALSE
  /\ UNCHANGED <<disk, tmp, stale>>

(* Return early with an error; what pruneDir did is not added to changed.  *)
Fail ==
  /\ Faults
  /\ pc' = "idle" /\ result' = "error"
  /\ todo' = {} /\ tmp' = Nothing /\ stale' = {}
  /\ UNCHANGED <<target, changed, pruned, live, index, history>>

(* Neither directory can be made.                                          *)
MkdirFails ==
  /\ pc = "certs" /\ tmp = Nothing /\ todo = {f \in Files : Want(f) # 0}
  /\ ~changed
  /\ Fail
  /\ UNCHANGED staging

(* Step 1.  A certificate's .crt is dealt with before its .key; the order  *)
(* of the certificates is left open.                                       *)
NextFile(f) ==
  /\ pc = "certs" /\ tmp = Nothing /\ f \in todo
  /\ f[2] = "key" => <<f[1], "crt">> \notin todo

SkipFile(f) ==
  /\ NextFile(f) /\ live[f] = Want(f)
  /\ todo' = todo \ {f}
  /\ UNCHANGED <<disk, target, pc, tmp, stale, changed, pruned, result, history>>

(* The new content goes to a temporary file first.                         *)
Stage(name) ==
  /\ tmp' = name
  /\ staging' = staging \cup {name}
  /\ UNCHANGED <<live, index, target, pc, todo, stale, changed, pruned, result, touched>>

StageFileAlways(f) ==   \* mutant: no content compare
  NextFile(f) /\ Stage(f) /\ UNCHANGED unread

StageFile(f) == NextFile(f) /\ live[f] # Want(f) /\ Stage(f) /\ UNCHANGED unread

StageUnreadInPlace(f) ==   \* mutant: truncates the file itself, no staging
  /\ Faults /\ NextFile(f)
  /\ tmp' = f /\ unread' = TRUE
  /\ live' = [live EXCEPT ![f] = 0]
  /\ UNCHANGED <<index, staging, target, pc, todo, stale, changed, pruned, result, touched>>

(* The file could not be read to be compared.                              *)
StageUnread(f) == Faults /\ NextFile(f) /\ Stage(f) /\ unread' = TRUE

StageFileFails(f) ==
  /\ NextFile(f) /\ live[f] # Want(f)
  /\ staging' \in {staging, staging \cup {f}}
  /\ Fail

RenameFile ==
  /\ pc = "certs" /\ tmp \in Files
  /\ live' = [live EXCEPT ![tmp] = Want(tmp)]
  /\ staging' = staging \ {tmp}
  /\ todo' = todo \ {tmp}
  /\ tmp' = Nothing
  /\ changed' = TRUE /\ touched' = TRUE
  /\ UNCHANGED <<index, target, pc, stale, pruned, result, unread>>

(* Chmod or Rename fails; the error of the Remove that follows is ignored. *)
MoveFails ==
  /\ tmp # Nothing
  /\ staging' \in {staging, staging \ {tmp}}
  /\ Fail

CertsDoneEarly ==   \* mutant: the index does not wait for the last file
  /\ pc = "certs" /\ tmp = Nothing
  /\ pc' = "index"
  /\ todo' = {}
  /\ UNCHANGED <<disk, target, tmp, stale, changed, pruned, result, history>>

CertsDone ==
  /\ pc = "certs" /\ tmp = Nothing /\ todo = {}
  /\ pc' = "index"
  /\ UNCHANGED <<disk, target, todo, tmp, stale, changed, pruned, result, history>>

(* Step 2: the index.                                                      *)
SkipIndex ==
  /\ pc = "index" /\ tmp = Nothing /\ index = Wanted
  /\ pc' = "prune"
  /\ UNCHANGED <<disk, target, todo, tmp, stale, changed, pruned, result, history>>

StageIndex ==
  pc = "index" /\ tmp = Nothing /\ index # Wanted /\ Stage(TlsYml) /\ UNCHANGED unread

StageIndexUnread ==
  Faults /\ pc = "index" /\ tmp = Nothing /\ Stage(TlsYml) /\ unread' = TRUE

StageIndexFails ==
  /\ pc = "index" /\ tmp = Nothing /\ index # Wanted
  /\ staging' \in {staging, staging \cup {TlsYml}}
  /\ Fail

RenameIndex ==
  /\ pc = "index" /\ tmp = TlsYml
  /\ index' = Wanted
  /\ staging' = staging \ {TlsYml}
  /\ tmp' = Nothing
  /\ pc' = "prune"
  /\ changed' = TRUE /\ touched' = TRUE
  /\ UNCHANGED <<live, target, todo, stale, pruned, result, unread>>

(* Step 3: pruneDir lists live/ once and removes what it may not keep.     *)
keepKeys == {f \in Files : Want(f) # 0 \/ f[2] = "key"}   \* mutant: keys are never pruned

keep == {f \in Files : Want(f) # 0}

ListLiveFirst ==   \* mutant: pruned before the index is written
  /\ pc \in {"index", "prune"} /\ tmp = Nothing
  /\ pc' = "remove"
  /\ stale' = {f \in Files : live[f] # 0} \ keep
  /\ UNCHANGED <<disk, target, todo, tmp, changed, pruned, result, history>>

ListLiveStems ==   \* mutant: removes by certificate, not by file
  /\ pc = "prune"
  /\ pc' = "remove"
  /\ stale' = {f[1] : f \in {g \in Files : live[g] # 0} \ keep}
  /\ UNCHANGED <<disk, target, todo, tmp, changed, pruned, result, history>>

ListLive ==
  /\ pc = "prune"
  /\ pc' = "remove"
  /\ stale' = {f \in Files : live[f] # 0} \ keep
  /\ UNCHANGED <<disk, target, todo, tmp, changed, pruned, result, history>>

RemoveStale(f) ==
  /\ pc = "remove" /\ f \in stale
  /\ live' = [live EXCEPT ![f] = 0]
  /\ stale' = stale \ {f}
  /\ pruned' = TRUE /\ touched' = TRUE
  /\ UNCHANGED <<index, staging, target, pc, todo, tmp, changed, result, unread>>

PruneFails ==
  /\ pc = "prune" \/ (pc = "remove" /\ stale # {})
  /\ Fail
  /\ UNCHANGED staging

FinishDropsPruned ==   \* mutant: step 3 does not count as a change
  /\ pc = "remove" /\ stale = {}
  /\ pc' = "idle" /\ result' = "ok"
  /\ UNCHANGED <<disk, target, todo, tmp, stale, changed, pruned, history>>

Finish ==
  /\ pc = "remove" /\ stale = {}
  /\ pc' = "idle" /\ result' = "ok"
  /\ changed' = (changed \/ pruned)
  /\ UNCHANGED <<disk, target, todo, tmp, stale, pruned, history>>

(* The process dies: the directories stay as they are.                     *)
Crash ==
  /\ pc # "idle"
  /\ pc' = "idle" /\ result' = "none"
  /\ todo' = {} /\ tmp' = Nothing /\ stale' = {}
  /\ UNCHANGED <<disk, target, changed, pruned, history>>

-----------------------------------------------------------------------------
Next ==
  \/ \E certs \in Certs : Begin(certs)
  \/ \E f \in Files : \/ SkipFile(f) \/ StageFile(f) \/ StageUnread(f)
                      \/ StageFileFails(f) \/ RemoveStale(f)
  \/ RenameFile \/ CertsDone
  \/ SkipIndex \/ StageIndex \/ StageIndexUnread \/ StageIndexFails \/ RenameIndex
  \/ ListLive \/ Finish
  \/ MkdirFails \/ MoveFails \/ PruneFails
  \/ Crash

Spec == Init /\ [][Next]_vars

-----------------------------------------------------------------------------
(* Properties.                                                             *)

LiveIsExact == (\A f \in Files : live[f] = Want(f)) /\ index = Wanted

(* At every instant, also between two operations, after a failed one and   *)
(* after a crash, every file tls.yml names is in live/: a reload of        *)
(* Traefik never meets a certificate whose file is gone or not there yet.  *)
IndexNeverDangles ==
  \A h \in Refs : live[<<h, "crt">>] # 0 /\ live[<<h, "key">>] # 0

(* A Render that succeeds leaves exactly its argument in live/, whatever   *)
(* earlier renders, failures and crashes had left there.                   *)
RenderExact == pc = "idle" /\ result = "ok" => LiveIsExact

(* A Render that succeeds reports whether it modified live/: a rewrite or  *)
(* a removal never goes unreported.                                        *)
ChangeIsReported == pc = "idle" /\ result = "ok" => (touched <=> changed)

(* While live/ holds exactly what is asked for, and can be read, Render    *)
(* writes, renames and removes nothing: the poll of an unchanged or absent *)
(* object does not make Traefik reload.                                    *)
IdenticalRenderIsQuiet ==
  [][ pc # "idle" /\ LiveIsExact /\ ~unread' => UNCHANGED disk ]_vars

(* While Render runs, each file that is right already, the index too,      *)
(* stays right, even when Render fails or dies half way: only the pair of  *)
(* a certificate that is being renewed is ever mixed, and a retry never    *)
(* makes live/ worse.                                                      *)
RenderNeverSpoils ==
  [][ pc # "idle" =>
        /\ \A f \in Files : live[f] = Want(f) => live'[f] = Want(f)'
        /\ index = Wanted => index' = Wanted' ]_vars

(* What Traefik is told to serve for a host, as Serving has it, where none *)
(* is ever Missing.                                                        *)
Torn == -1
Missing == -2

Pair(h) ==
  LET pair == {live[<<h, "crt">>], live[<<h, "key">>]}
  IN  IF h \notin Refs THEN 0
      ELSE IF 0 \in pair THEN Missing
      ELSE IF pair = {live[<<h, "crt">>]} THEN live[<<h, "crt">>] ELSE Torn

Serve == INSTANCE Serving WITH
  served <- [h \in Hosts |-> Pair(h)],
  goal   <- target,
  phase  <- IF pc = "idle" THEN "idle" ELSE "busy"

(* Render implements Serving: whatever fails and wherever it dies, hosts   *)
(* come and go in one step, after every certificate that stays is renewed, *)
(* and only a pair that is being renewed is ever torn.                     *)
IsServing == Serve!Spec

-----------------------------------------------------------------------------
(* The inductive invariant behind them.                                    *)

(* What the steps already taken have established.                          *)
Progress ==
  /\ pc = "certs" => /\ \A f \in Files : Want(f) # 0 /\ f \notin todo => live[f] = Want(f)
                     /\ \A f \in todo : Want(f) # 0
  /\ pc \in {"index", "prune", "remove"} => \A f \in keep : live[f] = Want(f)
  /\ pc \in {"prune", "remove"} => index = Wanted
  /\ pc = "remove" => stale = {f \in Files : live[f] # 0} \ keep
  /\ tmp \in Files => pc = "certs" /\ tmp \in todo
  /\ tmp = TlsYml => pc = "index"

(* What the flags and a file under way say about live/.                    *)
Honest ==
  /\ pc # "idle" => (touched <=> changed \/ pruned)
  /\ ~unread /\ tmp \in Files => live[tmp] # Want(tmp)
  /\ ~unread /\ tmp = TlsYml => index # Wanted

IInv == /\ TypeOK /\ Progress /\ Honest
        /\ IndexNeverDangles /\ RenderExact /\ ChangeIsReported
=============================================================================
