----------------------------- MODULE MCUploader -----------------------------
(***************************************************************************)
(* Uploader with the history of a shutdown, for the two statements         *)
(* uploader.go makes about it that the code does not keep.  S3 never fails *)
(* by itself here (Faults = FALSE in the configurations), and the run      *)
(* starts with nothing unpublished.                                        *)
(***************************************************************************)
EXTENDS Uploader

VARIABLES
  owed,   \* version in the debounce window when SIGTERM came, or Absent
  left    \* version on disk when a flush ran out of time, or Absent

allVars == <<vars, owed, left>>

HistoryInit == Init /\ file = object /\ owed = Absent /\ left = Absent

HistoryNext ==
  /\ Next
  /\ owed' = CASE cancelled' /\ ~cancelled /\ armed /\ file \in Versions -> file
               [] ~cancelled' -> Absent
               [] OTHER -> owed
  /\ left' = CASE pc' = "done" /\ pc # "done" /\ flush' = "expired" -> file'
               [] pc' = "watch" -> Absent
               [] OTHER -> left

HistorySpec == HistoryInit /\ [][HistoryNext]_allVars

(* uploader.go:163-164: "Flush pending change before returning so a        *)
(* Traefik write that landed inside the debounce window isn't dropped on   *)
(* shutdown."  A version that was in the debounce window at SIGTERM, and   *)
(* that the issuer left alone, is in S3 when Run returns, unless the flush *)
(* ran out of its five seconds.                                            *)
DebouncedChangeNotDropped ==
  [][ pc # "done" /\ pc' = "done" /\ flush' # "expired" /\ owed \in Versions /\ file' = owed
      => object' = owed ]_allVars

(* uploader.go:165-166: "Bound the flush so a wedged S3 can't stall        *)
(* container exit; the next boot will re-read the file and re-upload."     *)
(* A version the flush left unpublished, and that nobody touched since, is *)
(* still the file's content when the next boot comes to read it.           *)
NextBootUploads ==
  [][ pc' = "watch" /\ left \in Versions /\ file = left => file' = left ]_allVars
=============================================================================
