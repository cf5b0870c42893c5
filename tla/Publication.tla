---------------------------- MODULE Publication ----------------------------
(***************************************************************************)
(* What the uploader promises, without its mechanism.  The issuer produces *)
(* a growing series of versions of acme.json; the object store holds one   *)
(* of them, and only ever moves forward to another one that exists: it     *)
(* never shows a half-written file and never goes back to an older one.    *)
(* Some versions may never be published (debouncing, a lost local change). *)
(***************************************************************************)
EXTENDS Integers

CONSTANT MaxVersion     \* bound on the versions the issuer produces

VARIABLES issued,       \* newest version the issuer has written, 0 when none
          published     \* version in the object store, 0 when there is none

vars == <<issued, published>>

Init == /\ issued \in 0..MaxVersion
        /\ published \in 0..issued

Issue == /\ issued < MaxVersion
         /\ issued' = issued + 1
         /\ UNCHANGED published

Publish == /\ published' \in (published + 1)..issued
           /\ UNCHANGED issued

Next == Issue \/ Publish

Spec == Init /\ [][Next]_vars
=============================================================================
