------------------------------ MODULE Contents ------------------------------
(***************************************************************************)
(* What an object and a live/ directory can hold.  The object's content is *)
(* its version; a live/ directory holds the certificates of one version,   *)
(* or one of the contents below.                                           *)
(***************************************************************************)
EXTENDS Integers

CONSTANTS MaxVersion,     \* bound on the versions published
          EmptyVersions,  \* versions without a certificate: whitespace only
          BadVersions     \* versions ParseAcme refuses

Versions == 1..MaxVersion

ASSUME ContentsAssumption == /\ MaxVersion \in Nat
                             /\ EmptyVersions \subseteq Versions
                             /\ BadVersions \subseteq Versions
                             /\ EmptyVersions \cap BadVersions = {}

NoObject == 0    \* in S3

Nothing == -3    \* is being put into live/
NoDir == -2      \* live/ is not there
Mixed == -1      \* a Render stopped half way, or somebody modified it
Empty == 0       \* no certificates

(* What live/ should hold for an object.                                   *)
Image(v) == IF v \in EmptyVersions THEN Empty ELSE v
=============================================================================
