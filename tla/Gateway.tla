------------------------------- MODULE Gateway ------------------------------
(***************************************************************************)
(* What one gateway promises, without etags, cycles and clocks: live/ only *)
(* changes to the certificates of an object that was fetched whole, or is  *)
(* left part way while that is attempted, and an attempt spoils nothing    *)
(* that was right.  What the object does is nobody's business here.        *)
(***************************************************************************)
EXTENDS Contents

VARIABLES object,         \* version in S3, 0 when there is none
          live,           \* what live/ holds
          fetched         \* what is being put into live/, or Nothing

vars == <<object, live, fetched>>

Init == live = NoDir /\ fetched = Nothing /\ object \in 0..MaxVersion

Move == object' \in 0..MaxVersion /\ UNCHANGED <<live, fetched>>

Fetch == /\ object \notin BadVersions
         /\ fetched' = Image(object)
         /\ UNCHANGED <<object, live>>

Apply == /\ fetched # Nothing
         /\ live' = fetched /\ fetched' = Nothing
         /\ UNCHANGED object

(* An attempt that fails, or whose process dies.                           *)
Abandon == /\ fetched # Nothing
           /\ live' \in (IF live = fetched THEN {live} ELSE {live, Mixed})
           /\ fetched' = Nothing
           /\ UNCHANGED object

(* Somebody else modifies live/.                                           *)
Meddle == live # NoDir /\ live' = Mixed /\ UNCHANGED <<object, fetched>>

Next == Move \/ Fetch \/ Apply \/ Abandon \/ Meddle

Spec == Init /\ [][Next]_vars
=============================================================================
