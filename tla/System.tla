------------------------------- MODULE System -------------------------------
(***************************************************************************)
(* The whole of certific: one issuer with its uploader, one object, and a  *)
(* number of gateways, each with a downloader and a live/ directory of its *)
(* own.  The upload side does what module Publication allows (Uploader     *)
(* implements it) and each gateway what module Gateway allows (Downloader  *)
(* implements that); gateways know nothing of one another.                 *)
(***************************************************************************)
EXTENDS Contents

CONSTANT Gateways         \* the gateway nodes

VARIABLES
  issued,     \* newest version the issuer has written
  published,  \* version in S3, 0 when there is none
  live,       \* what each gateway's live/ holds
  fetched,    \* what each downloader is putting into live/
  best        \* history: the newest version each gateway has served completely

gateways == <<live, fetched, best>>
vars == <<issued, published, gateways>>

Upload == INSTANCE Publication

TypeOK ==
  /\ issued \in 0..MaxVersion
  /\ published \in 0..issued
  /\ live \in [Gateways -> NoDir..MaxVersion]
  /\ fetched \in [Gateways -> {Nothing} \cup 0..MaxVersion]
  /\ best \in [Gateways -> 0..MaxVersion]

Init ==
  /\ Upload!Init
  /\ live = [g \in Gateways |-> NoDir]
  /\ fetched = [g \in Gateways |-> Nothing]
  /\ best = [g \in Gateways |-> 0]

-----------------------------------------------------------------------------
Issue == Upload!Issue /\ UNCHANGED gateways

PublishAny ==   \* mutant: a Put may bring back what was read long before
  /\ published' \in 1..issued
  /\ UNCHANGED <<issued, gateways>>

Publish == Upload!Publish /\ UNCHANGED gateways

(* A cycle finds an object that parses, or none; after a restart it may be *)
(* the one live/ holds.                                                    *)
Fetch(g) ==
  /\ published \notin BadVersions
  /\ fetched' = [fetched EXCEPT ![g] = Image(published)]
  /\ UNCHANGED <<issued, published, live, best>>

ApplyUnread(g) ==   \* mutant: renders although the Get failed
  /\ live' = [live EXCEPT ![g] = fetched[g]]
  /\ best' = [best EXCEPT ![g] = IF fetched[g] > @ THEN fetched[g] ELSE @]
  /\ fetched' = [fetched EXCEPT ![g] = Nothing]
  /\ UNCHANGED <<issued, published>>

(* Render succeeds.                                                        *)
Apply(g) ==
  /\ fetched[g] # Nothing
  /\ live' = [live EXCEPT ![g] = fetched[g]]
  /\ best' = [best EXCEPT ![g] = IF fetched[g] > @ THEN fetched[g] ELSE @]
  /\ fetched' = [fetched EXCEPT ![g] = Nothing]
  /\ UNCHANGED <<issued, published>>

(* Render fails, or the gateway's process dies, with live/ as it was or    *)
(* part way; the next cycle fetches anew.                                  *)
Abandon(g) ==
  /\ fetched[g] # Nothing
  /\ \E v \in IF live[g] = fetched[g] THEN {live[g]} ELSE {live[g], Mixed} :
       live' = [live EXCEPT ![g] = v]
  /\ fetched' = [fetched EXCEPT ![g] = Nothing]
  /\ UNCHANGED <<issued, published, best>>

Next == \/ Issue \/ Publish
        \/ \E g \in Gateways : Fetch(g) \/ Apply(g) \/ Abandon(g)

Spec == Init /\ [][Next]_vars

(* Each gateway polls, and its disk does not fail for ever: what           *)
(* Downloader!EventuallyServed needs to hold.                              *)
Fairness == \A g \in Gateways : WF_vars(Fetch(g)) /\ SF_vars(Apply(g))

FairSpec == Spec /\ Fairness

-----------------------------------------------------------------------------
(* Properties.                                                             *)

(* A version a gateway serves is one the issuer wrote, and never older     *)
(* than one it served before, failures, crashes and half-done renders in   *)
(* between notwithstanding; it goes back to no certificates only for a     *)
(* newer version that has none.                                            *)
NeverBackward ==
  \A g \in Gateways :
    /\ best[g] <= issued
    /\ live[g] \in Versions => live[g] = best[g]
    /\ live[g] = Empty /\ best[g] # 0 =>
         \E v \in EmptyVersions : best[g] < v /\ v <= published

(* Every gateway ends up serving the same, namely what was published last, *)
(* unless that does not parse.                                             *)
Converges ==
  <>[](published \notin BadVersions => \A g \in Gateways : live[g] = Image(published))
=============================================================================
