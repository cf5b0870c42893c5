----------------------------- MODULE Deployment -----------------------------
(***************************************************************************)
(* System with one of its gateways in full: a process of module Downloader *)
(* takes the place of one gateway, polling the object that a Publication   *)
(* moves while the other gateways do as System says.  That this is a       *)
(* System again is what lets System speak about real downloaders: they     *)
(* can be put in one after the other.  With no others it is one gateway    *)
(* and its uploader.                                                       *)
(***************************************************************************)
EXTENDS Downloader

CONSTANTS Here,     \* the gateway that is modelled in full
          Others    \* the other gateways

ASSUME DeploymentAssumption == Here \notin Others

VARIABLES issued,   \* newest version the issuer has written
          lives,    \* what the others' live/ hold
          fetches,  \* what the others are putting into live/
          bests,    \* history: the newest version each of the others has served
          served    \* history: the newest version this gateway has served

process == <<sendsEtag, live, pc, local, flags, clock, served>>
others == <<issued, lives, fetches, bests>>
deployment == <<object, newest, process, others>>

Rest == INSTANCE System WITH
  Gateways <- Others, published <- object, live <- lives, fetched <- fetches, best <- bests

DeploymentInit == Init /\ Rest!Init /\ served = 0

(* The uploader's side and the other gateways, as in System.               *)
Issue == Rest!Issue /\ UNCHANGED <<newest, process>>

Put == Rest!Publish /\ newest' = object' /\ UNCHANGED process

Other == /\ \E g \in Others : Rest!Fetch(g) \/ Rest!Apply(g) \/ Rest!Abandon(g)
         /\ UNCHANGED <<newest, process>>

(* Any step of the downloader, its process or its supervisor.              *)
Process == /\ Run \/ Sigterm \/ Crash \/ Restart \/ Tick
           /\ served' = IF live' > served THEN live' ELSE served
           /\ UNCHANGED others

DeploymentNext == Issue \/ Put \/ Other \/ Process

DeploymentSpec == DeploymentInit /\ [][DeploymentNext]_deployment

DeploymentFairSpec == DeploymentSpec /\ Fairness /\ Rest!Fairness

-----------------------------------------------------------------------------
Gateways == Others \cup {Here}

(* A function on all gateways: x at this one, f at the others.             *)
With(x, f) == [g \in Gateways |-> IF g = Here THEN x ELSE f[g]]

Whole == INSTANCE System WITH
  published <- object,
  live <- With(live, lives), fetched <- With(Fetched, fetches), best <- With(served, bests)

(* Properties.                                                             *)

DeploymentTypeOK == TypeOK /\ Rest!TypeOK /\ served \in 0..MaxVersion

(* Whatever fails, crashes or is retried in the downloader, and whatever   *)
(* is published between its Head, its Get and its Render, what it puts     *)
(* into live/ is the object of the moment it got it, fetched anew for each *)
(* attempt, and what live/ holds is that, or what it held, or a mixture:   *)
(* so everything said of System holds with a real downloader in it.        *)
IsSystem == Whole!Spec

(* No gateway, this one with its etag skip and its retries included, goes  *)
(* back to an older version, or drops its certificates for anything but a  *)
(* newer version without any (System!NeverBackward).                       *)
NeverBackward == Whole!NeverBackward

(* Once the downloader's calls succeed again and nothing is published or   *)
(* killed any more, all gateways end up serving the same, this one too: no *)
(* etag recorded for a Get that came later than its Head, or for a Render  *)
(* that failed, keeps it behind (System!Converges).                        *)
Converges == Answers /\ LeftAlone => Whole!Converges

-----------------------------------------------------------------------------
(* The inductive invariant behind IsSystem.                                *)

(* A function on the other gateways.                                       *)
OnOthers(f) == f = [g \in Others |-> f[g]]

Deployed ==
  /\ TypeOK
  /\ issued \in 0..MaxVersion
  /\ served \in 0..MaxVersion /\ live <= served
  /\ OnOthers(lives) /\ OnOthers(fetches) /\ OnOthers(bests)
=============================================================================
