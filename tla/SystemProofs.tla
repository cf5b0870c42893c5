---------------------------- MODULE SystemProofs ----------------------------
(***************************************************************************)
(* Proofs about System, for any set of gateways and any series of          *)
(* versions: no gateway ever serves an older version than before.          *)
(***************************************************************************)
EXTENDS System, TLAPS

LEMMA Constants ==
  /\ MaxVersion \in Nat
  /\ \A v \in 0..MaxVersion : Image(v) \in 0..MaxVersion
  /\ EmptyVersions \subseteq 1..MaxVersion
BY ContentsAssumption DEF Image, Empty, Versions

LEMMA InitType == Init => TypeOK
<1> SUFFICES ASSUME Init PROVE TypeOK
  OBVIOUS
<1> USE Constants DEF Init, NoDir, Nothing
<1>1. issued \in 0..MaxVersion /\ published \in 0..issued
  BY DEF Upload!Init
<1>2. live \in [Gateways -> NoDir..MaxVersion]
  OBVIOUS
<1>3. fetched \in [Gateways -> {Nothing} \cup 0..MaxVersion]
  OBVIOUS
<1>4. best \in [Gateways -> 0..MaxVersion]
  OBVIOUS
<1> QED BY <1>1, <1>2, <1>3, <1>4 DEF TypeOK

LEMMA TypeStep ==
  ASSUME TypeOK, [Next]_vars
  PROVE  TypeOK'
<1> USE Constants DEF TypeOK, gateways, Nothing, NoDir, Mixed
<1>1. CASE Issue
  BY <1>1 DEF Issue, Upload!Issue
<1>2. CASE Publish
  BY <1>2 DEF Publish, Upload!Publish
<1>3. ASSUME NEW g \in Gateways, Fetch(g) PROVE TypeOK'
  <2>1. Image(published) \in 0..MaxVersion
    OBVIOUS
  <2> QED BY <1>3, <2>1 DEF Fetch
<1>4. ASSUME NEW g \in Gateways, Apply(g) PROVE TypeOK'
  <2>1. fetched[g] \in 0..MaxVersion /\ best[g] \in 0..MaxVersion
    BY <1>4 DEF Apply
  <2>2. live' \in [Gateways -> NoDir..MaxVersion]
    BY <1>4, <2>1 DEF Apply
  <2>3. fetched' \in [Gateways -> {Nothing} \cup 0..MaxVersion]
    BY <1>4 DEF Apply
  <2>4. best' \in [Gateways -> 0..MaxVersion]
    BY <1>4, <2>1 DEF Apply
  <2> QED BY <1>4, <2>2, <2>3, <2>4 DEF Apply
<1>5. ASSUME NEW g \in Gateways, Abandon(g) PROVE TypeOK'
  <2>1. PICK v \in {live[g], Mixed} : live' = [live EXCEPT ![g] = v]
    BY <1>5 DEF Abandon
  <2>2. live' \in [Gateways -> NoDir..MaxVersion]
    BY <2>1
  <2>3. fetched' \in [Gateways -> {Nothing} \cup 0..MaxVersion]
    BY <1>5 DEF Abandon
  <2> QED BY <1>5, <2>2, <2>3 DEF Abandon
<1>6. CASE UNCHANGED vars
  BY <1>6 DEF vars
<1> QED BY <1>1, <1>2, <1>3, <1>4, <1>5, <1>6 DEF Next

(* Every variable of the system stays in its domain.                       *)
THEOREM TypeCorrect == Spec => []TypeOK
BY InitType, TypeStep, PTL DEF Spec

-----------------------------------------------------------------------------
(* No gateway goes back.                                                   *)

(* Going from b to no certificates is a move forward.                      *)
EmptyAfter(b) == b # 0 => \E v \in EmptyVersions : b < v /\ v <= published

(* What is being put into live/ is not older than what was served, nor     *)
(* newer than what is published.                                           *)
Forward(g) ==
  /\ best[g] <= published /\ best[g] \notin EmptyVersions
  /\ fetched[g] \in Versions => /\ fetched[g] \notin EmptyVersions
                                /\ best[g] <= fetched[g] /\ fetched[g] <= published
  /\ fetched[g] = Empty => EmptyAfter(best[g])
  /\ live[g] \in Versions => live[g] = best[g]
  /\ live[g] = Empty => EmptyAfter(best[g])

Inv == \A g \in Gateways : Forward(g)

LEMMA InitInv == Init => Inv
<1> SUFFICES ASSUME Init, NEW g \in Gateways PROVE Forward(g)
  BY DEF Inv
<1>1. /\ live[g] = NoDir /\ fetched[g] = Nothing /\ best[g] = 0
      /\ published \in Nat
  BY Constants DEF Init, Upload!Init
<1>2. 0 \notin EmptyVersions /\ live[g] \notin 0..MaxVersion /\ fetched[g] \notin 0..MaxVersion
  BY <1>1, Constants DEF NoDir, Nothing
<1> QED BY <1>1, <1>2, Constants DEF Forward, EmptyAfter, Versions, Empty, NoDir, Nothing

LEMMA InvStep ==
  ASSUME TypeOK, Inv, [Next]_vars
  PROVE  Inv'
<1>0. /\ published \in 0..issued /\ issued \in 0..MaxVersion
      /\ \A g \in Gateways : /\ best[g] \in 0..MaxVersion
                             /\ live[g] \in NoDir..MaxVersion
                             /\ fetched[g] \in {Nothing} \cup 0..MaxVersion
  BY DEF TypeOK
<1> SUFFICES ASSUME NEW g \in Gateways PROVE Forward(g)'
  BY DEF Inv
<1>a. Forward(g)
  BY DEF Inv
<1> USE Constants DEF gateways
<1>1. CASE UNCHANGED <<published, live[g], fetched[g], best[g]>>
  BY <1>1, <1>a DEF Forward, EmptyAfter
<1>2. CASE Issue
  BY <1>1, <1>2 DEF Issue, Upload!Issue
<1>3. CASE Publish
  <2>1. published' > published /\ published' \in Nat /\ UNCHANGED <<live, fetched, best>>
    BY <1>0, <1>3 DEF Publish, Upload!Publish
  <2>2. EmptyAfter(best[g]) => EmptyAfter(best[g])'
    BY <1>0, <2>1 DEF EmptyAfter
  <2> QED BY <1>0, <1>a, <2>1, <2>2 DEF Forward, Versions
<1>4. ASSUME NEW h \in Gateways, Fetch(h) PROVE Forward(g)'
  <2>1. CASE g # h
    BY <1>0, <1>1, <1>4, <2>1 DEF Fetch, TypeOK
  <2>2. CASE g = h
    <3>1. fetched'[g] = Image(published) /\ UNCHANGED <<published, live, best>>
      BY <1>4, <2>2 DEF Fetch, TypeOK
    <3>a. ASSUME fetched'[g] \in Versions => /\ fetched'[g] \notin EmptyVersions
                                             /\ best[g] <= fetched'[g] /\ fetched'[g] <= published,
                 fetched'[g] = Empty => EmptyAfter(best[g])
          PROVE  Forward(g)'
      BY <1>a, <3>1, <3>a DEF Forward, EmptyAfter
    <3>2. CASE published \in EmptyVersions \/ published = 0
      <4>1. fetched'[g] = 0
        BY <3>1, <3>2 DEF Image, Empty
      <4>2. EmptyAfter(best[g])
        <5>1. CASE best[g] = 0
          BY <5>1 DEF EmptyAfter
        <5>2. CASE best[g] # 0
          <6>1. published \in EmptyVersions /\ best[g] < published
            BY <1>0, <1>a, <3>2, <5>2 DEF Forward
          <6> QED BY <1>0, <6>1 DEF EmptyAfter
        <5> QED BY <5>1, <5>2
      <4> QED BY <3>a, <4>1, <4>2 DEF Versions
    <3>3. CASE published \notin EmptyVersions /\ published # 0
      <4>1. fetched'[g] = published
        BY <3>1, <3>3 DEF Image
      <4> QED BY <1>0, <1>a, <3>a, <3>3, <4>1 DEF Forward, Empty
    <3> QED BY <3>2, <3>3
  <2> QED BY <2>1, <2>2
<1>5. ASSUME NEW h \in Gateways, Apply(h) PROVE Forward(g)'
  <2>1. CASE g # h
    BY <1>0, <1>1, <1>5, <2>1 DEF Apply, TypeOK
  <2>2. CASE g = h
    <3>1. /\ live'[g] = fetched[g] /\ fetched'[g] = Nothing
          /\ best'[g] = IF fetched[g] > best[g] THEN fetched[g] ELSE best[g]
          /\ UNCHANGED published /\ fetched[g] \in 0..MaxVersion
      BY <1>0, <1>5, <2>2 DEF Apply, TypeOK
    <3>2. Nothing \notin 0..MaxVersion
      BY DEF Nothing
    <3>3. CASE fetched[g] = 0
      <4>1. best'[g] = best[g]
        BY <1>0, <3>1, <3>3
      <4> QED BY <1>a, <3>1, <3>2, <3>3, <4>1 DEF Forward, EmptyAfter, Versions, Empty
    <3>4. CASE fetched[g] # 0
      <4>1. fetched[g] \in Versions
        BY <3>1, <3>4 DEF Versions
      <4>2. best'[g] = fetched[g]
        BY <1>0, <1>a, <3>1, <4>1 DEF Forward
      <4> QED BY <1>a, <3>1, <3>2, <3>4, <4>1, <4>2 DEF Forward, Versions, Empty
    <3> QED BY <3>3, <3>4
  <2> QED BY <2>1, <2>2
<1>6. ASSUME NEW h \in Gateways, Abandon(h) PROVE Forward(g)'
  <2>0. PICK v \in {live[h], Mixed} : live' = [live EXCEPT ![h] = v]
    BY <1>6 DEF Abandon
  <2>1. CASE g # h
    BY <1>0, <1>1, <1>6, <2>0, <2>1 DEF Abandon, TypeOK
  <2>2. CASE g = h
    <3>1. /\ live'[g] \in {live[g], Mixed} /\ fetched'[g] = Nothing
          /\ UNCHANGED <<published, best>>
      BY <1>6, <2>0, <2>2 DEF Abandon, TypeOK
    <3>2. Nothing \notin 0..MaxVersion /\ Mixed \notin 0..MaxVersion
      BY DEF Nothing, Mixed
    <3> QED BY <1>a, <3>1, <3>2 DEF Forward, EmptyAfter, Versions, Empty
  <2> QED BY <2>1, <2>2
<1>7. CASE UNCHANGED vars
  BY <1>1, <1>7 DEF vars
<1> QED BY <1>2, <1>3, <1>4, <1>5, <1>6, <1>7 DEF Next

(* A gateway never serves an older version than one it served before, nor  *)
(* drops its certificates for anything but a newer version without any,    *)
(* whatever fails on the way and however many gateways there are.          *)
THEOREM Forwards == Spec => []NeverBackward
<1>1. TypeOK /\ Inv => NeverBackward
  <2> SUFFICES ASSUME TypeOK, Inv, NEW g \in Gateways
               PROVE  /\ best[g] <= issued
                      /\ live[g] \in Versions => live[g] = best[g]
                      /\ live[g] = Empty /\ best[g] # 0 =>
                           \E v \in EmptyVersions : best[g] < v /\ v <= published
    BY DEF NeverBackward
  <2>1. Forward(g)
    BY DEF Inv
  <2>2. best[g] \in Nat /\ published \in Nat /\ issued \in Nat /\ published <= issued
    BY Constants DEF TypeOK
  <2> QED BY <2>1, <2>2 DEF Forward, EmptyAfter
<1>2. TypeOK /\ Inv /\ [Next]_vars => Inv'
  BY InvStep
<1> QED BY <1>1, <1>2, InitInv, TypeCorrect, PTL DEF Spec
=============================================================================
