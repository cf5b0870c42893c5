----------------------------- MODULE AcmeProofs -----------------------------
(***************************************************************************)
(* Module Acme for every set of hosts and files: the types, exactly when   *)
(* two file stems coincide, that a file is refused as a whole, and that    *)
(* the latest entry of each host is taken, whatever order Go ranges in.    *)
(***************************************************************************)
EXTENDS Acme, SequenceTheorems, FiniteSetTheorems, TLAPS

(* Where the keys come from that are looked up in file and in byMain.      *)
Sources ==
  /\ pc = "unmarshal" => names = <<>>
  /\ pc \in {"collect", "walk"} => file # Other /\ names \in Seq(DOMAIN file)
  /\ pc = "collect" => left \subseteq DOMAIN file
  /\ pc = "gather" => \A h \in left \cap Hosts : byMain[h] # NoCert

LEMMA FileType ==
  ASSUME file \in AcmeFiles, file # Other
  PROVE  DOMAIN file \subseteq Resolvers /\ \A r \in DOMAIN file : file[r] \in Seq(Entries)
  BY AcmeAssumption

LEMMA HeadTail ==
  ASSUME NEW S, NEW s \in Seq(S), s # <<>>
  PROVE  Head(s) \in S /\ Tail(s) \in Seq(S)
  BY HeadTailProperties

LEMMA AppendType ==
  ASSUME NEW S, NEW s \in Seq(S), NEW e \in S
  PROVE  /\ Append(s, e) \in Seq(S) /\ Len(Append(s, e)) = Len(s) + 1
         /\ \A i \in 1..Len(s) : Append(s, e)[i] = s[i]
         /\ Append(s, e)[Len(s) + 1] = e
  BY AppendProperties

LEMMA ArrangementType ==
  ASSUME NEW S, NEW s \in Seq(S), NEW t \in Arrangements(s)
  PROVE  t \in Seq(S) /\ Len(t) = Len(s)
<1>1. PICK p \in [1..Len(s) -> 1..Len(s)] : t = [i \in 1..Len(s) |-> s[p[i]]]
  BY DEF Arrangements
<1>2. Len(s) \in Nat /\ \A i \in 1..Len(s) : s[p[i]] \in S
  BY LenProperties, ElementOfSeq
<1>3. t \in [1..Len(s) -> S]
  BY <1>1, <1>2
<1>4. t \in Seq(S)
  BY <1>2, <1>3, SeqDef
<1>5. DOMAIN t = 1..Len(s) /\ DOMAIN t = 1..Len(t) /\ Len(t) \in Nat
  BY <1>3, <1>4, LenProperties
<1> QED BY <1>2, <1>4, <1>5

LEMMA SlugType == \A h \in Hosts : Slug[h] \in Texts /\ Slug[h] \in Slugs
  BY AcmeAssumption DEF Slugs

-----------------------------------------------------------------------------
LEMMA InitTypes == Init => TypeOK /\ Sources
  BY EmptySeq DEF Init, TypeOK, Sources

LEMMA NextTypes == TypeOK /\ Sources /\ [Next]_vars => TypeOK' /\ Sources'
<1> SUFFICES ASSUME TypeOK, Sources, [Next]_vars PROVE TypeOK' /\ Sources'
  OBVIOUS
<1> USE DEF TypeOK, Sources
<1>1. CASE Unmarshal
  <2>1. CASE file = Other
    BY <1>1, <2>1 DEF Unmarshal, naming
  <2>2. CASE file # Other
    <3>1. DOMAIN file \subseteq Resolvers
      BY <2>2, FileType
    <3>2. names = <<>> /\ <<>> \in Seq(DOMAIN file)
      BY <1>1, EmptySeq DEF Unmarshal
    <3> QED BY <1>1, <2>2, <3>1, <3>2 DEF Unmarshal, naming
  <2> QED BY <2>1, <2>2
<1>2. ASSUME NEW r \in Resolvers, CollectName(r) PROVE TypeOK' /\ Sources'
  <2>1. r \in DOMAIN file /\ names \in Seq(DOMAIN file)
    BY <1>2 DEF CollectName
  <2>2. Append(names, r) \in Seq(Resolvers) /\ Append(names, r) \in Seq(DOMAIN file)
    BY <2>1, AppendType
  <2> QED BY <1>2, <2>2 DEF CollectName, naming
<1>3. CASE SortNames
  <2>1. names' \in Arrangements(names) /\ names \in Seq(DOMAIN file)
    BY <1>3 DEF SortNames
  <2>2. names' \in Seq(Resolvers) /\ names' \in Seq(DOMAIN file)
    BY <2>1, ArrangementType
  <2> QED BY <1>3, <2>2 DEF SortNames, naming
<1>4. CASE NextResolver
  <2>1. names # <<>> /\ names \in Seq(DOMAIN file) /\ file # Other
    BY <1>4 DEF NextResolver
  <2>2. Head(names) \in DOMAIN file /\ Tail(names) \in Seq(DOMAIN file) /\ Tail(names) \in Seq(Resolvers)
    BY <2>1, HeadTail
  <2>3. file[Head(names)] \in Seq(Entries)
    BY <2>1, <2>2, FileType
  <2> QED BY <1>4, <2>2, <2>3 DEF NextResolver, naming
<1>5. CASE Skip
  <2>1. Tail(entries) \in Seq(Entries)
    BY <1>5, HeadTail DEF Skip
  <2> QED BY <1>5, <2>1 DEF Skip, naming
<1>6. CASE DecodeFails
  BY <1>6 DEF DecodeFails, parsing, naming
<1>7. CASE Take
  <2>1. Tail(entries) \in Seq(Entries) /\ Head(entries) \in Entries
    BY <1>7, HeadTail DEF Take
  <2>2. Head(entries) \in Certs
    BY <1>7, <2>1 DEF Take, Placeholder, Broken, Entries, Certs
  <2>3. byMain' \in [Hosts -> Certs \cup {NoCert}]
    BY <1>7, <2>2 DEF Take
  <2> QED BY <1>7, <2>1, <2>3 DEF Take, naming
<1>8. CASE WalkEnds
  BY <1>8 DEF WalkEnds, naming
<1>9. ASSUME NEW h \in Hosts, Gather(h) PROVE TypeOK' /\ Sources'
  <2>1. byMain[h] \in Certs
    BY <1>9 DEF Gather
  <2>2. Append(out, byMain[h]) \in Seq(Certs)
    BY <2>1, AppendType
  <2> QED BY <1>9, <2>2 DEF Gather, naming
<1>10. CASE SortOut
  <2>1. out' \in Seq(Certs)
    BY <1>10, ArrangementType DEF SortOut
  <2> QED BY <1>10, <2>1 DEF SortOut, parsing, naming
<1>11. CASE Name
  <2>1. NextCert \in Certs
    BY <1>11, LenProperties, ElementOfSeq DEF Name, NextCert
  <2> DEFINE slug == Slug[NextCert.main]
  <2>2. slug \in Texts /\ slug \in Slugs
    BY <2>1, SlugType DEF Certs
  <2>3. used[slug] \in Nat
    BY <2>2
  <2>4. Append(slug, used[slug] + 1) \in Texts
    BY <2>2, <2>3, AppendType DEF Texts
  <2>5. stems' \in Seq(Texts)
    BY <1>11, <2>2, <2>4, AppendType DEF Name
  <2>6. used' \in [Slugs -> Nat]
    BY <1>11, <2>2, <2>3 DEF Name
  <2> QED BY <1>11, <2>5, <2>6 DEF Name, parsing
<1>12. CASE Named
  BY <1>12 DEF Named, parsing, naming
<1>13. CASE UNCHANGED vars
  BY <1>13 DEF vars, parsing, naming
<1> QED BY <1>1, <1>2, <1>3, <1>4, <1>5, <1>6, <1>7, <1>8, <1>9, <1>10, <1>11, <1>12, <1>13
       DEF Next

(* Types: what comes out of a file are decoded certificates of hosts with  *)
(* a name, and every map is asked only for keys that it has.               *)
THEOREM TypeCorrect == Spec => []TypeOK
  BY InitTypes, NextTypes, PTL DEF Spec
-----------------------------------------------------------------------------
(* File stems.                                                             *)

SlugAt(i) == Slug[out[i].main]

(* The certificates that share a slug and have their stem.                 *)
Holders(s) == {i \in 1..Len(stems) : SlugAt(i) = s}

(* What the n-th of them is given.                                         *)
Stem(s, n) == IF n = 1 THEN s ELSE Append(s, n)

(* usedSlugs counts them, and they have the stems up to that number, each  *)
(* of them one.                                                            *)
Counted == \A s \in Slugs : used[s] = Cardinality(Holders(s))

Formed == \A i \in 1..Len(stems) : \E n \in 1..used[SlugAt(i)] : stems[i] = Stem(SlugAt(i), n)

Given == \A s \in Slugs : \A n \in 1..used[s] : \E i \in Holders(s) : stems[i] = Stem(s, n)

ApartWithin ==
  \A i, j \in 1..Len(stems) : i # j /\ SlugAt(i) = SlugAt(j) => stems[i] # stems[j]

Shape ==
  /\ pc \notin {"name", "done"} => stems = <<>> /\ \A s \in Slugs : used[s] = 0
  /\ Len(stems) <= Len(out)
  /\ pc = "done" => Len(stems) = Len(out)

Naming == Counted /\ Formed /\ Given /\ ApartWithin /\ Shape

LEMMA SuffixInjective ==
  ASSUME NEW s \in Texts, NEW t \in Texts, NEW m \in Nat, NEW n \in Nat,
         Append(s, m) = Append(t, n)
  PROVE  s = t /\ m = n
<1>1. m \in Atoms \cup Nat /\ n \in Atoms \cup Nat
  OBVIOUS
<1> QED BY <1>1, AppendInjective DEF Texts

LEMMA SuffixProper ==
  ASSUME NEW s \in Texts, NEW n \in Nat
  PROVE  Append(s, n) \in Texts /\ Append(s, n) # s
<1>1. Append(s, n) \in Texts /\ Len(Append(s, n)) = Len(s) + 1 /\ Len(s) \in Nat
  BY AppendType, LenProperties DEF Texts
<1> QED BY <1>1

LEMMA StemInjective ==
  ASSUME NEW s \in Texts, NEW m \in Nat, NEW n \in Nat, Stem(s, m) = Stem(s, n)
  PROVE  m = n
  BY SuffixInjective, SuffixProper DEF Stem

LEMMA SlugAtType ==
  ASSUME TypeOK, NEW i \in 1..Len(out)
  PROVE  out[i].main \in Hosts /\ SlugAt(i) \in Texts /\ SlugAt(i) \in Slugs
<1>1. out[i] \in Certs
  BY ElementOfSeq DEF TypeOK
<1> QED BY <1>1, SlugType DEF Certs, SlugAt

LEMMA HoldersFinite ==
  ASSUME TypeOK, NEW s
  PROVE  IsFiniteSet(Holders(s))
<1>1. Len(stems) \in Nat
  BY LenProperties DEF TypeOK
<1>2. IsFiniteSet(1..Len(stems))
  BY <1>1, FS_Interval
<1> QED BY <1>2, FS_Subset DEF Holders

LEMMA HeldIsCounted ==
  ASSUME TypeOK, Counted, Len(stems) <= Len(out), NEW i \in 1..Len(stems)
  PROVE  used[SlugAt(i)] \in Nat /\ used[SlugAt(i)] >= 1
<1>1. Len(stems) \in Nat /\ Len(out) \in Nat
  BY LenProperties DEF TypeOK
<1>2. SlugAt(i) \in Slugs
  BY <1>1, SlugAtType
<1>3. i \in Holders(SlugAt(i)) /\ IsFiniteSet(Holders(SlugAt(i)))
  BY HoldersFinite DEF Holders
<1>4. Cardinality(Holders(SlugAt(i))) # 0
  BY <1>3, FS_EmptySet
<1> QED BY <1>2, <1>4 DEF Counted, TypeOK

LEMMA InitNaming == Init => Naming
<1> SUFFICES ASSUME Init PROVE Naming
  OBVIOUS
<1>1. stems = <<>> /\ Len(stems) = 0 /\ Len(out) = 0 /\ pc = "unmarshal"
  BY EmptySeq DEF Init
<1>2. \A s \in Slugs : used[s] = 0
  BY DEF Init
<1>3. \A s : Holders(s) = {}
  BY <1>1 DEF Holders
<1> QED BY <1>1, <1>2, <1>3, FS_EmptySet DEF Naming, Counted, Formed, Given, ApartWithin, Shape

(* A step of naming gives the next stem of the slug.                       *)
LEMMA NameKeepsNaming ==
  ASSUME TypeOK, Naming, Name
  PROVE  Naming'
<1>k. PICK k : k = Len(stems) + 1
  OBVIOUS
<1>s. PICK slug : slug = SlugAt(k)
  OBVIOUS
<1>n. PICK n : n = used[slug] + 1
  OBVIOUS
<1>1. Len(stems) \in Nat /\ Len(out) \in Nat /\ k \in 1..Len(out) /\ k \notin 1..Len(stems)
  BY <1>k, LenProperties DEF Name, TypeOK
<1>2. slug \in Texts /\ slug \in Slugs
  BY <1>1, <1>s, SlugAtType
<1>3. used[slug] \in Nat /\ n \in Nat /\ n >= 1
  BY <1>2, <1>n DEF TypeOK
<1>4. /\ used' = [used EXCEPT ![slug] = n] /\ stems' = Append(stems, Stem(slug, n))
      /\ pc = "name" /\ UNCHANGED <<pc, out>>
  BY <1>3, <1>k, <1>s, <1>n DEF Name, NextCert, SlugAt, Stem
<1>5. Stem(slug, n) \in Texts
  BY <1>2, <1>3, SuffixProper DEF Stem
<1>6. /\ Len(stems') = k /\ stems'[k] = Stem(slug, n)
      /\ \A i \in 1..Len(stems) : stems'[i] = stems[i]
  BY <1>4, <1>5, <1>k, AppendType DEF TypeOK
<1>7. \A i : SlugAt(i)' = SlugAt(i)
  BY <1>4 DEF SlugAt
<1>8. /\ used'[slug] = n
      /\ \A s \in Slugs : s # slug => used'[s] = used[s]
      /\ \A s \in Slugs : used[s] \in Nat /\ used'[s] \in Nat /\ used[s] <= used'[s]
  BY <1>2, <1>3, <1>4, <1>n DEF TypeOK
<1>9. \A i \in 1..Len(stems) : /\ SlugAt(i) \in Texts /\ SlugAt(i) \in Slugs
                               /\ used[SlugAt(i)] \in Nat /\ used[SlugAt(i)] >= 1
  BY <1>1, SlugAtType, HeldIsCounted DEF Naming, Shape
<1>10. 1..k = 1..Len(stems) \cup {k} /\ 1..Len(stems') = 1..k
  BY <1>1, <1>6, <1>k
<1>11. Holders(slug)' = Holders(slug) \cup {k} /\ k \notin Holders(slug)
  BY <1>1, <1>7, <1>10, <1>s DEF Holders
<1>12. \A s \in Slugs : s # slug => Holders(s)' = Holders(s)
  BY <1>7, <1>10, <1>s DEF Holders
<1>13. Counted'
  <2>1. Cardinality(Holders(slug)') = Cardinality(Holders(slug)) + 1
    BY <1>11, HoldersFinite, FS_AddElement
  <2>2. ASSUME NEW s \in Slugs PROVE used'[s] = Cardinality(Holders(s)')
    <3>1. CASE s = slug
      BY <1>2, <1>8, <1>n, <2>1, <3>1 DEF Naming, Counted
    <3>2. CASE s # slug
      BY <1>8, <1>12, <3>2 DEF Naming, Counted
    <3> QED BY <3>1, <3>2
  <2> QED BY <2>2 DEF Counted
<1>14. Formed'
  <2>1. ASSUME NEW i \in 1..k PROVE \E m \in 1..used'[SlugAt(i)] : stems'[i] = Stem(SlugAt(i), m)
    <3>1. CASE i = k
      <4>1. SlugAt(i) = slug /\ n \in 1..used'[slug]
        BY <1>3, <1>8, <1>s, <3>1
      <4> QED BY <1>6, <3>1, <4>1
    <3>2. CASE i \in 1..Len(stems)
      <4>1. PICK m \in 1..used[SlugAt(i)] : stems[i] = Stem(SlugAt(i), m)
        BY <3>2 DEF Naming, Formed
      <4>2. m \in 1..used'[SlugAt(i)]
        BY <1>8, <1>9, <3>2, <4>1
      <4> QED BY <1>6, <3>2, <4>1, <4>2
    <3> QED BY <1>10, <2>1, <3>1, <3>2
  <2> QED BY <1>7, <1>10, <2>1 DEF Formed
<1>15. Given'
  <2>1. ASSUME NEW s \in Slugs, NEW m \in 1..used'[s] PROVE \E i \in Holders(s)' : stems'[i] = Stem(s, m)
    <3>1. CASE m \in 1..used[s]
      <4>1. PICK i \in Holders(s) : stems[i] = Stem(s, m)
        BY <3>1 DEF Naming, Given
      <4>2. i \in Holders(s)' /\ i \in 1..Len(stems)
        BY <1>11, <1>12, <4>1 DEF Holders
      <4> QED BY <1>6, <4>1, <4>2
    <3>2. CASE m \notin 1..used[s]
      <4>1. s = slug /\ m = n
        BY <1>3, <1>8, <1>n, <2>1, <3>2
      <4> QED BY <1>6, <1>11, <4>1
    <3> QED BY <3>1, <3>2
  <2> QED BY <2>1 DEF Given
<1>16. ApartWithin'
  <2>1. ASSUME NEW i \in 1..Len(stems), SlugAt(i) = slug PROVE stems'[i] # stems'[k]
    <3>1. PICK m \in 1..used[slug] : stems[i] = Stem(slug, m)
      BY <2>1 DEF Naming, Formed
    <3>2. m \in Nat /\ m # n
      BY <1>3, <1>n, <3>1
    <3> QED BY <1>2, <1>3, <1>6, <3>1, <3>2, StemInjective
  <2>2. \A i, j \in 1..Len(stems) : i # j /\ SlugAt(i) = SlugAt(j) => stems'[i] # stems'[j]
    BY <1>6 DEF Naming, ApartWithin
  <2> QED BY <1>7, <1>10, <1>s, <2>1, <2>2 DEF ApartWithin
<1>17. Shape'
  BY <1>1, <1>4, <1>6, <1>k DEF Shape
<1> QED BY <1>13, <1>14, <1>15, <1>16, <1>17 DEF Naming

LEMMA NextNaming ==
  ASSUME TypeOK, Sources, Naming, [Next]_vars
  PROVE  Naming'
<1> USE DEF Naming
<1>1. CASE Name
  BY <1>1, NameKeepsNaming
<1>2. CASE Named
  BY <1>2 DEF Named, naming, Counted, Formed, Given, ApartWithin, Shape, SlugAt, Holders
<1>3. CASE UNCHANGED vars
  BY <1>3 DEF vars, naming, Counted, Formed, Given, ApartWithin, Shape, SlugAt, Holders
<1>4. ASSUME pc \notin {"name", "done"}, UNCHANGED naming, pc' # "done", out' \in Seq(Certs)
      PROVE  Naming'
  <2>1. stems' = <<>> /\ Len(stems') = 0 /\ Len(out') \in Nat /\ \A s \in Slugs : used'[s] = 0
    BY <1>4, EmptySeq, LenProperties DEF naming, Shape
  <2>2. \A s : Holders(s)' = {}
    BY <2>1 DEF Holders
  <2>3. Cardinality({}) = 0
    BY FS_EmptySet
  <2>4. Counted'
    BY <2>1, <2>2, <2>3 DEF Counted
  <2>5. Given'
    BY <2>1 DEF Given
  <2>6. Formed' /\ ApartWithin' /\ Shape'
    BY <1>4, <2>1 DEF Formed, ApartWithin, Shape
  <2> QED BY <2>4, <2>5, <2>6
<1>5. out' \in Seq(Certs)
  BY NextTypes DEF TypeOK
<1>6. CASE Unmarshal
  BY <1>4, <1>5, <1>6 DEF Unmarshal
<1>7. ASSUME NEW r \in Resolvers, CollectName(r) PROVE Naming'
  BY <1>4, <1>5, <1>7 DEF CollectName
<1>8. CASE SortNames
  BY <1>4, <1>5, <1>8 DEF SortNames
<1>9. CASE NextResolver \/ Skip \/ DecodeFails \/ Take \/ WalkEnds
  BY <1>4, <1>5, <1>9 DEF NextResolver, Skip, DecodeFails, Take, WalkEnds
<1>10. ASSUME NEW h \in Hosts, Gather(h) PROVE Naming'
  BY <1>4, <1>5, <1>10 DEF Gather
<1>11. CASE SortOut
  BY <1>4, <1>5, <1>11 DEF SortOut
<1> QED BY <1>1, <1>2, <1>3, <1>6, <1>7, <1>8, <1>9, <1>10, <1>11 DEF Next

(* Two certificates with one stem have slugs that clash, ...               *)
LEMMA SameStemClashes ==
  ASSUME TypeOK, Naming, Len(stems) = Len(out),
         \A j \in 1..Len(out) : used[SlugAt(j)] = Cardinality(Namesakes(out[j].main)),
         NEW i \in 1..Len(out), NEW j \in 1..Len(out), i # j, stems[i] = stems[j]
  PROVE  Clash
<1>1. PICK m \in 1..used[SlugAt(i)], n \in 1..used[SlugAt(j)] :
        stems[i] = Stem(SlugAt(i), m) /\ stems[j] = Stem(SlugAt(j), n)
  BY DEF Naming, Formed
<1>2. SlugAt(i) # SlugAt(j) /\ Stem(SlugAt(i), m) = Stem(SlugAt(j), n)
  BY <1>1 DEF Naming, ApartWithin
<1>3. /\ SlugAt(i) \in Texts /\ SlugAt(j) \in Texts
      /\ used[SlugAt(i)] \in Nat /\ used[SlugAt(j)] \in Nat
  BY SlugAtType DEF TypeOK
<1>4. m \in Nat /\ n \in Nat /\ ~(m = 1 /\ n = 1) /\ ~(m # 1 /\ n # 1)
  <2>1. m \in Nat /\ n \in Nat
    BY <1>1, <1>3
  <2>2. ASSUME m # 1, n # 1 PROVE FALSE
    <3>1. Append(SlugAt(i), m) = Append(SlugAt(j), n)
      BY <1>2, <2>2 DEF Stem
    <3> QED BY <1>2, <1>3, <2>1, <3>1, SuffixInjective
  <2> QED BY <1>2, <2>1, <2>2 DEF Stem
<1>5. CASE m = 1
  <2>1. n \in 2..Cardinality(Namesakes(out[j].main))
    BY <1>1, <1>3, <1>4, <1>5
  <2>2. Slug[out[i].main] = Append(Slug[out[j].main], n)
    BY <1>2, <1>4, <1>5 DEF Stem, SlugAt
  <2> QED BY <2>1, <2>2 DEF Clash
<1>6. CASE n = 1
  <2>1. m \in 2..Cardinality(Namesakes(out[i].main))
    BY <1>1, <1>3, <1>4, <1>6
  <2>2. Slug[out[j].main] = Append(Slug[out[i].main], m)
    BY <1>2, <1>4, <1>6 DEF Stem, SlugAt
  <2> QED BY <2>1, <2>2 DEF Clash
<1> QED BY <1>4, <1>5, <1>6

(* ... and where slugs clash two certificates have one stem: the suffixed  *)
(* one is given, and so is the slug that looks like it.                    *)
LEMMA ClashHasSameStem ==
  ASSUME TypeOK, Naming, Len(stems) = Len(out),
         \A j \in 1..Len(out) : used[SlugAt(j)] = Cardinality(Namesakes(out[j].main)),
         Clash
  PROVE  \E i, j \in 1..Len(out) : i # j /\ stems[i] = stems[j]
<1>0. PICK i \in 1..Len(out), j \in 1..Len(out) :
        \E n \in 2..Cardinality(Namesakes(out[j].main)) : SlugAt(i) = Append(SlugAt(j), n)
  BY DEF Clash, SlugAt
<1>1. PICK n \in 2..Cardinality(Namesakes(out[j].main)) : SlugAt(i) = Append(SlugAt(j), n)
  BY <1>0
<1>2. /\ SlugAt(i) \in Slugs /\ SlugAt(j) \in Slugs /\ SlugAt(j) \in Texts
      /\ used[SlugAt(j)] \in Nat
  BY SlugAtType DEF TypeOK
<1>3. n \in Nat /\ n # 1 /\ n \in 1..used[SlugAt(j)] /\ 1 \in 1..used[SlugAt(i)]
  <2>1. used[SlugAt(i)] \in Nat /\ used[SlugAt(i)] >= 1
    BY HeldIsCounted, LenProperties DEF Naming, TypeOK
  <2> QED BY <1>1, <1>2, <2>1
<1>4. PICK p \in Holders(SlugAt(i)) : stems[p] = Stem(SlugAt(i), 1)
  BY <1>2, <1>3 DEF Naming, Given
<1>5. PICK q \in Holders(SlugAt(j)) : stems[q] = Stem(SlugAt(j), n)
  BY <1>2, <1>3 DEF Naming, Given
<1>6. stems[p] = stems[q]
  BY <1>1, <1>3, <1>4, <1>5 DEF Stem
<1>7. p # q
  <2>1. SlugAt(p) = SlugAt(i) /\ SlugAt(q) = SlugAt(j)
    BY <1>4, <1>5 DEF Holders
  <2> QED BY <1>1, <1>2, <1>3, <2>1, SuffixProper
<1>8. p \in 1..Len(out) /\ q \in 1..Len(out)
  BY <1>4, <1>5 DEF Holders
<1> QED BY <1>6, <1>7, <1>8

(* Two certificates get the same file stem exactly when some host's slug   *)
(* is what the suffix makes of the slug of two others, for any hosts, any  *)
(* slugs and however many certificates share one.                          *)
THEOREM StemsDistinct == Spec => []DistinctStems
<1>1. TypeOK /\ Naming => DistinctStems
  <2> SUFFICES ASSUME TypeOK, Naming, pc = "done"
               PROVE  (\A i, j \in 1..Len(out) : i # j => stems[i] # stems[j]) <=> ~Clash
    BY DEF DistinctStems
  <2>1. Len(stems) = Len(out)
    BY DEF Naming, Shape
  <2>2. ASSUME NEW j \in 1..Len(out) PROVE used[SlugAt(j)] = Cardinality(Namesakes(out[j].main))
    <3>1. Namesakes(out[j].main) = Holders(SlugAt(j))
      BY <2>1 DEF Namesakes, Holders, SlugAt
    <3> QED BY <3>1, SlugAtType DEF Naming, Counted
  <2> QED BY <2>1, <2>2, SameStemClashes, ClashHasSameStem
<1>2. TypeOK /\ Sources /\ Naming /\ [Next]_vars => (TypeOK /\ Sources /\ Naming)'
  BY NextTypes, NextNaming
<1> QED BY <1>1, <1>2, InitTypes, InitNaming, PTL DEF Spec
-----------------------------------------------------------------------------
(* What has been read.                                                     *)

For(p, h) == ~Placeholder(At(p)) /\ At(p).main = h

(* byMain holds the latest of the entries at the places W.                 *)
LatestAmong(W) ==
  \A h \in Hosts :
    /\ byMain[h] = NoCert => \A q \in W : ~For(q, h)
    /\ byMain[h] # NoCert => \E p \in W : /\ For(p, h) /\ byMain[h] = At(p)
                                          /\ \A q \in W : For(q, h) => ~Later(q, p)

SoundAmong(W) == \A p \in W : ~Broken(At(p))

(* The places walked when r is the present resolver.                       *)
Behind(r) == {p \in Places : \/ p[1] < r
                             \/ p[1] = r /\ p[2] <= Len(file[r]) - Len(entries)}

(* The walk stands in resolver r, or before the first: the names still to  *)
(* walk are the later ones, the entries still to walk the last of r's.     *)
WalkedTo(r) ==
  /\ \A s \in DOMAIN file : s \in Range(names) <=> r < s
  /\ r \notin DOMAIN file => entries = <<>>
  /\ r \in DOMAIN file =>
       /\ Len(entries) <= Len(file[r])
       /\ \A j \in 1..Len(entries) : entries[j] = file[r][Len(file[r]) - Len(entries) + j]

BeforeFirst == -1

Walk ==
  /\ \A i, j \in 1..Len(names) : i < j => names[i] < names[j]
  /\ \E r \in DOMAIN file \cup {BeforeFirst} :
       WalkedTo(r) /\ LatestAmong(Behind(r)) /\ SoundAmong(Behind(r))

(* Every name is collected once.                                           *)
Collected ==
  /\ left \subseteq DOMAIN file
  /\ \A s \in DOMAIN file : s \in Range(names) <=> s \notin left
  /\ \A i, j \in 1..Len(names) : i # j => names[i] # names[j]

(* What is to become of byMain: each certificate of it once.               *)
Gathered ==
  /\ left \subseteq {h \in Hosts : byMain[h] # NoCert}
  /\ \A i \in 1..Len(out) : /\ byMain[out[i].main] = out[i]
                            /\ out[i].main \notin left
  /\ \A i, j \in 1..Len(out) : i # j => out[i].main # out[j].main
  /\ \A h \in Hosts : byMain[h] # NoCert => h \in left \/ \E i \in 1..Len(out) : out[i].main = h

Reading ==
  /\ pc \in {"unmarshal", "collect"} => entries = <<>> /\ \A h \in Hosts : byMain[h] = NoCert
  /\ pc \in {"unmarshal", "collect", "walk"} => out = <<>>
  /\ pc = "collect" => Collected
  /\ pc = "walk" => Walk
  /\ pc \in {"gather", "name", "done"} => /\ file # Other /\ Gathered
                                          /\ LatestAmong(Places) /\ SoundAmong(Places)
  /\ pc \in {"name", "done"} => /\ left = {}
                                /\ \A i, j \in 1..Len(out) : i < j => out[i].main < out[j].main
  /\ pc = "error" => file = Other \/ ~SoundAmong(Places)

LEMMA RangeIs ==
  ASSUME NEW S, NEW s \in Seq(S)
  PROVE  Len(s) \in Nat /\ Range(s) = {s[i] : i \in 1..Len(s)}
  BY LenProperties DEF Range

LEMMA RangeAppend ==
  ASSUME NEW S, NEW s \in Seq(S), NEW e \in S
  PROVE  Range(Append(s, e)) = Range(s) \cup {e}
<1> DEFINE t == Append(s, e)
<1>1. /\ t \in Seq(S) /\ Len(t) = Len(s) + 1 /\ Len(s) \in Nat
      /\ \A i \in 1..Len(s) : t[i] = s[i]
      /\ t[Len(s) + 1] = e
  BY AppendType, LenProperties
<1>2. Range(s) = {s[i] : i \in 1..Len(s)} /\ Range(t) = {t[i] : i \in 1..Len(t)}
  BY <1>1, RangeIs
<1>3. 1..Len(t) = 1..Len(s) \cup {Len(s) + 1}
  BY <1>1
<1> HIDE DEF t
<1>4. Range(t) \subseteq Range(s) \cup {e}
  BY <1>1, <1>2, <1>3
<1>5. ASSUME NEW i \in 1..Len(s) PROVE s[i] \in Range(t)
  <2>1. t[i] = s[i] /\ i \in 1..Len(t)
    BY <1>1, <1>3
  <2> QED BY <1>2, <2>1
<1>6. e \in Range(t)
  BY <1>1, <1>2, <1>3
<1> QED BY <1>2, <1>4, <1>5, <1>6 DEF t

LEMMA Parts ==
  ASSUME NEW S, NEW s \in Seq(S), s # <<>>
  PROVE  /\ Len(s) \in Nat /\ Len(s) >= 1 /\ Head(s) = s[1] /\ Head(s) \in S
         /\ Tail(s) \in Seq(S) /\ Len(Tail(s)) = Len(s) - 1
         /\ \A i \in 1..(Len(s) - 1) : Tail(s)[i] = s[i + 1]
         /\ Range(s) = {Head(s)} \cup Range(Tail(s))
<1>1. /\ Len(s) \in Nat /\ Len(s) # 0 /\ Head(s) = s[1] /\ Head(s) \in S
  BY EmptySeq, LenProperties, HeadTailProperties
<1>2. /\ Tail(s) \in Seq(S) /\ Len(Tail(s)) = Len(s) - 1
      /\ \A i \in 1..(Len(s) - 1) : Tail(s)[i] = s[i + 1]
  BY HeadTailProperties
<1>3. Range(s) = {s[i] : i \in 1..Len(s)} /\ Range(Tail(s)) = {Tail(s)[i] : i \in 1..(Len(s) - 1)}
  BY <1>2, RangeIs
<1>4. \A i \in 1..Len(s) : i = 1 \/ (i - 1 \in 1..(Len(s) - 1) /\ Tail(s)[i - 1] = s[i])
  BY <1>1, <1>2
<1>5. \A i \in 1..(Len(s) - 1) : i + 1 \in 1..Len(s)
  BY <1>1
<1>6. Range(s) \subseteq {Head(s)} \cup Range(Tail(s))
  BY <1>1, <1>3, <1>4
<1>7. {Head(s)} \cup Range(Tail(s)) \subseteq Range(s)
  <2>1. Head(s) \in Range(s)
    BY <1>1, <1>3
  <2>2. ASSUME NEW i \in 1..(Len(s) - 1) PROVE Tail(s)[i] \in Range(s)
    BY <1>2, <1>3, <1>5
  <2> QED BY <1>3, <2>1, <2>2
<1> QED BY <1>1, <1>2, <1>6, <1>7

(* p brings s into the order of t.                                         *)
Permutes(p, s, t) ==
  /\ \A i \in 1..Len(s) : p[i] \in 1..Len(s) /\ t[i] = s[p[i]]
  /\ \A i, j \in 1..Len(s) : i # j => p[i] # p[j]
  /\ \A i \in 1..Len(s) : \E j \in 1..Len(s) : p[j] = i

(* An arrangement has what is arranged, each element as often.             *)
LEMMA ArrangementPermutes ==
  ASSUME NEW S, NEW s \in Seq(S), NEW t \in Arrangements(s)
  PROVE  \E p : Permutes(p, s, t)
<1> DEFINE D == 1..Len(s)
<1>1. PICK p \in [D -> D] : /\ t = [i \in D |-> s[p[i]]]
                            /\ \A i, j \in D : i # j => p[i] # p[j]
  BY DEF Arrangements
<1>2. IsFiniteSet(D)
  BY LenProperties, FS_Interval
<1>3. p \in Injection(D, D)
  BY <1>1 DEF Injection, IsInjective
<1>4. p \in Surjection(D, D)
  BY <1>2, <1>3, FS_Injection
<1> QED BY <1>1, <1>4 DEF Surjection, Permutes

LEMMA ArrangementRange ==
  ASSUME NEW S, NEW s \in Seq(S), NEW t \in Arrangements(s)
  PROVE  /\ Range(t) = Range(s)
         /\ (\A i, j \in 1..Len(s) : i # j => s[i] # s[j])
              => \A i, j \in 1..Len(t) : i # j => t[i] # t[j]
<1>1. PICK p : Permutes(p, s, t)
  BY ArrangementPermutes
<1>2. t \in Seq(S) /\ Len(t) = Len(s)
  BY ArrangementType
<1>3. Range(s) = {s[i] : i \in 1..Len(s)} /\ Range(t) = {t[i] : i \in 1..Len(s)}
  BY <1>2, RangeIs
<1>4. ASSUME NEW i \in 1..Len(s) PROVE t[i] \in Range(s)
  <2>1. p[i] \in 1..Len(s) /\ t[i] = s[p[i]]
    BY <1>1 DEF Permutes
  <2> QED BY <1>3, <2>1
<1>5. ASSUME NEW i \in 1..Len(s) PROVE s[i] \in Range(t)
  <2>1. PICK j \in 1..Len(s) : p[j] = i
    BY <1>1 DEF Permutes
  <2>2. t[j] = s[i]
    BY <1>1, <2>1 DEF Permutes
  <2> QED BY <1>3, <2>2
<1>6. Range(t) = Range(s)
  BY <1>3, <1>4, <1>5
<1>7. ASSUME \A i, j \in 1..Len(s) : i # j => s[i] # s[j],
             NEW i \in 1..Len(t), NEW j \in 1..Len(t), i # j
      PROVE  t[i] # t[j]
  <2>1. i \in 1..Len(s) /\ j \in 1..Len(s)
    BY <1>2
  <2>2. p[i] \in 1..Len(s) /\ p[j] \in 1..Len(s) /\ p[i] # p[j]
    BY <1>1, <1>7, <2>1 DEF Permutes
  <2>3. t[i] = s[p[i]] /\ t[j] = s[p[j]]
    BY <1>1, <2>1 DEF Permutes
  <2> QED BY <1>7, <2>2, <2>3
<1> QED BY <1>6, <1>7

LEMMA PlaceType ==
  ASSUME TypeOK, file # Other
  PROVE  /\ \A p \in Places : /\ p = <<p[1], p[2]>> /\ p[1] \in DOMAIN file /\ p[1] \in Nat
                              /\ p[2] \in 1..Len(file[p[1]]) /\ p[2] \in Nat
                              /\ At(p) \in Entries
         /\ \A r \in DOMAIN file : /\ r \in Nat /\ Len(file[r]) \in Nat
                                   /\ \A k \in 1..Len(file[r]) : <<r, k>> \in Places
<1>1. \A r \in DOMAIN file : r \in Nat /\ file[r] \in Seq(Entries) /\ Len(file[r]) \in Nat
  BY FileType, AcmeAssumption, LenProperties DEF TypeOK
<1>2. ASSUME NEW p \in Places
      PROVE  /\ p = <<p[1], p[2]>> /\ p[1] \in DOMAIN file /\ p[1] \in Nat
             /\ p[2] \in 1..Len(file[p[1]]) /\ p[2] \in Nat
             /\ At(p) \in Entries
  <2>1. PICK r \in DOMAIN file : p \in {r} \X (1..Len(file[r]))
    BY DEF Places
  <2>2. p = <<p[1], p[2]>> /\ p[1] = r /\ p[2] \in 1..Len(file[r])
    BY <2>1
  <2>3. file[r][p[2]] \in Entries
    BY <1>1, <2>2, ElementOfSeq
  <2> QED BY <1>1, <2>2, <2>3 DEF At
<1>3. ASSUME NEW r \in DOMAIN file, NEW k \in 1..Len(file[r]) PROVE <<r, k>> \in Places
  BY DEF Places
<1> QED BY <1>1, <1>2, <1>3

LEMMA SameFile ==
  ASSUME file' = file
  PROVE  /\ Places' = Places
         /\ \A p : At(p)' = At(p) /\ \A h : For(p, h)' <=> For(p, h)
  BY DEF Places, At, For

LEMMA InitReading == Init => Reading
  BY EmptySeq DEF Init, Reading

-----------------------------------------------------------------------------
(* Reading up to the sorted names.                                         *)

LEMMA UnmarshalReading ==
  ASSUME TypeOK, Sources, Reading, Unmarshal
  PROVE  Reading'
<1>1. CASE file = Other
  BY <1>1 DEF Unmarshal, Reading
<1>2. CASE file # Other
  <2>1. pc' = "collect" /\ left' = DOMAIN file /\ UNCHANGED <<file, names, entries, byMain, out>>
    BY <1>2 DEF Unmarshal
  <2>2. names = <<>> /\ Len(names) = 0 /\ Range(names) = {}
    <3>1. names = <<>> /\ Len(names) = 0
      BY EmptySeq DEF Unmarshal, Sources
    <3>2. names \in Seq(Resolvers)
      BY DEF TypeOK
    <3>3. Range(names) = {names[i] : i \in 1..Len(names)}
      BY <3>2, RangeIs
    <3> QED BY <3>1, <3>3
  <2>3. Collected'
    BY <2>1, <2>2 DEF Collected
  <2> QED BY <2>1, <2>3 DEF Unmarshal, Reading
<1> QED BY <1>1, <1>2

LEMMA CollectReading ==
  ASSUME TypeOK, Sources, Reading, NEW r \in Resolvers, CollectName(r)
  PROVE  Reading'
<1>1. /\ pc = "collect" /\ r \in left /\ left' = left \ {r} /\ names' = Append(names, r)
      /\ UNCHANGED <<file, pc, entries, byMain, out>>
  BY DEF CollectName
<1>2. Collected /\ names \in Seq(Resolvers) /\ Len(names) \in Nat
  BY <1>1, LenProperties DEF Reading, TypeOK
<1>3. /\ Len(names') = Len(names) + 1 /\ names'[Len(names) + 1] = r
      /\ \A i \in 1..Len(names) : names'[i] = names[i]
      /\ Range(names') = Range(names) \cup {r}
  BY <1>1, <1>2, AppendType, RangeAppend
<1>4. \A i \in 1..Len(names) : names[i] # r
  <2>1. r \notin Range(names)
    BY <1>1, <1>2 DEF Collected
  <2> QED BY <1>2, <2>1, RangeIs
<1>5. (\A i, j \in 1..Len(names) : i # j => names[i] # names[j])'
  <2>1. \A i, j \in 1..Len(names) : i # j => names[i] # names[j]
    BY <1>2 DEF Collected
  <2>2. ASSUME NEW i \in 1..Len(names'), NEW j \in 1..Len(names'), i # j
        PROVE  names'[i] # names'[j]
    <3>1. /\ i \in 1..Len(names) \/ i = Len(names) + 1
          /\ j \in 1..Len(names) \/ j = Len(names) + 1
      BY <1>2, <1>3
    <3> QED BY <1>3, <1>4, <2>1, <2>2, <3>1
  <2> QED BY <2>2
<1>6. Collected'
  BY <1>1, <1>2, <1>3, <1>5 DEF Collected
<1> QED BY <1>1, <1>6 DEF Reading

LEMMA SortReading ==
  ASSUME TypeOK, Sources, Reading, SortNames
  PROVE  Reading'
<1>1. /\ pc = "collect" /\ pc' = "walk" /\ left = {} /\ file # Other
      /\ UNCHANGED <<file, left, entries, byMain, out>>
      /\ names' \in Arrangements(names)
      /\ \A i, j \in 1..Len(names') : i < j => names'[i] <= names'[j]
  BY DEF SortNames, Sources
<1>2. Collected /\ names \in Seq(Resolvers) /\ entries = <<>>
  BY <1>1 DEF Reading, TypeOK
<1>3. /\ Range(names') = Range(names) /\ names' \in Seq(Resolvers) /\ Len(names') \in Nat
      /\ \A i, j \in 1..Len(names') : i # j => names'[i] # names'[j]
  <2>1. \A i, j \in 1..Len(names) : i # j => names[i] # names[j]
    BY <1>2 DEF Collected
  <2>2. names' \in Seq(Resolvers)
    BY <1>1, <1>2, ArrangementType
  <2> QED BY <1>1, <1>2, <2>1, <2>2, ArrangementRange, LenProperties
<1>4. \A i, j \in 1..Len(names') : i < j => names'[i] < names'[j]
  <2>1. \A i \in 1..Len(names') : names'[i] \in Nat
    BY <1>3, ElementOfSeq, AcmeAssumption
  <2> QED BY <1>1, <1>3, <2>1
<1>5. \A s \in DOMAIN file : s \in Nat /\ s \in Range(names')
  BY <1>1, <1>2, <1>3, PlaceType DEF Collected
<1>6. WalkedTo(BeforeFirst)'
  <2>1. BeforeFirst \notin DOMAIN file
    BY <1>5 DEF BeforeFirst
  <2>2. \A s \in DOMAIN file : BeforeFirst < s
    BY <1>5 DEF BeforeFirst
  <2> QED BY <1>1, <1>2, <1>5, <2>1, <2>2 DEF WalkedTo
<1>7. Behind(BeforeFirst)' = {}
  <2>1. \A p \in Places : p[1] \in Nat
    BY <1>1, PlaceType
  <2>2. Places' = Places
    BY <1>1, SameFile
  <2> QED BY <2>1, <2>2 DEF Behind, BeforeFirst
<1>8. LatestAmong(Behind(BeforeFirst))' /\ SoundAmong(Behind(BeforeFirst))'
  BY <1>1, <1>7 DEF LatestAmong, SoundAmong, Reading
<1> QED BY <1>1, <1>4, <1>6, <1>8 DEF Walk, Reading

-----------------------------------------------------------------------------
(* Walking.                                                                *)

(* The place of the entry that is next.                                    *)
LEMMA NextPlace ==
  ASSUME TypeOK, file # Other, NEW r, WalkedTo(r), entries # <<>>
  PROVE  \E q \in Places : /\ r \in DOMAIN file /\ At(q) = Head(entries)
                           /\ q[1] = r /\ q[2] = Len(file[r]) - Len(entries) + 1
<1>1. r \in DOMAIN file /\ Len(entries) <= Len(file[r])
      /\ \A j \in 1..Len(entries) : entries[j] = file[r][Len(file[r]) - Len(entries) + j]
  BY DEF WalkedTo
<1>2. Len(file[r]) \in Nat /\ Len(entries) \in Nat /\ Len(entries) >= 1 /\ Head(entries) = entries[1]
  BY <1>1, PlaceType, Parts DEF TypeOK
<1>3. PICK k : k = Len(file[r]) - Len(entries) + 1
  OBVIOUS
<1>4. k \in 1..Len(file[r]) /\ Head(entries) = file[r][k]
  BY <1>1, <1>2, <1>3
<1>5. <<r, k>> \in Places /\ At(<<r, k>>) = Head(entries)
  BY <1>1, <1>4, PlaceType DEF At
<1> QED BY <1>1, <1>3, <1>5

(* Going on to the next entry puts it behind.                              *)
LEMMA Advance ==
  ASSUME TypeOK, file # Other, NEW r, WalkedTo(r), entries # <<>>,
         entries' = Tail(entries), UNCHANGED <<file, names>>
  PROVE  /\ WalkedTo(r)'
         /\ \E q \in Places : /\ At(q) = Head(entries) /\ Behind(r)' = Behind(r) \cup {q}
                              /\ \A p \in Behind(r) \cup {q} : ~Later(p, q)
<1>1. PICK q \in Places : /\ r \in DOMAIN file /\ At(q) = Head(entries)
                          /\ q[1] = r /\ q[2] = Len(file[r]) - Len(entries) + 1
  BY NextPlace
<1>2. /\ Len(file[r]) \in Nat /\ Len(entries) \in Nat /\ Len(entries) >= 1
      /\ Len(entries') = Len(entries) - 1
      /\ \A i \in 1..(Len(entries) - 1) : entries'[i] = entries[i + 1]
  BY <1>1, PlaceType, Parts DEF TypeOK
<1>3. WalkedTo(r)'
  <2>1. Len(entries') <= Len(file[r])
    BY <1>1, <1>2 DEF WalkedTo
  <2>2. ASSUME NEW j \in 1..Len(entries')
        PROVE  entries'[j] = file[r][Len(file[r]) - Len(entries') + j]
    <3>1. j + 1 \in 1..Len(entries) /\ entries'[j] = entries[j + 1]
      BY <1>2
    <3>2. entries[j + 1] = file[r][Len(file[r]) - Len(entries) + (j + 1)]
      BY <1>1, <3>1 DEF WalkedTo
    <3>3. Len(file[r]) - Len(entries) + (j + 1) = Len(file[r]) - Len(entries') + j
      <4>1. j \in Int /\ Len(file[r]) \in Int /\ Len(entries) \in Int
        BY <1>2
      <4>2. \A a, b, d \in Int : a - b + (d + 1) = a - (b - 1) + d
        OBVIOUS
      <4>3. Len(file[r]) - Len(entries) + (j + 1) = Len(file[r]) - (Len(entries) - 1) + j
        BY <4>1, <4>2, Zenon
      <4> QED BY <1>2, <4>3, Zenon
    <3> QED BY <3>1, <3>2, <3>3
  <2> QED BY <1>1, <2>1, <2>2 DEF WalkedTo
<1>4. Behind(r)' = Behind(r) \cup {q}
  <2>1. Places' = Places
    BY SameFile
  <2>2. ASSUME NEW p \in Places
        PROVE  (p[1] = r /\ p[2] <= Len(file[r]) - Len(entries'))
                 <=> (p[1] = r /\ p[2] <= Len(file[r]) - Len(entries)) \/ p = q
    <3>1. /\ p = <<p[1], p[2]>> /\ q = <<q[1], q[2]>> /\ p[2] \in Nat
      BY PlaceType
    <3> QED BY <1>1, <1>2, <3>1
  <2>3. ASSUME NEW p \in Places PROVE p \in Behind(r)' <=> p \in Behind(r) \/ p = q
    BY <2>1, <2>2 DEF Behind
  <2>4. Behind(r) \subseteq Places /\ Behind(r)' \subseteq Places
    BY <2>1 DEF Behind
  <2> QED BY <2>3, <2>4
<1>5. ASSUME NEW p \in Behind(r) \cup {q} PROVE ~Later(p, q)
  <2>1. p \in Places
    BY DEF Behind
  <2>2. p[1] \in Nat /\ p[2] \in Nat /\ q[1] \in Nat /\ q[2] \in Nat
    BY <2>1, PlaceType
  <2> QED BY <1>1, <1>2, <1>5, <2>2 DEF Behind, Later
<1> QED BY <1>1, <1>3, <1>4, <1>5

LEMMA WalkFile ==
  ASSUME TypeOK, Sources, Reading, pc = "walk"
  PROVE  /\ file # Other /\ Walk /\ out = <<>>
         /\ names \in Seq(DOMAIN file) /\ Len(names) \in Nat
         /\ \A i \in 1..Len(names) : names[i] \in Nat /\ names[i] \in DOMAIN file
<1>1. file # Other /\ Walk /\ out = <<>> /\ names \in Seq(DOMAIN file)
  BY DEF Sources, Reading
<1> QED BY <1>1, ElementOfSeq, LenProperties, PlaceType

LEMMA NextResolverReading ==
  ASSUME TypeOK, Sources, Reading, NextResolver
  PROVE  Reading'
<1>1. /\ pc = "walk" /\ entries = <<>> /\ names # <<>> /\ Len(entries) = 0
      /\ entries' = file[Head(names)] /\ names' = Tail(names)
      /\ UNCHANGED <<file, pc, left, byMain, out>>
  BY EmptySeq DEF NextResolver
<1>2. /\ file # Other /\ Walk /\ out = <<>> /\ names \in Seq(DOMAIN file)
      /\ \A i \in 1..Len(names) : names[i] \in Nat /\ names[i] \in DOMAIN file
  BY <1>1, WalkFile
<1>3. PICK r \in DOMAIN file \cup {BeforeFirst} :
        WalkedTo(r) /\ LatestAmong(Behind(r)) /\ SoundAmong(Behind(r))
  BY <1>2 DEF Walk
<1>4. PICK h : h = Head(names)
  OBVIOUS
<1>5. /\ Len(names) \in Nat /\ Len(names) >= 1 /\ h = names[1] /\ h \in DOMAIN file /\ h \in Nat
      /\ names' \in Seq(DOMAIN file) /\ Len(names') = Len(names) - 1
      /\ \A i \in 1..Len(names') : names'[i] = names[i + 1] /\ i + 1 \in 1..Len(names)
      /\ Range(names) = {h} \cup Range(names')
  BY <1>1, <1>2, <1>4, Parts, PlaceType
<1>6. Range(names') = {names'[i] : i \in 1..Len(names')}
  BY <1>5, RangeIs
<1>7. \A s \in Range(names') : h < s
  <2>1. \A i \in 1..Len(names') : names[1] < names[i + 1]
    BY <1>2, <1>5 DEF Walk
  <2> QED BY <1>5, <1>6, <2>1
<1>8. r \in Int /\ \A s \in DOMAIN file : s \in Nat /\ (s \in Range(names) <=> r < s)
  BY <1>2, <1>3, PlaceType DEF WalkedTo, BeforeFirst
<1>9. \A s \in DOMAIN file : s \in Range(names') <=> h < s
  <2>1. r < h
    BY <1>5, <1>8
  <2> QED BY <1>5, <1>7, <1>8, <2>1
<1>10. WalkedTo(h)'
  <2>1. Len(file[h]) \in Nat /\ file' = file /\ entries' = file[h]
    BY <1>1, <1>2, <1>4, <1>5, PlaceType
  <2>2. \A j \in 1..Len(file[h]) : Len(file[h]) - Len(file[h]) + j = j
    BY <2>1
  <2> QED BY <1>5, <1>9, <2>1, <2>2 DEF WalkedTo
<1>11. Behind(h)' = Behind(r)
  <2>1. Places' = Places /\ file' = file /\ entries' = file[h]
    BY <1>1, <1>4, SameFile
  <2>2. ASSUME NEW p \in Places
        PROVE  /\ p \in Behind(r) <=> ~(r < p[1])
               /\ p \in Behind(h)' <=> p[1] < h
    <3>1. /\ p[1] \in DOMAIN file /\ p[1] \in Nat /\ p[2] \in 1..Len(file[p[1]]) /\ p[2] \in Nat
          /\ Len(file[p[1]]) \in Nat
      BY <1>2, PlaceType
    <3>2. p \in Behind(r) <=> ~(r < p[1])
      BY <1>1, <1>8, <3>1 DEF Behind
    <3>3. p \in Behind(h)' <=> p[1] < h
      BY <1>5, <2>1, <3>1 DEF Behind
    <3> QED BY <3>2, <3>3
  <2>3. ASSUME NEW s \in DOMAIN file PROVE ~(r < s) <=> s < h
    <3>1. s \in Nat /\ (r < s <=> s = h \/ h < s)
      BY <1>5, <1>8, <1>9
    <3> QED BY <1>5, <3>1
  <2>4. \A p \in Places : p[1] \in DOMAIN file
    BY <1>2, PlaceType
  <2>5. Behind(r) \subseteq Places /\ Behind(h)' \subseteq Places
    BY <2>1 DEF Behind
  <2> QED BY <2>2, <2>3, <2>4, <2>5
<1>12. LatestAmong(Behind(h))' /\ SoundAmong(Behind(h))'
  <2>1. byMain' = byMain /\ \A p : At(p)' = At(p) /\ \A g : For(p, g)' <=> For(p, g)
    BY <1>1, SameFile
  <2> QED BY <1>3, <1>11, <2>1 DEF LatestAmong, SoundAmong
<1>13. (\A i, j \in 1..Len(names) : i < j => names[i] < names[j])'
  <2>1. ASSUME NEW i \in 1..Len(names'), NEW j \in 1..Len(names'), i < j
        PROVE  names'[i] < names'[j]
    <3>1. /\ names'[i] = names[i + 1] /\ i + 1 \in 1..Len(names)
          /\ names'[j] = names[j + 1] /\ j + 1 \in 1..Len(names)
      BY <1>5
    <3>2. i + 1 < j + 1
      BY <2>1
    <3> QED BY <1>2, <3>1, <3>2 DEF Walk
  <2> QED BY <2>1
<1>14. Walk'
  BY <1>1, <1>5, <1>10, <1>12, <1>13 DEF Walk
<1> QED BY <1>1, <1>2, <1>14 DEF Reading


(* A placeholder has no effect on what is latest.                          *)
LEMMA SkipReading ==
  ASSUME TypeOK, Sources, Reading, Skip
  PROVE  Reading'
<1>1. /\ pc = "walk" /\ entries # <<>> /\ Placeholder(Head(entries)) /\ entries' = Tail(entries)
      /\ UNCHANGED <<file, pc, left, names, byMain, out>>
  BY DEF Skip
<1>2. file # Other /\ Walk /\ out = <<>>
  BY <1>1, WalkFile
<1>3. PICK r \in DOMAIN file \cup {BeforeFirst} :
        WalkedTo(r) /\ LatestAmong(Behind(r)) /\ SoundAmong(Behind(r))
  BY <1>2 DEF Walk
<1>4. /\ WalkedTo(r)'
      /\ \E q \in Places : /\ At(q) = Head(entries) /\ Behind(r)' = Behind(r) \cup {q}
                           /\ \A p \in Behind(r) \cup {q} : ~Later(p, q)
  BY <1>1, <1>2, <1>3, Advance
<1>5. PICK q \in Places : At(q) = Head(entries) /\ Behind(r)' = Behind(r) \cup {q}
  BY <1>4
<1>6. ~Broken(At(q)) /\ \A h : ~For(q, h)
  BY <1>1, <1>5 DEF Broken, For
<1>7. byMain' = byMain /\ \A p : At(p)' = At(p) /\ \A h : For(p, h)' <=> For(p, h)
  BY <1>1, SameFile
<1>8. SoundAmong(Behind(r))'
  BY <1>3, <1>5, <1>6, <1>7 DEF SoundAmong
<1>9. LatestAmong(Behind(r))'
  <2>1. ASSUME NEW h \in Hosts, byMain[h] = NoCert, NEW p \in Behind(r) \cup {q} PROVE ~For(p, h)
    BY <1>3, <1>6, <2>1 DEF LatestAmong
  <2>2. ASSUME NEW h \in Hosts, byMain[h] # NoCert
        PROVE  \E p \in Behind(r) \cup {q} :
                  /\ For(p, h) /\ byMain[h] = At(p)
                  /\ \A o \in Behind(r) \cup {q} : For(o, h) => ~Later(o, p)
    <3>1. PICK p \in Behind(r) : /\ For(p, h) /\ byMain[h] = At(p)
                                 /\ \A o \in Behind(r) : For(o, h) => ~Later(o, p)
      BY <1>3, <2>2 DEF LatestAmong
    <3> QED BY <1>6, <3>1
  <2> QED BY <1>5, <1>7, <2>1, <2>2 DEF LatestAmong
<1>10. Walk'
  BY <1>1, <1>2, <1>3, <1>4, <1>8, <1>9 DEF Walk
<1> QED BY <1>1, <1>2, <1>10 DEF Reading

(* What is taken is later than whatever has been taken for its host.       *)
LEMMA TakeReading ==
  ASSUME TypeOK, Sources, Reading, Take
  PROVE  Reading'
<1>1. /\ pc = "walk" /\ entries # <<>> /\ entries' = Tail(entries)
      /\ ~Placeholder(Head(entries)) /\ ~Broken(Head(entries))
      /\ byMain' = [byMain EXCEPT ![Head(entries).main] = Head(entries)]
      /\ UNCHANGED <<file, pc, left, names, out>>
  BY DEF Take
<1>2. file # Other /\ Walk /\ out = <<>>
  BY <1>1, WalkFile
<1>3. PICK r \in DOMAIN file \cup {BeforeFirst} :
        WalkedTo(r) /\ LatestAmong(Behind(r)) /\ SoundAmong(Behind(r))
  BY <1>2 DEF Walk
<1>4. /\ WalkedTo(r)'
      /\ \E q \in Places : /\ At(q) = Head(entries) /\ Behind(r)' = Behind(r) \cup {q}
                           /\ \A p \in Behind(r) \cup {q} : ~Later(p, q)
  BY <1>1, <1>2, <1>3, Advance
<1>5. PICK q \in Places : /\ At(q) = Head(entries) /\ Behind(r)' = Behind(r) \cup {q}
                          /\ \A p \in Behind(r) \cup {q} : ~Later(p, q)
  BY <1>4
<1>6. PICK g : g = Head(entries).main
  OBVIOUS
<1>7. At(q) \in Certs /\ g \in Hosts /\ At(q) # NoCert
  <2>1. At(q) \in Entries
    BY <1>2, PlaceType
  <2>2. At(q) \in Certs
    BY <1>1, <1>5, <2>1 DEF Placeholder, Broken, Entries, Certs
  <2> QED BY <1>5, <1>6, <2>2, AcmeAssumption DEF Certs
<1>8. ~Broken(At(q)) /\ For(q, g) /\ \A h : h # g => ~For(q, h)
  BY <1>1, <1>5, <1>6 DEF For
<1>9. byMain'[g] = At(q) /\ \A h \in Hosts : h # g => byMain'[h] = byMain[h]
  BY <1>1, <1>5, <1>6, <1>7 DEF TypeOK
<1>10. \A p : At(p)' = At(p) /\ \A h : For(p, h)' <=> For(p, h)
  BY <1>1, SameFile
<1>11. SoundAmong(Behind(r))'
  BY <1>3, <1>5, <1>8, <1>10 DEF SoundAmong
<1>12. LatestAmong(Behind(r))'
  <2>1. ASSUME NEW h \in Hosts, byMain'[h] = NoCert, NEW p \in Behind(r) \cup {q} PROVE ~For(p, h)
    <3>1. h # g /\ byMain[h] = NoCert
      BY <1>7, <1>9, <2>1
    <3> QED BY <1>3, <1>8, <2>1, <3>1 DEF LatestAmong
  <2>2. ASSUME NEW h \in Hosts, byMain'[h] # NoCert
        PROVE  \E p \in Behind(r) \cup {q} :
                  /\ For(p, h) /\ byMain'[h] = At(p)
                  /\ \A o \in Behind(r) \cup {q} : For(o, h) => ~Later(o, p)
    <3>1. CASE h = g
      BY <1>5, <1>8, <1>9, <3>1
    <3>2. CASE h # g
      <4>1. PICK p \in Behind(r) : /\ For(p, h) /\ byMain[h] = At(p)
                                   /\ \A o \in Behind(r) : For(o, h) => ~Later(o, p)
        BY <1>3, <1>9, <2>2, <3>2 DEF LatestAmong
      <4> QED BY <1>8, <1>9, <3>2, <4>1
    <3> QED BY <3>1, <3>2
  <2> QED BY <1>5, <1>10, <2>1, <2>2 DEF LatestAmong
<1>13. Walk'
  BY <1>1, <1>2, <1>3, <1>4, <1>11, <1>12 DEF Walk
<1> QED BY <1>1, <1>2, <1>13 DEF Reading

LEMMA DecodeFailsReading ==
  ASSUME TypeOK, Sources, Reading, DecodeFails
  PROVE  Reading'
<1>1. /\ pc = "walk" /\ entries # <<>> /\ Broken(Head(entries)) /\ pc' = "error" /\ file' = file
  BY DEF DecodeFails
<1>2. file # Other /\ Walk
  BY <1>1, WalkFile
<1>3. PICK r : WalkedTo(r)
  BY <1>2 DEF Walk
<1>4. \E q \in Places : At(q) = Head(entries)
  BY <1>1, <1>2, <1>3, NextPlace
<1>5. ~SoundAmong(Places)'
  BY <1>1, <1>4, SameFile DEF SoundAmong
<1> QED BY <1>1, <1>5 DEF Reading

LEMMA WalkEndsReading ==
  ASSUME TypeOK, Sources, Reading, WalkEnds
  PROVE  Reading'
<1>1. /\ pc = "walk" /\ entries = <<>> /\ names = <<>> /\ pc' = "gather"
      /\ left' = {h \in Hosts : byMain[h] # NoCert} /\ UNCHANGED <<file, names, entries, byMain, out>>
  BY DEF WalkEnds
<1>2. file # Other /\ Walk /\ out = <<>> /\ Len(out) = 0 /\ Len(entries) = 0
  BY <1>1, WalkFile, EmptySeq
<1>3. PICK r \in DOMAIN file \cup {BeforeFirst} :
        WalkedTo(r) /\ LatestAmong(Behind(r)) /\ SoundAmong(Behind(r))
  BY <1>2 DEF Walk
<1>4. Range(names) = {}
  <2>1. names \in Seq(Resolvers)
    BY DEF TypeOK
  <2>2. Range(names) = {names[i] : i \in 1..Len(names)}
    BY <2>1, RangeIs
  <2>3. Len(names) = 0
    BY <1>1, EmptySeq
  <2> QED BY <2>2, <2>3
<1>5. Behind(r) = Places
  <2>1. r \in Int
    BY <1>2, <1>3, PlaceType DEF BeforeFirst
  <2>2. ASSUME NEW p \in Places PROVE p \in Behind(r)
    <3>1. /\ p[1] \in DOMAIN file /\ p[1] \in Nat /\ p[2] \in 1..Len(file[p[1]])
          /\ Len(file[p[1]]) \in Nat
      BY <1>2, PlaceType
    <3>2. ~(r < p[1])
      BY <1>3, <1>4, <3>1 DEF WalkedTo
    <3> QED BY <1>2, <2>1, <3>1, <3>2 DEF Behind
  <2> QED BY <2>2 DEF Behind
<1>6. LatestAmong(Places)' /\ SoundAmong(Places)'
  <2>1. /\ byMain' = byMain /\ Places' = Places
        /\ \A p : At(p)' = At(p) /\ \A g : For(p, g)' <=> For(p, g)
    BY <1>1, SameFile
  <2> QED BY <1>3, <1>5, <2>1 DEF LatestAmong, SoundAmong
<1>7. Gathered'
  BY <1>1, <1>2 DEF Gathered
<1> QED BY <1>1, <1>2, <1>6, <1>7 DEF Reading

-----------------------------------------------------------------------------
(* From byMain to the sorted certificates.                                 *)

LEMMA OutType ==
  ASSUME TypeOK
  PROVE  /\ Len(out) \in Nat
         /\ \A i \in 1..Len(out) : out[i] \in Certs /\ out[i].main \in Hosts /\ out[i].main \in Nat
<1>1. \A c \in Certs : c.main \in Hosts /\ c.main \in Nat
  BY AcmeAssumption DEF Certs
<1> QED BY <1>1, ElementOfSeq, LenProperties DEF TypeOK

LEMMA SameMaterial ==
  ASSUME UNCHANGED <<file, byMain>>, LatestAmong(Places), SoundAmong(Places)
  PROVE  LatestAmong(Places)' /\ SoundAmong(Places)'
<1>1. Places' = Places /\ \A p : At(p)' = At(p) /\ \A g : For(p, g)' <=> For(p, g)
  BY SameFile
<1> QED BY <1>1 DEF LatestAmong, SoundAmong

LEMMA GatherReading ==
  ASSUME TypeOK, Sources, Reading, NEW h \in Hosts, Gather(h)
  PROVE  Reading'
<1>1. /\ pc = "gather" /\ h \in left /\ left' = left \ {h} /\ out' = Append(out, byMain[h])
      /\ UNCHANGED <<file, pc, names, entries, byMain>>
  BY DEF Gather
<1>2. file # Other /\ Gathered /\ LatestAmong(Places) /\ SoundAmong(Places)
  BY <1>1 DEF Reading
<1>3. byMain[h] # NoCert /\ byMain[h] \in Certs
  BY <1>1, <1>2 DEF Gathered, TypeOK
<1>4. byMain[h].main = h
  BY <1>2, <1>3 DEF LatestAmong, For
<1>5. /\ Len(out) \in Nat /\ Len(out') = Len(out) + 1 /\ out'[Len(out) + 1] = byMain[h]
      /\ \A i \in 1..Len(out) : out'[i] = out[i]
  BY <1>1, <1>3, AppendType, OutType DEF TypeOK
<1>6. \A i \in 1..Len(out') : i \in 1..Len(out) \/ i = Len(out) + 1
  BY <1>5
<1>7. \A i \in 1..Len(out) : out[i].main # h
  BY <1>1, <1>2 DEF Gathered
<1>8. \A i \in 1..Len(out') : byMain[out'[i].main] = out'[i] /\ out'[i].main \notin left'
  <2>1. \A i \in 1..Len(out) : byMain[out[i].main] = out[i] /\ out[i].main \notin left
    BY <1>2 DEF Gathered
  <2> QED BY <1>1, <1>4, <1>5, <1>6, <2>1
<1>9. \A i, j \in 1..Len(out') : i # j => out'[i].main # out'[j].main
  <2>1. ASSUME NEW i \in 1..Len(out'), NEW j \in 1..Len(out'), i # j PROVE out'[i].main # out'[j].main
    <3>1. CASE i \in 1..Len(out) /\ j \in 1..Len(out)
      BY <1>2, <1>5, <2>1, <3>1 DEF Gathered
    <3>2. CASE i \in 1..Len(out) /\ j = Len(out) + 1
      BY <1>4, <1>5, <1>7, <3>2
    <3>3. CASE i = Len(out) + 1 /\ j \in 1..Len(out)
      BY <1>4, <1>5, <1>7, <3>3
    <3> QED BY <1>6, <2>1, <3>1, <3>2, <3>3
  <2> QED BY <2>1
<1>10. \A g \in Hosts : byMain[g] # NoCert => g \in left' \/ \E i \in 1..Len(out') : out'[i].main = g
  <2>1. ASSUME NEW g \in Hosts, byMain[g] # NoCert, g \notin left'
        PROVE  \E i \in 1..Len(out') : out'[i].main = g
    <3>1. CASE g = h
      <4>1. Len(out) + 1 \in 1..Len(out')
        BY <1>5
      <4> QED BY <1>4, <1>5, <3>1, <4>1
    <3>2. CASE g # h
      <4>1. PICK i \in 1..Len(out) : out[i].main = g
        BY <1>1, <1>2, <2>1, <3>2 DEF Gathered
      <4>2. i \in 1..Len(out') /\ out'[i].main = g
        BY <1>5, <4>1
      <4> QED BY <4>2
    <3> QED BY <3>1, <3>2
  <2> QED BY <2>1
<1>11. Gathered'
  BY <1>1, <1>2, <1>8, <1>9, <1>10 DEF Gathered
<1> QED BY <1>1, <1>2, <1>11, SameMaterial DEF Reading

LEMMA SortOutReading ==
  ASSUME TypeOK, Sources, Reading, SortOut
  PROVE  Reading'
<1>1. /\ pc = "gather" /\ left = {} /\ pc' = "name" /\ out' \in Arrangements(out)
      /\ \A i, j \in 1..Len(out') : i < j => out'[i].main <= out'[j].main
      /\ UNCHANGED <<file, left, names, entries, byMain>>
  BY DEF SortOut, parsing
<1>2. file # Other /\ Gathered /\ LatestAmong(Places) /\ SoundAmong(Places)
  BY <1>1 DEF Reading
<1>3. out \in Seq(Certs) /\ Len(out') = Len(out) /\ Len(out) \in Nat
  BY <1>1, ArrangementType, OutType DEF TypeOK
<1>4. PICK p : Permutes(p, out, out')
  BY <1>1, <1>3, ArrangementPermutes
<1>5. \A i \in 1..Len(out) : p[i] \in 1..Len(out) /\ out'[i] = out[p[i]]
  BY <1>4 DEF Permutes
<1>6. \A i \in 1..Len(out) : byMain[out'[i].main] = out'[i] /\ out'[i].main \in Nat
  BY <1>2, <1>5, OutType DEF Gathered
<1>7. \A i, j \in 1..Len(out) : i # j => out'[i].main # out'[j].main
  <2>1. ASSUME NEW i \in 1..Len(out), NEW j \in 1..Len(out), i # j PROVE out'[i].main # out'[j].main
    <3>1. p[i] # p[j]
      BY <1>4, <2>1 DEF Permutes
    <3> QED BY <1>2, <1>5, <3>1 DEF Gathered
  <2> QED BY <2>1
<1>8. \A g \in Hosts : byMain[g] # NoCert => \E i \in 1..Len(out) : out'[i].main = g
  <2>1. ASSUME NEW g \in Hosts, byMain[g] # NoCert PROVE \E i \in 1..Len(out) : out'[i].main = g
    <3>1. PICK k \in 1..Len(out) : out[k].main = g
      BY <1>1, <1>2, <2>1 DEF Gathered
    <3>2. PICK i \in 1..Len(out) : p[i] = k
      BY <1>4 DEF Permutes
    <3> QED BY <1>5, <3>1, <3>2
  <2> QED BY <2>1
<1>9. Gathered'
  BY <1>1, <1>3, <1>6, <1>7, <1>8 DEF Gathered
<1>10. \A i, j \in 1..Len(out') : i < j => out'[i].main < out'[j].main
  <2>1. ASSUME NEW i \in 1..Len(out), NEW j \in 1..Len(out), i < j PROVE out'[i].main < out'[j].main
    <3>1. out'[i].main <= out'[j].main
      BY <1>1, <1>3, <2>1
    <3>2. i # j
      BY <2>1
    <3>3. out'[i].main # out'[j].main /\ out'[i].main \in Nat /\ out'[j].main \in Nat
      BY <1>6, <1>7, <3>2
    <3> QED BY <3>1, <3>3
  <2> QED BY <1>3, <2>1
<1> QED BY <1>1, <1>2, <1>9, <1>10, SameMaterial DEF Reading

LEMMA NextReading ==
  ASSUME TypeOK, Sources, Reading, [Next]_vars
  PROVE  Reading'
<1>1. CASE Unmarshal
  BY <1>1, UnmarshalReading
<1>2. CASE \E r \in Resolvers : CollectName(r)
  BY <1>2, CollectReading
<1>3. CASE SortNames
  BY <1>3, SortReading
<1>4. CASE NextResolver
  BY <1>4, NextResolverReading
<1>5. CASE Skip
  BY <1>5, SkipReading
<1>6. CASE DecodeFails
  BY <1>6, DecodeFailsReading
<1>7. CASE Take
  BY <1>7, TakeReading
<1>8. CASE WalkEnds
  BY <1>8, WalkEndsReading
<1>9. CASE \E h \in Hosts : Gather(h)
  BY <1>9, GatherReading
<1>10. CASE SortOut
  BY <1>10, SortOutReading
<1>11. CASE Name \/ Named
  <2>1. /\ pc = "name" /\ pc' \in {"name", "done"}
        /\ UNCHANGED <<file, left, names, entries, byMain, out>>
    BY <1>11 DEF Name, Named, parsing
  <2>2. Gathered'
    BY <2>1 DEF Reading, Gathered
  <2> QED BY <2>1, <2>2, SameMaterial DEF Reading
<1>12. CASE UNCHANGED vars
  <2>1. UNCHANGED <<file, pc, left, names, entries, byMain, out>>
    BY <1>12 DEF vars, parsing
  <2>2. /\ Places' = Places /\ \A p : At(p)' = At(p) /\ \A g : For(p, g)' <=> For(p, g)
        /\ \A r : Behind(r)' = Behind(r)
    BY <2>1, SameFile DEF Behind
  <2>3. Walk => Walk'
    BY <2>1, <2>2 DEF Walk, WalkedTo, LatestAmong, SoundAmong
  <2>4. (Collected => Collected') /\ (Gathered => Gathered')
    BY <2>1 DEF Collected, Gathered
  <2>5. LatestAmong(Places)' = LatestAmong(Places) /\ SoundAmong(Places)' = SoundAmong(Places)
    BY <2>1, <2>2 DEF LatestAmong, SoundAmong
  <2> QED BY <2>1, <2>3, <2>4, <2>5 DEF Reading
<1> QED BY <1>1, <1>2, <1>3, <1>4, <1>5, <1>6, <1>7, <1>8, <1>9, <1>10, <1>11, <1>12 DEF Next

LEMMA ReadingHolds == Spec => [](TypeOK /\ Reading)
<1>1. Init => TypeOK /\ Sources /\ Reading
  BY InitTypes, InitReading
<1>2. TypeOK /\ Sources /\ Reading /\ [Next]_vars => (TypeOK /\ Sources /\ Reading)'
  BY NextTypes, NextReading
<1> QED BY <1>1, <1>2, PTL DEF Spec

(* ParseAcme refuses a file exactly when it is of another form or carries  *)
(* something that cannot be decoded: it never delivers a part of one.      *)
THEOREM Refused == Spec => []RefusedAsAWhole
<1>1. Reading => RefusedAsAWhole
  BY DEF Reading, SoundAmong, RefusedAsAWhole
<1> QED BY <1>1, ReadingHolds, PTL

(* Whatever the order in which Go ranges over its maps, the certificates   *)
(* of a file are the latest of each host that has one, in the order of the *)
(* hosts.                                                                  *)
THEOREM Latest == Spec => []LatestOfEachHost
<1>1. ASSUME TypeOK, Reading, pc = "done"
      PROVE  /\ \A p \in Places : ~Placeholder(At(p)) => \E i \in 1..Len(out) : out[i].main = At(p).main
             /\ \A i, j \in 1..Len(out) : i < j => out[i].main < out[j].main
             /\ \A i \in 1..Len(out) : \E p \in Places :
                  /\ out[i] = At(p)
                  /\ \A q \in Places : ~Placeholder(At(q)) /\ At(q).main = At(p).main => ~Later(q, p)
  <2>1. /\ file # Other /\ Gathered /\ LatestAmong(Places) /\ left = {}
        /\ \A i, j \in 1..Len(out) : i < j => out[i].main < out[j].main
    BY <1>1 DEF Reading
  <2>2. ASSUME NEW p \in Places, ~Placeholder(At(p))
        PROVE  \E i \in 1..Len(out) : out[i].main = At(p).main
    <3>1. At(p).main \in Hosts
      BY <1>1, <2>1, <2>2, PlaceType DEF Placeholder, Entries
    <3>2. byMain[At(p).main] # NoCert
      BY <2>1, <2>2, <3>1 DEF LatestAmong, For
    <3> QED BY <2>1, <3>1, <3>2 DEF Gathered
  <2>3. ASSUME NEW i \in 1..Len(out)
        PROVE  \E p \in Places :
                 /\ out[i] = At(p)
                 /\ \A q \in Places : ~Placeholder(At(q)) /\ At(q).main = At(p).main => ~Later(q, p)
    <3>1. out[i].main \in Hosts /\ byMain[out[i].main] = out[i] /\ out[i] # NoCert
      BY <1>1, <2>1, OutType, AcmeAssumption DEF Gathered
    <3>2. PICK p \in Places : /\ For(p, out[i].main) /\ byMain[out[i].main] = At(p)
                              /\ \A q \in Places : For(q, out[i].main) => ~Later(q, p)
      BY <2>1, <3>1 DEF LatestAmong
    <3> QED BY <3>1, <3>2 DEF For
  <2> QED BY <2>1, <2>2, <2>3
<1>2. TypeOK /\ Reading => LatestOfEachHost
  BY <1>1 DEF LatestOfEachHost
<1> QED BY <1>2, ReadingHolds, PTL
=============================================================================
