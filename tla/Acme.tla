-------------------------------- MODULE Acme --------------------------------
(***************************************************************************)
(* From acme.json to the certificates and the file names Render works on:  *)
(* ParseAcme, and the loop of Render that gives every certificate its file *)
(* stem (internal/certific/render.go).                                     *)
(*                                                                         *)
(* A file is what json.Unmarshal makes of it: the entries of each of some  *)
(* resolvers, or Other when it is JSON of another form; null is a file     *)
(* without resolvers.  Resolvers and hosts are numbers in the order sort   *)
(* puts their names in.  Go ranges over a map in any order.  What nothing  *)
(* reads is left out: SANs and Names.                                      *)
(***************************************************************************)
EXTENDS Integers, Sequences, FiniteSets

CONSTANTS Resolvers, Hosts,   \* numbers
          Material,           \* decoded certificates and keys
          NotGiven, Bad,      \* in the place of material: no text, no base64
          Other,
          AcmeFiles,          \* the files to parse
          Atoms, Slug,        \* slugify of each host: atoms of text and numbers
          NoCert

NoHost == 0                   \* an entry whose main is blank

Entries == [main : Hosts \cup {NoHost}, cert : Material \cup {NotGiven, Bad},
            key : Material \cup {NotGiven, Bad}]
Certs == [main : Hosts, cert : Material, key : Material]
Texts == Seq(Atoms \cup Nat)
Slugs == {Slug[h] : h \in Hosts}

ASSUME AcmeAssumption ==
  /\ Resolvers \subseteq Nat /\ Hosts \subseteq Nat \ {NoHost}
  /\ {NotGiven, Bad} \cap Material = {}
  /\ NoCert \notin Certs
  /\ Slug \in [Hosts -> Texts]
  /\ \A f \in AcmeFiles \ {Other} : /\ DOMAIN f \subseteq Resolvers
                                    /\ \A r \in DOMAIN f : f[r] \in Seq(Entries)

VARIABLES file,     \* the argument
          pc,       \* where ParseAcme stands, then Render
          left,     \* keys that a range over a map has not come to
          names,    \* resolverNames, then those still to walk
          entries,  \* entries of the present resolver still to walk
          byMain,   \* host -> its certificate
          out,      \* the certificates
          used,     \* usedSlugs, 0 for a slug that is not in it
          stems     \* file stems of out[1], out[2], ...

parsing == <<left, names, entries, byMain>>
naming  == <<used, stems>>
vars    == <<file, pc, parsing, out, naming>>

TypeOK ==
  /\ file \in AcmeFiles
  /\ pc \in {"unmarshal", "collect", "walk", "gather", "name", "done", "error"}
  /\ left \subseteq Resolvers \cup Hosts
  /\ names \in Seq(Resolvers) /\ entries \in Seq(Entries)
  /\ byMain \in [Hosts -> Certs \cup {NoCert}]
  /\ out \in Seq(Certs)
  /\ used \in [Slugs -> Nat]
  /\ stems \in Seq(Texts)

Init ==
  /\ file \in AcmeFiles
  /\ pc = "unmarshal" /\ left = {} /\ names = <<>> /\ entries = <<>>
  /\ byMain = [h \in Hosts |-> NoCert]
  /\ out = <<>> /\ used = [s \in Slugs |-> 0] /\ stems = <<>>

-----------------------------------------------------------------------------
(* ParseAcme.                                                              *)

Unmarshal ==
  /\ pc = "unmarshal"
  /\ IF file = Other THEN pc' = "error" /\ UNCHANGED left
                     ELSE pc' = "collect" /\ left' = DOMAIN file
  /\ UNCHANGED <<file, names, entries, byMain, out, naming>>

CollectName(r) ==
  /\ pc = "collect" /\ r \in left
  /\ left' = left \ {r} /\ names' = Append(names, r)
  /\ UNCHANGED <<file, pc, entries, byMain, out, naming>>

(* The sequences with the elements of s, each as often as in s.            *)
Arrangements(s) ==
  {[i \in 1..Len(s) |-> s[p[i]]] :
     p \in {q \in [1..Len(s) -> 1..Len(s)] : \A i, j \in 1..Len(s) : i # j => q[i] # q[j]}}

NamesAsTheyCome ==   \* mutant: resolverNames is not sorted
  /\ pc = "collect" /\ left = {}
  /\ pc' = "walk"
  /\ UNCHANGED <<file, parsing, out, naming>>

SortNames ==
  /\ pc = "collect" /\ left = {}
  /\ names' \in {t \in Arrangements(names) : \A i, j \in 1..Len(t) : i < j => t[i] <= t[j]}
  /\ pc' = "walk"
  /\ UNCHANGED <<file, left, entries, byMain, out, naming>>

NextResolver ==
  /\ pc = "walk" /\ entries = <<>> /\ names # <<>>
  /\ entries' = file[Head(names)] /\ names' = Tail(names)
  /\ UNCHANGED <<file, pc, left, byMain, out, naming>>

Placeholder(e) == e.main = NoHost \/ NotGiven \in {e.cert, e.key}

Skip ==
  /\ pc = "walk" /\ entries # <<>> /\ Placeholder(Head(entries))
  /\ entries' = Tail(entries)
  /\ UNCHANGED <<file, pc, left, names, byMain, out, naming>>

Broken(e) == ~Placeholder(e) /\ Bad \in {e.cert, e.key}

DecodeFailsLater ==   \* mutant: what cannot be decoded is left to others
  /\ pc = "walk" /\ entries # <<>> /\ Broken(Head(entries))
  /\ entries' = Tail(entries)
  /\ UNCHANGED <<file, pc, left, names, byMain, out, naming>>

DecodeFails ==
  /\ pc = "walk" /\ entries # <<>> /\ Broken(Head(entries))
  /\ pc' = "error"
  /\ UNCHANGED <<file, parsing, out, naming>>

TakeUndecoded ==   \* mutant: the key is not decoded
  /\ pc = "walk" /\ entries # <<>> /\ ~Placeholder(Head(entries)) /\ Head(entries).cert # Bad
  /\ byMain' = [byMain EXCEPT ![Head(entries).main] = Head(entries)]
  /\ entries' = Tail(entries)
  /\ UNCHANGED <<file, pc, left, names, out, naming>>

(* The later entry for a host wins.                                        *)
Take ==
  /\ pc = "walk" /\ entries # <<>>
  /\ ~Placeholder(Head(entries)) /\ ~Broken(Head(entries))
  /\ byMain' = [byMain EXCEPT ![Head(entries).main] = Head(entries)]
  /\ entries' = Tail(entries)
  /\ UNCHANGED <<file, pc, left, names, out, naming>>

WalkEnds ==
  /\ pc = "walk" /\ entries = <<>> /\ names = <<>>
  /\ pc' = "gather" /\ left' = {h \in Hosts : byMain[h] # NoCert}
  /\ UNCHANGED <<file, names, entries, byMain, out, naming>>

Gather(h) ==
  /\ pc = "gather" /\ h \in left
  /\ left' = left \ {h} /\ out' = Append(out, byMain[h])
  /\ UNCHANGED <<file, pc, names, entries, byMain, naming>>

SortOut ==
  /\ pc = "gather" /\ left = {}
  /\ out' \in {t \in Arrangements(out) : \A i, j \in 1..Len(t) : i < j => t[i].main <= t[j].main}
  /\ pc' = "name"
  /\ UNCHANGED <<file, parsing, naming>>

-----------------------------------------------------------------------------
(* Render: file names.                                                     *)

NextCert == out[Len(stems) + 1]

NameAlwaysTwo ==   \* mutant: every namesake gets the same suffix
  /\ pc = "name" /\ Len(stems) < Len(out)
  /\ LET slug == Slug[NextCert.main]
     IN  /\ used' = [used EXCEPT ![slug] = 1]
         /\ stems' = Append(stems, IF used[slug] = 0 THEN slug ELSE Append(slug, used[slug] + 1))
  /\ UNCHANGED <<file, pc, parsing, out>>

(* The first certificate of a slug is named by it, the n-th slug-n.        *)
Name ==
  /\ pc = "name" /\ Len(stems) < Len(out)
  /\ LET slug == Slug[NextCert.main]
     IN  /\ used' = [used EXCEPT ![slug] = @ + 1]
         /\ stems' = Append(stems, IF used[slug] = 0 THEN slug ELSE Append(slug, used[slug] + 1))
  /\ UNCHANGED <<file, pc, parsing, out>>

Named ==
  /\ pc = "name" /\ Len(stems) = Len(out)
  /\ pc' = "done"
  /\ UNCHANGED <<file, parsing, out, naming>>

-----------------------------------------------------------------------------
Next ==
  \/ Unmarshal \/ SortNames
  \/ \E r \in Resolvers : CollectName(r)
  \/ NextResolver \/ Skip \/ DecodeFails \/ Take \/ WalkEnds
  \/ \E h \in Hosts : Gather(h)
  \/ SortOut \/ Name \/ Named

Spec == Init /\ [][Next]_vars

-----------------------------------------------------------------------------
(* Properties.                                                             *)

(* The entries of the file at their places, and which place is the later.  *)
Places == UNION {{r} \X (1..Len(file[r])) : r \in DOMAIN file}
At(p) == file[p[1]][p[2]]
Later(p, q) == p[1] > q[1] \/ (p[1] = q[1] /\ p[2] > q[2])

(* ParseAcme refuses a file as a whole: exactly when it is of another form *)
(* or one of the certificates or keys it carries cannot be decoded.        *)
RefusedAsAWhole ==
  /\ pc = "error" => file = Other \/ \E p \in Places : Broken(At(p))
  /\ pc = "done" => file # Other /\ \A p \in Places : ~Broken(At(p))

(* The certificates depend on the file alone, not on the order in which Go *)
(* ranges over its maps: one for each host that has a complete entry, its  *)
(* latest, in the order of the hosts.  Otherwise polls of the same file    *)
(* would rewrite live/ and reload Traefik.                                 *)
LatestOfEachHost ==
  pc = "done" =>
    /\ \A p \in Places : ~Placeholder(At(p)) => \E i \in 1..Len(out) : out[i].main = At(p).main
    /\ \A i, j \in 1..Len(out) : i < j => out[i].main < out[j].main
    /\ \A i \in 1..Len(out) : \E p \in Places :
         /\ out[i] = At(p)
         /\ \A q \in Places : ~Placeholder(At(q)) /\ At(q).main = At(p).main => ~Later(q, p)

Namesakes(h) == {i \in 1..Len(out) : Slug[out[i].main] = Slug[h]}

(* A host's own slug is what a namesake of another gets for a suffix.      *)
Clash ==
  \E i, j \in 1..Len(out) : \E n \in 2..Cardinality(Namesakes(out[j].main)) :
    Slug[out[i].main] = Append(Slug[out[j].main], n)

(* No certificate is written over another one's files, unless the slug of  *)
(* some host is what the suffix makes of the slug of two others: the loop  *)
(* does not look whether slug-n is taken, nor record it.                   *)
DistinctStems ==
  pc = "done" =>
    ((\A i, j \in 1..Len(out) : i # j => stems[i] # stems[j]) <=> ~Clash)
=============================================================================
