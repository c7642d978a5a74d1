----------------------------- MODULE VFSProofs -----------------------------
(***************************************************************************)
(* Proofs about VFS, for any number of inodes, names and handles, any      *)
(* depth and any geometry of directories.                                  *)
(***************************************************************************)
EXTENDS VFS, FiniteSetTheorems, SequenceTheorems, WellFoundedInduction, TLAPS

-----------------------------------------------------------------------------
(***************************************************************************)
(* Numbers.                                                                *)
(***************************************************************************)
(* A set of naturals has a least element. *)
LEMMA Least ==
    ASSUME NEW S, S \subseteq Nat, S # {}
    PROVE  \E m \in S : \A k \in S : m <= k
<1>1. PICK m \in S : \A k \in S : <<k, m>> \notin OpToRel(<, Nat)
  BY WFMin, NatLessThanWellFounded, Zenon
<1>2. \A k \in S : ~(k < m)
  BY <1>1 DEF OpToRel
<1> QED
  BY <1>2

(* Min of a set of naturals, and Max of a bounded one. *)
LEMMA MinFact ==
    ASSUME NEW S, S \subseteq Nat, S # {}
    PROVE  Min(S) \in S /\ \A k \in S : Min(S) <= k
<1>1. \E x \in S : \A y \in S : x =< y
  BY Least
<1> QED
  BY <1>1 DEF Min

LEMMA MaxFact ==
    ASSUME NEW n \in Nat, NEW S, S \subseteq 0 .. n, S # {}
    PROVE  Max(S) \in S /\ \A k \in S : Max(S) >= k
<1> DEFINE T == {n - k : k \in S}
<1>0. \A k \in S : n - k \in Nat
  OBVIOUS
<1>1. T \subseteq Nat /\ T # {}
  BY <1>0
<1>2. PICK t \in T : \A u \in T : t <= u
  BY <1>1, Least
<1>3. PICK x \in S : t = n - x
  OBVIOUS
<1>4. \A y \in S : x >= y
  <2> TAKE y \in S
  <2>1. n - y \in T
    OBVIOUS
  <2>2. n - x <= n - y
    BY <1>2, <1>3, <2>1
  <2>3. x \in 0 .. n /\ y \in 0 .. n
    OBVIOUS
  <2> QED
    BY <2>2, <2>3
<1> QED
  BY <1>3, <1>4 DEF Max

-----------------------------------------------------------------------------
(***************************************************************************)
(* The entries of a directory.                                             *)
(***************************************************************************)
EntryNames == Names \cup {Dot, DotDot}

Distinct(ents) == \A k, l \in DOMAIN ents : ents[k].name = ents[l].name => k = l

(* The inode the entries have for a name. *)
Gives(ents, n) == IF At(ents, n) # 0 THEN ents[At(ents, n)].inode ELSE None

Lists(ents) == ents \in Seq(EntryType) /\ Distinct(ents)

LEMMA InodesFacts == Inodes \subseteq Nat /\ None \notin Inodes /\ Bad \notin Inodes /\ Root \in Inodes
  BY NameSpaceAssumption DEF Inodes, None, Bad, Root

(* At() finds the name if it is there. *)
LEMMA AtFact ==
    ASSUME NEW ents \in Seq(EntryType), NEW n
    PROVE  \/ At(ents, n) = 0 /\ \A k \in DOMAIN ents : ents[k].name # n
           \/ At(ents, n) # 0 /\ At(ents, n) \in DOMAIN ents /\ ents[At(ents, n)].name = n
<1> DEFINE P == {j \in DOMAIN ents : ents[j].name = n}
<1>1. DOMAIN ents \subseteq Nat /\ 0 \notin DOMAIN ents
  BY LenProperties
<1>2. P \subseteq Nat
  BY <1>1
<1>3. CASE P = {}
  BY <1>3 DEF At
<1>4. CASE P # {}
  <2>1. Min(P) \in P
    BY <1>2, <1>4, MinFact
  <2>2. At(ents, n) = Min(P)
    BY <1>4 DEF At
  <2> QED
    BY <1>1, <2>1, <2>2
<1> QED
  BY <1>3, <1>4

(* Gives() in terms of the entries, whatever their order. *)
LEMMA GivesFact ==
    ASSUME NEW ents, Lists(ents), NEW n
    PROVE  /\ \A k \in DOMAIN ents : ents[k].name = n => Gives(ents, n) = ents[k].inode
           /\ (\A k \in DOMAIN ents : ents[k].name # n) => Gives(ents, n) = None
           /\ Gives(ents, n) # None => \E k \in DOMAIN ents : ents[k] = Entry(n, Gives(ents, n))
           /\ Gives(ents, n) \in Inodes \cup {None}
           /\ Gives(ents, n) # None <=> At(ents, n) # 0
<1>1. \A k \in DOMAIN ents : ents[k] \in EntryType
  BY ElementOfSeq, LenProperties DEF Lists
<1>2. \A k \in DOMAIN ents : ents[k].inode \in Inodes /\ ents[k] = Entry(ents[k].name, ents[k].inode)
  BY <1>1 DEF EntryType, Entry
<1> QED
  BY <1>2, AtFact, InodesFacts DEF Gives, Lists, Distinct

(* Two lists that have the same entries give the same inodes. *)
LEMMA SameEntries ==
    ASSUME NEW e, NEW f, Lists(e), Lists(f), NEW n,
           \A k \in DOMAIN e : e[k].name = n => \E l \in DOMAIN f : f[l] = e[k],
           \A l \in DOMAIN f : f[l].name = n => \E k \in DOMAIN e : e[k] = f[l]
    PROVE  Gives(e, n) = Gives(f, n)
<1>1. CASE \E k \in DOMAIN e : e[k].name = n
  <2>1. PICK k \in DOMAIN e : e[k].name = n
    BY <1>1
  <2>2. PICK l \in DOMAIN f : f[l] = e[k]
    BY <2>1
  <2> QED
    BY <2>1, <2>2, GivesFact
<1>2. CASE \A k \in DOMAIN e : e[k].name # n
  <2>1. \A l \in DOMAIN f : f[l].name # n
    BY <1>2
  <2> QED
    BY <1>2, <2>1, GivesFact
<1> QED
  BY <1>1, <1>2

(* f is e with v for the name n. *)
Changed(e, f, n, v) ==
    Lists(f) /\ Gives(f, n) = v /\ \A m \in EntryNames \ {n} : Gives(f, m) = Gives(e, m)

LEMMA EntryTyped ==
    ASSUME NEW n \in EntryNames, NEW i \in Inodes
    PROVE  Entry(n, i) \in EntryType /\ Entry(n, i).name = n /\ Entry(n, i).inode = i
  BY DEF Entry, EntryType, EntryNames

LEMMA AppendEnts ==
    ASSUME NEW e, Lists(e), NEW n \in EntryNames, At(e, n) = 0, NEW i \in Inodes
    PROVE  Changed(e, Append(e, Entry(n, i)), n, i)
<1> DEFINE f == Append(e, Entry(n, i))
<1>1. e \in Seq(EntryType) /\ Len(e) \in Nat /\ DOMAIN e = 1 .. Len(e)
  BY LenProperties DEF Lists
<1>2. /\ f \in Seq(EntryType) /\ Len(f) = Len(e) + 1 /\ DOMAIN f = 1 .. Len(e) + 1
      /\ \A k \in 1 .. Len(e) : f[k] = e[k]
      /\ f[Len(e) + 1] = Entry(n, i)
  BY <1>1, EntryTyped, AppendProperties, LenProperties
<1> HIDE DEF f
<1>3. \A k \in DOMAIN e : e[k].name # n
  BY <1>1, AtFact
<1>4. \A k \in DOMAIN f : (k \in DOMAIN e /\ f[k] = e[k]) \/ (k = Len(e) + 1 /\ f[k] = Entry(n, i))
  BY <1>1, <1>2
<1>5. Distinct(f)
  BY <1>3, <1>4, EntryTyped DEF Distinct, Lists
<1>6. Lists(f)
  BY <1>2, <1>5 DEF Lists
<1>7. Gives(f, n) = i
  <2>1. Len(e) + 1 \in DOMAIN f
    BY <1>1, <1>2
  <2> QED
    BY <2>1, <1>2, <1>6, EntryTyped, GivesFact
<1>8. ASSUME NEW m \in EntryNames \ {n} PROVE Gives(f, m) = Gives(e, m)
  <2>1. \A k \in DOMAIN e : k \in DOMAIN f /\ f[k] = e[k]
    BY <1>1, <1>2
  <2>2. \A k \in DOMAIN f : f[k].name = m => k \in DOMAIN e /\ f[k] = e[k]
    BY <1>4, EntryTyped
  <2> QED
    BY <1>6, <2>1, <2>2, SameEntries
<1> QED
  BY <1>6, <1>7, <1>8 DEF Changed, f

LEMMA ReplaceEnts ==
    ASSUME NEW e, Lists(e), NEW n \in EntryNames, At(e, n) # 0, NEW i \in Inodes
    PROVE  /\ Changed(e, [e EXCEPT ![At(e, n)] = Entry(n, i)], n, i)
           /\ Len([e EXCEPT ![At(e, n)] = Entry(n, i)]) = Len(e)
<1> DEFINE j == At(e, n)
           f == [e EXCEPT ![j] = Entry(n, i)]
<1>1. e \in Seq(EntryType) /\ Len(e) \in Nat /\ DOMAIN e = 1 .. Len(e)
  BY LenProperties DEF Lists
<1>2. j \in DOMAIN e /\ e[j].name = n
  BY <1>1, AtFact
<1>3. /\ f \in Seq(EntryType) /\ DOMAIN f = DOMAIN e /\ Len(f) = Len(e)
      /\ \A k \in DOMAIN e : f[k] = IF k = j THEN Entry(n, i) ELSE e[k]
  BY <1>1, <1>2, EntryTyped, ExceptSeq
<1> HIDE DEF f, j
<1>4. Distinct(f)
  BY <1>2, <1>3, EntryTyped DEF Distinct, Lists
<1>5. Lists(f)
  BY <1>3, <1>4 DEF Lists
<1>6. Gives(f, n) = i
  BY <1>2, <1>3, <1>5, EntryTyped, GivesFact
<1>7. ASSUME NEW m \in EntryNames \ {n} PROVE Gives(f, m) = Gives(e, m)
  <2>1. \A k \in DOMAIN e : e[k].name = m => k \in DOMAIN f /\ f[k] = e[k]
    BY <1>2, <1>3
  <2>2. \A k \in DOMAIN f : f[k].name = m => k \in DOMAIN e /\ f[k] = e[k]
    BY <1>2, <1>3, EntryTyped
  <2> QED
    BY <1>5, <2>1, <2>2, SameEntries
<1> QED
  BY <1>3, <1>5, <1>6, <1>7 DEF Changed, f, j

LEMMA WithoutEnts ==
    ASSUME NEW e, Lists(e), NEW n \in EntryNames, At(e, n) # 0
    PROVE  Changed(e, Without(e, At(e, n)), n, None) /\ Len(Without(e, At(e, n))) = Len(e) - 1
<1> DEFINE j == At(e, n)
           g == [e EXCEPT ![j] = Last(e)]
           f == Without(e, j)
<1>1. e \in Seq(EntryType) /\ Len(e) \in Nat /\ DOMAIN e = 1 .. Len(e)
  BY LenProperties DEF Lists
<1>2. j \in DOMAIN e /\ e[j].name = n /\ j \in Nat
  BY <1>1, AtFact
<1>3. Len(e) \in DOMAIN e /\ Last(e) = e[Len(e)] /\ Last(e) \in EntryType
  BY <1>1, <1>2, ElementOfSeq DEF Last
<1>4. /\ g \in Seq(EntryType) /\ Len(g) = Len(e)
      /\ \A k \in DOMAIN e : g[k] = IF k = j THEN e[Len(e)] ELSE e[k]
  BY <1>1, <1>2, <1>3, ExceptSeq
<1>5. /\ f \in Seq(EntryType) /\ DOMAIN f = 1 .. Len(e) - 1 /\ Len(f) = Len(e) - 1
      /\ \A k \in 1 .. Len(e) - 1 : f[k] = g[k]
  <2>1. f = SubSeq(g, 1, Len(e) - 1)
    BY <1>4 DEF Without, Front
  <2>2. \A k \in 1 .. Len(e) - 1 : g[k] \in EntryType
    BY <1>1, <1>4, ElementOfSeq
  <2>3. Len(e) - 1 \in Int /\ 1 <= Len(e)
    BY <1>1, <1>3
  <2>4. /\ f \in Seq(EntryType)
        /\ Len(f) = IF 1 <= Len(e) - 1 THEN (Len(e) - 1) - 1 + 1 ELSE 0
        /\ \A k \in 1 .. (Len(e) - 1) - 1 + 1 : f[k] = g[1 + k - 1]
    BY <2>1, <2>2, <2>3, SubSeqProperties
  <2>5. Len(f) = Len(e) - 1
    <3> HIDE DEF f, g, j
    <3>1. PICK n0 \in Nat : n0 = Len(e)
      BY <1>1
    <3>2. n0 >= 1 /\ Len(f) = IF 1 <= n0 - 1 THEN (n0 - 1) - 1 + 1 ELSE 0
      BY <2>3, <2>4, <3>1
    <3>3. Len(f) = n0 - 1
      BY <3>1, <3>2
    <3> QED
      BY <3>1, <3>3
  <2> QED
    BY <2>3, <2>4, <2>5, LenProperties
<1> HIDE DEF f, g, j
<1>6. \A k \in DOMAIN f : k \in DOMAIN e /\ k # Len(e) /\ f[k] = IF k = j THEN e[Len(e)] ELSE e[k]
  BY <1>1, <1>4, <1>5
<1>7. Distinct(f)
  BY <1>3, <1>6 DEF Distinct, Lists
<1>8. Lists(f)
  BY <1>5, <1>7 DEF Lists
<1>9. \A k \in DOMAIN f : f[k].name # n
  BY <1>2, <1>3, <1>6 DEF Distinct, Lists
<1>10. Gives(f, n) = None
  BY <1>8, <1>9, GivesFact
<1>11. ASSUME NEW m \in EntryNames \ {n} PROVE Gives(f, m) = Gives(e, m)
  <2>1. \A k \in DOMAIN f : \E l \in DOMAIN e : f[k] = e[l]
    BY <1>3, <1>6
  <2>2. ASSUME NEW k \in DOMAIN e, e[k].name = m PROVE \E l \in DOMAIN f : f[l] = e[k]
    <3>1. k # j
      BY <1>2, <2>2
    <3>2. CASE k # Len(e)
      <4>1. k \in DOMAIN f
        BY <1>1, <1>5, <3>2
      <4> QED
        BY <1>6, <3>1, <4>1
    <3>3. CASE k = Len(e)
      <4>1. j \in DOMAIN f
        BY <1>1, <1>2, <1>5, <3>1, <3>3
      <4> QED
        BY <1>6, <3>3, <4>1
    <3> QED
      BY <3>2, <3>3
  <2> QED
    BY <1>8, <2>1, <2>2, SameEntries
<1> QED
  BY <1>5, <1>8, <1>10, <1>11 DEF Changed, f, j

-----------------------------------------------------------------------------
(***************************************************************************)
(* The inode table.                                                        *)
(***************************************************************************)
Shaped(nd) ==
    /\ nd \in [Inodes -> NodeType]
    /\ \A i \in Inodes : Distinct(nd[i].ents) /\ (nd[i].type = "file" => nd[i].ents = <<>>)

LEMMA NodeTyped ==
    ASSUME NEW type \in {"file", "dir"}, NEW lnk \in Nat, NEW ents \in Seq(EntryType)
    PROVE  /\ Node(type, lnk, ents) \in NodeType
           /\ Node(type, lnk, ents).type = type
           /\ Node(type, lnk, ents).link = lnk
           /\ Node(type, lnk, ents).ents = ents
  BY DEF Node, NodeType

LEMMA ShapedFacts ==
    ASSUME NEW nd, Shaped(nd), NEW i \in Inodes
    PROVE  /\ nd[i].type \in {"file", "dir"} /\ nd[i].link \in Nat
           /\ nd[i].ents \in Seq(EntryType) /\ Lists(nd[i].ents)
           /\ nd[i].type = "file" => nd[i].ents = <<>>
<1>1. nd[i] \in NodeType
  BY DEF Shaped
<1> QED
  BY <1>1 DEF Shaped, NodeType, Lists

(* find() is a search in the entries: a file has none. *)
LEMMA FindFact ==
    ASSUME NEW nd, Shaped(nd), NEW d \in Inodes, NEW n
    PROVE  /\ find(nd, d, n) = Gives(nd[d].ents, n)
           /\ find(nd, d, n) \in Inodes \cup {None}
           /\ find(nd, d, n) # None => nd[d].type = "dir" /\ At(nd[d].ents, n) # 0
                                       /\ nd[d].ents[At(nd[d].ents, n)].inode = find(nd, d, n)
           /\ find(nd, d, n) = None => (At(nd[d].ents, n) = 0 \/ nd[d].type # "dir")
<1>1. /\ nd[d].type \in {"file", "dir"} /\ Lists(nd[d].ents)
      /\ nd[d].type = "file" => nd[d].ents = <<>>
  BY ShapedFacts
<1>2. nd[d].type = "file" => At(nd[d].ents, n) = 0
  BY <1>1, AtFact DEF Lists
<1>3. find(nd, d, n) = Gives(nd[d].ents, n)
  BY <1>1, <1>2 DEF find, Gives
<1>4. Gives(nd[d].ents, n) \in Inodes \cup {None} /\ (Gives(nd[d].ents, n) # None <=> At(nd[d].ents, n) # 0)
  BY <1>1, GivesFact
<1> QED
  BY <1>1, <1>2, <1>3, <1>4 DEF Gives

(* What an operation on the table changes: one entry, no type, counts. *)
OneEdge(nd, nd2, d, n, v) ==
    \A e \in Inodes : \A m \in Names : find(nd2, e, m) = IF e = d /\ m = n THEN v ELSE find(nd, e, m)
SameEdges(nd, nd2) == \A e \in Inodes : \A m \in Names : find(nd2, e, m) = find(nd, e, m)
SameTypes(nd, nd2) == \A i \in Inodes : nd2[i].type = nd[i].type
SameLinks(nd, nd2, S) == \A i \in Inodes \ S : nd2[i].link = nd[i].link
SameNodes(nd, nd2, S) == \A i \in Inodes \ S : nd2[i] = nd[i]
SameEnts(nd, nd2) == \A i \in Inodes : nd2[i].ents = nd[i].ents

(* No directory grows, but d, by a entries at most. *)
Size(nd, x) == Len(nd[x].ents)
Grows(nd, nd2, d, a) ==
    \A x \in Inodes : Size(nd2, x) <= Size(nd, x) + (IF x = d THEN a ELSE 0)

LEMMA SetEntsFact ==
    ASSUME NEW nd, Shaped(nd), NEW d \in Inodes, nd[d].type = "dir", NEW n \in Names, NEW v, NEW f,
           Changed(nd[d].ents, f, n, v)
    PROVE  /\ Shaped(SetEnts(nd, d, f))
           /\ OneEdge(nd, SetEnts(nd, d, f), d, n, v)
           /\ SameTypes(nd, SetEnts(nd, d, f))
           /\ SameLinks(nd, SetEnts(nd, d, f), {})
           /\ SetEnts(nd, d, f)[d].ents = f
           /\ SameNodes(nd, SetEnts(nd, d, f), {d})
<1> DEFINE nd2 == SetEnts(nd, d, f)
           new == Node(nd[d].type, nd[d].link, f)
<1>1. f \in Seq(EntryType) /\ Distinct(f)
  BY DEF Changed, Lists
<1>2. new \in NodeType /\ new.type = "dir" /\ new.link = nd[d].link /\ new.ents = f
  BY <1>1, ShapedFacts, NodeTyped
<1>3. nd \in [Inodes -> NodeType]
  BY DEF Shaped
<1>4. nd2 \in [Inodes -> NodeType] /\ nd2[d] = new /\ \A i \in Inodes \ {d} : nd2[i] = nd[i]
  BY <1>2, <1>3 DEF SetEnts
<1> HIDE DEF nd2, new
<1>5. Shaped(nd2)
  BY <1>1, <1>2, <1>4 DEF Shaped
<1>6. ASSUME NEW e \in Inodes, NEW m \in Names
      PROVE  find(nd2, e, m) = IF e = d /\ m = n THEN v ELSE find(nd, e, m)
  <2>1. find(nd2, e, m) = Gives(nd2[e].ents, m) /\ find(nd, e, m) = Gives(nd[e].ents, m)
    BY <1>5, FindFact
  <2> QED
    BY <1>2, <1>4, <2>1 DEF Changed, EntryNames
<1>7. SameTypes(nd, nd2) /\ SameLinks(nd, nd2, {})
  BY <1>2, <1>4 DEF SameTypes, SameLinks
<1>8. nd2[d].ents = f /\ SameNodes(nd, nd2, {d})
  BY <1>2, <1>4 DEF SameNodes
<1> QED
  BY <1>5, <1>6, <1>7, <1>8 DEF OneEdge, nd2

LEMMA AddLinkFact ==
    ASSUME NEW nd, Shaped(nd), NEW i \in Inodes, NEW delta \in Int, nd[i].link + delta \in Nat,
           NEW nd2, nd2 = AddLink(nd, i, delta)
    PROVE  /\ Shaped(nd2) /\ SameEdges(nd, nd2) /\ SameTypes(nd, nd2) /\ SameLinks(nd, nd2, {i})
           /\ nd2[i].link = nd[i].link + delta
           /\ SameEnts(nd, nd2) /\ SameNodes(nd, nd2, {i})
<1>1. PICK new : new = Node(nd[i].type, nd[i].link + delta, nd[i].ents)
  OBVIOUS
<1>2. new \in NodeType /\ new.type = nd[i].type /\ new.link = nd[i].link + delta /\ new.ents = nd[i].ents
  BY <1>1, ShapedFacts, NodeTyped
<1>3. nd \in [Inodes -> NodeType]
  BY DEF Shaped
<1>4. nd2 \in [Inodes -> NodeType] /\ nd2[i] = new /\ \A e \in Inodes \ {i} : nd2[e] = nd[e]
  BY <1>1, <1>2, <1>3 DEF AddLink
<1>5. Shaped(nd2)
  BY <1>2, <1>4 DEF Shaped
<1>6. \A e \in Inodes : nd2[e].ents = nd[e].ents
  BY <1>2, <1>4
<1>7. \A e \in Inodes : \A m \in Names : find(nd2, e, m) = find(nd, e, m)
  BY <1>5, <1>6, FindFact
<1>8. SameTypes(nd, nd2) /\ SameLinks(nd, nd2, {i}) /\ nd2[i].link = nd[i].link + delta
  BY <1>2, <1>4 DEF SameTypes, SameLinks
<1> QED
  BY <1>4, <1>5, <1>6, <1>7, <1>8 DEF SameEdges, SameEnts, SameNodes

-----------------------------------------------------------------------------
(***************************************************************************)
(* Inode::unlink, link, remove and create keep the tree.                   *)
(***************************************************************************)
(* Every entry leads to an inode that is marked, is not the root, has a    *)
(* count of 1 and no other entry; what is not marked holds nothing.        *)
Tree(nd, us) ==
    /\ \A d \in Inodes : \A n \in Names :
         find(nd, d, n) # None => find(nd, d, n) \in us \ {Root} /\ nd[find(nd, d, n)].link = 1
    /\ \A d, e \in Inodes : \A n, m \in Names :
         find(nd, d, n) # None /\ find(nd, d, n) = find(nd, e, m) => d = e /\ n = m
    /\ \A i \in Inodes \ us : nd[i] = FreeNode

(* An inode without a name, between two steps of a rename. *)
Loose(nd, us, i) ==
    /\ i \in us \ {Root} /\ nd[i].link = 0
    /\ \A d \in Inodes : \A n \in Names : find(nd, d, n) # i

Good(F) == Shaped(F.node) /\ Tree(F.node, F.used) /\ F.used \subseteq Inodes

LEMMA DiskFields ==
    ASSUME NEW nd, NEW us, NEW room, NEW short
    PROVE  /\ Disk(nd, us, room, short).node = nd /\ Disk(nd, us, room, short).used = us
           /\ Disk(nd, us, room, short).room = room /\ Disk(nd, us, room, short).short = short
  BY DEF Disk

(* A directory is marked. *)
LEMMA DirMarked ==
    ASSUME NEW nd, NEW us, Tree(nd, us), NEW d \in Inodes, nd[d].type = "dir"
    PROVE  d \in us
<1>1. FreeNode.type = "file"
  BY DEF FreeNode, Node
<1> QED
  BY <1>1 DEF Tree

(* The tree after one entry is taken out, or put in for an inode that has none. *)
LEMMA TreeLosesEdge ==
    ASSUME NEW nd, NEW nd2, NEW us, Tree(nd, us), NEW d \in Inodes, NEW n \in Names,
           OneEdge(nd, nd2, d, n, None), find(nd, d, n) # None,
           SameLinks(nd, nd2, {find(nd, d, n)}), us \subseteq Inodes,
           \A e \in Inodes \ us : nd2[e] = nd[e]
    PROVE  /\ Tree(nd2, us)
           /\ \A e \in Inodes : \A m \in Names : find(nd2, e, m) # find(nd, d, n)
<1> DEFINE i == find(nd, d, n)
<1>1. i \in us \ {Root} /\ i \in Inodes /\ i # None
  BY DEF Tree
<1>2. \A e \in Inodes : \A m \in Names : find(nd2, e, m) # i
  BY <1>1 DEF Tree, OneEdge
<1> HIDE DEF i
<1>3. \A e \in Inodes : \A m \in Names :
        find(nd2, e, m) # None => find(nd2, e, m) \in us \ {Root} /\ nd2[find(nd2, e, m)].link = 1
  <2> SUFFICES ASSUME NEW e \in Inodes, NEW m \in Names, find(nd2, e, m) # None
               PROVE  find(nd2, e, m) \in us \ {Root} /\ nd2[find(nd2, e, m)].link = 1
    OBVIOUS
  <2>1. find(nd2, e, m) = find(nd, e, m)
    BY DEF OneEdge
  <2>2. find(nd, e, m) \in us \ {Root} /\ nd[find(nd, e, m)].link = 1
    BY <2>1 DEF Tree
  <2>3. find(nd, e, m) \in Inodes \ {i}
    BY <1>2, <2>1, <2>2
  <2> QED
    BY <2>1, <2>2, <2>3 DEF SameLinks, i
<1>4. \A e1, e2 \in Inodes : \A m1, m2 \in Names :
         find(nd2, e1, m1) # None /\ find(nd2, e1, m1) = find(nd2, e2, m2) => e1 = e2 /\ m1 = m2
  BY DEF OneEdge, Tree
<1>5. \A e \in Inodes \ us : nd2[e] = FreeNode
  BY DEF Tree
<1> QED
  BY <1>2, <1>3, <1>4, <1>5 DEF Tree, i

LEMMA TreeGainsEdge ==
    ASSUME NEW nd, NEW nd2, NEW us, Tree(nd, us), NEW d \in Inodes, NEW n \in Names,
           NEW i \in us \ {Root}, i # None, OneEdge(nd, nd2, d, n, i), nd2[i].link = 1,
           \A e \in Inodes : \A m \in Names : find(nd, e, m) # i,
           SameLinks(nd, nd2, {i}), us \subseteq Inodes,
           \A e \in Inodes \ us : nd2[e] = nd[e]
    PROVE  Tree(nd2, us)
<1>1. \A e \in Inodes : \A m \in Names :
        find(nd2, e, m) # None => find(nd2, e, m) \in us \ {Root} /\ nd2[find(nd2, e, m)].link = 1
  <2> SUFFICES ASSUME NEW e \in Inodes, NEW m \in Names, find(nd2, e, m) # None
               PROVE  find(nd2, e, m) \in us \ {Root} /\ nd2[find(nd2, e, m)].link = 1
    OBVIOUS
  <2>1. CASE e = d /\ m = n
    BY <2>1 DEF OneEdge
  <2>2. CASE ~(e = d /\ m = n)
    <3>1. find(nd2, e, m) = find(nd, e, m)
      BY <2>2 DEF OneEdge
    <3>2. find(nd, e, m) \in us \ {Root} /\ nd[find(nd, e, m)].link = 1
      BY <3>1 DEF Tree
    <3>3. find(nd, e, m) \in Inodes \ {i}
      BY <3>2
    <3> QED
      BY <3>1, <3>2, <3>3 DEF SameLinks
  <2> QED
    BY <2>1, <2>2
<1>2. \A e1, e2 \in Inodes : \A m1, m2 \in Names :
         find(nd2, e1, m1) # None /\ find(nd2, e1, m1) = find(nd2, e2, m2) => e1 = e2 /\ m1 = m2
  <2> SUFFICES ASSUME NEW e1 \in Inodes, NEW e2 \in Inodes, NEW m1 \in Names, NEW m2 \in Names,
                      find(nd2, e1, m1) # None, find(nd2, e1, m1) = find(nd2, e2, m2)
               PROVE  e1 = e2 /\ m1 = m2
    OBVIOUS
  <2>1. find(nd2, e1, m1) = IF e1 = d /\ m1 = n THEN i ELSE find(nd, e1, m1)
    BY DEF OneEdge
  <2>2. find(nd2, e2, m2) = IF e2 = d /\ m2 = n THEN i ELSE find(nd, e2, m2)
    BY DEF OneEdge
  <2>3. find(nd, e1, m1) # i /\ find(nd, e2, m2) # i
    OBVIOUS
  <2>4. CASE e1 = d /\ m1 = n
    BY <2>1, <2>2, <2>3, <2>4
  <2>5. CASE ~(e1 = d /\ m1 = n)
    <3>1. find(nd, e1, m1) = find(nd, e2, m2) /\ find(nd, e1, m1) # None
      BY <2>1, <2>2, <2>3, <2>5
    <3> QED
      BY <3>1 DEF Tree
  <2> QED
    BY <2>4, <2>5
<1>3. \A e \in Inodes \ us : nd2[e] = FreeNode
  BY DEF Tree
<1> QED
  BY <1>1, <1>2, <1>3 DEF Tree

(* unlink() *)
LEMMA UnlinkFact ==
    ASSUME NEW F, Good(F), NEW d \in Inodes, NEW n \in Names, find(F.node, d, n) # None
    PROVE  /\ Good(unlink(F, d, n))
           /\ unlink(F, d, n).used = F.used /\ unlink(F, d, n).short = F.short
           /\ OneEdge(F.node, unlink(F, d, n).node, d, n, None)
           /\ SameTypes(F.node, unlink(F, d, n).node)
           /\ SameLinks(F.node, unlink(F, d, n).node, {find(F.node, d, n)})
           /\ Loose(unlink(F, d, n).node, F.used, find(F.node, d, n))
           /\ Grows(F.node, unlink(F, d, n).node, d, -1)
<1>1. Shaped(F.node) /\ Tree(F.node, F.used) /\ F.used \subseteq Inodes
  BY DEF Good
<1>2. PICK nd : nd = F.node
  OBVIOUS
<1>3. PICK us : us = F.used
  OBVIOUS
<1>4. PICK i : i = find(nd, d, n)
  OBVIOUS
<1>5. /\ i \in us \ {Root} /\ i \in Inodes /\ i # None /\ nd[i].link = 1
      /\ nd[d].type = "dir" /\ At(nd[d].ents, n) # 0 /\ nd[d].ents[At(nd[d].ents, n)].inode = i
  BY <1>1, <1>2, <1>3, <1>4, FindFact DEF Tree
<1>6. PICK f : f = Without(nd[d].ents, At(nd[d].ents, n))
  OBVIOUS
<1>7. Changed(nd[d].ents, f, n, None) /\ Len(f) = Size(nd, d) - 1
  BY <1>1, <1>2, <1>5, <1>6, WithoutEnts, ShapedFacts DEF EntryNames, Size
<1>8. PICK nd1 : nd1 = SetEnts(nd, d, f)
  OBVIOUS
<1>9. /\ Shaped(nd1) /\ OneEdge(nd, nd1, d, n, None) /\ SameTypes(nd, nd1) /\ SameLinks(nd, nd1, {})
      /\ SameNodes(nd, nd1, {d}) /\ nd1[d].ents = f
  <2>1. Shaped(nd) /\ nd[d].type = "dir"
    BY <1>1, <1>2, <1>5
  <2>2. Changed(nd[d].ents, f, n, None)
    BY <1>7
  <2> QED
    BY <1>8, <2>1, <2>2, SetEntsFact
<1>10. nd1[i].link = 1 /\ nd1[i].link + (-1) = 0
  BY <1>5, <1>9 DEF SameLinks
<1>11. PICK nd2 : nd2 = AddLink(nd1, i, -1)
  OBVIOUS
<1>12. /\ Shaped(nd2) /\ SameEdges(nd1, nd2) /\ SameTypes(nd1, nd2) /\ SameLinks(nd1, nd2, {i})
       /\ nd2[i].link = 0 /\ SameNodes(nd1, nd2, {i}) /\ SameEnts(nd1, nd2)
  <2>1. -1 \in Int /\ nd1[i].link + (-1) \in Nat /\ Shaped(nd1) /\ i \in Inodes
    BY <1>5, <1>9, <1>10
  <2> QED
    BY <1>10, <1>11, <2>1, AddLinkFact
<1>13. /\ OneEdge(nd, nd2, d, n, None) /\ SameTypes(nd, nd2) /\ SameLinks(nd, nd2, {i})
  BY <1>9, <1>12 DEF OneEdge, SameEdges, SameTypes, SameLinks
<1>14. d \in us
  BY <1>1, <1>2, <1>3, <1>5, DirMarked
<1>15. \A e \in Inodes \ us : nd2[e] = nd[e]
  BY <1>5, <1>9, <1>12, <1>14 DEF SameNodes
<1>16. Tree(nd2, us) /\ \A e \in Inodes : \A m \in Names : find(nd2, e, m) # i
  <2>1. Tree(nd, us) /\ us \subseteq Inodes /\ find(nd, d, n) # None
    BY <1>1, <1>2, <1>3, <1>4, <1>5
  <2> QED
    BY <1>4, <1>13, <1>15, <2>1, TreeLosesEdge
<1>17. Loose(nd2, us, i)
  BY <1>5, <1>12, <1>16 DEF Loose
<1>18. unlink(F, d, n).node = nd2 /\ unlink(F, d, n).used = us /\ unlink(F, d, n).short = F.short
  BY <1>2, <1>3, <1>5, <1>6, <1>8, <1>11, DiskFields DEF unlink
<1>19. Grows(nd, nd2, d, -1)
  <2>1. \A x \in Inodes : Size(nd, x) \in Nat
    BY <1>1, <1>2, ShapedFacts, LenProperties DEF Size
  <2>2. \A x \in Inodes : nd2[x].ents = IF x = d THEN f ELSE nd[x].ents
    BY <1>9, <1>12 DEF SameNodes, SameEnts
  <2>3. \A x \in Inodes : Size(nd2, x) = IF x = d THEN Len(f) ELSE Size(nd, x)
    BY <2>2 DEF Size
  <2>4. \A x \in Inodes : Size(nd2, x) = IF x = d THEN Size(nd, d) - 1 ELSE Size(nd, x)
    BY <1>7, <2>3
  <2> QED
    BY <2>1, <2>4 DEF Grows
<1> QED
  BY <1>1, <1>2, <1>3, <1>4, <1>12, <1>13, <1>16, <1>17, <1>18, <1>19 DEF Good

(* link() is asked for something it can do, if there are blocks. *)
Linkable(nd, d, n, replace, stale) ==
    IF find(nd, d, n) = None THEN ScanEnds(nd[d].ents, stale) ELSE replace

(* What link() leaves: the entry, or nothing but a count that is too high. *)
Linked(F, G, d, n, i, replace, stale) ==
    /\ Good(G) /\ G.used = F.used
    /\ F.short => G.short
    /\ SameTypes(F.node, G.node) /\ SameLinks(F.node, G.node, {i}) /\ Grows(F.node, G.node, d, 1)
    /\ SameEdges(F.node, G.node) \/ OneEdge(F.node, G.node, d, n, i)
    /\ ~G.short /\ Linkable(F.node, d, n, replace, stale) => OneEdge(F.node, G.node, d, n, i)

LEMMA LinkFact ==
    ASSUME NEW F, Good(F), NEW d \in Inodes, F.node[d].type = "dir", NEW n \in Names,
           NEW i, Loose(F.node, F.used, i), NEW replace \in BOOLEAN, NEW stale \in BOOLEAN
    PROVE  Linked(F, link(F, d, n, i, replace, stale), d, n, i, replace, stale)
<1>1. PICK nd : nd = F.node
  OBVIOUS
<1>2. PICK us : us = F.used
  OBVIOUS
<1>3. PICK ents : ents = nd[d].ents
  OBVIOUS
<1>4. PICK G : G = link(F, d, n, i, replace, stale)
  OBVIOUS
<1>5. /\ Shaped(nd) /\ Tree(nd, us) /\ us \subseteq Inodes /\ nd[d].type = "dir" /\ Lists(ents)
      /\ Loose(nd, us, i) /\ i \in Inodes /\ i # None /\ i \in us \ {Root} /\ nd[i].link = 0
      /\ (find(nd, d, n) = None <=> At(ents, n) = 0)
      /\ \A x \in Inodes : Size(nd, x) \in Nat
  <2>1. /\ Shaped(nd) /\ Tree(nd, us) /\ us \subseteq Inodes /\ nd[d].type = "dir"
        /\ Loose(nd, us, i) /\ i \in us \ {Root} /\ nd[i].link = 0
    BY <1>1, <1>2 DEF Good, Loose
  <2>2. i \in Inodes /\ i # None
    BY <2>1, InodesFacts
  <2>3. Lists(ents) /\ \A x \in Inodes : Size(nd, x) \in Nat
    BY <1>3, <2>1, ShapedFacts, LenProperties DEF Size
  <2>4. find(nd, d, n) = None <=> At(ents, n) = 0
    BY <1>3, <2>1, FindFact
  <2> QED
    BY <2>1, <2>2, <2>3, <2>4
<1>6. PICK counted : counted = AddLink(nd, i, 1)
  OBVIOUS
<1>7. /\ Shaped(counted) /\ SameEdges(nd, counted) /\ SameTypes(nd, counted)
      /\ SameLinks(nd, counted, {i}) /\ counted[i].link = 1
      /\ counted[d].ents = ents /\ counted[d].type = "dir"
      /\ SameNodes(nd, counted, {i}) /\ SameEnts(nd, counted)
  <2>1. nd[i].link + 1 = 1 /\ nd[i].link + 1 \in Nat /\ 1 \in Int
    BY <1>5
  <2>2. /\ Shaped(counted) /\ SameEdges(nd, counted) /\ SameTypes(nd, counted)
        /\ SameLinks(nd, counted, {i}) /\ counted[i].link = nd[i].link + 1
        /\ SameEnts(nd, counted) /\ SameNodes(nd, counted, {i})
    <3>1. PICK one \in Int : one = 1
      OBVIOUS
    <3>2. Shaped(nd) /\ i \in Inodes /\ nd[i].link + one \in Nat /\ counted = AddLink(nd, i, one)
      BY <1>5, <1>6, <2>1, <3>1
    <3>3. /\ Shaped(counted) /\ SameEdges(nd, counted) /\ SameTypes(nd, counted)
          /\ SameLinks(nd, counted, {i}) /\ counted[i].link = nd[i].link + one
          /\ SameEnts(nd, counted) /\ SameNodes(nd, counted, {i})
      BY <3>2, AddLinkFact
    <3> QED
      BY <3>1, <3>3
  <2> QED
    BY <1>3, <1>5, <2>1, <2>2 DEF SameTypes, SameEnts
<1>8. ASSUME G = F PROVE Linked(F, G, d, n, i, replace, stale) \/ Linkable(nd, d, n, replace, stale)
  <2>1. Grows(nd, nd, d, 1)
    BY <1>5 DEF Grows
  <2> QED
    BY <1>1, <1>8, <2>1 DEF Linked, SameTypes, SameLinks, SameEdges
<1>9. ASSUME G.node = counted, G.used = us, G.short
      PROVE  Linked(F, G, d, n, i, replace, stale)
  <2>1. Tree(counted, us)
    <3>1. \A e \in Inodes : \A m \in Names :
            find(counted, e, m) # None => find(counted, e, m) \in us \ {Root} /\ counted[find(counted, e, m)].link = 1
      <4> SUFFICES ASSUME NEW e \in Inodes, NEW m \in Names, find(counted, e, m) # None
                   PROVE  find(counted, e, m) \in us \ {Root} /\ counted[find(counted, e, m)].link = 1
        OBVIOUS
      <4>1. find(counted, e, m) = find(nd, e, m)
        BY <1>7 DEF SameEdges
      <4>2. find(nd, e, m) \in us \ {Root} /\ nd[find(nd, e, m)].link = 1 /\ find(nd, e, m) # i
        BY <1>5, <4>1 DEF Tree, Loose
      <4> QED
        BY <1>5, <1>7, <4>1, <4>2 DEF SameLinks
    <3>2. \A e \in Inodes \ us : counted[e] = FreeNode
      BY <1>5, <1>7 DEF Tree, SameNodes
    <3> QED
      BY <1>5, <1>7, <3>1, <3>2 DEF Tree, SameEdges
  <2>2. Grows(nd, counted, d, 1)
    <3>1. \A x \in Inodes : Size(counted, x) = Size(nd, x)
      BY <1>7 DEF Size, SameEnts
    <3> QED
      BY <1>5, <3>1 DEF Grows
  <2> QED
    BY <1>1, <1>2, <1>5, <1>7, <1>9, <2>1, <2>2 DEF Linked, Good
<1>10. ASSUME NEW f, Changed(ents, f, n, i), Len(f) <= Len(ents) + 1, G.node = SetEnts(counted, d, f), G.used = us, G.short = F.short
       PROVE  Linked(F, G, d, n, i, replace, stale)
  <2>1. PICK nd2 : nd2 = SetEnts(counted, d, f)
    OBVIOUS
  <2>2. /\ Shaped(nd2) /\ OneEdge(counted, nd2, d, n, i) /\ SameTypes(counted, nd2)
        /\ SameLinks(counted, nd2, {}) /\ SameNodes(counted, nd2, {d}) /\ nd2[d].ents = f
    <3>1. Changed(counted[d].ents, f, n, i)
      BY <1>7, <1>10
    <3> QED
      BY <1>7, <2>1, <3>1, SetEntsFact
  <2>3. OneEdge(nd, nd2, d, n, i) /\ SameTypes(nd, nd2) /\ SameLinks(nd, nd2, {i}) /\ nd2[i].link = 1
    BY <1>5, <1>7, <2>2 DEF OneEdge, SameEdges, SameTypes, SameLinks
  <2>4. d \in us
    BY <1>5, DirMarked
  <2>5. \A e \in Inodes \ us : nd2[e] = nd[e]
    BY <1>5, <1>7, <2>2, <2>4 DEF SameNodes
  <2>6. \A e \in Inodes : \A m \in Names : find(nd, e, m) # i
    BY <1>5 DEF Loose
  <2>7. Tree(nd2, us)
    BY <1>5, <2>3, <2>5, <2>6, TreeGainsEdge
  <2>8. Grows(nd, nd2, d, 1)
    <3>1. \A x \in Inodes : nd2[x].ents = IF x = d THEN f ELSE nd[x].ents
      BY <1>7, <2>2 DEF SameNodes, SameEnts
    <3>2. Len(f) <= Size(nd, d) + 1
      BY <1>3, <1>10 DEF Size
    <3>3. \A x \in Inodes : Size(nd2, x) = IF x = d THEN Len(f) ELSE Size(nd, x)
      BY <3>1 DEF Size
    <3> QED
      BY <1>5, <3>2, <3>3 DEF Grows
  <2> QED
    BY <1>1, <1>2, <1>5, <1>10, <2>1, <2>2, <2>3, <2>7, <2>8 DEF Linked, Good
<1>11. CASE At(ents, n) # 0 /\ replace
  <2>1. PICK f : f = [ents EXCEPT ![At(ents, n)] = Entry(n, i)]
    OBVIOUS
  <2>2. Changed(ents, f, n, i) /\ Len(f) = Len(ents)
    BY <1>5, <1>11, <2>1, ReplaceEnts DEF EntryNames
  <2>3. G.node = SetEnts(counted, d, f) /\ G.used = us /\ G.short = F.short
    BY <1>1, <1>2, <1>3, <1>4, <1>6, <1>11, <2>1, DiskFields DEF link
  <2>4. Len(f) <= Len(ents) + 1
    BY <1>5, <2>2, LenProperties DEF Lists
  <2> QED
    BY <1>4, <1>10, <2>2, <2>3, <2>4
<1>12. CASE At(ents, n) # 0 /\ ~replace
  <2>1. G = F
    BY <1>1, <1>3, <1>4, <1>12 DEF link
  <2> QED
    BY <1>4, <1>5, <1>8, <1>12, <2>1 DEF Linkable
<1>13. CASE At(ents, n) = 0 /\ ~ScanEnds(ents, stale)
  <2>1. G = F
    BY <1>1, <1>3, <1>4, <1>13 DEF link
  <2> QED
    BY <1>3, <1>4, <1>5, <1>8, <1>13, <2>1 DEF Linkable
<1>14. CASE At(ents, n) = 0 /\ ScanEnds(ents, stale) /\ Need(ents) > F.room
  <2>1. G.node = counted /\ G.used = us /\ G.short = TRUE
    BY <1>1, <1>2, <1>3, <1>4, <1>6, <1>14 DEF link, Disk
  <2> QED
    BY <1>4, <1>9, <2>1
<1>15. CASE At(ents, n) = 0 /\ ScanEnds(ents, stale) /\ ~(Need(ents) > F.room)
  <2>1. PICK f : f = Append(ents, Entry(n, i))
    OBVIOUS
  <2>2. Changed(ents, f, n, i)
    BY <1>5, <1>15, <2>1, AppendEnts DEF EntryNames
  <2>3. G.node = SetEnts(counted, d, f) /\ G.used = us /\ G.short = F.short
    BY <1>1, <1>2, <1>3, <1>4, <1>6, <1>15, <2>1, DiskFields DEF link
  <2>4. Len(f) <= Len(ents) + 1
    <3>1. ents \in Seq(EntryType) /\ Entry(n, i) \in EntryType
      BY <1>5, EntryTyped DEF Lists, EntryNames
    <3>2. Len(f) = Len(ents) + 1 /\ Len(ents) \in Nat
      BY <1>3, <1>5, <2>1, <3>1, AppendProperties
    <3> QED
      BY <3>2
  <2> QED
    BY <1>4, <1>10, <2>2, <2>3, <2>4
<1> QED
  BY <1>11, <1>12, <1>13, <1>14, <1>15

(* Another inode stays without a name. *)
LEMMA LooseKept ==
    ASSUME NEW nd, NEW nd2, NEW us, NEW i, NEW j, i # j, i \in Inodes, i # None,
           Loose(nd, us, i), SameLinks(nd, nd2, {j}),
           NEW d, NEW n, NEW v, v # i, SameEdges(nd, nd2) \/ OneEdge(nd, nd2, d, n, v)
    PROVE  Loose(nd2, us, i)
  BY DEF Loose, SameLinks, SameEdges, OneEdge

(* No entry changed but those two. *)
TwoEdges(nd, nd2, d, n, e, m) ==
    \A x \in Inodes : \A y \in Names :
      ~(x = d /\ y = n) /\ ~(x = e /\ y = m) => find(nd2, x, y) = find(nd, x, y)

(* No directory has as many blocks as there are direct pointers. *)
Fits(nd) == \A x \in Inodes : data_blocks(Size(nd, x)) < D

LEMMA FewerBlocks ==
    ASSUME NEW a \in Nat, NEW b \in Nat, a <= b
    PROVE  data_blocks(a) \in Nat /\ data_blocks(b) \in Nat /\ data_blocks(a) <= data_blocks(b)
<1>1. E \in Nat /\ E > 0
  BY NameSpaceAssumption
<1>2. PICK x \in Nat : x = a + E - 1
  BY <1>1
<1>3. PICK y \in Nat : y = b + E - 1
  BY <1>1
<1>4. PICK q : q = x \div E
  OBVIOUS
<1>5. PICK r : r = y \div E
  OBVIOUS
<1>6. q \in Nat /\ q * E \in Nat /\ q * E <= x
  BY <1>1, <1>4
<1>7. r \in Nat /\ r * E \in Nat /\ y < r * E + E
  BY <1>1, <1>5
<1>8. x <= y
  BY <1>1, <1>2, <1>3
<1>9. ASSUME r < q PROVE FALSE
  <2>1. r * E + E <= q * E
    <3>1. (r + 1) * E <= q * E
      BY <1>1, <1>6, <1>7, <1>9
    <3>2. (r + 1) * E = r * E + E
      BY <1>1, <1>7
    <3> QED
      BY <3>1, <3>2
  <2> QED
    BY <1>1, <1>6, <1>7, <1>8, <2>1
<1>10. q <= r
  BY <1>6, <1>7, <1>9
<1> QED
  BY <1>2, <1>3, <1>4, <1>5, <1>6, <1>7, <1>10 DEF data_blocks

LEMMA SizeTyped ==
    ASSUME NEW nd, Shaped(nd), NEW x \in Inodes
    PROVE  Size(nd, x) \in Nat
  BY ShapedFacts, LenProperties DEF Size

(* Then no search of a directory runs past its end. *)
LEMMA FitsScan ==
    ASSUME NEW nd, NEW nd2, Shaped(nd), Shaped(nd2), Fits(nd), NEW d \in Inodes,
           Size(nd2, d) <= Size(nd, d), NEW stale
    PROVE  ScanEnds(nd2[d].ents, stale)
<1>1. Size(nd, d) \in Nat /\ Size(nd2, d) \in Nat
  BY SizeTyped
<1>2. /\ data_blocks(Size(nd, d)) \in Nat /\ data_blocks(Size(nd2, d)) \in Nat
      /\ data_blocks(Size(nd2, d)) <= data_blocks(Size(nd, d))
  BY <1>1, FewerBlocks
<1>3. data_blocks(Size(nd, d)) < D /\ D \in Nat
  BY NameSpaceAssumption DEF Fits
<1>4. ~(data_blocks(Size(nd2, d)) >= D) /\ data_blocks(Size(nd2, d)) + 0 = data_blocks(Size(nd2, d))
  BY <1>2, <1>3
<1> QED
  BY <1>4 DEF ScanEnds, total_blocks, Size

Moved(F, G, from, old, to, new, flags) ==
    /\ Good(G) /\ G.used = F.used /\ SameTypes(F.node, G.node)
    /\ TwoEdges(F.node, G.node, from, old, to, new)
    /\ Fits(F.node) /\ ~G.short /\ (flags = "noreplace" => find(F.node, to, new) = None) =>
         /\ find(G.node, to, new) = find(F.node, from, old)
         /\ find(G.node, from, old) = IF flags = "exchange" THEN find(F.node, to, new) ELSE None

LEMMA RenamedFact ==
    ASSUME NEW F, Good(F), NEW from \in Inodes, NEW to \in Inodes,
           F.node[from].type = "dir", F.node[to].type = "dir",
           NEW old \in Names, NEW new \in Names, find(F.node, from, old) # None,
           ~(from = to /\ old = new), NEW flags, NEW stale \in BOOLEAN,
           flags = "exchange" => find(F.node, to, new) # None
    PROVE  Moved(F, Renamed(F, from, old, to, new, flags, stale), from, old, to, new, flags)
<1>1. PICK i : i = find(F.node, from, old)
  OBVIOUS
<1>2. PICK j : j = find(F.node, to, new)
  OBVIOUS
<1>3. PICK us : us = F.used
  OBVIOUS
<1>4. Shaped(F.node) /\ Tree(F.node, us) /\ us \subseteq Inodes
  BY <1>3 DEF Good
<1>5. i \in Inodes /\ i # None /\ i # j
  BY <1>1, <1>2, <1>4, FindFact DEF Tree
<1>6. PICK F1 : F1 = unlink(F, from, old)
  OBVIOUS
<1>7. /\ Good(F1) /\ F1.used = us /\ F1.short = F.short /\ OneEdge(F.node, F1.node, from, old, None)
      /\ SameTypes(F.node, F1.node) /\ Loose(F1.node, us, i) /\ Grows(F.node, F1.node, from, -1)
  BY <1>1, <1>3, <1>6, UnlinkFact
<1>8. find(F1.node, to, new) = j /\ F1.node[from].type = "dir" /\ F1.node[to].type = "dir"
  BY <1>2, <1>7 DEF OneEdge, SameTypes
<1>9. PICK replace \in BOOLEAN : replace = (flags # "noreplace")
  OBVIOUS
<1>10. PICK G : G = Renamed(F, from, old, to, new, flags, stale)
  OBVIOUS
<1>11. CASE flags # "exchange"
  <2>1. G = link(F1, to, new, i, replace, stale)
    BY <1>1, <1>6, <1>9, <1>10, <1>11 DEF Renamed
  <2>2. Linked(F1, G, to, new, i, replace, stale)
    BY <1>7, <1>8, <2>1, LinkFact
  <2>3. TwoEdges(F.node, G.node, from, old, to, new) /\ SameTypes(F.node, G.node)
    BY <1>7, <2>2 DEF Linked, OneEdge, SameEdges, SameTypes, TwoEdges
  <2>4. ASSUME Fits(F.node), ~G.short, flags = "noreplace" => find(F.node, to, new) = None
        PROVE  find(G.node, to, new) = i /\ find(G.node, from, old) = None
    <3>1. Linkable(F1.node, to, new, replace, stale)
      <4>1. Shaped(F1.node) /\ Size(F1.node, to) \in Nat /\ Size(F.node, to) \in Nat
        BY <1>4, <1>7, SizeTyped DEF Good
      <4>2. Size(F1.node, to) <= Size(F.node, to)
        BY <1>7, <4>1 DEF Grows
      <4>3. ScanEnds(F1.node[to].ents, stale)
        BY <1>4, <2>4, <4>1, <4>2, FitsScan
      <4> QED
        BY <1>2, <1>8, <1>9, <2>4, <4>3 DEF Linkable
    <3>2. OneEdge(F1.node, G.node, to, new, i)
      BY <2>2, <2>4, <3>1 DEF Linked
    <3> QED
      BY <1>7, <3>2 DEF OneEdge
  <2> QED
    BY <1>1, <1>3, <1>7, <1>10, <1>11, <2>2, <2>3, <2>4 DEF Moved, Linked
<1>12. CASE flags = "exchange"
  <2>1. PICK F2 : F2 = unlink(F1, to, new)
    OBVIOUS
  <2>2. j # None /\ j \in Inodes
    BY <1>2, <1>4, <1>12, FindFact
  <2>3. /\ Good(F2) /\ F2.used = us /\ F2.short = F.short /\ OneEdge(F1.node, F2.node, to, new, None)
        /\ SameTypes(F1.node, F2.node) /\ SameLinks(F1.node, F2.node, {j}) /\ Loose(F2.node, us, j)
        /\ Grows(F1.node, F2.node, to, -1)
    BY <1>7, <1>8, <2>1, <2>2, UnlinkFact
  <2>4. Loose(F2.node, us, i)
    BY <1>5, <1>7, <2>3, LooseKept
  <2>5. PICK F3 : F3 = link(F2, from, old, j, FALSE, stale)
    OBVIOUS
  <2>6. Linked(F2, F3, from, old, j, FALSE, stale)
    <3>1. F2.node[from].type = "dir" /\ FALSE \in BOOLEAN
      BY <1>8, <2>3 DEF SameTypes
    <3> QED
      BY <2>3, <2>5, <3>1, LinkFact
  <2>7. Loose(F3.node, us, i)
    BY <1>5, <2>4, <2>6, LooseKept DEF Linked
  <2>8. G = link(F3, to, new, i, replace, stale)
    BY <1>1, <1>2, <1>6, <1>9, <1>10, <1>12, <2>1, <2>5 DEF Renamed
  <2>9. Good(F3) /\ F3.used = us /\ F3.node[to].type = "dir"
    BY <1>8, <2>3, <2>6 DEF Linked, SameTypes
  <2>10. Linked(F3, G, to, new, i, replace, stale)
    BY <2>7, <2>8, <2>9, LinkFact
  <2>11. SameTypes(F.node, G.node)
    BY <1>7, <2>3, <2>6, <2>10 DEF Linked, SameTypes
  <2>12. TwoEdges(F.node, G.node, from, old, to, new)
    <3> SUFFICES ASSUME NEW x \in Inodes, NEW y \in Names, ~(x = from /\ y = old), ~(x = to /\ y = new)
                 PROVE  find(G.node, x, y) = find(F.node, x, y)
      BY DEF TwoEdges
    <3>1. find(F1.node, x, y) = find(F.node, x, y)
      BY <1>7 DEF OneEdge
    <3>2. find(F2.node, x, y) = find(F1.node, x, y)
      BY <2>3 DEF OneEdge
    <3>3. find(F3.node, x, y) = find(F2.node, x, y)
      BY <2>6 DEF Linked, OneEdge, SameEdges
    <3>4. find(G.node, x, y) = find(F3.node, x, y)
      BY <2>10 DEF Linked, OneEdge, SameEdges
    <3> QED
      BY <3>1, <3>2, <3>3, <3>4
  <2>13. ASSUME Fits(F.node), ~G.short PROVE find(G.node, to, new) = i /\ find(G.node, from, old) = j
    <3>1. find(F2.node, from, old) = None /\ find(F2.node, to, new) = None
      BY <1>7, <2>3 DEF OneEdge
    <3>2. Linkable(F2.node, from, old, FALSE, stale)
      <4>1. /\ Shaped(F2.node) /\ Size(F2.node, from) \in Nat
            /\ Size(F1.node, from) \in Nat /\ Size(F.node, from) \in Nat
        BY <1>4, <1>7, <2>3, SizeTyped DEF Good
      <4>2. Size(F2.node, from) <= Size(F.node, from)
        BY <1>7, <2>3, <4>1 DEF Grows
      <4>3. ScanEnds(F2.node[from].ents, stale)
        BY <1>4, <2>13, <4>1, <4>2, FitsScan
      <4> QED
        BY <3>1, <4>3 DEF Linkable
    <3>3. ~F3.short
      BY <2>10, <2>13 DEF Linked
    <3>4. OneEdge(F2.node, F3.node, from, old, j)
      BY <2>6, <3>2, <3>3 DEF Linked
    <3>5. find(F3.node, from, old) = j /\ find(F3.node, to, new) = None
      BY <3>1, <3>4 DEF OneEdge
    <3>6. Linkable(F3.node, to, new, replace, stale)
      <4>1. /\ Shaped(F3.node) /\ Size(F3.node, to) \in Nat /\ Size(F2.node, to) \in Nat
            /\ Size(F1.node, to) \in Nat /\ Size(F.node, to) \in Nat
        BY <1>4, <1>7, <2>3, <2>9, SizeTyped DEF Good
      <4>2. Size(F3.node, to) <= Size(F2.node, to) + (IF to = from THEN 1 ELSE 0)
        BY <2>6 DEF Linked, Grows
      <4>3. Size(F3.node, to) <= Size(F.node, to)
        BY <1>7, <2>3, <4>1, <4>2 DEF Grows
      <4>4. ScanEnds(F3.node[to].ents, stale)
        BY <1>4, <2>13, <4>1, <4>3, FitsScan
      <4> QED
        BY <3>5, <4>4 DEF Linkable
    <3>7. OneEdge(F3.node, G.node, to, new, i)
      BY <2>10, <2>13, <3>6 DEF Linked
    <3> QED
      BY <3>5, <3>7 DEF OneEdge
  <2> QED
    BY <1>1, <1>2, <1>3, <1>10, <1>12, <2>9, <2>10, <2>11, <2>12, <2>13 DEF Moved, Linked
<1> QED
  BY <1>11, <1>12

LEMMA FreeNodeFact ==
    /\ FreeNode \in NodeType /\ FreeNode.type = "file" /\ FreeNode.link = 0 /\ FreeNode.ents = <<>>
    /\ Distinct(<<>>) /\ <<>> \in Seq(EntryType)
<1>1. <<>> \in Seq(EntryType) /\ "file" \in {"file", "dir"} /\ 0 \in Nat
  OBVIOUS
<1>2. Distinct(<<>>)
  BY DEF Distinct
<1> QED
  BY <1>1, <1>2 DEF FreeNode, Node, NodeType

(* remove() of a file, or of a directory without names. *)
LEMMA RemoveFact ==
    ASSUME NEW F, Good(F), NEW d \in Inodes, NEW n \in Names, NEW i, i = find(F.node, d, n), i # None,
           i # d, \A m \in Names : find(F.node, i, m) = None
    PROVE  /\ Good(remove(F, d, n))
           /\ remove(F, d, n).used = F.used \ {i}
           /\ OneEdge(F.node, remove(F, d, n).node, d, n, None)
           /\ \A e \in Inodes \ {i} : remove(F, d, n).node[e].type = F.node[e].type
<1>1. PICK nd : nd = F.node
  OBVIOUS
<1>2. PICK us : us = F.used
  OBVIOUS
<1>3. /\ Shaped(nd) /\ Tree(nd, us) /\ us \subseteq Inodes
      /\ i \in us \ {Root} /\ i \in Inodes /\ nd[i].link = 1
      /\ nd[d].type = "dir" /\ At(nd[d].ents, n) # 0 /\ nd[d].ents[At(nd[d].ents, n)].inode = i
  BY <1>1, <1>2, FindFact DEF Good, Tree
<1>4. PICK f : f = Without(nd[d].ents, At(nd[d].ents, n))
  OBVIOUS
<1>5. Changed(nd[d].ents, f, n, None)
  BY <1>3, <1>4, WithoutEnts, ShapedFacts DEF EntryNames
<1>6. PICK nd1 : nd1 = SetEnts(nd, d, f)
  OBVIOUS
<1>7. /\ Shaped(nd1) /\ OneEdge(nd, nd1, d, n, None) /\ SameTypes(nd, nd1) /\ SameLinks(nd, nd1, {})
      /\ SameNodes(nd, nd1, {d})
  <2>1. Shaped(nd) /\ nd[d].type = "dir"
    BY <1>3
  <2> QED
    BY <1>5, <1>6, <2>1, SetEntsFact
<1>8. PICK nd2 : nd2 = [nd1 EXCEPT ![i] = FreeNode]
  OBVIOUS
<1>9. nd2 \in [Inodes -> NodeType] /\ nd2[i] = FreeNode /\ \A e \in Inodes \ {i} : nd2[e] = nd1[e]
  BY <1>3, <1>7, <1>8, FreeNodeFact DEF Shaped
<1>10. Shaped(nd2)
  BY <1>7, <1>9, FreeNodeFact DEF Shaped
<1>11. \A m \in Names : find(nd2, i, m) = None
  BY <1>3, <1>9, FreeNodeFact DEF find
<1>12. \A e \in Inodes \ {i} : \A m \in Names : find(nd2, e, m) = find(nd1, e, m)
  BY <1>9 DEF find
<1>13. OneEdge(nd, nd2, d, n, None)
  BY <1>1, <1>7, <1>11, <1>12 DEF OneEdge
<1>14. SameLinks(nd, nd2, {i})
  BY <1>7, <1>9 DEF SameLinks
<1>15. d \in us
  BY <1>3, DirMarked
<1>16. \A e \in Inodes \ us : nd2[e] = nd[e]
  BY <1>3, <1>7, <1>9, <1>15 DEF SameNodes
<1>17. Tree(nd2, us) /\ \A e \in Inodes : \A m \in Names : find(nd2, e, m) # i
  <2>1. find(nd, d, n) = i /\ find(nd, d, n) # None
    BY <1>1
  <2> QED
    BY <1>3, <1>13, <1>14, <1>16, <2>1, TreeLosesEdge
<1>18. Tree(nd2, us \ {i})
  BY <1>9, <1>17 DEF Tree
<1>19. remove(F, d, n).node = nd2 /\ remove(F, d, n).used = us \ {i}
  BY <1>1, <1>2, <1>3, <1>4, <1>6, <1>8, DiskFields DEF remove
<1>20. \A e \in Inodes \ {i} : nd2[e].type = nd[e].type
  BY <1>7, <1>9 DEF SameTypes
<1> QED
  BY <1>1, <1>2, <1>3, <1>10, <1>13, <1>18, <1>19, <1>20 DEF Good

LEMMA NewNodeFact ==
    ASSUME NEW type \in {"file", "dir"}, NEW self \in Inodes, NEW parent \in Inodes
    PROVE  /\ NewNode(type, self, parent) \in NodeType
           /\ NewNode(type, self, parent).type = type
           /\ NewNode(type, self, parent).link = 1
           /\ Distinct(NewNode(type, self, parent).ents)
           /\ type = "file" => NewNode(type, self, parent).ents = <<>>
           /\ \A k \in DOMAIN NewNode(type, self, parent).ents :
                NewNode(type, self, parent).ents[k].name \notin Names
<1> DEFINE two == <<Entry(Dot, self), Entry(DotDot, parent)>>
           ents == IF type = "dir" THEN two ELSE <<>>
<1>1. /\ Entry(Dot, self) \in EntryType /\ Entry(Dot, self).name = Dot
      /\ Entry(DotDot, parent) \in EntryType /\ Entry(DotDot, parent).name = DotDot
  BY EntryTyped DEF EntryNames
<1>2. two \in Seq(EntryType) /\ DOMAIN two = {1, 2} /\ two[1] = Entry(Dot, self) /\ two[2] = Entry(DotDot, parent)
  BY <1>1
<1>3. Distinct(two) /\ \A k \in DOMAIN two : two[k].name \notin Names
  <2>1. Dot # DotDot /\ Dot \notin Names /\ DotDot \notin Names
    BY VFSAssumption DEF Dot, DotDot, Names
  <2> QED
    BY <1>1, <1>2, <2>1 DEF Distinct
<1> HIDE DEF two
<1>4. ents \in Seq(EntryType) /\ Distinct(ents) /\ \A k \in DOMAIN ents : ents[k].name \notin Names
  BY <1>2, <1>3, FreeNodeFact
<1>5. NewNode(type, self, parent) = Node(type, 1, ents)
  BY DEF NewNode, two
<1>6. type = "file" => ents = <<>>
  OBVIOUS
<1> HIDE DEF ents
<1> QED
  BY <1>4, <1>5, <1>6, NodeTyped

(* An entry more. *)
LEMMA NewEntry ==
    ASSUME NEW nd, Shaped(nd), NEW d \in Inodes, nd[d].type = "dir", NEW n \in Names,
           At(nd[d].ents, n) = 0, NEW i, i \in Inodes, NEW f, f = Append(nd[d].ents, Entry(n, i)),
           NEW nd1, nd1 = SetEnts(nd, d, f)
    PROVE  /\ Shaped(nd1) /\ OneEdge(nd, nd1, d, n, i) /\ SameTypes(nd, nd1) /\ SameLinks(nd, nd1, {})
           /\ SameNodes(nd, nd1, {d})
<1>1. Changed(nd[d].ents, f, n, i)
  BY AppendEnts, ShapedFacts DEF EntryNames
<1> QED
  BY <1>1, SetEntsFact

Created(F, G, new, d, n, type) ==
    /\ Good(G) /\ new \in Inodes \cup {Bad} /\ new \notin F.used
    /\ G.used = F.used \cup ({new} \ {Bad})
    /\ \A e \in Inodes \ {new} : G.node[e].type = F.node[e].type
    /\ type = "file" /\ new \in Inodes => G.node[new].type = "file"
    /\ SameEdges(F.node, G.node) \/ OneEdge(F.node, G.node, d, n, new)

(* create() of a name that is not there. *)
LEMMA CreateFact ==
    ASSUME NEW F, Good(F), Root \in F.used, NEW d \in Inodes, F.node[d].type = "dir",
           NEW n \in Names, find(F.node, d, n) = None, NEW type \in {"file", "dir"}
    PROVE  Created(F, create(F, d, n, type).disk, create(F, d, n, type).inode, d, n, type)
<1>1. PICK nd : nd = F.node
  OBVIOUS
<1>2. PICK us : us = F.used
  OBVIOUS
<1>3. PICK new : new = alloc_inode(us)
  OBVIOUS
<1>4. PICK G : G = create(F, d, n, type).disk
  OBVIOUS
<1>5. /\ Shaped(nd) /\ Tree(nd, us) /\ us \subseteq Inodes /\ nd[d].type = "dir" /\ Lists(nd[d].ents)
      /\ At(nd[d].ents, n) = 0 /\ d \in us
  BY <1>1, <1>2, FindFact, ShapedFacts, DirMarked DEF Good
<1>6. new = Bad \/ (new \in Inodes /\ new \notin us)
  <2>1. CASE Inodes \subseteq us
    BY <1>3, <2>1 DEF alloc_inode
  <2>2. CASE ~(Inodes \subseteq us)
    <3>1. Inodes \ us \subseteq Nat /\ Inodes \ us # {}
      BY <2>2, InodesFacts
    <3>2. Min(Inodes \ us) \in Inodes \ us
      BY <3>1, MinFact
    <3> QED
      BY <1>3, <2>2, <3>2 DEF alloc_inode
  <2> QED
    BY <2>1, <2>2
<1>7. Bad \notin us /\ Bad \notin Inodes
  BY <1>5, InodesFacts
<1>8. create(F, d, n, type).inode = new /\ G.used = us \cup ({new} \ {Bad})
  BY <1>2, <1>3, <1>4, DiskFields DEF create
<1>9. Tree(nd, G.used) /\ G.used \subseteq Inodes
  BY <1>5, <1>6, <1>8 DEF Tree
<1>10. CASE G.node = nd
  <2>1. new \in Inodes => nd[new].type = "file"
    BY <1>5, <1>6, <1>7, FreeNodeFact DEF Tree
  <2> QED
    BY <1>1, <1>2, <1>4, <1>5, <1>6, <1>7, <1>8, <1>9, <1>10, <2>1 DEF Created, Good, SameEdges
<1>11. CASE G.node # nd
  <2>1. PICK f : f = Append(nd[d].ents, Entry(n, new))
    OBVIOUS
  <2>2. PICK nd1 : nd1 = SetEnts(nd, d, f)
    OBVIOUS
  <2>3. new # Bad /\ G.node = [nd1 EXCEPT ![new] = NewNode(type, new, d)]
    BY <1>1, <1>2, <1>3, <1>4, <1>11, <2>1, <2>2, DiskFields DEF create
  <2>4. new \in Inodes /\ new \notin us /\ new # d /\ new # Root /\ new # None
    BY <1>2, <1>5, <1>6, <2>3, InodesFacts
  <2>6. /\ Shaped(nd1) /\ OneEdge(nd, nd1, d, n, new) /\ SameTypes(nd, nd1) /\ SameLinks(nd, nd1, {})
        /\ SameNodes(nd, nd1, {d})
    BY <1>5, <2>1, <2>2, <2>4, NewEntry
  <2>7. PICK nd2 : nd2 = G.node
    OBVIOUS
  <2>8. PICK made : made = NewNode(type, new, d)
    OBVIOUS
  <2>9. /\ made \in NodeType /\ made.type = type /\ made.link = 1 /\ Distinct(made.ents)
        /\ type = "file" => made.ents = <<>>
        /\ \A k \in DOMAIN made.ents : made.ents[k].name \notin Names
    BY <2>4, <2>8, NewNodeFact
  <2>10. nd2 \in [Inodes -> NodeType] /\ nd2[new] = made /\ \A e \in Inodes \ {new} : nd2[e] = nd1[e]
    BY <2>3, <2>4, <2>6, <2>7, <2>8, <2>9 DEF Shaped
  <2>11. Shaped(nd2)
    BY <2>6, <2>9, <2>10 DEF Shaped
  <2>12. \A m \in Names : find(nd2, new, m) = None /\ find(nd, new, m) = None
    <3> TAKE m \in Names
    <3>1. find(nd2, new, m) = Gives(made.ents, m) /\ Lists(made.ents)
      BY <2>4, <2>10, <2>11, FindFact, ShapedFacts
    <3>2. Gives(made.ents, m) = None
      BY <2>9, <3>1, GivesFact
    <3>3. nd[new] = FreeNode
      BY <1>5, <2>4 DEF Tree
    <3> QED
      BY <3>1, <3>2, <3>3, FreeNodeFact DEF find
  <2>13. \A e \in Inodes \ {new} : \A m \in Names : find(nd2, e, m) = find(nd1, e, m)
    BY <2>10 DEF find
  <2>14. OneEdge(nd, nd2, d, n, new)
    BY <2>4, <2>6, <2>12, <2>13 DEF OneEdge
  <2>15. SameLinks(nd, nd2, {new}) /\ nd2[new].link = 1
    BY <2>6, <2>9, <2>10 DEF SameLinks
  <2>16. \A e \in Inodes : \A m \in Names : find(nd, e, m) # new
    BY <1>5, <2>4 DEF Tree
  <2>17. \A e \in Inodes \ G.used : nd2[e] = nd[e]
    BY <1>5, <1>8, <2>3, <2>6, <2>10 DEF SameNodes
  <2>18. new \in G.used \ {Root}
    BY <1>8, <2>3, <2>4
  <2>19. Tree(nd2, G.used)
    BY <1>9, <2>4, <2>14, <2>15, <2>16, <2>17, <2>18, TreeGainsEdge
  <2>20. /\ \A e \in Inodes \ {new} : nd2[e].type = nd[e].type
         /\ nd2[new].type = type
    BY <2>6, <2>9, <2>10 DEF SameTypes
  <2> QED
    BY <1>1, <1>2, <1>4, <1>6, <1>7, <1>8, <1>9, <2>4, <2>7, <2>11, <2>14, <2>19, <2>20 DEF Created, Good
<1> QED
  BY <1>10, <1>11

-----------------------------------------------------------------------------
(***************************************************************************)
(* Walking down a path.                                                    *)
(***************************************************************************)
(* g holds the inodes met from i along the first m names. *)
Walks(g, nd, i, names, m) ==
    g[0] = i /\ \A k \in 1 .. m : g[k] = Step(nd, g[k - 1], names[k])

Follows(g, nd, i, names, m) ==
    g = [k \in 0 .. m |-> IF k = 0 THEN i ELSE Step(nd, g[k - 1], names[k])]

LEMMA FollowsExists ==
    ASSUME NEW nd, NEW i, NEW names, NEW m \in Nat
    PROVE  \E g : Follows(g, nd, i, names, m)
<1> DEFINE Miss == {n \in Nat : ~\E g : Follows(g, nd, i, names, n)}
<1> SUFFICES ASSUME Miss # {} PROVE FALSE
  OBVIOUS
<1>1. PICK n \in Miss : \A k \in Miss : n <= k
  BY Least
<1>2. CASE n = 0
  <2>1. PICK g : g = [k \in 0 .. 0 |-> i]
    OBVIOUS
  <2>2. g = [k \in 0 .. 0 |-> IF k = 0 THEN i ELSE Step(nd, g[k - 1], names[k])]
    BY <2>1
  <2> QED
    BY <1>2, <2>2 DEF Follows
<1>3. CASE n # 0
  <2>1. n - 1 \in Nat /\ n - 1 \notin Miss
    BY <1>1, <1>3
  <2>2. PICK g : Follows(g, nd, i, names, n - 1)
    BY <2>1
  <2>3. PICK h : h = [k \in 0 .. n |-> IF k = n THEN Step(nd, g[n - 1], names[n]) ELSE g[k]]
    OBVIOUS
  <2>4. \A k \in 0 .. n - 1 : g[k] = IF k = 0 THEN i ELSE Step(nd, g[k - 1], names[k])
    BY <2>2 DEF Follows
  <2>5. \A k \in 0 .. n - 1 : h[k] = g[k]
    BY <2>3
  <2>6. h[n] = Step(nd, g[n - 1], names[n]) /\ h[n - 1] = g[n - 1]
    BY <2>1, <2>3
  <2>7. ASSUME NEW k \in 0 .. n PROVE h[k] = IF k = 0 THEN i ELSE Step(nd, h[k - 1], names[k])
    <3>1. CASE k = n
      BY <1>3, <2>6, <3>1
    <3>2. CASE k # n /\ k = 0
      BY <2>4, <2>5, <3>2
    <3>3. CASE k # n /\ k # 0
      <4>1. k \in 0 .. n - 1 /\ k - 1 \in 0 .. n - 1
        BY <3>3
      <4>2. h[k] = g[k] /\ h[k - 1] = g[k - 1]
        BY <2>5, <4>1
      <4> QED
        BY <2>4, <3>3, <4>1, <4>2
    <3> QED
      BY <3>1, <3>2, <3>3
  <2>8. h = [k \in 0 .. n |-> h[k]]
    BY <2>3
  <2>9. Follows(h, nd, i, names, n)
    BY <2>7, <2>8 DEF Follows
  <2> QED
    BY <2>9
<1> QED
  BY <1>2, <1>3

(* Trace() is the walk. *)
LEMMA TraceWalks ==
    ASSUME NEW nd, NEW i, NEW names, Len(names) \in Nat
    PROVE  Walks(Trace(nd, i, names), nd, i, names, Len(names))
<1>1. PICK m \in Nat : m = Len(names)
  OBVIOUS
<1>2. \E g : Follows(g, nd, i, names, m)
  BY FollowsExists
<1>3. PICK t : t = Trace(nd, i, names)
  OBVIOUS
<1>4. Trace(nd, i, names) = CHOOSE g : Follows(g, nd, i, names, m)
  BY <1>1, Zenon DEF Trace, Follows
<1>5. Follows(t, nd, i, names, m)
  BY <1>2, <1>3, <1>4, Zenon
<1>6. \A k \in 0 .. m : t[k] = IF k = 0 THEN i ELSE Step(nd, t[k - 1], names[k])
  BY <1>5 DEF Follows
<1>7. Walks(t, nd, i, names, m)
  BY <1>6 DEF Walks
<1> QED
  BY <1>1, <1>3, <1>7

(* There is one walk. *)
LEMMA WalksUnique ==
    ASSUME NEW nd, NEW i, NEW p, NEW q, NEW m \in Nat, NEW g, NEW h,
           Walks(g, nd, i, p, m), Walks(h, nd, i, q, m), \A k \in 1 .. m : p[k] = q[k]
    PROVE  \A k \in 0 .. m : g[k] = h[k]
<1> DEFINE Miss == {k \in Nat : k <= m /\ g[k] # h[k]}
<1> SUFFICES ASSUME Miss # {} PROVE FALSE
  OBVIOUS
<1>1. PICK n \in Miss : \A k \in Miss : n <= k
  BY Least
<1>2. n # 0
  BY DEF Walks
<1>3. n - 1 \in Nat /\ n - 1 \notin Miss /\ n \in 1 .. m
  BY <1>1, <1>2
<1>4. g[n - 1] = h[n - 1] /\ p[n] = q[n]
  BY <1>3
<1> QED
  BY <1>3, <1>4 DEF Walks

(* The parts of a path. *)
LEMMA SubPath ==
    ASSUME NEW S, NEW p \in Seq(S), NEW a \in Nat, NEW b \in Nat, a <= b, b <= Len(p)
    PROVE  /\ SubSeq(p, a + 1, b) \in Seq(S)
           /\ Len(SubSeq(p, a + 1, b)) = b - a
           /\ \A k \in 1 .. b - a : SubSeq(p, a + 1, b)[k] = p[a + k]
<1>1. PICK n \in Nat : n = Len(p)
  BY LenProperties
<1>2. b <= n
  BY <1>1
<1>3. \A k \in a + 1 .. b : k \in 1 .. n
  BY <1>2
<1>4. \A k \in a + 1 .. b : p[k] \in S
  BY <1>1, <1>3, ElementOfSeq
<1>5. a + 1 \in Int /\ b \in Int
  OBVIOUS
<1>6. /\ SubSeq(p, a + 1, b) \in Seq(S)
      /\ Len(SubSeq(p, a + 1, b)) = IF a + 1 <= b THEN b - (a + 1) + 1 ELSE 0
      /\ \A k \in 1 .. b - (a + 1) + 1 : SubSeq(p, a + 1, b)[k] = p[(a + 1) + k - 1]
  BY <1>4, <1>5, SubSeqProperties
<1>7. (IF a + 1 <= b THEN b - (a + 1) + 1 ELSE 0) = b - a /\ b - (a + 1) + 1 = b - a
  OBVIOUS
<1>8. \A k \in 1 .. b - a : (a + 1) + k - 1 = a + k
  OBVIOUS
<1> QED
  BY <1>6, <1>7, <1>8

(* Going on from the inode met after a names is the walk from the start. *)
LEMMA DownFrom ==
    ASSUME NEW S, NEW p \in Seq(S), NEW nd, NEW i, NEW a \in Nat, NEW b \in Nat, a <= b, b <= Len(p)
    PROVE  Down(nd, Trace(nd, i, p)[a], SubSeq(p, a + 1, b)) = Trace(nd, i, p)[b]
<1>1. PICK t : t = Trace(nd, i, p)
  OBVIOUS
<1>2. PICK m \in Nat : m = b - a
  OBVIOUS
<1>3. PICK q : q = SubSeq(p, a + 1, b)
  OBVIOUS
<1>4. Len(q) = m /\ \A k \in 1 .. m : q[k] = p[a + k]
  BY <1>2, <1>3, SubPath
<1>5. PICK n \in Nat : n = Len(p)
  BY LenProperties
<1>6. Walks(t, nd, i, p, n) /\ b <= n
  BY <1>1, <1>5, TraceWalks
<1>7. PICK g : g = Trace(nd, t[a], q)
  OBVIOUS
<1>8. Walks(g, nd, t[a], q, m)
  BY <1>4, <1>7, TraceWalks
<1>9. PICK h : h = [l \in 0 .. m |-> t[a + l]]
  OBVIOUS
<1>10. Walks(h, nd, t[a], q, m)
  <2>1. h[0] = t[a]
    BY <1>9
  <2>2. ASSUME NEW k \in 1 .. m PROVE h[k] = Step(nd, h[k - 1], q[k])
    <3>1. a + k \in 1 .. n /\ k - 1 \in 0 .. m /\ k \in 0 .. m /\ (a + k) - 1 = a + (k - 1)
      BY <1>2, <1>6
    <3>2. t[a + k] = Step(nd, t[(a + k) - 1], p[a + k])
      BY <1>6, <3>1 DEF Walks
    <3>3. h[k] = t[a + k] /\ h[k - 1] = t[a + (k - 1)]
      BY <1>9, <3>1
    <3> QED
      BY <1>4, <3>1, <3>2, <3>3
  <2> QED
    BY <2>1, <2>2 DEF Walks
<1>11. \A k \in 0 .. m : g[k] = h[k]
  BY <1>8, <1>10, WalksUnique
<1>12. g[m] = t[a + m] /\ a + m = b
  BY <1>2, <1>9, <1>11
<1> QED
  BY <1>1, <1>3, <1>4, <1>7, <1>12 DEF Down

LEMMA DownPrefix ==
    ASSUME NEW S, NEW p \in Seq(S), NEW nd, NEW i, NEW k \in Nat, k <= Len(p)
    PROVE  /\ Down(nd, i, Prefix(p, k)) = Trace(nd, i, p)[k]
           /\ Prefix(p, k) \in Seq(S) /\ Len(Prefix(p, k)) = k
           /\ \A l \in 1 .. k : Prefix(p, k)[l] = p[l]
<1>1. Trace(nd, i, p)[0] = i
  BY TraceWalks, LenProperties DEF Walks
<1>2. 0 \in Nat /\ 0 <= k /\ 0 + 1 = 1 /\ k - 0 = k /\ \A l \in 1 .. k : 0 + l = l
  OBVIOUS
<1>3. Down(nd, Trace(nd, i, p)[0], SubSeq(p, 0 + 1, k)) = Trace(nd, i, p)[k]
  BY <1>2, DownFrom
<1>4. /\ SubSeq(p, 0 + 1, k) \in Seq(S) /\ Len(SubSeq(p, 0 + 1, k)) = k - 0
      /\ \A l \in 1 .. k - 0 : SubSeq(p, 0 + 1, k)[l] = p[0 + l]
  BY <1>2, SubPath
<1> QED
  BY <1>1, <1>2, <1>3, <1>4 DEF Prefix

(* A path is its parent and its last name. *)
LEMMA ParentFact ==
    ASSUME NEW S, NEW p \in Seq(S), NEW m \in Nat, Len(p) = m + 1, NEW nd, NEW i
    PROVE  /\ Parent(p) \in Seq(S) /\ Len(Parent(p)) = m /\ Last(p) \in S /\ Last(p) = p[m + 1]
           /\ \A k \in 1 .. m : Parent(p)[k] = p[k]
           /\ Down(nd, i, Parent(p)) = Trace(nd, i, p)[m]
           /\ Down(nd, i, p) = Step(nd, Down(nd, i, Parent(p)), Last(p))
<1>1. (m + 1) - 1 = m /\ m <= m + 1 /\ m + 1 \in 1 .. m + 1
  OBVIOUS
<1>2. Parent(p) = Prefix(p, m) /\ Last(p) = p[m + 1] /\ m <= Len(p)
  BY <1>1 DEF Parent, Front, Prefix, Last
<1>3. /\ Down(nd, i, Parent(p)) = Trace(nd, i, p)[m]
      /\ Parent(p) \in Seq(S) /\ Len(Parent(p)) = m /\ \A k \in 1 .. m : Parent(p)[k] = p[k]
  BY <1>2, DownPrefix
<1>4. Trace(nd, i, p)[m + 1] = Step(nd, Trace(nd, i, p)[(m + 1) - 1], p[m + 1])
  BY <1>1, TraceWalks DEF Walks
<1>5. Last(p) \in S
  BY <1>1, <1>2, ElementOfSeq
<1> QED
  BY <1>1, <1>2, <1>3, <1>4, <1>5 DEF Down

(* What is met is inodes, and nothing once a name was not there. *)
LEMMA WalksTyped ==
    ASSUME NEW nd, Shaped(nd), NEW i \in Inodes \cup {None}, NEW p, NEW m \in Nat, NEW g, Walks(g, nd, i, p, m)
    PROVE  \A k \in 0 .. m : g[k] \in Inodes \cup {None}
<1> DEFINE Miss == {k \in Nat : k <= m /\ g[k] \notin Inodes \cup {None}}
<1> SUFFICES ASSUME Miss # {} PROVE FALSE
  OBVIOUS
<1>1. PICK n \in Miss : \A k \in Miss : n <= k
  BY Least
<1>2. n # 0
  BY DEF Walks
<1>3. n - 1 \in Nat /\ n - 1 \notin Miss /\ n \in 1 .. m
  BY <1>1, <1>2
<1>4. g[n - 1] \in Inodes \cup {None} /\ g[n] = Step(nd, g[n - 1], p[n])
  BY <1>3 DEF Walks
<1> QED
  BY <1>4, FindFact DEF Step

LEMMA NoneStays ==
    ASSUME NEW nd, NEW i, NEW p, NEW m \in Nat, NEW g, Walks(g, nd, i, p, m),
           NEW a \in 0 .. m, g[a] = None
    PROVE  \A k \in a .. m : g[k] = None
<1> DEFINE Miss == {k \in Nat : k >= a /\ k <= m /\ g[k] # None}
<1> SUFFICES ASSUME Miss # {} PROVE FALSE
  OBVIOUS
<1>1. PICK n \in Miss : \A k \in Miss : n <= k
  BY Least
<1>2. n # a
  OBVIOUS
<1>3. n - 1 \in Nat /\ n - 1 \notin Miss /\ n \in 1 .. m /\ n - 1 >= a
  BY <1>1, <1>2
<1>4. g[n - 1] = None /\ g[n] = Step(nd, g[n - 1], p[n])
  BY <1>3 DEF Walks
<1> QED
  BY <1>4 DEF Step

Same(p, q, a) == \A k \in 1 .. a : p[k] = q[k]

(* No two paths lead to one inode. *)
LEMMA UniquePath ==
    ASSUME NEW nd, NEW us, Shaped(nd), Tree(nd, us), NEW p \in Seq(Names), NEW q \in Seq(Names),
           NEW m \in Nat, NEW n \in Nat, m <= Len(p), n <= Len(q), NEW g, NEW h,
           Walks(g, nd, Root, p, m), Walks(h, nd, Root, q, n)
    PROVE  \A a \in 0 .. m : \A b \in 0 .. n : g[a] = h[b] /\ g[a] # None => a = b /\ Same(p, q, a)
<1> DEFINE Bad2(a) == \E b \in 0 .. n : g[a] = h[b] /\ g[a] # None /\ ~(a = b /\ Same(p, q, a))
           Miss == {a \in Nat : a <= m /\ Bad2(a)}
<1> SUFFICES ASSUME Miss # {} PROVE FALSE
  OBVIOUS
<1>1. PICK a \in Miss : \A k \in Miss : a <= k
  BY Least
<1>2. PICK b \in 0 .. n : g[a] = h[b] /\ g[a] # None /\ ~(a = b /\ Same(p, q, a))
  OBVIOUS
<1>3. /\ \A k \in 0 .. m : g[k] \in Inodes \cup {None}
      /\ \A k \in 0 .. n : h[k] \in Inodes \cup {None}
  BY WalksTyped, InodesFacts
<1>4. ASSUME NEW k \in 1 .. m, g[k] # None
      PROVE  /\ g[k - 1] \in Inodes /\ p[k] \in Names /\ g[k] = find(nd, g[k - 1], p[k])
             /\ g[k] # Root
  <2>1. k - 1 \in 0 .. m /\ g[k] = Step(nd, g[k - 1], p[k])
    BY DEF Walks
  <2>2. g[k - 1] # None /\ g[k] = find(nd, g[k - 1], p[k])
    BY <1>4, <2>1 DEF Step
  <2>3. PICK len \in Nat : len = Len(p)
    BY LenProperties
  <2>4. k \in 1 .. len
    BY <2>3
  <2>5. p[k] \in Names
    BY <2>3, <2>4, ElementOfSeq
  <2> QED
    BY <1>3, <1>4, <2>1, <2>2, <2>5 DEF Tree
<1>5. ASSUME NEW k \in 1 .. n, h[k] # None
      PROVE  /\ h[k - 1] \in Inodes /\ q[k] \in Names /\ h[k] = find(nd, h[k - 1], q[k])
             /\ h[k] # Root
  <2>1. k - 1 \in 0 .. n /\ h[k] = Step(nd, h[k - 1], q[k])
    BY DEF Walks
  <2>2. h[k - 1] # None /\ h[k] = find(nd, h[k - 1], q[k])
    BY <1>5, <2>1 DEF Step
  <2>3. PICK len \in Nat : len = Len(q)
    BY LenProperties
  <2>4. k \in 1 .. len
    BY <2>3
  <2>5. q[k] \in Names
    BY <2>3, <2>4, ElementOfSeq
  <2> QED
    BY <1>3, <1>5, <2>1, <2>2, <2>5 DEF Tree
<1>6. CASE a = 0
  <2>1. g[a] = Root
    BY <1>6 DEF Walks
  <2>2. b # 0
    BY <1>2, <1>6 DEF Same
  <2>3. b \in 1 .. n
    BY <2>2
  <2> QED
    BY <1>2, <1>5, <2>1, <2>3
<1>7. CASE a # 0
  <2>1. a \in 1 .. m
    BY <1>7
  <2>2. /\ g[a - 1] \in Inodes /\ p[a] \in Names /\ g[a] = find(nd, g[a - 1], p[a]) /\ g[a] # Root
    BY <1>2, <1>4, <2>1
  <2>3. b # 0
    BY <1>2, <2>2 DEF Walks
  <2>4. b \in 1 .. n
    BY <2>3
  <2>5. h[b - 1] \in Inodes /\ q[b] \in Names /\ h[b] = find(nd, h[b - 1], q[b])
    BY <1>2, <1>5, <2>4
  <2>6. g[a - 1] = h[b - 1] /\ p[a] = q[b]
    <3>1. \A d, e \in Inodes : \A x, y \in Names :
            find(nd, d, x) # None /\ find(nd, d, x) = find(nd, e, y) => d = e /\ x = y
      BY DEF Tree
    <3>2. find(nd, g[a - 1], p[a]) # None /\ find(nd, g[a - 1], p[a]) = find(nd, h[b - 1], q[b])
      BY <1>2, <2>2, <2>5
    <3>3. PICK d \in Inodes : d = g[a - 1]
      BY <2>2
    <3>4. PICK e \in Inodes : e = h[b - 1]
      BY <2>5
    <3>5. PICK x \in Names : x = p[a]
      BY <2>2
    <3>6. PICK y \in Names : y = q[b]
      BY <2>5
    <3>7. find(nd, d, x) # None /\ find(nd, d, x) = find(nd, e, y)
      BY <3>2, <3>3, <3>4, <3>5, <3>6
    <3>8. d = e /\ x = y
      BY <3>1, <3>7
    <3> QED
      BY <3>3, <3>4, <3>5, <3>6, <3>8
  <2>7. a - 1 \in Nat /\ a - 1 <= m /\ a - 1 \notin Miss /\ b - 1 \in 0 .. n
    BY <1>1, <2>1, <2>4
  <2>8. g[a - 1] # None
    BY <2>2, InodesFacts
  <2>9. a - 1 = b - 1 /\ Same(p, q, a - 1)
    BY <2>6, <2>7, <2>8
  <2>10. a = b
    BY <2>1, <2>4, <2>9
  <2>11. \A k \in 1 .. a : k \in 1 .. a - 1 \/ k = a
    BY <2>1
  <2> QED
    BY <1>2, <2>6, <2>9, <2>10, <2>11 DEF Same
<1> QED
  BY <1>6, <1>7

LEMMA PathFact ==
    ASSUME NEW p
    PROVE  p \in Paths <=> p \in Seq(Names) /\ Len(p) \in 1 .. Depth
<1>1. ASSUME p \in Paths PROVE p \in Seq(Names) /\ Len(p) \in 1 .. Depth
  <2>1. PICK k \in 1 .. Depth : p \in [1 .. k -> Names]
    BY <1>1 DEF Paths
  <2>2. k \in Nat
    BY VFSAssumption
  <2>3. p \in Seq(Names) /\ Len(p) = k
    BY <2>1, <2>2
  <2> QED
    BY <2>3
<1>2. ASSUME p \in Seq(Names), Len(p) \in 1 .. Depth PROVE p \in Paths
  <2>1. p \in [1 .. Len(p) -> Names]
    BY <1>2, LenProperties
  <2> QED
    BY <1>2, <2>1 DEF Paths
<1> QED
  BY <1>1, <1>2

(* The cache holds what the directories lead to. *)
Coherent(nd, c) ==
    /\ DOMAIN c \subseteq Paths /\ c \in [DOMAIN c -> Inodes]
    /\ \A q \in DOMAIN c : c[q] = Down(nd, Root, q)

(* resolve() from a coherent cache finds what the directories lead to, and *)
(* leaves the cache coherent.                                              *)
LEMMA ResolveFact ==
    ASSUME NEW nd, Shaped(nd), NEW c, Coherent(nd, c), NEW p \in Seq(Names), Len(p) <= Depth
    PROVE  resolve(nd, c, p).inode = Down(nd, Root, p) /\ Coherent(nd, resolve(nd, c, p).cache)
<1>1. PICK n \in Nat : n = Len(p)
  BY LenProperties
<1>2. PICK t : t = Trace(nd, Root, p)
  OBVIOUS
<1>3. Walks(t, nd, Root, p, n) /\ t[0] = Root /\ Down(nd, Root, p) = t[n]
  BY <1>1, <1>2, TraceWalks DEF Walks, Down
<1>4. \A k \in 0 .. n : t[k] \in Inodes \cup {None}
  BY <1>3, WalksTyped, InodesFacts
<1> DEFINE Hits == {0} \cup {k \in 1 .. Len(p) : Prefix(p, k) \in DOMAIN c}
<1>5. PICK hit : hit = Max(Hits)
  OBVIOUS
<1>6. hit \in Hits /\ hit \in 0 .. n
  <2>1. Hits \subseteq 0 .. n /\ Hits # {}
    BY <1>1
  <2> QED
    BY <1>5, <2>1, MaxFact
<1>7. PICK from : from = IF hit = 0 THEN Root ELSE c[Prefix(p, hit)]
  OBVIOUS
<1>8. from = t[hit] /\ from # None
  <2>1. CASE hit = 0
    BY <1>3, <1>7, <2>1, InodesFacts
  <2>2. CASE hit # 0
    <3>1. Prefix(p, hit) \in DOMAIN c /\ hit \in Nat /\ hit <= Len(p)
      BY <1>1, <1>6, <2>2
    <3>2. Down(nd, Root, Prefix(p, hit)) = t[hit]
      BY <1>2, <3>1, DownPrefix
    <3> QED
      BY <1>7, <2>2, <3>1, <3>2, InodesFacts DEF Coherent
  <2> QED
    BY <2>1, <2>2
<1>9. ASSUME NEW k \in hit .. n PROVE Down(nd, from, SubSeq(p, hit + 1, k)) = t[k]
  <2>1. hit \in Nat /\ k \in Nat /\ hit <= k /\ k <= Len(p)
    BY <1>1, <1>6
  <2> QED
    BY <1>2, <1>8, <2>1, DownFrom
<1> DEFINE Ends == {k \in hit .. Len(p) : Down(nd, from, SubSeq(p, hit + 1, k)) # None}
<1>10. PICK last : last = Max(Ends)
  OBVIOUS
<1>11. last \in hit .. n /\ t[last] # None /\ \A k \in hit .. n : t[k] # None => last >= k
  <2>1. Ends = {k \in hit .. n : t[k] # None}
    BY <1>1, <1>9
  <2> HIDE DEF Ends
  <2>2. hit \in Ends /\ Ends \subseteq 0 .. n
    BY <1>6, <1>8, <2>1
  <2>3. last \in Ends /\ \A k \in Ends : last >= k
    BY <1>10, <2>2, MaxFact
  <2> QED
    BY <2>1, <2>3
<1>12. PICK r : r = resolve(nd, c, p)
  OBVIOUS
<1>13. /\ r.inode = IF last = Len(p) THEN Down(nd, from, SubSeq(p, hit + 1, last)) ELSE None
       /\ r.cache = IF last > hit
                      THEN [q \in {Prefix(p, last)} |-> Down(nd, from, SubSeq(p, hit + 1, last))] ELSE c
  BY <1>5, <1>7, <1>10, <1>12 DEF resolve
<1>14. r.inode = t[n]
  <2>1. CASE last = n
    BY <1>1, <1>9, <1>11, <1>13, <2>1
  <2>2. CASE last # n
    <3>1. n \in hit .. n /\ ~(last >= n)
      BY <1>6, <1>11, <2>2
    <3> QED
      BY <1>1, <1>11, <1>13, <2>2, <3>1
  <2> QED
    BY <2>1, <2>2
<1>15. Coherent(nd, r.cache)
  <2>1. CASE ~(last > hit)
    BY <1>13, <2>1
  <2>2. CASE last > hit
    <3>1. PICK q : q = Prefix(p, last)
      OBVIOUS
    <3>2. last \in 1 .. Depth /\ last \in Nat /\ last <= Len(p)
      BY <1>1, <1>6, <1>11, <2>2, VFSAssumption
    <3>3. q \in Seq(Names) /\ Len(q) = last /\ Down(nd, Root, q) = t[last]
      BY <1>2, <3>1, <3>2, DownPrefix
    <3>4. q \in Paths
      BY <3>2, <3>3, PathFact
    <3>5. t[last] \in Inodes
      BY <1>4, <1>6, <1>11
    <3>6. r.cache = [x \in {q} |-> t[last]]
      BY <1>9, <1>11, <1>13, <2>2, <3>1
    <3> QED
      BY <3>3, <3>4, <3>5, <3>6 DEF Coherent
  <2> QED
    BY <2>1, <2>2
<1> QED
  BY <1>3, <1>12, <1>14, <1>15

(* The entry a path names. *)
Edge(nd, p, d, n) == d = Down(nd, Root, Parent(p)) /\ n = Last(p)

(* No entry changed but those two paths name. *)
Changes(nd, nd2, p, q) ==
    \A d \in Inodes : \A n \in Names :
      ~Edge(nd, p, d, n) /\ ~Edge(nd, q, d, n) => find(nd2, d, n) = find(nd, d, n)

(* A path that leads through neither of the entries that changed leads     *)
(* where it did.                                                           *)
LEMMA KeptPath ==
    ASSUME NEW nd, NEW nd2, NEW us, Shaped(nd), Tree(nd, us),
           NEW p \in Paths, NEW q \in Paths, NEW r \in Seq(Names),
           Changes(nd, nd2, p, q), ~IsPrefix(p, r), ~IsPrefix(q, r)
    PROVE  Down(nd2, Root, r) = Down(nd, Root, r)
<1>1. PICK m \in Nat : m = Len(r)
  BY LenProperties
<1>2. PICK t : t = Trace(nd, Root, r)
  OBVIOUS
<1>3. PICK u : u = Trace(nd2, Root, r)
  OBVIOUS
<1>4. Walks(t, nd, Root, r, m) /\ Walks(u, nd2, Root, r, m)
  BY <1>1, <1>2, <1>3, TraceWalks
<1> DEFINE Miss == {k \in Nat : k <= m /\ t[k] # u[k]}
<1>5. ASSUME Miss # {} PROVE FALSE
  <2>1. PICK k \in Miss : \A l \in Miss : k <= l
    BY <1>5, Least
  <2>2. k # 0
    BY <1>4 DEF Walks
  <2>3. k - 1 \in Nat /\ k - 1 \notin Miss /\ k \in 1 .. m /\ k - 1 \in 0 .. m
    BY <2>1, <2>2
  <2>4. PICK d : d = t[k - 1]
    OBVIOUS
  <2>5. d = u[k - 1] /\ t[k] = Step(nd, d, r[k]) /\ u[k] = Step(nd2, d, r[k])
    BY <1>4, <2>3, <2>4 DEF Walks
  <2>6. d # None /\ find(nd2, d, r[k]) # find(nd, d, r[k])
    BY <2>5 DEF Step
  <2>7. d \in Inodes
    BY <1>4, <2>3, <2>4, <2>6, WalksTyped, InodesFacts
  <2>8. r[k] \in Names
    BY <1>1, <2>3, ElementOfSeq
  <2>9. ASSUME NEW x \in Paths, Edge(nd, x, d, r[k]) PROVE IsPrefix(x, r)
    <3>1. x \in Seq(Names) /\ Len(x) \in 1 .. Depth
      BY PathFact
    <3>2. PICK n \in Nat : Len(x) = n + 1
      <4>1. PICK len \in 1 .. Depth : len = Len(x)
        BY <3>1
      <4>2. len - 1 \in Nat /\ len = (len - 1) + 1
        BY VFSAssumption
      <4> QED
        BY <4>1, <4>2
    <3>3. PICK g : g = Trace(nd, Root, x)
      OBVIOUS
    <3>4. Down(nd, Root, Parent(x)) = g[n] /\ Last(x) = x[n + 1]
      <4>1. x \in Seq(Names) /\ n \in Nat /\ Len(x) = n + 1
        BY <3>1, <3>2
      <4>2. Down(nd, Root, Parent(x)) = Trace(nd, Root, x)[n]
        BY <4>1, ParentFact
      <4>3. Last(x) = x[n + 1]
        BY <4>1 DEF Last
      <4> QED
        BY <3>3, <4>2, <4>3
    <3>5. Walks(g, nd, Root, x, n + 1)
      BY <3>2, <3>3, TraceWalks
    <3>6. n + 1 \in Nat /\ n + 1 <= Len(x) /\ m <= Len(r) /\ n \in 0 .. n + 1
      BY <1>1, <3>2
    <3>7. t[k - 1] = g[n] /\ t[k - 1] # None /\ r[k] = x[n + 1]
      BY <2>4, <2>6, <2>9, <3>4 DEF Edge
    <3>8. \A a \in 0 .. m : \A b \in 0 .. n + 1 : t[a] = g[b] /\ t[a] # None => a = b /\ Same(r, x, a)
      BY <1>4, <3>1, <3>5, <3>6, UniquePath
    <3>9. k - 1 = n /\ Same(r, x, n)
      BY <2>3, <3>6, <3>7, <3>8
    <3>10. k = n + 1
      BY <2>3, <3>9
    <3>11. \A l \in 1 .. n + 1 : l \in 1 .. n \/ l = n + 1
      OBVIOUS
    <3>12. \A l \in 1 .. n + 1 : r[l] = x[l]
      BY <3>7, <3>9, <3>10, <3>11 DEF Same
    <3>13. n + 1 <= Len(r)
      BY <1>1, <2>3, <3>10
    <3>14. PICK v : v = Prefix(r, n + 1)
      OBVIOUS
    <3>15. v \in Seq(Names) /\ Len(v) = n + 1 /\ \A l \in 1 .. n + 1 : v[l] = r[l]
      BY <3>6, <3>13, <3>14, DownPrefix
    <3>16. v = x
      BY <3>1, <3>2, <3>12, <3>15, SeqEqual
    <3>17. SubSeq(x, 1, Len(x)) = x
      BY <3>1, SubSeqFull
    <3> QED
      BY <3>2, <3>13, <3>14, <3>16, <3>17 DEF IsPrefix, Prefix
  <2> QED
    BY <2>6, <2>7, <2>8, <2>9 DEF Changes
<1>6. t[m] = u[m]
  BY <1>5
<1> QED
  BY <1>1, <1>2, <1>3, <1>6 DEF Down

-----------------------------------------------------------------------------
(***************************************************************************)
(* The inductive invariant: the directories are a tree, the cache agrees   *)
(* with it, and a handle is on a marked file.                              *)
(***************************************************************************)
Sound == Shaped(node) /\ Tree(node, used) /\ used \subseteq Inodes /\ Root \in used

HandlesOn(i) == {fd \in DOMAIN fd_manager : fd_manager[fd] = i}

HandleTables ==
    /\ fd_counter \in FirstFd .. FirstFd + MaxOpens
    /\ DOMAIN fd_manager \subseteq FirstFd .. fd_counter - 1
    /\ fd_manager \in [DOMAIN fd_manager -> Targets]
    /\ DOMAIN reference_count \subseteq Targets
    /\ reference_count \in [DOMAIN reference_count -> Nat]

Counted == \A i \in Targets : Count(i) = Cardinality(HandlesOn(i))

OnFiles ==
    \A fd \in DOMAIN fd_manager :
      fd_manager[fd] = Bad \/ (fd_manager[fd] \in used /\ node[fd_manager[fd]].type = "file")

IInv ==
    /\ Sound
    /\ Coherent(node, path_cache)
    /\ HandleTables /\ Counted /\ OnFiles

LEMMA HandlesFinite ==
    ASSUME HandleTables, NEW i
    PROVE  IsFiniteSet(HandlesOn(i)) /\ Cardinality(HandlesOn(i)) \in Nat
<1>1. fd_counter - 1 \in Int /\ FirstFd \in Int
  BY VFSAssumption DEF HandleTables, FirstFd
<1>2. IsFiniteSet(FirstFd .. fd_counter - 1)
  BY <1>1, FS_Interval
<1>3. HandlesOn(i) \subseteq FirstFd .. fd_counter - 1
  BY DEF HandlesOn, HandleTables
<1> QED
  BY <1>2, <1>3, FS_Subset, FS_CardinalityType

(* FDManager::open() *)
LEMMA OpenFact ==
    ASSUME HandleTables, Counted, NEW i \in Targets, OpenHandle(i)
    PROVE  /\ HandleTables' /\ Counted'
           /\ DOMAIN fd_manager' = DOMAIN fd_manager \cup {fd_counter}
           /\ \A fd \in DOMAIN fd_manager' : fd_manager'[fd] = IF fd = fd_counter THEN i ELSE fd_manager[fd]
<1>1. /\ fd_counter \in Nat /\ fd_counter < FirstFd + MaxOpens /\ fd_counter' = fd_counter + 1
      /\ FirstFd \in Nat /\ MaxOpens \in Nat /\ fd_counter >= FirstFd
  BY VFSAssumption DEF HandleTables, OpenHandle, FirstFd
<1>2. /\ DOMAIN fd_manager' = DOMAIN fd_manager \cup {fd_counter}
      /\ \A fd \in DOMAIN fd_manager' : fd_manager'[fd] = IF fd = fd_counter THEN i ELSE fd_manager[fd]
      /\ fd_manager' = [fd \in DOMAIN fd_manager' |-> fd_manager'[fd]]
  BY DEF OpenHandle, Put
<1>3. fd_counter \notin DOMAIN fd_manager
  BY <1>1 DEF HandleTables
<1>4. /\ DOMAIN reference_count' = DOMAIN reference_count \cup {i}
      /\ \A x \in DOMAIN reference_count' : reference_count'[x] = IF x = i THEN Count(i) + 1 ELSE reference_count[x]
      /\ reference_count' = [x \in DOMAIN reference_count' |-> reference_count'[x]]
  BY DEF OpenHandle, deltaRefCnt, Put
<1>5. Count(i) \in Nat
  BY HandlesFinite DEF Counted
<1>6. HandleTables'
  <2>1. fd_counter' \in FirstFd .. FirstFd + MaxOpens
    BY <1>1
  <2>2. DOMAIN fd_manager' \subseteq FirstFd .. fd_counter' - 1
    BY <1>1, <1>2 DEF HandleTables
  <2>3. \A fd \in DOMAIN fd_manager : fd_manager[fd] \in Targets
    BY DEF HandleTables
  <2>4. fd_manager' \in [DOMAIN fd_manager' -> Targets]
    BY <1>2, <2>3
  <2>5. \A x \in DOMAIN reference_count : reference_count[x] \in Nat
    BY DEF HandleTables
  <2>6. reference_count' \in [DOMAIN reference_count' -> Nat]
    BY <1>4, <1>5, <2>5
  <2>7. DOMAIN reference_count' \subseteq Targets
    BY <1>4 DEF HandleTables
  <2> QED
    BY <2>1, <2>2, <2>4, <2>6, <2>7 DEF HandleTables
<1>7. ASSUME NEW x \in Targets PROVE Count(x)' = Cardinality(HandlesOn(x))'
  <2>1. CASE x = i
    <3>1. HandlesOn(x)' = HandlesOn(x) \cup {fd_counter} /\ fd_counter \notin HandlesOn(x)
      BY <1>2, <1>3, <2>1 DEF HandlesOn
    <3>2. Cardinality(HandlesOn(x) \cup {fd_counter}) = Cardinality(HandlesOn(x)) + 1
      BY <3>1, HandlesFinite, FS_AddElement
    <3>3. Count(x)' = Count(x) + 1
      BY <1>4, <2>1 DEF Count
    <3> QED
      BY <3>1, <3>2, <3>3 DEF Counted
  <2>2. CASE x # i
    <3>1. HandlesOn(x)' = HandlesOn(x)
      BY <1>2, <1>3, <2>2 DEF HandlesOn
    <3>2. Count(x)' = Count(x)
      BY <1>4, <2>2 DEF Count
    <3> QED
      BY <3>1, <3>2 DEF Counted
  <2> QED
    BY <2>1, <2>2
<1> QED
  BY <1>2, <1>6, <1>7 DEF Counted

(* FDManager::close() *)
LEMMA ReleaseFact ==
    ASSUME IInv, NEW fd \in DOMAIN fd_manager, sb_release(fd)
    PROVE  IInv'
<1>1. PICK i : i = fd_manager[fd]
  OBVIOUS
<1>2. i \in Targets /\ HandleTables /\ Counted /\ OnFiles
  BY <1>1 DEF IInv, HandleTables
<1>3. /\ DOMAIN fd_manager' = DOMAIN fd_manager \ {fd}
      /\ \A x \in DOMAIN fd_manager' : fd_manager'[x] = fd_manager[x]
      /\ fd_manager' = [x \in DOMAIN fd_manager' |-> fd_manager'[x]]
  BY DEF sb_release, Restrict
<1>4. /\ DOMAIN reference_count' = DOMAIN reference_count \cup {i}
      /\ \A x \in DOMAIN reference_count' : reference_count'[x] = IF x = i THEN Count(i) + (-1) ELSE reference_count[x]
      /\ reference_count' = [x \in DOMAIN reference_count' |-> reference_count'[x]]
  BY <1>1 DEF sb_release, deltaRefCnt, Put
<1>5. UNCHANGED <<node, used, path_cache, fd_counter>>
  BY DEF sb_release
<1>6. /\ IsFiniteSet(HandlesOn(i)) /\ Cardinality(HandlesOn(i)) \in Nat
      /\ fd \in HandlesOn(i) /\ Count(i) = Cardinality(HandlesOn(i))
  BY <1>1, <1>2, HandlesFinite DEF HandlesOn, Counted
<1>7. Cardinality(HandlesOn(i) \ {fd}) = Cardinality(HandlesOn(i)) - 1 /\ Cardinality(HandlesOn(i) \ {fd}) \in Nat
  <2>1. IsFiniteSet(HandlesOn(i) \ {fd})
    BY <1>6, FS_RemoveElement
  <2> QED
    BY <1>6, <2>1, FS_RemoveElement, FS_CardinalityType
<1>8. Count(i) + (-1) \in Nat /\ Count(i) + (-1) = Cardinality(HandlesOn(i) \ {fd})
  BY <1>6, <1>7
<1>9. HandleTables'
  <2>1. \A x \in DOMAIN fd_manager : fd_manager[x] \in Targets
    BY <1>2 DEF HandleTables
  <2>2. fd_manager' \in [DOMAIN fd_manager' -> Targets]
    BY <1>3, <2>1
  <2>3. \A x \in DOMAIN reference_count : reference_count[x] \in Nat
    BY <1>2 DEF HandleTables
  <2>4. reference_count' \in [DOMAIN reference_count' -> Nat]
    BY <1>4, <1>8, <2>3
  <2>5. DOMAIN reference_count' \subseteq Targets
    BY <1>2, <1>4 DEF HandleTables
  <2> QED
    BY <1>2, <1>3, <1>5, <2>2, <2>4, <2>5 DEF HandleTables
<1>10. ASSUME NEW x \in Targets PROVE Count(x)' = Cardinality(HandlesOn(x))'
  <2>1. CASE x = i
    <3>1. HandlesOn(x)' = HandlesOn(x) \ {fd}
      BY <1>3, <2>1 DEF HandlesOn
    <3>2. Count(x)' = Count(x) + (-1)
      BY <1>4, <2>1 DEF Count
    <3> QED
      BY <1>8, <2>1, <3>1, <3>2
  <2>2. CASE x # i
    <3>1. HandlesOn(x)' = HandlesOn(x)
      BY <1>1, <1>3, <2>2 DEF HandlesOn
    <3>2. Count(x)' = Count(x)
      BY <1>4, <2>2 DEF Count
    <3> QED
      BY <1>2, <3>1, <3>2 DEF Counted
  <2> QED
    BY <2>1, <2>2
<1>11. OnFiles'
  BY <1>2, <1>3, <1>5 DEF OnFiles
<1>12. Sound' /\ Coherent(node, path_cache)'
  BY <1>5 DEF IInv, Sound
<1> QED
  BY <1>9, <1>10, <1>11, <1>12 DEF IInv, Counted

(* Handles that an operation does not touch. *)
LEMMA HandlesStay ==
    ASSUME HandleTables, Counted, UNCHANGED handles
    PROVE  HandleTables' /\ Counted'
<1>1. fd_manager' = fd_manager /\ reference_count' = reference_count /\ fd_counter' = fd_counter
  BY DEF handles
<1>2. \A i \in Targets : Count(i)' = Count(i) /\ HandlesOn(i)' = HandlesOn(i)
  BY <1>1 DEF Count, HandlesOn
<1> QED
  BY <1>1, <1>2 DEF HandleTables, Counted

-----------------------------------------------------------------------------
(***************************************************************************)
(* Paths and the cache across a step.                                      *)
(***************************************************************************)
LEMMA PathParts ==
    ASSUME NEW p \in Paths, NEW nd
    PROVE  /\ p \in Seq(Names) /\ Len(p) <= Depth
           /\ Parent(p) \in Seq(Names) /\ Len(Parent(p)) <= Depth /\ Len(Parent(p)) < Len(p)
           /\ Last(p) \in Names
           /\ Down(nd, Root, p) = Step(nd, Down(nd, Root, Parent(p)), Last(p))
<1>1. p \in Seq(Names) /\ Len(p) \in 1 .. Depth
  BY PathFact
<1>2. PICK len \in 1 .. Depth : len = Len(p)
  BY <1>1
<1>3. PICK m \in Nat : m = len - 1
  BY VFSAssumption
<1>4. Len(p) = m + 1 /\ m + 1 <= Depth /\ m <= Depth /\ m < m + 1
  BY <1>2, <1>3, VFSAssumption
<1>5. /\ Parent(p) \in Seq(Names) /\ Len(Parent(p)) = m /\ Last(p) \in Names
      /\ Down(nd, Root, p) = Step(nd, Down(nd, Root, Parent(p)), Last(p))
  BY <1>1, <1>4, ParentFact
<1> QED
  BY <1>1, <1>4, <1>5

LEMMA DownTyped ==
    ASSUME NEW nd, Shaped(nd), NEW p \in Seq(Names)
    PROVE  Down(nd, Root, p) \in Inodes \cup {None}
<1>1. PICK m \in Nat : m = Len(p)
  BY LenProperties
<1>2. PICK t : t = Trace(nd, Root, p)
  OBVIOUS
<1>3. Walks(t, nd, Root, p, m)
  BY <1>1, <1>2, TraceWalks
<1>4. Root \in Inodes \cup {None}
  BY InodesFacts
<1>5. \A k \in 0 .. m : t[k] \in Inodes \cup {None}
  BY <1>3, <1>4, WalksTyped
<1>6. t[m] \in Inodes \cup {None}
  BY <1>5
<1> QED
  BY <1>1, <1>2, <1>6 DEF Down

(* What begins with p begins with p as a string. *)
LEMMA PrefixFacts ==
    ASSUME NEW p \in Paths, NEW r \in Seq(Names), IsPrefix(p, r)
    PROVE  StartsWith(p, r) /\ \A nd : Down(nd, Root, p) = None => Down(nd, Root, r) = None
<1>1. p \in Seq(Names) /\ Len(p) \in 1 .. Depth
  BY PathFact
<1>2. PICK k \in 1 .. Depth : k = Len(p)
  BY <1>1
<1>3. PICK m \in Nat : m = Len(r)
  BY LenProperties
<1>4. k \in Nat /\ k <= m /\ k <= Len(r) /\ p = Prefix(r, k)
  <2>1. SubSeq(p, 1, Len(p)) = p
    BY <1>1, SubSeqFull
  <2> QED
    BY <1>2, <1>3, <2>1, VFSAssumption DEF IsPrefix, Prefix
<1>5. \A l \in 1 .. k : p[l] = r[l]
  BY <1>4, DownPrefix
<1>6. PICK n \in Nat : n = k - 1
  BY VFSAssumption
<1>7. n <= Len(r) /\ n <= Len(p) /\ \A l \in 1 .. n : l \in 1 .. k
  <2>1. n <= m /\ n <= k /\ \A l \in 1 .. n : l \in 1 .. k
    BY <1>4, <1>6
  <2> QED
    BY <1>2, <1>3, <2>1
<1>8. Prefix(r, n) = Prefix(p, n)
  <2>1. /\ Prefix(r, n) \in Seq(Names) /\ Len(Prefix(r, n)) = n
        /\ \A l \in 1 .. n : Prefix(r, n)[l] = r[l]
    BY <1>7, DownPrefix
  <2>2. /\ Prefix(p, n) \in Seq(Names) /\ Len(Prefix(p, n)) = n
        /\ \A l \in 1 .. n : Prefix(p, n)[l] = p[l]
    BY <1>1, <1>7, DownPrefix
  <2> QED
    BY <1>5, <1>7, <2>1, <2>2, SeqEqual
<1>9. StartsWith(p, r)
  <2>1. r[k] = p[k] /\ Len(r) >= k
    BY <1>3, <1>4, <1>5
  <2> QED
    BY <1>2, <1>6, <1>8, <2>1 DEF StartsWith
<1>10. ASSUME NEW nd, Down(nd, Root, p) = None PROVE Down(nd, Root, r) = None
  <2>1. PICK t : t = Trace(nd, Root, r)
    OBVIOUS
  <2>2. Walks(t, nd, Root, r, m)
    BY <1>3, <2>1, TraceWalks
  <2>3. Down(nd, Root, p) = t[k]
    BY <1>4, <2>1, DownPrefix
  <2>4. k \in 0 .. m /\ t[k] = None /\ m \in k .. m
    BY <1>4, <1>10, <2>3
  <2>5. t[m] = None
    BY <2>2, <2>4, NoneStays
  <2> QED
    BY <1>3, <2>1, <2>5 DEF Down
<1> QED
  BY <1>9, <1>10

(* c2 is what is left of c. *)
Part(c2, c) ==
    DOMAIN c2 \subseteq DOMAIN c /\ c2 \in [DOMAIN c2 -> Inodes] /\ \A x \in DOMAIN c2 : c2[x] = c[x]

LEMMA RemovedFact ==
    ASSUME NEW c, DOMAIN c \subseteq Paths, c \in [DOMAIN c -> Inodes], NEW p \in Paths
    PROVE  Part(removePrefix(c, p), c) /\ \A x \in DOMAIN removePrefix(c, p) : ~IsPrefix(p, x)
<1>1. PICK S : S = {q \in DOMAIN c : ~StartsWith(p, q)}
  OBVIOUS
<1>2. removePrefix(c, p) = [x \in S |-> c[x]]
  BY <1>1 DEF removePrefix, Restrict
<1>3. \A x \in S : x \in DOMAIN c /\ x \in Seq(Names) /\ ~IsPrefix(p, x) /\ c[x] \in Inodes
  BY <1>1, PathFact, PrefixFacts
<1> QED
  BY <1>2, <1>3 DEF Part

(* The part of the cache that the changed entries leave alone. *)
LEMMA CacheStep ==
    ASSUME NEW nd, NEW nd2, NEW us, Shaped(nd), Tree(nd, us), NEW p \in Paths, NEW q \in Paths,
           Changes(nd, nd2, p, q), NEW c, Coherent(nd, c), NEW c2, Part(c2, c),
           \A x \in DOMAIN c2 : ~IsPrefix(p, x) /\ ~IsPrefix(q, x)
    PROVE  Coherent(nd2, c2)
<1>1. ASSUME NEW x \in DOMAIN c2 PROVE c2[x] = Down(nd2, Root, x)
  <2>1. x \in DOMAIN c /\ c2[x] = c[x] /\ x \in Seq(Names)
    BY PathFact DEF Part, Coherent
  <2>2. Down(nd2, Root, x) = Down(nd, Root, x)
    BY <2>1, KeptPath
  <2> QED
    BY <2>1, <2>2 DEF Coherent
<1> QED
  BY <1>1 DEF Coherent, Part

(* resolve() of a path below the depth, from the state. *)
LEMMA ResolveNow ==
    ASSUME IInv, NEW p \in Seq(Names), Len(p) <= Depth
    PROVE  /\ resolve(node, path_cache, p).inode = Walk(p)
           /\ Coherent(node, resolve(node, path_cache, p).cache)
           /\ Walk(p) \in Inodes \cup {None}
<1>1. Shaped(node) /\ Coherent(node, path_cache)
  BY DEF IInv, Sound
<1> QED
  BY <1>1, ResolveFact, DownTyped DEF Walk, resolveNoCache

(***************************************************************************)
(* The callbacks keep the invariant, and change no entries but those their *)
(* paths name.                                                             *)
(***************************************************************************)
LEMMA NowFact ==
    ASSUME IInv, NEW r
    PROVE  Good(Now(r)) /\ Now(r).node = node /\ Now(r).used = used /\ Now(r).short = FALSE
<1>1. Now(r).node = node /\ Now(r).used = used /\ Now(r).short = FALSE
  BY DEF Now, Disk
<1> QED
  BY <1>1 DEF Good, IInv, Sound

(* The directory a path is in, and the entry it names. *)
LEMMA Home ==
    ASSUME IInv, NEW p \in Paths, There(p) \/ There(Parent(p))
    PROVE  /\ Walk(Parent(p)) \in Inodes /\ Last(p) \in Names
           /\ Walk(p) = find(node, Walk(Parent(p)), Last(p))
           /\ Walk(p) \in Inodes \cup {None}
           /\ There(p) => node[Walk(Parent(p))].type = "dir"
           /\ resolve(node, path_cache, Parent(p)).inode = Walk(Parent(p))
           /\ Coherent(node, resolve(node, path_cache, Parent(p)).cache)
<1>1. /\ p \in Seq(Names) /\ Len(p) <= Depth
      /\ Parent(p) \in Seq(Names) /\ Len(Parent(p)) <= Depth /\ Last(p) \in Names
      /\ Down(node, Root, p) = Step(node, Down(node, Root, Parent(p)), Last(p))
  BY PathParts
<1>2. /\ resolve(node, path_cache, Parent(p)).inode = Walk(Parent(p))
      /\ Coherent(node, resolve(node, path_cache, Parent(p)).cache)
      /\ Walk(Parent(p)) \in Inodes \cup {None}
  BY <1>1, ResolveNow
<1>3. Walk(p) \in Inodes \cup {None}
  BY <1>1, ResolveNow
<1>4. Walk(Parent(p)) # None
  BY <1>1 DEF There, Walk, resolveNoCache, Step
<1>5. Walk(p) = find(node, Walk(Parent(p)), Last(p))
  BY <1>1, <1>4 DEF Walk, resolveNoCache, Step
<1>6. Shaped(node)
  BY DEF IInv, Sound
<1>7. There(p) => node[Walk(Parent(p))].type = "dir"
  BY <1>2, <1>4, <1>5, <1>6, FindFact DEF There
<1> QED
  BY <1>1, <1>2, <1>3, <1>4, <1>5, <1>7

LEMMA OneChange ==
    ASSUME NEW nd, NEW nd2, NEW p, NEW v,
           SameEdges(nd, nd2) \/ OneEdge(nd, nd2, Down(nd, Root, Parent(p)), Last(p), v)
    PROVE  Changes(nd, nd2, p, p)
  BY DEF Changes, Edge, SameEdges, OneEdge

(* sb_mkdir() and sb_create(), but for the handle. *)
LEMMA CreateStep ==
    ASSUME IInv, NEW p \in Paths, MayCreate(p), NEW r, NEW type \in {"file", "dir"}, NEW made,
           made = create(Now(r), resolve(node, path_cache, Parent(p)).inode, Last(p), type),
           SetDisk(made.disk), path_cache' = resolve(node, path_cache, Parent(p)).cache
    PROVE  /\ Sound' /\ Coherent(node', path_cache') /\ Changes(node, node', p, p)
           /\ made.inode \in Targets /\ made.inode \notin used
           /\ used \subseteq used'
           /\ \A i \in used : node'[i].type = node[i].type
           /\ type = "file" /\ made.inode # Bad => made.inode \in used' /\ node'[made.inode].type = "file"
<1>1. PICK d : d = Walk(Parent(p))
  OBVIOUS
<1>2. PICK n : n = Last(p)
  OBVIOUS
<1>3. /\ d \in Inodes /\ n \in Names /\ node[d].type = "dir" /\ find(node, d, n) = None
      /\ resolve(node, path_cache, Parent(p)).inode = d
      /\ Coherent(node, path_cache')
  BY <1>1, <1>2, Home DEF MayCreate, Dir, There
<1>4. PICK F : F = Now(r)
  OBVIOUS
<1>5. Good(F) /\ F.node = node /\ F.used = used
  BY <1>4, NowFact
<1>6. Shaped(node) /\ Tree(node, used) /\ used \subseteq Inodes /\ Root \in used
  BY DEF IInv, Sound
<1>7. made = create(F, d, n, type)
  BY <1>2, <1>3, <1>4
<1>8. Created(F, made.disk, made.inode, d, n, type)
  BY <1>3, <1>5, <1>6, <1>7, CreateFact
<1>9. node' = made.disk.node /\ used' = made.disk.used
  BY DEF SetDisk
<1>10. Shaped(node') /\ Tree(node', used') /\ used' \subseteq Inodes
  BY <1>8, <1>9 DEF Created, Good
<1>11. used' = used \cup ({made.inode} \ {Bad}) /\ made.inode \in Targets /\ made.inode \notin used
  BY <1>5, <1>8, <1>9 DEF Created, Targets
<1>12. SameEdges(node, node') \/ OneEdge(node, node', d, n, made.inode)
  BY <1>5, <1>8, <1>9 DEF Created
<1>13. Changes(node, node', p, p)
  BY <1>1, <1>2, <1>12, OneChange DEF Walk, resolveNoCache
<1>14. \A i \in used : node'[i].type = node[i].type
  BY <1>5, <1>6, <1>8, <1>9 DEF Created
<1>15. type = "file" /\ made.inode # Bad => made.inode \in used' /\ node'[made.inode].type = "file"
  BY <1>8, <1>9, <1>11 DEF Created
<1>16. Coherent(node', path_cache')
  <2>1. ASSUME NEW x \in DOMAIN path_cache' PROVE ~IsPrefix(p, x)
    <3>1. x \in Seq(Names) /\ path_cache'[x] = Down(node, Root, x) /\ path_cache'[x] \in Inodes
      BY <1>3, PathFact DEF Coherent
    <3>2. Down(node, Root, x) # None
      BY <3>1, InodesFacts
    <3>3. Down(node, Root, p) = None
      BY DEF MayCreate, There, Walk, resolveNoCache
    <3> QED
      BY <3>1, <3>2, <3>3, PrefixFacts
  <2>2. Part(path_cache', path_cache')
    BY <1>3 DEF Coherent, Part
  <2> QED
    BY <1>3, <1>6, <1>13, <2>1, <2>2, CacheStep
<1> QED
  BY <1>6, <1>10, <1>11, <1>13, <1>14, <1>15, <1>16 DEF Sound

LEMMA MkdirStep ==
    ASSUME IInv, NEW p \in Paths, sb_mkdir(p)
    PROVE  IInv' /\ Changes(node, node', p, p) /\ ret'.op = "mkdir" /\ ret'.path = p /\ ret'.to = p
<1>1. PICK r \in Room :
        LET made == create(Now(r), resolve(node, path_cache, Parent(p)).inode, Last(p), "dir")
        IN  SetDisk(made.disk) /\ ret' = Answer("mkdir", p, p, made.disk.short)
  BY DEF sb_mkdir
<1>2. PICK made : made = create(Now(r), resolve(node, path_cache, Parent(p)).inode, Last(p), "dir")
  OBVIOUS
<1>3. SetDisk(made.disk) /\ ret'.op = "mkdir" /\ ret'.path = p /\ ret'.to = p
  BY <1>1, <1>2 DEF Answer
<1>4. MayCreate(p) /\ path_cache' = resolve(node, path_cache, Parent(p)).cache /\ UNCHANGED handles
  BY DEF sb_mkdir
<1>5. /\ Sound' /\ Coherent(node', path_cache') /\ Changes(node, node', p, p)
      /\ used \subseteq used' /\ \A i \in used : node'[i].type = node[i].type
  BY <1>2, <1>3, <1>4, CreateStep
<1>6. HandleTables' /\ Counted'
  BY <1>4, HandlesStay DEF IInv
<1>7. OnFiles'
  BY <1>4, <1>5 DEF IInv, OnFiles, handles
<1> QED
  BY <1>3, <1>5, <1>6, <1>7 DEF IInv

LEMMA CreateFileStep ==
    ASSUME IInv, NEW p \in Paths, sb_create(p)
    PROVE  IInv' /\ Changes(node, node', p, p) /\ ret'.op = "create" /\ ret'.path = p /\ ret'.to = p
<1>1. PICK r \in Room :
        LET made == create(Now(r), resolve(node, path_cache, Parent(p)).inode, Last(p), "file")
        IN  SetDisk(made.disk) /\ OpenHandle(made.inode) /\ ret' = Answer("create", p, p, made.disk.short)
  BY DEF sb_create
<1>2. PICK made : made = create(Now(r), resolve(node, path_cache, Parent(p)).inode, Last(p), "file")
  OBVIOUS
<1>3. SetDisk(made.disk) /\ OpenHandle(made.inode) /\ ret'.op = "create" /\ ret'.path = p /\ ret'.to = p
  BY <1>1, <1>2 DEF Answer
<1>4. MayCreate(p) /\ path_cache' = resolve(node, path_cache, Parent(p)).cache
  BY DEF sb_create
<1>5. /\ Sound' /\ Coherent(node', path_cache') /\ Changes(node, node', p, p)
      /\ used \subseteq used' /\ made.inode \in Targets
      /\ \A i \in used : node'[i].type = node[i].type
      /\ made.inode # Bad => made.inode \in used' /\ node'[made.inode].type = "file"
  BY <1>2, <1>3, <1>4, CreateStep
<1>6. HandleTables /\ Counted /\ OnFiles
  BY DEF IInv
<1>7. /\ HandleTables' /\ Counted'
      /\ DOMAIN fd_manager' = DOMAIN fd_manager \cup {fd_counter}
      /\ \A fd \in DOMAIN fd_manager' : fd_manager'[fd] = IF fd = fd_counter THEN made.inode ELSE fd_manager[fd]
  BY <1>3, <1>5, <1>6, OpenFact
<1>8. OnFiles'
  BY <1>5, <1>6, <1>7 DEF OnFiles
<1> QED
  BY <1>3, <1>5, <1>7, <1>8 DEF IInv

(* A path does not lead where the path above it leads. *)
LEMMA ParentApart ==
    ASSUME IInv, NEW p \in Paths, There(p)
    PROVE  Walk(p) # Walk(Parent(p))
<1>1. /\ p \in Seq(Names) /\ Parent(p) \in Seq(Names) /\ Len(Parent(p)) < Len(p)
  BY PathParts
<1>2. PICK m \in Nat : m = Len(p)
  BY <1>1, LenProperties
<1>3. PICK n \in Nat : n = Len(Parent(p))
  BY <1>1, LenProperties
<1>4. PICK g : g = Trace(node, Root, p)
  OBVIOUS
<1>5. PICK h : h = Trace(node, Root, Parent(p))
  OBVIOUS
<1>6. Walks(g, node, Root, p, m) /\ Walks(h, node, Root, Parent(p), n)
  BY <1>2, <1>3, <1>4, <1>5, TraceWalks
<1>7. Walk(p) = g[m] /\ Walk(Parent(p)) = h[n]
  BY <1>2, <1>3, <1>4, <1>5 DEF Walk, resolveNoCache, Down
<1>8. Shaped(node) /\ Tree(node, used)
  BY DEF IInv, Sound
<1>9. m <= Len(p) /\ n <= Len(Parent(p)) /\ m \in 0 .. m /\ n \in 0 .. n /\ m # n
  BY <1>1, <1>2, <1>3
<1>10. \A a \in 0 .. m : \A b \in 0 .. n : g[a] = h[b] /\ g[a] # None => a = b /\ Same(p, Parent(p), a)
  BY <1>1, <1>6, <1>8, <1>9, UniquePath
<1> QED
  BY <1>7, <1>9, <1>10 DEF There

(* remove() of the entry a path names, by sb_rmdir() and sb_unlink(). *)
LEMMA RemoveStep ==
    ASSUME IInv, NEW p \in Paths, There(p),
           \A m \in Names : find(node, Walk(p), m) = None, ~IsOpen(Walk(p)),
           SetDisk(remove(Now(0), resolve(node, path_cache, Parent(p)).inode, Last(p))),
           path_cache' = removePrefix(resolve(node, path_cache, Parent(p)).cache, p),
           UNCHANGED handles
    PROVE  IInv' /\ Changes(node, node', p, p)
<1>1. PICK d : d = Walk(Parent(p))
  OBVIOUS
<1>2. PICK n : n = Last(p)
  OBVIOUS
<1>3. PICK i : i = Walk(p)
  OBVIOUS
<1>4. PICK c : c = resolve(node, path_cache, Parent(p)).cache
  OBVIOUS
<1>5. /\ d \in Inodes /\ n \in Names /\ i = find(node, d, n) /\ i # None
      /\ resolve(node, path_cache, Parent(p)).inode = d /\ Coherent(node, c)
  BY <1>1, <1>2, <1>3, <1>4, Home DEF There
<1>6. i # d
  BY <1>1, <1>3, ParentApart
<1>7. PICK F : F = Now(0)
  OBVIOUS
<1>8. Good(F) /\ F.node = node /\ F.used = used
  BY <1>7, NowFact
<1>9. Shaped(node) /\ Tree(node, used) /\ used \subseteq Inodes /\ Root \in used
  BY DEF IInv, Sound
<1>10. PICK G : G = remove(F, d, n)
  OBVIOUS
<1>11. i = find(F.node, d, n) /\ \A m \in Names : find(F.node, i, m) = None
  BY <1>3, <1>5, <1>8
<1>12. /\ Good(G) /\ G.used = used \ {i} /\ OneEdge(node, G.node, d, n, None)
       /\ \A e \in Inodes \ {i} : G.node[e].type = node[e].type
  BY <1>5, <1>6, <1>8, <1>10, <1>11, RemoveFact
<1>13. node' = G.node /\ used' = used \ {i}
  BY <1>2, <1>5, <1>7, <1>10, <1>12 DEF SetDisk
<1>14. Changes(node, node', p, p)
  BY <1>1, <1>2, <1>12, <1>13, OneChange DEF Walk, resolveNoCache
<1>15. Shaped(node') /\ Tree(node', used') /\ used' \subseteq Inodes
  BY <1>12, <1>13 DEF Good
<1>16. Root \in used'
  <2>1. i \in used \ {Root}
    BY <1>5, <1>9 DEF Tree
  <2> QED
    BY <1>9, <1>13, <2>1
<1>17. Coherent(node', path_cache')
  <2>1. DOMAIN c \subseteq Paths /\ c \in [DOMAIN c -> Inodes] /\ path_cache' = removePrefix(c, p)
    BY <1>4, <1>5 DEF Coherent
  <2>2. Part(path_cache', c) /\ \A x \in DOMAIN path_cache' : ~IsPrefix(p, x)
    BY <2>1, RemovedFact
  <2> QED
    BY <1>5, <1>9, <1>14, <2>2, CacheStep
<1>18. HandleTables' /\ Counted'
  BY HandlesStay DEF IInv
<1>19. OnFiles'
  <2>1. \A fd \in DOMAIN fd_manager : fd_manager[fd] # i
    BY <1>3 DEF IsOpen
  <2> QED
    BY <1>9, <1>12, <1>13, <2>1 DEF IInv, OnFiles, handles
<1> QED
  BY <1>14, <1>15, <1>16, <1>17, <1>18, <1>19 DEF IInv, Sound

(* Only files are open. *)
LEMMA DirsAreClosed ==
    ASSUME IInv, NEW i \in Inodes, node[i].type = "dir"
    PROVE  ~IsOpen(i)
  BY InodesFacts DEF IInv, OnFiles, IsOpen

LEMMA RmdirStep ==
    ASSUME IInv, NEW p \in Paths, sb_rmdir(p)
    PROVE  IInv' /\ Changes(node, node', p, p) /\ ret'.op = "rmdir" /\ ret'.path = p /\ ret'.to = p
<1>1. There(p) /\ node[Walk(p)].type = "dir" /\ UNCHANGED handles
  BY DEF sb_rmdir, Dir
<1>2. ret'.op = "rmdir" /\ ret'.path = p /\ ret'.to = p
  BY DEF sb_rmdir, Answer
<1>3. PICK i : i = Walk(p)
  OBVIOUS
<1>4. /\ find(node, resolve(node, path_cache, Parent(p)).inode, Last(p)) = i
      /\ Coherent(node, resolve(node, path_cache, Parent(p)).cache) /\ i \in Inodes
  BY <1>1, <1>3, Home DEF There
<1>5. Sound /\ Shaped(node)
  BY DEF IInv, Sound
<1>6. CASE IsEmptyDir(node, i)
  <2>1. \A m \in Names : find(node, i, m) = None
    <3>1. \A k \in DOMAIN node[i].ents : node[i].ents[k].name \notin Names
      BY <1>6, VFSAssumption DEF IsEmptyDir, Names
    <3>2. Lists(node[i].ents)
      BY <1>4, <1>5, ShapedFacts
    <3>3. ASSUME NEW m \in Names PROVE Gives(node[i].ents, m) = None
      BY <3>1, <3>2, GivesFact
    <3>4. \A m : find(node, i, m) = Gives(node[i].ents, m)
      BY <1>4, <1>5, FindFact
    <3> QED
      BY <3>3, <3>4
  <2>2. ~IsOpen(i)
    BY <1>1, <1>3, <1>4, DirsAreClosed
  <2>3. /\ SetDisk(remove(Now(0), resolve(node, path_cache, Parent(p)).inode, Last(p)))
        /\ path_cache' = removePrefix(resolve(node, path_cache, Parent(p)).cache, p)
    BY <1>4, <1>6 DEF sb_rmdir
  <2> QED
    BY <1>1, <1>2, <1>3, <2>1, <2>2, <2>3, RemoveStep
<1>7. CASE ~IsEmptyDir(node, i)
  <2>1. UNCHANGED <<node, used>> /\ path_cache' = resolve(node, path_cache, Parent(p)).cache
    BY <1>4, <1>7 DEF sb_rmdir
  <2>2. HandleTables' /\ Counted'
    BY <1>1, HandlesStay DEF IInv
  <2>3. Sound' /\ Coherent(node', path_cache') /\ OnFiles'
    BY <1>1, <1>4, <1>5, <2>1 DEF Sound, IInv, OnFiles, handles
  <2>4. Changes(node, node', p, p)
    BY <2>1 DEF Changes
  <2> QED
    BY <1>2, <2>2, <2>3, <2>4 DEF IInv
<1> QED
  BY <1>6, <1>7

LEMMA UnlinkStep ==
    ASSUME IInv, NEW p \in Paths, sb_unlink(p)
    PROVE  IInv' /\ Changes(node, node', p, p) /\ ret'.op = "unlink" /\ ret'.path = p /\ ret'.to = p
<1>1. There(p) /\ node[Walk(p)].type # "dir" /\ ~IsOpen(Walk(p)) /\ UNCHANGED handles
  BY DEF sb_unlink, Dir
<1>2. ret'.op = "unlink" /\ ret'.path = p /\ ret'.to = p
  BY DEF sb_unlink, Answer
<1>3. Walk(p) \in Inodes
  BY <1>1, Home DEF There
<1>4. Shaped(node)
  BY DEF IInv, Sound
<1>5. \A m \in Names : find(node, Walk(p), m) = None
  BY <1>1, <1>3, <1>4, FindFact
<1>6. /\ SetDisk(remove(Now(0), resolve(node, path_cache, Parent(p)).inode, Last(p)))
      /\ path_cache' = removePrefix(resolve(node, path_cache, Parent(p)).cache, p)
  BY DEF sb_unlink
<1> QED
  BY <1>1, <1>2, <1>5, <1>6, RemoveStep

LEMMA LastPlace ==
    ASSUME NEW p \in Paths
    PROVE  /\ Len(Parent(p)) \in Nat /\ Len(p) = Len(Parent(p)) + 1
           /\ Last(p) = p[Len(Parent(p)) + 1]
           /\ \A k \in 1 .. Len(Parent(p)) : Parent(p)[k] = p[k]
<1>1. p \in Seq(Names) /\ Len(p) \in 1 .. Depth
  BY PathFact
<1>2. PICK l \in 1 .. Depth : l = Len(p)
  BY <1>1
<1>3. PICK k \in Nat : k = l - 1
  BY VFSAssumption
<1>4. Len(p) = k + 1
  BY <1>2, <1>3, VFSAssumption
<1> QED
  BY <1>1, <1>4, ParentFact

(* Two paths that name one entry are one path. *)
LEMMA SamePlace ==
    ASSUME IInv, NEW p \in Paths, NEW q \in Paths, There(Parent(p)),
           Walk(Parent(p)) = Walk(Parent(q)), Last(p) = Last(q)
    PROVE  p = q
<1>1. p \in Seq(Names) /\ Parent(p) \in Seq(Names) /\ q \in Seq(Names) /\ Parent(q) \in Seq(Names)
  BY PathParts
<1>2. PICK m \in Nat : m = Len(Parent(p))
  BY <1>1, LenProperties
<1>3. PICK n \in Nat : n = Len(Parent(q))
  BY <1>1, LenProperties
<1>4. Len(p) = m + 1 /\ Last(p) = p[m + 1] /\ \A k \in 1 .. m : Parent(p)[k] = p[k]
  BY <1>2, LastPlace
<1>5. Len(q) = n + 1 /\ Last(q) = q[n + 1] /\ \A k \in 1 .. n : Parent(q)[k] = q[k]
  BY <1>3, LastPlace
<1>6. PICK g : g = Trace(node, Root, Parent(p))
  OBVIOUS
<1>7. PICK h : h = Trace(node, Root, Parent(q))
  OBVIOUS
<1>8. Walks(g, node, Root, Parent(p), m) /\ Walks(h, node, Root, Parent(q), n)
  BY <1>2, <1>3, <1>6, <1>7, TraceWalks
<1>9. g[m] = h[n] /\ g[m] # None
  BY <1>2, <1>3, <1>6, <1>7 DEF Walk, resolveNoCache, Down, There
<1>10. Shaped(node) /\ Tree(node, used)
  BY DEF IInv, Sound
<1>11. m <= Len(Parent(p)) /\ n <= Len(Parent(q)) /\ m \in 0 .. m /\ n \in 0 .. n
  BY <1>2, <1>3
<1>12. \A a \in 0 .. m : \A b \in 0 .. n :
         g[a] = h[b] /\ g[a] # None => a = b /\ Same(Parent(p), Parent(q), a)
  BY <1>1, <1>8, <1>10, <1>11, UniquePath
<1>13. m = n /\ Same(Parent(p), Parent(q), m)
  BY <1>9, <1>11, <1>12
<1>14. \A k \in 1 .. m + 1 : p[k] = q[k]
  <2>1. \A k \in 1 .. m : p[k] = q[k]
    BY <1>4, <1>5, <1>13 DEF Same
  <2>2. p[m + 1] = q[m + 1]
    BY <1>4, <1>5, <1>13
  <2> QED
    BY <2>1, <2>2
<1>15. Len(p) = Len(q) /\ \A k \in 1 .. Len(p) : p[k] = q[k]
  BY <1>4, <1>5, <1>13, <1>14
<1> QED
  BY <1>1, <1>15, SeqEqual

(* Where a rename that had its way has put the two entries. *)
Arrived(p, q, flags) ==
    /\ find(node', Walk(Parent(q)), Last(q)) = Walk(p)
    /\ find(node', Walk(Parent(p)), Last(p)) = IF flags = "exchange" THEN Walk(q) ELSE None

LEMMA RenameStep ==
    ASSUME IInv, NEW p \in Paths, NEW q \in Paths, There(p), Dir(Parent(q)), p # q,
           NEW flags, flags = "exchange" => There(q), Rename(p, q, flags)
    PROVE  /\ IInv' /\ Changes(node, node', p, q)
           /\ ret'.op = flags /\ ret'.path = p /\ ret'.to = q
           /\ Fits(node) /\ ~ret'.short /\ (flags = "noreplace" => ~There(q)) => Arrived(p, q, flags)
<1>1. PICK d : d = Walk(Parent(p))
  OBVIOUS
<1>2. PICK e : e = Walk(Parent(q))
  OBVIOUS
<1>3. PICK old : old = Last(p)
  OBVIOUS
<1>4. PICK new : new = Last(q)
  OBVIOUS
<1>5. PICK c : c = resolve(node, path_cache, Parent(p)).cache
  OBVIOUS
<1>6. PICK to : to = resolve(node, c, Parent(q))
  OBVIOUS
<1>7. Shaped(node) /\ Tree(node, used) /\ used \subseteq Inodes /\ Root \in used
  BY DEF IInv, Sound
<1>8. /\ d \in Inodes /\ old \in Names /\ Walk(p) = find(node, d, old) /\ Walk(p) # None
      /\ node[d].type = "dir" /\ resolve(node, path_cache, Parent(p)).inode = d /\ Coherent(node, c)
  BY <1>1, <1>3, <1>5, Home DEF There
<1>9. /\ e \in Inodes /\ new \in Names /\ Walk(q) = find(node, e, new) /\ node[e].type = "dir"
  BY <1>2, <1>4, Home DEF Dir
<1>10. Parent(q) \in Seq(Names) /\ Len(Parent(q)) <= Depth
  BY PathParts
<1>11. to.inode = Down(node, Root, Parent(q)) /\ Coherent(node, to.cache)
  BY <1>6, <1>7, <1>8, <1>10, ResolveFact
<1>12. to.inode = e
  BY <1>2, <1>11 DEF Walk, resolveNoCache
<1>13. ~(d = e /\ old = new)
  <2>1. There(Parent(p))
    BY <1>1, <1>8, InodesFacts DEF There
  <2> QED
    BY <1>1, <1>2, <1>3, <1>4, <2>1, SamePlace
<1>14. PICK r \in Room, stale \in MayBeStale :
         LET F == Renamed(Now(r), resolve(node, path_cache, Parent(p)).inode, Last(p),
                          resolve(node, resolve(node, path_cache, Parent(p)).cache, Parent(q)).inode,
                          Last(q), flags, stale)
         IN  SetDisk(F) /\ ret' = Answer(flags, p, q, F.short)
  BY DEF Rename
<1>15. PICK F : F = Now(r)
  OBVIOUS
<1>16. Good(F) /\ F.node = node /\ F.used = used
  BY <1>15, NowFact
<1>17. PICK G : G = Renamed(F, d, old, e, new, flags, stale)
  OBVIOUS
<1>18. SetDisk(G) /\ ret' = Answer(flags, p, q, G.short)
  BY <1>3, <1>4, <1>5, <1>6, <1>8, <1>12, <1>14, <1>15, <1>17
<1>19. node' = G.node /\ used' = G.used /\ ret'.short = G.short
       /\ ret'.op = flags /\ ret'.path = p /\ ret'.to = q
  BY <1>18 DEF SetDisk, Answer
<1>20. stale \in BOOLEAN
  BY <1>14 DEF MayBeStale
<1>21. F.node[d].type = "dir" /\ F.node[e].type = "dir" /\ find(F.node, d, old) # None
       /\ (flags = "exchange" => find(F.node, e, new) # None)
  BY <1>8, <1>9, <1>16 DEF There
<1>22. Moved(F, G, d, old, e, new, flags)
  BY <1>8, <1>9, <1>13, <1>16, <1>17, <1>20, <1>21, RenamedFact
<1>23. /\ Shaped(node') /\ Tree(node', used') /\ used' = used
       /\ SameTypes(node, node') /\ TwoEdges(node, node', d, old, e, new)
  BY <1>16, <1>19, <1>22 DEF Moved, Good
<1>24. Changes(node, node', p, q)
  BY <1>1, <1>2, <1>3, <1>4, <1>23 DEF Changes, TwoEdges, Edge, Walk, resolveNoCache
<1>25. Fits(node) /\ ~ret'.short /\ (flags = "noreplace" => ~There(q)) => Arrived(p, q, flags)
  BY <1>1, <1>2, <1>3, <1>4, <1>8, <1>9, <1>16, <1>19, <1>22 DEF Moved, Arrived, There
<1>26. UNCHANGED handles
  BY DEF Rename
<1>27. HandleTables' /\ Counted'
  BY <1>26, HandlesStay DEF IInv
<1>28. OnFiles'
  BY <1>7, <1>23, <1>26 DEF IInv, OnFiles, handles, SameTypes
<1>29. Coherent(node', path_cache')
  <2>1. path_cache' = removePrefix(removePrefix(to.cache, p), q)
    BY <1>5, <1>6 DEF Rename
  <2>2. PICK c1 : c1 = removePrefix(to.cache, p)
    OBVIOUS
  <2>3. PICK c2 : c2 = removePrefix(c1, q)
    OBVIOUS
  <2>4. DOMAIN to.cache \subseteq Paths /\ to.cache \in [DOMAIN to.cache -> Inodes]
    BY <1>11 DEF Coherent
  <2>5. Part(c1, to.cache) /\ \A x \in DOMAIN c1 : ~IsPrefix(p, x)
    BY <2>2, <2>4, RemovedFact
  <2>6. DOMAIN c1 \subseteq Paths /\ c1 \in [DOMAIN c1 -> Inodes]
    BY <2>4, <2>5 DEF Part
  <2>7. Part(c2, c1) /\ \A x \in DOMAIN c2 : ~IsPrefix(q, x)
    BY <2>3, <2>6, RemovedFact
  <2>8. Part(c2, to.cache) /\ \A x \in DOMAIN c2 : ~IsPrefix(p, x) /\ ~IsPrefix(q, x)
    BY <2>5, <2>7 DEF Part
  <2>9. Coherent(node', c2)
    BY <1>7, <1>11, <1>24, <2>8, CacheStep
  <2> QED
    BY <2>1, <2>2, <2>3, <2>9
<1> QED
  BY <1>7, <1>19, <1>23, <1>24, <1>25, <1>27, <1>28, <1>29 DEF IInv, Sound

(* The path of the hidden name. *)
LEMMA HiddenPath ==
    ASSUME NEW p \in Paths, NEW h \in Names, NEW q, q = Append(Parent(p), h)
    PROVE  q \in Paths /\ Parent(q) = Parent(p)
<1>1. Parent(p) \in Seq(Names)
  BY PathParts
<1>2. PICK m \in Nat : m = Len(Parent(p))
  BY <1>1, LenProperties
<1>3. Len(p) = m + 1 /\ Len(p) \in 1 .. Depth
  BY <1>2, LastPlace, PathFact
<1>4. q \in Seq(Names) /\ Len(q) = m + 1 /\ \A k \in 1 .. m : q[k] = Parent(p)[k]
  BY <1>1, <1>2, AppendProperties
<1>5. q \in Paths
  BY <1>3, <1>4, PathFact
<1>6. PICK n \in Nat : n = Len(Parent(q))
  BY <1>5, LastPlace
<1>7. Parent(q) \in Seq(Names) /\ m + 1 = n + 1 /\ \A k \in 1 .. n : Parent(q)[k] = q[k]
  BY <1>4, <1>5, <1>6, LastPlace, PathParts
<1>8. Len(Parent(q)) = Len(Parent(p)) /\ \A k \in 1 .. Len(Parent(q)) : Parent(q)[k] = Parent(p)[k]
  BY <1>2, <1>4, <1>6, <1>7
<1>9. Parent(q) = Parent(p)
  BY <1>1, <1>7, <1>8, SeqEqual
<1> QED
  BY <1>5, <1>9

(* What begins the path above q begins q, and q does not. *)
LEMMA PrefixAbove ==
    ASSUME NEW p \in Paths, NEW q \in Paths
    PROVE  ~IsPrefix(q, Parent(q)) /\ (IsPrefix(p, Parent(q)) => IsPrefix(p, q))
<1>1. p \in Seq(Names) /\ q \in Seq(Names) /\ Parent(q) \in Seq(Names)
  BY PathParts
<1>2. PICK k \in Nat : k = Len(p)
  BY <1>1, LenProperties
<1>3. PICK m \in Nat : m = Len(Parent(q))
  BY LastPlace
<1>4. Len(q) = m + 1 /\ \A l \in 1 .. m : Parent(q)[l] = q[l]
  BY <1>3, LastPlace
<1>5. ~IsPrefix(q, Parent(q))
  BY <1>3, <1>4 DEF IsPrefix
<1>6. ASSUME IsPrefix(p, Parent(q)) PROVE IsPrefix(p, q)
  <2>1. k <= m /\ SubSeq(p, 1, k) = Prefix(Parent(q), k)
    BY <1>2, <1>3, <1>6 DEF IsPrefix, Prefix
  <2>2. k <= Len(Parent(q)) /\ k <= m + 1 /\ k <= Len(q) /\ \A l \in 1 .. k : l \in 1 .. m
    BY <1>3, <1>4, <2>1
  <2>3. /\ Prefix(Parent(q), k) \in Seq(Names) /\ Len(Prefix(Parent(q), k)) = k
        /\ \A l \in 1 .. k : Prefix(Parent(q), k)[l] = Parent(q)[l]
    BY <1>1, <2>2, DownPrefix
  <2>4. /\ Prefix(q, k) \in Seq(Names) /\ Len(Prefix(q, k)) = k
        /\ \A l \in 1 .. k : Prefix(q, k)[l] = q[l]
    BY <1>1, <2>2, DownPrefix
  <2>5. \A l \in 1 .. k : Prefix(Parent(q), k)[l] = Prefix(q, k)[l]
    BY <1>4, <2>2, <2>3, <2>4
  <2>6. Prefix(Parent(q), k) = Prefix(q, k)
    BY <2>3, <2>4, <2>5, SeqEqual
  <2> QED
    BY <1>2, <2>1, <2>2, <2>6 DEF IsPrefix, Prefix
<1> QED
  BY <1>5, <1>6

(* The paths of a rename lead to the entries it put there. *)
LEMMA RenameLeads ==
    ASSUME IInv, NEW p \in Paths, NEW q \in Paths, There(p), Dir(Parent(q)), NEW flags,
           Changes(node, node', p, q), Arrived(p, q, flags),
           ~IsPrefix(p, Parent(q)), ~IsPrefix(q, Parent(p))
    PROVE  /\ resolveNoCache(node', q) = Walk(p)
           /\ resolveNoCache(node', p) = IF flags = "exchange" THEN Walk(q) ELSE None
<1>1. Parent(p) \in Seq(Names) /\ Parent(q) \in Seq(Names)
  BY PathParts
<1>2. ~IsPrefix(p, Parent(p)) /\ ~IsPrefix(q, Parent(q))
  BY PrefixAbove
<1>3. Shaped(node) /\ Tree(node, used)
  BY DEF IInv, Sound
<1>4. Down(node', Root, Parent(p)) = Walk(Parent(p))
  BY <1>1, <1>2, <1>3, KeptPath DEF Walk, resolveNoCache
<1>5. Down(node', Root, Parent(q)) = Walk(Parent(q))
  BY <1>1, <1>2, <1>3, KeptPath DEF Walk, resolveNoCache
<1>6. Down(node', Root, p) = Step(node', Walk(Parent(p)), Last(p))
  BY <1>4, PathParts
<1>7. Down(node', Root, q) = Step(node', Walk(Parent(q)), Last(q))
  BY <1>5, PathParts
<1>8. Walk(Parent(p)) # None /\ Walk(Parent(q)) # None
  <2>1. Walk(Parent(p)) \in Inodes
    BY Home
  <2> QED
    BY <2>1, InodesFacts DEF Dir, There
<1> QED
  BY <1>6, <1>7, <1>8 DEF Arrived, Step, resolveNoCache

-----------------------------------------------------------------------------
(***************************************************************************)
(* Every step.                                                             *)
(***************************************************************************)
(* What the action properties ask of a step. *)
Keeps ==
    node' # node =>
      \A p \in Paths : (\E q \in Touched(ret') : IsPrefix(q, p)) \/ Walk(p)' = Walk(p)

Answers == ret'.op \in Lookups => ret'.inode = Walk(ret'.path)

Moves ==
    ret'.op \in Renames /\ ~ret'.short =>
      LET p == ret'.path
          q == ret'.to
      IN  /\ resolveNoCache(node', q) = Walk(p)
          /\ resolveNoCache(node', p) = IF ret'.op = "exchange" THEN Walk(q) ELSE None

LEMMA ChangesKeep ==
    ASSUME IInv, NEW p \in Paths, NEW q \in Paths, Changes(node, node', p, q),
           ret'.op \notin Lookups \cup {"release", "remount"}, ret'.path = p, ret'.to = q
    PROVE  Keeps
<1>1. Touched(ret') = {p, q}
  BY DEF Touched
<1>2. Shaped(node) /\ Tree(node, used)
  BY DEF IInv, Sound
<1>3. ASSUME NEW x \in Paths, ~IsPrefix(p, x), ~IsPrefix(q, x) PROVE Down(node', Root, x) = Down(node, Root, x)
  <2>1. x \in Seq(Names)
    BY PathFact
  <2> QED
    BY <1>2, <1>3, <2>1, KeptPath
<1> QED
  BY <1>1, <1>3 DEF Keeps, Walk, resolveNoCache

(* A step that only looks a path up, but for handles. *)
LEMMA LookupStep ==
    ASSUME IInv, NEW p \in Paths, UNCHANGED <<node, used>>,
           path_cache' = resolve(node, path_cache, p).cache, HandleTables', Counted', OnFiles'
    PROVE  IInv'
<1>1. Coherent(node, path_cache')
  BY PathParts, ResolveNow
<1>2. Sound'
  BY DEF IInv, Sound
<1> QED
  BY <1>1, <1>2 DEF IInv

(* What a step does. *)
Fine == IInv' /\ Keeps /\ Answers /\ (Fits(node) => Moves)

LEMMA LookupFine ==
    ASSUME IInv, NEW p \in Paths, sb_getattr(p) \/ sb_readdir(p)
    PROVE  Fine
<1>1. PICK op \in {"getattr", "readdir"} : ret' = Found(op, p, resolve(node, path_cache, p).inode)
  BY DEF sb_getattr, sb_readdir, sb_rmw_diskinode
<1>2. /\ UNCHANGED <<node, used>> /\ UNCHANGED handles
      /\ path_cache' = resolve(node, path_cache, p).cache
  BY DEF sb_getattr, sb_readdir, sb_rmw_diskinode, handles
<1>3. HandleTables' /\ Counted'
  BY <1>2, HandlesStay DEF IInv
<1>4. OnFiles'
  BY <1>2 DEF IInv, OnFiles, handles
<1>5. IInv'
  BY <1>2, <1>3, <1>4, LookupStep
<1>6. resolve(node, path_cache, p).inode = Walk(p)
  BY PathParts, ResolveNow
<1>7. ret'.op = op /\ ret'.path = p /\ ret'.inode = Walk(p)
  BY <1>1, <1>6 DEF Found
<1> QED
  BY <1>2, <1>5, <1>7 DEF Fine, Keeps, Answers, Moves, Renames

LEMMA OpenFine ==
    ASSUME IInv, NEW p \in Paths, sb_open(p)
    PROVE  Fine
<1>1. PICK i : i = resolve(node, path_cache, p).inode
  OBVIOUS
<1>2. i = Walk(p) /\ i \in Inodes /\ node[i].type # "dir"
  BY <1>1, PathParts, ResolveNow DEF sb_open, There, Dir
<1>3. Shaped(node) /\ Tree(node, used) /\ HandleTables /\ Counted /\ OnFiles
  BY DEF IInv, Sound
<1>4. node[i].type = "file" /\ i \in Targets
  BY <1>2, <1>3, ShapedFacts DEF Targets
<1>5. i \in used
  BY <1>2, <1>3, Home DEF Tree, sb_open, There
<1>6. /\ OpenHandle(i) /\ UNCHANGED <<node, used>> /\ path_cache' = resolve(node, path_cache, p).cache
      /\ ret' = Found("open", p, i)
  BY <1>1 DEF sb_open
<1>7. /\ HandleTables' /\ Counted'
      /\ DOMAIN fd_manager' = DOMAIN fd_manager \cup {fd_counter}
      /\ \A fd \in DOMAIN fd_manager' : fd_manager'[fd] = IF fd = fd_counter THEN i ELSE fd_manager[fd]
  BY <1>3, <1>4, <1>6, OpenFact
<1>8. OnFiles'
  BY <1>3, <1>4, <1>5, <1>6, <1>7 DEF OnFiles
<1>9. IInv'
  BY <1>6, <1>7, <1>8, LookupStep
<1>10. ret'.op = "open" /\ ret'.path = p /\ ret'.inode = Walk(p)
  BY <1>2, <1>6 DEF Found
<1> QED
  BY <1>6, <1>9, <1>10 DEF Fine, Keeps, Answers, Moves, Renames

LEMMA MakeFine ==
    ASSUME IInv, NEW p \in Paths, sb_mkdir(p) \/ sb_create(p) \/ sb_rmdir(p) \/ sb_unlink(p)
    PROVE  Fine
<1>1. /\ IInv' /\ Changes(node, node', p, p) /\ ret'.path = p /\ ret'.to = p
      /\ ret'.op \in {"mkdir", "create", "rmdir", "unlink"}
  BY MkdirStep, CreateFileStep, RmdirStep, UnlinkStep
<1>2. ret'.op \notin Lookups \cup {"release", "remount"} /\ ret'.op \notin Renames
  BY <1>1 DEF Lookups, Renames
<1>3. Keeps
  BY <1>1, <1>2, ChangesKeep
<1> QED
  BY <1>1, <1>2, <1>3 DEF Fine, Answers, Moves

(* Both renames: the kernel's, and the one that hides an open file. *)
LEMMA RenameFine ==
    ASSUME IInv, NEW p \in Paths, NEW q \in Paths, There(p), Dir(Parent(q)), p # q,
           NEW flags \in Renames, flags = "exchange" => There(q), flags = "noreplace" => ~There(q),
           ~IsPrefix(p, Parent(q)), ~IsPrefix(q, Parent(p)), Rename(p, q, flags)
    PROVE  Fine
<1>1. /\ IInv' /\ Changes(node, node', p, q)
      /\ ret'.op = flags /\ ret'.path = p /\ ret'.to = q
      /\ Fits(node) /\ ~ret'.short /\ (flags = "noreplace" => ~There(q)) => Arrived(p, q, flags)
  BY RenameStep
<1>2. ret'.op \notin Lookups \cup {"release", "remount"}
  BY <1>1 DEF Lookups, Renames
<1>3. Keeps
  BY <1>1, <1>2, ChangesKeep
<1>4. ASSUME Arrived(p, q, flags)
      PROVE  /\ resolveNoCache(node', q) = Walk(p)
             /\ resolveNoCache(node', p) = IF flags = "exchange" THEN Walk(q) ELSE None
  BY <1>1, <1>4, RenameLeads
<1>5. Fits(node) => Moves
  BY <1>1, <1>4 DEF Moves
<1> QED
  BY <1>1, <1>2, <1>3, <1>5 DEF Fine, Answers

LEMMA SbRenameFine ==
    ASSUME IInv, NEW p \in Paths, NEW q \in Paths, There(p), Dir(Parent(q)), sb_rename(p, q)
    PROVE  Fine
<1>1. ~IsPrefix(p, q) /\ ~IsPrefix(q, p)
  BY DEF sb_rename
<1>2. PICK flags \in Allowed(p, q) : Rename(p, q, flags)
  BY DEF sb_rename
<1>3. flags \in Renames /\ (flags = "exchange" => There(q)) /\ (flags = "noreplace" => ~There(q))
  BY <1>2 DEF Allowed, Renames
<1>4. p # q
  <2>1. Len(p) \in Nat
    BY PathFact, LenProperties
  <2> QED
    BY <1>1, <2>1 DEF IsPrefix
<1>5. ~IsPrefix(p, Parent(q)) /\ ~IsPrefix(q, Parent(p))
  BY <1>1, PrefixAbove
<1> QED
  BY <1>2, <1>3, <1>4, <1>5, RenameFine

LEMMA HideOpenFine ==
    ASSUME IInv, NEW p \in Paths, NEW h \in Hidden, HideOpen(p, h)
    PROVE  Fine
<1>1. PICK q : q = Append(Parent(p), h)
  OBVIOUS
<1>2. There(p) /\ ~There(q) /\ Rename(p, q, "replace") /\ h \in Names
  BY <1>1 DEF HideOpen, Names
<1>3. q \in Paths /\ Parent(q) = Parent(p)
  BY <1>1, <1>2, HiddenPath
<1>4. Walk(Parent(p)) \in Inodes /\ node[Walk(Parent(p))].type = "dir"
  BY <1>2, Home
<1>5. Dir(Parent(q))
  BY <1>3, <1>4, InodesFacts DEF Dir, There
<1>6. p # q
  BY <1>2
<1>7. ~IsPrefix(p, Parent(q)) /\ ~IsPrefix(q, Parent(p))
  BY <1>3, PrefixAbove
<1>8. "replace" \in Renames
  BY DEF Renames
<1> QED
  BY <1>2, <1>3, <1>5, <1>6, <1>7, <1>8, RenameFine

LEMMA ReleaseFine ==
    ASSUME IInv, NEW fd \in DOMAIN fd_manager, sb_release(fd)
    PROVE  Fine
<1>1. IInv'
  BY ReleaseFact
<1>2. ret'.op = "release" /\ node' = node
  BY DEF sb_release, Answer
<1> QED
  BY <1>1, <1>2 DEF Fine, Keeps, Answers, Moves, Lookups, Renames

LEMMA EmptyTables ==
    /\ DOMAIN Empty = {} /\ (\A nd : Coherent(nd, Empty))
    /\ FirstFd \in FirstFd .. FirstFd + MaxOpens
    /\ \A S : Empty \in [{} -> S]
  BY VFSAssumption DEF Empty, Coherent, FirstFd

LEMMA RemountFine ==
    ASSUME IInv, Remount
    PROVE  Fine
<1>1. /\ node' = node /\ used' = used /\ path_cache' = Empty /\ fd_manager' = Empty
      /\ reference_count' = Empty /\ fd_counter' = FirstFd /\ ret'.op = "remount"
  BY DEF Remount, Answer
<1>2. Sound'
  BY <1>1 DEF IInv, Sound
<1>3. Coherent(node', path_cache')
  BY <1>1, EmptyTables
<1>4. HandleTables' /\ OnFiles'
  BY <1>1, EmptyTables DEF HandleTables, OnFiles
<1>5. Counted'
  <2>1. ASSUME NEW i \in Targets PROVE Count(i)' = Cardinality(HandlesOn(i)')
    <3>1. Count(i)' = 0
      BY <1>1, EmptyTables DEF Count
    <3>2. HandlesOn(i)' = {}
      BY <1>1, EmptyTables DEF HandlesOn
    <3> QED
      BY <3>1, <3>2, FS_EmptySet
  <2> QED
    BY <2>1 DEF Counted
<1> QED
  BY <1>1, <1>2, <1>3, <1>4, <1>5 DEF Fine, IInv, Keeps, Answers, Moves, Lookups, Renames

LEMMA StepFine ==
    ASSUME IInv, Next
    PROVE  Fine
<1>1. ASSUME NEW p \in Spaces, sb_getattr(p) \/ sb_mkdir(p) \/ sb_create(p) PROVE Fine
  BY <1>1, LookupFine, MakeFine DEF Spaces
<1>2. ASSUME NEW p \in Seen, sb_readdir(p) \/ sb_rmdir(p) \/ sb_unlink(p) \/ sb_open(p) PROVE Fine
  BY <1>2, LookupFine, MakeFine, OpenFine DEF Seen
<1>3. ASSUME NEW p \in Seen, NEW q \in Spaces, sb_rename(p, q) PROVE Fine
  BY <1>3, SbRenameFine DEF Seen, Spaces
<1>4. ASSUME NEW p \in Seen, NEW h \in Hidden, HideOpen(p, h) PROVE Fine
  BY <1>4, HideOpenFine DEF Seen
<1>5. ASSUME NEW fd \in DOMAIN fd_manager, sb_release(fd) PROVE Fine
  BY <1>5, ReleaseFine
<1>6. ASSUME Remount PROVE Fine
  BY <1>6, RemountFine
<1> QED
  BY <1>1, <1>2, <1>3, <1>4, <1>5, <1>6 DEF Next

-----------------------------------------------------------------------------
(***************************************************************************)
(* The theorems.                                                           *)
(***************************************************************************)
LEMMA InitSound ==
    ASSUME Init
    PROVE  IInv
<1>1. PICK root : root = NewNode("dir", Root, Root)
  OBVIOUS
<1>2. /\ root \in NodeType /\ root.type = "dir" /\ Distinct(root.ents)
      /\ \A k \in DOMAIN root.ents : root.ents[k].name \notin Names
  BY <1>1, InodesFacts, NewNodeFact
<1>3. node = [i \in Inodes |-> IF i = Root THEN root ELSE FreeNode]
  BY <1>1 DEF Init
<1>4. Shaped(node)
  BY <1>2, <1>3, FreeNodeFact DEF Shaped
<1>5. ASSUME NEW d \in Inodes, NEW n \in Names PROVE find(node, d, n) = None
  <2>1. find(node, d, n) = Gives(node[d].ents, n) /\ Lists(node[d].ents)
    BY <1>4, FindFact, ShapedFacts
  <2>2. node[d] = root \/ node[d] = FreeNode
    BY <1>3
  <2>3. \A k \in DOMAIN node[d].ents : node[d].ents[k].name # n
    <3>1. CASE node[d] = root
      BY <1>2, <3>1
    <3>2. CASE node[d] = FreeNode
      BY <3>2, FreeNodeFact
    <3> QED
      BY <2>2, <3>1, <3>2
  <2> QED
    BY <2>1, <2>3, GivesFact
<1>6. used = {Root}
  BY DEF Init
<1>7. Tree(node, used)
  BY <1>3, <1>5, <1>6 DEF Tree
<1>8. Sound
  BY <1>4, <1>6, <1>7, InodesFacts DEF Sound
<1>9. /\ path_cache = Empty /\ fd_manager = Empty /\ reference_count = Empty /\ fd_counter = FirstFd
  BY DEF Init
<1>10. Coherent(node, path_cache) /\ HandleTables /\ OnFiles
  BY <1>9, EmptyTables DEF HandleTables, OnFiles
<1>11. ASSUME NEW i \in Targets PROVE Count(i) = Cardinality(HandlesOn(i))
  <2>1. Count(i) = 0 /\ HandlesOn(i) = {}
    BY <1>9, EmptyTables DEF Count, HandlesOn
  <2> QED
    BY <2>1, FS_EmptySet
<1> QED
  BY <1>8, <1>10, <1>11 DEF IInv, Counted

LEMMA StutterSound ==
    ASSUME IInv, UNCHANGED vars
    PROVE  IInv'
<1>1. UNCHANGED handles /\ node' = node /\ used' = used /\ path_cache' = path_cache
  BY DEF vars, handles
<1>2. HandleTables' /\ Counted'
  BY <1>1, HandlesStay DEF IInv
<1>3. Sound' /\ Coherent(node', path_cache') /\ OnFiles'
  BY <1>1 DEF IInv, Sound, OnFiles, handles
<1> QED
  BY <1>2, <1>3 DEF IInv

LEMMA InductiveInvariant == Spec => []IInv
<1>1. Init => IInv
  BY InitSound
<1>2. IInv /\ [Next]_vars => IInv'
  BY StepFine, StutterSound DEF Fine
<1> QED
  BY <1>1, <1>2, PTL DEF Spec

(* The tables always hold inodes, and a file no entries: for every number  *)
(* of inodes, names, handles and blocks, also when a callback runs out of  *)
(* inodes or blocks half way.                                              *)
THEOREM TypeInvariant == Spec => []TypeOK
<1>1. IInv => TypeOK
  BY DEF IInv, Sound, Shaped, Coherent, HandleTables, TypeOK
<1> QED
  BY <1>1, InductiveInvariant, PTL

(* create(), remove() and sb_rename() keep the directories a tree: an      *)
(* entry leads to a marked inode other than the root, of link_cnt 1, that  *)
(* no other entry leads to, and no directory lists a name twice.           *)
THEOREM TreeStaysSound == Spec => []TreeSound
<1>1. ASSUME IInv PROVE TreeSound
  <2>1. Shaped(node) /\ Tree(node, used) /\ used \subseteq Inodes
    BY <1>1 DEF IInv, Sound
  <2>2. ASSUME NEW e \in RealEdges
        PROVE  /\ e = <<e[1], e[2]>> /\ e[1] \in Inodes /\ e[2] \in Names
               /\ Leads(e) = find(node, e[1], e[2]) /\ Leads(e) # None
    BY <2>1 DEF RealEdges, Edges, Leads
  <2>3. ASSUME NEW e \in RealEdges PROVE Leads(e) \in used \ {Root} /\ node[Leads(e)].link = 1
    BY <2>1, <2>2 DEF Tree
  <2>4. ASSUME NEW e \in RealEdges, NEW f \in RealEdges, Leads(e) = Leads(f) PROVE e = f
    <3>1. e[1] = f[1] /\ e[2] = f[2]
      BY <2>1, <2>2, <2>4 DEF Tree
    <3> QED
      BY <2>2, <3>1
  <2>5. \A d \in used : Distinct(node[d].ents)
    BY <2>1 DEF Shaped
  <2> QED
    BY <2>3, <2>4, <2>5 DEF TreeSound, Distinct
<1> QED
  BY <1>1, InductiveInvariant, PTL

(* PathResolver never holds a path that leads elsewhere: removePrefix()    *)
(* after a removal or a rename takes out every path that went through the  *)
(* entry.                                                                  *)
THEOREM CacheStaysCoherent == Spec => []CacheCoherent
<1>1. IInv => CacheCoherent
  BY DEF IInv, Coherent, CacheCoherent, Walk, resolveNoCache
<1> QED
  BY <1>1, InductiveInvariant, PTL

(* FDManager's tables stay right: a handle's inode is not freed while the  *)
(* handle is open, and its count is the number of handles on it.           *)
THEOREM HandlesStayLive == Spec => []HandlesLive
<1>1. IInv => HandlesLive
  BY DEF IInv, OnFiles, Counted, HandlesOn, HandlesLive
<1> QED
  BY <1>1, InductiveInvariant, PTL

(* A callback changes where its own paths lead, and those below them, and  *)
(* no other path.                                                          *)
THEOREM NamesStay == Spec => NamesKept
<1>1. IInv /\ [Next]_vars => [node' # node =>
         \A p \in Paths : (\E q \in Touched(ret') : IsPrefix(q, p)) \/ Walk(p)' = Walk(p)]_vars
  BY StepFine DEF Fine, Keeps
<1> QED
  BY <1>1, InductiveInvariant, PTL DEF Spec, NamesKept

(* resolve() gives the inode the directories lead to, whatever the cache   *)
(* holds, and none when the path is not there.                             *)
THEOREM LookupsRight == Spec => ResolvesRight
<1>1. IInv /\ [Next]_vars => [ret'.op \in Lookups => ret'.inode = Walk(ret'.path)]_vars
  BY StepFine DEF Fine, Answers
<1> QED
  BY <1>1, InductiveInvariant, PTL DEF Spec, ResolvesRight

(* While no directory has as many blocks as there are direct pointers, a   *)
(* rename that found the blocks it asked for leaves the file under its new *)
(* name, and the one exchanged for it under the old: link() then finds the *)
(* end of the directory.                                                   *)
THEOREM RenameLands == Spec => [][Fits(node) => Moves]_vars
<1>1. IInv /\ [Next]_vars => [Fits(node) => Moves]_vars
  BY StepFine DEF Fine
<1> QED
  BY <1>1, InductiveInvariant, PTL DEF Spec

(* All the names, "." and ".." make a directory of fewer blocks. *)
NamesFit == IsFiniteSet(Names) /\ data_blocks(Cardinality(Names) + 2) < D

LEMMA ListsFit ==
    ASSUME IsFiniteSet(Names), NEW e, Lists(e)
    PROVE  Len(e) \in Nat /\ Cardinality(Names) \in Nat /\ Len(e) <= Cardinality(Names) + 2
<1>1. e \in Seq(EntryType) /\ Distinct(e)
  BY DEF Lists
<1>2. PICK n \in Nat : n = Len(e)
  BY <1>1, LenProperties
<1>3. DOMAIN e = 1 .. n /\ \A k \in 1 .. n : e[k] \in EntryType
  BY <1>1, <1>2, LenProperties, ElementOfSeq
<1>4. PICK f : f = [k \in 1 .. n |-> e[k].name]
  OBVIOUS
<1>5. f \in [1 .. n -> EntryNames]
  BY <1>3, <1>4 DEF EntryType, EntryNames
<1>6. \A k, l \in 1 .. n : f[k] = f[l] => k = l
  BY <1>1, <1>3, <1>4 DEF Distinct
<1>7. f \in Injection(1 .. n, EntryNames)
  BY <1>5, <1>6 DEF Injection, IsInjective
<1>8. PICK m \in Nat : m = Cardinality(Names)
  BY FS_CardinalityType
<1>9. IsFiniteSet(EntryNames) /\ Cardinality(EntryNames) <= m + 2
  <2>1. PICK S : S = Names \cup {Dot}
    OBVIOUS
  <2>2. IsFiniteSet(S) /\ Cardinality(S) = IF Dot \in Names THEN m ELSE m + 1
    BY <1>8, <2>1, FS_AddElement
  <2>3. PICK l \in Nat : l = Cardinality(S)
    BY <2>2, FS_CardinalityType
  <2>4. EntryNames = S \cup {DotDot}
    BY <2>1 DEF EntryNames
  <2>5. IsFiniteSet(EntryNames) /\ Cardinality(EntryNames) = IF DotDot \in S THEN l ELSE l + 1
    BY <2>2, <2>3, <2>4, FS_AddElement
  <2> QED
    BY <2>2, <2>3, <2>5
<1>10. Cardinality(1 .. n) <= Cardinality(EntryNames) /\ Cardinality(EntryNames) \in Nat
  BY <1>7, <1>9, FS_Injection, FS_CardinalityType
<1>11. Cardinality(1 .. n) = n
  BY FS_Interval
<1>12. n <= m + 2
  BY <1>9, <1>10, <1>11
<1> QED
  BY <1>2, <1>8, <1>12

(* Where the names are so few that no directory gets that long, every      *)
(* rename that found its blocks moves the file.                            *)
THEOREM RenamesMove == NamesFit => (Spec => RenameMoves)
<1> SUFFICES ASSUME NamesFit PROVE Spec => RenameMoves
  OBVIOUS
<1>1. ASSUME IInv PROVE Fits(node)
  <2>1. Shaped(node)
    BY <1>1 DEF IInv, Sound
  <2>2. ASSUME NEW x \in Inodes PROVE data_blocks(Size(node, x)) < D
    <3>1. PICK m \in Nat : m = Cardinality(Names)
      BY FS_CardinalityType DEF NamesFit
    <3>2. PICK l \in Nat : l = Size(node, x)
      BY <2>1, SizeTyped
    <3>3. l <= m + 2 /\ m + 2 \in Nat
      BY <2>1, <3>1, <3>2, ShapedFacts, ListsFit DEF NamesFit, Size
    <3>4. data_blocks(l) \in Nat /\ data_blocks(m + 2) \in Nat /\ data_blocks(l) <= data_blocks(m + 2)
      BY <3>3, FewerBlocks
    <3>5. data_blocks(m + 2) < D /\ D \in Nat
      BY <3>1, NameSpaceAssumption DEF NamesFit
    <3> QED
      BY <3>2, <3>4, <3>5
  <2> QED
    BY <2>2 DEF Fits
<1>2. IInv /\ [Next]_vars => [ret'.op \in Renames /\ ~ret'.short =>
         LET p == ret'.path
             q == ret'.to
         IN  /\ resolveNoCache(node', q) = Walk(p)
             /\ resolveNoCache(node', p) = IF ret'.op = "exchange" THEN Walk(q) ELSE None]_vars
  BY <1>1, StepFine DEF Fine, Moves
<1> QED
  BY <1>2, InductiveInvariant, PTL DEF Spec, RenameMoves
=============================================================================
