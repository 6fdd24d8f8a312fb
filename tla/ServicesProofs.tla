--------------------------- MODULE ServicesProofs ---------------------------
(* Theorems about PathMapping and Windows for any paths, mappings, days,      *)
(* slots and windows.  A path a worker was given comes back as the file's     *)
(* because the mapping that gave it, the longest by server path and the first *)
(* of those, is found again among the mappings that hold what it gave.  The   *)
(* next opening is the first instant a window is open because a window can    *)
(* only come to be open at its start: an overnight one's tail goes on from    *)
(* the evening before.                                                        *)
EXTENDS Windows, PathMapping, SequenceTheorems, WellFoundedInduction, TLAPS

(* A set of naturals has a least element.                                     *)
LEMMA LeastOfNaturals ==
    ASSUME NEW S, S \subseteq Nat, S # {}
    PROVE  \E n \in S : \A k \in S : n <= k
<1>1. IsWellFoundedOn(OpToRel(<, Nat), Nat)
    BY NatLessThanWellFounded
<1>2. \E n \in S : \A k \in S : ~(<<k, n>> \in OpToRel(<, Nat))
    BY <1>1, WFMin
<1>3. \A n \in S, k \in S : ~(<<k, n>> \in OpToRel(<, Nat)) => n <= k
    BY DEF OpToRel
<1> QED BY <1>2, <1>3

(* And Min picks it.                                                          *)
LEMMA MinOfNaturals ==
    ASSUME NEW S, S \subseteq Nat, S # {}
    PROVE  Min(S) \in S /\ \A k \in S : Min(S) <= k
BY LeastOfNaturals DEF Min

-----------------------------------------------------------------------------
(* Paths.                                                                     *)

(* A path is under another when it begins with its names.                     *)
LEMMA UnderByName ==
    ASSUME NEW S, NEW s \in Seq(S), NEW t \in Seq(S)
    PROVE  IsPrefix(s, t) <=> Len(s) <= Len(t) /\ \A i \in 1..Len(s) : s[i] = t[i]
<1>1. Len(s) \in Nat /\ Len(t) \in Nat /\ SubSeq(s, 1, Len(s)) = s
    BY LenProperties, SubSeqFull
<1>2. ASSUME Len(s) <= Len(t)
      PROVE  /\ SubSeq(t, 1, Len(s)) \in Seq(S) /\ Len(SubSeq(t, 1, Len(s))) = Len(s)
             /\ \A i \in 1..Len(s) : SubSeq(t, 1, Len(s))[i] = t[i]
    <2>1. \A i \in 1..Len(s) : t[i] \in S
        BY <1>1, <1>2, ElementOfSeq
    <2> QED BY <1>1, <2>1, SubSeqProperties
<1>3. ASSUME Len(s) <= Len(t)
      PROVE  SubSeq(t, 1, Len(s)) = s <=> \A i \in 1..Len(s) : s[i] = t[i]
    <2>1. ASSUME \A i \in 1..Len(s) : s[i] = t[i] PROVE SubSeq(t, 1, Len(s)) = s
        <3> DEFINE u == SubSeq(t, 1, Len(s))
        <3>1. u \in Seq(S) /\ Len(u) = Len(s) /\ \A i \in 1..Len(u) : u[i] = s[i]
            BY <1>2, <1>3, <2>1
        <3> HIDE DEF u
        <3>2. u = s
            BY <3>1, SeqEqual
        <3> QED BY <3>2 DEF u
    <2> QED BY <1>2, <1>3, <2>1
<1> QED BY <1>1, <1>3 DEF IsPrefix

(* A path under another is that one and the rest.                             *)
LEMMA RestAfter ==
    ASSUME NEW S, NEW s \in Seq(S), NEW t \in Seq(S), IsPrefix(s, t)
    PROVE  /\ Rest(t, s) \in Seq(S) /\ s \o Rest(t, s) = t
           /\ s # t => Rest(t, s) # <<>>
<1>1. Len(s) \in Nat /\ Len(t) \in Nat /\ Len(s) <= Len(t) /\ \A i \in 1..Len(s) : s[i] = t[i]
    BY LenProperties, UnderByName
<1> DEFINE r == Rest(t, s)
<1>2. \A i \in Len(s)+1..Len(t) : t[i] \in S
    BY <1>1, ElementOfSeq
<1>3. /\ r \in Seq(S) /\ Len(r) = Len(t) - Len(s)
      /\ \A i \in 1..Len(t)-Len(s) : r[i] = t[Len(s) + 1 + i - 1]
    BY <1>1, <1>2, SubSeqProperties DEF Rest
<1> HIDE DEF r
<1>4. /\ s \o r \in Seq(S) /\ Len(s \o r) = Len(t)
      /\ \A i \in 1..Len(t) : (s \o r)[i] = IF i <= Len(s) THEN s[i] ELSE r[i - Len(s)]
    BY <1>1, <1>3, ConcatProperties
<1>5. \A i \in 1..Len(t) : (s \o r)[i] = t[i]
    BY <1>1, <1>3, <1>4
<1>6. s \o r = t
    BY <1>4, <1>5, SeqEqual
<1>7. r = <<>> => s = t
    BY <1>6, ConcatEmptySeq
<1> QED BY <1>3, <1>6, <1>7 DEF r

(* And the rest of two joined paths is the second.                            *)
LEMMA RestOf ==
    ASSUME NEW S, NEW s \in Seq(S), NEW t \in Seq(S)
    PROVE  s \o t \in Seq(S) /\ IsPrefix(s, s \o t) /\ Rest(s \o t, s) = t
<1>1. /\ s \o t \in Seq(S) /\ Len(s \o t) = Len(s) + Len(t)
      /\ \A i \in 1..Len(s) + Len(t) : (s \o t)[i] = IF i <= Len(s) THEN s[i] ELSE t[i - Len(s)]
    BY ConcatProperties
<1>2. IsPrefix(s, s \o t)
    <2> DEFINE c == s \o t
    <2>1. /\ c \in Seq(S) /\ Len(s) \in Nat /\ Len(t) \in Nat /\ Len(c) = Len(s) + Len(t)
          /\ \A i \in 1..Len(s) : c[i] = s[i]
        BY <1>1, LenProperties
    <2> HIDE DEF c
    <2>2. Len(s) <= Len(c) /\ \A i \in 1..Len(s) : s[i] = c[i]
        BY <2>1
    <2>3. IsPrefix(s, c)
        BY <2>1, <2>2, UnderByName
    <2> QED BY <2>3 DEF c
<1>3. Rest(s \o t, s) \in Seq(S) /\ s \o Rest(s \o t, s) = s \o t
    BY <1>1, <1>2, RestAfter
<1>4. Rest(s \o t, s) = t
    BY <1>3, ConcatSimplifications
<1> QED BY <1>1, <1>2, <1>4

(* A path is one of another and a rest.                                       *)
Joined(s, t, u) == u = s \o t

(* A file's neighbour is under what the file is properly under.               *)
LEMMA BesideOf ==
    ASSUME NEW S, NEW s \in Seq(S), NEW t \in Seq(S), t # <<>>, NEW x \in S
    PROVE  /\ Beside(t, x) \in Seq(S) /\ Beside(s \o t, x) \in Seq(S)
           /\ Joined(s, Beside(t, x), Beside(s \o t, x))
<1>1. PICK u \in Seq(S), e \in S : t = Append(u, e)
    BY SequenceEmptyOrAppend
<1>2. \A v \in Seq(S), y \in S : Front(Append(v, y)) = v
    <2> SUFFICES ASSUME NEW v \in Seq(S), NEW y \in S PROVE Front(Append(v, y)) = v
        OBVIOUS
    <2> DEFINE a == Append(v, y)
    <2>1. /\ Len(v) \in Nat /\ a \in Seq(S) /\ Len(a) = Len(v) + 1
          /\ \A i \in 1..Len(v) : a[i] = v[i] /\ v[i] \in S
        BY AppendProperties, LenProperties, ElementOfSeq
    <2> HIDE DEF a
    <2> DEFINE f == SubSeq(a, 1, Len(v))
    <2>2. /\ f \in Seq(S) /\ Len(f) = Len(v)
          /\ \A i \in 1..Len(v) : f[i] = a[1 + i - 1]
        BY <2>1, SubSeqProperties
    <2> HIDE DEF f
    <2>3. f = v
        BY <2>1, <2>2, SeqEqual
    <2>4. Len(a) - 1 = Len(v)
        BY <2>1
    <2> QED BY <2>3, <2>4 DEF Front, a, f
<1>3. /\ s \o u \in Seq(S) /\ s \o t = Append(s \o u, e)
      /\ s \o Append(u, x) = Append(s \o u, x)
    <2>1. s \o u \in Seq(S) /\ <<e>> \in Seq(S) /\ <<x>> \in Seq(S)
        BY ConcatProperties
    <2>2. t = u \o <<e>> /\ Append(s \o u, e) = (s \o u) \o <<e>>
        BY <1>1, <2>1, AppendIsConcat
    <2>3. Append(u, x) = u \o <<x>> /\ Append(s \o u, x) = (s \o u) \o <<x>>
        BY <2>1, AppendIsConcat
    <2> QED BY <2>1, <2>2, <2>3, ConcatAssociative
<1>4. Beside(t, x) = Append(u, x) /\ Beside(s \o t, x) = Append(s \o u, x)
    BY <1>1, <1>2, <1>3 DEF Beside
<1>5. Append(u, x) \in Seq(S) /\ Append(s \o u, x) \in Seq(S)
    BY <1>3, AppendProperties
<1>6. Beside(s \o t, x) = s \o Beside(t, x)
    BY <1>3, <1>4
<1> QED BY <1>4, <1>5, <1>6 DEF Joined

(* What a neighbour of a file is under, the file is under, or it is the       *)
(* neighbour itself.                                                          *)
LEMMA UnderNeighbour ==
    ASSUME NEW S, NEW s \in Seq(S), NEW t \in Seq(S), t # <<>>, NEW x \in S,
           IsPrefix(s, Beside(t, x))
    PROVE  IsPrefix(s, t) \/ (s # <<>> /\ Last(s) = x)
<1>1. PICK u \in Seq(S), e \in S : t = Append(u, e)
    BY SequenceEmptyOrAppend
<1> DEFINE b == Beside(t, x)
<1>2. /\ Len(s) \in Nat /\ Len(u) \in Nat /\ Len(t) = Len(u) + 1
      /\ \A i \in 1..Len(u) : t[i] = u[i]
    BY <1>1, AppendProperties, LenProperties
<1>3. b \in Seq(S) /\ Len(b) = Len(u) + 1 /\ b[Len(u) + 1] = x
      /\ \A i \in 1..Len(u) : b[i] = t[i]
    <2> DEFINE f == SubSeq(t, 1, Len(t) - 1)
    <2>1. \A i \in 1..Len(t) - 1 : t[i] \in S
        BY <1>2, ElementOfSeq
    <2>2. /\ f \in Seq(S) /\ Len(f) = Len(u) /\ \A i \in 1..Len(u) : f[i] = t[1 + i - 1]
        BY <1>2, <2>1, SubSeqProperties
    <2> HIDE DEF f
    <2>3. b = Append(f, x)
        BY DEF Beside, Front, f
    <2> HIDE DEF b
    <2> QED BY <1>2, <2>2, <2>3, AppendProperties
<1> HIDE DEF b
<1>4. Len(s) <= Len(b) /\ \A i \in 1..Len(s) : s[i] = b[i]
    BY <1>3, UnderByName DEF b
<1>5. CASE Len(s) <= Len(u)
    <2>1. Len(s) <= Len(t) /\ \A i \in 1..Len(s) : s[i] = t[i]
        BY <1>2, <1>3, <1>4, <1>5
    <2> QED BY <2>1, UnderByName
<1>6. CASE Len(s) = Len(u) + 1
    <2>1. s[Len(s)] = x /\ Len(s) # 0
        BY <1>2, <1>3, <1>4, <1>6
    <2> QED BY <2>1, EmptySeq DEF Last
<1> QED BY <1>2, <1>3, <1>4, <1>5, <1>6

Path == Seq(Name)

-----------------------------------------------------------------------------
(* Mappings.                                                                  *)

(* One mapping is tried before another.                                       *)
Before(ms, i, k) ==
    \/ Len(ms[i].server) > Len(ms[k].server)
    \/ Len(ms[i].server) = Len(ms[k].server) /\ i < k

IsForemost(ms, hits, i) == i \in hits /\ \A k \in hits \ {i} : Before(ms, i, k)

(* A list of mappings.                                                        *)
LEMMA MappingList ==
    ASSUME NEW ms \in Mappings
    PROVE  /\ DOMAIN ms \subseteq Nat
           /\ \A i \in DOMAIN ms : /\ ms[i].server \in Path /\ ms[i].worker \in Path
                                   /\ Len(ms[i].server) \in Nat
<1> DEFINE M == [server : Path, worker : Path]
<1>1. ms \in Seq(M)
    BY PathAssumption DEF Path
<1>2. /\ Len(ms) \in Nat /\ DOMAIN ms = 1..Len(ms)
    BY <1>1, LenProperties
<1>3. \A i \in 1..Len(ms) : ms[i] \in M
    BY <1>1, ElementOfSeq
<1>4. \A i \in DOMAIN ms : ms[i].server \in Path /\ ms[i].worker \in Path
    BY <1>2, <1>3
<1>5. \A p \in Path : Len(p) \in Nat
    BY LenProperties DEF Path
<1> QED BY <1>2, <1>4, <1>5

(* Only one mapping is tried first.                                           *)
LEMMA ForemostIs ==
    ASSUME NEW ms \in Mappings, NEW hits \in SUBSET DOMAIN ms, NEW i, IsForemost(ms, hits, i)
    PROVE  Foremost(ms, hits) = i
<1> DEFINE c == Foremost(ms, hits)
<1>1. /\ hits \subseteq Nat /\ \A k \in hits : Len(ms[k].server) \in Nat
      /\ i \in hits /\ \A k \in hits \ {i} : Before(ms, i, k)
    BY MappingList DEF IsForemost
<1>2. c \in hits /\ \A k \in hits \ {c} : Before(ms, c, k)
    BY <1>1 DEF Foremost, Before
<1> HIDE DEF c
<1>3. c # i => FALSE
    BY <1>1, <1>2 DEF Before
<1> QED BY <1>3 DEF c

(* The mappings' server paths have a bounded length.                          *)
LEMMA LengthsBounded ==
    ASSUME NEW ms \in Mappings
    PROVE  \E m \in Nat : \A k \in DOMAIN ms : Len(ms[k].server) <= m
<1> DEFINE Short(n, m) == \A k \in DOMAIN ms : k <= n => Len(ms[k].server) <= m
           Long == {n \in Nat : ~\E m \in Nat : Short(n, m)}
<1>1. /\ Len(ms) \in Nat /\ DOMAIN ms = 1..Len(ms)
      /\ \A k \in DOMAIN ms : Len(ms[k].server) \in Nat
    BY MappingList, LenProperties, PathAssumption
<1>2. Short(0, 0)
    BY <1>1
<1>3. ASSUME NEW n \in Nat, NEW m \in Nat, Short(n, m) PROVE \E p \in Nat : Short(n + 1, p)
    <2>1. CASE n + 1 \in DOMAIN ms
        <3> DEFINE l == Len(ms[n + 1].server)
        <3>1. l \in Nat /\ m + l \in Nat
            BY <1>1, <2>1
        <3>2. \A k \in DOMAIN ms : k <= n + 1 => k <= n \/ k = n + 1
            BY <1>1
        <3>3. \A k \in DOMAIN ms : k <= n + 1 => Len(ms[k].server) <= m \/ Len(ms[k].server) = l
            BY <1>3, <3>2
        <3> HIDE DEF l
        <3>4. Short(n + 1, m + l)
            BY <1>1, <3>1, <3>3
        <3> QED BY <3>1, <3>4
    <2>2. CASE n + 1 \notin DOMAIN ms
        <3>1. \A k \in DOMAIN ms : k <= n + 1 => k <= n
            BY <1>1, <2>2
        <3> QED BY <1>3, <3>1
    <2> QED BY <2>1, <2>2
<1> HIDE DEF Short
<1>4. Long = {}
    <2> SUFFICES ASSUME Long # {} PROVE FALSE
        OBVIOUS
    <2>1. PICK n \in Long : \A k \in Long : n <= k
        BY LeastOfNaturals
    <2>2. n # 0
        BY <1>2, <2>1
    <2>3. n - 1 \in Nat /\ n - 1 \notin Long
        BY <2>1, <2>2
    <2>4. PICK m \in Nat : Short(n - 1, m)
        BY <2>3
    <2>5. (n - 1) + 1 = n
        BY <2>1
    <2> QED BY <1>3, <2>1, <2>3, <2>4, <2>5
<1>5. PICK m \in Nat : Short(Len(ms), m)
    BY <1>1, <1>4
<1> QED BY <1>1, <1>5 DEF Short

(* Among mappings there is a longest, first one.                              *)
LEMMA ForemostExists ==
    ASSUME NEW ms \in Mappings, NEW hits \in SUBSET DOMAIN ms, hits # {}
    PROVE  \E i : IsForemost(ms, hits, i)
<1>0. PICK m \in Nat : \A k \in DOMAIN ms : Len(ms[k].server) <= m
    BY LengthsBounded
<1> DEFINE short == {m - Len(ms[k].server) : k \in hits}
<1>1. /\ hits \subseteq Nat
      /\ \A k \in hits : Len(ms[k].server) \in Nat /\ Len(ms[k].server) <= m
    BY <1>0, MappingList
<1>2. short \subseteq Nat /\ short # {}
    BY <1>1
<1>3. PICK n \in short : \A o \in short : n <= o
    BY <1>2, LeastOfNaturals
<1> DEFINE longest == {k \in hits : m - Len(ms[k].server) = n}
<1>4. longest \subseteq Nat /\ longest # {}
    BY <1>1, <1>3
<1>5. PICK i \in longest : \A k \in longest : i <= k
    BY <1>4, LeastOfNaturals
<1>6. i \in hits /\ m - Len(ms[i].server) = n /\ n \in Nat
    BY <1>2, <1>3, <1>5
<1>7. ASSUME NEW k \in hits, k # i PROVE Before(ms, i, k)
    <2>1. n <= m - Len(ms[k].server)
        BY <1>3, <1>7
    <2>2. CASE m - Len(ms[k].server) = n
        <3>1. i <= k /\ i \in Nat /\ k \in Nat
            BY <1>1, <1>5, <1>6, <1>7, <2>2
        <3>2. Len(ms[i].server) = Len(ms[k].server)
            BY <1>1, <1>6, <1>7, <2>2
        <3> QED BY <1>7, <3>1, <3>2 DEF Before
    <2>3. CASE m - Len(ms[k].server) # n
        <3> DEFINE best == Len(ms[i].server)
                   other == Len(ms[k].server)
        <3>1. /\ m \in Nat /\ best \in Nat /\ other \in Nat
              /\ m - best = n /\ n <= m - other /\ m - other # n
            BY <1>1, <1>6, <1>7, <2>1, <2>3
        <3> HIDE DEF best, other
        <3>2. best > other
            BY <3>1
        <3> QED BY <3>2 DEF Before, best, other
    <2> QED BY <2>2, <2>3
<1>8. IsForemost(ms, hits, i)
    BY <1>6, <1>7 DEF IsForemost
<1> QED BY <1>8

(* What is under the mapping of a file comes back under it, if no other       *)
(* mapping catches it (remap_worker_path_to_server_path).                     *)
LEMMA ComesBack ==
    ASSUME NEW ms \in Mappings, NEW f \in Path, NEW i, IsForemost(ms, ServerHits(ms, f), i),
           NEW r \in Path, WorkerHits(ms, ms[i].worker \o r) \subseteq ServerHits(ms, f)
    PROVE  ToServer(ms, ms[i].worker \o r) = ms[i].server \o r
<1> DEFINE w == ms[i].worker
           p == w \o r
<1>1. i \in DOMAIN ms /\ w \in Path
    BY MappingList DEF IsForemost, ServerHits
<1>2. IsPrefix(w, p) /\ Rest(p, w) = r
    BY <1>1, RestOf DEF Path
<1> HIDE DEF p
<1>3. i \in WorkerHits(ms, p)
    BY <1>1, <1>2 DEF WorkerHits
<1>4. IsForemost(ms, WorkerHits(ms, p), i)
    BY <1>3 DEF IsForemost, p
<1>5. WorkerHits(ms, p) \in SUBSET DOMAIN ms
    BY DEF WorkerHits
<1>6. Foremost(ms, WorkerHits(ms, p)) = i
    BY <1>4, <1>5, ForemostIs
<1> QED BY <1>2, <1>3, <1>6 DEF ToServer, p

(* The path an offer gives a worker, and the backup beside it, come back as   *)
(* the file and the backup beside that (remap_server_path and back).          *)
LEMMA RoundTrip ==
    ASSUME NEW ms \in Mappings, NEW f \in MediaFiles, Source(ms, f) # NoPath, Visible(ms, f)
    PROVE  /\ Source(ms, f) \in Path /\ Beside(Source(ms, f), "backup") \in Path
           /\ ToServer(ms, Source(ms, f)) = f
           /\ ToServer(ms, Beside(Source(ms, f), "backup")) = Beside(f, "backup")
<1>0. f \in Path /\ "backup" \in Name
    <2>1. f \in Path
        BY PathAssumption DEF Path
    <2>2. "backup" \in Name
        BY PathAssumption
    <2> QED BY <2>1, <2>2
<1>1. f # <<>>
    <2>1. PICK r \in MediaRoots : r # f /\ IsPrefix(r, f)
        BY PathAssumption
    <2>2. r \in Path
        BY PathAssumption DEF Path
    <2>3. r \o Rest(f, r) = f /\ Rest(f, r) # <<>> /\ Rest(f, r) \in Path
        BY <1>0, <2>1, <2>2, RestAfter DEF Path
    <2> QED BY <2>2, <2>3, ConcatEqualIffEmpty DEF Path
<1>2. CASE ms = <<>>
    <2>1. Source(ms, f) = f
        BY <1>2 DEF Source
    <2>2. \A p : ToServer(ms, p) = p
        BY <1>2 DEF ToServer, WorkerHits
    <2>3. <<>> \in Path
        BY EmptySeq DEF Path
    <2>4. Beside(f, "backup") \in Path
        BY <1>0, <1>1, <2>3, BesideOf DEF Path
    <2> QED BY <1>0, <2>1, <2>2, <2>4
<1>3. CASE ms # <<>>
    <2>1. ToWorker(ms, f) # NoPath /\ Source(ms, f) = ToWorker(ms, f)
        BY <1>3 DEF Source
    <2>2. ServerHits(ms, f) # {}
        BY <2>1 DEF ToWorker
    <2>3. PICK i : IsForemost(ms, ServerHits(ms, f), i)
        BY <1>0, <2>2, ForemostExists DEF ServerHits
    <2>4. Foremost(ms, ServerHits(ms, f)) = i
        BY <2>3, ForemostIs DEF ServerHits
    <2> DEFINE w == ms[i].worker
               s == ms[i].server
               r == Rest(f, s)
               g == w \o r
               b == Beside(r, "backup")
    <2>5. i \in DOMAIN ms /\ w \in Path /\ s \in Path /\ IsPrefix(s, f) /\ s # f
        BY <2>3, MappingList, PathAssumption DEF IsForemost, ServerHits
    <2>6. Source(ms, f) = g
        BY <2>1, <2>2, <2>4 DEF ToWorker
    <2>7. r \in Path /\ s \o r = f /\ r # <<>>
        BY <1>0, <2>5, RestAfter DEF Path
    <2>8. /\ g \in Path /\ b \in Path /\ Beside(g, "backup") \in Path
          /\ Beside(g, "backup") = w \o b /\ Beside(f, "backup") = s \o b
        <3> HIDE DEF w, s, r
        <3>1. w \in Seq(Name) /\ s \in Seq(Name) /\ r \in Seq(Name) /\ r # <<>>
            BY <2>5, <2>7 DEF Path
        <3>2. g \in Path
            BY <3>1, RestOf DEF Path
        <3> DEFINE x == "backup"
        <3>3. x \in Name
            BY <1>0
        <3> HIDE DEF x
        <3>4. /\ Beside(r, x) \in Seq(Name) /\ Beside(w \o r, x) \in Seq(Name)
              /\ Joined(w, Beside(r, x), Beside(w \o r, x))
            BY <3>1, <3>3, BesideOf
        <3>5. Joined(s, Beside(r, x), Beside(s \o r, x))
            BY <3>1, <3>3, BesideOf
        <3> QED BY <2>7, <3>2, <3>4, <3>5 DEF x, Path, Joined
    <2>9. g # <<>>
        <3> HIDE DEF w, r
        <3> QED BY <2>5, <2>7, ConcatEqualIffEmpty DEF Path
    <2>10. WorkerHits(ms, g) \subseteq ServerHits(ms, f)
        BY <2>6 DEF Visible
    <2>11. WorkerHits(ms, Beside(g, "backup")) \subseteq WorkerHits(ms, g)
        <3> SUFFICES ASSUME NEW k \in DOMAIN ms, IsPrefix(ms[k].worker, Beside(g, "backup"))
                     PROVE  IsPrefix(ms[k].worker, g)
            BY DEF WorkerHits
        <3>1. ms[k].worker \in Path
            BY MappingList
        <3>2. ms[k].worker # <<>> => Last(ms[k].worker) # "backup"
            BY PathAssumption
        <3> HIDE DEF g
        <3> QED BY <1>0, <2>8, <2>9, <3>1, <3>2, UnderNeighbour DEF Path
    <2> HIDE DEF b, r
    <2>12. ToServer(ms, w \o r) = s \o r
        BY <1>0, <2>3, <2>7, <2>10, ComesBack
    <2>13. ToServer(ms, w \o b) = s \o b
        <3> HIDE DEF g
        <3>1. WorkerHits(ms, Beside(g, "backup")) \subseteq ServerHits(ms, f)
            BY <2>10, <2>11
        <3>2. WorkerHits(ms, w \o b) \subseteq ServerHits(ms, f)
            BY <2>8, <3>1
        <3> QED BY <1>0, <2>3, <2>8, <3>2, ComesBack
    <2> QED BY <2>6, <2>7, <2>8, <2>12, <2>13
<1> QED BY <1>2, <1>3

-----------------------------------------------------------------------------
(* Where a result's paths lie.                                                *)

(* What is under a path is under what that is under.                          *)
LEMMA UnderUnder ==
    ASSUME NEW S, NEW s \in Seq(S), NEW t \in Seq(S), NEW u \in Seq(S), IsPrefix(s, t), IsPrefix(t, u)
    PROVE  IsPrefix(s, u)
<1>1. /\ Len(s) \in Nat /\ Len(t) \in Nat /\ Len(u) \in Nat
      /\ Len(s) <= Len(t) /\ \A i \in 1..Len(s) : s[i] = t[i]
      /\ Len(t) <= Len(u) /\ \A i \in 1..Len(t) : t[i] = u[i]
    BY LenProperties, UnderByName
<1>2. Len(s) <= Len(u) /\ \A i \in 1..Len(s) : s[i] = u[i]
    BY <1>1
<1> QED BY <1>2, UnderByName

(* A file of the library and its backup are under a media root.               *)
LEMMA FileInside ==
    ASSUME NEW f \in MediaFiles
    PROVE  Inside(f, MediaRoots) /\ Inside(Beside(f, "backup"), MediaRoots)
<1>1. PICK r \in MediaRoots : r # f /\ IsPrefix(r, f)
    BY PathAssumption
<1> DEFINE x == "backup"
<1>2. r \in Path /\ f \in Path /\ x \in Name
    BY PathAssumption DEF Path
<1> HIDE DEF x
<1> DEFINE t == Rest(f, r)
<1>3. t \in Path /\ t # <<>> /\ f = r \o t
    BY <1>1, <1>2, RestAfter DEF Path
<1> HIDE DEF t
<1> DEFINE b == Beside(t, x)
<1>4. b \in Path /\ Joined(r, b, Beside(r \o t, x))
    BY <1>2, <1>3, BesideOf DEF Path
<1> HIDE DEF b
<1>5. Beside(f, x) = r \o b
    BY <1>3, <1>4 DEF Joined
<1>6. IsPrefix(r, r \o b)
    BY <1>2, <1>4, RestOf DEF Path
<1>7. IsPrefix(r, Beside(f, x))
    BY <1>5, <1>6
<1> QED BY <1>1, <1>7 DEF Inside, x

(* What a worker leaves in its scratch directory is under that, or, if it has *)
(* that directory in the library, under a media root.                         *)
LEMMA OutputInside ==
    ASSUME NEW ms \in Mappings, NEW d \in Scratches
    PROVE  Inside(ToServer(ms, Append(d, "output")), MediaRoots \cup {ServerScratch, d})
<1> DEFINE x == "output"
           o == Append(d, x)
<1>1. d \in Path /\ x \in Name
    BY PathAssumption DEF Path
<1>2. o \in Path /\ IsPrefix(d, o)
    <2>1. <<x>> \in Path /\ o = d \o <<x>>
        BY <1>1, AppendIsConcat DEF Path
    <2>2. d \o <<x>> \in Path /\ IsPrefix(d, d \o <<x>>)
        BY <1>1, <2>1, RestOf DEF Path
    <2> QED BY <2>1, <2>2
<1>3. \A k \in DOMAIN ms : IsPrefix(ms[k].worker, o) =>
          \E r \in MediaRoots : IsPrefix(r, ms[k].server)
    BY PathAssumption
<1> HIDE DEF o
<1> DEFINE hits == WorkerHits(ms, o)
<1>4. ASSUME hits = {} PROVE Inside(ToServer(ms, o), MediaRoots \cup {ServerScratch, d})
    <2>1. ToServer(ms, o) = o
        BY <1>4 DEF ToServer
    <2>2. \E r \in MediaRoots \cup {ServerScratch, d} : IsPrefix(r, o)
        BY <1>2
    <2> QED BY <2>1, <2>2 DEF Inside
<1>5. ASSUME hits # {} PROVE Inside(ToServer(ms, o), MediaRoots \cup {ServerScratch, d})
    <2>1. hits \in SUBSET DOMAIN ms
        BY DEF WorkerHits
    <2>2. PICK i : IsForemost(ms, hits, i)
        BY <1>5, <2>1, ForemostExists
    <2>3. Foremost(ms, hits) = i
        BY <2>1, <2>2, ForemostIs
    <2> DEFINE s == ms[i].server
               w == ms[i].worker
               e == Rest(o, w)
    <2>4. i \in DOMAIN ms /\ IsPrefix(w, o)
        BY <2>2 DEF IsForemost, WorkerHits
    <2>5. s \in Path /\ w \in Path
        BY <2>4, MappingList
    <2>6. PICK r \in MediaRoots : IsPrefix(r, s)
        BY <1>3, <2>4
    <2>7. ToServer(ms, o) = s \o e
        BY <1>5, <2>3 DEF ToServer
    <2> HIDE DEF s, w
    <2>8. e \in Path
        BY <1>2, <2>4, <2>5, RestAfter DEF Path
    <2> HIDE DEF e
    <2> DEFINE v == s \o e
    <2>0. ToServer(ms, o) = v
        BY <2>7
    <2>9. r \in Path /\ v \in Path /\ IsPrefix(s, v)
        BY <2>5, <2>8, RestOf, PathAssumption DEF Path
    <2> HIDE DEF v
    <2>10. IsPrefix(r, v)
        BY <2>5, <2>6, <2>9, UnderUnder DEF Path
    <2>11. r \in MediaRoots \cup {ServerScratch, d}
        BY <2>6
    <2>12. Inside(v, MediaRoots \cup {ServerScratch, d})
        BY <2>10, <2>11 DEF Inside
    <2> QED BY <2>0, <2>12
<1>6. Inside(ToServer(ms, o), MediaRoots \cup {ServerScratch, d})
    BY <1>4, <1>5
<1>7. Append(d, "output") = o
    BY DEF o
<1> QED BY <1>6, <1>7

-----------------------------------------------------------------------------
(* A worker's job.                                                            *)

TaskShape ==
    task = [at |-> task.at, file |-> task.file, given |-> task.given, status |-> task.status,
            output |-> task.output, final |-> task.final, backup |-> task.backup]

NoPaths == task.output = NoPath /\ task.final = NoPath /\ task.backup = NoPath

Reported ==
    \/ /\ task.status = "completed" /\ task.output = Append(agent.scratch, "output")
       /\ task.final = task.given /\ task.backup = Beside(task.given, "backup")
    \/ task.status = "failed" /\ NoPaths

(* While the row stands, the agent works in its scratch directory and on the  *)
(* path its mappings give the file; what it reports is under the two.         *)
PathInv ==
    /\ worker \in [mappings : Mappings, scratch : Scratches, usable : BOOLEAN]
    /\ TaskShape
    /\ PathTypeOK
    /\ ~edited => agent.scratch = worker.scratch
    /\ task.at \in {"offered", "running", "done"} /\ ~edited =>
          task.given = Source(worker.mappings, task.file)
    /\ task.at \in {"offered", "running"} => NoPaths
    /\ task.at = "done" => Reported
    /\ ReturnsToFile

(* A worker starts with what its row says and no job.                         *)
LEMMA PathStarts ==
    PathInit => PathInv
<1> SUFFICES ASSUME PathInit PROVE PathInv
    OBVIOUS
<1>1. worker \in [mappings : Mappings, scratch : Scratches, usable : BOOLEAN]
    BY DEF PathInit
<1>2. /\ TaskShape /\ NoPaths /\ task.at = "none" /\ agent.scratch = worker.scratch
      /\ agent.invalid = {} /\ edited = FALSE
    BY DEF PathInit, NoTask, TaskShape, NoPaths, Configuration
<1> QED BY <1>1, <1>2 DEF PathInv, PathTypeOK, ReturnsToFile

(* A result that comes back while the row stands is recorded, and a completed *)
(* one with the paths of the file and of its backup.                          *)
LEMMA ReturnedHome ==
    ASSUME PathInv, task.at = "done", ~edited, Visible(worker.mappings, task.file)
    PROVE  /\ Returned = [task EXCEPT !.at = "recorded", !.output = Translated(task.output),
                             !.final = Translated(task.final), !.backup = Translated(task.backup)]
           /\ task.status = "completed" => /\ Translated(task.final) = task.file
                                           /\ Translated(task.backup) = Beside(task.file, "backup")
<1> DEFINE ms == worker.mappings
           f == task.file
           g == task.given
           x == "backup"
<1>1. /\ ms \in Mappings /\ worker.scratch \in Scratches /\ f \in MediaFiles
      /\ g = Source(ms, f) /\ g # NoPath /\ agent.scratch = worker.scratch /\ Reported
    BY DEF PathInv, PathTypeOK
<1> HIDE DEF ms, f, g
<1>2. g \in Path /\ Beside(g, x) \in Path /\ ToServer(ms, g) = f
      /\ ToServer(ms, Beside(g, x)) = Beside(f, x)
    BY <1>1, RoundTrip DEF ms, f
<1>3. Inside(f, MediaRoots) /\ Inside(Beside(f, x), MediaRoots)
    BY <1>1, FileInside
<1>4. NoPath \notin Path
    BY PathAssumption DEF Path
<1>5. CASE task.status = "completed" /\ task.output = Append(agent.scratch, "output")
           /\ task.final = g /\ task.backup = Beside(g, x)
    <2>1. Translated(task.final) = f /\ Translated(task.backup) = Beside(f, x)
        BY <1>2, <1>4, <1>5 DEF Translated, ms
    <2>2. Translated(task.output) = NoPath \/ Inside(Translated(task.output), OutputRoots)
        BY <1>1, <1>5, OutputInside DEF Translated, OutputRoots, ms
    <2> QED BY <1>3, <2>1, <2>2 DEF Returned, Authorized, f
<1>6. CASE task.status = "failed" /\ NoPaths
    BY <1>6 DEF Returned, Translated, Authorized, NoPaths
<1> QED BY <1>1, <1>5, <1>6 DEF Reported, g

(* The worker's row, its heartbeats and its jobs keep this.                   *)
LEMMA PathKept ==
    PathInv /\ [PathNext]_pathVars => PathInv'
<1> SUFFICES ASSUME PathInv, [PathNext]_pathVars PROVE PathInv'
    OBVIOUS
<1> USE DEF PathInv, PathTypeOK
<1>1. CASE Edit
    <2>1. PICK ms \in Mappings, scratch \in Scratches :
              worker' = [worker EXCEPT !.mappings = ms, !.scratch = scratch]
        BY <1>1 DEF Edit
    <2>2. worker' \in [mappings : Mappings, scratch : Scratches, usable : BOOLEAN]
        BY <2>1
    <2>3. edited' = TRUE /\ task' = task /\ agent' = agent
        BY <1>1 DEF Edit
    <2>4. PathTypeOK'
        BY <2>2, <2>3
    <2>5. TaskShape' /\ (NoPaths <=> NoPaths') /\ (Reported <=> Reported')
        BY <2>3 DEF TaskShape, NoPaths, Reported
    <2> QED BY <2>2, <2>3, <2>4, <2>5 DEF ReturnsToFile
<1>2. CASE Beat
    <2>1. worker' = [worker EXCEPT !.usable = Validated(worker.mappings)]
          /\ Validated(worker.mappings) \in BOOLEAN /\ task' = task /\ edited' = FALSE
        BY <1>2 DEF Beat, Validated
    <2>2. /\ worker' \in [mappings : Mappings, scratch : Scratches, usable : BOOLEAN]
          /\ worker'.scratch = worker.scratch
        BY <2>1
    <2>3. agent'.scratch = worker'.scratch /\ agent'.invalid \cap Mounted = {}
        BY <1>2, <2>1, <2>2 DEF Beat, Configuration, Findings
    <2>4. task.at = "none"
        BY <1>2 DEF Beat
    <2>5. PathTypeOK' /\ TaskShape'
        BY <2>1, <2>2, <2>3, <2>4 DEF TaskShape
    <2> QED BY <2>1, <2>2, <2>3, <2>4, <2>5 DEF ReturnsToFile
<1>3. CASE Offer
    <2>1. PICK file \in MediaFiles :
              /\ CanRun(file)
              /\ task' = [NoTask EXCEPT !.at = "offered", !.file = file,
                                        !.given = Source(worker.mappings, file)]
        BY <1>3 DEF Offer
    <2>2. UNCHANGED <<worker, agent, edited>>
        BY <1>3 DEF Offer
    <2>3. /\ task'.at = "offered" /\ task'.file = file /\ TaskShape' /\ NoPaths'
          /\ task'.given = Source(worker.mappings, file)
        BY <2>1 DEF NoTask, TaskShape, NoPaths
    <2>4. task'.given # NoPath
        BY <2>1, <2>3 DEF CanRun
    <2> QED BY <2>2, <2>3, <2>4 DEF ReturnsToFile
<1>4. CASE Accept
    <2>1. UNCHANGED <<worker, agent, edited>> /\ task.at = "offered"
        BY <1>4 DEF Accept
    <2>2. CASE task' = [task EXCEPT !.at = "running"]
        <3>1. /\ TaskShape' /\ NoPaths' /\ task'.at = "running" /\ task'.file = task.file
              /\ task'.given = task.given
            BY <2>1, <2>2 DEF TaskShape, NoPaths
        <3> QED BY <2>1, <3>1 DEF ReturnsToFile
    <2>3. CASE task' = NoTask
        <3>1. TaskShape' /\ task'.at = "none"
            BY <2>3 DEF NoTask, TaskShape
        <3> QED BY <2>1, <3>1 DEF ReturnsToFile
    <2> QED BY <1>4, <2>2, <2>3 DEF Accept
<1>5. CASE Execute
    <2>1. UNCHANGED <<worker, agent, edited>> /\ task.at = "running"
        BY <1>5 DEF Execute
    <2>2. CASE task' = [task EXCEPT !.at = "done", !.status = "completed",
                           !.output = Append(agent.scratch, "output"),
                           !.final = task.given, !.backup = Beside(task.given, "backup")]
        <3>1. /\ TaskShape' /\ task'.at = "done" /\ task'.file = task.file
              /\ task'.given = task.given /\ Reported'
            BY <2>1, <2>2 DEF TaskShape, Reported
        <3> QED BY <2>1, <3>1 DEF ReturnsToFile
    <2>3. CASE task' = [task EXCEPT !.at = "done", !.status = "failed"]
        <3>1. /\ TaskShape' /\ task'.at = "done" /\ task'.file = task.file
              /\ task'.given = task.given /\ Reported'
            BY <2>1, <2>3 DEF TaskShape, Reported, NoPaths
        <3> QED BY <2>1, <3>1 DEF ReturnsToFile
    <2> QED BY <1>5, <2>2, <2>3 DEF Execute
<1>6. CASE Return
    <2>1. UNCHANGED <<worker, agent, edited>> /\ task.at = "done" /\ task' = Returned
        BY <1>6 DEF Return
    <2>2. \/ Returned = Untrusted
          \/ Returned = [task EXCEPT !.at = "recorded", !.output = Translated(task.output),
                            !.final = Translated(task.final), !.backup = Translated(task.backup)]
        BY DEF Returned
    <2>3. /\ TaskShape' /\ task'.at = "recorded" /\ task'.file = task.file
          /\ task'.given = task.given
        <3>1. CASE Returned = Untrusted
            BY <2>1, <3>1 DEF Untrusted, NoTask, TaskShape
        <3>2. CASE Returned # Untrusted
            BY <2>1, <2>2, <3>2 DEF TaskShape
        <3> QED BY <3>1, <3>2
    <2>4. ReturnsToFile'
        <3> SUFFICES ASSUME ~edited, Visible(worker.mappings, task.file)
                     PROVE  /\ task'.status # "untrusted"
                            /\ task'.status = "completed" =>
                                  /\ task'.final = task'.file
                                  /\ task'.backup = Beside(task'.file, "backup")
            BY <2>1, <2>3 DEF ReturnsToFile
        <3>1. /\ task' = [task EXCEPT !.at = "recorded", !.output = Translated(task.output),
                            !.final = Translated(task.final), !.backup = Translated(task.backup)]
              /\ task.status = "completed" => /\ Translated(task.final) = task.file
                                              /\ Translated(task.backup) = Beside(task.file, "backup")
            BY <2>1, ReturnedHome
        <3>2. /\ task'.status = task.status /\ task'.final = Translated(task.final)
              /\ task'.backup = Translated(task.backup)
            BY <3>1 DEF TaskShape
        <3>3. task.status # "untrusted"
            BY <2>1 DEF Reported
        <3> QED BY <2>3, <3>1, <3>2, <3>3
    <2> QED BY <2>1, <2>3, <2>4
<1>7. CASE NextTask
    <2>1. UNCHANGED <<worker, agent, edited>> /\ TaskShape' /\ task'.at = "none"
        BY <1>7 DEF NextTask, NoTask, TaskShape
    <2> QED BY <2>1 DEF ReturnsToFile
<1>8. CASE UNCHANGED pathVars
    <2>1. worker' = worker /\ agent' = agent /\ task' = task /\ edited' = edited
        BY <1>8 DEF pathVars
    <2>2. (TaskShape' <=> TaskShape) /\ (NoPaths' <=> NoPaths) /\ (Reported' <=> Reported)
        BY <2>1 DEF TaskShape, NoPaths, Reported
    <2>3. ReturnsToFile'
        BY <2>1 DEF ReturnsToFile
    <2> QED BY <2>1, <2>2, <2>3
<1> QED BY <1>1, <1>2, <1>3, <1>4, <1>5, <1>6, <1>7, <1>8 DEF PathNext

(* A worker's row, its agent's configuration and its job are well formed.     *)
THEOREM PathsTyped == PathSpec => []PathTypeOK
<1>1. PathInv => PathTypeOK
    BY DEF PathInv
<1> QED BY <1>1, PathStarts, PathKept, PTL DEF PathSpec

(* While a worker's configuration stands, what it did to a file its mappings  *)
(* do not hide is recorded, for that file and the backup beside it, whatever  *)
(* the mappings, nested ones included.                                        *)
THEOREM ComesHome == PathSpec => []ReturnsToFile
<1>1. PathInv => ReturnsToFile
    BY DEF PathInv
<1> QED BY <1>1, PathStarts, PathKept, PTL DEF PathSpec

USE WindowsAssumption
-----------------------------------------------------------------------------
(* The clock.                                                                 *)

(* The instant a clock shows c on the day d.                                  *)
At(d, c) == d * Slots + c

(* Division of naturals and of integers has one quotient and one remainder.   *)
LEMMA Division ==
    ASSUME NEW n \in Nat \ {0}, NEW t \in Int
    PROVE  /\ t \div n \in Int /\ t % n \in 0..n-1
           /\ t = (t \div n) * n + (t % n)
           /\ \A q \in Int, c \in 0..n-1 : t = q * n + c => t \div n = q /\ t % n = c
<1>1. /\ t \div n \in Int /\ t % n \in 0..n-1
      /\ t = (t \div n) * n + (t % n)
    BY Z3
<1>2. ASSUME NEW q \in Int, NEW c \in 0..n-1, NEW p \in Int, NEW d \in 0..n-1,
             q * n + c = p * n + d
      PROVE  p = q /\ d = c
    <2>1. ASSUME q < p PROVE FALSE
        <3>1. PICK k \in Nat : p = q + 1 + k
            <4>1. p - q - 1 \in Nat /\ p = q + 1 + (p - q - 1)
                BY <2>1
            <4> QED BY <4>1
        <3>2. p * n = q * n + n + k * n
            BY <3>1
        <3>3. k * n >= 0
            OBVIOUS
        <3> QED BY <1>2, <3>2, <3>3
    <2>2. ASSUME p < q PROVE FALSE
        <3>1. PICK k \in Nat : q = p + 1 + k
            <4>1. q - p - 1 \in Nat /\ q = p + 1 + (q - p - 1)
                BY <2>2
            <4> QED BY <4>1
        <3>2. q * n = p * n + n + k * n
            BY <3>1
        <3>3. k * n >= 0
            OBVIOUS
        <3> QED BY <1>2, <3>2, <3>3
    <2> QED BY <1>2, <2>1, <2>2
<1> QED BY <1>1, <1>2

(* The instants of a week in the order of their days and clocks.              *)
LEMMA ClockOrder ==
    ASSUME NEW d \in Int, NEW e \in Int, NEW c \in 0..Slots-1, NEW f \in 0..Slots-1
    PROVE  /\ At(d, c) \in Int
           /\ At(d, c) <= At(e, f) <=> (d < e \/ (d = e /\ c <= f))
<1>1. At(d, c) \in Int /\ At(e, f) \in Int
    BY DEF At
<1>2. ASSUME NEW x \in Int, NEW y \in Int, x < y PROVE x * Slots + Slots <= y * Slots
    <2>1. PICK k \in Nat : y = x + 1 + k
        <3>1. y - x - 1 \in Nat /\ y = x + 1 + (y - x - 1)
            BY <1>2
        <3> QED BY <3>1
    <2>2. y * Slots = x * Slots + Slots + k * Slots
        BY <2>1
    <2>3. k * Slots >= 0
        OBVIOUS
    <2> QED BY <2>2, <2>3
<1>3. d < e => At(d, c) < At(e, f)
    BY <1>2 DEF At
<1>4. e < d => At(e, f) < At(d, c)
    BY <1>2 DEF At
<1>5. d = e => (At(d, c) <= At(e, f) <=> c <= f)
    BY DEF At
<1> QED BY <1>1, <1>3, <1>4, <1>5

(* What the clock shows at an instant.                                        *)
LEMMA ClockShows ==
    /\ \A t \in Int : /\ Day(t) \in Int /\ Clock(t) \in 0..Slots-1
                      /\ t = At(Day(t), Clock(t))
    /\ \A d \in Int, c \in 0..Slots-1 : Day(At(d, c)) = d /\ Clock(At(d, c)) = c
<1>1. Slots \in Nat \ {0}
    OBVIOUS
<1>2. ASSUME NEW t \in Int
      PROVE  Day(t) \in Int /\ Clock(t) \in 0..Slots-1 /\ t = At(Day(t), Clock(t))
    BY <1>1, Division DEF Day, Clock, At
<1>3. ASSUME NEW d \in Int, NEW c \in 0..Slots-1
      PROVE  Day(At(d, c)) = d /\ Clock(At(d, c)) = c
    <2>1. At(d, c) \in Int
        BY DEF At
    <2> QED BY <1>1, <2>1, Division DEF Day, Clock, At
<1> QED BY <1>2, <1>3

(* The weekdays: a week later it is the same one, and each comes within a week. *)
LEMMA WeekGoesRound ==
    ASSUME NEW d \in Int
    PROVE  /\ Weekday(d) \in 0..Days-1
           /\ Weekday(d + Days) = Weekday(d)
           /\ Weekday((d - 1) + Days) = Weekday(d - 1)
           /\ \A k \in 0..Days-1 : \E o \in 0..Days-1 : Weekday(d + o) = k
<1>1. Days \in Nat \ {0}
    OBVIOUS
<1>2. ASSUME NEW x \in Int PROVE Weekday(x) \in 0..Days-1 /\ Weekday(x + Days) = Weekday(x)
    <2> DEFINE q == x \div Days
               r == x % Days
    <2>1. q \in Int /\ r \in 0..Days-1 /\ x = q * Days + r
        BY <1>1, Division
    <2> HIDE DEF q, r
    <2>2. x + Days = (q + 1) * Days + r
        BY <2>1
    <2>3. (x + Days) % Days = r /\ x % Days = r
        BY <1>1, <2>1, <2>2, Division
    <2> QED BY <2>1, <2>3 DEF Weekday
<1>3. ASSUME NEW k \in 0..Days-1 PROVE \E o \in 0..Days-1 : Weekday(d + o) = k
    <2> DEFINE q == d \div Days
               r == d % Days
    <2>1. q \in Int /\ r \in 0..Days-1 /\ d = q * Days + r
        BY <1>1, Division
    <2> HIDE DEF q, r
    <2>2. CASE r <= k
        <3>1. k - r \in 0..Days-1 /\ d + (k - r) = q * Days + k
            BY <2>1, <2>2
        <3>2. (d + (k - r)) % Days = k
            BY <1>1, <2>1, <3>1, Division
        <3> QED BY <3>1, <3>2 DEF Weekday
    <2>3. CASE k < r
        <3>1. k - r + Days \in 0..Days-1 /\ d + (k - r + Days) = (q + 1) * Days + k
            BY <2>1, <2>3
        <3>2. (d + (k - r + Days)) % Days = k
            BY <1>1, <2>1, <3>1, Division
        <3> QED BY <3>1, <3>2 DEF Weekday
    <2> QED BY <2>1, <2>2, <2>3
<1>4. d - 1 \in Int
    OBVIOUS
<1> QED BY <1>2, <1>3, <1>4

-----------------------------------------------------------------------------
(* When the windows open.                                                     *)

(* w opens at u: u shows its start on one of its days.                        *)
OpensAt(w, u) == Weekday(Day(u)) \in w.days /\ Clock(u) = w.start

(* The starts of windows on the days next_opening_at looks at.                *)
Starts(ws, t) == {(Day(t) + o) * Slots + w.start : w \in ws, o \in Offsets}
Openings(ws, t) == {u \in Starts(ws, t) : u >= t /\ \E w \in ws : OpensAt(w, u)}

(* The start of a window on a day is what the clock shows then.               *)
LEMMA WindowStarts ==
    ASSUME NEW w \in Window, NEW d \in Int
    PROVE  /\ w.start \in 0..Slots-1 /\ w.end \in 0..Slots-1
           /\ w.days \subseteq 0..Days-1 /\ w.days # {}
           /\ At(d, w.start) \in Int
           /\ Day(At(d, w.start)) = d /\ Clock(At(d, w.start)) = w.start
<1>1. /\ w.start \in 0..Slots-1 /\ w.end \in 0..Slots-1
      /\ w.days \subseteq 0..Days-1 /\ w.days # {}
    <2>1. w.days \in (SUBSET (0..Days-1)) \ {{}} /\ w.start \in Boundaries /\ w.end \in Boundaries
        BY DEF Window
    <2> QED BY <2>1
<1> QED BY <1>1, ClockShows, ClockOrder

(* A start on a day looked at, at which the window opens, is an opening.      *)
LEMMA StartIsOpening ==
    ASSUME NEW ws \in SUBSET Window, NEW t \in Nat, NEW w \in ws, NEW d \in Int,
           Day(t) <= d, d <= Day(t) + Days, Weekday(d) \in w.days, t <= At(d, w.start)
    PROVE  At(d, w.start) \in Openings(ws, t)
<1>1. w \in Window /\ Day(t) \in Int
    BY ClockShows
<1>2. d - Day(t) \in Offsets /\ d = Day(t) + (d - Day(t))
    BY <1>1 DEF Offsets
<1>3. At(d, w.start) = (Day(t) + (d - Day(t))) * Slots + w.start
    BY <1>2 DEF At
<1>4. At(d, w.start) \in Starts(ws, t)
    BY <1>2, <1>3 DEF Starts
<1>5. OpensAt(w, At(d, w.start))
    BY <1>1, WindowStarts DEF OpensAt
<1> QED BY <1>1, <1>4, <1>5, WindowStarts DEF Openings

(* Every opening is at the start of a window on a day looked at.              *)
LEMMA OpeningIsStart ==
    ASSUME NEW ws \in SUBSET Window, NEW t \in Nat, NEW u \in Openings(ws, t)
    PROVE  /\ u \in Nat /\ u >= t /\ Day(u) <= Day(t) + Days
           /\ AllowNow(ws, u)
<1>1. PICK w \in ws, o \in Offsets : u = (Day(t) + o) * Slots + w.start
    BY DEF Openings, Starts
<1>2. w \in Window /\ Day(t) \in Int /\ o \in Int /\ o <= Days
    BY ClockShows DEF Offsets
<1>3. Day(t) + o \in Int /\ u = At(Day(t) + o, w.start)
    BY <1>1, <1>2 DEF At
<1>4. u \in Int /\ Day(u) = Day(t) + o
    BY <1>2, <1>3, WindowStarts
<1>5. u \in Nat /\ u >= t /\ Day(u) <= Day(t) + Days
    BY <1>2, <1>4 DEF Openings
<1>6. PICK v \in ws : OpensAt(v, u)
    BY DEF Openings
<1>7. v.start \in 0..Slots-1 /\ v.end \in 0..Slots-1
    BY WindowStarts DEF Window
<1>8. Open(v, u)
    BY <1>6, <1>7 DEF OpensAt, Open
<1> QED BY <1>5, <1>8 DEF AllowNow

(* Within a week from any instant each window opens.                          *)
LEMMA OpensWithinWeek ==
    ASSUME NEW ws \in SUBSET Window, NEW t \in Nat, NEW w \in ws
    PROVE  \E u \in Openings(ws, t) : u < t + Days * Slots
<1> DEFINE D == Day(t)
           s == w.start
<1>0. /\ w \in Window /\ D \in Int /\ Clock(t) \in 0..Slots-1 /\ t = At(D, Clock(t))
      /\ s \in 0..Slots-1
    BY ClockShows, WindowStarts
<1>1. PICK k \in w.days : k \in 0..Days-1
    BY <1>0, WindowStarts
<1>2. PICK o \in 0..Days-1 : Weekday(D + o) = k
    BY <1>0, <1>1, WeekGoesRound
<1>3. Weekday((D + o) + Days) = k
    BY <1>0, <1>2, WeekGoesRound
<1>4. \A d \in Int : At(d + Days, s) = At(d, s) + Days * Slots
    BY <1>0 DEF At
<1>5. At(D, Clock(t)) + Days * Slots = At(D + Days, Clock(t))
    BY <1>0 DEF At
<1>6. CASE At(D + o, s) >= t
    <2>0. /\ D + o \in Int /\ D <= D + o /\ D + o <= D + Days
          /\ Weekday(D + o) \in w.days /\ t <= At(D + o, s)
        <3>1. At(D + o, s) \in Int
            BY <1>0, ClockOrder
        <3> QED BY <1>0, <1>1, <1>2, <1>6, <3>1
    <2>1. At(D + o, s) \in Openings(ws, t)
        BY <2>0, StartIsOpening
    <2>2. ~(At(D + Days, Clock(t)) <= At(D + o, s))
        BY <1>0, ClockOrder
    <2>3. At(D + o, s) \in Int /\ At(D + Days, Clock(t)) \in Int
        BY <1>0, ClockOrder
    <2>4. At(D + o, s) < t + Days * Slots
        BY <1>0, <1>5, <2>2, <2>3
    <2> QED BY <2>1, <2>4
<1>7. CASE At(D + o, s) < t
    <2> HIDE DEF D, s
    <2>1. At(D + o, s) \in Int /\ At((D + o) + Days, s) \in Int /\ At(D, Clock(t)) \in Int
        BY <1>0, ClockOrder
    <2>2. o = 0
        <3>1. ~(At(D, Clock(t)) <= At(D + o, s))
            BY <1>0, <1>7, <2>1
        <3> QED BY <1>0, <3>1, ClockOrder
    <2>3. At(D + Days, s) >= t
        BY <1>0, ClockOrder
    <2>4. At(D + Days, s) \in Openings(ws, t)
        <3>1. D + Days \in Int /\ D <= D + Days /\ Weekday(D + Days) \in w.days
            BY <1>0, <1>1, <1>3, <2>2
        <3> QED BY <2>3, <3>1, StartIsOpening DEF D, s
    <2>5. At(D + Days, s) = At(D + o, s) + Days * Slots
        BY <1>0, <1>4, <2>2
    <2>6. Days * Slots \in Int
        OBVIOUS
    <2>7. At(D + Days, s) < t + Days * Slots
        BY <1>7, <2>1, <2>5, <2>6
    <2> QED BY <2>4, <2>7
<1>8. At(D + o, s) \in Int
    BY <1>0, ClockOrder
<1> QED BY <1>6, <1>7, <1>8

(* Nobody's window is open before the first opening if none is open now.      *)
LEMMA ClosedBefore ==
    ASSUME NEW ws \in SUBSET Window, NEW t \in Nat, NEW u \in Nat, t <= u,
           Day(u) <= Day(t) + Days, ~AllowNow(ws, t), AllowNow(ws, u)
    PROVE  \E s \in Openings(ws, t) : s <= u
<1>1. PICK w \in ws : Open(w, u)
    BY DEF AllowNow
<1>2. ~Open(w, t)
    BY DEF AllowNow
<1> DEFINE D == Day(t)
           E == Day(u)
<1>3. /\ w \in Window /\ D \in Int /\ E \in Int
      /\ Clock(t) \in 0..Slots-1 /\ Clock(u) \in 0..Slots-1
      /\ t = At(D, Clock(t)) /\ u = At(E, Clock(u))
      /\ w.start \in 0..Slots-1 /\ w.end \in 0..Slots-1
    BY ClockShows, WindowStarts
<1>4. D < E \/ (D = E /\ Clock(t) <= Clock(u))
    BY <1>3, ClockOrder
<1>5. E <= D + Days /\ E - 1 \in Int
    BY <1>3
<1>6. Weekday(E - 1 + Days) = Weekday(E - 1)
    BY <1>3, WeekGoesRound
<1>7. Weekday(E + Days - 1) = Weekday(E - 1)
    <2>1. E + Days - 1 = E - 1 + Days
        BY <1>3
    <2> QED BY <1>6, <2>1
\* The start that u comes after, on its day or, after midnight, the day before.
<1>8. \/ Weekday(E) \in w.days /\ w.start <= Clock(u) /\ (w.start <= w.end => Clock(u) <= w.end)
      \/ Weekday(E - 1) \in w.days /\ w.start > w.end /\ Clock(u) <= w.end
    BY <1>1, <1>3, <1>7 DEF Open
<1>a. /\ ~Open(w, t) <=> IF w.start <= w.end
                          THEN ~(Weekday(D) \in w.days /\ Clock(t) \in w.start..w.end)
                          ELSE /\ ~(Weekday(D) \in w.days /\ Clock(t) >= w.start)
                               /\ ~(Weekday(D + Days - 1) \in w.days /\ Clock(t) <= w.end)
      /\ \A d \in Int : /\ Day(t) <= d /\ d <= Day(t) + Days /\ Weekday(d) \in w.days
                        /\ t <= At(d, w.start)
                        => At(d, w.start) \in Openings(ws, t)
    BY StartIsOpening DEF Open
<1>b. /\ At(E, w.start) <= At(E, Clock(u)) <=> w.start <= Clock(u)
      /\ At(D, Clock(t)) <= At(E, w.start) <=> (D < E \/ (D = E /\ Clock(t) <= w.start))
      /\ At(E - 1, w.start) <= At(E, Clock(u))
      /\ At(D, Clock(t)) <= At(E - 1, w.start)
            <=> (D < E - 1 \/ (D = E - 1 /\ Clock(t) <= w.start))
    <2> HIDE DEF D, E
    <2> DEFINE c == Clock(t)
               f == Clock(u)
               s == w.start
    <2>0. /\ D \in Int /\ E \in Int /\ E - 1 \in Int
          /\ c \in 0..Slots-1 /\ f \in 0..Slots-1 /\ s \in 0..Slots-1
        BY <1>3, <1>5
    <2> HIDE DEF c, f, s
    <2>1. At(E, s) <= At(E, f) <=> s <= f
        BY <2>0, ClockOrder
    <2>2. At(D, c) <= At(E, s) <=> (D < E \/ (D = E /\ c <= s))
        BY <2>0, ClockOrder
    <2>3. At(E - 1, s) <= At(E, f)
        BY <2>0, ClockOrder
    <2>4. At(D, c) <= At(E - 1, s) <=> (D < E - 1 \/ (D = E - 1 /\ c <= s))
        BY <2>0, ClockOrder
    <2> QED BY <2>1, <2>2, <2>3, <2>4 DEF c, f, s
<1> HIDE DEF D, E
<1>9. CASE /\ Weekday(E) \in w.days /\ w.start <= Clock(u)
           /\ w.start <= w.end => Clock(u) <= w.end
    <2>1. At(E, w.start) <= u
        BY <1>3, <1>9, <1>b
    <2>2. CASE t <= At(E, w.start)
        BY <1>3, <1>4, <1>5, <1>9, <2>1, <2>2, <1>a DEF D, E
    <2>3. CASE ~(t <= At(E, w.start))
        <3>1. ~(D < E \/ (D = E /\ Clock(t) <= w.start))
            BY <1>3, <1>5, <1>b, <2>3
        <3>2. D = E /\ w.start < Clock(t) /\ Clock(t) <= Clock(u)
            BY <1>3, <1>4, <3>1
        <3>3. Weekday(D) \in w.days /\ (w.start <= w.end => Clock(t) \in w.start..w.end)
            BY <1>3, <1>9, <3>2
        <3> QED BY <1>2, <1>3, <1>a, <3>2, <3>3
    <2> QED BY <2>2, <2>3
<1>10. CASE Weekday(E - 1) \in w.days /\ w.start > w.end /\ Clock(u) <= w.end
    <2>1. At(E - 1, w.start) <= u
        BY <1>3, <1>5, <1>b
    <2>2. CASE t <= At(E - 1, w.start)
        <3>1. D <= E - 1
            BY <1>3, <1>5, <1>b, <2>2
        <3> QED BY <1>3, <1>5, <1>10, <2>1, <2>2, <3>1, <1>a DEF D, E
    <2>3. CASE ~(t <= At(E - 1, w.start))
        <3>1. ~(D < E - 1 \/ (D = E - 1 /\ Clock(t) <= w.start))
            BY <1>3, <1>5, <1>b, <2>3
        <3>2. CASE D = E
            <4>1. Clock(t) <= w.end /\ Weekday(D + Days - 1) \in w.days
                BY <1>3, <1>4, <1>7, <1>10, <3>2
            <4> QED BY <1>2, <1>3, <1>10, <1>a, <3>2, <4>1
        <3>3. CASE D = E - 1
            <4>1. Clock(t) >= w.start /\ Weekday(D) \in w.days
                BY <1>3, <1>10, <3>1, <3>3
            <4> QED BY <1>2, <1>3, <1>10, <1>a, <3>3, <4>1
        <3> QED BY <1>3, <1>4, <3>1, <3>2, <3>3
    <2> QED BY <2>2, <2>3
<1> QED BY <1>8, <1>9, <1>10

(* next_opening_at: when no window is open, the first instant at which one    *)
(* is, less than a week away.                                                 *)
LEMMA NextOpeningIsFirst ==
    ASSUME NEW ws \in SUBSET Window, NEW t \in Nat, ~AllowNow(ws, t)
    PROVE  /\ NextOpening(ws, t) \in Nat
           /\ t <= NextOpening(ws, t) /\ NextOpening(ws, t) < t + Days * Slots
           /\ AllowNow(ws, NextOpening(ws, t))
           /\ \A u \in t..NextOpening(ws, t)-1 : ~AllowNow(ws, u)
<1> DEFINE O == Openings(ws, t)
           m == NextOpening(ws, t)
<1>1. ws # {}
    BY DEF AllowNow
<1>2. PICK u0 \in O : u0 < t + Days * Slots
    BY <1>1, OpensWithinWeek
<1>3. O \subseteq Nat
    BY OpeningIsStart
<1>4. m = Min(O)
    BY <1>1, <1>2 DEF NextOpening, Openings, Starts, OpensAt
<1>5. m \in O /\ \A k \in O : m <= k
    BY <1>2, <1>3, <1>4, MinOfNaturals
<1>6. /\ m \in Nat /\ m >= t /\ Day(m) <= Day(t) + Days /\ AllowNow(ws, m)
    BY <1>5, OpeningIsStart
<1>7. m < t + Days * Slots
    <2>1. m <= u0 /\ u0 \in Nat /\ Days * Slots \in Int
        BY <1>2, <1>3, <1>5
    <2> QED BY <1>2, <1>6, <2>1
<1>8. ASSUME NEW u \in t..m-1, AllowNow(ws, u) PROVE FALSE
    <2>1. u \in Nat /\ t <= u /\ u < m
        BY <1>6
    <2>2. Day(u) <= Day(m)
        <3>1. /\ Day(u) \in Int /\ Clock(u) \in 0..Slots-1 /\ u = At(Day(u), Clock(u))
              /\ Day(m) \in Int /\ Clock(m) \in 0..Slots-1 /\ m = At(Day(m), Clock(m))
            BY <1>6, <2>1, ClockShows
        <3>2. At(Day(u), Clock(u)) <= At(Day(m), Clock(m))
            BY <1>6, <2>1, <3>1
        <3> QED BY <3>1, <3>2, ClockOrder
    <2>3. Day(u) <= Day(t) + Days
        BY <1>6, <2>1, <2>2, ClockShows
    <2>4. PICK s \in O : s <= u
        BY <1>8, <2>1, <2>3, ClosedBefore
    <2>5. m <= s /\ s \in Nat
        BY <1>3, <1>5
    <2> QED BY <1>6, <2>1, <2>4, <2>5
<1> QED BY <1>6, <1>7, <1>8

-----------------------------------------------------------------------------
(* The sweep.                                                                 *)

WindowsInv ==
    /\ WindowsTypeOK /\ now <= Days * Slots
    /\ OpeningIsNext

(* A job starts pending.                                                      *)
LEMMA WindowsStart == WindowsInit => WindowsInv
<1> SUFFICES ASSUME WindowsInit PROVE WindowsInv
    OBVIOUS
<1>1. Days * Slots \in Nat
    OBVIOUS
<1>2. Horizon = 2 * (Days * Slots)
    BY DEF Horizon
<1> HIDE WindowsAssumption
<1> DEFINE W == Days * Slots
<1>3. W \in Nat /\ Horizon = 2 * W /\ now \in 0..W-1
    BY <1>1, <1>2 DEF WindowsInit
<1> HIDE DEF W
<1>4. now \in 0..Horizon /\ now <= W
    BY <1>3
<1>5. WindowsTypeOK
    BY <1>4 DEF WindowsInit, WindowsTypeOK
<1> QED BY <1>4, <1>5 DEF WindowsInit, WindowsInv, OpeningIsNext, W

(* The time that passes and the sweep keep the date of a job that waits right. *)
LEMMA WindowsKept == WindowsInv /\ [WindowsNext]_windowVars => WindowsInv'
<1> SUFFICES ASSUME WindowsInv, [WindowsNext]_windowVars PROVE WindowsInv'
    OBVIOUS
<1> DEFINE W == Days * Slots
<1>1. W \in Nat /\ Horizon = 2 * W
    BY DEF Horizon
<1>2. windows \in SUBSET Window /\ now \in Nat /\ now <= W
    BY <1>1 DEF WindowsInv, WindowsTypeOK
<1>3. job \in [status : {"pending", "scheduled"}, due : {Never} \cup (0..Horizon)]
    BY DEF WindowsInv, WindowsTypeOK
<1>4. CASE Tick
    <2>1. now' = now + 1 /\ now < W /\ windows' = windows /\ job' = job
        BY <1>4 DEF Tick
    <2> HIDE DEF W
    <2>2. WindowsTypeOK' /\ now' <= W
        BY <1>1, <1>2, <1>3, <2>1 DEF WindowsTypeOK, Horizon
    <2>3. OpeningIsNext'
        <3> SUFFICES ASSUME job.status = "scheduled"
                     PROVE  /\ AllowNow(windows, job.due)
                            /\ \A t \in now+1..job.due-1 : ~AllowNow(windows, t)
            BY <2>1 DEF OpeningIsNext
        <3>1. /\ AllowNow(windows, job.due)
              /\ \A t \in now..job.due-1 : ~AllowNow(windows, t)
            BY DEF WindowsInv, OpeningIsNext
        <3>2. job.due \in Int
            BY <1>1, <1>3 DEF Never
        <3> QED BY <1>2, <3>1, <3>2
    <2> QED BY <2>2, <2>3 DEF WindowsInv, W
<1>5. CASE Refresh
    <2>1. windows' = windows /\ now' = now
        BY <1>5 DEF Refresh
    <2>2. CASE AllowNow(windows, now)
        <3>1. job' = [status |-> "pending", due |-> Never]
            BY <1>5, <2>2 DEF Refresh
        <3> QED BY <1>2, <1>3, <2>1, <3>1 DEF WindowsInv, WindowsTypeOK, OpeningIsNext
    <2>3. CASE ~AllowNow(windows, now)
        <3> DEFINE m == NextOpening(windows, now)
        <3>1. job' = [status |-> "scheduled", due |-> m]
            BY <1>5, <2>3 DEF Refresh
        <3>2. /\ m \in Nat /\ now <= m /\ m < now + W
              /\ AllowNow(windows, m) /\ \A u \in now..m-1 : ~AllowNow(windows, u)
            BY <1>2, <2>3, NextOpeningIsFirst
        <3> HIDE DEF m, W
        <3>3. m \in 0..Horizon
            BY <1>1, <1>2, <3>2
        <3>4. WindowsTypeOK'
            BY <2>1, <3>1, <3>3 DEF WindowsInv, WindowsTypeOK, Horizon
        <3> QED BY <2>1, <3>1, <3>2, <3>4 DEF WindowsInv, OpeningIsNext
    <2> QED BY <2>2, <2>3
<1>6. CASE UNCHANGED windowVars
    BY <1>6 DEF windowVars, WindowsInv, WindowsTypeOK, OpeningIsNext, Horizon
<1> QED BY <1>4, <1>5, <1>6 DEF WindowsNext

(* A job that is put off is put off to the first instant its windows allow    *)
(* it (OpeningIsNext), for any days, slots and windows, overnight ones and    *)
(* overlapping ones included (next_opening_at, _refresh_scheduled_jobs).      *)
THEOREM OpensNext == WindowsSpec => []OpeningIsNext
<1>1. WindowsInv => OpeningIsNext
    BY DEF WindowsInv
<1> QED BY <1>1, WindowsStart, WindowsKept, PTL DEF WindowsSpec

(* The times and statuses a job takes while it waits for its windows.         *)
THEOREM WindowsTyped == WindowsSpec => []WindowsTypeOK
<1>1. WindowsInv => WindowsTypeOK
    BY DEF WindowsInv
<1> QED BY <1>1, WindowsStart, WindowsKept, PTL DEF WindowsSpec
=============================================================================
