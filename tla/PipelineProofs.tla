--------------------------- MODULE PipelineProofs ---------------------------
(***************************************************************************)
(* What holds of the execution pipeline whatever the file, the policy and  *)
(* the host: the planner keeps the best of the streams the policy wants,   *)
(* the verifier only fails an ffmpeg that did not do what it was told, and *)
(* what takes the place of a file has lost neither its best audio, nor its *)
(* forced subtitles, nor more of its picture than the policy allows; the   *)
(* worker reports what its executions do, on hardware that passed its test.*)
(***************************************************************************)
EXTENDS Pipeline, FiniteSetTheorems, WellFoundedInduction, SequenceTheorems, TLAPS

-----------------------------------------------------------------------------
(* Orders, and the sequences made by them.                                    *)

(* A set of naturals has a least element.                                     *)
LEMMA LeastNat ==
    ASSUME NEW S, S \subseteq Nat, S # {}
    PROVE  \E n \in S : \A k \in S : n <= k
<1>1. IsWellFoundedOn(OpToRel(<, Nat), Nat)
    BY NatLessThanWellFounded
<1>2. \E n \in S : \A k \in S : ~(<<k, n>> \in OpToRel(<, Nat))
    BY <1>1, WFMin
<1>3. \A n \in S, k \in S : ~(<<k, n>> \in OpToRel(<, Nat)) => n <= k
    BY DEF OpToRel
<1> QED BY <1>2, <1>3

(* Intervals from 1 that are the same set end at the same number.             *)
LEMMA SameLength ==
    ASSUME NEW j \in Nat, NEW k \in Nat, 1..j = 1..k
    PROVE  j = k
<1>1. j >= 1 => j \in 1..k
    OBVIOUS
<1>2. k >= 1 => k \in 1..j
    OBVIOUS
<1> QED BY <1>1, <1>2

(* before puts the elements of S in an order.                                 *)
Orders(S, before) ==
    /\ before \in [S -> SUBSET S]
    /\ \A i \in S : i \notin before[i]
    /\ \A i \in S : \A k \in before[i] : before[k] \subseteq before[i]
    /\ \A i, k \in S : i # k => i \in before[k] \/ k \in before[i]

(* Where an element comes in the order.                                       *)
LEMMA PlacesDiffer ==
    ASSUME NEW S, IsFiniteSet(S), NEW before, Orders(S, before)
    PROVE  /\ \A i \in S : Cardinality(before[i]) + 1 \in 1..Cardinality(S)
           /\ \A i, k \in S : k \in before[i] => Cardinality(before[k]) < Cardinality(before[i])
           /\ \A i, k \in S : i # k => Cardinality(before[i]) # Cardinality(before[k])
<1>1. ASSUME NEW i \in S
      PROVE  /\ IsFiniteSet(before[i]) /\ Cardinality(before[i]) \in Nat
             /\ Cardinality(before[i]) < Cardinality(S) /\ Cardinality(S) \in Nat
    <2>1. before[i] \in SUBSET S /\ before[i] # S
        BY DEF Orders
    <2>2. /\ IsFiniteSet(before[i]) /\ Cardinality(before[i]) <= Cardinality(S)
          /\ Cardinality(before[i]) # Cardinality(S)
        BY <2>1, FS_Subset
    <2> QED BY <2>2, FS_CardinalityType
<1>2. ASSUME NEW i \in S, NEW k \in before[i]
      PROVE  Cardinality(before[k]) < Cardinality(before[i])
    <2>1. k \in S /\ before[k] \in SUBSET before[i] /\ before[k] # before[i]
        BY <1>2 DEF Orders
    <2>2. /\ Cardinality(before[k]) <= Cardinality(before[i])
          /\ Cardinality(before[k]) # Cardinality(before[i])
        BY <1>1, <2>1, FS_Subset
    <2> QED BY <1>1, <2>1, <2>2
<1>3. ASSUME NEW i \in S, NEW k \in S, i # k
      PROVE  Cardinality(before[i]) # Cardinality(before[k])
    <2>1. i \in before[k] \/ k \in before[i]
        BY <1>3 DEF Orders
    <2> QED BY <1>1, <1>2, <2>1
<1>4. ASSUME NEW i \in S PROVE Cardinality(before[i]) + 1 \in 1..Cardinality(S)
    BY <1>1
<1> QED BY <1>2, <1>3, <1>4

(* The elements of S in an order are a sequence of all of them, once each.    *)
LEMMA ArrangedAll ==
    ASSUME NEW S, IsFiniteSet(S), NEW before, Orders(S, before)
    PROVE  LET s == Arranged(S, before)
           IN /\ s \in Seq(S) /\ Len(s) = Cardinality(S) /\ DOMAIN s = 1..Cardinality(S)
              /\ ToSet(s) = S
              /\ \A n, k \in DOMAIN s : n # k => s[n] # s[k]
              /\ \A n \in DOMAIN s : Cardinality(before[s[n]]) = n - 1
<1> DEFINE N == Cardinality(S)
           place == [i \in S |-> Cardinality(before[i]) + 1]
           s == Arranged(S, before)
<1>1. N \in Nat /\ IsFiniteSet(1..N) /\ Cardinality(1..N) = N
    <2>1. N \in Nat
        BY FS_CardinalityType
    <2> QED BY <2>1, FS_Interval
<1>2. place \in Injection(S, 1..N)
    <2>1. place \in [S -> 1..N]
        BY PlacesDiffer
    <2>2. ASSUME NEW i \in S, NEW k \in S, place[i] = place[k] PROVE i = k
        <3>1. Cardinality(before[i]) \in Int /\ Cardinality(before[k]) \in Int
            BY FS_Subset, FS_CardinalityType DEF Orders
        <3>2. Cardinality(before[i]) = Cardinality(before[k])
            BY <2>2, <3>1
        <3> QED BY <3>2, PlacesDiffer
    <2> QED BY <2>1, <2>2 DEF Injection, IsInjective
<1>3. place \in Surjection(S, 1..N)
    <2> HIDE DEF N, place
    <2> QED BY <1>1, <1>2, FS_Injection DEF N
<1>4. ASSUME NEW n \in 1..N
      PROVE  \E i \in S : Cardinality(before[i]) = n - 1
    <2>1. PICK i \in S : place[i] = n
        BY <1>3 DEF Surjection
    <2>2. Cardinality(before[i]) \in Int
        BY FS_Subset, FS_CardinalityType DEF Orders
    <2> QED BY <1>1, <2>1, <2>2
<1>5. s = [n \in 1..N |-> CHOOSE i \in S : Cardinality(before[i]) = n - 1]
    BY DEF Arranged
<1>6. ASSUME NEW n \in 1..N PROVE s[n] \in S /\ Cardinality(before[s[n]]) = n - 1
    BY <1>4, <1>5
<1>7. DOMAIN s = 1..N /\ s \in [1..N -> S]
    BY <1>5, <1>6
<1> HIDE DEF s, N, place
<1>8. s \in Seq(S) /\ Len(s) = N
    <2>1. s \in Seq(S)
        BY <1>1, <1>7, SeqDef
    <2> QED BY <1>1, <1>7, <2>1, LenProperties
<1>9. ASSUME NEW i \in S PROVE \E n \in 1..N : s[n] = i
    <2>1. Cardinality(before[i]) + 1 \in 1..N /\ Cardinality(before[i]) \in Int
        BY PlacesDiffer, FS_Subset, FS_CardinalityType DEF N, Orders
    <2> DEFINE n == Cardinality(before[i]) + 1
    <2>2. s[n] \in S /\ Cardinality(before[s[n]]) = Cardinality(before[i])
        BY <1>6, <2>1
    <2>3. s[n] = i
        BY <2>2, PlacesDiffer
    <2> QED BY <2>1, <2>3
<1>10. ToSet(s) = S
    BY <1>6, <1>7, <1>9 DEF ToSet
<1>11. \A n, k \in DOMAIN s : n # k => s[n] # s[k]
    BY <1>1, <1>6, <1>7
<1> QED BY <1>1, <1>6, <1>7, <1>8, <1>10, <1>11 DEF s, N

(* What a filter keeps of a sequence.                                         *)
LEMMA FilteredKeeps ==
    ASSUME NEW T, NEW s \in Seq(T), NEW S
    PROVE  /\ Filtered(s, S) \in Seq(T \cap S)
           /\ ToSet(Filtered(s, S)) = ToSet(s) \cap S
           /\ Len(Filtered(s, S)) \in Nat /\ DOMAIN Filtered(s, S) = 1..Len(Filtered(s, S))
<1> DEFINE at == {n \in DOMAIN s : s[n] \in S}
           before == [n \in at |-> {k \in at : k < n}]
           order == Arranged(at, before)
           kept == [n \in DOMAIN order |-> s[order[n]]]
<1>1. /\ DOMAIN s = 1..Len(s) /\ Len(s) \in Nat /\ \A n \in DOMAIN s : s[n] \in T
    BY LenProperties
<1>2. IsFiniteSet(at)
    <2>1. IsFiniteSet(1..Len(s)) /\ at \in SUBSET (1..Len(s))
        BY <1>1, FS_Interval
    <2> QED BY <2>1, FS_Subset
<1>3. Orders(at, before)
    BY <1>1 DEF Orders
<1> HIDE DEF before
<1>4. /\ Len(order) \in Nat /\ DOMAIN order = 1..Len(order) /\ ToSet(order) = at
      /\ \A n \in DOMAIN order : order[n] \in at
    <2> HIDE DEF at
    <2>1. order \in Seq(at) /\ ToSet(order) = at
        BY <1>2, <1>3, ArrangedAll
    <2> HIDE DEF order
    <2> QED BY <2>1, LenProperties
<1>5. Filtered(s, S) = kept
    BY DEF Filtered, before
<1> HIDE DEF order
<1>6. \A n \in DOMAIN order : kept[n] \in T \cap S
    BY <1>1, <1>4
<1>7. kept \in [1..Len(order) -> T \cap S] /\ DOMAIN kept = 1..Len(order)
    BY <1>4, <1>6
<1>8. kept \in Seq(T \cap S)
    <2> HIDE DEF kept
    <2> QED BY <1>4, <1>7, SeqDef
<1>9. ToSet(kept) = ToSet(s) \cap S
    <2>1. \A x \in ToSet(kept) : x \in ToSet(s) /\ x \in S
        BY <1>1, <1>4, <1>7 DEF ToSet
    <2>2. ASSUME NEW x \in ToSet(s), x \in S PROVE x \in ToSet(kept)
        <3>1. PICK k \in at : s[k] = x
            BY <2>2 DEF ToSet
        <3>2. PICK n \in DOMAIN order : order[n] = k
            BY <1>4, <3>1 DEF ToSet
        <3>3. kept[n] = x /\ n \in DOMAIN kept
            BY <3>1, <3>2
        <3> HIDE DEF kept
        <3> QED BY <3>3 DEF ToSet
    <2> HIDE DEF kept
    <2> QED BY <2>1, <2>2
<1> HIDE DEF kept
<1> QED BY <1>5, <1>8, <1>9, LenProperties

-----------------------------------------------------------------------------
(* Scores.  Two of them differ at least in their last place, the position of   *)
(* the stream, so that comparing them puts any set of streams in an order.     *)

Scores(S, L, score) ==
    /\ \A i \in S : score[i] \in [1..L -> Int]
    /\ \A i, k \in S : i # k => score[i][L] # score[k][L]

(* Comparing two scores as Python compares tuples.                            *)
LEMMA AboveOrder ==
    ASSUME NEW L \in Nat
    PROVE  /\ \A p \in [1..L -> Int] : ~Above(p, p)
           /\ \A p, q, r \in [1..L -> Int] : Above(p, q) /\ Above(q, r) => Above(p, r)
           /\ \A p, q \in [1..L -> Int] : p # q => Above(p, q) \/ Above(q, p)
<1>1. \A p \in [1..L -> Int] : ~Above(p, p)
    BY DEF Above
<1>2. ASSUME NEW p \in [1..L -> Int], NEW q \in [1..L -> Int], NEW r \in [1..L -> Int],
             Above(p, q), Above(q, r)
      PROVE  Above(p, r)
    <2>1. PICK i \in 1..L : p[i] > q[i] /\ \A k \in 1..(i - 1) : p[k] = q[k]
        BY <1>2 DEF Above
    <2>2. PICK j \in 1..L : q[j] > r[j] /\ \A k \in 1..(j - 1) : q[k] = r[k]
        BY <1>2 DEF Above
    <2>3. CASE i <= j
        <3>1. p[i] > r[i] /\ \A k \in 1..(i - 1) : p[k] = r[k]
            BY <2>1, <2>2, <2>3
        <3> QED BY <3>1 DEF Above
    <2>4. CASE j < i
        <3>1. p[j] > r[j] /\ \A k \in 1..(j - 1) : p[k] = r[k]
            BY <2>1, <2>2, <2>4
        <3> QED BY <3>1 DEF Above
    <2> QED BY <2>3, <2>4
<1>3. ASSUME NEW p \in [1..L -> Int], NEW q \in [1..L -> Int], p # q
      PROVE  Above(p, q) \/ Above(q, p)
    <2> DEFINE D == {i \in 1..L : p[i] # q[i]}
    <2>1. D \subseteq Nat /\ D # {}
        BY <1>3
    <2>2. PICK i \in D : \A k \in D : i <= k
        BY <2>1, LeastNat
    <2>3. \A k \in 1..(i - 1) : p[k] = q[k] /\ q[k] = p[k]
        BY <2>2
    <2>4. p[i] > q[i] \/ q[i] > p[i]
        BY <2>2
    <2> QED BY <2>2, <2>3, <2>4 DEF Above
<1> QED BY <1>1, <1>2, <1>3

(* Streams in the order of their scores.                                      *)
LEMMA ScoresOrder ==
    ASSUME NEW S, NEW L \in Nat \ {0}, NEW score, Scores(S, L, score)
    PROVE  Orders(S, [i \in S |-> {k \in S : Above(score[k], score[i])}])
<1>1. ASSUME NEW i \in S, NEW k \in S, i # k PROVE score[i] # score[k]
    BY <1>1 DEF Scores
<1>2. \A i \in S : score[i] \in [1..L -> Int]
    BY DEF Scores
<1> DEFINE before == [i \in S |-> {k \in S : Above(score[k], score[i])}]
<1>3. before \in [S -> SUBSET S]
    OBVIOUS
<1>4. ASSUME NEW i \in S PROVE i \notin before[i]
    BY <1>2, AboveOrder
<1>5. ASSUME NEW i \in S, NEW k \in before[i] PROVE before[k] \subseteq before[i]
    BY <1>2, AboveOrder
<1>6. ASSUME NEW i \in S, NEW k \in S, i # k PROVE i \in before[k] \/ k \in before[i]
    BY <1>1, <1>2, <1>6, AboveOrder
<1> QED BY <1>3, <1>4, <1>5, <1>6 DEF Orders

(* sorted: every stream once.                                                 *)
LEMMA ByScoreAll ==
    ASSUME NEW S, IsFiniteSet(S), NEW L \in Nat \ {0}, NEW score, Scores(S, L, score)
    PROVE  /\ ByScore(S, score) \in Seq(S) /\ ToSet(ByScore(S, score)) = S
           /\ DOMAIN ByScore(S, score) = 1..Len(ByScore(S, score))
           /\ \A n, k \in DOMAIN ByScore(S, score) :
                 n # k => ByScore(S, score)[n] # ByScore(S, score)[k]
BY ScoresOrder, ArrangedAll DEF ByScore

(* max: the best of a set of streams is one of them, above every other.       *)
LEMMA BestIsBest ==
    ASSUME NEW S, IsFiniteSet(S), S # {}, NEW L \in Nat \ {0}, NEW score, Scores(S, L, score)
    PROVE  /\ Best(S, score) \in S
           /\ \A k \in S \ {Best(S, score)} : Above(score[Best(S, score)], score[k])
<1> DEFINE before == [i \in S |-> {k \in S : Above(score[k], score[i])}]
<1>1. Orders(S, before)
    BY ScoresOrder
<1>2. Cardinality(S) \in Nat \ {0}
    BY FS_CardinalityType, FS_EmptySet
<1>3. PICK i \in S : Cardinality(before[i]) = 0
    <2> HIDE DEF before
    <2>1. /\ 1 \in DOMAIN Arranged(S, before) /\ Arranged(S, before) \in Seq(S)
          /\ DOMAIN Arranged(S, before) = 1..Len(Arranged(S, before))
          /\ Cardinality(before[Arranged(S, before)[1]]) = 0
        BY <1>1, <1>2, ArrangedAll
    <2>2. Arranged(S, before)[1] \in S
        BY <2>1, ElementOfSeq
    <2> QED BY <2>1, <2>2
<1>4. before[i] = {}
    <2>1. IsFiniteSet(before[i])
        BY <1>1, FS_Subset DEF Orders
    <2> QED BY <1>3, <2>1, FS_EmptySet
<1>5. \A k \in S \ {i} : Above(score[i], score[k])
    BY <1>1, <1>4 DEF Orders
<1> QED BY <1>5 DEF Best

-----------------------------------------------------------------------------
(* The streams of a plan.                                                     *)

(* A file's streams, by their positions.                                      *)
LEMMA Streams ==
    ASSUME NEW m \in MediaFile
    PROVE  /\ m.audio \in Seq(AudioStream) /\ m.subs \in Seq(SubtitleStream)
           /\ IsFiniteSet(DOMAIN m.audio) /\ IsFiniteSet(DOMAIN m.subs)
           /\ DOMAIN m.audio = 1..Len(m.audio) /\ Len(m.audio) \in Nat
           /\ DOMAIN m.subs = 1..Len(m.subs) /\ Len(m.subs) \in Nat
           /\ \A i \in DOMAIN m.audio : m.audio[i] \in AudioStream
           /\ \A i \in DOMAIN m.subs : m.subs[i] \in SubtitleStream
<1>1. m.audio \in Seq(AudioStream) /\ m.subs \in Seq(SubtitleStream)
    BY DEF MediaFile
<1>2. /\ DOMAIN m.audio = 1..Len(m.audio) /\ Len(m.audio) \in Nat
      /\ DOMAIN m.subs = 1..Len(m.subs) /\ Len(m.subs) \in Nat
      /\ \A i \in DOMAIN m.audio : m.audio[i] \in AudioStream
      /\ \A i \in DOMAIN m.subs : m.subs[i] \in SubtitleStream
    BY <1>1, LenProperties
<1>3. IsFiniteSet(1..Len(m.audio)) /\ IsFiniteSet(1..Len(m.subs))
    <2>1. \A k \in Nat : IsFiniteSet(1..k)
        BY FS_Interval
    <2> QED BY <1>2, <2>1
<1>4. IsFiniteSet(DOMAIN m.audio)
    BY <1>2, <1>3
<1>5. IsFiniteSet(DOMAIN m.subs)
    BY <1>2, <1>3
<1> QED BY <1>1, <1>2, <1>4, <1>5

(* The rank of a language or a codec is a number.                             *)
LEMMA RankNat ==
    ASSUME NEW T, NEW list \in Seq(T), NEW x
    PROVE  Rank(list, x) \in Nat
<1>1. DOMAIN list = 1..Len(list) /\ Len(list) \in Nat
    BY LenProperties
<1>2. CASE \E i \in DOMAIN list : list[i] = x
    <2> DEFINE i == CHOOSE i \in DOMAIN list : list[i] = x
    <2>1. i \in DOMAIN list
        BY <1>2
    <2>2. Rank(list, x) = Len(list) + 1 - i
        BY <1>2 DEF Rank
    <2> HIDE DEF i
    <2> QED BY <1>1, <2>1, <2>2
<1>3. CASE ~ \E i \in DOMAIN list : list[i] = x
    BY <1>3 DEF Rank
<1> QED BY <1>2, <1>3

(* What a list names has a rank in it.                                        *)
LEMMA RankOfListed ==
    ASSUME NEW T, NEW list \in Seq(T), NEW l \in ToSet(list)
    PROVE  Rank(list, l) > 0
<1> DEFINE first == CHOOSE n \in DOMAIN list : list[n] = l
<1>1. \E n \in DOMAIN list : list[n] = l
    BY DEF ToSet
<1>2. first \in DOMAIN list /\ DOMAIN list = 1..Len(list) /\ Len(list) \in Nat
    BY <1>1, LenProperties
<1>3. Rank(list, l) = Len(list) + 1 - first
    BY <1>1 DEF Rank
<1> HIDE DEF first
<1> QED BY <1>2, <1>3

(* Audio is scored by its quality, and by its language before that.           *)
LEMMA AudioScored ==
    ASSUME NEW m \in MediaFile, NEW p \in Policy, NEW S, S \subseteq DOMAIN m.audio
    PROVE  /\ Scores(S, 7, [i \in DOMAIN m.audio |-> AudioQuality(m, p, i)])
           /\ Scores(S, 8, [i \in DOMAIN m.audio |-> AudioScore(m, p, i)])
<1>1. ASSUME NEW i \in DOMAIN m.audio
      PROVE  /\ AudioQuality(m, p, i) \in [1..7 -> Int] /\ AudioQuality(m, p, i)[7] = -i
             /\ AudioScore(m, p, i) \in [1..8 -> Int] /\ AudioScore(m, p, i)[8] = -i
    <2>1. i \in Int /\ m.audio[i] \in AudioStream /\ p.codecOrder \in Seq(AudioCodecs)
             /\ p.audioLangs \in Seq(Languages)
        <3>1. i \in Int /\ m.audio[i] \in AudioStream
            BY <1>1, Streams
        <3>2. p.codecOrder \in Seq(AudioCodecs) /\ p.audioLangs \in Seq(Languages)
            BY DEF Policy
        <3> QED BY <3>1, <3>2
    <2>2. m.audio[i].channels \in Int
        BY <2>1 DEF AudioStream
    <2>3. Rank(p.codecOrder, m.audio[i].codec) \in Int /\ Rank(p.audioLangs, m.audio[i].lang) \in Int
        BY <2>1, RankNat
    <2>4. \A b : Flag(b) \in Int
        BY DEF Flag
    <2> DEFINE q == AudioQuality(m, p, i)
               r == <<Rank(p.audioLangs, m.audio[i].lang)>>
    <2>5. q \in [1..7 -> Int] /\ q[7] = -i
        BY <2>1, <2>2, <2>3, <2>4 DEF AudioQuality
    <2>6. r \in [1..1 -> Int]
        BY <2>3
    <2>7. AudioScore(m, p, i) = r \o q
        BY DEF AudioScore
    <2> HIDE DEF q, r
    <2>8. q \in Seq(Int) /\ r \in Seq(Int) /\ Len(q) = 7 /\ Len(r) = 1
        <3>1. q \in Seq(Int) /\ r \in Seq(Int)
            <4>1. q \in Seq(Int)
                BY <2>5, SeqDef
            <4>2. r \in Seq(Int)
                BY <2>6, SeqDef
            <4> QED BY <4>1, <4>2
        <3>2. Len(q) = 7
            <4>1. DOMAIN q = 1..7 /\ DOMAIN q = 1..Len(q) /\ Len(q) \in Nat
                BY <2>5, <3>1, LenProperties
            <4> QED BY <4>1
        <3>3. Len(r) = 1
            <4>1. DOMAIN r = 1..1 /\ DOMAIN r = 1..Len(r) /\ Len(r) \in Nat
                BY <2>6, <3>1, LenProperties
            <4> QED BY <4>1
        <3> QED BY <3>1, <3>2, <3>3
    <2>9. r \o q \in Seq(Int) /\ Len(r \o q) = 8 /\ (r \o q)[8] = q[7]
        <3>1. /\ r \o q \in Seq(Int) /\ Len(r \o q) = Len(r) + Len(q)
              /\ \A k \in 1..Len(r) + Len(q) :
                    (r \o q)[k] = IF k <= Len(r) THEN r[k] ELSE q[k - Len(r)]
            BY <2>8, ConcatProperties
        <3>2. Len(r) + Len(q) = 8 /\ 8 \in 1..8 /\ ~(8 <= 1) /\ 8 - 1 = 7
            BY <2>8
        <3> QED BY <2>8, <3>1, <3>2
    <2> QED BY <2>5, <2>7, <2>9, LenProperties DEF q
<1>2. \A i, k \in DOMAIN m.audio : i # k => -i # -k
    BY Streams
<1> QED BY <1>1, <1>2 DEF Scores

(* Subtitles are scored by language, mark and position.                       *)
LEMMA SubtitlesScored ==
    ASSUME NEW m \in MediaFile, NEW langs \in Seq(Languages), NEW S, S \subseteq DOMAIN m.subs
    PROVE  Scores(S, 4, SubtitleScores(m, langs))
<1>1. ASSUME NEW i \in DOMAIN m.subs
      PROVE  /\ SubtitleScores(m, langs)[i] \in [1..4 -> Int]
             /\ SubtitleScores(m, langs)[i][4] = -i
    <2>1. i \in Int /\ Rank(langs, m.subs[i].lang) \in Int
        BY <1>1, Streams, RankNat
    <2>2. \A b : Flag(b) \in Int
        BY DEF Flag
    <2> QED BY <2>1, <2>2 DEF SubtitleScores
<1>2. \A i, k \in DOMAIN m.subs : i # k => -i # -k
    BY Streams
<1> QED BY <1>1, <1>2 DEF Scores

(* The best of each preferred language that has one.                          *)
LEMMA BestOfEach ==
    ASSUME NEW langs \in Seq(Languages), NEW D, IsFiniteSet(D),
           NEW candidates \in [Languages -> SUBSET D],
           NEW L \in Nat \ {0}, NEW score, Scores(D, L, score)
    PROVE  LET best == BestPerLanguage(langs, candidates, score)
           IN /\ best \in Seq(D) /\ DOMAIN best = 1..Len(best) /\ Len(best) \in Nat
              /\ \A n \in DOMAIN best : \E l \in Languages : best[n] \in candidates[l]
              /\ \A l \in ToSet(langs) : candidates[l] # {} => Best(candidates[l], score) \in ToSet(best)
<1> DEFINE there == {l \in Languages : candidates[l] # {}}
           present == Filtered(langs, there)
           best == [n \in DOMAIN present |-> Best(candidates[present[n]], score)]
<1>1. /\ present \in Seq(Languages \cap there) /\ ToSet(present) = ToSet(langs) \cap there
      /\ Len(present) \in Nat /\ DOMAIN present = 1..Len(present)
    BY FilteredKeeps
<1>2. BestPerLanguage(langs, candidates, score) = best
    BY DEF BestPerLanguage
<1> HIDE DEF present
<1>3. ASSUME NEW n \in DOMAIN present
      PROVE  best[n] \in D /\ best[n] \in candidates[present[n]] /\ present[n] \in there
    <2>1. present[n] \in there
        BY <1>1, <1>3, ElementOfSeq
    <2>2. candidates[present[n]] \in SUBSET D /\ candidates[present[n]] # {}
        BY <2>1
    <2>3. IsFiniteSet(candidates[present[n]])
        BY <2>2, FS_Subset
    <2>4. Scores(candidates[present[n]], L, score)
        BY <2>2 DEF Scores
    <2>5. Best(candidates[present[n]], score) \in candidates[present[n]]
        BY <2>2, <2>3, <2>4, BestIsBest
    <2> QED BY <2>1, <2>2, <2>5
<1>4. best \in [1..Len(present) -> D]
    BY <1>1, <1>3
<1>5. ASSUME NEW l \in ToSet(langs), candidates[l] # {}
      PROVE  Best(candidates[l], score) \in ToSet(best)
    <2>1. l \in Languages
        BY LenProperties DEF ToSet
    <2>2. PICK n \in DOMAIN present : present[n] = l
        BY <1>1, <1>5, <2>1 DEF ToSet
    <2>3. best[n] = Best(candidates[l], score) /\ n \in DOMAIN best
        BY <2>2
    <2> HIDE DEF best
    <2> QED BY <2>3 DEF ToSet
<1>6. DOMAIN best = DOMAIN present
    OBVIOUS
<1> HIDE DEF best
<1>7. best \in Seq(D)
    <2>1. \E n \in Nat : best \in [1..n -> D]
        BY <1>1, <1>4
    <2> QED BY <2>1, SeqDef
<1>8. DOMAIN best = 1..Len(best) /\ Len(best) \in Nat
    BY <1>7, LenProperties
<1> QED BY <1>2, <1>3, <1>5, <1>6, <1>7, <1>8

(* select_audio_streams: streams of the file, and for every selectable stream *)
(* of a preferred language one of that language that is at least as good.     *)
LEMMA AudioChosen ==
    ASSUME NEW m \in MediaFile, NEW p \in Policy
    PROVE  /\ SelectAudio(m, p) \in Seq(DOMAIN m.audio)
           /\ \A i \in Selectable(m, p) \cap Preferred(m, p) : \E b \in ToSet(SelectAudio(m, p)) :
                 /\ m.audio[b].lang = m.audio[i].lang
                 /\ b = i \/ Above(AudioQuality(m, p, b), AudioQuality(m, p, i))
<1> DEFINE D == DOMAIN m.audio
           candidates == [l \in Languages |-> {i \in Selectable(m, p) : m.audio[i].lang = l}]
           quality == [i \in D |-> AudioQuality(m, p, i)]
           score == [i \in D |-> AudioScore(m, p, i)]
           best == BestPerLanguage(p.audioLangs, candidates, quality)
           others == Selectable(m, p) \ ToSet(best)
           rest == ByScore(others, score)
           room == IF p.onlyPreferred \/ Len(best) >= p.maxTracks THEN 0 ELSE p.maxTracks - Len(best)
           more == SubSeq(rest, 1, IF room < Len(rest) THEN room ELSE Len(rest))
<1>1. Selectable(m, p) \subseteq D
    BY DEF Selectable, Preferred
<1>2. IsFiniteSet(D)
    BY Streams
<1>3. Scores(D, 7, quality)
    BY AudioScored
<1>4. candidates \in [Languages -> SUBSET D] /\ p.audioLangs \in Seq(Languages) /\ p.maxTracks \in Nat
    BY <1>1 DEF Policy
<1>5. SelectAudio(m, p) = IF AudioMissing(m, p) THEN << >> ELSE best \o more
    BY DEF SelectAudio
<1>6. /\ best \in Seq(D) /\ DOMAIN best = 1..Len(best) /\ Len(best) \in Nat
      /\ \A l \in ToSet(p.audioLangs) :
            candidates[l] # {} => Best(candidates[l], quality) \in ToSet(best)
    <2> HIDE DEF candidates, quality, D
    <2> QED BY <1>2, <1>3, <1>4, BestOfEach
<1>7. rest \in Seq(D)
    <2>1. others \subseteq D /\ IsFiniteSet(others)
        BY <1>1, <1>2, FS_Subset
    <2>2. Scores(others, 8, score)
        BY <2>1, AudioScored
    <2> HIDE DEF others, score, D
    <2>3. rest \in Seq(others)
        BY <2>1, <2>2, ByScoreAll
    <2> HIDE DEF rest
    <2> QED BY <2>1, <2>3, SeqDef
<1> HIDE DEF rest, best
<1>8. more \in Seq(D)
    <2> DEFINE n == IF room < Len(rest) THEN room ELSE Len(rest)
    <2>1. Len(rest) \in Nat /\ room \in Nat
        BY <1>4, <1>6, <1>7, LenProperties
    <2>2. n \in Nat /\ n <= Len(rest)
        BY <2>1
    <2>3. \A i \in 1..n : rest[i] \in D
        BY <1>7, <2>1, <2>2, LenProperties
    <2> HIDE DEF n, D
    <2> QED BY <2>2, <2>3, SubSeqProperties DEF n
<1> HIDE DEF more, D
<1>9. /\ best \o more \in Seq(D) /\ ToSet(best) \subseteq ToSet(best \o more)
    <2>1. /\ best \o more \in Seq(D) /\ Len(best \o more) = Len(best) + Len(more) /\ Len(more) \in Nat
          /\ \A i \in 1..Len(best) + Len(more) :
                (best \o more)[i] = IF i <= Len(best) THEN best[i] ELSE more[i - Len(best)]
        BY <1>6, <1>8, ConcatProperties, LenProperties
    <2>2. DOMAIN (best \o more) = 1..Len(best) + Len(more)
        BY <2>1, LenProperties
    <2>3. \A i \in DOMAIN best : i \in DOMAIN (best \o more) /\ (best \o more)[i] = best[i]
        BY <1>6, <2>1, <2>2
    <2> QED BY <2>1, <2>3 DEF ToSet
<1>10. SelectAudio(m, p) \in Seq(D)
    BY <1>5, <1>9, EmptySeq
<1>11. ASSUME NEW i \in Selectable(m, p) \cap Preferred(m, p)
       PROVE  \E b \in ToSet(SelectAudio(m, p)) :
                 /\ m.audio[b].lang = m.audio[i].lang
                 /\ b = i \/ Above(AudioQuality(m, p, b), AudioQuality(m, p, i))
    <2> DEFINE l == m.audio[i].lang
               b == Best(candidates[l], quality)
    <2>1. i \in D /\ l \in Languages
        BY <1>1, Streams DEF AudioStream, D
    <2>2. l \in ToSet(p.audioLangs)
        <3>1. \E n \in DOMAIN p.audioLangs : p.audioLangs[n] = l
            BY DEF Preferred, Rank
        <3> QED BY <3>1 DEF ToSet
    <2>3. i \in candidates[l] /\ candidates[l] \subseteq D /\ \A k \in candidates[l] : m.audio[k].lang = l
        BY <1>1, <2>1 DEF D
    <2>4. IsFiniteSet(candidates[l]) /\ Scores(candidates[l], 7, quality)
        BY <1>2, <1>3, <2>3, FS_Subset DEF Scores
    <2>5. b \in candidates[l] /\ \A k \in candidates[l] \ {b} : Above(quality[b], quality[k])
        <3> HIDE DEF candidates, quality, l
        <3> QED BY <2>3, <2>4, BestIsBest
    <2>6. b \in ToSet(best)
        BY <1>6, <2>2, <2>3
    <2>7. ~AudioMissing(m, p)
        BY DEF AudioMissing
    <2>8. b \in ToSet(SelectAudio(m, p))
        BY <1>5, <1>9, <2>6, <2>7
    <2>9. b = i \/ Above(AudioQuality(m, p, b), AudioQuality(m, p, i))
        BY <2>1, <2>3, <2>5
    <2> HIDE DEF b
    <2> QED BY <2>3, <2>5, <2>8, <2>9
<1> QED BY <1>10, <1>11 DEF D

(* The sequence of the first and what the second adds holds both.             *)
LEMMA Joined ==
    ASSUME NEW D, NEW s \in Seq(D), NEW t \in Seq(D)
    PROVE  /\ s \o t \in Seq(D) /\ ToSet(s \o t) = ToSet(s) \cup ToSet(t)
           /\ Len(s \o t) = Len(s) + Len(t) /\ Len(s) \in Nat /\ Len(t) \in Nat
<1>1. /\ s \o t \in Seq(D) /\ Len(s \o t) = Len(s) + Len(t) /\ Len(s) \in Nat /\ Len(t) \in Nat
      /\ DOMAIN s = 1..Len(s) /\ DOMAIN t = 1..Len(t)
      /\ \A i \in 1..Len(s) + Len(t) : (s \o t)[i] = IF i <= Len(s) THEN s[i] ELSE t[i - Len(s)]
    BY ConcatProperties, LenProperties
<1>2. DOMAIN (s \o t) = 1..Len(s) + Len(t)
    BY <1>1, LenProperties
<1>3. \A i \in DOMAIN s : i \in DOMAIN (s \o t) /\ (s \o t)[i] = s[i]
    BY <1>1, <1>2
<1>4. \A i \in DOMAIN t : Len(s) + i \in DOMAIN (s \o t) /\ (s \o t)[Len(s) + i] = t[i]
    <2>1. \A i \in DOMAIN t : /\ Len(s) + i \in 1..Len(s) + Len(t) /\ ~(Len(s) + i <= Len(s))
                              /\ Len(s) + i - Len(s) = i
        BY <1>1
    <2> QED BY <1>1, <1>2, <2>1
<1>5. \A i \in DOMAIN (s \o t) :
        (i \in DOMAIN s /\ (s \o t)[i] = s[i])
            \/ (i - Len(s) \in DOMAIN t /\ (s \o t)[i] = t[i - Len(s)])
    BY <1>1, <1>2
<1>6. ToSet(s \o t) = ToSet(s) \cup ToSet(t)
    <2> DEFINE joined == s \o t
               len == Len(s)
    <2>1. /\ \A i \in DOMAIN s : i \in DOMAIN joined /\ joined[i] = s[i]
          /\ \A i \in DOMAIN t : len + i \in DOMAIN joined /\ joined[len + i] = t[i]
          /\ \A i \in DOMAIN joined : \/ i \in DOMAIN s /\ joined[i] = s[i]
                                      \/ i - len \in DOMAIN t /\ joined[i] = t[i - len]
        BY <1>3, <1>4, <1>5
    <2> HIDE DEF joined, len
    <2>2. \A x \in ToSet(s) : x \in ToSet(joined)
        BY <2>1 DEF ToSet
    <2>3. \A x \in ToSet(t) : x \in ToSet(joined)
        BY <2>1 DEF ToSet
    <2>4. \A x \in ToSet(joined) : x \in ToSet(s) \/ x \in ToSet(t)
        BY <2>1 DEF ToSet
    <2>5. ToSet(joined) = ToSet(s) \cup ToSet(t)
        BY <2>2, <2>3, <2>4
    <2> QED BY <2>5 DEF joined
<1> QED BY <1>1, <1>6

(* The full subtitles chosen are not forced ones.                             *)
LEMMA MainChosen ==
    ASSUME NEW m \in MediaFile, NEW p \in Policy
    PROVE  /\ MainSubtitles(m, p) \in Seq(DOMAIN m.subs)
           /\ \A n \in DOMAIN MainSubtitles(m, p) : ~IsForced(m.subs[MainSubtitles(m, p)[n]])
           /\ HearingSubtitles(m, p) \in Seq(DOMAIN m.subs)
<1> DEFINE D == DOMAIN m.subs
           score == SubtitleScores(m, << >>)
           main == [l \in Languages |-> MainCandidates(m, l)]
           hearing == [l \in Languages |-> HearingCandidates(m, l)]
<1>1. IsFiniteSet(D) /\ p.subLangs \in Seq(Languages)
    BY Streams DEF Policy
<1>2. Scores(D, 4, score)
    BY SubtitlesScored, EmptySeq
<1>3. main \in [Languages -> SUBSET D] /\ hearing \in [Languages -> SUBSET D]
    BY DEF MainCandidates, HearingCandidates
<1>4. \A l \in Languages : \A i \in main[l] : ~IsForced(m.subs[i])
    BY DEF MainCandidates
<1>5. /\ MainSubtitles(m, p) = IF ~p.keepFull THEN << >> ELSE BestPerLanguage(p.subLangs, main, score)
      /\ HearingSubtitles(m, p) = IF ~p.keepHearing THEN << >>
                                  ELSE BestPerLanguage(p.subLangs, hearing, score)
    BY DEF MainSubtitles, HearingSubtitles
<1> HIDE DEF D, score, main, hearing
<1>6. /\ BestPerLanguage(p.subLangs, main, score) \in Seq(D)
      /\ \A n \in DOMAIN BestPerLanguage(p.subLangs, main, score) :
            ~IsForced(m.subs[BestPerLanguage(p.subLangs, main, score)[n]])
    <2>1. /\ BestPerLanguage(p.subLangs, main, score) \in Seq(D)
          /\ \A n \in DOMAIN BestPerLanguage(p.subLangs, main, score) : \E l \in Languages :
                BestPerLanguage(p.subLangs, main, score)[n] \in main[l]
        BY <1>1, <1>2, <1>3, BestOfEach
    <2> QED BY <1>4, <2>1
<1>7. BestPerLanguage(p.subLangs, hearing, score) \in Seq(D)
    BY <1>1, <1>2, <1>3, BestOfEach
<1>8. << >> \in Seq(D) /\ DOMAIN << >> = {}
    BY EmptySeq
<1> QED BY <1>5, <1>6, <1>7, <1>8 DEF D

(* select_subtitle_streams: streams of the file, all the forced ones the      *)
(* policy keeps among them.                                                   *)
LEMMA SubtitlesChosen ==
    ASSUME NEW m \in MediaFile, NEW p \in Policy
    PROVE  /\ SelectSubtitles(m, p) \in Seq(DOMAIN m.subs)
           /\ ForcedCandidates(m, p) \subseteq ToSet(SelectSubtitles(m, p))
<1> DEFINE D == DOMAIN m.subs
           forced == ByScore(ForcedCandidates(m, p), SubtitleScores(m, p.forcedLangs))
           full == forced \o Filtered(MainSubtitles(m, p), D \ ToSet(forced))
           hearing == Filtered(HearingSubtitles(m, p), D \ ToSet(full))
           all == [i \in D |-> i]
<1>1. SelectSubtitles(m, p) = IF p.dropOther THEN full \o hearing ELSE all
    BY DEF SelectSubtitles
<1>2. ForcedCandidates(m, p) \subseteq D /\ IsFiniteSet(D)
    BY Streams DEF ForcedCandidates
<1>3. IsFiniteSet(ForcedCandidates(m, p))
    BY <1>2, FS_Subset
<1>4. Scores(ForcedCandidates(m, p), 4, SubtitleScores(m, p.forcedLangs))
    BY <1>2, SubtitlesScored DEF Policy
<1>5. forced \in Seq(D) /\ ToSet(forced) = ForcedCandidates(m, p)
    <2>1. forced \in Seq(ForcedCandidates(m, p)) /\ ToSet(forced) = ForcedCandidates(m, p)
        BY <1>3, <1>4, ByScoreAll
    <2> HIDE DEF forced, D
    <2> QED BY <1>2, <2>1, SeqDef
<1> HIDE DEF forced
<1>6. ASSUME NEW s \in Seq(D), NEW S PROVE Filtered(s, S) \in Seq(D)
    <2> HIDE DEF D
    <2>1. Filtered(s, S) \in Seq(D \cap S)
        BY FilteredKeeps
    <2> QED BY <2>1, SeqDef
<1>7. full \in Seq(D) /\ ToSet(forced) \subseteq ToSet(full)
    BY <1>5, <1>6, MainChosen, Joined
<1> HIDE DEF full
<1>8. full \o hearing \in Seq(D) /\ ToSet(forced) \subseteq ToSet(full \o hearing)
    BY <1>6, <1>7, MainChosen, Joined
<1>9. all \in Seq(D) /\ ToSet(all) = D
    <2>1. D = 1..Len(m.subs) /\ Len(m.subs) \in Nat
        BY Streams
    <2>2. all \in [1..Len(m.subs) -> D] /\ DOMAIN all = D /\ \A i \in D : all[i] = i
        BY <2>1
    <2> HIDE DEF all
    <2> QED BY <2>1, <2>2, SeqDef DEF ToSet
<1> QED BY <1>1, <1>2, <1>5, <1>8, <1>9

-----------------------------------------------------------------------------
(* The back end of an execution.                                            *)

Tested(h, b) ==
    CASE b.accelerator = "qsv" -> QsvWorks(h, b.init)
      [] b.accelerator = "vaapi" -> h.nodes[b.node].vaapi
      [] b.accelerator = "nvenc" -> h.nvidia = "works"
      [] b.accelerator = "amf" -> h.amf = "works"
      [] OTHER -> TRUE

(* The first of some numbers is one of them.                                  *)
LEMMA FirstIn ==
    ASSUME NEW S, S \subseteq Nat, S # {}
    PROVE  First(S) \in S
BY LeastNat DEF First

(* A QSV probe that succeeds names an initialisation whose smoke test passed. *)
LEMMA QsvTested ==
    ASSUME NEW h \in Host, ProbeQsv(h).usable
    PROVE  QsvWorks(h, ProbeQsv(h).init)
<1> DEFINE passing == {n \in DOMAIN QsvCandidates(h) : QsvWorks(h, QsvCandidates(h)[n])}
<1>1. /\ ProbeQsv(h) = Usable(QsvCandidates(h)[First(passing)],
                              IF h.windows THEN 0 ELSE FirstNode(h, "intel"))
      /\ passing # {}
    BY DEF ProbeQsv, Unusable
<1>2. passing \subseteq Nat
    BY DEF QsvCandidates
<1>3. First(passing) \in passing
    BY <1>1, <1>2, FirstIn
<1> QED BY <1>1, <1>3 DEF Usable

(* Whatever an execution selects has been tried on the host first.            *)
LEMMA SelectionTested ==
    ASSUME NEW h \in Host, NEW preference, NEW allow \in BOOLEAN, NEW codec
    PROVE  Tested(h, Select(h, preference, allow, codec))
<1> DEFINE a == AcceleratedSelection(h, Mode(preference), codec)
<1>1. Tested(h, NoSelection)
    BY DEF NoSelection, Tested, None
<1>2. ASSUME NEW fallback PROVE Tested(h, CpuSelection(codec, fallback))
    BY <1>1 DEF CpuSelection, NoSelection, Tested, Cpu, None
<1>3. Tested(h, a)
    <2>1. CASE a = NoSelection
        BY <1>1, <2>1
    <2>2. CASE a = Accelerated("intel_qsv", "qsv", ProbeQsv(h)) /\ ProbeQsv(h).usable
        BY <2>2, QsvTested DEF Accelerated, Tested
    <2>3. CASE /\ a = Accelerated("intel_vaapi", "vaapi", ProbeIntelVaapi(h))
               /\ ProbeIntelVaapi(h).usable
        BY <2>3 DEF Accelerated, Tested, ProbeIntelVaapi, Usable, Unusable
    <2>4. CASE /\ a = Accelerated(Mode(preference), "nvenc", ProbeNvenc(h))
               /\ ProbeNvenc(h).usable
        BY <2>4 DEF Accelerated, Tested, ProbeNvenc, Usable, Unusable
    <2>5. CASE /\ a = Accelerated(Mode(preference), "amf", ProbeAmf(h))
               /\ ProbeAmf(h).usable
        BY <2>5 DEF Accelerated, Tested, ProbeAmf, Usable, Unusable
    <2>6. CASE /\ a = Accelerated(Mode(preference), "vaapi", ProbeAmdVaapi(h))
               /\ ProbeAmdVaapi(h).usable
        BY <2>6 DEF Accelerated, Tested, ProbeAmdVaapi, Usable, Unusable
    <2> QED BY <2>1, <2>2, <2>3, <2>4, <2>5, <2>6 DEF AcceleratedSelection
<1> QED BY <1>1, <1>2, <1>3 DEF Select

(* The status is usable exactly when an execution selects a back end, and     *)
(* names the one it selects, for a codec that hardware encodes.               *)
LEMMA StatusMatches ==
    ASSUME NEW h \in Host, NEW preference, NEW allow \in BOOLEAN, NEW codec \in HardwareCodecs
    PROVE  LET status == Status(h, preference, allow)
               s == Select(h, preference, allow, codec)
           IN /\ status.usable <=> s # NoSelection /\ h.ffmpeg
              /\ status.usable => status.selected = s.backend /\ status.fallback = s.fallback
<1> DEFINE mode == Mode(preference)
           s == Select(h, preference, allow, codec)
           status == Status(h, preference, allow)
           a == AcceleratedSelection(h, mode, codec)
           Matching == /\ status.usable <=> s # NoSelection /\ h.ffmpeg
                       /\ status.usable => status.selected = s.backend /\ status.fallback = s.fallback
<1>1. h.ffmpeg \in BOOLEAN
    BY DEF Host
<1>2. mode \in {Cpu, "intel_auto", "intel_qsv", "intel_vaapi", "nvidia_gpu", "amd_gpu"}
    BY DEF Mode, Normalised, Cpu
<1>3. /\ ProbeQsv(h).usable => h.ffmpeg
      /\ ProbeIntelVaapi(h).usable => h.ffmpeg
      /\ ProbeAmdVaapi(h).usable => h.ffmpeg
      /\ ProbeNvenc(h).usable => h.ffmpeg
      /\ ProbeAmf(h).usable => h.ffmpeg
    BY DEF ProbeQsv, ProbeIntelVaapi, ProbeAmdVaapi, ProbeNvenc, ProbeAmf, Unusable
<1>4. ASSUME NEW fallback \in BOOLEAN
      PROVE  /\ CpuSelection(codec, fallback) # NoSelection
             /\ CpuSelection(codec, fallback).backend = Cpu
             /\ CpuSelection(codec, fallback).fallback = fallback
    BY DEF CpuSelection, NoSelection, CpuCodecs, HardwareCodecs, Cpu, None
<1>5. ASSUME NEW name \in {"intel_qsv", "intel_vaapi", "nvidia_gpu", "amd_gpu"},
             NEW accelerator, NEW probe
      PROVE  /\ Accelerated(name, accelerator, probe) # NoSelection
             /\ Accelerated(name, accelerator, probe).backend = name
             /\ Accelerated(name, accelerator, probe).fallback = FALSE
    BY DEF Accelerated, NoSelection, None
<1>6. CASE mode = Cpu
    <2>1. s = CpuSelection(codec, FALSE) /\ status = Reported(IF h.ffmpeg THEN Cpu ELSE None, FALSE)
        BY <1>6 DEF Select, Status
    <2>2. Matching
        <3>1. status.usable <=> h.ffmpeg
            BY <1>1, <2>1 DEF Reported, None, Cpu
        <3>2. s # NoSelection /\ s.backend = Cpu /\ s.fallback = FALSE
            BY <1>4, <2>1
        <3>3. h.ffmpeg => status.selected = Cpu /\ status.fallback = FALSE
            BY <2>1 DEF Reported
        <3> QED BY <3>1, <3>2, <3>3
    <2> QED BY <2>2
<1>7. CASE mode # Cpu /\ a = NoSelection
    <2>1. status = ReportFallback(h, allow)
        <3>1. CASE mode \in IntelModes
            <4>1. ~(mode # "intel_vaapi" /\ ProbeQsv(h).usable)
                <5>1. mode # "intel_vaapi" /\ ProbeQsv(h).usable
                         => a = Accelerated("intel_qsv", "qsv", ProbeQsv(h))
                    BY <3>1 DEF AcceleratedSelection, IntelModes
                <5> QED BY <1>5, <1>7, <5>1
            <4>2. mode = "intel_vaapi" \/ (mode = "intel_auto" /\ ~ProbeQsv(h).usable)
                     => ~ProbeIntelVaapi(h).usable
                <5>1. (mode = "intel_vaapi" \/ (mode = "intel_auto" /\ ~ProbeQsv(h).usable))
                         /\ ProbeIntelVaapi(h).usable
                         => a = Accelerated("intel_vaapi", "vaapi", ProbeIntelVaapi(h))
                    BY <3>1 DEF AcceleratedSelection, IntelModes
                <5> QED BY <1>5, <1>7, <5>1
            <4>3. status = IntelStatus(h, mode, allow)
                BY <1>7, <3>1 DEF Status
            <4> HIDE DEF mode, status
            <4> QED BY <4>1, <4>2, <4>3 DEF IntelStatus
        <3>2. CASE mode \notin IntelModes
            <4>1. mode = "nvidia_gpu" \/ mode = "amd_gpu"
                BY <1>2, <1>7, <3>2 DEF IntelModes
            <4>2. CASE mode = "nvidia_gpu"
                <5>1. ProbeNvenc(h).usable => a = Accelerated("nvidia_gpu", "nvenc", ProbeNvenc(h))
                    BY <4>2 DEF AcceleratedSelection
                <5>2. a = NoSelection
                    BY <1>7
                <5>3. ~ProbeNvenc(h).usable
                    <6> HIDE DEF a
                    <6> QED BY <1>5, <5>1, <5>2
                <5> QED BY <1>7, <3>2, <4>2, <5>3 DEF Status
            <4>3. CASE mode = "amd_gpu"
                <5>1. ProbeAmf(h).usable => a = Accelerated("amd_gpu", "amf", ProbeAmf(h))
                    BY <4>3 DEF AcceleratedSelection
                <5>2. ~ProbeAmf(h).usable /\ ProbeAmdVaapi(h).usable
                         => a = Accelerated("amd_gpu", "vaapi", ProbeAmdVaapi(h))
                    BY <4>3 DEF AcceleratedSelection
                <5>3. a = NoSelection
                    BY <1>7
                <5>4. ~ProbeAmf(h).usable
                    <6> HIDE DEF a
                    <6> QED BY <1>5, <5>1, <5>3
                <5>5. ~ProbeAmdVaapi(h).usable
                    <6> HIDE DEF a
                    <6> QED BY <1>5, <5>2, <5>3, <5>4
                <5> QED BY <1>7, <3>2, <4>3, <5>4, <5>5 DEF Status
            <4> QED BY <4>1, <4>2, <4>3
        <3> QED BY <3>1, <3>2
    <2>2. s = IF allow THEN CpuSelection(codec, TRUE) ELSE NoSelection
        BY <1>7 DEF Select
    <2>3. Matching
        <3>1. CASE allow /\ h.ffmpeg
            <4>1. status = Reported(Cpu, TRUE) /\ s = CpuSelection(codec, TRUE)
                BY <2>1, <2>2, <3>1 DEF ReportFallback
            <4>2. status.usable
                <5>1. status.usable = (Cpu # None)
                    BY <4>1 DEF Reported
                <5> QED BY <5>1 DEF Cpu, None
            <4>3. status.selected = Cpu
                BY <4>1 DEF Reported
            <4>4. status.fallback = TRUE
                BY <4>1 DEF Reported
            <4> QED BY <1>4, <3>1, <4>1, <4>2, <4>3, <4>4
        <3>2. CASE ~(allow /\ h.ffmpeg)
            <4>1. status = Reported(None, FALSE)
                BY <2>1, <3>2 DEF ReportFallback
            <4>2. ~status.usable
                <5>1. status.usable = (None # None)
                    BY <4>1 DEF Reported
                <5> QED BY <5>1
            <4> QED BY <2>2, <3>2, <4>2
        <3> QED BY <3>1, <3>2
    <2> QED BY <2>3
<1>8. CASE mode # Cpu /\ a # NoSelection
    <2>1. s = a
        BY <1>8 DEF Select
    <2>2. h.ffmpeg /\ status = Reported(a.backend, FALSE) /\ a.fallback = FALSE
             /\ a.backend \in {"intel_qsv", "intel_vaapi", "nvidia_gpu", "amd_gpu"}
        <3>1. CASE mode \in IntelModes
            <4>1. \/ /\ mode # "intel_vaapi" /\ ProbeQsv(h).usable
                     /\ a = Accelerated("intel_qsv", "qsv", ProbeQsv(h))
                  \/ /\ mode = "intel_vaapi" \/ (mode = "intel_auto" /\ ~ProbeQsv(h).usable)
                     /\ ProbeIntelVaapi(h).usable
                     /\ a = Accelerated("intel_vaapi", "vaapi", ProbeIntelVaapi(h))
                BY <1>8, <3>1 DEF AcceleratedSelection, IntelModes
            <4>2. status = IntelStatus(h, mode, allow)
                BY <1>8, <3>1 DEF Status
            <4> HIDE DEF a, status, mode
            <4>3. CASE /\ mode # "intel_vaapi" /\ ProbeQsv(h).usable
                       /\ a = Accelerated("intel_qsv", "qsv", ProbeQsv(h))
                <5>1. status = Reported("intel_qsv", FALSE)
                    BY <4>2, <4>3 DEF IntelStatus
                <5>2. a.backend = "intel_qsv"
                    BY <4>3 DEF Accelerated
                <5>3. a.fallback = FALSE
                    BY <4>3 DEF Accelerated
                <5> QED BY <1>3, <4>3, <5>1, <5>2, <5>3
            <4>4. CASE /\ mode = "intel_vaapi" \/ (mode = "intel_auto" /\ ~ProbeQsv(h).usable)
                       /\ ProbeIntelVaapi(h).usable
                       /\ a = Accelerated("intel_vaapi", "vaapi", ProbeIntelVaapi(h))
                <5>1. status = Reported("intel_vaapi", FALSE)
                    BY <4>2, <4>4 DEF IntelStatus
                <5>2. a.backend = "intel_vaapi"
                    BY <4>4 DEF Accelerated
                <5>3. a.fallback = FALSE
                    BY <4>4 DEF Accelerated
                <5> QED BY <1>3, <4>4, <5>1, <5>2, <5>3
            <4> QED BY <4>1, <4>3, <4>4
        <3>2. CASE mode = "nvidia_gpu"
            <4>1. a = Accelerated(mode, "nvenc", ProbeNvenc(h)) /\ ProbeNvenc(h).usable
                BY <1>8, <3>2 DEF AcceleratedSelection
            <4>2. status = Reported(mode, FALSE)
                BY <3>2, <4>1 DEF Status, IntelModes, Cpu
            <4> HIDE DEF a, status, mode
            <4>3. a.backend = mode
                BY <4>1 DEF Accelerated
            <4>5. a.fallback = FALSE
                BY <4>1 DEF Accelerated
            <4>4. h.ffmpeg
                BY <1>3, <4>1
            <4> QED BY <3>2, <4>2, <4>3, <4>4, <4>5
        <3>3. CASE mode = "amd_gpu"
            <4>1. \/ a = Accelerated(mode, "amf", ProbeAmf(h)) /\ ProbeAmf(h).usable
                  \/ a = Accelerated(mode, "vaapi", ProbeAmdVaapi(h)) /\ ProbeAmdVaapi(h).usable
                BY <1>8, <3>3 DEF AcceleratedSelection
            <4>2. status = Reported(mode, FALSE)
                BY <3>3, <4>1 DEF Status, IntelModes, Cpu
            <4> HIDE DEF a, status, mode
            <4>3. a.backend = mode
                BY <4>1 DEF Accelerated
            <4>5. a.fallback = FALSE
                BY <4>1 DEF Accelerated
            <4>4. h.ffmpeg
                BY <1>3, <4>1
            <4> QED BY <3>3, <4>2, <4>3, <4>4, <4>5
        <3> QED BY <1>2, <1>8, <3>1, <3>2, <3>3 DEF IntelModes
    <2>3. Matching
        <3>1. status.usable
            <4>1. status.usable = (a.backend # None)
                BY <2>2 DEF Reported
            <4> QED BY <2>2, <4>1 DEF None
        <3>2. status.selected = a.backend
            BY <2>2 DEF Reported
        <3>3. status.fallback = FALSE
            BY <2>2 DEF Reported
        <3> QED BY <1>8, <2>1, <2>2, <3>1, <3>2, <3>3
    <2> QED BY <2>3
<1> QED BY <1>6, <1>7, <1>8

-----------------------------------------------------------------------------
(* The picture, from the plan to its place.                                   *)

(* What the planner says of the picture of a file that has one.               *)
LEMMA PlanOfPicture ==
    ASSUME NEW m, m.video \in Seq(VideoStream), NEW p \in Policy
    PROVE  LET plan_ == PlanFor(m, p)
           IN /\ Len(m.video) = 1 => plan_.video = <<1>> /\ plan_.codec \in Codecs
              /\ Len(m.video) # 1 => plan_.video = << >> /\ plan_.encode = FALSE
              /\ plan_.floor \in Nat
<1>1. /\ PlanFor(m, p).video = IF Len(m.video) = 1 THEN <<1>> ELSE << >>
      /\ PlanFor(m, p).encode = (Len(m.video) = 1 /\ NeedsTranscode(m.video[1], p))
      /\ PlanFor(m, p).codec = IF Len(m.video) # 1 THEN "none"
                                ELSE IF Is4K(m) /\ ~p.transcode4K THEN m.video[1].codec
                                ELSE IF Is4K(m) THEN p.codec4K ELSE p.codec
      /\ PlanFor(m, p).floor = IF Len(m.video) # 1 THEN 0
                                ELSE IF Is720(m.video[1]) THEN p.floor720 ELSE p.floor1080
    BY DEF PlanFor
<1>2. p.codec \in Codecs /\ p.codec4K \in Codecs /\ p.floor720 \in Nat /\ p.floor1080 \in Nat
    BY DEF Policy
<1>3. Len(m.video) = 1 => m.video[1] \in VideoStream
    BY LenProperties
<1>4. Len(m.video) = 1 => m.video[1].codec \in Codecs
    BY <1>3 DEF VideoStream
<1>5. Len(m.video) # 1 => PlanFor(m, p).encode = FALSE
    BY <1>1
<1>6. PlanFor(m, p).floor \in Nat
    BY <1>1, <1>2
<1>7. Len(m.video) = 1 => PlanFor(m, p).codec \in Codecs
    BY <1>1, <1>2, <1>4
<1> QED BY <1>1, <1>5, <1>6, <1>7

(* The picture of an output is a picture, whatever ffmpeg did.                *)
LEMMA ObeyedPicture ==
    ASSUME NEW m, m.video \in Seq(VideoStream), NEW p \in Policy, NEW bits \in Rates,
           NEW known \in {"reported", "derivable", "sized", "unknown"}
    PROVE  Obeyed(m, PlanFor(m, p), bits, known).video \in Seq(VideoStream)
<1> DEFINE chosen == PlanFor(m, p)
           picture(n) == IF chosen.action = "transcode"
                         THEN [m.video[chosen.video[n]] EXCEPT !.codec = chosen.codec,
                                                              !.bits = bits, !.known = known]
                         ELSE m.video[chosen.video[n]]
           video == [n \in DOMAIN chosen.video |-> picture(n)]
<1>1. Obeyed(m, chosen, bits, known).video = video
    BY DEF Obeyed
<1>2. CASE Len(m.video) = 1
    <2>1. chosen.video = <<1>> /\ chosen.codec \in Codecs
        BY <1>2, PlanOfPicture
    <2>2. DOMAIN chosen.video = 1..1 /\ chosen.video[1] = 1
        BY <2>1
    <2>3. m.video[1] \in VideoStream
        BY <1>2, LenProperties
    <2>4. picture(1) \in VideoStream
        BY <2>1, <2>2, <2>3 DEF VideoStream
    <2>5. video \in [1..1 -> VideoStream]
        <3>1. \A n \in DOMAIN chosen.video : picture(n) \in VideoStream
            <4>1. \A n \in DOMAIN chosen.video : n = 1
                BY <2>2
            <4> HIDE DEF picture
            <4> QED BY <2>4, <4>1
        <3> HIDE DEF picture
        <3> QED BY <2>2, <3>1
    <2> HIDE DEF video
    <2> QED BY <1>1, <2>5, SeqDef
<1>3. CASE Len(m.video) # 1
    <2>1. chosen.video = << >>
        BY <1>3, PlanOfPicture
    <2>2. video \in [1..0 -> VideoStream]
        BY <2>1
    <2> HIDE DEF video
    <2> QED BY <1>1, <2>2, SeqDef
<1> QED BY <1>2, <1>3

-----------------------------------------------------------------------------
(* What the rest of the pipeline relies on of a plan.                          *)

Sound(m, p, chosen) ==
    /\ chosen.audio \in Seq(DOMAIN m.audio)
    /\ chosen.subs \in Seq(DOMAIN m.subs)
    /\ chosen.forced = ForcedCandidates(m, p)
    /\ chosen.forced \subseteq ToSet(chosen.subs)
    /\ chosen.main \notin chosen.forced
    /\ chosen.container \in Containers
    /\ chosen.encode \in BOOLEAN
    /\ chosen.larger \in Nat
    /\ chosen.action \in {"skip", "remux", "transcode", "manual_review"}
    /\ chosen.action \in {"remux", "transcode"} => Len(m.video) = 1
    /\ chosen.action = "remux" => ~chosen.encode

(* determine_action: what is neither skipped nor left to the operator has one *)
(* picture, and what needs an encode is not remuxed.                          *)
LEMMA ActionTaken ==
    ASSUME NEW m, NEW p, NEW encode \in BOOLEAN, NEW cleanup \in BOOLEAN, NEW warned \in BOOLEAN
    PROVE  LET action == Action(m, p, encode, cleanup, warned)
           IN /\ action \in {"skip", "remux", "transcode", "manual_review"}
              /\ action \in {"remux", "transcode"} => Len(m.video) = 1
              /\ action = "remux" => ~encode
<1> DEFINE action == Action(m, p, encode, cleanup, warned)
<1>1. CASE VideoNeedsReview(m, p) \/ AudioMissing(m, p) \/ AmbiguousForced(m, p) # {}
    <2>1. action = "manual_review"
        BY <1>1 DEF Action
    <2> QED BY <2>1
<1>2. CASE ~(VideoNeedsReview(m, p) \/ AudioMissing(m, p) \/ AmbiguousForced(m, p) # {})
    <2>1. Len(m.video) = 1
        BY <1>2 DEF VideoNeedsReview
    <2>2. Is4K(m) \in BOOLEAN /\ NeedsRemux(m, p) \in BOOLEAN
        BY DEF Is4K, NeedsRemux
    <2>3. CASE Is4K(m)
        BY <1>2, <2>1, <2>3 DEF Action
    <2>4. CASE ~Is4K(m) /\ encode
        BY <1>2, <2>1, <2>4 DEF Action
    <2>5. CASE ~Is4K(m) /\ ~encode
        BY <1>2, <2>1, <2>2, <2>5 DEF Action
    <2> QED BY <2>2, <2>3, <2>4, <2>5
<1> QED BY <1>1, <1>2

(* build_processing_plan                                                      *)
LEMMA PlanSound ==
    ASSUME NEW m \in MediaFile, NEW p \in Policy
    PROVE  Sound(m, p, PlanFor(m, p))
<1> DEFINE chosen == PlanFor(m, p)
           main == MainSubtitles(m, p)
           one == Len(m.video) = 1
           encode == one /\ NeedsTranscode(m.video[1], p)
           cleanup == Len(SelectAudio(m, p)) < Len(m.audio) \/ Len(SelectSubtitles(m, p)) < Len(m.subs)
<1>1. /\ chosen.audio = SelectAudio(m, p)
      /\ chosen.subs = SelectSubtitles(m, p)
      /\ chosen.forced = ForcedCandidates(m, p)
      /\ chosen.main = IF main = << >> THEN 0 ELSE main[1]
      /\ chosen.container = p.container
      /\ chosen.encode = encode
      /\ chosen.larger = p.larger
      /\ chosen.action = Action(m, p, encode, cleanup, Warned(m, p))
    BY DEF PlanFor
<1>2. encode \in BOOLEAN /\ cleanup \in BOOLEAN /\ Warned(m, p) \in BOOLEAN
    BY DEF Warned
<1> HIDE DEF chosen, encode, cleanup
<1>3. /\ chosen.action \in {"skip", "remux", "transcode", "manual_review"}
      /\ chosen.action \in {"remux", "transcode"} => Len(m.video) = 1
      /\ chosen.action = "remux" => ~chosen.encode
    BY <1>1, <1>2, ActionTaken
<1>4. p.container \in Containers /\ p.larger \in Nat
    BY DEF Policy
<1>5. /\ chosen.audio \in Seq(DOMAIN m.audio) /\ chosen.subs \in Seq(DOMAIN m.subs)
      /\ chosen.forced \subseteq ToSet(chosen.subs)
    BY <1>1, AudioChosen, SubtitlesChosen
<1>6. chosen.main \notin chosen.forced
    <2>1. CASE main = << >>
        <3>1. chosen.main = 0 /\ 0 \notin DOMAIN m.subs
            BY <1>1, <2>1, Streams
        <3> QED BY <1>1, <3>1 DEF ForcedCandidates
    <2>2. CASE main # << >>
        <3>1. main \in Seq(DOMAIN m.subs)
            BY MainChosen
        <3>2. 1 \in DOMAIN main
            BY <2>2, <3>1, EmptySeq, LenProperties
        <3>3. ~IsForced(m.subs[main[1]])
            BY <3>2, MainChosen
        <3> HIDE DEF main
        <3> QED BY <1>1, <2>2, <3>3 DEF ForcedCandidates, IsForced
    <2> QED BY <2>1, <2>2
<1> QED BY <1>1, <1>2, <1>3, <1>4, <1>5, <1>6 DEF Sound, chosen

-----------------------------------------------------------------------------
(* The output of an ffmpeg that does what its command line says.              *)

Known == {"reported", "derivable", "sized", "unknown"}

(* Its streams are those of the plan, in order.                               *)
LEMMA ObeyedStreams ==
    ASSUME NEW m \in MediaFile, NEW p \in Policy, NEW chosen, Sound(m, p, chosen), NEW bits, NEW known
    PROVE  LET o == Obeyed(m, chosen, bits, known)
           IN /\ o.audio \in Seq(AudioStream) /\ Len(o.audio) = Len(chosen.audio)
              /\ DOMAIN o.audio = 1..Len(chosen.audio) /\ Len(chosen.audio) \in Nat
              /\ DOMAIN chosen.audio = 1..Len(chosen.audio)
              /\ \A n \in DOMAIN chosen.audio : o.audio[n] = AudioOut(m, chosen, chosen.audio[n])
              /\ o.subs \in Seq(SubtitleStream) /\ Len(o.subs) = Len(chosen.subs)
              /\ DOMAIN o.subs = 1..Len(chosen.subs) /\ Len(chosen.subs) \in Nat
              /\ DOMAIN chosen.subs = 1..Len(chosen.subs)
              /\ \A n \in DOMAIN chosen.subs : o.subs[n] = SubtitleOut(m, chosen, chosen.subs[n])
<1> DEFINE audio == [n \in DOMAIN chosen.audio |-> AudioOut(m, chosen, chosen.audio[n])]
           subs == [n \in DOMAIN chosen.subs |-> SubtitleOut(m, chosen, chosen.subs[n])]
<1>1. Obeyed(m, chosen, bits, known).audio = audio /\ Obeyed(m, chosen, bits, known).subs = subs
    BY DEF Obeyed
<1>2. /\ DOMAIN chosen.audio = 1..Len(chosen.audio) /\ Len(chosen.audio) \in Nat
      /\ \A n \in DOMAIN chosen.audio : chosen.audio[n] \in DOMAIN m.audio
      /\ DOMAIN chosen.subs = 1..Len(chosen.subs) /\ Len(chosen.subs) \in Nat
      /\ \A n \in DOMAIN chosen.subs : chosen.subs[n] \in DOMAIN m.subs
    BY LenProperties DEF Sound
<1>3. ASSUME NEW i \in DOMAIN m.audio PROVE AudioOut(m, chosen, i) \in AudioStream
    <2> DEFINE default == (i = PrimaryAudio(chosen))
    <2>1. m.audio[i] \in AudioStream /\ default \in BOOLEAN
        BY Streams
    <2>2. AudioOut(m, chosen, i) = [m.audio[i] EXCEPT !.default = default]
        BY DEF AudioOut
    <2> HIDE DEF default
    <2> QED BY <2>1, <2>2 DEF AudioStream
<1>4. ASSUME NEW i \in DOMAIN m.subs PROVE SubtitleOut(m, chosen, i) \in SubtitleStream
    <2>1. m.subs[i] \in SubtitleStream
        BY Streams
    <2> DEFINE forced == i \in chosen.forced
               default == i \notin chosen.forced /\ i = chosen.main
               hearing == IF m.subs[i].hearing = "flag" THEN "no" ELSE m.subs[i].hearing
    <2>2. SubtitleOut(m, chosen, i) =
            [m.subs[i] EXCEPT !.flagged = forced, !.default = default, !.hearing = hearing]
        BY <2>1 DEF SubtitleOut, SubtitleStream
    <2>3. forced \in BOOLEAN /\ default \in BOOLEAN /\ hearing \in {"no", "flag", "title"}
        BY <2>1 DEF SubtitleStream
    <2> HIDE DEF forced, default, hearing
    <2> QED BY <2>1, <2>2, <2>3 DEF SubtitleStream
<1>5. audio \in [1..Len(chosen.audio) -> AudioStream] /\ subs \in [1..Len(chosen.subs) -> SubtitleStream]
    BY <1>2, <1>3, <1>4
<1>6. /\ \A n \in DOMAIN chosen.audio : audio[n] = AudioOut(m, chosen, chosen.audio[n])
      /\ \A n \in DOMAIN chosen.subs : subs[n] = SubtitleOut(m, chosen, chosen.subs[n])
    OBVIOUS
<1> HIDE DEF audio, subs
<1>7. audio \in Seq(AudioStream) /\ subs \in Seq(SubtitleStream)
    BY <1>2, <1>5, SeqDef
<1>8. Len(audio) = Len(chosen.audio) /\ Len(subs) = Len(chosen.subs)
    BY <1>2, <1>5, <1>7, LenProperties
<1> QED BY <1>1, <1>2, <1>5, <1>6, <1>7, <1>8

(* It is a media file.                                                        *)
LEMMA ObeyedFile ==
    ASSUME NEW m \in MediaFile, NEW p \in Policy, NEW bits \in Rates, NEW known \in Known
    PROVE  Obeyed(m, PlanFor(m, p), bits, known) \in MediaFile
<1> DEFINE chosen == PlanFor(m, p)
           o == Obeyed(m, chosen, bits, known)
<1>1. Sound(m, p, chosen)
    BY PlanSound
<1>2. m.video \in Seq(VideoStream) /\ m.extras \in Nat /\ m.hdr \in BOOLEAN
    BY DEF MediaFile
<1>3. o.video \in Seq(VideoStream)
    BY <1>2, ObeyedPicture DEF Known
<1>4. o.audio \in Seq(AudioStream) /\ o.subs \in Seq(SubtitleStream)
    BY <1>1, ObeyedStreams
<1>5. /\ o = [container |-> chosen.container, video |-> o.video, audio |-> o.audio, subs |-> o.subs,
              extras |-> m.extras, hdr |-> m.hdr]
    BY DEF Obeyed
<1> HIDE DEF o, chosen
<1> QED BY <1>1, <1>2, <1>3, <1>4, <1>5 DEF MediaFile, Sound, o, chosen

(* The planned streams are streams of the file.                               *)
LEMMA PlannedStreams ==
    ASSUME NEW m \in MediaFile, NEW p, NEW chosen, Sound(m, p, chosen)
    PROVE  /\ \A n \in DOMAIN chosen.audio : chosen.audio[n] \in DOMAIN m.audio
           /\ \A n \in DOMAIN chosen.subs : chosen.subs[n] \in DOMAIN m.subs
           /\ ToSet(chosen.audio) \subseteq DOMAIN m.audio /\ ToSet(chosen.subs) \subseteq DOMAIN m.subs
<1>1. /\ \A n \in DOMAIN chosen.audio : chosen.audio[n] \in DOMAIN m.audio
      /\ \A n \in DOMAIN chosen.subs : chosen.subs[n] \in DOMAIN m.subs
    BY LenProperties DEF Sound
<1> QED BY <1>1 DEF ToSet

(* A stream as the command line writes it.                                    *)
LEMMA StreamOut ==
    ASSUME NEW m \in MediaFile, NEW chosen
    PROVE  /\ \A i \in DOMAIN m.audio :
                 LET a == AudioOut(m, chosen, i)
                 IN /\ a.lang = m.audio[i].lang /\ a.codec = m.audio[i].codec
                    /\ a.channels = m.audio[i].channels /\ a.atmos = m.audio[i].atmos
                    /\ a.default = (i = PrimaryAudio(chosen))
           /\ \A i \in DOMAIN m.subs :
                 LET u == SubtitleOut(m, chosen, i)
                 IN /\ u.lang = m.subs[i].lang /\ u.flagged = (i \in chosen.forced)
                    /\ u.titled = m.subs[i].titled
                    /\ u.default = (i \notin chosen.forced /\ i = chosen.main)
<1>1. ASSUME NEW i \in DOMAIN m.audio
      PROVE  LET a == AudioOut(m, chosen, i)
             IN /\ a.lang = m.audio[i].lang /\ a.codec = m.audio[i].codec
                /\ a.channels = m.audio[i].channels /\ a.atmos = m.audio[i].atmos
                /\ a.default = (i = PrimaryAudio(chosen))
    <2>1. m.audio[i] \in AudioStream
        BY Streams
    <2> QED BY <2>1 DEF AudioOut, AudioStream
<1>2. ASSUME NEW i \in DOMAIN m.subs
      PROVE  LET u == SubtitleOut(m, chosen, i)
             IN /\ u.lang = m.subs[i].lang /\ u.flagged = (i \in chosen.forced)
                /\ u.titled = m.subs[i].titled
                /\ u.default = (i \notin chosen.forced /\ i = chosen.main)
    <2>1. m.subs[i] \in SubtitleStream
        BY Streams
    <2> QED BY <2>1 DEF SubtitleOut, SubtitleStream
<1> QED BY <1>1, <1>2

PictureOut(m, chosen, bits, known) ==
    IF chosen.action = "transcode"
    THEN [m.video[1] EXCEPT !.codec = chosen.codec, !.bits = bits, !.known = known]
    ELSE m.video[1]

(* Its one picture: copied, or encoded to the codec of the plan.              *)
LEMMA ObeyedVideo ==
    ASSUME NEW m \in MediaFile, NEW p \in Policy, NEW bits \in Rates, NEW known \in Known,
           PlanFor(m, p).action \in {"remux", "transcode"}
    PROVE  LET chosen == PlanFor(m, p)
               o == Obeyed(m, chosen, bits, known)
           IN /\ chosen.video = <<1>> /\ m.video[1] \in VideoStream /\ DOMAIN m.video = 1..1
              /\ Len(m.video) = 1 /\ o.video \in Seq(VideoStream) /\ DOMAIN o.video = 1..1
              /\ o.video[1] = PictureOut(m, chosen, bits, known)
<1> DEFINE chosen == PlanFor(m, p)
           o == Obeyed(m, chosen, bits, known)
           picture == PictureOut(m, chosen, bits, known)
<1>1. m.video \in Seq(VideoStream) /\ Len(m.video) = 1
    BY PlanSound DEF MediaFile, Sound
<1>2. chosen.video = <<1>> /\ m.video[1] \in VideoStream /\ DOMAIN m.video = 1..1
    <2>1. DOMAIN m.video = 1..1
        BY <1>1, LenProperties
    <2>2. m.video[1] \in VideoStream
        BY <1>1, <2>1, LenProperties
    <2>3. chosen.video = <<1>>
        BY <1>1, PlanOfPicture
    <2> QED BY <2>1, <2>2, <2>3
<1>3. o.video \in Seq(VideoStream)
    BY <1>1, ObeyedPicture DEF Known
<1>4. DOMAIN o.video = 1..1 /\ o.video[1] = picture
    <2> DEFINE shown(n) == IF chosen.action = "transcode"
                           THEN [m.video[chosen.video[n]] EXCEPT !.codec = chosen.codec,
                                                                !.bits = bits, !.known = known]
                           ELSE m.video[chosen.video[n]]
    <2>1. o.video = [n \in DOMAIN chosen.video |-> shown(n)]
        BY DEF Obeyed
    <2>2. DOMAIN chosen.video = 1..1 /\ chosen.video[1] = 1
        BY <1>2
    <2>3. shown(1) = picture
        BY <2>2 DEF PictureOut
    <2> HIDE DEF o, shown, picture, chosen
    <2> QED BY <2>1, <2>2, <2>3
<1> QED BY <1>1, <1>2, <1>3, <1>4

(* The picture of the output is there, in the codec the plan asks for and as  *)
(* wide as it was.                                                            *)
LEMMA ObeyedPictureKept ==
    ASSUME NEW m \in MediaFile, NEW p \in Policy, NEW bits \in Rates, NEW known \in Known,
           PlanFor(m, p).action \in {"remux", "transcode"}
    PROVE  LET chosen == PlanFor(m, p)
               o == Obeyed(m, chosen, bits, known)
           IN /\ Len(o.video) = Len(chosen.video) /\ o.video # << >>
              /\ chosen.encode => o.video[1].codec = chosen.codec
              /\ Is4K(m) => Is4K(o)
<1> DEFINE chosen == PlanFor(m, p)
           o == Obeyed(m, chosen, bits, known)
           picture == PictureOut(m, chosen, bits, known)
<1>1. /\ m.video[1] \in VideoStream /\ DOMAIN m.video = 1..1 /\ chosen.video = <<1>>
      /\ o.video \in Seq(VideoStream) /\ DOMAIN o.video = 1..1 /\ o.video[1] = picture
    BY ObeyedVideo
<1>2. chosen.action = "remux" => ~chosen.encode
    BY PlanSound DEF Sound
<1>3. Len(o.video) = 1
    <2>1. 1..Len(o.video) = 1..1 /\ Len(o.video) \in Nat
        BY <1>1, LenProperties
    <2> HIDE DEF o
    <2> QED BY <2>1, SameLength
<1>4. picture.width = m.video[1].width /\ (chosen.encode => picture.codec = chosen.codec)
    <2>1. chosen.action \in {"remux", "transcode"}
        OBVIOUS
    <2> HIDE DEF chosen
    <2> QED BY <1>1, <1>2, <2>1 DEF VideoStream, PictureOut
<1> HIDE DEF o, picture, chosen
<1>5. Is4K(m) => Is4K(o)
    BY <1>1, <1>4 DEF Is4K, Is4KStream
<1>6. Len(chosen.video) = 1 /\ o.video # << >>
    BY <1>1
<1> QED BY <1>1, <1>3, <1>4, <1>5, <1>6 DEF o, chosen

(* Planner, command line and verifier agree.                                  *)
LEMMA ObeyedVerified ==
    ASSUME NEW m \in MediaFile, NEW p \in Policy, NEW bits \in Rates, NEW known \in Known,
           PlanFor(m, p).action \in {"remux", "transcode"},
           \A i \in ToSet(PlanFor(m, p).subs) : m.subs[i].flagged => i \in PlanFor(m, p).forced
    PROVE  Verified(m, PlanFor(m, p), Obeyed(m, PlanFor(m, p), bits, known))
<1> DEFINE chosen == PlanFor(m, p)
           o == Obeyed(m, chosen, bits, known)
<1>1. Sound(m, p, chosen)
    BY PlanSound
<1>2. /\ Len(o.audio) = Len(chosen.audio) /\ DOMAIN o.audio = DOMAIN chosen.audio
      /\ \A n \in DOMAIN chosen.audio : o.audio[n] = AudioOut(m, chosen, chosen.audio[n])
      /\ Len(o.subs) = Len(chosen.subs) /\ DOMAIN o.subs = DOMAIN chosen.subs
      /\ \A n \in DOMAIN chosen.subs : o.subs[n] = SubtitleOut(m, chosen, chosen.subs[n])
    BY <1>1, ObeyedStreams
<1>3. o.container = chosen.container /\ o.extras = m.extras
    BY DEF Obeyed
<1>4. /\ Len(o.video) = Len(chosen.video) /\ o.video # << >>
      /\ chosen.encode => o.video[1].codec = chosen.codec
      /\ Is4K(m) => Is4K(o)
    BY ObeyedPictureKept
<1>5. /\ chosen.surround = \E i \in ToSet(chosen.audio) : IsSurround(m.audio[i])
      /\ chosen.atmos = \E i \in ToSet(chosen.audio) : m.audio[i].atmos
    BY DEF PlanFor
<1> HIDE DEF o, chosen
<1>6. \A n \in DOMAIN chosen.audio :
        /\ o.audio[n].lang = m.audio[chosen.audio[n]].lang
        /\ o.audio[n].codec = m.audio[chosen.audio[n]].codec
        /\ o.audio[n].channels = m.audio[chosen.audio[n]].channels
        /\ o.audio[n].atmos = m.audio[chosen.audio[n]].atmos
        /\ o.audio[n].default = (chosen.audio[n] = PrimaryAudio(chosen))
    BY <1>1, <1>2, PlannedStreams, StreamOut
<1>7. \A n \in DOMAIN chosen.subs :
        /\ o.subs[n].lang = m.subs[chosen.subs[n]].lang
        /\ o.subs[n].flagged = (chosen.subs[n] \in chosen.forced)
        /\ o.subs[n].titled = m.subs[chosen.subs[n]].titled
        /\ o.subs[n].default = (chosen.subs[n] \notin chosen.forced /\ chosen.subs[n] = chosen.main)
    BY <1>1, <1>2, PlannedStreams, StreamOut
<1>8. HasRequiredAudio(m, chosen, o)
    BY <1>2, <1>6 DEF HasRequiredAudio, LanguagesOf, ToSet
<1>9. HasRequiredSubtitles(m, chosen, o)
    <2>1. {m.subs[i].lang : i \in ToSet(chosen.subs)} \subseteq LanguagesOf(o.subs)
        BY <1>2, <1>7 DEF LanguagesOf, ToSet
    <2>2. ASSUME NEW i \in chosen.forced
          PROVE  \E k \in DOMAIN o.subs : o.subs[k].lang = m.subs[i].lang /\ IsForced(o.subs[k])
        <3>1. PICK k \in DOMAIN chosen.subs : chosen.subs[k] = i
            BY <1>1 DEF Sound, ToSet
        <3> QED BY <1>2, <1>7, <3>1 DEF IsForced
    <2> QED BY <2>1, <2>2 DEF HasRequiredSubtitles
<1>10. HasExpectedShape(m, chosen, o)
    BY <1>2, <1>3, <1>4 DEF HasExpectedShape
<1>11. AudioMatches(m, chosen, o)
    BY <1>2, <1>6 DEF AudioMatches
<1>12. SubtitlesMatch(m, chosen, o)
    <2>1. ASSUME NEW n \in DOMAIN chosen.subs
          PROVE  IsForced(o.subs[n]) = IsForced(m.subs[chosen.subs[n]])
        <3>1. m.subs[chosen.subs[n]].flagged \in BOOLEAN /\ m.subs[chosen.subs[n]].titled \in BOOLEAN
            BY <1>1, PlannedStreams, Streams DEF SubtitleStream
        <3>2. m.subs[chosen.subs[n]].flagged => chosen.subs[n] \in chosen.forced
            BY DEF ToSet, chosen
        <3>3. chosen.subs[n] \in chosen.forced => m.subs[chosen.subs[n]].flagged
            BY <1>1 DEF Sound, ForcedCandidates
        <3> QED BY <1>7, <3>1, <3>2, <3>3 DEF IsForced
    <2> QED BY <1>2, <1>7, <2>1 DEF SubtitlesMatch
<1>13. AudioDefaultMatches(chosen, o)
    <2>1. \A n \in DOMAIN o.audio : n \in DOMAIN chosen.audio /\ chosen.audio # << >>
        BY <1>2
    <2> QED BY <1>6, <2>1 DEF AudioDefaultMatches
<1>14. SubtitleDefaultMatches(chosen, o)
    <2>1. ASSUME NEW n \in DOMAIN o.subs
          PROVE  o.subs[n].default =
                    (chosen.main # 0 /\ n \in DOMAIN chosen.subs /\ chosen.subs[n] = chosen.main)
        <3>1. n \in DOMAIN chosen.subs /\ chosen.subs[n] # 0
            BY <1>1, <1>2, PlannedStreams, Streams
        <3>2. chosen.subs[n] = chosen.main => chosen.subs[n] \notin chosen.forced
            BY <1>1 DEF Sound
        <3> QED BY <1>7, <3>1, <3>2
    <2> QED BY <2>1 DEF SubtitleDefaultMatches
<1>15. HasRequiredVideo(chosen, o)
    BY <1>4 DEF HasRequiredVideo
<1>16. chosen.surround => HasSurround(o)
    <2> SUFFICES ASSUME chosen.surround PROVE HasSurround(o)
        OBVIOUS
    <2>1. PICK n \in DOMAIN chosen.audio : IsSurround(m.audio[chosen.audio[n]])
        BY <1>5 DEF ToSet
    <2> QED BY <1>2, <1>6, <2>1 DEF HasSurround, IsSurround
<1>17. chosen.atmos => HasAtmos(o)
    <2> SUFFICES ASSUME chosen.atmos PROVE HasAtmos(o)
        OBVIOUS
    <2>1. PICK n \in DOMAIN chosen.audio : m.audio[chosen.audio[n]].atmos
        BY <1>5 DEF ToSet
    <2> QED BY <1>2, <1>6, <2>1 DEF HasAtmos
<1>18. Verified(m, chosen, o)
    BY <1>3, <1>4, <1>8, <1>9, <1>10, <1>11, <1>12, <1>13, <1>14, <1>15, <1>16, <1>17 DEF Verified
<1> QED BY <1>18 DEF o, chosen

-----------------------------------------------------------------------------
(* The output of an ffmpeg that does less.                                    *)

(* What can be wrong with its streams.                                        *)
LEMMA DamagedStreams ==
    ASSUME NEW out \in MediaFile, NEW seen \in Damaged(out)
    PROVE  /\ seen \in MediaFile
           /\ \/ seen.audio \in {out.audio, Front(out.audio), Reverse(out.audio)}
              \/ seen.audio = [n \in DOMAIN out.audio |-> [out.audio[n] EXCEPT !.channels = 2]]
<1> DEFINE stereo == [n \in DOMAIN out.audio |-> [out.audio[n] EXCEPT !.channels = 2]]
           unflagged == [n \in DOMAIN out.subs |-> [out.subs[n] EXCEPT !.flagged = FALSE]]
<1>1. /\ out.audio \in Seq(AudioStream) /\ out.subs \in Seq(SubtitleStream)
      /\ DOMAIN out.audio = 1..Len(out.audio) /\ Len(out.audio) \in Nat
      /\ DOMAIN out.subs = 1..Len(out.subs) /\ Len(out.subs) \in Nat
      /\ \A i \in DOMAIN out.audio : out.audio[i] \in AudioStream
      /\ \A i \in DOMAIN out.subs : out.subs[i] \in SubtitleStream
    BY Streams
<1>2. Front(out.audio) \in Seq(AudioStream)
    <2>1. \A i \in 1..(Len(out.audio) - 1) : out.audio[i] \in AudioStream
        BY <1>1
    <2> QED BY <1>1, <2>1, SubSeqProperties DEF Front
<1>3. Reverse(out.audio) \in Seq(AudioStream)
    <2>1. Reverse(out.audio) \in [1..Len(out.audio) -> AudioStream]
        BY <1>1 DEF Reverse
    <2> QED BY <1>1, <2>1, SeqDef
<1>4. stereo \in Seq(AudioStream)
    <2>1. stereo \in [1..Len(out.audio) -> AudioStream]
        BY <1>1 DEF AudioStream
    <2> HIDE DEF stereo
    <2> QED BY <1>1, <2>1, SeqDef
<1>5. unflagged \in Seq(SubtitleStream)
    <2>1. unflagged \in [1..Len(out.subs) -> SubtitleStream]
        BY <1>1 DEF SubtitleStream
    <2> HIDE DEF unflagged
    <2> QED BY <1>1, <2>1, SeqDef
<1>6. << >> \in Seq(SubtitleStream) /\ << >> \in Seq(VideoStream)
    BY EmptySeq
<1> HIDE DEF stereo, unflagged
<1>7. ASSUME NEW audio \in Seq(AudioStream)
      PROVE  [out EXCEPT !.audio = audio] \in MediaFile /\ [out EXCEPT !.audio = audio].audio = audio
    BY DEF MediaFile
<1>8. ASSUME NEW subs \in Seq(SubtitleStream)
      PROVE  [out EXCEPT !.subs = subs] \in MediaFile /\ [out EXCEPT !.subs = subs].audio = out.audio
    BY DEF MediaFile
<1>9. /\ [out EXCEPT !.video = << >>] \in MediaFile
      /\ [out EXCEPT !.video = << >>].audio = out.audio
    BY <1>6 DEF MediaFile
<1>10. out.extras \in Nat
    BY DEF MediaFile
<1>11. ASSUME out.extras # 0
       PROVE  /\ [out EXCEPT !.extras = @ - 1] \in MediaFile
              /\ [out EXCEPT !.extras = @ - 1].audio = out.audio
    <2>1. out.extras - 1 \in Nat
        BY <1>10, <1>11
    <2> DEFINE fewer == out.extras - 1
    <2>2. [out EXCEPT !.extras = @ - 1] = [out EXCEPT !.extras = fewer]
        BY DEF MediaFile
    <2> HIDE DEF fewer
    <2>3. fewer \in Nat
        BY <2>1 DEF fewer
    <2>4. [out EXCEPT !.extras = fewer] \in MediaFile /\ [out EXCEPT !.extras = fewer].audio = out.audio
        BY <2>3 DEF MediaFile
    <2> QED BY <2>2, <2>4
<1>12. \/ \E audio \in {Front(out.audio), Reverse(out.audio), stereo} : seen = [out EXCEPT !.audio = audio]
       \/ \E subs \in {unflagged, << >>} : seen = [out EXCEPT !.subs = subs]
       \/ seen = [out EXCEPT !.video = << >>]
       \/ out.extras # 0 /\ seen = [out EXCEPT !.extras = @ - 1]
    BY DEF Damaged, stereo, unflagged
<1>13. CASE \E audio \in {Front(out.audio), Reverse(out.audio), stereo} : seen = [out EXCEPT !.audio = audio]
    BY <1>2, <1>3, <1>4, <1>7, <1>13 DEF stereo
<1>14. CASE \E subs \in {unflagged, << >>} : seen = [out EXCEPT !.subs = subs]
    BY <1>5, <1>6, <1>8, <1>14
<1>15. CASE seen = [out EXCEPT !.video = << >>]
    BY <1>9, <1>15
<1>16. CASE out.extras # 0 /\ seen = [out EXCEPT !.extras = @ - 1]
    BY <1>11, <1>16
<1> QED BY <1>12, <1>13, <1>14, <1>15, <1>16

(* An output that passed the verifier still has every planned audio stream,   *)
(* if not in its place.                                                       *)
LEMMA AudioSurvives ==
    ASSUME NEW m \in MediaFile, NEW p \in Policy, NEW chosen, Sound(m, p, chosen), NEW bits, NEW known,
           Obeyed(m, chosen, bits, known) \in MediaFile,
           NEW out, out = Obeyed(m, chosen, bits, known) \/ out \in Damaged(Obeyed(m, chosen, bits, known)),
           Verified(m, chosen, out),
           NEW b \in ToSet(chosen.audio)
    PROVE  \E k \in DOMAIN out.audio :
              /\ out.audio[k].lang = m.audio[b].lang /\ out.audio[k].atmos = m.audio[b].atmos
              /\ out.audio[k].channels = m.audio[b].channels
<1> DEFINE o == Obeyed(m, chosen, bits, known)
<1>1. /\ o.audio \in Seq(AudioStream) /\ Len(o.audio) = Len(chosen.audio)
      /\ Len(chosen.audio) \in Nat /\ DOMAIN chosen.audio = 1..Len(chosen.audio)
      /\ DOMAIN o.audio = 1..Len(chosen.audio)
      /\ \A n \in DOMAIN chosen.audio : o.audio[n] = AudioOut(m, chosen, chosen.audio[n])
    BY ObeyedStreams
<1>2. PICK n \in DOMAIN chosen.audio : chosen.audio[n] = b
    BY DEF ToSet
<1>3. b \in DOMAIN m.audio
    BY <1>2, PlannedStreams
<1>4. /\ o.audio[n] \in AudioStream
      /\ o.audio[n].lang = m.audio[b].lang /\ o.audio[n].atmos = m.audio[b].atmos
      /\ o.audio[n].channels = m.audio[b].channels
    <2>1. o.audio[n] \in AudioStream
        BY <1>1, <1>2, ElementOfSeq
    <2>2. o.audio[n] = AudioOut(m, chosen, b)
        BY <1>1, <1>2
    <2> HIDE DEF o
    <2> QED BY <1>3, <2>1, <2>2, StreamOut
<1>5. /\ Len(out.audio) = Len(chosen.audio)
      /\ out.audio[n].channels = m.audio[b].channels
    BY <1>2 DEF Verified, AudioMatches
<1> HIDE DEF o
<1>6. o \in MediaFile /\ (out = o \/ out \in Damaged(o))
    BY DEF o
<1>7. \/ out.audio \in {o.audio, Front(o.audio), Reverse(o.audio)}
      \/ out.audio = [k \in DOMAIN o.audio |-> [o.audio[k] EXCEPT !.channels = 2]]
    BY <1>6, DamagedStreams
<1>8. CASE out.audio = o.audio
    BY <1>1, <1>2, <1>4, <1>8
<1>9. CASE out.audio = Front(o.audio)
    <2>1. Len(out.audio) = Len(o.audio) - 1
        <3>1. \A i \in 1..(Len(o.audio) - 1) : o.audio[i] \in AudioStream
            BY <1>1, LenProperties
        <3>2. n \in 1..Len(o.audio) /\ Len(o.audio) \in Nat
            BY <1>1
        <3>3. Len(o.audio) >= 1
            BY <3>2
        <3> QED BY <1>1, <1>9, <3>1, <3>3, SubSeqProperties DEF Front
    <2> QED BY <1>1, <1>5, <2>1
<1>10. CASE out.audio = Reverse(o.audio)
    <2> DEFINE k == Len(o.audio) - n + 1
    <2>1. k \in 1..Len(o.audio) /\ Len(o.audio) - k + 1 = n
        <3>1. \A len \in Nat : \A i \in 1..len :
                len - i + 1 \in 1..len /\ len - (len - i + 1) + 1 = i
            OBVIOUS
        <3>2. n \in 1..Len(o.audio) /\ Len(o.audio) \in Nat
            BY <1>1
        <3> QED BY <3>1, <3>2
    <2>2. k \in DOMAIN out.audio /\ out.audio[k] = o.audio[n]
        BY <1>1, <1>10, <2>1 DEF Reverse
    <2> QED BY <1>4, <2>2
<1>11. CASE out.audio = [k \in DOMAIN o.audio |-> [o.audio[k] EXCEPT !.channels = 2]]
    <2>1. n \in DOMAIN out.audio /\ out.audio[n] = [o.audio[n] EXCEPT !.channels = 2]
        BY <1>1, <1>11
    <2>2. out.audio[n].lang = o.audio[n].lang /\ out.audio[n].atmos = o.audio[n].atmos
        BY <1>4, <2>1 DEF AudioStream
    <2> QED BY <1>4, <1>5, <2>1, <2>2
<1> QED BY <1>7, <1>8, <1>9, <1>10, <1>11

(* An output that passed the verifier marks, in every language, as many       *)
(* subtitles as forced as the plan keeps of it.                               *)
LEMMA ForcedSurvive ==
    ASSUME NEW m \in MediaFile, NEW p \in Policy, NEW chosen, Sound(m, p, chosen),
           NEW out \in MediaFile, Verified(m, chosen, out),
           p.keepForced, NEW l \in ToSet(p.forcedLangs)
    PROVE  LET kept == {k \in DOMAIN out.subs : out.subs[k].lang = l /\ IsForced(out.subs[k])}
               forced == {i \in DOMAIN m.subs : m.subs[i].lang = l /\ m.subs[i].flagged}
           IN Cardinality(kept) >= Cardinality(forced)
<1> DEFINE kept == {k \in DOMAIN out.subs : out.subs[k].lang = l /\ IsForced(out.subs[k])}
           forced == {i \in DOMAIN m.subs : m.subs[i].lang = l /\ m.subs[i].flagged}
           place == [i \in forced |-> CHOOSE n \in DOMAIN chosen.subs : chosen.subs[n] = i]
<1>1. Rank(p.forcedLangs, l) > 0
    BY RankOfListed DEF Policy
<1>2. forced \subseteq ToSet(chosen.subs)
    BY <1>1 DEF Sound, ForcedCandidates
<1>3. ASSUME NEW i \in forced
      PROVE  place[i] \in DOMAIN chosen.subs /\ chosen.subs[place[i]] = i
    <2>1. \E n \in DOMAIN chosen.subs : chosen.subs[n] = i
        BY <1>2 DEF ToSet
    <2> QED BY <2>1
<1>4. /\ DOMAIN out.subs = 1..Len(out.subs) /\ DOMAIN chosen.subs = 1..Len(chosen.subs)
      /\ Len(out.subs) = Len(chosen.subs) /\ IsFiniteSet(DOMAIN out.subs)
    BY Streams, LenProperties DEF Sound, Verified, SubtitlesMatch
<1>5. ASSUME NEW i \in forced PROVE place[i] \in kept
    <2>1. /\ out.subs[place[i]].lang = m.subs[i].lang
          /\ IsForced(out.subs[place[i]]) = IsForced(m.subs[i])
        <3>1. \A n \in DOMAIN chosen.subs :
                /\ out.subs[n].lang = m.subs[chosen.subs[n]].lang
                /\ IsForced(out.subs[n]) = IsForced(m.subs[chosen.subs[n]])
            BY DEF Verified, SubtitlesMatch
        <3> HIDE DEF place
        <3> QED BY <1>3, <3>1
    <2>2. IsForced(m.subs[i])
        BY DEF IsForced
    <2> HIDE DEF place
    <2> QED BY <1>3, <1>4, <2>1, <2>2
<1>6. place \in Injection(forced, kept)
    <2>1. place \in [forced -> kept]
        BY <1>5
    <2>2. ASSUME NEW i \in forced, NEW j \in forced, place[i] = place[j] PROVE i = j
        <3>1. chosen.subs[place[i]] = i /\ chosen.subs[place[j]] = j
            BY <1>3
        <3> HIDE DEF place, forced
        <3> QED BY <2>2, <3>1
    <2> HIDE DEF place, forced, kept
    <2> QED BY <2>1, <2>2 DEF Injection, IsInjective
<1>7. IsFiniteSet(kept) /\ Cardinality(kept) \in Nat
    BY <1>4, FS_Subset, FS_CardinalityType
<1> HIDE DEF place, kept, forced
<1>8. IsFiniteSet(forced) /\ Cardinality(forced) <= Cardinality(kept)
    BY <1>6, <1>7, FS_Injection
<1>9. Cardinality(forced) \in Nat
    BY <1>8, FS_CardinalityType
<1> QED BY <1>7, <1>8, <1>9 DEF kept, forced

(* Scores that agree up to a place rank alike up to there: what is above      *)
(* another is not below it on a part of the score.                            *)
LEMMA PrefixNotBelow ==
    ASSUME NEW q \in [1..7 -> Int], NEW r \in [1..7 -> Int], NEW s \in [1..7 -> Int],
           \A n \in 1..4 : s[n] = q[n], q = r \/ Above(q, r)
    PROVE  ~Above(SubSeq(r, 1, 4), SubSeq(s, 1, 4))
<1>1. /\ DOMAIN SubSeq(r, 1, 4) = 1..4
      /\ \A n \in 1..4 : SubSeq(r, 1, 4)[n] = r[n] /\ SubSeq(s, 1, 4)[n] = s[n]
    <2>1. \A i \in 1..4 : r[i] \in Int /\ s[i] \in Int
        OBVIOUS
    <2>2. /\ SubSeq(r, 1, 4) \in Seq(Int) /\ Len(SubSeq(r, 1, 4)) = 4
          /\ \A i \in 1..4 : SubSeq(r, 1, 4)[i] = r[i] /\ SubSeq(s, 1, 4)[i] = s[i]
        BY <2>1, SubSeqProperties
    <2> QED BY <2>2, LenProperties
<1> SUFFICES ASSUME Above(SubSeq(r, 1, 4), SubSeq(s, 1, 4)) PROVE FALSE
    OBVIOUS
<1>2. PICK j \in 1..4 : r[j] > q[j] /\ \A k \in 1..(j - 1) : r[k] = q[k]
    BY <1>1 DEF Above
<1>3. PICK i \in 1..7 : q[i] > r[i] /\ \A k \in 1..(i - 1) : q[k] = r[k]
    BY <1>2 DEF Above
<1>4. CASE i < j
    BY <1>2, <1>3, <1>4
<1>5. CASE j <= i
    BY <1>2, <1>3, <1>5
<1> QED BY <1>4, <1>5

(* The quality of a stream that is a number in each place.                    *)
LEMMA QualityTyped ==
    ASSUME NEW m \in MediaFile, NEW p \in Policy, NEW i \in DOMAIN m.audio
    PROVE  AudioQuality(m, p, i) \in [1..7 -> Int]
BY AudioScored DEF Scores

(* The output has, of every preferred language, a track no worse than the     *)
(* best selectable one of the file.                                           *)
LEMMA BestSurvives ==
    ASSUME NEW m \in MediaFile, NEW p \in Policy, NEW bits, NEW known,
           Obeyed(m, PlanFor(m, p), bits, known) \in MediaFile,
           NEW out \in MediaFile,
           \/ out = Obeyed(m, PlanFor(m, p), bits, known)
           \/ out \in Damaged(Obeyed(m, PlanFor(m, p), bits, known)),
           Verified(m, PlanFor(m, p), out),
           NEW i \in Selectable(m, p) \cap Preferred(m, p)
    PROVE  \E k \in DOMAIN out.audio :
              /\ out.audio[k].lang = m.audio[i].lang
              /\ ~Above(SubSeq(AudioQuality(m, p, i), 1, 4), SubSeq(AudioQuality(out, p, k), 1, 4))
<1> DEFINE chosen == PlanFor(m, p)
<1>1. Sound(m, p, chosen) /\ chosen.audio = SelectAudio(m, p)
    BY PlanSound DEF PlanFor
<1>2. PICK b \in ToSet(chosen.audio) :
        /\ m.audio[b].lang = m.audio[i].lang
        /\ b = i \/ Above(AudioQuality(m, p, b), AudioQuality(m, p, i))
    BY <1>1, AudioChosen
<1>3. b \in DOMAIN m.audio /\ i \in DOMAIN m.audio
    BY <1>1, PlannedStreams DEF Preferred
<1>4. PICK k \in DOMAIN out.audio :
        /\ out.audio[k].lang = m.audio[b].lang /\ out.audio[k].atmos = m.audio[b].atmos
        /\ out.audio[k].channels = m.audio[b].channels
    BY <1>1, AudioSurvives
<1>5. \A n \in 1..4 : AudioQuality(out, p, k)[n] = AudioQuality(m, p, b)[n]
    <2>1. ASSUME NEW x, NEW j
          PROVE  /\ AudioQuality(x, p, j)[1] = Flag(x.audio[j].atmos /\ p.keepAtmos)
                 /\ AudioQuality(x, p, j)[2] = Flag(x.audio[j].channels >= 8 /\ p.keepSevenOne)
                 /\ AudioQuality(x, p, j)[3] = Flag(x.audio[j].channels >= 6 /\ p.keepSurround)
                 /\ AudioQuality(x, p, j)[4] = x.audio[j].channels
        BY DEF AudioQuality, IsSevenOne, IsSurround
    <2>2. \A n \in 1..4 : n = 1 \/ n = 2 \/ n = 3 \/ n = 4
        OBVIOUS
    <2> QED BY <1>4, <2>1, <2>2
<1>6. /\ AudioQuality(m, p, b) \in [1..7 -> Int] /\ AudioQuality(m, p, i) \in [1..7 -> Int]
      /\ AudioQuality(out, p, k) \in [1..7 -> Int]
    BY <1>3, QualityTyped
<1>7. ~Above(SubSeq(AudioQuality(m, p, i), 1, 4), SubSeq(AudioQuality(out, p, k), 1, 4))
    BY <1>2, <1>5, <1>6, PrefixNotBelow
<1> QED BY <1>2, <1>4, <1>7

-----------------------------------------------------------------------------
(* The invariant: the plan is the one the planner makes of the file that is   *)
(* still there under the policy in force for it, what is encoded is neither   *)
(* skipped nor left to the operator, the output is what ffmpeg makes of that  *)
(* plan, and it gets its verdict from the plan.                               *)

Underway == {"planned", "encoding", "staged", "verified"}

PlanMade == phase \in Underway => plan = PlanFor(media, InForce)

Acted == phase \in {"encoding", "staged", "verified"} => plan.action \in {"remux", "transcode"}

Encoded ==
    phase \in {"staged", "verified"} =>
        \E bits \in Rates, known \in Known :
            IF staged.obeyed THEN staged.media = Obeyed(media, plan, bits, known)
            ELSE staged.media \in Damaged(Obeyed(media, plan, bits, known))

Judged == phase = "verified" => Verified(media, plan, staged.media)

\* An output and a result go with the phase.
Staged ==
    /\ staged \in Outputs \cup {NoOutput}
    /\ phase \in {"planned", "encoding"} => staged = NoOutput
    /\ phase \in {"staged", "verified"} => staged \in Outputs
    /\ phase \in Underway => result = "none"
    /\ phase = "ended" => result # "none"
    /\ phase = "probed" /\ result = "none" => staged = NoOutput

Counted == passes \in 0..MaxPasses /\ (phase # "ended" => passes < MaxPasses)

PipelineInv ==
    /\ setup \in Setups /\ media \in MediaFile /\ phase \in Phases
    /\ result \in Results /\ cancel \in BOOLEAN
    /\ PlanMade /\ Acted /\ Encoded /\ Judged /\ Staged /\ Counted /\ TestedBackend

(* The policy in force is a policy, and the host a host.                      *)
LEMMA SetupTyped ==
    ASSUME setup \in Setups
    PROVE  /\ InForce \in Policy /\ setup.host \in Host
           /\ setup.allow \in BOOLEAN /\ setup.artifact \in BOOLEAN
<1>1. setup \in Setup
    BY PipelineAssumption
<1>2. Is4K(media) \in BOOLEAN
    BY DEF Is4K
<1> QED BY <1>1, <1>2 DEF Setup, InForce

(* The pipeline starts in the invariant.                                      *)
LEMMA PipelineStarts == Init => PipelineInv
<1> SUFFICES ASSUME Init PROVE PipelineInv
    OBVIOUS
<1>1. media \in MediaFile
    BY PipelineAssumption DEF Init
<1>2. TestedBackend
    BY DEF Init, TestedBackend, NoSelection, None
<1>3. Counted
    BY PipelineAssumption DEF Init, Counted
<1> QED BY <1>1, <1>2, <1>3 DEF Init, PipelineInv, Phases, Results, PlanMade, Acted, Encoded, Judged,
                                Staged, Underway

(* What the start of an execution lets through is encoded.                    *)
LEMMA StartActs ==
    ASSUME PipelineInv, phase = "planned", EndsAtOnce = "none"
    PROVE  plan.action \in {"remux", "transcode"}
<1>1. plan.action \in {"skip", "remux", "transcode", "manual_review"}
    BY SetupTyped, PlanSound DEF PipelineInv, PlanMade, Underway, Sound
<1>2. plan.action # "skip" /\ plan.action # "manual_review"
    BY DEF EndsAtOnce
<1> QED BY <1>1, <1>2

(* An execution that ends at once has a result.                               *)
LEMMA EndsWell == EndsAtOnce \in {"none", "skipped", "manual_review", "failed"}
BY DEF EndsAtOnce

(* A job that ends is counted once.                                           *)
LEMMA EndCounts ==
    ASSUME PipelineInv, phase # "ended", NEW outcome \in Results \ {"none"}, End(outcome)
    PROVE  Counted' /\ phase' \in Phases /\ result' \in Results /\ result' # "none"
BY PipelineAssumption DEF PipelineInv, Counted, End, Phases

(* The selection of an execution names a back end whose test passed.          *)
LEMMA StartTested ==
    ASSUME PipelineInv, Start
    PROVE  TestedBackend'
<1>1. Tested(setup.host, Selection)
    <2>1. Tested(setup.host, Select(setup.host, setup.preference, setup.allow, plan.codec))
        BY SetupTyped, SelectionTested DEF PipelineInv
    <2>2. Tested(setup.host, [NoSelection EXCEPT !.backend = Cpu, !.accelerator = Cpu])
        BY DEF Tested, NoSelection, Cpu, None
    <2> QED BY <2>1, <2>2 DEF Selection
<1>2. (backend' = backend \/ backend' = Selection) /\ setup' = setup
    BY DEF Start
<1> QED BY <1>1, <1>2 DEF TestedBackend, Tested, PipelineInv

(* The output of an encode, obeyed or damaged, is one of the plan in force.   *)
LEMMA EncodeEndsStep ==
    ASSUME PipelineInv, EncodeEnds
    PROVE  PipelineInv'
<1> USE DEF PipelineInv
<1>1. /\ phase = "encoding" /\ phase' = "staged"
      /\ UNCHANGED <<setup, media, plan, backend, cancel, result, passes, past>>
    BY DEF EncodeEnds
<1>2. PICK bits \in Rates, known \in {"reported", "derivable", "sized", "unknown"},
           growth \in {plan.larger, plan.larger + 1}, obeyed \in BOOLEAN :
        /\ ~obeyed => known = "reported" /\ growth = plan.larger
        /\ LET out == Obeyed(media, plan, bits, known)
           IN \E seen \in IF obeyed THEN {out} ELSE Damaged(out) \ {out} :
                \E readable \in IF obeyed THEN {TRUE} ELSE BOOLEAN :
                    staged' = Output(seen, obeyed, readable, growth)
    BY Zenon DEF EncodeEnds
<1> known \in Known
    BY DEF Known
<1>3. PICK seen, readable :
        /\ readable \in BOOLEAN
        /\ staged' = Output(seen, obeyed, readable, growth)
        /\ IF obeyed THEN seen = Obeyed(media, plan, bits, known)
           ELSE seen \in Damaged(Obeyed(media, plan, bits, known))
    <2> DEFINE seens == IF obeyed THEN {Obeyed(media, plan, bits, known)}
                        ELSE Damaged(Obeyed(media, plan, bits, known)) \ {Obeyed(media, plan, bits, known)}
               reads == IF obeyed THEN {TRUE} ELSE BOOLEAN
    <2>1. PICK seen \in seens : \E readable \in reads : staged' = Output(seen, obeyed, readable, growth)
        BY <1>2
    <2>2. PICK readable \in reads : staged' = Output(seen, obeyed, readable, growth)
        BY <2>1
    <2>3. readable \in BOOLEAN
        OBVIOUS
    <2>4. IF obeyed THEN seen = Obeyed(media, plan, bits, known)
          ELSE seen \in Damaged(Obeyed(media, plan, bits, known))
        BY <2>1
    <2> HIDE DEF seens, reads
    <2> QED BY <2>2, <2>3, <2>4
<1>4. plan = PlanFor(media, InForce) /\ InForce \in Policy
    BY <1>1, SetupTyped DEF PlanMade, Underway
<1>5. Obeyed(media, PlanFor(media, InForce), bits, known) \in MediaFile
    BY <1>4, ObeyedFile
<1>6. seen \in MediaFile
    BY <1>3, <1>4, <1>5, DamagedStreams
<1>7. plan.larger \in Nat
    BY <1>4, PlanSound DEF Sound
<1>8. /\ staged'.media = seen /\ staged'.obeyed = obeyed /\ staged' \in Outputs
    BY <1>3, <1>6, <1>7 DEF Output, Outputs
<1>9. Encoded'
    BY <1>1, <1>3, <1>8 DEF Encoded
<1> QED BY <1>1, <1>8, <1>9 DEF PlanMade, InForce, Acted, Judged, Staged, Counted, TestedBackend, Phases, Underway

(* Every step of the pipeline keeps the invariant: one case per action.       *)
LEMMA PipelineKept == PipelineInv /\ [Next]_vars => PipelineInv'
<1> SUFFICES ASSUME PipelineInv, [Next]_vars PROVE PipelineInv'
    OBVIOUS
<1> USE DEF PipelineInv
<1>1. CASE MakePlan
    <2>1. PlanMade' /\ Acted' /\ Encoded' /\ Judged' /\ Staged' /\ Counted' /\ phase' \in Phases /\ result' \in Results
        BY <1>1 DEF MakePlan, PlanMade, InForce, Acted, Encoded, Judged, Staged, Counted, Phases, Results, Underway
    <2>2. TestedBackend'
        BY <1>1 DEF MakePlan, TestedBackend, NoSelection, None
    <2> QED BY <1>1, <2>1, <2>2 DEF MakePlan
<1>2. CASE Start
    <2>1. phase = "planned" /\ UNCHANGED <<setup, media, plan, staged, cancel, past>>
        BY <1>2 DEF Start
    <2>2. CASE EndsAtOnce # "none"
        <3>1. End(EndsAtOnce) /\ EndsAtOnce \in Results \ {"none"}
            BY <1>2, <2>2, EndsWell DEF Start, Results
        <3>2. Counted' /\ phase' \in Phases /\ result' \in Results /\ result' # "none" /\ phase' = "ended"
            BY <2>1, <3>1, EndCounts DEF End
        <3> QED BY <1>2, <2>1, <3>2, StartTested DEF PlanMade, Acted, Encoded, Judged, Staged, Underway
    <2>3. CASE EndsAtOnce = "none"
        <3>1. phase' = "encoding" /\ UNCHANGED <<result, passes>>
            BY <1>2, <2>3 DEF Start
        <3>2. plan'.action \in {"remux", "transcode"}
            BY <2>1, <2>3, StartActs
        <3> QED BY <1>2, <2>1, <3>1, <3>2, StartTested
                DEF PlanMade, InForce, Acted, Encoded, Judged, Staged, Counted, Phases, Underway
    <2> QED BY <2>2, <2>3
<1>3. CASE RequestCancel
    BY <1>3 DEF RequestCancel, PlanMade, InForce, Acted, Encoded, Judged, Staged, Counted, TestedBackend
<1>4. CASE EncodeEnds
    BY <1>4, EncodeEndsStep
<1>5. CASE EncodeStops
    <2>1. \E outcome \in Results \ {"none"} : End(outcome)
        BY <1>5 DEF EncodeStops, Results
    <2>2. Counted' /\ phase' \in Phases /\ result' \in Results /\ result' # "none" /\ phase' = "ended"
        BY <1>5, <2>1, EndCounts DEF EncodeStops, End
    <2> QED BY <1>5, <2>2 DEF EncodeStops, PlanMade, Acted, Encoded, Judged, Staged, TestedBackend, Underway
<1>6. CASE Verify
    <2>1. phase = "staged" /\ UNCHANGED <<setup, media, plan, backend, staged, cancel, past>>
        BY <1>6 DEF Verify
    <2>2. CASE End("failed")
        <3>1. Counted' /\ phase' \in Phases /\ result' \in Results /\ result' # "none" /\ phase' = "ended"
            BY <2>1, <2>2, EndCounts DEF End, Results
        <3> QED BY <2>1, <3>1 DEF PlanMade, Acted, Encoded, Judged, Staged, TestedBackend, Underway
    <2>3. CASE /\ Verified(media, plan, staged.media)
               /\ phase' = "verified" /\ UNCHANGED <<result, passes>>
        BY <2>1, <2>3 DEF PlanMade, InForce, Acted, Encoded, Judged, Staged, Counted, TestedBackend, Phases, Underway
    <2> QED BY <1>6, <2>2, <2>3 DEF Verify
<1>7. CASE Place
    <2>1. phase = "verified" /\ UNCHANGED <<setup, plan, backend, staged, cancel>>
        BY <1>7 DEF Place
    <2>2. \E outcome \in Results \ {"none"} : End(outcome)
        BY <1>7 DEF Place, Results
    <2>3. Counted' /\ phase' \in Phases /\ result' \in Results /\ result' # "none" /\ phase' = "ended"
        BY <2>1, <2>2, EndCounts DEF End
    <2>4. media' \in MediaFile
        <3>1. media' = media \/ media' = staged.media
            BY <1>7 DEF Place
        <3> QED BY <2>1, <3>1 DEF Staged, Outputs
    <2> QED BY <2>1, <2>3, <2>4 DEF PlanMade, Acted, Encoded, Judged, Staged, TestedBackend, Underway
<1>8. CASE Rescan
    BY <1>8 DEF Rescan, PlanMade, InForce, Acted, Encoded, Judged, Staged, Counted, TestedBackend, Phases, Underway
<1>9. CASE UNCHANGED vars
    BY <1>9 DEF vars, PlanMade, InForce, Acted, Encoded, Judged, Staged, Counted, TestedBackend
<1> QED BY <1>1, <1>2, <1>3, <1>4, <1>5, <1>6, <1>7, <1>8, <1>9 DEF Next

(* The invariant holds of every behaviour.                                    *)
LEMMA PipelineInvariant == Spec => []PipelineInv
BY PipelineStarts, PipelineKept, PTL DEF Spec

(* Hardware is used only as its own smoke test was (TestedBackend), on every  *)
(* host and under every preference.                                           *)
THEOREM BackendsTested == Spec => []TestedBackend
<1>1. PipelineInv => TestedBackend
    BY DEF PipelineInv
<1> QED BY <1>1, PipelineInvariant, PTL

(* The status a worker reports is what its executions do (StatusHonest), on   *)
(* every host and under every preference.                                     *)
THEOREM StatusTold == Spec => []StatusHonest
<1>1. ASSUME PipelineInv PROVE StatusHonest
    <2> SUFFICES ASSUME phase = "planned", plan.action = "transcode", ~setup.artifact,
                        plan.codec \in HardwareCodecs
                 PROVE  LET status == Status(setup.host, setup.preference, setup.allow)
                        IN /\ status.usable <=> EndsAtOnce # "failed"
                           /\ status.usable => /\ status.selected = Selection.backend
                                                /\ status.fallback = Selection.fallback
        BY DEF StatusHonest
    <2>1. Selection = Select(setup.host, setup.preference, setup.allow, plan.codec)
        BY DEF Selection
    <2>2. EndsAtOnce # "failed" <=> Selection # NoSelection /\ setup.host.ffmpeg
        BY DEF EndsAtOnce
    <2> QED BY <1>1, <2>1, <2>2, SetupTyped, StatusMatches DEF PipelineInv
<1> QED BY <1>1, PipelineInvariant, PTL

(* What the guards of _verify_and_place let through.                          *)
LEMMA SafeEnough ==
    ASSUME NEW plan_, plan_.encode = TRUE, plan_.floor \in Nat, NEW m, NEW out, NEW growth,
           out.video[1].bits \in Int,
           Safety(plan_, Metrics(m, out, growth)) = "safe"
    PROVE  LET from == m.video[1].bits
               to == out.video[1].bits
           IN to >= plan_.floor \/ (from - to) * 100 <= plan_.reduction * from
<1> DEFINE metrics == Metrics(m, out, growth)
           from == m.video[1].bits
           to == out.video[1].bits
<1>1. metrics.input = from /\ (metrics.saved # NoRate => metrics.saved = from - to)
      /\ (metrics.rate # NoRate => metrics.rate = to)
    BY DEF Metrics
<1> HIDE DEF metrics
<1>2. metrics.saved # NoRate
    BY DEF Safety, metrics
<1>3. CASE metrics.rate # NoRate
    <2>1. ~(metrics.rate < plan_.floor)
        BY <1>2, <1>3 DEF Safety, metrics
    <2> QED BY <1>1, <1>3, <2>1
<1>4. CASE metrics.rate = NoRate
    <2>1. ReductionWithin(metrics, plan_.reduction)
        BY <1>2, <1>4 DEF Safety, metrics
    <2> QED BY <1>1, <1>2, <2>1 DEF ReductionWithin
<1> QED BY <1>3, <1>4

(* An encoded picture replaces the original only at a rate above the policy's *)
(* floor or within the reduction it allows (KeepsPicture), whatever ffmpeg    *)
(* made of the file and whether or not the rates could be measured.           *)
THEOREM PictureKept == Spec => KeepsPicture
<1> DEFINE Kept == Placed /\ plan.encode =>
                     LET from == media.video[1].bits
                         to == media'.video[1].bits
                     IN to >= plan.floor \/ (from - to) * 100 <= plan.reduction * from
<1>1. ASSUME PipelineInv, [Next]_vars PROVE [Kept]_vars
    <2> SUFFICES ASSUME Next, Placed, plan.encode
                 PROVE  LET from == media.video[1].bits
                            to == media'.video[1].bits
                        IN to >= plan.floor \/ (from - to) * 100 <= plan.reduction * from
        BY <1>1
    <2>1. Place
        BY DEF Next, Placed, MakePlan, Start, RequestCancel, EncodeEnds, EncodeStops, Verify, Rescan
    <2>2. /\ phase = "verified" /\ media' = staged.media
          /\ Safety(plan, Metrics(media, staged.media, staged.growth)) = "safe"
        BY <2>1 DEF Place, Placed
    <2>3. /\ plan = PlanFor(media, InForce) /\ Verified(media, plan, staged.media)
          /\ media.video \in Seq(VideoStream) /\ staged.media.video \in Seq(VideoStream)
        <3>1. media \in MediaFile /\ staged.media \in MediaFile
            BY <1>1, <2>2 DEF PipelineInv, Staged, Outputs
        <3> QED BY <1>1, <2>2, <3>1 DEF PipelineInv, PlanMade, Judged, Underway, MediaFile
    <2>4. InForce \in Policy
        BY <1>1, SetupTyped DEF PipelineInv
    <2>5. plan.floor \in Nat /\ plan.encode = TRUE
        <3>1. plan.encode \in BOOLEAN
            BY <2>3 DEF PlanFor
        <3> QED BY <2>3, <2>4, <3>1, PlanOfPicture
    <2>6. plan.video = <<1>>
        BY <2>3, <2>4, <2>5, PlanOfPicture
    <2>7. staged.media.video # << >>
        BY <2>3, <2>6 DEF Verified, HasRequiredVideo
    <2>8. staged.media.video[1] \in VideoStream
        BY <2>3, <2>7, LenProperties
    <2>9. staged.media.video[1].bits \in Int
        <3>1. staged.media.video[1].bits \in Rates
            BY <2>8 DEF VideoStream
        <3>2. Rates \subseteq Int
            BY MediaAssumption
        <3> QED BY <3>1, <3>2
    <2> HIDE DEF Kept
    <2> QED BY <2>2, <2>5, <2>9, SafeEnough
<1>2. KeepsPicture <=> [][Kept]_vars
    BY PTL DEF KeepsPicture
<1> QED BY <1>1, <1>2, PipelineInvariant, PTL DEF Spec

(* The plan only names streams of the file it was made from, and an output, a *)
(* selection and a result go with the phase the job is in (TypeOK).           *)
THEOREM PipelineTyped == Spec => []TypeOK
<1>1. ASSUME PipelineInv PROVE TypeOK
    <2> USE <1>1 DEF PipelineInv
    <2>1. passes \in 0..MaxPasses
        BY DEF Counted
    <2>2. ASSUME phase \notin {"probed", "ended"}
          PROVE  /\ ToSet(plan.audio) \subseteq DOMAIN media.audio
                 /\ ToSet(plan.subs) \subseteq DOMAIN media.subs
        <3>1. plan = PlanFor(media, InForce)
            BY <2>2 DEF PlanMade, Phases, Underway
        <3> QED BY <3>1, SetupTyped, PlanSound, PlannedStreams
    <2>3. staged # NoOutput => staged \in Outputs
        BY DEF Staged
    <2>4. phase \in {"staged", "verified"} <=> staged # NoOutput /\ result = "none"
        BY PipelineAssumption DEF Staged, Phases, Underway
    <2>5. phase = "ended" <=> result # "none" /\ phase # "probed"
        BY DEF Staged, Phases, Underway
    <2> QED BY <2>1, <2>2, <2>3, <2>4, <2>5 DEF TypeOK
<1> QED BY <1>1, PipelineInvariant, PTL

(* An ffmpeg that does what its command line says is never failed by the      *)
(* verifier (ObedientOutputPasses), for every file, policy and host.          *)
THEOREM ObedientPasses == Spec => []ObedientOutputPasses
<1>1. ASSUME PipelineInv PROVE ObedientOutputPasses
    <2> SUFFICES ASSUME phase = "staged", staged.obeyed,
                        \A i \in ToSet(plan.subs) : media.subs[i].flagged => i \in plan.forced
                 PROVE  Verified(media, plan, staged.media)
        BY DEF ObedientOutputPasses
    <2>1. /\ plan = PlanFor(media, InForce) /\ plan.action \in {"remux", "transcode"}
          /\ media \in MediaFile /\ InForce \in Policy
        BY <1>1, SetupTyped DEF PipelineInv, PlanMade, Acted, Underway
    <2>2. PICK bits \in Rates, known \in Known : staged.media = Obeyed(media, plan, bits, known)
        BY <1>1 DEF PipelineInv, Encoded
    <2> QED BY <2>1, <2>2, ObeyedVerified
<1> QED BY <1>1, PipelineInvariant, PTL

(* What a placement puts there is a verified output of the plan made of the   *)
(* file, a plan that is neither a skip nor a review.                          *)
LEMMA WhatPlaceMakes ==
    ASSUME PipelineInv, Place, media' = staged.media
    PROVE  /\ media \in MediaFile /\ InForce \in Policy
           /\ media' \in MediaFile /\ Verified(media, PlanFor(media, InForce), media')
           /\ PlanFor(media, InForce).action \in {"remux", "transcode"}
           /\ \E bits \in Rates, known \in Known :
                 LET out == Obeyed(media, PlanFor(media, InForce), bits, known)
                 IN media' = out \/ media' \in Damaged(out)
<1>2. phase = "verified" /\ media' = staged.media
    BY DEF Place
<1>3. plan = PlanFor(media, InForce) /\ Verified(media, plan, staged.media)
    BY <1>2 DEF PipelineInv, PlanMade, Judged, Underway
<1>4. media \in MediaFile /\ staged.media \in MediaFile
    BY <1>2 DEF PipelineInv, Staged, Outputs
<1>5. \E bits \in Rates, known \in Known :
         LET out == Obeyed(media, plan, bits, known)
         IN staged.media = out \/ staged.media \in Damaged(out)
    BY <1>2 DEF PipelineInv, Encoded
<1>6. plan.action \in {"remux", "transcode"}
    BY <1>2 DEF PipelineInv, Acted
<1> QED BY <1>2, <1>3, <1>4, <1>5, <1>6, SetupTyped DEF PipelineInv

(* What replaces a file is a verified output of the plan made of that file.   *)
LEMMA WhatIsPlaced ==
    ASSUME PipelineInv, Next, Placed
    PROVE  /\ media \in MediaFile /\ InForce \in Policy
           /\ media' \in MediaFile /\ Verified(media, PlanFor(media, InForce), media')
           /\ \E bits \in Rates, known \in Known :
                 LET out == Obeyed(media, PlanFor(media, InForce), bits, known)
                 IN media' = out \/ media' \in Damaged(out)
<1>1. Place
    BY DEF Next, Placed, MakePlan, Start, RequestCancel, EncodeEnds, EncodeStops, Verify, Rescan
<1>2. media' = staged.media
    BY <1>1 DEF Place, Placed
<1> QED BY <1>1, <1>2, WhatPlaceMakes

(* However the output went wrong, what replaces a file has, for every         *)
(* preferred language, a track no worse than the best the file had            *)
(* (KeepsBestAudio): the planner keeps the best, and the verifier only lets   *)
(* through an output that has its streams in the plan's order.                *)
THEOREM BestAudioKept == Spec => KeepsBestAudio
<1> DEFINE Quality(m, i) == SubSeq(AudioQuality(m, InForce, i), 1, 4)
           Kept == Placed =>
               \A i \in Selectable(media, InForce) \cap Preferred(media, InForce) :
                   \E k \in DOMAIN media'.audio :
                       /\ media'.audio[k].lang = media.audio[i].lang
                       /\ ~Above(Quality(media, i), Quality(media', k))
<1>1. ASSUME PipelineInv, [Next]_vars PROVE [Kept]_vars
    <2> SUFFICES ASSUME Next, Placed,
                        NEW i \in Selectable(media, InForce) \cap Preferred(media, InForce)
                 PROVE  \E k \in DOMAIN media'.audio :
                            /\ media'.audio[k].lang = media.audio[i].lang
                            /\ ~Above(Quality(media, i), Quality(media', k))
        BY <1>1
    <2>1. PICK bits \in Rates, known \in Known :
            LET out == Obeyed(media, PlanFor(media, InForce), bits, known)
            IN media' = out \/ media' \in Damaged(out)
        BY <1>1, WhatIsPlaced
    <2>2. /\ media \in MediaFile /\ InForce \in Policy /\ media' \in MediaFile
          /\ Verified(media, PlanFor(media, InForce), media')
        BY <1>1, WhatIsPlaced
    <2>3. Obeyed(media, PlanFor(media, InForce), bits, known) \in MediaFile
        BY <2>2, ObeyedFile
    <2> QED BY <2>1, <2>2, <2>3, BestSurvives
<1>2. KeepsBestAudio <=> [][Kept]_vars
    BY PTL DEF KeepsBestAudio
<1> QED BY <1>1, <1>2, PipelineInvariant, PTL DEF Spec

(* No pass loses a forced subtitle the policy keeps (KeepsForced), whatever   *)
(* ffmpeg made of the file.                                                   *)
THEOREM ForcedKept == Spec => KeepsForced
<1> DEFINE Kept == Placed /\ InForce.keepForced =>
               \A l \in ToSet(InForce.forcedLangs) :
                   LET kept == {k \in DOMAIN media'.subs :
                                   media'.subs[k].lang = l /\ IsForced(media'.subs[k])}
                       forced == {i \in DOMAIN media.subs :
                                     media.subs[i].lang = l /\ media.subs[i].flagged}
                   IN Cardinality(kept) >= Cardinality(forced)
<1>1. ASSUME PipelineInv, [Next]_vars PROVE [Kept]_vars
    <2> SUFFICES ASSUME Next, Placed, InForce.keepForced, NEW l \in ToSet(InForce.forcedLangs)
                 PROVE  LET kept == {k \in DOMAIN media'.subs :
                                        media'.subs[k].lang = l /\ IsForced(media'.subs[k])}
                            forced == {i \in DOMAIN media.subs :
                                          media.subs[i].lang = l /\ media.subs[i].flagged}
                        IN Cardinality(kept) >= Cardinality(forced)
        BY <1>1
    <2>1. /\ media \in MediaFile /\ InForce \in Policy /\ media' \in MediaFile
          /\ Verified(media, PlanFor(media, InForce), media')
        BY <1>1, WhatIsPlaced
    <2>2. Sound(media, InForce, PlanFor(media, InForce))
        BY <2>1, PlanSound
    <2> QED BY <2>1, <2>2, ForcedSurvive
<1>2. KeepsForced <=> [][Kept]_vars
    BY PTL DEF KeepsForced
<1> QED BY <1>1, <1>2, PipelineInvariant, PTL DEF Spec

-----------------------------------------------------------------------------
(* A file that was placed is left alone: how many streams a plan keeps.       *)

(* What a filter leaves of a sequence is as long as the places it keeps.      *)
LEMMA FilteredLength ==
    ASSUME NEW T, NEW s \in Seq(T), NEW S
    PROVE  /\ IsFiniteSet({n \in DOMAIN s : s[n] \in S})
           /\ Len(Filtered(s, S)) = Cardinality({n \in DOMAIN s : s[n] \in S})
<1> DEFINE at == {n \in DOMAIN s : s[n] \in S}
           before == [n \in at |-> {k \in at : k < n}]
           order == Arranged(at, before)
<1>1. DOMAIN s = 1..Len(s) /\ Len(s) \in Nat
    BY LenProperties
<1>2. IsFiniteSet(at)
    <2>1. IsFiniteSet(1..Len(s))
        BY <1>1, FS_Interval
    <2>2. at \subseteq 1..Len(s)
        BY <1>1
    <2> QED BY <2>1, <2>2, FS_Subset
<1>3. DOMAIN order = 1..Cardinality(at) /\ Cardinality(at) \in Nat
    BY <1>2, FS_CardinalityType DEF Arranged
<1>4. Filtered(s, S) = [n \in DOMAIN order |-> s[order[n]]]
    BY DEF Filtered
<1>5. DOMAIN Filtered(s, S) = 1..Cardinality(at)
    <2> HIDE DEF order, at
    <2> QED BY <1>3, <1>4
<1>6. Len(Filtered(s, S)) \in Nat /\ DOMAIN Filtered(s, S) = 1..Len(Filtered(s, S))
    BY FilteredKeeps
<1> HIDE DEF at
<1>7. Len(Filtered(s, S)) = Cardinality(at)
    BY <1>3, <1>5, <1>6, SameLength
<1> QED BY <1>2, <1>7 DEF at

(* A filter that leaves nothing out.                                          *)
LEMMA FilteredAll ==
    ASSUME NEW T, NEW s \in Seq(T), NEW S, ToSet(s) \subseteq S
    PROVE  Len(Filtered(s, S)) = Len(s)
<1>1. {n \in DOMAIN s : s[n] \in S} = 1..Len(s) /\ Len(s) \in Nat
    BY LenProperties DEF ToSet
<1>2. Cardinality(1..Len(s)) = Len(s)
    <2>1. \A k \in Nat : Cardinality(1..k) = k
        BY FS_Interval
    <2> QED BY <1>1, <2>1
<1> QED BY <1>1, <1>2, FilteredLength

\* The places of the languages that have any candidate.
Held(langs, candidates) == {n \in DOMAIN langs : candidates[langs[n]] # {}}

(* As many streams are the best of a language as there are languages with any.*)
LEMMA BestLength ==
    ASSUME NEW langs \in Seq(Languages), NEW D, IsFiniteSet(D),
           NEW candidates \in [Languages -> SUBSET D],
           NEW L \in Nat \ {0}, NEW score, Scores(D, L, score)
    PROVE  /\ IsFiniteSet(Held(langs, candidates))
           /\ Len(BestPerLanguage(langs, candidates, score)) = Cardinality(Held(langs, candidates))
<1> DEFINE there == {l \in Languages : candidates[l] # {}}
           present == Filtered(langs, there)
           best == [n \in DOMAIN present |-> Best(candidates[present[n]], score)]
           held == Held(langs, candidates)
<1>1. BestPerLanguage(langs, candidates, score) = best
    BY DEF BestPerLanguage
<1>2. held = {n \in DOMAIN langs : langs[n] \in there}
    BY LenProperties DEF Held
<1>3. Len(present) \in Nat /\ DOMAIN present = 1..Len(present)
    BY FilteredKeeps
<1>4. IsFiniteSet(held) /\ Len(present) = Cardinality(held)
    <2> HIDE DEF there, held
    <2> QED BY <1>2, FilteredLength
<1>5. DOMAIN best = DOMAIN present
    OBVIOUS
<1> HIDE DEF best, present, held
<1>6. DOMAIN best = 1..Len(best) /\ Len(best) \in Nat
    BY <1>1, BestOfEach
<1>7. Len(best) = Len(present)
    BY <1>3, <1>5, <1>6, SameLength
<1> QED BY <1>1, <1>4, <1>7 DEF held

(* And no fewer when no language loses all of its streams.                    *)
LEMMA BestGrows ==
    ASSUME NEW langs \in Seq(Languages),
           NEW D, IsFiniteSet(D), NEW candidates \in [Languages -> SUBSET D],
           NEW E, IsFiniteSet(E), NEW others \in [Languages -> SUBSET E],
           NEW L \in Nat \ {0}, NEW score, Scores(D, L, score), NEW scores, Scores(E, L, scores),
           \A l \in ToSet(langs) : candidates[l] # {} => others[l] # {}
    PROVE  Len(BestPerLanguage(langs, candidates, score))
             <= Len(BestPerLanguage(langs, others, scores))
<1> DEFINE held == Held(langs, candidates)
           kept == Held(langs, others)
<1>1. held \subseteq kept
    BY DEF ToSet, Held
<1>2. IsFiniteSet(held) /\ Len(BestPerLanguage(langs, candidates, score)) = Cardinality(held)
    BY BestLength
<1>3. IsFiniteSet(kept) /\ Len(BestPerLanguage(langs, others, scores)) = Cardinality(kept)
    BY BestLength
<1> HIDE DEF held, kept
<1>4. Cardinality(held) <= Cardinality(kept)
    BY <1>1, <1>3, FS_Subset
<1> QED BY <1>2, <1>3, <1>4
\* The best track of each preferred language, and how many more there is room for.
BestAudio(m, p) ==
    BestPerLanguage(p.audioLangs,
        [l \in Languages |-> {i \in Selectable(m, p) : m.audio[i].lang = l}],
        [i \in DOMAIN m.audio |-> AudioQuality(m, p, i)])
Room(p, n) == IF p.onlyPreferred \/ n >= p.maxTracks THEN 0 ELSE p.maxTracks - n
Least(a, b) == IF a < b THEN a ELSE b

(* The selectable tracks are some of the file's.                              *)
LEMMA SelectableTracks ==
    ASSUME NEW m \in MediaFile, NEW p \in Policy
    PROVE  /\ Selectable(m, p) \subseteq DOMAIN m.audio /\ IsFiniteSet(Selectable(m, p))
           /\ \A S \in SUBSET Selectable(m, p) : IsFiniteSet(S) /\ Cardinality(S) \in Nat
<1>1. Selectable(m, p) \subseteq DOMAIN m.audio
    BY DEF Selectable, Preferred
<1>2. IsFiniteSet(Selectable(m, p))
    BY <1>1, Streams, FS_Subset
<1> QED BY <1>1, <1>2, FS_Subset, FS_CardinalityType

(* The best tracks: selectable, and no fewer for a file that has a selectable *)
(* track of every preferred language the first has one of.                              *)
LEMMA BestTracks ==
    ASSUME NEW m \in MediaFile, NEW p \in Policy
    PROVE  /\ BestAudio(m, p) \in Seq(Selectable(m, p)) /\ Len(BestAudio(m, p)) \in Nat
           /\ \A out \in MediaFile :
                 (\A i \in Selectable(m, p) \cap Preferred(m, p) : \E k \in Selectable(out, p) :
                     out.audio[k].lang = m.audio[i].lang)
                 => Len(BestAudio(m, p)) <= Len(BestAudio(out, p))
<1> DEFINE tracks(f) == [l \in Languages |-> {i \in Selectable(f, p) : f.audio[i].lang = l}]
           quality(f) == [i \in DOMAIN f.audio |-> AudioQuality(f, p, i)]
<1>1. p.audioLangs \in Seq(Languages) /\ 7 \in Nat \ {0}
    BY DEF Policy
<1>2. ASSUME NEW f \in MediaFile
      PROVE  /\ IsFiniteSet(Selectable(f, p)) /\ tracks(f) \in [Languages -> SUBSET Selectable(f, p)]
             /\ Scores(Selectable(f, p), 7, quality(f))
             /\ BestAudio(f, p) = BestPerLanguage(p.audioLangs, tracks(f), quality(f))
    BY SelectableTracks, AudioScored DEF BestAudio
<1>3. ASSUME NEW out \in MediaFile,
             \A i \in Selectable(m, p) \cap Preferred(m, p) :
                 \E k \in Selectable(out, p) : out.audio[k].lang = m.audio[i].lang,
             NEW l \in ToSet(p.audioLangs), tracks(m)[l] # {}
      PROVE  tracks(out)[l] # {}
    <2>1. l \in Languages
        BY <1>1, LenProperties DEF ToSet
    <2>2. PICK i \in Selectable(m, p) : m.audio[i].lang = l
        BY <1>3, <2>1
    <2>3. i \in Preferred(m, p)
        <3>1. Rank(p.audioLangs, l) > 0
            BY <1>1, RankOfListed
        <3>2. i \in DOMAIN m.audio
            BY SelectableTracks
        <3> QED BY <2>2, <3>1, <3>2 DEF Preferred
    <2>4. PICK k \in Selectable(out, p) : out.audio[k].lang = l
        BY <1>3, <2>2, <2>3
    <2> QED BY <2>1, <2>4
<1> HIDE DEF tracks, quality
<1>4. BestAudio(m, p) \in Seq(Selectable(m, p)) /\ Len(BestAudio(m, p)) \in Nat
    BY <1>1, <1>2, BestOfEach
<1>5. ASSUME NEW out \in MediaFile,
             \A i \in Selectable(m, p) \cap Preferred(m, p) :
                 \E k \in Selectable(out, p) : out.audio[k].lang = m.audio[i].lang
      PROVE  Len(BestAudio(m, p)) <= Len(BestAudio(out, p))
    <2>1. \A l \in ToSet(p.audioLangs) : tracks(m)[l] # {} => tracks(out)[l] # {}
        BY <1>3, <1>5
    <2>2. Len(BestPerLanguage(p.audioLangs, tracks(m), quality(m)))
            <= Len(BestPerLanguage(p.audioLangs, tracks(out), quality(out)))
        BY <1>1, <1>2, <2>1, BestGrows
    <2> QED BY <1>2, <2>2
<1> QED BY <1>4, <1>5

(* select_audio_streams: the best tracks, then others while there is room.    *)
LEMMA AudioCount ==
    ASSUME NEW m \in MediaFile, NEW p \in Policy, ~AudioMissing(m, p)
    PROVE  LET others == Selectable(m, p) \ ToSet(BestAudio(m, p))
           IN /\ SelectAudio(m, p) \in Seq(Selectable(m, p))
              /\ Len(SelectAudio(m, p)) =
                   Len(BestAudio(m, p)) + Least(Room(p, Len(BestAudio(m, p))), Cardinality(others))
              /\ Cardinality(others) \in Nat /\ Room(p, Len(BestAudio(m, p))) \in Nat
<1> DEFINE D == Selectable(m, p)
           best == BestAudio(m, p)
           others == D \ ToSet(best)
           score == [i \in DOMAIN m.audio |-> AudioScore(m, p, i)]
           rest == ByScore(others, score)
           room == Room(p, Len(best))
           most == IF room < Len(rest) THEN room ELSE Len(rest)
           more == SubSeq(rest, 1, most)
<1>1. SelectAudio(m, p) = best \o more
    BY DEF SelectAudio, BestAudio, Room
<1>2. best \in Seq(D) /\ Len(best) \in Nat /\ room \in Nat
    BY BestTracks DEF Policy, Room
<1>3. IsFiniteSet(others) /\ Cardinality(others) \in Nat /\ others \subseteq DOMAIN m.audio
    <2> HIDE DEF best
    <2> QED BY SelectableTracks
<1>4. rest \in Seq(D) /\ Len(rest) = Cardinality(others) /\ DOMAIN rest = 1..Len(rest)
    <2>1. Scores(others, 8, score)
        BY <1>3, AudioScored
    <2> DEFINE before == [i \in others |-> {k \in others : Above(score[k], score[i])}]
    <2>2. Orders(others, before)
        <3> HIDE DEF score, others
        <3> QED BY <1>3, <2>1, ScoresOrder
    <2>3. rest = Arranged(others, before)
        BY DEF ByScore
    <2> HIDE DEF before, rest, score
    <2>4. rest \in Seq(others) /\ Len(rest) = Cardinality(others) /\ DOMAIN rest = 1..Cardinality(others)
        <3> HIDE DEF others
        <3> QED BY <1>3, <2>2, <2>3, ArrangedAll
    <2>5. rest \in Seq(D)
        <3> HIDE DEF best
        <3> QED BY <2>4, SeqDef
    <2> QED BY <2>4, <2>5
<1> HIDE DEF rest, room, others, best
<1>5. most \in Nat /\ most <= Len(rest) /\ most = Least(room, Cardinality(others))
    BY <1>2, <1>3, <1>4 DEF Least
<1>6. more \in Seq(D) /\ Len(more) = most
    <2>1. \A i \in 1..most : rest[i] \in D
        BY <1>4, <1>5, LenProperties
    <2> HIDE DEF most, D
    <2> QED BY <1>5, <2>1, SubSeqProperties
<1> HIDE DEF more, most, D
<1>7. best \o more \in Seq(D) /\ Len(best \o more) = Len(best) + Len(more)
    BY <1>2, <1>6, ConcatProperties
<1>8. SelectAudio(m, p) \in Seq(D) /\ Len(SelectAudio(m, p)) = Len(best) + Least(room, Cardinality(others))
    BY <1>1, <1>5, <1>6, <1>7
<1> QED BY <1>2, <1>3, <1>8 DEF D, best, others, room

(* The list of a sequence is finite, and has no more elements than places.    *)
LEMMA ListedNoMore ==
    ASSUME NEW D, NEW s \in Seq(D)
    PROVE  IsFiniteSet(ToSet(s)) /\ Cardinality(ToSet(s)) \in Nat /\ Cardinality(ToSet(s)) <= Len(s)
<1>1. DOMAIN s = 1..Len(s) /\ Len(s) \in Nat
    BY LenProperties
<1>2. IsFiniteSet(1..Len(s)) /\ Cardinality(1..Len(s)) = Len(s)
    <2>1. \A k \in Nat : IsFiniteSet(1..k) /\ Cardinality(1..k) = k
        BY FS_Interval
    <2> QED BY <1>1, <2>1
<1>3. s \in Surjection(1..Len(s), ToSet(s))
    <2>1. s \in [1..Len(s) -> ToSet(s)]
        BY <1>1 DEF ToSet
    <2>2. \A x \in ToSet(s) : \E n \in 1..Len(s) : s[n] = x
        BY <1>1 DEF ToSet
    <2> QED BY <2>1, <2>2 DEF Surjection
<1> DEFINE there == ToSet(s)
           places == 1..Len(s)
<1> HIDE DEF there, places
<1>4. IsFiniteSet(there) /\ Cardinality(there) <= Cardinality(places)
    BY <1>2, <1>3, FS_Surjection DEF there, places
<1>5. Cardinality(there) \in Nat
    BY <1>4, FS_CardinalityType
<1> QED BY <1>2, <1>4, <1>5 DEF there, places

(* The tracks of an output are those the plan chose, though perhaps not in    *)
(* their places.                                                              *)
LEMMA OutAudio ==
    ASSUME NEW m \in MediaFile, NEW p \in Policy, NEW bits, NEW known,
           Obeyed(m, PlanFor(m, p), bits, known) \in MediaFile,
           NEW out \in MediaFile,
           \/ out = Obeyed(m, PlanFor(m, p), bits, known)
           \/ out \in Damaged(Obeyed(m, PlanFor(m, p), bits, known)),
           Verified(m, PlanFor(m, p), out)
    PROVE  /\ Len(out.audio) = Len(SelectAudio(m, p))
           /\ \A k \in DOMAIN out.audio : \E b \in ToSet(SelectAudio(m, p)) :
                 out.audio[k].lang = m.audio[b].lang
           /\ \A k \in DOMAIN out.audio : \E b \in ToSet(SelectAudio(m, p)) :
                 out.audio[k].commentary = m.audio[b].commentary
<1> DEFINE chosen == PlanFor(m, p)
           o == Obeyed(m, chosen, bits, known)
<1>1. Sound(m, p, chosen) /\ chosen.audio = SelectAudio(m, p)
    BY PlanSound DEF PlanFor
<1>2. /\ Len(out.audio) = Len(chosen.audio)
      /\ \A n \in DOMAIN chosen.audio : out.audio[n].lang = m.audio[chosen.audio[n]].lang
    BY DEF Verified, AudioMatches
<1> HIDE DEF chosen
<1>3. /\ o.audio \in Seq(AudioStream) /\ Len(o.audio) = Len(chosen.audio)
      /\ Len(chosen.audio) \in Nat /\ DOMAIN chosen.audio = 1..Len(chosen.audio)
      /\ DOMAIN o.audio = 1..Len(chosen.audio)
      /\ \A n \in DOMAIN chosen.audio : o.audio[n] = AudioOut(m, chosen, chosen.audio[n])
    BY <1>1, ObeyedStreams
<1>4. DOMAIN out.audio = DOMAIN chosen.audio
    BY <1>2, <1>3, Streams
<1>5. \A n \in DOMAIN chosen.audio : chosen.audio[n] \in ToSet(chosen.audio) /\ chosen.audio[n] \in DOMAIN m.audio
    BY <1>1, PlannedStreams DEF ToSet
<1>6. \A n \in DOMAIN o.audio :
        o.audio[n] \in AudioStream /\ o.audio[n].commentary = m.audio[chosen.audio[n]].commentary
    <2> SUFFICES ASSUME NEW n \in DOMAIN o.audio
                 PROVE  o.audio[n] \in AudioStream
                        /\ o.audio[n].commentary = m.audio[chosen.audio[n]].commentary
        OBVIOUS
    <2>1. o.audio[n] = AudioOut(m, chosen, chosen.audio[n]) /\ o.audio[n] \in AudioStream
        BY <1>3, ElementOfSeq
    <2>2. m.audio[chosen.audio[n]] \in AudioStream
        BY <1>3, <1>5, Streams
    <2> HIDE DEF o
    <2> QED BY <2>1, <2>2 DEF AudioOut, AudioStream
<1>7. o \in MediaFile /\ (out = o \/ out \in Damaged(o))
    BY DEF chosen
<1> HIDE DEF o
<1>8. \/ out.audio \in {o.audio, Front(o.audio), Reverse(o.audio)}
      \/ out.audio = [k \in DOMAIN o.audio |-> [o.audio[k] EXCEPT !.channels = 2]]
    BY <1>7, DamagedStreams
<1>9. \A k \in DOMAIN out.audio : \E n \in DOMAIN o.audio : out.audio[k].commentary = o.audio[n].commentary
    <2> SUFFICES ASSUME NEW k \in DOMAIN out.audio
                 PROVE  \E n \in DOMAIN o.audio : out.audio[k].commentary = o.audio[n].commentary
        OBVIOUS
    <2>1. k \in DOMAIN o.audio /\ DOMAIN o.audio = 1..Len(o.audio) /\ Len(o.audio) \in Nat
        BY <1>3, <1>4
    <2>2. CASE out.audio = o.audio
        BY <2>1, <2>2
    <2>3. CASE out.audio = Front(o.audio)
        <3>1. \A i \in 1..(Len(o.audio) - 1) : o.audio[i] \in AudioStream
            BY <1>3, LenProperties
        <3>2. Len(o.audio) >= 1
            BY <2>1
        <3>3. Len(out.audio) = Len(o.audio) - 1
            BY <2>1, <2>3, <3>1, <3>2, SubSeqProperties DEF Front
        <3> QED BY <1>2, <1>3, <2>1, <3>3
    <2>4. CASE out.audio = Reverse(o.audio)
        <3> DEFINE n == Len(o.audio) - k + 1
        <3>1. n \in DOMAIN o.audio
            <4>1. \A len \in Nat : \A i \in 1..len : len - i + 1 \in 1..len
                OBVIOUS
            <4> QED BY <2>1, <4>1
        <3>2. out.audio[k] = o.audio[n]
            BY <2>1, <2>4 DEF Reverse
        <3> QED BY <3>1, <3>2
    <2>5. CASE out.audio = [j \in DOMAIN o.audio |-> [o.audio[j] EXCEPT !.channels = 2]]
        <3>1. out.audio[k] = [o.audio[k] EXCEPT !.channels = 2]
            BY <2>1, <2>5
        <3>2. out.audio[k].commentary = o.audio[k].commentary
            BY <1>6, <2>1, <3>1 DEF AudioStream
        <3> QED BY <2>1, <3>2
    <2> QED BY <1>8, <2>2, <2>3, <2>4, <2>5
<1>10. \A k \in DOMAIN out.audio : \E b \in ToSet(chosen.audio) : out.audio[k].lang = m.audio[b].lang
    BY <1>2, <1>4, <1>5
<1>11. \A k \in DOMAIN out.audio : \E b \in ToSet(chosen.audio) :
         out.audio[k].commentary = m.audio[b].commentary
    <2> SUFFICES ASSUME NEW k \in DOMAIN out.audio
                 PROVE  \E b \in ToSet(chosen.audio) : out.audio[k].commentary = m.audio[b].commentary
        OBVIOUS
    <2>1. PICK n \in DOMAIN o.audio : out.audio[k].commentary = o.audio[n].commentary
        BY <1>9
    <2> QED BY <1>3, <1>5, <1>6, <2>1
<1> QED BY <1>1, <1>2, <1>10, <1>11

(* The tracks of an output are the ones a plan of the output may choose from. *)
LEMMA OutSelectable ==
    ASSUME NEW m \in MediaFile, NEW p \in Policy, NEW bits, NEW known,
           Obeyed(m, PlanFor(m, p), bits, known) \in MediaFile,
           NEW out \in MediaFile,
           \/ out = Obeyed(m, PlanFor(m, p), bits, known)
           \/ out \in Damaged(Obeyed(m, PlanFor(m, p), bits, known)),
           Verified(m, PlanFor(m, p), out), ~AudioMissing(m, p)
    PROVE  Selectable(out, p) = DOMAIN out.audio
<1>1. ASSUME NEW b \in ToSet(SelectAudio(m, p))
      PROVE  b \in Selectable(m, p)
    <2>1. SelectAudio(m, p) \in Seq(Selectable(m, p))
        BY AudioCount
    <2> QED BY <2>1, LenProperties DEF ToSet
<1>2. ASSUME NEW k \in DOMAIN out.audio
      PROVE  k \in Selectable(out, p)
    <2>1. PICK b \in ToSet(SelectAudio(m, p)) : out.audio[k].lang = m.audio[b].lang
        BY OutAudio
    <2>2. PICK c \in ToSet(SelectAudio(m, p)) : out.audio[k].commentary = m.audio[c].commentary
        BY OutAudio
    <2>3. p.onlyPreferred => b \in Preferred(m, p)
        BY <1>1 DEF Selectable
    <2>4. p.onlyPreferred => k \in Preferred(out, p)
        BY <2>1, <2>3 DEF Preferred
    <2>5. p.commentary \/ ~m.audio[c].commentary
        BY <1>1 DEF Selectable
    <2> QED BY <2>2, <2>4, <2>5 DEF Selectable
<1> QED BY <1>2, SelectableTracks

(* Among natural numbers: what is left of l, filled up to most with o more,   *)
(* reaches what b, filled up to most, came to.                                *)
LEMMA FillsUp ==
    ASSUME NEW p \in Policy, NEW b \in Nat, NEW others \in Nat, NEW a \in Nat, NEW rest \in Nat,
           a >= b, NEW l \in Nat, l = b + Least(Room(p, b), others), rest >= l - a
    PROVE  a + Least(Room(p, a), rest) >= l
<1> DEFINE most == p.maxTracks
<1>0. most \in Nat
    BY DEF Policy
<1>1. CASE p.onlyPreferred
    BY <1>1 DEF Room, Least
<1>2. CASE ~p.onlyPreferred
    <2>1. /\ Room(p, b) = IF b >= most THEN 0 ELSE most - b
          /\ Room(p, a) = IF a >= most THEN 0 ELSE most - a
        BY <1>2 DEF Room
    <2> HIDE DEF most
    <2> QED BY <1>0, <2>1 DEF Least
<1> QED BY <1>1, <1>2

(* The next plan of an output keeps all of its tracks.                        *)
LEMMA AudioStays ==
    ASSUME NEW m \in MediaFile, NEW p \in Policy, NEW bits, NEW known,
           Obeyed(m, PlanFor(m, p), bits, known) \in MediaFile,
           NEW out \in MediaFile,
           \/ out = Obeyed(m, PlanFor(m, p), bits, known)
           \/ out \in Damaged(Obeyed(m, PlanFor(m, p), bits, known)),
           Verified(m, PlanFor(m, p), out), ~AudioMissing(m, p), ~AudioMissing(out, p)
    PROVE  ~(Len(SelectAudio(out, p)) < Len(out.audio))
<1> DEFINE first == BestAudio(m, p)
           best == BestAudio(out, p)
           others == Selectable(m, p) \ ToSet(first)
           rest == Selectable(out, p) \ ToSet(best)
<1>1. /\ Len(SelectAudio(m, p)) = Len(first) + Least(Room(p, Len(first)), Cardinality(others))
      /\ Cardinality(others) \in Nat /\ Len(first) \in Nat
    BY AudioCount, BestTracks
<1>2. /\ Len(SelectAudio(out, p)) = Len(best) + Least(Room(p, Len(best)), Cardinality(rest))
      /\ Cardinality(rest) \in Nat /\ Len(best) \in Nat /\ best \in Seq(Selectable(out, p))
    BY AudioCount, BestTracks
<1>3. Len(out.audio) = Len(SelectAudio(m, p)) /\ Len(out.audio) \in Nat
    BY OutAudio, Streams
<1>4. Selectable(out, p) = DOMAIN out.audio
    BY OutSelectable
<1>5. Len(first) <= Len(best)
    <2>1. ASSUME NEW i \in Selectable(m, p) \cap Preferred(m, p)
          PROVE  \E k \in Selectable(out, p) : out.audio[k].lang = m.audio[i].lang
        BY <1>4, BestSurvives
    <2> QED BY <2>1, BestTracks
<1>6. Cardinality(rest) >= Len(out.audio) - Len(best)
    <2> DEFINE all == DOMAIN out.audio
               there == ToSet(best)
    <2>1. IsFiniteSet(all) /\ Cardinality(all) = Len(out.audio)
        <3>1. \A k \in Nat : IsFiniteSet(1..k) /\ Cardinality(1..k) = k
            BY FS_Interval
        <3> QED BY <3>1, Streams
    <2>2. IsFiniteSet(there) /\ Cardinality(there) \in Nat /\ Cardinality(there) <= Len(best)
        BY <1>2, ListedNoMore
    <2>3. there \subseteq all
        BY <1>2, <1>4, LenProperties DEF ToSet
    <2>4. rest = all \ there /\ all = rest \cup there /\ rest \cap there = {}
        BY <1>4, <2>3
    <2> HIDE DEF all, there, rest, best
    <2>5. IsFiniteSet(rest)
        BY <2>1, <2>4, FS_Subset
    <2>6. Cardinality(rest \cup there) = Cardinality(rest) + Cardinality(there) - Cardinality({})
        BY <2>2, <2>4, <2>5, FS_Union
    <2>7. Cardinality(all) = Cardinality(rest) + Cardinality(there)
        <3>1. Cardinality(rest) \in Nat
            BY <2>5, FS_CardinalityType
        <3>2. Cardinality({}) = 0
            BY FS_EmptySet
        <3>3. Cardinality(all) = Cardinality(rest) + Cardinality(there) - Cardinality({})
            <4>1. all = rest \cup there
                BY <2>4
            <4> QED BY <2>6, <4>1, Zenon
        <3> QED BY <2>2, <3>1, <3>2, <3>3
    <2>8. Len(best) \in Nat /\ Len(out.audio) \in Nat /\ Cardinality(rest) \in Nat
        BY <1>2, <1>3
    <2> QED BY <2>1, <2>2, <2>7, <2>8
<1> HIDE DEF first, best, others, rest
<1>7. Len(best) + Least(Room(p, Len(best)), Cardinality(rest)) >= Len(out.audio)
    <2> DEFINE b == Len(first)
               a == Len(best)
               o == Cardinality(others)
               r == Cardinality(rest)
               l == Len(out.audio)
    <2>1. /\ b \in Nat /\ a \in Nat /\ o \in Nat /\ r \in Nat /\ l \in Nat
          /\ a >= b /\ l = b + Least(Room(p, b), o) /\ r >= l - a
        BY <1>1, <1>2, <1>3, <1>5, <1>6
    <2> HIDE DEF a, b, o, r, l
    <2>2. a + Least(Room(p, a), r) >= l
        BY <2>1, FillsUp
    <2> QED BY <2>2 DEF a, r, l
<1>8. Room(p, Len(best)) \in Nat
    BY <1>2 DEF Room, Policy
<1>9. Len(SelectAudio(out, p)) \in Nat
    BY <1>2, <1>8 DEF Least
<1> QED BY <1>2, <1>3, <1>7, <1>9

(* What ffmpeg may do to the rest of an output.                               *)
LEMMA DamagedRest ==
    ASSUME NEW out \in MediaFile, NEW seen \in Damaged(out)
    PROVE  /\ seen.container = out.container /\ seen.video \in {out.video, << >>}
           /\ \/ seen.subs \in {out.subs, << >>}
              \/ seen.subs = [n \in DOMAIN out.subs |-> [out.subs[n] EXCEPT !.flagged = FALSE]]
<1> DEFINE stereo == [n \in DOMAIN out.audio |-> [out.audio[n] EXCEPT !.channels = 2]]
           unflagged == [n \in DOMAIN out.subs |-> [out.subs[n] EXCEPT !.flagged = FALSE]]
           Rest(f, video, subs) == f.container = out.container /\ f.video = video /\ f.subs = subs
<1>1. \/ \E audio \in {Front(out.audio), Reverse(out.audio), stereo} : seen = [out EXCEPT !.audio = audio]
      \/ \E subs \in {unflagged, << >>} : seen = [out EXCEPT !.subs = subs]
      \/ seen = [out EXCEPT !.video = << >>]
      \/ out.extras # 0 /\ seen = [out EXCEPT !.extras = @ - 1]
    BY DEF Damaged
<1> HIDE DEF stereo, unflagged
<1>2. ASSUME NEW audio PROVE Rest([out EXCEPT !.audio = audio], out.video, out.subs)
    BY DEF MediaFile
<1>3. ASSUME NEW subs PROVE Rest([out EXCEPT !.subs = subs], out.video, subs)
    BY DEF MediaFile
<1>4. Rest([out EXCEPT !.video = << >>], << >>, out.subs)
    BY DEF MediaFile
<1>5. Rest([out EXCEPT !.extras = @ - 1], out.video, out.subs)
    BY DEF MediaFile
<1>6. CASE \E audio \in {Front(out.audio), Reverse(out.audio), stereo} : seen = [out EXCEPT !.audio = audio]
    BY <1>2, <1>6
<1>7. CASE \E subs \in {unflagged, << >>} : seen = [out EXCEPT !.subs = subs]
    BY <1>3, <1>7 DEF unflagged
<1>8. CASE seen = [out EXCEPT !.video = << >>]
    BY <1>4, <1>8
<1>9. CASE out.extras # 0 /\ seen = [out EXCEPT !.extras = @ - 1]
    BY <1>5, <1>9
<1> QED BY <1>1, <1>6, <1>7, <1>8, <1>9

\* Nothing about a subtitle that only its flags say, or that two marks say, of
\* the hearing impaired.
PlainSub(s) == s.hearing # "flag" /\ ~(s.flagged /\ IsHearing(s))
Plain(m) == \A i \in DOMAIN m.subs : PlainSub(m.subs[i])

\* Subtitle s is how the command line writes stream i of m.
Written(m, chosen, i, s) ==
    /\ s.lang = m.subs[i].lang /\ s.titled = m.subs[i].titled
    /\ s.flagged = (i \in chosen.forced)
    /\ s.hearing = IF m.subs[i].hearing = "flag" THEN "no" ELSE m.subs[i].hearing

(* A subtitle as the command line writes it.                                  *)
LEMMA WrittenOut ==
    ASSUME NEW m \in MediaFile, NEW chosen, NEW i \in DOMAIN m.subs
    PROVE  Written(m, chosen, i, SubtitleOut(m, chosen, i))
<1>1. m.subs[i] \in SubtitleStream
    BY Streams
<1> QED BY <1>1 DEF SubtitleOut, SubtitleStream, Written

(* The subtitles of an output are as the command line writes those the plan   *)
(* chose, unless a review is due because the forced ones have lost their flag.*)
LEMMA OutSubtitles ==
    ASSUME NEW m \in MediaFile, NEW p \in Policy, NEW bits, NEW known,
           Obeyed(m, PlanFor(m, p), bits, known) \in MediaFile,
           NEW out \in MediaFile,
           \/ out = Obeyed(m, PlanFor(m, p), bits, known)
           \/ out \in Damaged(Obeyed(m, PlanFor(m, p), bits, known)),
           Verified(m, PlanFor(m, p), out), AmbiguousForced(out, p) = {}
    PROVE  /\ Len(out.subs) = Len(SelectSubtitles(m, p))
           /\ DOMAIN out.subs = DOMAIN SelectSubtitles(m, p)
           /\ \A n \in DOMAIN out.subs : SelectSubtitles(m, p)[n] \in DOMAIN m.subs
           /\ \A n \in DOMAIN out.subs :
                 Written(m, PlanFor(m, p), SelectSubtitles(m, p)[n], out.subs[n])
<1> DEFINE chosen == PlanFor(m, p)
           o == Obeyed(m, chosen, bits, known)
<1>1. /\ Sound(m, p, chosen) /\ chosen.subs = SelectSubtitles(m, p)
      /\ chosen.forced = ForcedCandidates(m, p)
    BY PlanSound DEF PlanFor
<1>2. /\ Len(out.subs) = Len(chosen.subs)
      /\ \A n \in DOMAIN chosen.subs : IsForced(out.subs[n]) = IsForced(m.subs[chosen.subs[n]])
    BY DEF Verified, SubtitlesMatch
<1> HIDE DEF chosen
<1>3. /\ o.subs \in Seq(SubtitleStream) /\ Len(o.subs) = Len(chosen.subs)
      /\ Len(chosen.subs) \in Nat /\ DOMAIN chosen.subs = 1..Len(chosen.subs)
      /\ DOMAIN o.subs = 1..Len(chosen.subs)
      /\ \A n \in DOMAIN chosen.subs : o.subs[n] = SubtitleOut(m, chosen, chosen.subs[n])
    BY <1>1, ObeyedStreams
<1>4. DOMAIN out.subs = DOMAIN chosen.subs
    BY <1>2, <1>3, Streams
<1>5. \A n \in DOMAIN chosen.subs : chosen.subs[n] \in DOMAIN m.subs
    BY <1>1, PlannedStreams
<1>6. \A n \in DOMAIN chosen.subs : Written(m, chosen, chosen.subs[n], o.subs[n])
    <2> SUFFICES ASSUME NEW n \in DOMAIN chosen.subs
                 PROVE  Written(m, chosen, chosen.subs[n], o.subs[n])
        OBVIOUS
    <2> HIDE DEF o
    <2>1. o.subs[n] = SubtitleOut(m, chosen, chosen.subs[n])
        BY <1>3
    <2>2. Written(m, chosen, chosen.subs[n], SubtitleOut(m, chosen, chosen.subs[n]))
        BY <1>5, WrittenOut
    <2> QED BY <2>1, <2>2
<1>7. o \in MediaFile /\ (out = o \/ out \in Damaged(o))
    BY DEF chosen
<1> HIDE DEF o
<1>8. \A n \in DOMAIN out.subs : Written(m, chosen, chosen.subs[n], out.subs[n])
    <2>1. CASE out.subs = o.subs
        BY <1>4, <1>6, <2>1
    <2>2. CASE out.subs = << >>
        BY <2>2
    <2>3. CASE out.subs = [n \in DOMAIN o.subs |-> [o.subs[n] EXCEPT !.flagged = FALSE]]
        <3> SUFFICES ASSUME NEW n \in DOMAIN out.subs
                     PROVE  Written(m, chosen, chosen.subs[n], out.subs[n])
            OBVIOUS
        <3>1. n \in DOMAIN o.subs /\ n \in DOMAIN chosen.subs
            BY <1>3, <1>4
        <3>2. out.subs[n] = [o.subs[n] EXCEPT !.flagged = FALSE] /\ o.subs[n] \in SubtitleStream
            BY <1>3, <2>3, <3>1, ElementOfSeq
        <3>3. /\ out.subs[n].lang = o.subs[n].lang /\ out.subs[n].titled = o.subs[n].titled
              /\ out.subs[n].flagged = FALSE /\ out.subs[n].hearing = o.subs[n].hearing
            BY <3>2 DEF SubtitleStream
        <3>4. chosen.subs[n] \notin chosen.forced
            <4> SUFFICES ASSUME chosen.subs[n] \in chosen.forced PROVE FALSE
                OBVIOUS
            <4>1. /\ p.keepForced /\ m.subs[chosen.subs[n]].flagged
                  /\ Rank(p.forcedLangs, m.subs[chosen.subs[n]].lang) > 0
                BY <1>1 DEF ForcedCandidates
            <4>2. IsForced(out.subs[n])
                BY <1>2, <3>1, <4>1 DEF IsForced
            <4>3. out.subs[n].titled /\ ~out.subs[n].flagged
                BY <3>3, <4>2 DEF IsForced
            <4>4. out.subs[n].lang = m.subs[chosen.subs[n]].lang
                BY <1>6, <3>1, <3>3 DEF Written
            <4>5. n \in AmbiguousForced(out, p)
                BY <4>1, <4>3, <4>4 DEF AmbiguousForced
            <4> QED BY <4>5
        <3>5. Written(m, chosen, chosen.subs[n], o.subs[n])
            BY <1>6, <3>1
        <3> DEFINE s == out.subs[n]
                   u == o.subs[n]
                   i == chosen.subs[n]
        <3>6. /\ s.lang = u.lang /\ s.titled = u.titled /\ s.flagged = FALSE /\ s.hearing = u.hearing
              /\ (i \in chosen.forced) = FALSE /\ Written(m, chosen, i, u)
            BY <3>3, <3>4, <3>5
        <3> HIDE DEF s, u, i
        <3>7. Written(m, chosen, i, s)
            BY <3>6, Zenon DEF Written
        <3> QED BY <3>7 DEF s, i
    <2>4. out.subs \in {o.subs, << >>} \/ out.subs = [n \in DOMAIN o.subs |-> [o.subs[n] EXCEPT !.flagged = FALSE]]
        BY <1>7, DamagedRest
    <2> QED BY <2>1, <2>2, <2>3, <2>4
<1> QED BY <1>1, <1>2, <1>4, <1>5, <1>8 DEF chosen

(* And none of them is told from another by a flag alone.                     *)
LEMMA StaysPlain ==
    ASSUME NEW m \in MediaFile, NEW p \in Policy, NEW bits, NEW known,
           Obeyed(m, PlanFor(m, p), bits, known) \in MediaFile,
           NEW out \in MediaFile,
           \/ out = Obeyed(m, PlanFor(m, p), bits, known)
           \/ out \in Damaged(Obeyed(m, PlanFor(m, p), bits, known)),
           Plain(m)
    PROVE  Plain(out)
<1> DEFINE chosen == PlanFor(m, p)
           o == Obeyed(m, chosen, bits, known)
<1>1. Sound(m, p, chosen) /\ chosen.forced = ForcedCandidates(m, p)
    BY PlanSound DEF PlanFor
<1> HIDE DEF chosen
<1>2. /\ DOMAIN o.subs = DOMAIN chosen.subs /\ o.subs \in Seq(SubtitleStream)
      /\ \A n \in DOMAIN chosen.subs : o.subs[n] = SubtitleOut(m, chosen, chosen.subs[n])
    BY <1>1, ObeyedStreams
<1>3. \A n \in DOMAIN chosen.subs : chosen.subs[n] \in DOMAIN m.subs
    BY <1>1, PlannedStreams
<1>4. ASSUME NEW n \in DOMAIN o.subs PROVE PlainSub(o.subs[n]) /\ o.subs[n] \in SubtitleStream
    <2> DEFINE i == chosen.subs[n]
               s == o.subs[n]
    <2>1. i \in DOMAIN m.subs /\ s = SubtitleOut(m, chosen, i)
        BY <1>2, <1>3
    <2>2. s \in SubtitleStream
        BY <1>2, ElementOfSeq
    <2> HIDE DEF i, s
    <2>3. Written(m, chosen, i, s)
        BY <2>1, WrittenOut
    <2>4. PlainSub(m.subs[i])
        BY <2>1 DEF Plain
    <2>5. i \in chosen.forced => m.subs[i].flagged
        BY <1>1 DEF ForcedCandidates
    <2>6. PlainSub(s)
        BY <2>3, <2>4, <2>5 DEF Written, PlainSub, IsHearing
    <2> QED BY <2>2, <2>6 DEF s
<1>5. o \in MediaFile /\ (out = o \/ out \in Damaged(o))
    BY DEF chosen
<1> HIDE DEF o
<1>6. CASE out.subs = o.subs
    BY <1>4, <1>6 DEF Plain
<1>7. CASE out.subs = << >>
    BY <1>7 DEF Plain
<1>8. CASE out.subs = [n \in DOMAIN o.subs |-> [o.subs[n] EXCEPT !.flagged = FALSE]]
    <2>1. ASSUME NEW n \in DOMAIN out.subs PROVE PlainSub(out.subs[n])
        <3>1. n \in DOMAIN o.subs /\ out.subs[n] = [o.subs[n] EXCEPT !.flagged = FALSE]
            BY <1>8
        <3>2. ~out.subs[n].flagged /\ out.subs[n].hearing = o.subs[n].hearing
            BY <1>4, <3>1 DEF SubtitleStream
        <3> QED BY <1>4, <3>1, <3>2 DEF PlainSub
    <2> QED BY <2>1 DEF Plain
<1> QED BY <1>5, <1>6, <1>7, <1>8, DamagedRest

MainOf(m) == [l \in Languages |-> MainCandidates(m, l)]
HearingOf(m) == [l \in Languages |-> HearingCandidates(m, l)]

(* The full subtitles: what they are, and which languages have one.           *)
LEMMA FullChosen ==
    ASSUME NEW m \in MediaFile, NEW p \in Policy, NEW of, of \in {MainOf(m), HearingOf(m)}
    PROVE  LET list == BestPerLanguage(p.subLangs, of, SubtitleScores(m, << >>))
           IN /\ list \in Seq(DOMAIN m.subs)
              /\ \A i \in ToSet(list) : \E l \in Languages : i \in of[l]
              /\ \A l \in ToSet(p.subLangs) : of[l] # {} => \E i \in ToSet(list) : i \in of[l]
<1> DEFINE D == DOMAIN m.subs
           score == SubtitleScores(m, << >>)
           list == BestPerLanguage(p.subLangs, of, score)
<1>1. IsFiniteSet(D) /\ p.subLangs \in Seq(Languages) /\ 4 \in Nat \ {0}
    BY Streams DEF Policy
<1>2. \A S \in SUBSET D : Scores(S, 4, score)
    BY SubtitlesScored, EmptySeq
<1>3. of \in [Languages -> SUBSET D]
    BY DEF MainOf, HearingOf, MainCandidates, HearingCandidates
<1> HIDE DEF D, score
<1>4. /\ list \in Seq(D)
      /\ \A n \in DOMAIN list : \E l \in Languages : list[n] \in of[l]
      /\ \A l \in ToSet(p.subLangs) : of[l] # {} => Best(of[l], score) \in ToSet(list)
    BY <1>1, <1>2, <1>3, BestOfEach
<1>5. ASSUME NEW l \in ToSet(p.subLangs), of[l] # {} PROVE Best(of[l], score) \in of[l]
    <2>1. l \in Languages
        BY <1>1, LenProperties DEF ToSet
    <2> DEFINE S == of[l]
    <2>2. S \subseteq D /\ S # {}
        BY <1>3, <1>5, <2>1
    <2> HIDE DEF S
    <2>3. IsFiniteSet(S) /\ Scores(S, 4, score)
        BY <1>1, <1>2, <2>2, FS_Subset
    <2>4. Best(S, score) \in S
        BY <1>1, <2>2, <2>3, BestIsBest
    <2> QED BY <2>4 DEF S
<1> HIDE DEF list
<1>6. \A i \in ToSet(list) : \E l \in Languages : i \in of[l]
    BY <1>4 DEF ToSet
<1> QED BY <1>4, <1>5, <1>6 DEF list, D, score

(* Without such marks no subtitle is chosen twice: the forced ones, the full  *)
(* ones and those for the hearing impaired are all kept.                      *)
LEMMA SubtitleCount ==
    ASSUME NEW m \in MediaFile, NEW p \in Policy, Plain(m), p.dropOther
    PROVE  /\ IsFiniteSet(ForcedCandidates(m, p)) /\ Cardinality(ForcedCandidates(m, p)) \in Nat
           /\ Len(MainSubtitles(m, p)) \in Nat /\ Len(HearingSubtitles(m, p)) \in Nat
           /\ Len(SelectSubtitles(m, p)) = Cardinality(ForcedCandidates(m, p))
                + Len(MainSubtitles(m, p)) + Len(HearingSubtitles(m, p))
           /\ ToSet(SelectSubtitles(m, p)) = ForcedCandidates(m, p)
                \cup ToSet(MainSubtitles(m, p)) \cup ToSet(HearingSubtitles(m, p))
<1> DEFINE D == DOMAIN m.subs
           F == ForcedCandidates(m, p)
           main == MainSubtitles(m, p)
           heard == HearingSubtitles(m, p)
           forced == ByScore(F, SubtitleScores(m, p.forcedLangs))
           rest == Filtered(main, D \ ToSet(forced))
           full == forced \o rest
           last == Filtered(heard, D \ ToSet(full))
<1>1. SelectSubtitles(m, p) = full \o last
    BY DEF SelectSubtitles
<1>2. F \subseteq D /\ IsFiniteSet(D) /\ IsFiniteSet(F)
    <2>1. F \subseteq D /\ IsFiniteSet(D)
        BY Streams DEF ForcedCandidates
    <2> QED BY <2>1, FS_Subset
<1>3. Cardinality(F) \in Nat
    BY <1>2, FS_CardinalityType
<1>4. forced \in Seq(D) /\ ToSet(forced) = F /\ Len(forced) = Cardinality(F)
    <2> DEFINE score == SubtitleScores(m, p.forcedLangs)
               before == [i \in F |-> {k \in F : Above(score[k], score[i])}]
    <2>1. Scores(F, 4, score) /\ 4 \in Nat \ {0}
        BY <1>2, SubtitlesScored DEF Policy
    <2>2. forced = Arranged(F, before)
        BY DEF ByScore
    <2>3. Orders(F, before)
        <3> HIDE DEF F, score
        <3> QED BY <2>1, ScoresOrder
    <2> HIDE DEF forced, F, score, before, D
    <2>4. forced \in Seq(F) /\ Len(forced) = Cardinality(F) /\ ToSet(forced) = F
        BY <1>2, <2>2, <2>3, ArrangedAll
    <2>5. forced \in Seq(D)
        BY <1>2, <2>4, SeqDef
    <2> QED BY <2>4, <2>5
<1> HIDE DEF forced
<1>5. /\ main \in Seq(D) /\ heard \in Seq(D)
      /\ \A i \in ToSet(main) : i \in D /\ ~IsForced(m.subs[i]) /\ ~IsHearing(m.subs[i])
      /\ \A i \in ToSet(heard) : i \in D /\ IsHearing(m.subs[i])
    <2> DEFINE of(x) == BestPerLanguage(p.subLangs, x, SubtitleScores(m, << >>))
    <2>1. /\ main = IF ~p.keepFull THEN << >> ELSE of(MainOf(m))
          /\ heard = IF ~p.keepHearing THEN << >> ELSE of(HearingOf(m))
        BY DEF MainSubtitles, HearingSubtitles, MainOf, HearingOf
    <2>2. \A l \in Languages : \A i \in MainOf(m)[l] :
            i \in D /\ ~IsForced(m.subs[i]) /\ ~IsHearing(m.subs[i])
        BY DEF MainOf, MainCandidates
    <2>3. \A l \in Languages : \A i \in HearingOf(m)[l] : i \in D /\ IsHearing(m.subs[i])
        BY DEF HearingOf, HearingCandidates
    <2>4. /\ of(MainOf(m)) \in Seq(D) /\ of(HearingOf(m)) \in Seq(D)
          /\ \A i \in ToSet(of(MainOf(m))) : \E l \in Languages : i \in MainOf(m)[l]
          /\ \A i \in ToSet(of(HearingOf(m))) : \E l \in Languages : i \in HearingOf(m)[l]
        BY FullChosen
    <2>5. << >> \in Seq(D) /\ ToSet(<< >>) = {}
        BY EmptySeq DEF ToSet
    <2> HIDE DEF of, main, heard, D
    <2> QED BY <2>1, <2>2, <2>3, <2>4, <2>5
<1>6. \A i \in F : i \in D /\ IsForced(m.subs[i]) /\ ~IsHearing(m.subs[i])
    BY DEF ForcedCandidates, IsForced, Plain, PlainSub
<1> HIDE DEF main, heard, F
<1>7. /\ rest \in Seq(D) /\ ToSet(rest) = ToSet(main) /\ Len(rest) = Len(main)
    <2>1. ToSet(main) \subseteq D \ ToSet(forced)
        BY <1>4, <1>5, <1>6
    <2> DEFINE S == D \ ToSet(forced)
    <2> HIDE DEF S, D
    <2>2. rest \in Seq(D \cap S) /\ ToSet(rest) = ToSet(main) \cap S
        BY <1>5, FilteredKeeps DEF S
    <2>3. Len(rest) = Len(main)
        BY <1>5, <2>1, FilteredAll DEF S
    <2>4. rest \in Seq(D)
        BY <2>2, SeqDef
    <2> QED BY <2>1, <2>2, <2>3, <2>4 DEF S
<1> HIDE DEF rest, D
<1>8. /\ full \in Seq(D) /\ ToSet(full) = F \cup ToSet(main)
      /\ Len(full) = Cardinality(F) + Len(main) /\ Len(main) \in Nat
    BY <1>4, <1>7, Joined
<1> HIDE DEF full
<1>9. /\ last \in Seq(D) /\ ToSet(last) = ToSet(heard) /\ Len(last) = Len(heard)
    <2>1. ToSet(heard) \subseteq D \ ToSet(full)
        BY <1>5, <1>6, <1>8
    <2> DEFINE S == D \ ToSet(full)
    <2> HIDE DEF S
    <2>2. last \in Seq(D \cap S) /\ ToSet(last) = ToSet(heard) \cap S
        BY <1>5, FilteredKeeps DEF S
    <2>3. Len(last) = Len(heard)
        BY <1>5, <2>1, FilteredAll DEF S
    <2>4. last \in Seq(D)
        BY <2>2, SeqDef
    <2> QED BY <2>1, <2>2, <2>3, <2>4 DEF S
<1> HIDE DEF last
<1>10. /\ ToSet(full \o last) = F \cup ToSet(main) \cup ToSet(heard) /\ Len(heard) \in Nat
       /\ Len(full \o last) = Cardinality(F) + Len(main) + Len(heard)
    <2>1. /\ ToSet(full \o last) = ToSet(full) \cup ToSet(last)
          /\ Len(full \o last) = Len(full) + Len(last) /\ Len(last) \in Nat
        BY <1>8, <1>9, Joined
    <2> QED BY <1>3, <1>8, <1>9, <2>1
<1> QED BY <1>1, <1>2, <1>3, <1>8, <1>10 DEF F, main, heard

(* A file with full subtitles of all the languages another has them of gets   *)
(* no fewer chosen.                                                           *)
LEMMA FullGrow ==
    ASSUME NEW m \in MediaFile, NEW out \in MediaFile, NEW p \in Policy
    PROVE  /\ (\A l \in ToSet(p.subLangs) : MainOf(m)[l] # {} => MainOf(out)[l] # {})
              => Len(BestPerLanguage(p.subLangs, MainOf(m), SubtitleScores(m, << >>)))
                    <= Len(BestPerLanguage(p.subLangs, MainOf(out), SubtitleScores(out, << >>)))
           /\ (\A l \in ToSet(p.subLangs) : HearingOf(m)[l] # {} => HearingOf(out)[l] # {})
              => Len(BestPerLanguage(p.subLangs, HearingOf(m), SubtitleScores(m, << >>)))
                    <= Len(BestPerLanguage(p.subLangs, HearingOf(out), SubtitleScores(out, << >>)))
<1> DEFINE score(f) == SubtitleScores(f, << >>)
           D(f) == DOMAIN f.subs
<1>1. p.subLangs \in Seq(Languages) /\ 4 \in Nat \ {0}
    BY DEF Policy
<1>2. ASSUME NEW f \in MediaFile
      PROVE  /\ IsFiniteSet(D(f)) /\ Scores(D(f), 4, score(f))
             /\ MainOf(f) \in [Languages -> SUBSET D(f)] /\ HearingOf(f) \in [Languages -> SUBSET D(f)]
    <2>1. IsFiniteSet(D(f))
        BY Streams
    <2>2. Scores(D(f), 4, score(f))
        BY SubtitlesScored, EmptySeq
    <2>3. MainOf(f) \in [Languages -> SUBSET D(f)] /\ HearingOf(f) \in [Languages -> SUBSET D(f)]
        BY DEF MainOf, HearingOf, MainCandidates, HearingCandidates
    <2> QED BY <2>1, <2>2, <2>3
<1> HIDE DEF score, D
<1>3. ASSUME \A l \in ToSet(p.subLangs) : MainOf(m)[l] # {} => MainOf(out)[l] # {}
      PROVE  Len(BestPerLanguage(p.subLangs, MainOf(m), score(m)))
                <= Len(BestPerLanguage(p.subLangs, MainOf(out), score(out)))
    BY <1>1, <1>2, <1>3, BestGrows
<1>4. ASSUME \A l \in ToSet(p.subLangs) : HearingOf(m)[l] # {} => HearingOf(out)[l] # {}
      PROVE  Len(BestPerLanguage(p.subLangs, HearingOf(m), score(m)))
                <= Len(BestPerLanguage(p.subLangs, HearingOf(out), score(out)))
    BY <1>1, <1>2, <1>4, BestGrows
<1> QED BY <1>3, <1>4 DEF score

\* What an output and the file it was made of have to do with each other.
Kept(m, p, out) ==
    LET list == SelectSubtitles(m, p)
    IN /\ Len(out.subs) = Len(list) /\ DOMAIN out.subs = DOMAIN list
       /\ \A n \in DOMAIN out.subs : /\ list[n] \in DOMAIN m.subs
                                     /\ Written(m, PlanFor(m, p), list[n], out.subs[n])

(* Every stream the plan chose is in the output, as it was written.           *)
LEMMA KeptIn ==
    ASSUME NEW m, NEW p, NEW out, Kept(m, p, out), NEW i \in ToSet(SelectSubtitles(m, p))
    PROVE  \E n \in DOMAIN out.subs : SelectSubtitles(m, p)[n] = i
                                      /\ Written(m, PlanFor(m, p), i, out.subs[n])
BY DEF Kept, ToSet

(* The full subtitles of an output are still full ones.                       *)
LEMMA FullStay ==
    ASSUME NEW m \in MediaFile, NEW p \in Policy, NEW out \in MediaFile, Kept(m, p, out),
           Plain(m), p.dropOther
    PROVE  /\ Len(MainSubtitles(m, p)) <= Len(MainSubtitles(out, p))
           /\ Len(HearingSubtitles(m, p)) <= Len(HearingSubtitles(out, p))
<1> DEFINE list(f, of) == BestPerLanguage(p.subLangs, of, SubtitleScores(f, << >>))
           Full(f) == IF ~p.keepFull THEN << >> ELSE list(f, MainOf(f))
           Heard(f) == IF ~p.keepHearing THEN << >> ELSE list(f, HearingOf(f))
<1>1. ASSUME NEW f PROVE MainSubtitles(f, p) = Full(f) /\ HearingSubtitles(f, p) = Heard(f)
    BY DEF MainSubtitles, HearingSubtitles, MainOf, HearingOf
<1>2. /\ ToSet(MainSubtitles(m, p)) \subseteq ToSet(SelectSubtitles(m, p))
      /\ ToSet(HearingSubtitles(m, p)) \subseteq ToSet(SelectSubtitles(m, p))
    BY SubtitleCount
<1>3. PlanFor(m, p).forced = ForcedCandidates(m, p)
    BY DEF PlanFor
<1>4. Len(<< >>) \in Nat /\ Len(<< >>) <= Len(<< >>)
    OBVIOUS
<1>5. ASSUME NEW l \in ToSet(p.subLangs) PROVE l \in Languages
    <2>1. p.subLangs \in Seq(Languages)
        BY DEF Policy
    <2> QED BY <2>1, LenProperties DEF ToSet
<1>6. ASSUME p.keepFull PROVE Len(MainSubtitles(m, p)) <= Len(MainSubtitles(out, p))
    <2>1. ASSUME NEW l \in ToSet(p.subLangs), MainOf(m)[l] # {} PROVE MainOf(out)[l] # {}
        <3>1. PICK i \in ToSet(list(m, MainOf(m))) : i \in MainOf(m)[l]
            BY <2>1, FullChosen
        <3>2. i \in ToSet(SelectSubtitles(m, p))
            BY <1>1, <1>2, <1>6, <3>1
        <3>3. PICK n \in DOMAIN out.subs : Written(m, PlanFor(m, p), i, out.subs[n])
            BY <3>2, KeptIn
        <3>4. m.subs[i].lang = l /\ ~IsForced(m.subs[i]) /\ ~IsHearing(m.subs[i])
            BY <1>5, <3>1 DEF MainOf, MainCandidates
        <3>5. i \notin ForcedCandidates(m, p)
            BY <3>4 DEF ForcedCandidates, IsForced
        <3>6. out.subs[n].lang = l /\ ~IsForced(out.subs[n]) /\ ~IsHearing(out.subs[n])
            BY <1>3, <3>3, <3>4, <3>5 DEF Written, IsForced, IsHearing
        <3> QED BY <1>5, <3>6 DEF MainOf, MainCandidates
    <2>2. Len(list(m, MainOf(m))) <= Len(list(out, MainOf(out)))
        BY <2>1, FullGrow
    <2> QED BY <1>1, <1>6, <2>2
<1>7. ASSUME p.keepHearing PROVE Len(HearingSubtitles(m, p)) <= Len(HearingSubtitles(out, p))
    <2>1. ASSUME NEW l \in ToSet(p.subLangs), HearingOf(m)[l] # {} PROVE HearingOf(out)[l] # {}
        <3>1. PICK i \in ToSet(list(m, HearingOf(m))) : i \in HearingOf(m)[l]
            BY <2>1, FullChosen
        <3>2. i \in ToSet(SelectSubtitles(m, p))
            BY <1>1, <1>2, <1>7, <3>1
        <3>3. PICK n \in DOMAIN out.subs : Written(m, PlanFor(m, p), i, out.subs[n])
            BY <3>2, KeptIn
        <3>4. i \in DOMAIN m.subs /\ m.subs[i].lang = l /\ IsHearing(m.subs[i])
            BY <1>5, <3>1 DEF HearingOf, HearingCandidates
        <3>5. m.subs[i].hearing # "flag"
            BY <3>4 DEF Plain, PlainSub
        <3>6. out.subs[n].lang = l /\ IsHearing(out.subs[n])
            BY <3>3, <3>4, <3>5 DEF Written, IsHearing
        <3> QED BY <1>5, <3>6 DEF HearingOf, HearingCandidates
    <2>2. Len(list(m, HearingOf(m))) <= Len(list(out, HearingOf(out)))
        BY <2>1, FullGrow
    <2> QED BY <1>1, <1>7, <2>2
<1>8. ~p.keepFull => Len(MainSubtitles(m, p)) <= Len(MainSubtitles(out, p))
    BY <1>1, <1>4
<1>9. ~p.keepHearing => Len(HearingSubtitles(m, p)) <= Len(HearingSubtitles(out, p))
    BY <1>1, <1>4
<1> QED BY <1>6, <1>7, <1>8, <1>9

(* The forced subtitles of an output are still forced ones.                   *)
LEMMA ForcedStay ==
    ASSUME NEW m \in MediaFile, NEW p \in Policy, NEW out \in MediaFile, Kept(m, p, out)
    PROVE  /\ IsFiniteSet(ForcedCandidates(out, p)) /\ IsFiniteSet(ForcedCandidates(m, p))
           /\ Cardinality(ForcedCandidates(m, p)) <= Cardinality(ForcedCandidates(out, p))
<1> DEFINE F == ForcedCandidates(m, p)
           G == ForcedCandidates(out, p)
           list == SelectSubtitles(m, p)
           place == [i \in F |-> CHOOSE n \in DOMAIN out.subs :
                                     list[n] = i /\ Written(m, PlanFor(m, p), i, out.subs[n])]
<1>1. IsFiniteSet(G)
    <2>1. G \subseteq DOMAIN out.subs /\ IsFiniteSet(DOMAIN out.subs)
        BY Streams DEF ForcedCandidates
    <2> QED BY <2>1, FS_Subset
<1>2. F \subseteq ToSet(list)
    BY SubtitlesChosen
<1>3. PlanFor(m, p).forced = F
    BY DEF PlanFor
<1>4. ASSUME NEW i \in F
      PROVE  /\ place[i] \in DOMAIN out.subs /\ list[place[i]] = i
             /\ Written(m, PlanFor(m, p), i, out.subs[place[i]])
    <2>1. \E n \in DOMAIN out.subs : list[n] = i /\ Written(m, PlanFor(m, p), i, out.subs[n])
        BY <1>2, KeptIn
    <2> HIDE DEF list, F
    <2> QED BY <2>1
<1> HIDE DEF place, list
<1>5. ASSUME NEW i \in F PROVE place[i] \in G
    <2>1. p.keepForced /\ m.subs[i].flagged /\ Rank(p.forcedLangs, m.subs[i].lang) > 0
        BY DEF ForcedCandidates
    <2>2. out.subs[place[i]].lang = m.subs[i].lang /\ out.subs[place[i]].flagged
        BY <1>3, <1>4 DEF Written
    <2> QED BY <1>4, <2>1, <2>2 DEF ForcedCandidates
<1>6. DOMAIN place = F
    BY DEF place
<1> HIDE DEF F, G
<1>7. place \in Injection(F, G)
    <2>1. place \in [F -> G]
        BY <1>5, <1>6 DEF place
    <2>2. \A i, j \in F : place[i] = place[j] => i = j
        <3>1. ASSUME NEW i \in F, NEW j \in F, place[i] = place[j] PROVE i = j
            <4>1. list[place[i]] = i /\ list[place[j]] = j
                BY <1>4
            <4> QED BY <3>1, <4>1
        <3> QED BY <3>1
    <2> QED BY <2>1, <2>2 DEF Injection, IsInjective
<1>8. IsFiniteSet(F) /\ Cardinality(F) <= Cardinality(G)
    BY <1>1, <1>7, FS_Injection
<1> QED BY <1>1, <1>8 DEF F, G

(* The next plan of an output keeps all of its subtitles.                     *)
LEMMA SubtitlesStay ==
    ASSUME NEW m \in MediaFile, NEW p \in Policy, NEW out \in MediaFile, Kept(m, p, out),
           Plain(m), Plain(out)
    PROVE  ~(Len(SelectSubtitles(out, p)) < Len(out.subs))
<1>1. CASE ~p.dropOther
    <2> DEFINE all == [i \in DOMAIN out.subs |-> i]
    <2>1. SelectSubtitles(out, p) = all
        BY <1>1 DEF SelectSubtitles
    <2>2. DOMAIN out.subs = 1..Len(out.subs) /\ Len(out.subs) \in Nat
        BY Streams
    <2>3. DOMAIN all = 1..Len(out.subs)
        BY <2>2
    <2>4. SelectSubtitles(out, p) \in Seq(DOMAIN out.subs)
        BY SubtitlesChosen
    <2> HIDE DEF all
    <2>5. DOMAIN all = 1..Len(all) /\ Len(all) \in Nat
        BY <2>1, <2>4, LenProperties
    <2>6. Len(all) = Len(out.subs)
        BY <2>2, <2>3, <2>5, SameLength
    <2> QED BY <2>1, <2>2, <2>6
<1>2. CASE p.dropOther
    <2> DEFINE f == Cardinality(ForcedCandidates(m, p))
               a == Len(MainSubtitles(m, p))
               h == Len(HearingSubtitles(m, p))
               ff == Cardinality(ForcedCandidates(out, p))
               aa == Len(MainSubtitles(out, p))
               hh == Len(HearingSubtitles(out, p))
    <2>1. /\ f \in Nat /\ a \in Nat /\ h \in Nat
          /\ Len(SelectSubtitles(m, p)) = f + a + h
        BY <1>2, SubtitleCount
    <2>2. /\ ff \in Nat /\ aa \in Nat /\ hh \in Nat
          /\ Len(SelectSubtitles(out, p)) = ff + aa + hh
        BY <1>2, SubtitleCount
    <2>3. f <= ff /\ a <= aa /\ h <= hh
        BY <1>2, ForcedStay, FullStay
    <2>4. Len(out.subs) = Len(SelectSubtitles(m, p))
        BY DEF Kept
    <2> HIDE DEF f, a, h, ff, aa, hh
    <2> QED BY <2>1, <2>2, <2>3, <2>4
<1> QED BY <1>1, <1>2

(* A transcode is one because the picture needs it.                           *)
LEMMA TranscodeNeeds ==
    ASSUME NEW m \in MediaFile, NEW p \in Policy, PlanFor(m, p).action = "transcode"
    PROVE  PlanFor(m, p).encode
<1> DEFINE encode == Len(m.video) = 1 /\ NeedsTranscode(m.video[1], p)
           cleanup == Len(SelectAudio(m, p)) < Len(m.audio) \/ Len(SelectSubtitles(m, p)) < Len(m.subs)
<1>1. /\ PlanFor(m, p).encode = encode
      /\ PlanFor(m, p).action = Action(m, p, encode, cleanup, Warned(m, p))
    BY DEF PlanFor
<1>2. ASSUME NEW c \in BOOLEAN, NEW w \in BOOLEAN PROVE Action(m, p, FALSE, c, w) # "transcode"
    <2>1. Is4K(m) \in BOOLEAN /\ NeedsRemux(m, p) \in BOOLEAN
        BY DEF Is4K, NeedsRemux
    <2>2. CASE VideoNeedsReview(m, p) \/ AudioMissing(m, p) \/ AmbiguousForced(m, p) # {}
        <3>1. Action(m, p, FALSE, c, w) = "manual_review"
            BY <2>2 DEF Action
        <3> QED BY <3>1
    <2>3. CASE ~(VideoNeedsReview(m, p) \/ AudioMissing(m, p) \/ AmbiguousForced(m, p) # {})
        BY <2>1, <2>3 DEF Action
    <2> QED BY <2>2, <2>3
<1>3. encode \in BOOLEAN /\ cleanup \in BOOLEAN /\ Warned(m, p) \in BOOLEAN
    BY DEF Warned
<1> HIDE DEF encode, cleanup
<1> QED BY <1>1, <1>2, <1>3

\* The picture is none wider than the policy's limit, nor known to be above its
\* rate.
WithinLimits(m, p) ==
    \A v \in ToSet(m.video) :
        /\ v.width <= p.maxWidth \/ Is4KStream(v)
        /\ v.known = "reported" => v.bits <= p.maxRate

(* The picture of an output that passed the verifier is as wide as it was, is *)
(* of the size it was, and is not encoded again.                              *)
LEMMA PictureStays ==
    ASSUME NEW m \in MediaFile, NEW p \in Policy, NEW bits \in Rates, NEW known \in Known,
           PlanFor(m, p).action \in {"remux", "transcode"},
           NEW out \in MediaFile,
           \/ out = Obeyed(m, PlanFor(m, p), bits, known)
           \/ out \in Damaged(Obeyed(m, PlanFor(m, p), bits, known)),
           Verified(m, PlanFor(m, p), out)
    PROVE  /\ Len(out.video) = 1 /\ (Is4K(out) <=> Is4K(m))
           /\ out.container = p.container
           /\ WithinLimits(out, p) => ~NeedsTranscode(out.video[1], p)
<1> DEFINE chosen == PlanFor(m, p)
           o == Obeyed(m, chosen, bits, known)
           picture == PictureOut(m, chosen, bits, known)
<1>1. /\ Len(m.video) = 1 /\ m.video[1] \in VideoStream /\ DOMAIN m.video = 1..1
      /\ chosen.video = <<1>> /\ DOMAIN o.video = 1..1 /\ o.video[1] = picture
    BY ObeyedVideo
<1>2. Len(out.video) = 1 /\ out.container = p.container
    <2>1. Len(out.video) = Len(chosen.video) /\ out.container = chosen.container
        BY DEF Verified, HasExpectedShape
    <2>2. chosen.container = p.container
        BY DEF PlanFor
    <2>3. Len(chosen.video) = 1
        BY <1>1
    <2> QED BY <2>1, <2>2, <2>3
<1>3. out.video[1] = picture /\ DOMAIN out.video = 1..1
    <2>1. o \in MediaFile
        BY ObeyedFile
    <2>2. out.video \in {o.video, << >>}
        <3> HIDE DEF o
        <3>1. out = o \/ out \in Damaged(o)
            BY DEF o
        <3> QED BY <2>1, <3>1, DamagedRest
    <2>3. out.video # << >>
        <3>1. Len(<< >>) = 0
            OBVIOUS
        <3>2. Len(out.video) # 0
            BY <1>2
        <3> QED BY <3>1, <3>2, Zenon
    <2> HIDE DEF o, picture
    <2> QED BY <1>1, <2>2, <2>3
<1>4. /\ picture.width = m.video[1].width
      /\ chosen.action = "transcode" => picture.codec = chosen.codec
      /\ chosen.action = "remux" => picture = m.video[1]
    <2>1. chosen.action \in {"remux", "transcode"}
        OBVIOUS
    <2> HIDE DEF chosen
    <2> QED BY <1>1, <2>1 DEF VideoStream, PictureOut
<1>5. chosen.action = "remux" => ~NeedsTranscode(m.video[1], p)
    <2>1. chosen.action = "remux" => ~chosen.encode
        BY PlanSound DEF Sound
    <2>2. chosen.encode = (Len(m.video) = 1 /\ NeedsTranscode(m.video[1], p))
        BY DEF PlanFor
    <2> HIDE DEF chosen
    <2> QED BY <1>1, <2>1, <2>2
<1>6. chosen.action = "transcode" =>
        NeedsTranscode(m.video[1], p)
        /\ chosen.codec = IF Is4K(m) /\ ~p.transcode4K THEN m.video[1].codec
                          ELSE IF Is4K(m) THEN p.codec4K ELSE p.codec
    <2>1. chosen.action = "transcode" => chosen.encode
        BY TranscodeNeeds
    <2>2. chosen.encode = (Len(m.video) = 1 /\ NeedsTranscode(m.video[1], p))
        BY DEF PlanFor
    <2>3. chosen.codec = IF Is4K(m) /\ ~p.transcode4K THEN m.video[1].codec
                          ELSE IF Is4K(m) THEN p.codec4K ELSE p.codec
        BY <1>1 DEF PlanFor
    <2> HIDE DEF chosen
    <2> QED BY <1>1, <2>1, <2>2, <2>3
<1>7. Is4K(m) <=> Is4KStream(m.video[1])
    BY <1>1 DEF Is4K
<1>8. Is4K(out) <=> Is4KStream(picture)
    BY <1>3 DEF Is4K
<1>9. Is4KStream(picture) <=> Is4KStream(m.video[1])
    BY <1>4 DEF Is4KStream
<1>10. ASSUME WithinLimits(out, p), chosen.action = "transcode" PROVE ~NeedsTranscode(picture, p)
    <2>1. picture \in ToSet(out.video)
        BY <1>3 DEF ToSet
    <2>2. CASE Is4KStream(picture)
        <3>1. picture.codec = p.codec4K
            <4>1. Needs4KTranscode(m.video[1], p)
                BY <1>6, <1>9, <1>10, <2>2 DEF NeedsTranscode
            <4>2. p.transcode4K
                BY <4>1 DEF Needs4KTranscode
            <4> HIDE DEF picture, chosen
            <4> QED BY <1>4, <1>6, <1>7, <1>9, <1>10, <2>2, <4>2
        <3> HIDE DEF picture
        <3> QED BY <2>2, <3>1 DEF NeedsTranscode, Needs4KTranscode
    <2>3. CASE ~Is4KStream(picture)
        <3> HIDE DEF picture, chosen
        <3>1. picture.codec = p.codec
            BY <1>4, <1>6, <1>7, <1>9, <1>10, <2>3
        <3>2. picture.width <= p.maxWidth /\ (picture.known = "reported" => picture.bits <= p.maxRate)
            BY <1>10, <2>1, <2>3 DEF WithinLimits
        <3>3. ~(picture.width > p.maxWidth) /\ (picture.known = "reported" => ~(picture.bits > p.maxRate))
            <4>1. picture.width \in Int /\ picture.bits \in Int /\ p.maxWidth \in Int /\ p.maxRate \in Int
                <5>1. out.video \in Seq(VideoStream)
                    BY DEF MediaFile
                <5>2. picture \in VideoStream
                    BY <1>3, <5>1, LenProperties
                <5>3. picture.width \in Widths /\ picture.bits \in Rates
                    BY <5>2 DEF VideoStream
                <5>4. picture.width \in Nat /\ picture.bits \in Nat
                    BY <5>3, MediaAssumption
                <5>5. p.maxWidth \in Nat /\ p.maxRate \in Nat
                    BY DEF Policy
                <5> QED BY <5>4, <5>5
            <4> QED BY <3>2, <4>1
        <3> QED BY <2>3, <3>1, <3>3 DEF NeedsTranscode
    <2> QED BY <2>2, <2>3
<1> HIDE DEF picture, chosen
<1>11. WithinLimits(out, p) => ~NeedsTranscode(out.video[1], p)
    <2>1. chosen.action \in {"remux", "transcode"}
        BY DEF chosen
    <2> QED BY <1>3, <1>4, <1>5, <1>10, <2>1
<1> QED BY <1>2, <1>7, <1>8, <1>9, <1>11

\* No audio of an undeclared language is left aside in a 4K file.
ToldApart(m, p) == Is4K(m) /\ p.onlyPreferred => "und" \notin LanguagesOf(m.audio)

(* determine_action: nothing is left to do with a file that loses no stream,  *)
(* needs no encode and no other container, and, if it is 4K, has no warning.  *)
LEMMA NothingToDo ==
    ASSUME NEW m, NEW p, ~NeedsRemux(m, p), NEW warned \in BOOLEAN, Is4K(m) => ~warned
    PROVE  Action(m, p, FALSE, FALSE, warned) \in {"skip", "manual_review"}
<1>1. CASE VideoNeedsReview(m, p) \/ AudioMissing(m, p) \/ AmbiguousForced(m, p) # {}
    <2>1. Action(m, p, FALSE, FALSE, warned) = "manual_review"
        BY <1>1 DEF Action
    <2> QED BY <2>1
<1>2. CASE ~(VideoNeedsReview(m, p) \/ AudioMissing(m, p) \/ AmbiguousForced(m, p) # {})
    <2>1. Is4K(m) \in BOOLEAN
        BY DEF Is4K
    <2>2. CASE Is4K(m)
        BY <1>2, <2>2 DEF Action
    <2>3. CASE ~Is4K(m)
        BY <1>2, <2>3 DEF Action
    <2> QED BY <2>1, <2>2, <2>3
<1> QED BY <1>1, <1>2

(* What is placed is left alone: the next plan of a verified output skips it  *)
(* or asks for a review.                                                      *)
LEMMA OutputLeftAlone ==
    ASSUME NEW m \in MediaFile, NEW p \in Policy, NEW bits \in Rates, NEW known \in Known,
           PlanFor(m, p).action \in {"remux", "transcode"},
           NEW out \in MediaFile,
           \/ out = Obeyed(m, PlanFor(m, p), bits, known)
           \/ out \in Damaged(Obeyed(m, PlanFor(m, p), bits, known)),
           Verified(m, PlanFor(m, p), out),
           Plain(m), WithinLimits(out, p), ToldApart(out, p)
    PROVE  PlanFor(out, p).action \in {"skip", "manual_review"}
<1> DEFINE encode == Len(out.video) = 1 /\ NeedsTranscode(out.video[1], p)
           cleanup == Len(SelectAudio(out, p)) < Len(out.audio) \/ Len(SelectSubtitles(out, p)) < Len(out.subs)
           action == PlanFor(out, p).action
<1>1. action = Action(out, p, encode, cleanup, Warned(out, p))
    BY DEF PlanFor
<1>2. Obeyed(m, PlanFor(m, p), bits, known) \in MediaFile
    BY ObeyedFile
<1>3. encode = FALSE /\ ~NeedsRemux(out, p)
    BY PictureStays DEF NeedsRemux
<1> HIDE DEF encode
<1>4. CASE AudioMissing(out, p) \/ AmbiguousForced(out, p) # {}
    <2>1. Action(out, p, encode, cleanup, Warned(out, p)) = "manual_review"
        BY <1>4 DEF Action
    <2> HIDE DEF action, cleanup
    <2> QED BY <1>1, <2>1 DEF action
<1>5. CASE ~AudioMissing(out, p) /\ AmbiguousForced(out, p) = {}
    <2>1. ~AudioMissing(m, p)
        <3> SUFFICES ASSUME AudioMissing(m, p) PROVE FALSE
            OBVIOUS
        <3> DEFINE c == Len(SelectAudio(m, p)) < Len(m.audio) \/ Len(SelectSubtitles(m, p)) < Len(m.subs)
                   e == Len(m.video) = 1 /\ NeedsTranscode(m.video[1], p)
        <3>1. PlanFor(m, p).action = Action(m, p, e, c, Warned(m, p))
            BY DEF PlanFor
        <3> HIDE DEF c, e
        <3>2. Action(m, p, e, c, Warned(m, p)) = "manual_review"
            BY DEF Action
        <3> QED BY <3>1, <3>2
    <2>2. ~(Len(SelectAudio(out, p)) < Len(out.audio))
        BY <1>2, <1>5, <2>1, AudioStays
    <2>3. Kept(m, p, out)
        BY <1>2, <1>5, OutSubtitles DEF Kept
    <2>4. Plain(out)
        BY <1>2, StaysPlain
    <2>5. ~(Len(SelectSubtitles(out, p)) < Len(out.subs))
        BY <2>3, <2>4, SubtitlesStay
    <2>6. cleanup = FALSE
        BY <2>2, <2>5
    <2>7. Is4K(out) => ~Warned(out, p)
        <3>1. SelectSubtitles(out, p) = << >> => out.subs = << >>
            <4> SUFFICES ASSUME SelectSubtitles(out, p) = << >> PROVE out.subs = << >>
                OBVIOUS
            <4>1. Len(out.subs) \in Nat /\ out.subs \in Seq(SubtitleStream)
                BY Streams
            <4>2. Len(SelectSubtitles(out, p)) = 0
                OBVIOUS
            <4>3. Len(out.subs) = 0
                BY <2>5, <4>1, <4>2
            <4> QED BY <4>1, <4>3, EmptySeq
        <3> QED BY <3>1 DEF Warned, ToldApart
    <2>8. Warned(out, p) \in BOOLEAN
        BY DEF Warned
    <2>9. Action(out, p, FALSE, FALSE, Warned(out, p)) \in {"skip", "manual_review"}
        BY <1>3, <2>7, <2>8, NothingToDo
    <2> HIDE DEF action, cleanup
    <2> QED BY <1>1, <1>3, <2>6, <2>9 DEF action
<1> QED BY <1>4, <1>5

-----------------------------------------------------------------------------
(* The invariant of a placed file.                                            *)

\* A file that a pass placed is left alone under the policy in force for it.
LeftAlone ==
    past.last # "none" /\ WithinLimits(media, InForce) /\ ToldApart(media, InForce) /\ Plain(past.first)
    => PlanFor(media, InForce).action \in {"skip", "manual_review"}

PlainKept == Plain(past.first) => Plain(media)

(* A step that leaves the file and its history leaves what is known of them.  *)
LEMMA AloneStutters ==
    ASSUME LeftAlone, PlainKept, UNCHANGED <<setup, media, past>>
    PROVE  LeftAlone' /\ PlainKept'
<1>1. InForce' = InForce
    BY DEF InForce
<1> QED BY <1>1 DEF LeftAlone, PlainKept

(* Every step keeps it: only a placement changes the file.                    *)
LEMMA AloneKept ==
    ASSUME PipelineInv, LeftAlone, PlainKept, [Next]_vars
    PROVE  LeftAlone' /\ PlainKept'
<1>1. CASE UNCHANGED <<setup, media, past>>
    BY <1>1, AloneStutters
<1>2. CASE Place /\ media' = staged.media /\ past' = [past EXCEPT !.last = plan.action]
    <2>1. /\ media \in MediaFile /\ InForce \in Policy
          /\ media' \in MediaFile /\ Verified(media, PlanFor(media, InForce), media')
          /\ PlanFor(media, InForce).action \in {"remux", "transcode"}
        BY <1>2, WhatPlaceMakes
    <2>2. PICK bits \in Rates, known \in Known :
            \/ media' = Obeyed(media, PlanFor(media, InForce), bits, known)
            \/ media' \in Damaged(Obeyed(media, PlanFor(media, InForce), bits, known))
        BY <1>2, WhatPlaceMakes
    <2> DEFINE p == InForce
               out == media'
    <2>3. InForce' = p
        <3>1. Is4K(out) <=> Is4K(media)
            BY <2>1, <2>2, PictureStays
        <3>2. setup' = setup
            BY <1>2 DEF Place
        <3>3. Is4K(out) = Is4K(media)
            BY <3>1 DEF Is4K
        <3> QED BY <3>2, <3>3 DEF InForce
    <2>4. Plain(past'.first) = Plain(past.first)
        BY <1>2
    <2>5. Plain(media) => Plain(out)
        <3>1. Obeyed(media, p, bits, known) = Obeyed(media, p, bits, known)
            OBVIOUS
        <3>2. Obeyed(media, PlanFor(media, p), bits, known) \in MediaFile
            BY <2>1, ObeyedFile
        <3> QED BY <2>1, <2>2, <3>2, StaysPlain
    <2>6. Plain(media) /\ WithinLimits(out, p) /\ ToldApart(out, p)
          => PlanFor(out, p).action \in {"skip", "manual_review"}
        BY <2>1, <2>2, OutputLeftAlone
    <2> HIDE DEF p, out
    <2>7. PlainKept'
        BY <2>4, <2>5 DEF PlainKept, out
    <2>8. LeftAlone'
        BY <2>3, <2>4, <2>6 DEF LeftAlone, PlainKept, out
    <2> QED BY <2>7, <2>8
<1>3. UNCHANGED <<setup, media, past>>
      \/ (Place /\ media' = staged.media /\ past' = [past EXCEPT !.last = plan.action])
    <2>1. CASE Place
        BY <2>1 DEF Place
    <2>2. CASE MakePlan \/ Start \/ RequestCancel \/ EncodeEnds \/ EncodeStops \/ Verify \/ Rescan
        BY <2>2 DEF MakePlan, Start, RequestCancel, EncodeEnds, EncodeStops, Verify, Rescan
    <2>3. CASE UNCHANGED vars
        BY <2>3 DEF vars
    <2> QED BY <2>1, <2>2, <2>3 DEF Next
<1> QED BY <1>1, <1>2, <1>3

(* A file is not processed over and over (Settled): once an output has been   *)
(* placed, the next plan skips the file or asks for a review, but for the     *)
(* exceptions the property names.  For every file, policy and host, and for   *)
(* any number of passes.                                                      *)
THEOREM FilesSettle == Spec => []Settled
<1> DEFINE Inv == LeftAlone /\ PlainKept
<1>1. Init => Inv
    BY DEF Init, LeftAlone, PlainKept
<1>2. PipelineInv /\ Inv /\ [Next]_vars => Inv'
    BY AloneKept
<1>3. PipelineInv /\ Inv => Settled
    <2> SUFFICES ASSUME PipelineInv, LeftAlone, phase = "planned", past.last # "none",
                        \A v \in ToSet(media.video) :
                            /\ v.width <= InForce.maxWidth \/ Is4KStream(v)
                            /\ v.known = "reported" => v.bits <= InForce.maxRate,
                        Is4K(media) /\ InForce.onlyPreferred => "und" \notin LanguagesOf(media.audio),
                        \A s \in ToSet(past.first.subs) : s.hearing # "flag" /\ ~(s.flagged /\ IsHearing(s))
                 PROVE  plan.action \in {"skip", "manual_review"}
        BY DEF Settled
    <2>1. plan = PlanFor(media, InForce)
        BY DEF PipelineInv, PlanMade, Underway
    <2>2. WithinLimits(media, InForce) /\ ToldApart(media, InForce)
        BY DEF WithinLimits, ToldApart
    <2>3. Plain(past.first)
        BY DEF Plain, PlainSub, ToSet
    <2> QED BY <2>1, <2>2, <2>3 DEF LeftAlone
<1> HIDE DEF Inv
<1> QED BY <1>1, <1>2, <1>3, PipelineInvariant, PTL DEF Spec

=============================================================================
