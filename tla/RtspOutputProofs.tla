-------------------------- MODULE RtspOutputProofs --------------------------
(***************************************************************************)
(* Theorems about RtspOutput for any number of Sources and packets, any    *)
(* cache limit and pipe: no delete hits a Source in use and no Source      *)
(* outlives the channel; each cached buffer has its token; and the cache   *)
(* holds what can be decoded, in order, so the sink shows it in order and  *)
(* never a frame whose reference is missing.                               *)
(***************************************************************************)
EXTENDS RtspOutput, SequenceTheorems, WellFoundedInduction, TLAPS

(* No Source is made and nothing is sent.                                   *)
LEMMA TypeInit == Init => TypeOK
<1> SUFFICES ASSUME Init PROVE TypeOK
  OBVIOUS
<1>1. cached_buffers \in [Sources -> Seq(Packets)] /\ video_list \in Seq(Sources)
      /\ todo \in Seq(Packets)
  BY EmptySeq DEF Init
<1>2. /\ life \in [Sources -> {"none", "new", "open", "closing", "closed", "deleted"}]
      /\ tokens \in [Sources -> Nat] /\ head \in [Sources -> Nat]
      /\ reading \in [Sources -> BOOLEAN] /\ wanted \in [Sources -> BOOLEAN]
      /\ got_iframe \in [Sources -> BOOLEAN] /\ lost \in [Sources -> BOOLEAN]
      /\ shown \in [Sources -> Packets \cup {NoPacket}]
  BY DEF Init
<1>3. SourceTypeOK
  BY <1>1, <1>2 DEF SourceTypeOK
<1>4. codec \in Codecs /\ packets \in Nat /\ at \in Nat \ {0}
  BY DEF Init
<1>5. lsrc \in Sources \cup {NoSource} /\ tail \in Sources \cup {NoSource}
  BY DEF Init
<1>6. /\ session \in {"none", "open", "removed"}
      /\ flag \in BOOLEAN /\ raced \in BOOLEAN
      /\ msg \in {"none", "NewSession", "RemoveSession"}
  BY DEF Init
<1>7. /\ lpc \in {"idle", "link", "pop", "close", "NewSession", "RemoveSession",
                  "answer"}
      /\ fpc \in {"idle", "remove", "push", "write", "done"}
      /\ owner \in {"start", "creating", "running", "stopping", "joined",
                    "removing", "destroyed"}
  BY DEF Init
<1> QED
  BY <1>1, <1>3, <1>4, <1>5, <1>6, <1>7 DEF TypeOK

(* Deleting Sources keeps their state well typed.                           *)
LEMMA DeleteType ==
  ASSUME SourceTypeOK, NEW S, Delete(S), reading' \in [Sources -> BOOLEAN],
         wanted' \in [Sources -> BOOLEAN]
  PROVE  SourceTypeOK'
<1> USE DEF SourceTypeOK, Delete
<1>1. life' \in [Sources -> {"none", "new", "open", "closing", "closed", "deleted"}]
  OBVIOUS
<1>2. cached_buffers' \in [Sources -> Seq(Packets)]
  BY EmptySeq
<1>3. tokens' \in [Sources -> Nat] /\ head' \in [Sources -> Nat]
  OBVIOUS
<1>4. got_iframe' \in [Sources -> BOOLEAN] /\ lost' \in [Sources -> BOOLEAN]
  OBVIOUS
<1>5. shown' \in [Sources -> Packets \cup {NoPacket}]
  OBVIOUS
<1> QED
  BY <1>1, <1>2, <1>3, <1>4, <1>5

(* The read position stays within the pipe's pages.                         *)
LEMMA HeadType ==
  ASSUME SourceTypeOK, NEW s \in Sources, NEW n \in Nat
  PROVE  HeadAfter(s, n) \in Nat
<1>1. head[s] + n \in Nat /\ PageTokens \in Nat /\ PageTokens > 0
  BY PipeAssumption DEF SourceTypeOK
<1>2. (head[s] + n) % PageTokens \in 0 .. PageTokens - 1
  BY <1>1
<1> QED
  BY <1>2 DEF HeadAfter

\* A list without one of its nodes.
Without(q, i) == SubSeq(q, 1, i - 1) \o SubSeq(q, i + 1, Len(q))

(* What is left of such a list, position by position.                       *)
LEMMA WithoutNode ==
  ASSUME NEW T, NEW q \in Seq(T), NEW i \in DOMAIN q
  PROVE  /\ Without(q, i) \in Seq(T) /\ Len(Without(q, i)) = Len(q) - 1
         /\ \A j \in DOMAIN Without(q, i) :
              Without(q, i)[j] = IF j < i THEN q[j] ELSE q[j + 1]
<1> DEFINE r == Without(q, i)
<1>1. Len(q) \in Nat /\ DOMAIN q = 1 .. Len(q) /\ i \in 1 .. Len(q)
      /\ \A j \in 1 .. Len(q) : q[j] \in T
  BY LenProperties, ElementOfSeq
<1> DEFINE a == SubSeq(q, 1, i - 1)
           b == SubSeq(q, i + 1, Len(q))
<1>r. r = a \o b
  BY DEF Without
<1>2. /\ a \in Seq(T) /\ Len(a) = i - 1
      /\ \A j \in 1 .. i - 1 : a[j] = q[j]
  <2>1. \A j \in 1 .. i - 1 : q[j] \in T
    BY <1>1
  <2>2. /\ a \in Seq(T) /\ Len(a) = IF 1 <= i - 1 THEN i - 1 - 1 + 1 ELSE 0
        /\ \A j \in 1 .. i - 1 - 1 + 1 : a[j] = q[1 + j - 1]
    BY <1>1, <2>1, SubSeqProperties
  <2> QED
    BY <1>1, <2>2
<1>3. /\ b \in Seq(T) /\ Len(b) = Len(q) - i
      /\ \A j \in 1 .. Len(q) - i : b[j] = q[i + j]
  <2>1. \A j \in i + 1 .. Len(q) : q[j] \in T
    BY <1>1
  <2>2. /\ b \in Seq(T)
        /\ Len(b) = IF i + 1 <= Len(q) THEN Len(q) - (i + 1) + 1 ELSE 0
        /\ \A j \in 1 .. Len(q) - (i + 1) + 1 : b[j] = q[i + 1 + j - 1]
    BY <1>1, <2>1, SubSeqProperties
  <2> HIDE DEF b
  <2>3. Len(q) \in Nat /\ i \in Nat /\ i <= Len(q)
    BY <1>1
  <2>4. Len(q) - (i + 1) + 1 = Len(q) - i
    BY <2>3
  <2>5. Len(b) = Len(q) - i
    BY <2>2, <2>3
  <2>6. ASSUME NEW j \in 1 .. Len(q) - i PROVE b[j] = q[i + j]
    <3>1. b[j] = q[i + 1 + j - 1]
      BY <2>2, <2>4
    <3>2. i + 1 + j - 1 = i + j
      BY <2>3
    <3> QED
      BY <3>1, <3>2
  <2> QED
    BY <2>2, <2>5, <2>6
<1> HIDE DEF a, b, r
<1>4. /\ r \in Seq(T) /\ Len(r) = i - 1 + (Len(q) - i)
      /\ \A j \in 1 .. i - 1 + (Len(q) - i) :
           r[j] = IF j <= i - 1 THEN a[j] ELSE b[j - (i - 1)]
  <2>1. /\ a \o b \in Seq(T) /\ Len(a \o b) = Len(a) + Len(b)
        /\ \A j \in 1 .. Len(a) + Len(b) :
             (a \o b)[j] = IF j <= Len(a) THEN a[j] ELSE b[j - Len(a)]
    BY <1>2, <1>3, ConcatProperties
  <2> QED
    BY <1>r, <1>2, <1>3, <2>1
<1>5. Len(r) = Len(q) - 1 /\ DOMAIN r = 1 .. Len(q) - 1
  BY <1>1, <1>4, LenProperties
<1>6. ASSUME NEW j \in DOMAIN r PROVE r[j] = IF j < i THEN q[j] ELSE q[j + 1]
  <2>1. j \in 1 .. Len(q) - 1 /\ r[j] = IF j <= i - 1 THEN a[j] ELSE b[j - (i - 1)]
    BY <1>1, <1>4, <1>5, <1>6
  <2>2. CASE j < i
    BY <1>1, <1>2, <2>1, <2>2
  <2>3. CASE ~ (j < i)
    <3>0. /\ j \in Nat /\ i \in Nat /\ Len(q) \in Nat
          /\ i <= j /\ j <= Len(q) - 1
      BY <1>1, <2>1, <2>3
    <3>1. r[j] = b[j - (i - 1)]
      BY <2>1, <3>0
    <3>4. j - (i - 1) \in 1 .. Len(q) - i
      BY <3>0
    <3>2. b[j - (i - 1)] = q[i + (j - (i - 1))]
      BY <1>3, <3>4
    <3>3. i + (j - (i - 1)) = j + 1
      BY <1>1, <2>1
    <3> QED
      BY <2>3, <3>1, <3>2, <3>3
  <2> QED
    BY <2>2, <2>3
<1> QED
  BY <1>4, <1>5, <1>6 DEF r

(* What is left of a list without repetitions is what was in it, and again  *)
(* comes once.                                                              *)
LEMMA WithoutMembers ==
  ASSUME NEW T, NEW q \in Seq(T), NEW i \in DOMAIN q,
         \A j, k \in DOMAIN q : q[j] = q[k] => j = k
  PROVE  LET r == Without(q, i) IN
         /\ \A j \in DOMAIN r : \E k \in DOMAIN q : k # i /\ r[j] = q[k]
         /\ \A k \in DOMAIN q : k # i => \E j \in DOMAIN r : r[j] = q[k]
         /\ \A j, k \in DOMAIN r : r[j] = r[k] => j = k
<1> DEFINE r == Without(q, i)
           Old(j) == IF j < i THEN j ELSE j + 1
<1>1. /\ r \in Seq(T) /\ Len(r) = Len(q) - 1
      /\ \A j \in DOMAIN r : r[j] = IF j < i THEN q[j] ELSE q[j + 1]
  BY WithoutNode
<1>2. DOMAIN q = 1 .. Len(q) /\ Len(q) \in Nat /\ DOMAIN r = 1 .. Len(r)
  BY <1>1, LenProperties
<1> HIDE DEF r
<1>3. i \in Nat /\ i >= 1 /\ i <= Len(q) /\ DOMAIN r = 1 .. Len(q) - 1
  BY <1>1, <1>2
<1>4. \A j \in DOMAIN r : /\ Old(j) \in DOMAIN q /\ Old(j) # i /\ j \in Nat
  BY <1>2, <1>3
<1>5. \A j \in DOMAIN r : r[j] = q[Old(j)]
  BY <1>1
<1>6. \A j \in DOMAIN r : \E k \in DOMAIN q : k # i /\ r[j] = q[k]
  BY <1>4, <1>5
<1>7. ASSUME NEW k \in DOMAIN q, k # i PROVE \E j \in DOMAIN r : r[j] = q[k]
  <2>1. CASE k < i
    <3>1. k \in DOMAIN r /\ Old(k) = k
      BY <1>2, <1>3, <2>1
    <3> QED
      BY <1>5, <3>1
  <2>2. CASE k > i
    <3>1. k - 1 \in DOMAIN r /\ Old(k - 1) = k
      BY <1>2, <1>3, <2>2
    <3> QED
      BY <1>5, <3>1
  <2> QED
    BY <1>2, <1>3, <1>7, <2>1, <2>2
<1>8. ASSUME NEW j \in DOMAIN r, NEW k \in DOMAIN r, r[j] = r[k] PROVE j = k
  <2>1. Old(j) = Old(k)
    <3>1. q[Old(j)] = q[Old(k)] /\ Old(j) \in DOMAIN q /\ Old(k) \in DOMAIN q
      BY <1>4, <1>5, <1>8
    <3> HIDE DEF Old
    <3> QED
      BY <3>1
  <2>2. j \in Nat /\ k \in Nat /\ i \in Nat
    BY <1>3, <1>4
  <2> QED
    BY <2>1, <2>2
<1> QED
  BY <1>6, <1>7, <1>8 DEF r

(* A list with an element more.                                             *)
LEMMA AppendMembers ==
  ASSUME NEW T, NEW q \in Seq(T), NEW e \in T
  PROVE  LET r == Append(q, e) IN
         /\ r \in Seq(T) /\ Len(r) = Len(q) + 1 /\ Len(q) \in Nat
         /\ \A j \in DOMAIN r :
              (j \in DOMAIN q /\ r[j] = q[j]) \/ (j = Len(q) + 1 /\ r[j] = e)
         /\ \A k \in DOMAIN q : k \in DOMAIN r /\ r[k] = q[k]
         /\ Len(q) + 1 \in DOMAIN r /\ r[Len(q) + 1] = e
         /\ (/\ \A i, j \in DOMAIN q : q[i] = q[j] => i = j
             /\ \A i \in DOMAIN q : q[i] # e)
            => \A i, j \in DOMAIN r : r[i] = r[j] => i = j
<1> DEFINE r == Append(q, e)
<1>1. /\ r \in Seq(T) /\ Len(r) = Len(q) + 1
      /\ \A i \in 1 .. Len(q) : r[i] = q[i]
      /\ r[Len(q) + 1] = e
  BY AppendProperties
<1>2. Len(q) \in Nat /\ DOMAIN q = 1 .. Len(q) /\ DOMAIN r = 1 .. Len(r)
  BY <1>1, LenProperties
<1> HIDE DEF r
<1>3. DOMAIN r = 1 .. Len(q) + 1
  BY <1>1, <1>2
<1>4. \A j \in DOMAIN r : j \in DOMAIN q \/ j = Len(q) + 1
  BY <1>2, <1>3
<1>5. \A k \in DOMAIN q : k \in DOMAIN r /\ r[k] = q[k]
  BY <1>1, <1>2, <1>3
<1>6. Len(q) + 1 \in DOMAIN r
  BY <1>2, <1>3
<1>7. ASSUME \A i, j \in DOMAIN q : q[i] = q[j] => i = j,
             \A i \in DOMAIN q : q[i] # e
      PROVE  \A i, j \in DOMAIN r : r[i] = r[j] => i = j
  BY <1>1, <1>4, <1>5, <1>7
<1> QED
  BY <1>1, <1>2, <1>4, <1>5, <1>6, <1>7 DEF r

(* A list with more than one element has a tail.                            *)
LEMMA TailLeft ==
  ASSUME NEW T, NEW q \in Seq(T), q # <<>>
  PROVE  Tail(q) # <<>> <=> Len(q) > 1
<1>1. Tail(q) \in Seq(T) /\ Len(Tail(q)) = Len(q) - 1
  BY HeadTailProperties
<1>2. Len(q) \in Nat \ {0}
  BY EmptySeq
<1>3. Tail(q) # <<>> <=> Len(Tail(q)) # 0
  BY <1>1, EmptySeq
<1>4. \A n, m \in Int : m = n - 1 /\ n # 0 /\ n >= 0 => (m # 0 <=> n > 1)
  OBVIOUS
<1>5. Len(Tail(q)) \in Int /\ Len(q) \in Int /\ Len(q) # 0 /\ Len(q) >= 0
  BY <1>1, <1>2
<1>6. Len(Tail(q)) # 0 <=> Len(q) > 1
  BY <1>1, <1>4, <1>5
<1> QED
  BY <1>3, <1>6, Zenon
-----------------------------------------------------------------------------
(* The reductions.                                                          *)

(* A set of natural numbers has a least element.                            *)
LEMMA Least ==
  ASSUME NEW S, S \subseteq Nat, S # {}
  PROVE  \E i \in S : \A j \in S : i <= j
<1> DEFINE R == {ss \in Nat \X Nat : ss[1] < ss[2]}
<1>1. IsWellFoundedOn(R, Nat)
  BY NatLessThanWellFounded DEF OpToRel
<1>2. \A i, j \in Nat : <<i, j>> \in R <=> i < j
  OBVIOUS
<1> HIDE DEF R
<1>3. \E x \in S : \A y \in S : ~ (<<y, x>> \in R)
  BY <1>1, WFMin, Zenon
<1>4. PICK i \in S : \A j \in S : ~ (<<j, i>> \in R)
  BY <1>3
<1>5. ASSUME NEW j \in S PROVE i <= j
  <2>1. i \in Nat /\ j \in Nat
    OBVIOUS
  <2>2. ~ (j < i)
    BY <1>2, <1>4, <2>1
  <2> QED
    BY <2>1, <2>2
<1> QED
  BY <1>5

(* A set of positions of a sequence has a last one.                         *)
LEMMA Last ==
  ASSUME NEW n \in Nat, NEW S, S \subseteq 1 .. n, S # {}
  PROVE  \E i \in S : \A j \in S : j <= i
<1> DEFINE R == {n - i : i \in S}
<1>1. R \subseteq Nat /\ R # {}
  <2>1. \A i \in S : n - i \in Nat
    OBVIOUS
  <2> QED
    BY <2>1
<1>2. PICK m \in R : \A k \in R : m <= k
  BY <1>1, Least
<1>3. PICK i \in S : m = n - i
  OBVIOUS
<1>4. \A j \in S : n - i <= n - j
  BY <1>2, <1>3
<1> QED
  BY <1>4

(* What a reduction may do to a cache: nothing, or keep n leading buffers   *)
(* and the tail from an I frame on.                                         *)
Cut(q, r, n, k) ==
  /\ n \in 0 .. k - 1 /\ k \in DOMAIN q
  /\ r = SubSeq(q, 1, n) \o SubSeq(q, k, Len(q))

(* h264_packet_reduction keeps leading parameter sets and the tail from the *)
(* last I frame on.                                                         *)
LEMMA h264Cut ==
  ASSUME NEW q \in Seq(Packets), h264_packet_reduction(q) # q
  PROVE  \E n, k : /\ Cut(q, h264_packet_reduction(q), n, k)
                   /\ Kind(q[k]) = "intra"
                   /\ \A i \in 1 .. n : Kind(q[i]) = "extra"
<1>1. /\ Intras(q) # {}
      /\ h264_packet_reduction(q) =
           SubSeq(q, 1, FirstNotExtra(q) - 1) \o SubSeq(q, LastIntra(q), Len(q))
  BY DEF h264_packet_reduction
<1>2. Len(q) \in Nat /\ DOMAIN q = 1 .. Len(q)
  BY LenProperties
<1>3. /\ LastIntra(q) \in Intras(q)
      /\ \A j \in Intras(q) : j <= LastIntra(q)
  <2>1. \E i \in Intras(q) : \A j \in Intras(q) : j <= i
    <3>1. Intras(q) \subseteq 1 .. Len(q)
      BY <1>2 DEF Intras
    <3> QED
      BY <1>1, <1>2, <3>1, Last
  <2> QED
    BY <2>1 DEF LastIntra
<1>4. LastIntra(q) \in NotExtras(q)
  BY <1>3 DEF Intras, NotExtras
<1>5. /\ FirstNotExtra(q) \in NotExtras(q)
      /\ \A j \in NotExtras(q) : FirstNotExtra(q) <= j
  <2>1. \E i \in NotExtras(q) : \A j \in NotExtras(q) : i <= j
    <3>1. NotExtras(q) \subseteq Nat
      BY <1>2 DEF NotExtras
    <3> QED
      BY <1>4, <3>1, Least
  <2> QED
    BY <2>1 DEF FirstNotExtra
<1> DEFINE n == FirstNotExtra(q) - 1
           k == LastIntra(q)
<1>6. n \in 0 .. k - 1 /\ k \in DOMAIN q /\ Kind(q[k]) = "intra"
  BY <1>2, <1>3, <1>4, <1>5 DEF Intras, NotExtras
<1>7. ASSUME NEW i \in 1 .. n PROVE Kind(q[i]) = "extra"
  BY <1>2, <1>5, <1>6, <1>7 DEF NotExtras
<1>8. Cut(q, h264_packet_reduction(q), n, k)
  BY <1>1, <1>6 DEF Cut
<1> QED
  BY <1>6, <1>7, <1>8

(* common_reduction keeps the newer part of a long cache.                   *)
LEMMA CommonCut ==
  ASSUME NEW q \in Seq(Packets), common_reduction(q) # q
  PROVE  \E k : Cut(q, common_reduction(q), 0, k)
<1> DEFINE k == 1 + CacheNumber \div 2
<1>1. Len(q) > CacheNumber /\ common_reduction(q) = SubSeq(q, k, Len(q))
  BY DEF common_reduction
<1>2. Len(q) \in Nat /\ DOMAIN q = 1 .. Len(q)
  BY LenProperties
<1>3. k \in 1 .. Len(q)
  <2>1. CacheNumber \div 2 \in Nat /\ CacheNumber \div 2 < CacheNumber
    BY CacheAssumption
  <2>2. CacheNumber \in Nat /\ Len(q) > CacheNumber
    BY <1>1, CacheAssumption
  <2> QED
    BY <1>2, <2>1, <2>2
<1>4. SubSeq(q, k, Len(q)) \in Seq(Packets)
  BY <1>2, <1>3, SubSeqProperties, ElementOfSeq
<1>5. SubSeq(q, 1, 0) = <<>>
  BY SubSeqEmpty
<1>6. common_reduction(q) = SubSeq(q, 1, 0) \o SubSeq(q, k, Len(q))
  BY <1>1, <1>4, <1>5, ConcatEmptySeq
<1> QED
  <2>1. 0 \in 0 .. k - 1 /\ k \in DOMAIN q
    BY <1>2, <1>3
  <2>2. Cut(q, common_reduction(q), 0, k)
    BY <1>6, <2>1 DEF Cut
  <2> QED
    BY <2>2

(* The buffers of a cut cache, one by one.                                  *)
LEMMA CutElements ==
  ASSUME NEW q \in Seq(Packets), NEW r, NEW n, NEW k, Cut(q, r, n, k)
  PROVE  /\ n \in Nat /\ k \in Nat /\ n < k /\ k <= Len(q) /\ Len(q) \in Nat
         /\ r \in Seq(Packets) /\ Len(r) = n + Len(q) - k + 1
         /\ \A i \in DOMAIN r : r[i] = IF i <= n THEN q[i] ELSE q[i - n + k - 1]
<1>1. Len(q) \in Nat /\ DOMAIN q = 1 .. Len(q)
      /\ \A j \in 1 .. Len(q) : q[j] \in Packets
  BY LenProperties, ElementOfSeq
<1>2. n \in Nat /\ k \in 1 .. Len(q) /\ n < k
  BY <1>1 DEF Cut
<1> DEFINE a == SubSeq(q, 1, n)
           b == SubSeq(q, k, Len(q))
<1>r. r = a \o b
  BY DEF Cut
<1>3. /\ a \in Seq(Packets) /\ Len(a) = n
      /\ \A j \in 1 .. n : a[j] = q[j]
  <2>1. \A j \in 1 .. n : q[j] \in Packets
    BY <1>1, <1>2
  <2>2. /\ a \in Seq(Packets) /\ Len(a) = IF 1 <= n THEN n - 1 + 1 ELSE 0
        /\ \A j \in 1 .. n - 1 + 1 : a[j] = q[1 + j - 1]
    BY <1>2, <2>1, SubSeqProperties
  <2> QED
    BY <1>2, <2>2
<1>4. /\ b \in Seq(Packets) /\ Len(b) = Len(q) - k + 1
      /\ \A j \in 1 .. Len(q) - k + 1 : b[j] = q[k + j - 1]
  <2>1. \A j \in k .. Len(q) : q[j] \in Packets
    BY <1>1, <1>2
  <2>2. /\ b \in Seq(Packets)
        /\ Len(b) = IF k <= Len(q) THEN Len(q) - k + 1 ELSE 0
        /\ \A j \in 1 .. Len(q) - k + 1 : b[j] = q[k + j - 1]
    BY <1>1, <1>2, <2>1, SubSeqProperties
  <2> HIDE DEF b
  <2>3. k <= Len(q)
    BY <1>1, <1>2
  <2>4. Len(b) = Len(q) - k + 1
    BY <2>2, <2>3
  <2> QED
    BY <2>2, <2>4
<1> HIDE DEF a, b
<1>5. /\ r \in Seq(Packets) /\ Len(r) = n + (Len(q) - k + 1)
      /\ \A j \in 1 .. n + (Len(q) - k + 1) :
           r[j] = IF j <= n THEN a[j] ELSE b[j - n]
  BY <1>r, <1>3, <1>4, ConcatProperties
<1>6. Len(r) = n + Len(q) - k + 1 /\ DOMAIN r = 1 .. n + Len(q) - k + 1
  BY <1>1, <1>2, <1>5, LenProperties
<1>7. ASSUME NEW i \in DOMAIN r
      PROVE  r[i] = IF i <= n THEN q[i] ELSE q[i - n + k - 1]
  <2>1. i \in 1 .. n + (Len(q) - k + 1) /\ r[i] = IF i <= n THEN a[i] ELSE b[i - n]
    BY <1>1, <1>2, <1>5, <1>6, <1>7
  <2>2. CASE i <= n
    BY <1>3, <2>1, <2>2
  <2>3. CASE ~ (i <= n)
    <3>1. r[i] = b[i - n] /\ i - n \in 1 .. Len(q) - k + 1
      BY <1>1, <1>2, <2>1, <2>3
    <3>2. b[i - n] = q[k + (i - n) - 1]
      BY <1>4, <3>1
    <3>3. k + (i - n) - 1 = i - n + k - 1
      BY <1>1, <1>2, <2>1
    <3> QED
      BY <2>3, <3>1, <3>2, <3>3
  <2> QED
    BY <2>2, <2>3
<1> QED
  BY <1>1, <1>2, <1>5, <1>6, <1>7

(* A reduction takes a token for every buffer it drops from a JPEG cache,   *)
(* and never more.                                                          *)
LEMMA ReducedLength ==
  ASSUME codec \in Codecs, NEW q \in Seq(Packets)
  PROVE  /\ Reduced(q) \in Seq(Packets) /\ TokensReduced(q) \in Nat
         /\ Len(Reduced(q)) + TokensReduced(q) <= Len(q)
<1>1. Len(q) \in Nat
  BY LenProperties
<1>2. CASE codec = "jpeg"
  <2>1. Reduced(q) = common_reduction(q)
        /\ TokensReduced(q) = Len(q) - Len(common_reduction(q))
    BY <1>2 DEF Reduced, TokensReduced
  <2>2. CASE common_reduction(q) = q
    BY <1>1, <2>1, <2>2
  <2>3. CASE common_reduction(q) # q
    <3>1. PICK k : Cut(q, common_reduction(q), 0, k)
      BY <2>3, CommonCut
    <3>2. /\ common_reduction(q) \in Seq(Packets) /\ k \in Nat /\ 0 < k /\ k <= Len(q)
          /\ Len(common_reduction(q)) = 0 + Len(q) - k + 1
      BY <3>1, CutElements
    <3> QED
      BY <1>1, <2>1, <3>2
  <2> QED
    BY <2>2, <2>3
<1>3. CASE codec # "jpeg"
  <2>1. Reduced(q) = h264_packet_reduction(q) /\ TokensReduced(q) = 0
    BY <1>3 DEF Reduced, TokensReduced
  <2>2. CASE h264_packet_reduction(q) = q
    BY <1>1, <2>1, <2>2
  <2>3. CASE h264_packet_reduction(q) # q
    <3>1. PICK n, k : Cut(q, h264_packet_reduction(q), n, k)
      BY <2>3, h264Cut
    <3>2. /\ h264_packet_reduction(q) \in Seq(Packets)
          /\ n \in Nat /\ k \in Nat /\ n < k /\ k <= Len(q)
          /\ Len(h264_packet_reduction(q)) = n + Len(q) - k + 1
      BY <3>1, CutElements
    <3> QED
      BY <1>1, <2>1, <3>2
  <2> QED
    BY <2>2, <2>3
<1> QED
  BY <1>2, <1>3
-----------------------------------------------------------------------------
(* Where the loop is, what it holds and what it reads from.                 *)
Live == {"open", "closing", "closed"}
Handling == {"NewSession", "RemoveSession", "answer"}

LoopInv ==
  /\ lpc \in {"link", "pop", "close"} <=> lsrc # NoSource
  /\ lpc = "link" => life[lsrc] = "new"
  /\ lpc = "pop" => life[lsrc] = "open"
  /\ lpc = "close" => life[lsrc] = "closing"
  /\ \A s \in Sources :
       /\ life[s] = "new" => lpc = "link" /\ lsrc = s
       /\ life[s] = "closing" => lpc = "close" /\ lsrc = s
       /\ reading[s] => life[s] = "open"

(* Sources from push_back to delete are listed, once, unless the list was   *)
(* damaged.                                                                 *)
ListInv ==
  /\ \A i \in DOMAIN video_list : life[video_list[i]] \in Live
  /\ \A i, j \in DOMAIN video_list : video_list[i] = video_list[j] => i = j
  /\ ~ raced => \A s \in Sources : life[s] \in Live => s \in Listed

(* How far the message of a waiting sender is, and what the channel was     *)
(* before and is after it.                                                  *)
Sent(m, before, after) ==
  \/ flag /\ msg = m /\ session = before /\ lpc \notin Handling
  \/ flag /\ msg = "none" /\ session = before /\ lpc = m
  \/ flag /\ msg = "none" /\ session = after /\ lpc = "answer"
  \/ ~ flag /\ msg = "none" /\ session = after /\ lpc \notin Handling

(* The owner's place tells what the loop knows of the channel and whether   *)
(* the flow's thread runs.                                                  *)
OwnerInv ==
  /\ owner \notin {"creating", "removing"} =>
       ~ flag /\ msg = "none" /\ lpc \notin Handling
  /\ owner = "start" => session = "none"
  /\ owner = "creating" => Sent("NewSession", "none", "open")
  /\ owner \in {"running", "stopping", "joined"} => session = "open"
  /\ owner = "removing" => Sent("RemoveSession", "open", "removed")
  /\ owner = "destroyed" => session = "removed"
  /\ owner \in {"start", "creating"} => fpc = "idle"
  /\ owner \in {"joined", "removing", "destroyed"} => fpc = "done"
  /\ owner \in {"running", "stopping"} => fpc # "done"

(* Without a channel there is no Source, and none is made.                  *)
SessionInv ==
  /\ session = "none" => lpc # "link" /\ \A s \in Sources : life[s] = "none"
  /\ session = "removed" => lpc # "link" /\ video_list = <<>>

(* The flow's thread has a packet to push, and its iterator is in the list  *)
(* or right behind it.                                                      *)
FlowInv ==
  /\ todo # <<>> <=> fpc \in {"remove", "push", "write"}
  /\ at <= Len(video_list) + 1
  /\ fpc \notin {"remove", "push", "write"} => at = 1
  /\ fpc = "write" => at <= Len(video_list)

Structure == LoopInv /\ ListInv /\ OwnerInv /\ SessionInv /\ FlowInv
-----------------------------------------------------------------------------
(* Types, for the Sources, the connection and the threads in turn.          *)
ConnTypeOK ==
  /\ codec \in Codecs /\ video_list \in Seq(Sources)
  /\ session \in {"none", "open", "removed"}
  /\ flag \in BOOLEAN /\ raced \in BOOLEAN
  /\ msg \in {"none", "NewSession", "RemoveSession"}

ThreadTypeOK ==
  /\ packets \in Nat /\ todo \in Seq(Packets) /\ at \in Nat \ {0}
  /\ lpc \in {"idle", "link", "pop", "close", "NewSession", "RemoveSession",
              "answer"}
  /\ lsrc \in Sources \cup {NoSource} /\ tail \in Sources \cup {NoSource}
  /\ fpc \in {"idle", "remove", "push", "write", "done"}
  /\ owner \in {"start", "creating", "running", "stopping", "joined",
                "removing", "destroyed"}

(* The parts are the whole.                                                 *)
LEMMA TypeParts ==
  /\ TypeOK <=> SourceTypeOK /\ ConnTypeOK /\ ThreadTypeOK
  /\ TypeOK' <=> SourceTypeOK' /\ ConnTypeOK' /\ ThreadTypeOK'
  BY DEF TypeOK, ConnTypeOK, ThreadTypeOK

(* The Source of a loop that handles one, and of a thread that pushes.      *)
LEMMA InHand ==
  ASSUME TypeOK, Structure
  PROVE  /\ lpc \in {"link", "pop", "close"} => lsrc \in Sources
         /\ DOMAIN video_list = 1 .. Len(video_list) /\ Len(video_list) \in Nat
         /\ \A i \in DOMAIN video_list : video_list[i] \in Sources
         /\ at \in DOMAIN video_list <=> at <= Len(video_list)
         /\ \A s \in Sources :
              cached_buffers[s] \in Seq(Packets) /\ Len(cached_buffers[s]) \in Nat
<1>1. video_list \in Seq(Sources) /\ at \in Nat \ {0}
      /\ cached_buffers \in [Sources -> Seq(Packets)]
  BY DEF TypeOK, SourceTypeOK
<1>2. lpc \in {"link", "pop", "close"} => lsrc \in Sources
  BY DEF TypeOK, Structure, LoopInv
<1>3. DOMAIN video_list = 1 .. Len(video_list) /\ Len(video_list) \in Nat
      /\ \A i \in DOMAIN video_list : video_list[i] \in Sources
  BY <1>1, LenProperties, ElementOfSeq
<1>4. \A s \in Sources :
        cached_buffers[s] \in Seq(Packets) /\ Len(cached_buffers[s]) \in Nat
  BY <1>1, LenProperties
<1> QED
  BY <1>1, <1>2, <1>3, <1>4

(* The kinds of the next frame's packets.                                   *)
LEMMA FramesToPush ==
  \A kinds \in NextFrames :
    /\ Len(kinds) \in {1, 2} /\ DOMAIN kinds = 1 .. Len(kinds)
    /\ \A i \in 1 .. Len(kinds) : kinds[i] \in Kinds
    /\ codec = "jpeg" => \A i \in 1 .. Len(kinds) : kinds[i] = "intra"
<1>1. ASSUME NEW kinds, kinds \in {<<"intra">>, <<"extra", "intra">>, <<"predicted">>}
      PROVE  /\ Len(kinds) \in {1, 2} /\ DOMAIN kinds = 1 .. Len(kinds)
             /\ \A i \in 1 .. Len(kinds) : kinds[i] \in Kinds
             /\ kinds = <<"intra">> => \A i \in 1 .. Len(kinds) : kinds[i] = "intra"
  BY <1>1 DEF Kinds
<1> QED
  BY <1>1 DEF NextFrames

(* Every action keeps the types of the Sources' state.                      *)
LEMMA SourceTypeNext ==
  ASSUME TypeOK, Structure, [Next]_vars
  PROVE  SourceTypeOK'
<1> USE DEF SourceTypeOK, sourceVars
<1> USE InHand DEF TypeOK
<1>1. CASE SendMediaToServer
  BY <1>1 DEF SendMediaToServer
<1>2. CASE RemoveClosed
  BY <1>2, DeleteType DEF RemoveClosed
<1>3. CASE KeepSource
  BY <1>3 DEF KeepSource
<1>4. CASE RemovedAll
  BY <1>4 DEF RemovedAll
<1>5. CASE SkipClosed
  BY <1>5 DEF SkipClosed
<1>6. CASE Push
  <2> DEFINE s == video_list[at]
             q == cached_buffers[s]
  <2>1. s \in Sources /\ q \in Seq(Packets)
    BY <1>6 DEF Push
  <2>2. Reduced(q) \in Seq(Packets) /\ TokensReduced(q) \in Nat
    BY <2>1, ReducedLength
  <2>3. Head(todo) \in Packets
    BY <1>6, HeadTailProperties DEF Push, Structure, FlowInv
  <2>4. Append(Reduced(q), Head(todo)) \in Seq(Packets)
    BY <2>2, <2>3, AppendProperties
  <2>5. HeadAfter(s, TokensReduced(q)) \in Nat
    BY <2>1, <2>2, HeadType
  <2>6. tokens[s] - TokensReduced(q) \in Nat
    <3>1. tokens[s] >= TokensReduced(q)
      BY <1>6 DEF Push
    <3>2. tokens[s] \in Nat
      BY <2>1
    <3>3. \A a, b \in Nat : a >= b => a - b \in Nat
      OBVIOUS
    <3> HIDE DEF q, s
    <3> QED
      BY <2>2, <3>1, <3>2, <3>3
  <2> HIDE DEF s, q
  <2>7. cached_buffers' = [cached_buffers EXCEPT ![s] = Append(Reduced(q), Head(todo))]
        /\ tokens' = [tokens EXCEPT ![s] = @ - TokensReduced(q)]
        /\ head' = [head EXCEPT ![s] = HeadAfter(s, TokensReduced(q))]
        /\ UNCHANGED <<life, reading, wanted, got_iframe, shown, lost>>
    BY <1>6 DEF Push, s, q
  <2> QED
    BY <2>1, <2>4, <2>5, <2>6, <2>7
<1>7. CASE WriteToken
  <2>1. video_list[at] \in Sources
    BY <1>7 DEF WriteToken, Structure, FlowInv
  <2>2. tokens' \in [Sources -> Nat]
    <3>1. tokens' = [tokens EXCEPT ![video_list[at]] = @ + 1]
      BY <1>7 DEF WriteToken
    <3> QED
      BY <2>1, <3>1
  <2> QED
    BY <1>7, <2>2 DEF WriteToken
<1>8. CASE PushedToAll
  BY <1>8 DEF PushedToAll
<1>9. CASE LinkSource
  BY <1>9 DEF LinkSource
<1>10. CASE PopPacket
  <2>1. lsrc \in Sources
    BY <1>10 DEF PopPacket
  <2>2. CASE cached_buffers[lsrc] = <<>>
    BY <1>10, <2>1, <2>2 DEF PopPacket
  <2>3. CASE cached_buffers[lsrc] # <<>>
    <3> DEFINE q == cached_buffers[lsrc]
    <3>1. Head(q) \in Packets /\ Tail(q) \in Seq(Packets)
      BY <2>1, <2>3, HeadTailProperties
    <3>2. cached_buffers' \in [Sources -> Seq(Packets)]
      <4>1. cached_buffers' = [cached_buffers EXCEPT ![lsrc] = Tail(q)]
        BY <1>10, <2>3 DEF PopPacket
      <4> HIDE DEF q
      <4> QED
        BY <2>1, <3>1, <4>1
    <3>3. shown' \in [Sources -> Packets \cup {NoPacket}]
      <4> DEFINE p == IF wanted[lsrc] /\ Showable(lsrc, Head(q)) THEN Head(q)
                      ELSE shown[lsrc]
      <4>1. shown' = [shown EXCEPT ![lsrc] = p]
        BY <1>10, <2>3 DEF PopPacket
      <4>2. p \in Packets \cup {NoPacket}
        BY <2>1, <3>1
      <4> HIDE DEF p
      <4> QED
        BY <2>1, <4>1, <4>2
    <3>4. got_iframe' \in [Sources -> BOOLEAN]
      BY <1>10, <2>1, <2>3 DEF PopPacket
    <3>5. lost' \in [Sources -> BOOLEAN]
      BY <1>10, <2>1, <2>3 DEF PopPacket
    <3>6. reading' \in [Sources -> BOOLEAN] /\ wanted' \in [Sources -> BOOLEAN]
      BY <1>10, <2>1 DEF PopPacket
    <3> QED
      BY <1>10, <3>2, <3>3, <3>4, <3>5, <3>6 DEF PopPacket
  <2> QED
    BY <2>2, <2>3
<1>11. CASE CloseReadFd
  BY <1>11 DEF CloseReadFd
<1>12. CASE addSession
  BY <1>12 DEF addSession
<1>13. CASE removeSession
  <2>1. reading' \in [Sources -> BOOLEAN] /\ wanted' \in [Sources -> BOOLEAN]
    BY <1>13 DEF removeSession
  <2> QED
    BY <1>13, <2>1, DeleteType DEF removeSession
<1>14. CASE AnswerSender
  BY <1>14 DEF AnswerSender
<1>15. CASE incomingMsgHandler
  BY <1>15 DEF incomingMsgHandler
<1>16. ASSUME NEW s \in Sources, NewSource(s) PROVE SourceTypeOK'
  BY <1>16 DEF NewSource
<1>17. ASSUME NEW s \in Sources, doGetNextFrame(s) PROVE SourceTypeOK'
  BY <1>17 DEF doGetNextFrame
<1>18. ASSUME NEW s \in Sources, doStopGettingFrames(s) PROVE SourceTypeOK'
  BY <1>18 DEF doStopGettingFrames
<1>19. ASSUME NEW s \in Sources, CloseSource(s) PROVE SourceTypeOK'
  BY <1>19 DEF CloseSource
<1>20. ASSUME NEW s \in Sources, ReadToken(s) PROVE SourceTypeOK'
  <2>1. HeadAfter(s, 1) \in Nat
    BY HeadType
  <2> QED
    BY <1>20, <2>1 DEF ReadToken
<1>21. CASE createNewChannel
  BY <1>21 DEF createNewChannel
<1>22. CASE ChannelCreated
  BY <1>22 DEF ChannelCreated
<1>23. CASE StopAllThread
  BY <1>23 DEF StopAllThread
<1>24. CASE removeChannel
  BY <1>24 DEF removeChannel
<1>25. CASE ChannelRemoved
  BY <1>25 DEF ChannelRemoved
<1>26. CASE DestroyFlow
  BY <1>26 DEF DestroyFlow
<1>27. CASE UNCHANGED vars
  BY <1>27 DEF vars
<1> QED
  BY <1>1, <1>2, <1>3, <1>4, <1>5, <1>6, <1>7, <1>8, <1>9, <1>10, <1>11, <1>12,
     <1>13, <1>14, <1>15, <1>16, <1>17, <1>18, <1>19, <1>20, <1>21, <1>22,
     <1>23, <1>24, <1>25, <1>26, <1>27
  DEF Next, FlowThread, LoopEnds, Client, Owner

(* Every action keeps the types of the list and of the messages.            *)
LEMMA ConnTypeNext ==
  ASSUME TypeOK, Structure, [Next]_vars
  PROVE  ConnTypeOK'
<1> USE DEF ConnTypeOK, connVars
<1> USE DEF TypeOK
<1>1. CASE SendMediaToServer
  BY <1>1 DEF SendMediaToServer
<1>2. CASE RemoveClosed
  <2>1. video_list' = Without(video_list, at) /\ at \in DOMAIN video_list
    BY <1>2, InHand DEF RemoveClosed, Without
  <2>2. video_list' \in Seq(Sources)
    BY <2>1, WithoutNode
  <2>3. raced' \in BOOLEAN
    BY <1>2, Zenon DEF RemoveClosed
  <2> QED
    BY <1>2, <2>2, <2>3 DEF RemoveClosed
<1>3. CASE KeepSource
  BY <1>3 DEF KeepSource
<1>4. CASE RemovedAll
  BY <1>4 DEF RemovedAll
<1>5. CASE SkipClosed
  BY <1>5 DEF SkipClosed
<1>6. CASE Push
  BY <1>6 DEF Push
<1>7. CASE WriteToken
  BY <1>7 DEF WriteToken
<1>8. CASE PushedToAll
  BY <1>8 DEF PushedToAll
<1>9. CASE LinkSource
  <2>1. lsrc \in Sources
    BY <1>9, InHand DEF LinkSource
  <2>2. Append(video_list, lsrc) \in Seq(Sources)
    BY <2>1, AppendProperties
  <2> QED
    BY <1>9, <2>2 DEF LinkSource
<1>10. CASE PopPacket
  BY <1>10 DEF PopPacket
<1>11. CASE CloseReadFd
  BY <1>11 DEF CloseReadFd
<1>12. CASE addSession
  BY <1>12 DEF addSession
<1>13. CASE removeSession
  <2>1. <<>> \in Seq(Sources)
    BY EmptySeq
  <2> QED
    BY <1>13, <2>1 DEF removeSession
<1>14. CASE AnswerSender
  BY <1>14 DEF AnswerSender
<1>15. CASE incomingMsgHandler
  BY <1>15 DEF incomingMsgHandler
<1>16. ASSUME NEW s \in Sources, NewSource(s) PROVE ConnTypeOK'
  BY <1>16 DEF NewSource
<1>17. ASSUME NEW s \in Sources, doGetNextFrame(s) PROVE ConnTypeOK'
  BY <1>17 DEF doGetNextFrame
<1>18. ASSUME NEW s \in Sources, doStopGettingFrames(s) PROVE ConnTypeOK'
  BY <1>18 DEF doStopGettingFrames
<1>19. ASSUME NEW s \in Sources, CloseSource(s) PROVE ConnTypeOK'
  BY <1>19 DEF CloseSource
<1>20. ASSUME NEW s \in Sources, ReadToken(s) PROVE ConnTypeOK'
  BY <1>20 DEF ReadToken
<1>21. CASE createNewChannel
  BY <1>21 DEF createNewChannel, sendMessage
<1>22. CASE ChannelCreated
  BY <1>22 DEF ChannelCreated
<1>23. CASE StopAllThread
  BY <1>23 DEF StopAllThread
<1>24. CASE removeChannel
  BY <1>24 DEF removeChannel, sendMessage
<1>25. CASE ChannelRemoved
  BY <1>25 DEF ChannelRemoved
<1>26. CASE DestroyFlow
  BY <1>26 DEF DestroyFlow
<1>27. CASE UNCHANGED vars
  BY <1>27 DEF vars
<1> QED
  BY <1>1, <1>2, <1>3, <1>4, <1>5, <1>6, <1>7, <1>8, <1>9, <1>10, <1>11, <1>12,
     <1>13, <1>14, <1>15, <1>16, <1>17, <1>18, <1>19, <1>20, <1>21, <1>22,
     <1>23, <1>24, <1>25, <1>26, <1>27
  DEF Next, FlowThread, LoopEnds, Client, Owner

(* Every action keeps the types of the threads' places.                     *)
LEMMA ThreadTypeNext ==
  ASSUME TypeOK, Structure, [Next]_vars
  PROVE  ThreadTypeOK'
<1> USE DEF ThreadTypeOK, loopVars, flowVars
<1> USE DEF TypeOK
<1>1. CASE SendMediaToServer
  <2>1. PICK kinds \in NextFrames :
           /\ packets' = packets + Len(kinds)
           /\ todo' = [i \in DOMAIN kinds |-> <<kinds[i], packets + i>>]
    BY <1>1 DEF SendMediaToServer
  <2>2. Len(kinds) \in Nat /\ DOMAIN kinds = 1 .. Len(kinds)
        /\ \A i \in 1 .. Len(kinds) : kinds[i] \in Kinds
    BY <2>1, FramesToPush
  <2>3. \A i \in 1 .. Len(kinds) : <<kinds[i], packets + i>> \in Packets
    BY <2>2 DEF Packets
  <2>4. todo' \in [1 .. Len(kinds) -> Packets]
    BY <2>1, <2>2, <2>3
  <2>5. todo' \in Seq(Packets)
    BY <2>2, <2>4, SeqDef
  <2> QED
    BY <1>1, <2>1, <2>2, <2>5 DEF SendMediaToServer
<1>2. CASE RemoveClosed
  BY <1>2 DEF RemoveClosed
<1>3. CASE KeepSource
  BY <1>3 DEF KeepSource
<1>4. CASE RemovedAll
  BY <1>4 DEF RemovedAll
<1>5. CASE SkipClosed
  BY <1>5 DEF SkipClosed
<1>6. CASE Push
  BY <1>6 DEF Push
<1>7. CASE WriteToken
  BY <1>7 DEF WriteToken
<1>8. CASE PushedToAll
  <2>1. todo # <<>>
    BY <1>8 DEF PushedToAll, Structure, FlowInv
  <2>2. Tail(todo) \in Seq(Packets)
    BY <2>1, HeadTailProperties
  <2> QED
    BY <1>8, <2>2 DEF PushedToAll
<1>9. CASE LinkSource
  BY <1>9 DEF LinkSource
<1>10. CASE PopPacket
  BY <1>10 DEF PopPacket
<1>11. CASE CloseReadFd
  BY <1>11 DEF CloseReadFd
<1>12. CASE addSession
  BY <1>12 DEF addSession
<1>13. CASE removeSession
  BY <1>13 DEF removeSession
<1>14. CASE AnswerSender
  BY <1>14 DEF AnswerSender
<1>15. CASE incomingMsgHandler
  BY <1>15 DEF incomingMsgHandler
<1>16. ASSUME NEW s \in Sources, NewSource(s) PROVE ThreadTypeOK'
  <2>1. tail' \in Sources \cup {NoSource}
    <3>1. CASE video_list = <<>>
      BY <1>16, <3>1 DEF NewSource
    <3>2. CASE video_list # <<>>
      <4>1. Len(video_list) \in DOMAIN video_list
        BY <3>2, EmptySeq, InHand
      <4> QED
        BY <1>16, <3>2, <4>1, InHand DEF NewSource
    <3> QED
      BY <3>1, <3>2
  <2> QED
    BY <1>16, <2>1 DEF NewSource
<1>17. ASSUME NEW s \in Sources, doGetNextFrame(s) PROVE ThreadTypeOK'
  BY <1>17 DEF doGetNextFrame
<1>18. ASSUME NEW s \in Sources, doStopGettingFrames(s) PROVE ThreadTypeOK'
  BY <1>18 DEF doStopGettingFrames
<1>19. ASSUME NEW s \in Sources, CloseSource(s) PROVE ThreadTypeOK'
  BY <1>19 DEF CloseSource
<1>20. ASSUME NEW s \in Sources, ReadToken(s) PROVE ThreadTypeOK'
  BY <1>20 DEF ReadToken
<1>21. CASE createNewChannel
  BY <1>21 DEF createNewChannel
<1>22. CASE ChannelCreated
  BY <1>22 DEF ChannelCreated
<1>23. CASE StopAllThread
  BY <1>23 DEF StopAllThread
<1>24. CASE removeChannel
  BY <1>24 DEF removeChannel
<1>25. CASE ChannelRemoved
  BY <1>25 DEF ChannelRemoved
<1>26. CASE DestroyFlow
  BY <1>26 DEF DestroyFlow
<1>27. CASE UNCHANGED vars
  BY <1>27 DEF vars
<1> QED
  BY <1>1, <1>2, <1>3, <1>4, <1>5, <1>6, <1>7, <1>8, <1>9, <1>10, <1>11, <1>12,
     <1>13, <1>14, <1>15, <1>16, <1>17, <1>18, <1>19, <1>20, <1>21, <1>22,
     <1>23, <1>24, <1>25, <1>26, <1>27
  DEF Next, FlowThread, LoopEnds, Client, Owner

(* So TypeOK is kept.                                                       *)
LEMMA TypeNext == TypeOK /\ Structure /\ [Next]_vars => TypeOK'
  BY TypeParts, SourceTypeNext, ConnTypeNext, ThreadTypeNext
-----------------------------------------------------------------------------
(* Only the loop moves a Source on, and only when it is done with it.       *)
LEMMA LoopNext ==
  ASSUME TypeOK, Structure, [Next]_vars
  PROVE  LoopInv'
<1> USE DEF LoopInv, TypeOK, SourceTypeOK, sourceVars, loopVars
<1> USE InHand DEF Structure, NoSource, Delete
<1>1. CASE SendMediaToServer
  BY <1>1 DEF SendMediaToServer
<1>2. CASE RemoveClosed
  BY <1>2 DEF RemoveClosed
<1>3. CASE KeepSource
  BY <1>3 DEF KeepSource
<1>4. CASE RemovedAll
  BY <1>4 DEF RemovedAll
<1>5. CASE SkipClosed
  BY <1>5 DEF SkipClosed
<1>6. CASE Push
  BY <1>6 DEF Push
<1>7. CASE WriteToken
  BY <1>7 DEF WriteToken
<1>8. CASE PushedToAll
  BY <1>8 DEF PushedToAll
<1>9. CASE LinkSource
  BY <1>9 DEF LinkSource
<1>10. CASE PopPacket
  BY <1>10 DEF PopPacket
<1>11. CASE CloseReadFd
  BY <1>11 DEF CloseReadFd
<1>12. CASE addSession
  BY <1>12 DEF addSession
<1>13. CASE removeSession
  BY <1>13 DEF removeSession
<1>14. CASE AnswerSender
  BY <1>14 DEF AnswerSender
<1>15. CASE incomingMsgHandler
  BY <1>15 DEF incomingMsgHandler
<1>16. ASSUME NEW s \in Sources, NewSource(s) PROVE LoopInv'
  <2>1. /\ lpc = "idle" /\ life[s] = "none"
        /\ life' = [life EXCEPT ![s] = "new"] /\ reading' = reading
        /\ lpc' = "link" /\ lsrc' = s
    BY <1>16 DEF NewSource
  <2>2. s # 0
    BY SourcesAssumption DEF Sources
  <2> QED
    BY <2>1, <2>2
<1>17. ASSUME NEW s \in Sources, doGetNextFrame(s) PROVE LoopInv'
  BY <1>17 DEF doGetNextFrame
<1>18. ASSUME NEW s \in Sources, doStopGettingFrames(s) PROVE LoopInv'
  BY <1>18 DEF doStopGettingFrames
<1>19. ASSUME NEW s \in Sources, CloseSource(s) PROVE LoopInv'
  <2>1. /\ lpc = "idle" /\ life[s] = "open"
        /\ life' = [life EXCEPT ![s] = "closing"]
        /\ reading' = [reading EXCEPT ![s] = FALSE]
        /\ lpc' = "close" /\ lsrc' = s
    BY <1>19 DEF CloseSource
  <2>2. s # 0
    BY SourcesAssumption DEF Sources
  <2> QED
    BY <2>1, <2>2
<1>20. ASSUME NEW s \in Sources, ReadToken(s) PROVE LoopInv'
  <2>1. /\ lpc = "idle" /\ life[s] = "open" /\ life' = life
        /\ reading' = reading /\ lpc' = "pop" /\ lsrc' = s
    BY <1>20 DEF ReadToken
  <2>2. s # 0
    BY SourcesAssumption DEF Sources
  <2> QED
    BY <2>1, <2>2
<1>21. CASE createNewChannel
  BY <1>21 DEF createNewChannel
<1>22. CASE ChannelCreated
  BY <1>22 DEF ChannelCreated
<1>23. CASE StopAllThread
  BY <1>23 DEF StopAllThread
<1>24. CASE removeChannel
  BY <1>24 DEF removeChannel
<1>25. CASE ChannelRemoved
  BY <1>25 DEF ChannelRemoved
<1>26. CASE DestroyFlow
  BY <1>26 DEF DestroyFlow
<1>27. CASE UNCHANGED vars
  BY <1>27 DEF vars
<1> QED
  BY <1>1, <1>2, <1>3, <1>4, <1>5, <1>6, <1>7, <1>8, <1>9, <1>10, <1>11, <1>12,
     <1>13, <1>14, <1>15, <1>16, <1>17, <1>18, <1>19, <1>20, <1>21, <1>22,
     <1>23, <1>24, <1>25, <1>26, <1>27
  DEF Next, FlowThread, LoopEnds, Client, Owner

(* A step that leaves the list alone and takes no Source to push_back or to *)
(* its end keeps the list whole.                                            *)
LEMMA ListKept ==
  ASSUME ListInv, video_list \in Seq(Sources),
         video_list' = video_list, raced' = raced,
         \A u \in Sources : life'[u] \in Live <=> life[u] \in Live
  PROVE  ListInv'
<1>1. \A i \in DOMAIN video_list : video_list[i] \in Sources
  BY ElementOfSeq, LenProperties
<1> HIDE DEF Live
<1> QED
  BY <1>1 DEF ListInv, Listed

(* What push_back adds was not listed, and what goes is deleted.            *)
LEMMA ListNext ==
  ASSUME TypeOK, Structure, [Next]_vars
  PROVE  ListInv'
<1> USE DEF ListInv
<1> USE InHand DEF TypeOK, SourceTypeOK, Structure, Listed, Live, sourceVars, connVars
<1>1. CASE SendMediaToServer
  BY <1>1 DEF SendMediaToServer
<1>2. CASE RemoveClosed
  <2> DEFINE q == video_list
             r == Without(q, at)
  <2>1. /\ at \in DOMAIN q /\ q[at] \in Sources
        /\ life' = [u \in Sources |-> IF u \in {q[at]} THEN "deleted" ELSE life[u]]
        /\ ~ raced' => ~ raced
    BY <1>2 DEF RemoveClosed, Delete
  <2>2. video_list' = r
    BY <1>2 DEF RemoveClosed, Without
  <2>3. /\ \A j \in DOMAIN r : \E k \in DOMAIN q : k # at /\ r[j] = q[k]
        /\ \A k \in DOMAIN q : k # at => \E j \in DOMAIN r : r[j] = q[k]
        /\ \A j, k \in DOMAIN r : r[j] = r[k] => j = k
    BY <2>1, WithoutMembers
  <2> HIDE DEF r
  <2>4. \A j \in DOMAIN r : life'[r[j]] \in Live
    BY <2>1, <2>3
  <2>5. ASSUME ~ raced', NEW u \in Sources, life'[u] \in Live
        PROVE  \E j \in DOMAIN r : r[j] = u
    <3>1. u # q[at] /\ life[u] \in Live
      BY <2>1, <2>5
    <3>2. PICK k \in DOMAIN q : q[k] = u
      BY <2>1, <2>5, <3>1
    <3> QED
      BY <2>3, <3>1, <3>2
  <2> QED
    BY <2>2, <2>3, <2>4, <2>5
<1>3. CASE KeepSource
  BY <1>3 DEF KeepSource
<1>4. CASE RemovedAll
  BY <1>4 DEF RemovedAll
<1>5. CASE SkipClosed
  BY <1>5 DEF SkipClosed
<1>6. CASE Push
  BY <1>6 DEF Push
<1>7. CASE WriteToken
  BY <1>7 DEF WriteToken
<1>8. CASE PushedToAll
  BY <1>8 DEF PushedToAll
<1>9. CASE LinkSource
  <2> DEFINE q == video_list
             r == Append(q, lsrc)
  <2>1. /\ lpc = "link" /\ lsrc \in Sources /\ life[lsrc] = "new"
        /\ life' = [life EXCEPT ![lsrc] = "open"] /\ raced' = raced
    BY <1>9 DEF LinkSource, LoopInv
  <2>2. \A i \in DOMAIN q : q[i] # lsrc
    BY <2>1
  <2>3. CASE video_list' = r
    <3>1. /\ \A j \in DOMAIN r :
               (j \in DOMAIN q /\ r[j] = q[j]) \/ (j = Len(q) + 1 /\ r[j] = lsrc)
          /\ \A k \in DOMAIN q : k \in DOMAIN r /\ r[k] = q[k]
          /\ Len(q) + 1 \in DOMAIN r /\ r[Len(q) + 1] = lsrc
      BY <2>1, AppendMembers
    <3>2. \A i, j \in DOMAIN r : r[i] = r[j] => i = j
      BY <2>1, <2>2, AppendMembers
    <3> HIDE DEF r
    <3>3. \A i \in DOMAIN r : life'[r[i]] \in Live
      BY <2>1, <2>2, <3>1
    <3>4. ASSUME ~ raced', NEW u \in Sources, life'[u] \in Live
          PROVE  \E i \in DOMAIN r : r[i] = u
      <4>1. CASE u = lsrc
        BY <3>1, <4>1
      <4>2. CASE u # lsrc
        <5>1. PICK i \in DOMAIN q : q[i] = u
          BY <2>1, <3>4, <4>2
        <5> QED
          BY <3>1, <5>1
      <4> QED
        BY <4>1, <4>2
    <3> QED
      BY <2>3, <3>2, <3>3, <3>4
  <2>4. CASE raced /\ video_list' = video_list
    BY <2>1, <2>2, <2>4
  <2> QED
    BY <1>9, <2>3, <2>4 DEF LinkSource
<1>10. CASE PopPacket
  BY <1>10 DEF PopPacket
<1>11. CASE CloseReadFd
  <2>1. /\ lsrc \in Sources /\ life[lsrc] = "closing"
        /\ life' = [life EXCEPT ![lsrc] = "closed"]
        /\ video_list' = video_list /\ raced' = raced
    BY <1>11 DEF CloseReadFd, LoopInv
  <2>2. \A u \in Sources : life'[u] \in Live <=> life[u] \in Live
    BY <2>1
  <2> QED
    BY <2>1, <2>2, ListKept
<1>12. CASE addSession
  BY <1>12 DEF addSession
<1>13. CASE removeSession
  <2>1. video_list' = <<>> /\ raced' = raced
    BY <1>13 DEF removeSession
  <2>2. \A u \in Sources : ~ raced => life'[u] \notin Live
    BY <1>13 DEF removeSession, Delete
  <2> QED
    BY <2>1, <2>2
<1>14. CASE AnswerSender
  BY <1>14 DEF AnswerSender
<1>15. CASE incomingMsgHandler
  BY <1>15 DEF incomingMsgHandler
<1>16. ASSUME NEW s \in Sources, NewSource(s) PROVE ListInv'
  <2>1. /\ life[s] = "none" /\ life' = [life EXCEPT ![s] = "new"]
        /\ video_list' = video_list /\ raced' = raced
    BY <1>16 DEF NewSource
  <2>2. \A u \in Sources : life'[u] \in Live <=> life[u] \in Live
    BY <2>1
  <2> QED
    BY <2>1, <2>2, ListKept
<1>17. ASSUME NEW s \in Sources, doGetNextFrame(s) PROVE ListInv'
  BY <1>17 DEF doGetNextFrame
<1>18. ASSUME NEW s \in Sources, doStopGettingFrames(s) PROVE ListInv'
  BY <1>18 DEF doStopGettingFrames
<1>19. ASSUME NEW s \in Sources, CloseSource(s) PROVE ListInv'
  <2>1. /\ life[s] = "open" /\ life' = [life EXCEPT ![s] = "closing"]
        /\ video_list' = video_list /\ raced' = raced
    BY <1>19 DEF CloseSource
  <2>2. \A u \in Sources : life'[u] \in Live <=> life[u] \in Live
    BY <2>1
  <2> QED
    BY <2>1, <2>2, ListKept
<1>20. ASSUME NEW s \in Sources, ReadToken(s) PROVE ListInv'
  BY <1>20 DEF ReadToken
<1>21. CASE createNewChannel
  BY <1>21 DEF createNewChannel, sendMessage
<1>22. CASE ChannelCreated
  BY <1>22 DEF ChannelCreated
<1>23. CASE StopAllThread
  BY <1>23 DEF StopAllThread
<1>24. CASE removeChannel
  BY <1>24 DEF removeChannel, sendMessage
<1>25. CASE ChannelRemoved
  BY <1>25 DEF ChannelRemoved
<1>26. CASE DestroyFlow
  BY <1>26 DEF DestroyFlow
<1>27. CASE UNCHANGED vars
  BY <1>27 DEF vars
<1> QED
  BY <1>1, <1>2, <1>3, <1>4, <1>5, <1>6, <1>7, <1>8, <1>9, <1>10, <1>11, <1>12,
     <1>13, <1>14, <1>15, <1>16, <1>17, <1>18, <1>19, <1>20, <1>21, <1>22,
     <1>23, <1>24, <1>25, <1>26, <1>27
  DEF Next, FlowThread, LoopEnds, Client, Owner

(* The owner and the loop take turns; the flow's thread runs in between.    *)
LEMMA OwnerNext ==
  ASSUME TypeOK, Structure, [Next]_vars
  PROVE  OwnerInv'
<1> USE DEF OwnerInv, Sent, Handling
<1> USE DEF TypeOK, Structure, sourceVars, connVars, loopVars, flowVars
<1>1. CASE SendMediaToServer
  BY <1>1 DEF SendMediaToServer
<1>2. CASE RemoveClosed
  BY <1>2 DEF RemoveClosed
<1>3. CASE KeepSource
  BY <1>3 DEF KeepSource
<1>4. CASE RemovedAll
  BY <1>4 DEF RemovedAll
<1>5. CASE SkipClosed
  BY <1>5 DEF SkipClosed
<1>6. CASE Push
  BY <1>6 DEF Push
<1>7. CASE WriteToken
  BY <1>7 DEF WriteToken
<1>8. CASE PushedToAll
  BY <1>8 DEF PushedToAll
<1>9. CASE LinkSource
  BY <1>9 DEF LinkSource
<1>10. CASE PopPacket
  BY <1>10 DEF PopPacket
<1>11. CASE CloseReadFd
  BY <1>11 DEF CloseReadFd
<1>12. CASE addSession
  BY <1>12 DEF addSession
<1>13. CASE removeSession
  BY <1>13 DEF removeSession
<1>14. CASE AnswerSender
  BY <1>14 DEF AnswerSender
<1>15. CASE incomingMsgHandler
  BY <1>15 DEF incomingMsgHandler
<1>16. ASSUME NEW s \in Sources, NewSource(s) PROVE OwnerInv'
  BY <1>16 DEF NewSource
<1>17. ASSUME NEW s \in Sources, doGetNextFrame(s) PROVE OwnerInv'
  BY <1>17 DEF doGetNextFrame
<1>18. ASSUME NEW s \in Sources, doStopGettingFrames(s) PROVE OwnerInv'
  BY <1>18 DEF doStopGettingFrames
<1>19. ASSUME NEW s \in Sources, CloseSource(s) PROVE OwnerInv'
  BY <1>19 DEF CloseSource
<1>20. ASSUME NEW s \in Sources, ReadToken(s) PROVE OwnerInv'
  BY <1>20 DEF ReadToken
<1>21. CASE createNewChannel
  BY <1>21 DEF createNewChannel, sendMessage
<1>22. CASE ChannelCreated
  BY <1>22 DEF ChannelCreated
<1>23. CASE StopAllThread
  BY <1>23 DEF StopAllThread
<1>24. CASE removeChannel
  BY <1>24 DEF removeChannel, sendMessage
<1>25. CASE ChannelRemoved
  BY <1>25 DEF ChannelRemoved
<1>26. CASE DestroyFlow
  BY <1>26 DEF DestroyFlow
<1>27. CASE UNCHANGED vars
  BY <1>27 DEF vars
<1> QED
  BY <1>1, <1>2, <1>3, <1>4, <1>5, <1>6, <1>7, <1>8, <1>9, <1>10, <1>11, <1>12,
     <1>13, <1>14, <1>15, <1>16, <1>17, <1>18, <1>19, <1>20, <1>21, <1>22,
     <1>23, <1>24, <1>25, <1>26, <1>27
  DEF Next, FlowThread, LoopEnds, Client, Owner

(* Sources come and go with the channel.                                    *)
LEMMA SessionNext ==
  ASSUME TypeOK, Structure, [Next]_vars
  PROVE  SessionInv'
<1> USE DEF SessionInv
<1> USE DEF TypeOK, SourceTypeOK, Structure, OwnerInv, Sent, Handling, LoopInv, NoSource, sourceVars, connVars, loopVars, flowVars
<1>1. CASE SendMediaToServer
  BY <1>1 DEF SendMediaToServer
<1>2. CASE RemoveClosed
  BY <1>2 DEF RemoveClosed
<1>3. CASE KeepSource
  BY <1>3 DEF KeepSource
<1>4. CASE RemovedAll
  BY <1>4 DEF RemovedAll
<1>5. CASE SkipClosed
  BY <1>5 DEF SkipClosed
<1>6. CASE Push
  BY <1>6 DEF Push
<1>7. CASE WriteToken
  BY <1>7 DEF WriteToken
<1>8. CASE PushedToAll
  BY <1>8 DEF PushedToAll
<1>9. CASE LinkSource
  BY <1>9 DEF LinkSource
<1>10. CASE PopPacket
  BY <1>10 DEF PopPacket
<1>11. CASE CloseReadFd
  BY <1>11 DEF CloseReadFd
<1>12. CASE addSession
  BY <1>12 DEF addSession
<1>13. CASE removeSession
  BY <1>13 DEF removeSession
<1>14. CASE AnswerSender
  BY <1>14 DEF AnswerSender
<1>15. CASE incomingMsgHandler
  BY <1>15 DEF incomingMsgHandler
<1>16. ASSUME NEW s \in Sources, NewSource(s) PROVE SessionInv'
  BY <1>16 DEF NewSource
<1>17. ASSUME NEW s \in Sources, doGetNextFrame(s) PROVE SessionInv'
  BY <1>17 DEF doGetNextFrame
<1>18. ASSUME NEW s \in Sources, doStopGettingFrames(s) PROVE SessionInv'
  BY <1>18 DEF doStopGettingFrames
<1>19. ASSUME NEW s \in Sources, CloseSource(s) PROVE SessionInv'
  BY <1>19 DEF CloseSource
<1>20. ASSUME NEW s \in Sources, ReadToken(s) PROVE SessionInv'
  BY <1>20 DEF ReadToken
<1>21. CASE createNewChannel
  BY <1>21 DEF createNewChannel, sendMessage
<1>22. CASE ChannelCreated
  BY <1>22 DEF ChannelCreated
<1>23. CASE StopAllThread
  BY <1>23 DEF StopAllThread
<1>24. CASE removeChannel
  BY <1>24 DEF removeChannel, sendMessage
<1>25. CASE ChannelRemoved
  BY <1>25 DEF ChannelRemoved
<1>26. CASE DestroyFlow
  BY <1>26 DEF DestroyFlow
<1>27. CASE UNCHANGED vars
  BY <1>27 DEF vars
<1> QED
  BY <1>1, <1>2, <1>3, <1>4, <1>5, <1>6, <1>7, <1>8, <1>9, <1>10, <1>11, <1>12,
     <1>13, <1>14, <1>15, <1>16, <1>17, <1>18, <1>19, <1>20, <1>21, <1>22,
     <1>23, <1>24, <1>25, <1>26, <1>27
  DEF Next, FlowThread, LoopEnds, Client, Owner

(* The iterator never leaves the list.                                      *)
LEMMA FlowNext ==
  ASSUME TypeOK, Structure, [Next]_vars
  PROVE  FlowInv'
<1> USE DEF FlowInv
<1> USE InHand DEF TypeOK, Structure, sourceVars, connVars, loopVars, flowVars
<1>1. CASE SendMediaToServer
  <2>1. PICK kinds \in NextFrames : todo' = [i \in DOMAIN kinds |-> <<kinds[i], packets + i>>]
    BY <1>1 DEF SendMediaToServer
  <2>2. 1 \in DOMAIN todo'
    BY <2>1, FramesToPush
  <2>3. todo' # <<>>
    BY <2>2
  <2> QED
    BY <1>1, <2>3 DEF SendMediaToServer
<1>2. CASE RemoveClosed
  <2>1. at \in DOMAIN video_list /\ video_list' = Without(video_list, at)
    BY <1>2 DEF RemoveClosed, Without
  <2>2. Len(video_list') = Len(video_list) - 1
    BY <2>1, WithoutNode
  <2>3. fpc = "remove" /\ UNCHANGED <<fpc, todo, at>>
    BY <1>2 DEF RemoveClosed
  <2> QED
    BY <2>1, <2>2, <2>3
<1>3. CASE KeepSource
  BY <1>3 DEF KeepSource
<1>4. CASE RemovedAll
  BY <1>4 DEF RemovedAll
<1>5. CASE SkipClosed
  BY <1>5 DEF SkipClosed
<1>6. CASE Push
  BY <1>6 DEF Push
<1>7. CASE WriteToken
  BY <1>7 DEF WriteToken
<1>8. CASE PushedToAll
  <2>1. /\ fpc = "push" /\ todo' = Tail(todo) /\ at' = 1 /\ video_list' = video_list
        /\ fpc' = IF Len(todo) > 1 THEN "remove" ELSE "idle"
    BY <1>8 DEF PushedToAll
  <2>2. todo \in Seq(Packets) /\ todo # <<>>
    BY <2>1
  <2>4. todo' # <<>> <=> Len(todo) > 1
    BY <2>1, <2>2, TailLeft
  <2> QED
    BY <2>1, <2>4
<1>9. CASE LinkSource
  <2>1. lsrc \in Sources /\ UNCHANGED <<fpc, todo, at>>
    BY <1>9 DEF LinkSource
  <2>2. video_list' = video_list \/ video_list' = Append(video_list, lsrc)
    BY <1>9 DEF LinkSource
  <2>3. Len(video_list') \in {Len(video_list), Len(video_list) + 1}
    BY <2>1, <2>2, AppendProperties
  <2> QED
    BY <2>1, <2>3
<1>10. CASE PopPacket
  BY <1>10 DEF PopPacket
<1>11. CASE CloseReadFd
  BY <1>11 DEF CloseReadFd
<1>12. CASE addSession
  BY <1>12 DEF addSession
<1>13. CASE removeSession
  <2>1. fpc = "done" /\ video_list' = <<>> /\ UNCHANGED <<fpc, todo, at>>
    BY <1>13 DEF removeSession, OwnerInv, Sent, Handling
  <2>2. Len(video_list') = 0
    BY <2>1
  <2> QED
    BY <2>1, <2>2
<1>14. CASE AnswerSender
  BY <1>14 DEF AnswerSender
<1>15. CASE incomingMsgHandler
  BY <1>15 DEF incomingMsgHandler
<1>16. ASSUME NEW s \in Sources, NewSource(s) PROVE FlowInv'
  BY <1>16 DEF NewSource
<1>17. ASSUME NEW s \in Sources, doGetNextFrame(s) PROVE FlowInv'
  BY <1>17 DEF doGetNextFrame
<1>18. ASSUME NEW s \in Sources, doStopGettingFrames(s) PROVE FlowInv'
  BY <1>18 DEF doStopGettingFrames
<1>19. ASSUME NEW s \in Sources, CloseSource(s) PROVE FlowInv'
  BY <1>19 DEF CloseSource
<1>20. ASSUME NEW s \in Sources, ReadToken(s) PROVE FlowInv'
  BY <1>20 DEF ReadToken
<1>21. CASE createNewChannel
  BY <1>21 DEF createNewChannel, sendMessage
<1>22. CASE ChannelCreated
  BY <1>22 DEF ChannelCreated
<1>23. CASE StopAllThread
  BY <1>23 DEF StopAllThread
<1>24. CASE removeChannel
  BY <1>24 DEF removeChannel, sendMessage
<1>25. CASE ChannelRemoved
  BY <1>25 DEF ChannelRemoved
<1>26. CASE DestroyFlow
  BY <1>26 DEF DestroyFlow
<1>27. CASE UNCHANGED vars
  BY <1>27 DEF vars
<1> QED
  BY <1>1, <1>2, <1>3, <1>4, <1>5, <1>6, <1>7, <1>8, <1>9, <1>10, <1>11, <1>12,
     <1>13, <1>14, <1>15, <1>16, <1>17, <1>18, <1>19, <1>20, <1>21, <1>22,
     <1>23, <1>24, <1>25, <1>26, <1>27
  DEF Next, FlowThread, LoopEnds, Client, Owner

(* Nothing listed, nothing sent, nobody at work.                            *)
LEMMA StructureInit == Init => Structure
<1> SUFFICES ASSUME Init PROVE Structure
  OBVIOUS
<1> USE DEF Init
<1>1. LoopInv
  BY DEF LoopInv
<1>2. ListInv
  BY DEF ListInv, Live
<1>3. OwnerInv
  BY DEF OwnerInv, Handling
<1>4. SessionInv
  BY DEF SessionInv
<1>5. FlowInv
  BY EmptySeq DEF FlowInv
<1> QED
  BY <1>1, <1>2, <1>3, <1>4, <1>5 DEF Structure

(* Every reachable state is well typed and has this structure.              *)
THEOREM StructureCorrect == Spec => [](TypeOK /\ Structure)
<1>1. Init => TypeOK /\ Structure
  BY TypeInit, StructureInit
<1>2. TypeOK /\ Structure /\ [Next]_vars => TypeOK' /\ Structure'
  BY TypeNext, LoopNext, ListNext, OwnerNext, SessionNext, FlowNext DEF Structure
<1> QED
  BY <1>1, <1>2, PTL DEF Spec

(* TypeOK holds in every reachable state.                                   *)
THEOREM TypeCorrect == Spec => []TypeOK
BY StructureCorrect, PTL

(* Neither the event loop nor the flow's thread uses a Source after its     *)
(* delete, and the flow's thread runs only while the channel is there.      *)
THEOREM NoUseAfterDeleteCorrect == Spec => []NoUseAfterDelete
<1>1. TypeOK /\ Structure => NoUseAfterDelete
  <2> SUFFICES ASSUME TypeOK, Structure PROVE NoUseAfterDelete
    OBVIOUS
  <2>1. lsrc # NoSource => Alive(lsrc)
    BY DEF Structure, LoopInv, Alive
  <2>2. \A i \in DOMAIN video_list : Alive(video_list[i])
    BY DEF Structure, ListInv, Live, Alive
  <2>3. \A s \in Sources : reading[s] => life[s] = "open"
    BY DEF Structure, LoopInv
  <2>4. fpc \in {"remove", "push", "write"} => session = "open"
    BY DEF TypeOK, Structure, OwnerInv
  <2> QED
    BY <2>1, <2>2, <2>3, <2>4 DEF NoUseAfterDelete
<1> QED
  BY <1>1, StructureCorrect, PTL

(* When the channel is gone every Source was deleted, unless two threads    *)
(* damaged the list.                                                        *)
THEOREM AllDeletedCorrect == Spec => []AllDeleted
<1>1. TypeOK /\ Structure => AllDeleted
  <2> SUFFICES ASSUME TypeOK, Structure, owner = "destroyed", ~ raced,
                      NEW s \in Sources
               PROVE  life[s] \in {"none", "deleted"}
    BY DEF AllDeleted
  <2>1. session = "removed" /\ video_list = <<>> /\ lpc # "link"
    BY DEF Structure, OwnerInv, SessionInv
  <2>2. life[s] # "new"
    BY <2>1 DEF Structure, LoopInv
  <2>3. life[s] \notin Live
    BY <2>1 DEF Structure, ListInv, Listed
  <2> QED
    BY <2>2, <2>3 DEF TypeOK, SourceTypeOK, Live
<1> QED
  BY <1>1, StructureCorrect, PTL
-----------------------------------------------------------------------------
(* Tokens: one for each cached packet, in the pipe, in the loop's hand or   *)
(* about to be written.                                                     *)
InLoop(s) == IF lpc = "pop" /\ lsrc = s THEN 1 ELSE 0
InFlow(s) == IF Pushing(s) THEN 1 ELSE 0

(* The flow's thread writes for one listed Source, which is not moved while *)
(* it does.                                                                 *)
LEMMA PushingListed ==
  ASSUME TypeOK, Structure, fpc = "write"
  PROVE  at \in DOMAIN video_list /\ video_list[at] \in Sources
         /\ \A s \in Sources : Pushing(s) <=> s = video_list[at]
BY InHand DEF Structure, FlowInv, Pushing

(* A token too few would leave a packet in the cache: no step does that.    *)
LEMMA TokenNext ==
  ASSUME TypeOK, Structure, TokenForEach, TypeOK', Structure', [Next]_vars
  PROVE  TokenForEach'
<1> DEFINE For(s) == Len(cached_buffers[s]) <= tokens[s] + InLoop(s) + InFlow(s)
<1>a. TokenForEach <=> \A s \in Sources : For(s)
  BY DEF TokenForEach, InLoop, InFlow
<1>b. TokenForEach' <=> \A s \in Sources : For(s)'
  BY DEF TokenForEach, InLoop, InFlow
<1>c. \A s \in Sources : /\ tokens[s] \in Nat /\ tokens'[s] \in Nat
                         /\ Len(cached_buffers[s]) \in Nat
  BY InHand DEF TypeOK, SourceTypeOK
<1> SUFFICES ASSUME NEW s \in Sources PROVE For(s)'
  BY <1>b
<1>d. For(s)
  BY <1>a
<1> USE DEF InLoop, InFlow, Pushing
<1>e. ASSUME UNCHANGED <<cached_buffers, tokens, lpc, lsrc>>,
             fpc # "write", fpc' # "write"
      PROVE  For(s)'
  BY <1>d, <1>e
<1>f. ASSUME UNCHANGED <<cached_buffers, tokens, fpc, at, video_list>>,
             lpc # "pop", lpc' # "pop"
      PROVE  For(s)'
  BY <1>d, <1>f
<1>1. CASE SendMediaToServer
  BY <1>1, <1>e DEF SendMediaToServer, sourceVars, loopVars
<1>2. CASE RemoveClosed
  <2>1. CASE s = video_list[at]
    <3>1. cached_buffers'[s] = <<>> /\ tokens'[s] = 0
      BY <1>2, <2>1 DEF RemoveClosed, Delete
    <3>2. Len(cached_buffers'[s]) = 0
      BY <3>1
    <3> QED
      BY <3>1, <3>2
  <2>2. CASE s # video_list[at]
    <3>1. cached_buffers'[s] = cached_buffers[s] /\ tokens'[s] = tokens[s]
          /\ fpc = "remove" /\ fpc' = fpc /\ UNCHANGED <<lpc, lsrc>>
      BY <1>2, <2>2 DEF RemoveClosed, Delete, flowVars, loopVars
    <3> QED
      BY <1>d, <3>1
  <2> QED
    BY <2>1, <2>2
<1>3. CASE KeepSource
  BY <1>3, <1>e DEF KeepSource, sourceVars, loopVars
<1>4. CASE RemovedAll
  BY <1>4, <1>e DEF RemovedAll, sourceVars, loopVars
<1>5. CASE SkipClosed
  BY <1>5, <1>e DEF SkipClosed, sourceVars, loopVars
<1>6. CASE Push
  <2> DEFINE q == cached_buffers[s]
  <2>1. /\ fpc = "push" /\ fpc' = "write" /\ at' = at /\ video_list' = video_list
        /\ UNCHANGED <<lpc, lsrc>> /\ at \in DOMAIN video_list
        /\ video_list[at] \in Sources
    BY <1>6, InHand DEF Push, connVars, loopVars
  <2>2. CASE s = video_list[at]
    <3>1. /\ cached_buffers'[s] = Append(Reduced(q), Head(todo))
          /\ tokens'[s] = tokens[s] - TokensReduced(q)
      BY <1>6, <2>2 DEF Push, TypeOK, SourceTypeOK
    <3>2. q \in Seq(Packets) /\ codec \in Codecs
      BY InHand DEF TypeOK
    <3>3. /\ Reduced(q) \in Seq(Packets) /\ TokensReduced(q) \in Nat
          /\ Len(Reduced(q)) + TokensReduced(q) <= Len(q)
      BY <3>2, ReducedLength
    <3>4. Head(todo) \in Packets
      BY <2>1, HeadTailProperties DEF TypeOK, Structure, FlowInv
    <3>5. Len(Append(Reduced(q), Head(todo))) = Len(Reduced(q)) + 1
          /\ Len(Reduced(q)) \in Nat
      BY <3>3, <3>4, AppendProperties, LenProperties
    <3>6. InFlow(s) = 0 /\ InFlow(s)' = 1 /\ InLoop(s)' = InLoop(s) /\ InLoop(s) \in {0, 1}
      BY <2>1, <2>2
    <3> HIDE DEF q, InLoop, InFlow
    <3>7. Len(q) <= tokens[s] + InLoop(s) /\ Len(q) \in Nat /\ tokens[s] \in Nat
      BY <1>c, <1>d, <3>6 DEF q
    <3>8. Len(cached_buffers'[s]) = Len(Reduced(q)) + 1
      BY <3>1, <3>5
    <3>9. Len(Reduced(q)) + 1 <= tokens[s] - TokensReduced(q) + InLoop(s) + 1
      <4>1. \A a, b, c, d, e \in Int : a + b <= c /\ c <= d + e => a + 1 <= d - b + e + 1
        OBVIOUS
      <4>2. Len(Reduced(q)) \in Int /\ TokensReduced(q) \in Int /\ Len(q) \in Int
            /\ tokens[s] \in Int /\ InLoop(s) \in Int
        BY <3>3, <3>5, <3>6, <3>7
      <4> QED
        BY <3>3, <3>7, <4>1, <4>2
    <3>10. tokens'[s] + InLoop(s)' + InFlow(s)' = tokens[s] - TokensReduced(q) + InLoop(s) + 1
      BY <3>1, <3>6
    <3> QED
      BY <3>8, <3>9, <3>10
  <2>3. CASE s # video_list[at]
    <3>1. cached_buffers'[s] = cached_buffers[s] /\ tokens'[s] = tokens[s]
      BY <1>6, <2>3 DEF Push, TypeOK, SourceTypeOK
    <3> QED
      BY <1>d, <2>1, <2>3, <3>1
  <2> QED
    BY <2>2, <2>3
<1>7. CASE WriteToken
  <2>1. /\ fpc = "write" /\ fpc' = "push" /\ cached_buffers' = cached_buffers
        /\ UNCHANGED <<lpc, lsrc>>
        /\ tokens' = [tokens EXCEPT ![video_list[at]] = @ + 1]
    BY <1>7 DEF WriteToken, loopVars
  <2>2. tokens'[s] = IF s = video_list[at] THEN tokens[s] + 1 ELSE tokens[s]
    BY <2>1 DEF TypeOK, SourceTypeOK
  <2> QED
    BY <1>c, <1>d, <2>1, <2>2
<1>8. CASE PushedToAll
  BY <1>8, <1>e DEF PushedToAll, sourceVars, loopVars
<1>9. CASE LinkSource
  <2>1. UNCHANGED <<cached_buffers, tokens, fpc, at>> /\ lpc = "link" /\ lpc' = "idle"
    BY <1>9 DEF LinkSource, flowVars
  <2>2. fpc = "write" => video_list'[at] = video_list[at]
    <3>1. lsrc \in Sources /\ video_list \in Seq(Sources)
      BY <2>1, InHand DEF TypeOK
    <3>2. fpc = "write" => at \in 1 .. Len(video_list)
      BY InHand, PushingListed
    <3>3. video_list' = video_list \/ video_list' = Append(video_list, lsrc)
      BY <1>9 DEF LinkSource
    <3> QED
      BY <3>1, <3>2, <3>3, AppendProperties
  <2> QED
    BY <1>d, <2>1, <2>2
<1>10. CASE PopPacket
  <2>1. /\ lpc = "pop" /\ lpc' = "idle" /\ ~ Pushing(lsrc) /\ tokens' = tokens
        /\ UNCHANGED <<fpc, at, video_list>> /\ lsrc \in Sources
    BY <1>10, InHand DEF PopPacket, flowVars, connVars
  <2>2. CASE s # lsrc
    <3>1. cached_buffers'[s] = cached_buffers[s]
      BY <1>10, <2>1, <2>2 DEF PopPacket, TypeOK, SourceTypeOK
    <3> QED
      BY <1>d, <2>1, <2>2, <3>1
  <2>3. CASE s = lsrc /\ cached_buffers[s] = <<>>
    <3>1. cached_buffers'[s] = <<>>
      BY <1>10, <2>3 DEF PopPacket
    <3>2. Len(cached_buffers'[s]) = 0
      BY <3>1
    <3> QED
      BY <1>c, <2>1, <3>2
  <2>4. CASE s = lsrc /\ cached_buffers[s] # <<>>
    <3>1. cached_buffers'[s] = Tail(cached_buffers[s])
      BY <1>10, <2>1, <2>4 DEF PopPacket, TypeOK, SourceTypeOK
    <3>2. Len(Tail(cached_buffers[s])) = Len(cached_buffers[s]) - 1
      BY <2>4, InHand, HeadTailProperties
    <3>3. Len(cached_buffers[s]) <= tokens[s] + 1
      BY <1>c, <1>d, <2>1, <2>4
    <3>4. Len(cached_buffers'[s]) <= tokens'[s]
      BY <1>c, <2>1, <3>1, <3>2, <3>3
    <3> QED
      BY <1>c, <2>1, <2>4, <3>4
  <2> QED
    BY <2>2, <2>3, <2>4
<1>11. CASE CloseReadFd
  BY <1>11, <1>f DEF CloseReadFd, flowVars, connVars
<1>12. CASE addSession
  BY <1>12, <1>f DEF addSession, flowVars, sourceVars
<1>13. CASE removeSession
  <2>1. /\ fpc = "done" /\ fpc' = fpc /\ lpc = "RemoveSession" /\ lpc' = "answer"
    BY <1>13
    DEF removeSession, flowVars, Structure, OwnerInv, Sent, Handling, TypeOK
  <2>2. CASE s \in Listed
    <3>1. cached_buffers'[s] = <<>> /\ tokens'[s] = 0
      BY <1>13, <2>2 DEF removeSession, Delete
    <3>2. Len(cached_buffers'[s]) = 0
      BY <3>1
    <3> QED
      BY <3>1, <3>2
  <2>3. CASE s \notin Listed
    <3>1. cached_buffers'[s] = cached_buffers[s] /\ tokens'[s] = tokens[s]
      BY <1>13, <2>3 DEF removeSession, Delete
    <3> QED
      BY <1>d, <2>1, <3>1
  <2> QED
    BY <2>2, <2>3
<1>14. CASE AnswerSender
  BY <1>14, <1>f DEF AnswerSender, flowVars, sourceVars
<1>15. CASE incomingMsgHandler
  BY <1>15, <1>f DEF incomingMsgHandler, flowVars, sourceVars, TypeOK
<1>16. ASSUME NEW u \in Sources, NewSource(u) PROVE For(s)'
  BY <1>16, <1>f DEF NewSource, flowVars, connVars
<1>17. ASSUME NEW u \in Sources, doGetNextFrame(u) PROVE For(s)'
  BY <1>17, <1>f DEF doGetNextFrame, loopVars, flowVars, connVars
<1>18. ASSUME NEW u \in Sources, doStopGettingFrames(u) PROVE For(s)'
  BY <1>18, <1>f DEF doStopGettingFrames, loopVars, flowVars, connVars
<1>19. ASSUME NEW u \in Sources, CloseSource(u) PROVE For(s)'
  BY <1>19, <1>f DEF CloseSource, flowVars, connVars
<1>20. ASSUME NEW u \in Sources, ReadToken(u) PROVE For(s)'
  <2>1. /\ lpc = "idle" /\ lpc' = "pop" /\ lsrc' = u /\ tokens[u] > 0
        /\ tokens' = [tokens EXCEPT ![u] = @ - 1]
        /\ UNCHANGED <<cached_buffers, fpc, at, video_list>>
    BY <1>20 DEF ReadToken, flowVars, connVars
  <2>2. tokens'[s] = IF s = u THEN tokens[s] - 1 ELSE tokens[s]
    BY <2>1 DEF TypeOK, SourceTypeOK
  <2> QED
    BY <1>c, <1>d, <2>1, <2>2
<1>21. CASE Owner \/ DestroyFlow
  <2>1. UNCHANGED <<cached_buffers, tokens, lpc, lsrc, at, video_list>>
        /\ (fpc' = fpc \/ (fpc = "idle" /\ fpc' = "done"))
    BY <1>21
    DEF Owner, DestroyFlow, createNewChannel, ChannelCreated, StopAllThread,
                 removeChannel, ChannelRemoved, sendMessage, sourceVars, loopVars,
                 flowVars, connVars
  <2> QED
    BY <1>d, <2>1
<1>22. CASE UNCHANGED vars
  BY <1>d, <1>22 DEF vars, sourceVars, loopVars, flowVars, connVars
<1> QED
  BY <1>1, <1>2, <1>3, <1>4, <1>5, <1>6, <1>7, <1>8, <1>9, <1>10, <1>11, <1>12,
     <1>13,
     <1>14, <1>15, <1>16, <1>17, <1>18, <1>19, <1>20, <1>21, <1>22
     DEF Next, FlowThread, LoopEnds, Client

(* Every cached packet has a token that will make the loop fetch it.        *)
THEOREM TokenForEachCorrect == Spec => []TokenForEach
<1>1. Init => TokenForEach
  <2> SUFFICES ASSUME Init, NEW s \in Sources
               PROVE  Len(cached_buffers[s]) <= tokens[s] + InLoop(s) + InFlow(s)
    BY DEF TokenForEach, InLoop, InFlow
  <2>1. Len(cached_buffers[s]) = 0 /\ tokens[s] = 0
    BY DEF Init
  <2> QED
    BY <2>1 DEF InLoop, InFlow
<1>2. TypeOK /\ Structure /\ TokenForEach /\ (TypeOK /\ Structure)' /\ [Next]_vars
        => TokenForEach'
  BY TokenNext
<1> QED
  BY <1>1, <1>2, StructureCorrect, PTL DEF Spec
-----------------------------------------------------------------------------
(* The order of packets.  Given is the number of the last packet that every *)
(* listed Source was offered, and Offered tells which Sources the one that  *)
(* is being pushed was offered to.                                          *)
Given == packets - Len(todo)

Offered(s) ==
  \E i \in DOMAIN video_list :
    /\ video_list[i] = s
    /\ (fpc \in {"push", "write"} /\ i < at) \/ (fpc = "write" /\ i = at)

Latest(s) == IF Offered(s) THEN Given + 1 ELSE Given

(* What is to be pushed is numbered on from Given.                          *)
TodoInv ==
  /\ Len(todo) <= packets
  /\ \A i \in DOMAIN todo : Number(todo[i]) = Given + i
  /\ codec = "jpeg" => \A i \in DOMAIN todo : Kind(todo[i]) = "intra"

(* A cache in the encoder's order, in which a predicted frame follows the   *)
(* packet it builds on.                                                     *)
Increasing(q) ==
  \A i, j \in DOMAIN q : i < j => Number(q[i]) < Number(q[j])

Chained(q) ==
  \A i \in DOMAIN q :
    i > 1 /\ Kind(q[i]) = "predicted" => Number(q[i]) = Number(q[i - 1]) + 1

AllIntra(q) == codec = "jpeg" => \A i \in DOMAIN q : Kind(q[i]) = "intra"

(* The cache lies between what was shown and what was offered.              *)
CacheOrder(s) ==
  LET q == cached_buffers[s] IN
  /\ Increasing(q) /\ Chained(q) /\ AllIntra(q)
  /\ \A i \in DOMAIN q :
       Number(shown[s]) < Number(q[i]) /\ Number(q[i]) <= Latest(s)
  /\ Number(shown[s]) <= Latest(s)

(* A Source that is pushed to has everything it was offered, up to the last *)
(* packet.                                                                  *)
CacheFresh(s) ==
  LET q == cached_buffers[s] IN
  s \in Listed /\ life[s] # "closed" =>
    /\ q # <<>> => Number(q[Len(q)]) = Latest(s)
    /\ q = <<>> /\ got_iframe[s] /\ ~ lost[s] => Number(shown[s]) = Latest(s)

(* A predicted frame at the head builds on what was shown.                  *)
CacheBase(s) ==
  LET q == cached_buffers[s] IN
  got_iframe[s] /\ ~ lost[s] =>
    /\ shown[s] # NoPacket
    /\ q # <<>> /\ Kind(q[1]) = "predicted" =>
         Number(q[1]) = Number(shown[s]) + 1

(* A Source that is not listed was never pushed to.                         *)
Unlisted(s) ==
  s \notin Listed =>
    cached_buffers[s] = <<>> /\ ~ got_iframe[s] /\ shown[s] = NoPacket

QueueOK(s) == CacheOrder(s) /\ CacheFresh(s) /\ CacheBase(s) /\ Unlisted(s)

QueueInv == TodoInv /\ \A s \in Sources : QueueOK(s)
-----------------------------------------------------------------------------
(* Kinds and numbers of packets.                                            *)
LEMMA PacketParts ==
  /\ \A p \in Packets : Number(p) \in Nat /\ Kind(p) \in Kinds /\ p # NoPacket
  /\ Number(NoPacket) = 0 /\ Kind(NoPacket) = "none"
BY DEF Packets, Kinds, Number, Kind, NoPacket

(* An empty cache is in order.                                              *)
LEMMA EmptyCache ==
  Increasing(<<>>) /\ Chained(<<>>) /\ AllIntra(<<>>)
BY DEF Increasing, Chained, AllIntra

(* A cut before an I frame that leaves parameter sets keeps a cache in      *)
(* order.                                                                   *)
LEMMA CutOrder ==
  ASSUME NEW q \in Seq(Packets), Increasing(q), Chained(q),
         NEW r, NEW n, NEW k, Cut(q, r, n, k), Kind(q[k]) = "intra",
         \A i \in 1 .. n : Kind(q[i]) = "extra"
  PROVE  /\ r \in Seq(Packets) /\ Increasing(r) /\ Chained(r)
         /\ \A i \in DOMAIN r : \E j \in DOMAIN q : r[i] = q[j]
         /\ r # <<>> /\ Kind(r[1]) # "predicted" /\ r[Len(r)] = q[Len(q)]
<1>1. /\ n \in Nat /\ k \in Nat /\ n < k /\ k <= Len(q) /\ Len(q) \in Nat
      /\ r \in Seq(Packets) /\ Len(r) = n + Len(q) - k + 1
      /\ \A i \in DOMAIN r : r[i] = IF i <= n THEN q[i] ELSE q[i - n + k - 1]
  BY CutElements
<1>2. DOMAIN q = 1 .. Len(q) /\ DOMAIN r = 1 .. n + Len(q) - k + 1
  BY <1>1, LenProperties
<1> DEFINE Old(i) == IF i <= n THEN i ELSE i - n + k - 1
<1>3. \A i \in DOMAIN r : i \in Nat /\ Old(i) \in DOMAIN q
  BY <1>1, <1>2
<1>4. \A i \in DOMAIN r : r[i] = q[Old(i)]
  BY <1>1
<1>5. \A i, j \in DOMAIN r : i < j => Old(i) < Old(j)
  BY <1>1, <1>3
<1>6. Increasing(r)
  <2> SUFFICES ASSUME NEW i \in DOMAIN r, NEW j \in DOMAIN r, i < j
               PROVE  Number(r[i]) < Number(r[j])
    BY DEF Increasing
  <2>1. Old(i) < Old(j) /\ Old(i) \in DOMAIN q /\ Old(j) \in DOMAIN q
    BY <1>3, <1>5
  <2>2. r[i] = q[Old(i)] /\ r[j] = q[Old(j)]
    BY <1>4
  <2> HIDE DEF Old
  <2> QED
    BY <2>1, <2>2 DEF Increasing
<1>7. Chained(r)
  <2> SUFFICES ASSUME NEW i \in DOMAIN r, i > 1, Kind(r[i]) = "predicted"
               PROVE  Number(r[i]) = Number(r[i - 1]) + 1
    BY DEF Chained
  <2>1. i \in Nat /\ r[i] = q[Old(i)] /\ Old(i) \in DOMAIN q
    BY <1>3, <1>4
  <2>0. i \in Nat /\ n \in Nat /\ k \in Nat /\ n < k
    BY <1>1, <2>1
  <2>2. CASE i <= n
    <3>1. r[i] = q[i] /\ i \in 1 .. n
      BY <1>1, <2>1, <2>2
    <3> QED
      BY <3>1
  <2>3. CASE i = n + 1
    <3>1. Old(i) = k
      BY <1>1, <2>3
    <3> QED
      BY <2>1, <3>1
  <2>4. CASE i > n + 1
    <3>1. i - 1 \in DOMAIN r
      BY <1>1, <1>2, <2>1
    <3>2. Old(i - 1) = Old(i) - 1 /\ Old(i) > 1
      BY <2>0, <2>4
    <3>3. r[i - 1] = q[Old(i) - 1]
      BY <1>4, <3>1, <3>2
    <3> HIDE DEF Old
    <3> QED
      BY <2>1, <3>2, <3>3 DEF Chained
  <2> QED
    <3>1. i <= n \/ i = n + 1 \/ i > n + 1
      BY <2>0
    <3> QED
      BY <2>2, <2>3, <2>4, <3>1
<1>8. \A i \in DOMAIN r : \E j \in DOMAIN q : r[i] = q[j]
  BY <1>3, <1>4
<1>9. Len(r) \in DOMAIN r /\ 1 \in DOMAIN r
  BY <1>1, <1>2
<1>10. r[Len(r)] = q[Len(q)]
  <2>1. Old(Len(r)) = Len(q)
    BY <1>1
  <2> QED
    BY <1>4, <1>9, <2>1
<1>11. Kind(r[1]) # "predicted"
  <2>1. CASE n = 0
    <3>1. r[1] = q[k]
      <4>1. Old(1) = k
        BY <1>1, <2>1
      <4> QED
        BY <1>4, <1>9, <4>1
    <3> QED
      BY <3>1
  <2>2. CASE n > 0
    <3>1. r[1] = q[1] /\ 1 \in 1 .. n
      BY <1>1, <1>9, <2>2
    <3> QED
      BY <3>1
  <2> QED
    BY <1>1, <2>1, <2>2
<1> QED
  BY <1>1, <1>6, <1>7, <1>8, <1>9, <1>10, <1>11

(* So does either reduction: what is left is a cache in order, it ends as   *)
(* before, and it begins with a predicted frame only if it did before.      *)
LEMMA ReducedOrder ==
  ASSUME codec \in Codecs, NEW q \in Seq(Packets), Increasing(q), Chained(q),
         AllIntra(q)
  PROVE  LET r == Reduced(q) IN
         /\ r \in Seq(Packets) /\ Increasing(r) /\ Chained(r)
         /\ \A i \in DOMAIN r : \E j \in DOMAIN q : r[i] = q[j]
         /\ q # <<>> => r # <<>> /\ r[Len(r)] = q[Len(q)]
         /\ r # <<>> /\ Kind(r[1]) = "predicted" => r[1] = q[1]
<1> DEFINE r == Reduced(q)
<1>1. CASE r = q
  BY <1>1
<1>2. CASE r # q /\ codec = "jpeg"
  <2>1. r = common_reduction(q)
    BY <1>2 DEF Reduced
  <2>2. PICK k : Cut(q, r, 0, k)
    BY <1>2, <2>1, CommonCut
  <2>3. k \in DOMAIN q
    BY <2>2 DEF Cut
  <2>4. Kind(q[k]) = "intra"
    BY <1>2, <2>3 DEF AllIntra
  <2> HIDE DEF r
  <2>5. /\ r \in Seq(Packets) /\ Increasing(r) /\ Chained(r)
        /\ \A i \in DOMAIN r : \E j \in DOMAIN q : r[i] = q[j]
        /\ r # <<>> /\ Kind(r[1]) # "predicted" /\ r[Len(r)] = q[Len(q)]
    BY <2>2, <2>4, CutOrder
  <2> QED
    BY <2>5 DEF r
<1>3. CASE r # q /\ codec # "jpeg"
  <2>1. r = h264_packet_reduction(q)
    BY <1>3 DEF Reduced
  <2>2. PICK n, k : /\ Cut(q, r, n, k) /\ Kind(q[k]) = "intra"
                    /\ \A i \in 1 .. n : Kind(q[i]) = "extra"
    BY <1>3, <2>1, h264Cut
  <2> HIDE DEF r
  <2>3. /\ r \in Seq(Packets) /\ Increasing(r) /\ Chained(r)
        /\ \A i \in DOMAIN r : \E j \in DOMAIN q : r[i] = q[j]
        /\ r # <<>> /\ Kind(r[1]) # "predicted" /\ r[Len(r)] = q[Len(q)]
    BY <2>2, CutOrder
  <2> QED
    BY <2>3 DEF r
<1> QED
  BY <1>1, <1>2, <1>3
-----------------------------------------------------------------------------
(* Types that the order of packets is about.                                *)
LEMMA QueueTypes ==
  ASSUME TypeOK, Structure, TodoInv
  PROVE  /\ Given \in Nat /\ Len(todo) \in Nat
         /\ \A s \in Sources : Latest(s) \in {Given, Given + 1}
         /\ \A s \in Sources : cached_buffers[s] \in Seq(Packets)
         /\ \A s \in Sources : shown[s] \in Packets \cup {NoPacket}
         /\ \A s \in Sources : Number(shown[s]) \in Nat
         /\ \A s \in Sources, p \in Packets : Number(p) \in Nat
<1>1. Len(todo) \in Nat /\ packets \in Nat
  BY LenProperties DEF TypeOK
<1>2. Given \in Nat
  BY <1>1 DEF TodoInv, Given
<1>3. \A s \in Sources : /\ cached_buffers[s] \in Seq(Packets)
                         /\ shown[s] \in Packets \cup {NoPacket}
  BY DEF TypeOK, SourceTypeOK
<1>4. \A s \in Sources : Number(shown[s]) \in Nat
  BY <1>3, PacketParts
<1> QED
  BY <1>1, <1>2, <1>3, <1>4, PacketParts DEF Latest

(* A Source whose cache and sink a step leaves alone stays in order, if     *)
(* what it was offered is the same, or it is not pushed to any more.        *)
LEMMA SameQueue ==
  ASSUME TypeOK, Structure, QueueInv, NEW s \in Sources,
         codec' = codec, cached_buffers'[s] = cached_buffers[s],
         got_iframe'[s] = got_iframe[s], lost'[s] = lost[s],
         shown'[s] = shown[s],
         s \in Listed' <=> s \in Listed,
         life'[s] # "closed" => life[s] # "closed",
         Latest(s)' \in Nat,
         \/ Latest(s)' = Latest(s)
         \/ Latest(s)' >= Latest(s) /\ (life'[s] = "closed" \/ s \notin Listed')
  PROVE  QueueOK(s)'
<1> DEFINE q == cached_buffers[s]
<1>1. CacheOrder(s) /\ CacheFresh(s) /\ CacheBase(s) /\ Unlisted(s)
  BY DEF QueueInv, QueueOK
<1>2. CacheOrder(s)'
  <2>1. \A i \in DOMAIN q : Number(q[i]) \in Nat /\ Number(q[i]) <= Latest(s)
    BY <1>1, QueueTypes, ElementOfSeq, LenProperties DEF CacheOrder, QueueInv
  <2>2. Latest(s) \in Nat /\ Latest(s)' \in Nat /\ Latest(s) <= Latest(s)'
        /\ Number(shown[s]) \in Nat
    BY QueueTypes DEF QueueInv
  <2>3. \A i \in DOMAIN q : Number(q[i]) <= Latest(s)'
    BY <2>1, <2>2
  <2>4. Number(shown[s]) <= Latest(s)'
    BY <1>1, <2>2 DEF CacheOrder
  <2> QED
    BY <1>1, <2>3, <2>4 DEF CacheOrder, AllIntra, Increasing, Chained
<1>3. CacheFresh(s)'
  BY <1>1 DEF CacheFresh
<1>4. CacheBase(s)'
  BY <1>1 DEF CacheBase
<1>5. Unlisted(s)'
  BY <1>1 DEF Unlisted
<1> QED
  BY <1>2, <1>3, <1>4, <1>5 DEF QueueOK

(* A Source that is gone is in order.                                       *)
LEMMA GoneQueue ==
  ASSUME NEW s \in Sources, cached_buffers'[s] = <<>>, ~ got_iframe'[s],
         shown'[s] = NoPacket, Latest(s)' \in Nat
  PROVE  QueueOK(s)'
<1>1. DOMAIN cached_buffers'[s] = {}
  BY EmptySeq
<1>2. CacheOrder(s)'
  BY <1>1, PacketParts DEF CacheOrder, AllIntra, Increasing, Chained
<1> QED
  BY <1>2 DEF QueueOK, CacheFresh, CacheBase, Unlisted

(* Push: the packet is the next one, and follows what the reduction left.   *)
LEMMA PushQueue ==
  ASSUME TypeOK, Structure, QueueInv, Push, NEW s \in Sources,
         s = video_list[at], Latest(s) = Given, Latest(s)' = Given + 1
  PROVE  QueueOK(s)'
<1> DEFINE q == cached_buffers[s]
           r == Reduced(q)
           h == Head(todo)
           a == Append(r, h)
<1>1. /\ s \in Listed /\ life[s] # "closed" /\ todo # <<>>
      /\ UNCHANGED <<codec, life, got_iframe, lost, shown, video_list, at>>
      /\ cached_buffers'[s] = a
  BY InHand DEF Push, connVars, Structure, FlowInv, Listed, TypeOK, SourceTypeOK
<1>2. /\ q \in Seq(Packets) /\ Given \in Nat /\ Number(shown[s]) \in Nat
      /\ CacheOrder(s) /\ CacheFresh(s) /\ CacheBase(s)
  BY <1>1, QueueTypes DEF QueueInv, QueueOK
<1>3. /\ h \in Packets /\ Number(h) = Given + 1 /\ Number(h) \in Nat
      /\ codec = "jpeg" => Kind(h) = "intra"
  <2>1. todo \in Seq(Packets) /\ todo # <<>>
    BY <1>1 DEF TypeOK
  <2>2. h = todo[1] /\ 1 \in DOMAIN todo /\ h \in Packets
    BY <2>1, EmptySeq, LenProperties, HeadTailProperties
  <2> HIDE DEF h
  <2> QED
    BY <2>2, PacketParts DEF QueueInv, TodoInv
<1>4. /\ r \in Seq(Packets) /\ Increasing(r) /\ Chained(r)
      /\ \A i \in DOMAIN r : \E j \in DOMAIN q : r[i] = q[j]
      /\ q # <<>> => r # <<>> /\ r[Len(r)] = q[Len(q)]
      /\ r # <<>> /\ Kind(r[1]) = "predicted" => r[1] = q[1]
  <2>1. codec \in Codecs /\ Increasing(q) /\ Chained(q) /\ AllIntra(q)
    BY <1>2 DEF CacheOrder, TypeOK
  <2> HIDE DEF q
  <2> QED
    BY <1>2, <2>1, ReducedOrder
<1> HIDE DEF q, r, h
<1>5. /\ a \in Seq(Packets) /\ Len(a) = Len(r) + 1 /\ Len(r) \in Nat
      /\ \A j \in DOMAIN a :
           (j \in DOMAIN r /\ a[j] = r[j]) \/ (j = Len(r) + 1 /\ a[j] = h)
      /\ \A k \in DOMAIN r : k \in DOMAIN a /\ a[k] = r[k]
      /\ a[Len(r) + 1] = h
  BY <1>3, <1>4, AppendMembers
<1>6. DOMAIN r = 1 .. Len(r) /\ DOMAIN q = 1 .. Len(q) /\ Len(q) \in Nat
  BY <1>2, <1>4, LenProperties
<1> HIDE DEF a
<1>7. \A i \in DOMAIN q : /\ q[i] \in Packets /\ Number(q[i]) \in Nat
                          /\ Number(shown[s]) < Number(q[i])
                          /\ Number(q[i]) <= Given
  BY <1>2, <1>6, ElementOfSeq, PacketParts DEF CacheOrder, q
<1>8. \A i \in DOMAIN r : /\ Number(r[i]) \in Nat
                          /\ Number(shown[s]) < Number(r[i])
                          /\ Number(r[i]) <= Given
  BY <1>4, <1>7
<1>9. Increasing(a)
  <2> SUFFICES ASSUME NEW i \in DOMAIN a, NEW j \in DOMAIN a, i < j
               PROVE  Number(a[i]) < Number(a[j])
    BY DEF Increasing
  <2>1. CASE j \in DOMAIN r
    <3>1. i \in DOMAIN r
      BY <1>5, <1>6, <2>1
    <3> QED
      BY <1>4, <1>5, <2>1, <3>1 DEF Increasing
  <2>2. CASE j = Len(r) + 1
    <3>1. i \in DOMAIN r /\ a[i] = r[i] /\ a[j] = h
      BY <1>5, <2>2
    <3>2. Number(r[i]) \in Nat /\ Number(r[i]) <= Given
      BY <1>8, <3>1
    <3> QED
      BY <1>2, <1>3, <3>1, <3>2
  <2> QED
    BY <1>5, <2>1, <2>2
<1>10. r = <<>> <=> q = <<>>
  <2>1. ASSUME r # <<>> PROVE q # <<>>
    <3>1. 1 \in DOMAIN r
      BY <1>4, <1>6, <2>1, EmptySeq
    <3>2. DOMAIN q # {}
      BY <1>4, <3>1
    <3> QED
      BY <3>2, EmptySeq
  <2> QED
    BY <1>4, <2>1
<1>11. q # <<>> => Number(r[Len(r)]) = Given
  BY <1>1, <1>2, <1>4 DEF CacheFresh, q
<1>12. Chained(a)
  <2> SUFFICES ASSUME NEW i \in DOMAIN a, i > 1, Kind(a[i]) = "predicted"
               PROVE  Number(a[i]) = Number(a[i - 1]) + 1
    BY DEF Chained
  <2>1. CASE i \in DOMAIN r
    <3>1. i - 1 \in DOMAIN r
      BY <1>6, <2>1
    <3> QED
      BY <1>4, <1>5, <2>1, <3>1 DEF Chained
  <2>2. CASE i = Len(r) + 1
    <3>1. i - 1 = Len(r) /\ Len(r) \in DOMAIN r
      BY <1>5, <1>6, <2>2
    <3>2. a[i - 1] = r[Len(r)] /\ a[i] = h
      BY <1>5, <2>2, <3>1
    <3>3. q # <<>>
      <4>1. r # <<>>
        BY <3>1, EmptySeq
      <4> QED
        BY <1>10, <4>1
    <3> QED
      BY <1>3, <1>11, <3>2, <3>3
  <2> QED
    BY <1>5, <2>1, <2>2
<1>13. AllIntra(a)
  <2> SUFFICES ASSUME codec = "jpeg", NEW i \in DOMAIN a PROVE Kind(a[i]) = "intra"
    BY DEF AllIntra
  <2>1. \A j \in DOMAIN q : Kind(q[j]) = "intra"
    BY <1>2 DEF CacheOrder, AllIntra, q
  <2> QED
    BY <1>3, <1>4, <1>5, <2>1
<1>14. \A i \in DOMAIN a : Number(shown[s]) < Number(a[i]) /\ Number(a[i]) <= Given + 1
  <2>1. Number(shown[s]) <= Given
    BY <1>2 DEF CacheOrder
  <2> SUFFICES ASSUME NEW i \in DOMAIN a
               PROVE  Number(shown[s]) < Number(a[i]) /\ Number(a[i]) <= Given + 1
    OBVIOUS
  <2>2. CASE i \in DOMAIN r /\ a[i] = r[i]
    BY <1>2, <1>8, <2>2
  <2>3. CASE a[i] = h
    BY <1>2, <1>3, <2>1, <2>3
  <2> QED
    BY <1>5, <2>2, <2>3
<1>15. CacheOrder(s)'
  <2>1. Number(shown[s]) <= Given + 1
    BY <1>2 DEF CacheOrder
  <2>2. codec' = "jpeg" => \A i \in DOMAIN a : Kind(a[i]) = "intra"
    BY <1>1, <1>13 DEF AllIntra
  <2>3. cached_buffers'[s] = a /\ shown' = shown
    BY <1>1
  <2>4. \A i, j \in DOMAIN a : i < j => Number(a[i]) < Number(a[j])
    BY <1>9 DEF Increasing
  <2>5. \A i \in DOMAIN a :
          i > 1 /\ Kind(a[i]) = "predicted" => Number(a[i]) = Number(a[i - 1]) + 1
    BY <1>12 DEF Chained
  <2> QED
    BY <1>14, <2>1, <2>2, <2>3, <2>4, <2>5
    DEF CacheOrder, AllIntra, Increasing, Chained
<1>16. a # <<>> /\ Number(a[Len(a)]) = Given + 1
  BY <1>3, <1>5, EmptySeq
<1>17. CacheFresh(s)'
  BY <1>1, <1>16 DEF CacheFresh
<1>18. CacheBase(s)'
  <2> SUFFICES ASSUME got_iframe[s], ~ lost[s]
               PROVE  /\ shown[s] # NoPacket
                      /\ Kind(a[1]) = "predicted" => Number(a[1]) = Number(shown[s]) + 1
    BY <1>1 DEF CacheBase
  <2>1. shown[s] # NoPacket
    BY <1>2 DEF CacheBase
  <2>2. CASE q = <<>>
    <3>1. Len(r) = 0
      BY <1>10, <2>2
    <3>2. a[1] = h
      BY <1>5, <3>1
    <3>3. Number(shown[s]) = Given
      BY <1>1, <1>2, <2>2 DEF CacheFresh, q
    <3> QED
      BY <1>3, <2>1, <3>2, <3>3
  <2>3. CASE q # <<>>
    <3>1. r # <<>> /\ 1 \in DOMAIN r
      BY <1>4, <1>6, <1>10, <2>3, EmptySeq
    <3>2. a[1] = r[1]
      BY <1>5, <3>1
    <3>3. Kind(q[1]) = "predicted" => Number(q[1]) = Number(shown[s]) + 1
      BY <1>2, <2>3 DEF CacheBase, q
    <3> QED
      BY <1>4, <2>1, <3>1, <3>2, <3>3
  <2> QED
    BY <2>2, <2>3
<1>19. Unlisted(s)'
  BY <1>1 DEF Unlisted, Listed
<1> QED
  BY <1>15, <1>17, <1>18, <1>19 DEF QueueOK

(* PopPacket: what is left follows what was shown, if that was shown.       *)
LEMMA PopQueue ==
  ASSUME TypeOK, Structure, QueueInv, PopPacket, NEW s \in Sources, s = lsrc,
         cached_buffers[s] # <<>>, Latest(s)' = Latest(s), Latest(s) \in Nat
  PROVE  QueueOK(s)'
<1> DEFINE q == cached_buffers[s]
           p == Head(q)
           r == Tail(q)
<1>1. /\ s \in Sources /\ cached_buffers'[s] = r
      /\ got_iframe'[s] = (got_iframe[s] \/ Kind(p) = "intra")
      /\ shown'[s] = (IF wanted[s] /\ Showable(s, p) THEN p ELSE shown[s])
      /\ lost'[s] = ((lost[s] /\ Kind(p) # "intra") \/ ~ wanted[s])
      /\ UNCHANGED <<codec, life, video_list>>
  BY InHand DEF PopPacket, connVars, TypeOK, SourceTypeOK
<1>2. /\ q \in Seq(Packets) /\ q # <<>> /\ Number(shown[s]) \in Nat
      /\ CacheOrder(s) /\ CacheFresh(s) /\ Unlisted(s)
  BY <1>1, QueueTypes DEF QueueInv, QueueOK
<1>3. /\ p = q[1] /\ p \in Packets /\ r \in Seq(Packets) /\ Len(r) = Len(q) - 1
      /\ \A i \in 1 .. Len(r) : r[i] = q[i + 1]
  BY <1>2, HeadTailProperties
<1>4. /\ DOMAIN r = 1 .. Len(r) /\ DOMAIN q = 1 .. Len(q) /\ Len(q) \in Nat
      /\ Len(r) \in Nat /\ Len(q) >= 1
  BY <1>2, <1>3, LenProperties, EmptySeq
<1>5. s \in Listed
  BY <1>2 DEF Unlisted
<1> HIDE DEF r, p, q
<1>6. \A i \in DOMAIN r : i \in Nat /\ i + 1 \in DOMAIN q /\ r[i] = q[i + 1]
  BY <1>3, <1>4
<1>7. 1 \in DOMAIN q /\ Number(p) \in Nat /\ p # NoPacket
  BY <1>3, <1>4, PacketParts
<1>8. \A i \in DOMAIN q : /\ q[i] \in Packets /\ Number(q[i]) \in Nat
                          /\ Number(shown[s]) < Number(q[i])
                          /\ Number(q[i]) <= Latest(s)
  BY <1>2, <1>4, ElementOfSeq, PacketParts DEF CacheOrder, q
<1>9. Increasing(q) /\ Chained(q) /\ AllIntra(q)
  BY <1>2 DEF CacheOrder, q
<1>10. Increasing(r)
  <2> SUFFICES ASSUME NEW i \in DOMAIN r, NEW j \in DOMAIN r, i < j
               PROVE  Number(r[i]) < Number(r[j])
    BY DEF Increasing
  <2>1. i + 1 \in DOMAIN q /\ j + 1 \in DOMAIN q /\ i + 1 < j + 1
    BY <1>6
  <2>2. r[i] = q[i + 1] /\ r[j] = q[j + 1]
    BY <1>6
  <2> QED
    BY <1>9, <2>1, <2>2 DEF Increasing
<1>11. Chained(r)
  <2> SUFFICES ASSUME NEW i \in DOMAIN r, i > 1, Kind(r[i]) = "predicted"
               PROVE  Number(r[i]) = Number(r[i - 1]) + 1
    BY DEF Chained
  <2>1. i - 1 \in DOMAIN r /\ i - 1 + 1 = i /\ i + 1 - 1 = i
    BY <1>4
  <2>2. r[i] = q[i + 1] /\ r[i - 1] = q[i] /\ i + 1 \in DOMAIN q /\ i + 1 > 1
    BY <1>6, <2>1
  <2>3. Number(q[i + 1]) = Number(q[i + 1 - 1]) + 1
    BY <1>9, <2>2 DEF Chained
  <2> QED
    BY <2>1, <2>2, <2>3
<1>12. shown'[s] \in {p, shown[s]}
  BY <1>1
<1>13. \A i \in DOMAIN r : /\ Number(shown'[s]) < Number(r[i])
                           /\ Number(r[i]) <= Latest(s)
  <2> SUFFICES ASSUME NEW i \in DOMAIN r
               PROVE  /\ Number(shown'[s]) < Number(r[i])
                      /\ Number(r[i]) <= Latest(s)
    OBVIOUS
  <2>1. i + 1 \in DOMAIN q /\ r[i] = q[i + 1] /\ 1 < i + 1
    BY <1>4, <1>6
  <2>2. Number(p) < Number(q[i + 1])
    BY <1>3, <1>7, <1>9, <2>1 DEF Increasing
  <2>3. Number(shown[s]) < Number(q[i + 1]) /\ Number(q[i + 1]) <= Latest(s)
    BY <1>8, <2>1
  <2> QED
    BY <1>12, <2>1, <2>2, <2>3
<1>14. Number(shown'[s]) <= Latest(s)
  <2>1. Number(p) <= Latest(s)
    BY <1>3, <1>7, <1>8
  <2>2. Number(shown[s]) <= Latest(s)
    BY <1>2 DEF CacheOrder
  <2> QED
    BY <1>12, <2>1, <2>2
<1>15. codec = "jpeg" => \A i \in DOMAIN r : Kind(r[i]) = "intra"
  BY <1>6, <1>9 DEF AllIntra
<1>16. CacheOrder(s)'
  <2>1. \A i, j \in DOMAIN r : i < j => Number(r[i]) < Number(r[j])
    BY <1>10 DEF Increasing
  <2>2. \A i \in DOMAIN r :
          i > 1 /\ Kind(r[i]) = "predicted" => Number(r[i]) = Number(r[i - 1]) + 1
    BY <1>11 DEF Chained
  <2>3. cached_buffers'[s] = r /\ codec' = codec
    BY <1>1
  <2> QED
    BY <1>13, <1>14, <1>15, <2>1, <2>2, <2>3
       DEF CacheOrder, AllIntra, Increasing, Chained
<1>17. got_iframe'[s] /\ ~ lost'[s] => shown'[s] = p
  <2>1. Kind(p) = "intra" => Kind(p) # "predicted"
    OBVIOUS
  <2> QED
    BY <1>1, <2>1 DEF Showable
<1>18. CacheFresh(s)'
  <2>1. s \in Listed /\ life'[s] # "closed" =>
          Number(q[Len(q)]) = Latest(s)
    BY <1>1, <1>2 DEF CacheFresh, q
  <2>2. r # <<>> => r[Len(r)] = q[Len(q)]
    <3>1. r # <<>> => Len(r) \in DOMAIN r
      BY <1>3, <1>4, EmptySeq
    <3> QED
      BY <1>3, <1>4, <1>6, <3>1
  <2>3. r = <<>> => p = q[Len(q)]
    <3>1. r = <<>> => Len(r) = 0
      BY EmptySeq
    <3> QED
      BY <1>3, <1>4, <3>1
  <2>4. cached_buffers'[s] = r /\ Listed' = Listed
    BY <1>1 DEF Listed
  <2> QED
    BY <1>17, <2>1, <2>2, <2>3, <2>4 DEF CacheFresh
<1>19. CacheBase(s)'
  <2> SUFFICES ASSUME shown'[s] = p
               PROVE  /\ shown'[s] # NoPacket
                      /\ r # <<>> /\ Kind(r[1]) = "predicted" =>
                           Number(r[1]) = Number(shown'[s]) + 1
    BY <1>1, <1>17 DEF CacheBase
  <2>1. ASSUME r # <<>>, Kind(r[1]) = "predicted" PROVE Number(r[1]) = Number(p) + 1
    <3>1. 1 \in DOMAIN r
      BY <1>3, <1>4, <2>1, EmptySeq
    <3>2. r[1] = q[2] /\ 2 \in DOMAIN q /\ 2 - 1 = 1 /\ 2 > 1
      BY <1>6, <3>1
    <3>3. Number(q[2]) = Number(q[2 - 1]) + 1
      BY <1>9, <2>1, <3>2 DEF Chained
    <3> QED
      BY <1>3, <3>2, <3>3
  <2> QED
    BY <1>7, <2>1
<1>20. Unlisted(s)'
  BY <1>1, <1>5 DEF Unlisted, Listed
<1> QED
  BY <1>16, <1>18, <1>19, <1>20 DEF QueueOK

(* Who was offered the packet depends on the list and the iterator.         *)
LEMMA LatestSame ==
  ASSUME UNCHANGED <<packets, todo, video_list, at, fpc>>
  PROVE  /\ Listed' = Listed /\ Given' = Given
         /\ \A s \in Sources : Latest(s)' = Latest(s)
BY DEF Listed, Given, Latest, Offered

(* A step that leaves the flow's thread, the list, the caches and the sinks *)
(* alone.                                                                   *)
LEMMA RestQueue ==
  ASSUME TypeOK, Structure, QueueInv,
         UNCHANGED <<codec, cached_buffers, got_iframe, lost, shown>>,
         UNCHANGED <<packets, todo, video_list, at, fpc>>,
         \A s \in Sources : life'[s] # "closed" => life[s] # "closed"
  PROVE  QueueInv'
<1>1. TodoInv'
  BY DEF QueueInv, TodoInv, Given
<1>2. ASSUME NEW s \in Sources PROVE QueueOK(s)'
  <2>1. Latest(s)' = Latest(s) /\ Listed' = Listed /\ Latest(s)' \in Nat
    BY LatestSame, QueueTypes DEF QueueInv
  <2> QED
    BY <2>1, SameQueue
<1> QED
  BY <1>1, <1>2 DEF QueueInv

(* Nothing is offered between two rounds of the flow's thread.              *)
LEMMA NotOffering ==
  /\ fpc \notin {"push", "write"} => \A s \in Sources : Latest(s) = Given
  /\ fpc' \notin {"push", "write"} => \A s \in Sources : Latest(s)' = Given'
BY DEF Latest, Offered

(* Every action of the flow's thread keeps the queues in order.             *)
LEMMA FlowQueue ==
  ASSUME TypeOK, Structure, QueueInv, TypeOK', Structure',
         SendMediaToServer \/ FlowThread
  PROVE  QueueInv'
<1>a. /\ TodoInv /\ Given \in Nat /\ Len(todo) \in Nat
      /\ \A s \in Sources : QueueOK(s) /\ Latest(s) \in {Given, Given + 1}
  BY QueueTypes DEF QueueInv
<1>b. /\ DOMAIN video_list = 1 .. Len(video_list) /\ Len(video_list) \in Nat
      /\ \A i \in DOMAIN video_list : video_list[i] \in Sources
      /\ \A i, j \in DOMAIN video_list : video_list[i] = video_list[j] => i = j
      /\ at \in Nat \ {0} /\ at <= Len(video_list) + 1
  BY InHand DEF TypeOK, Structure, ListInv, FlowInv
<1>1. CASE SendMediaToServer
  <2>1. PICK kinds \in NextFrames :
           /\ packets' = packets + Len(kinds)
           /\ todo' = [i \in DOMAIN kinds |-> <<kinds[i], packets + i>>]
    BY <1>1 DEF SendMediaToServer
  <2>2. /\ Len(kinds) \in Nat /\ DOMAIN kinds = 1 .. Len(kinds)
        /\ codec = "jpeg" => \A i \in 1 .. Len(kinds) : kinds[i] = "intra"
    BY <2>1, FramesToPush
  <2>3. /\ fpc = "idle" /\ fpc' = "remove" /\ video_list' = video_list
        /\ UNCHANGED <<codec, sourceVars>>
    BY <1>1 DEF SendMediaToServer, connVars
  <2>4. Len(todo) = 0 /\ packets \in Nat
    BY <2>3 DEF Structure, FlowInv, TypeOK
  <2>5. Len(todo') = Len(kinds) /\ DOMAIN todo' = 1 .. Len(kinds)
    <3>1. todo' \in Seq(Packets) /\ DOMAIN todo' = DOMAIN kinds
      BY <2>1 DEF TypeOK
    <3> QED
      BY <2>2, <3>1, LenProperties
  <2>6. Given = packets /\ Given' = packets
    <3>1. Given = packets
      BY <2>4 DEF Given
    <3>2. Given' = packets' - Len(todo')
      BY DEF Given
    <3>3. packets' - Len(todo') = packets
      BY <2>1, <2>2, <2>4, <2>5
    <3> QED
      BY <3>1, <3>2, <3>3
  <2>7. \A i \in DOMAIN todo' :
          Number(todo'[i]) = packets + i /\ Kind(todo'[i]) = kinds[i]
    BY <2>1, <2>2, <2>5 DEF Number, Kind
  <2>8. TodoInv'
    <3>1. Len(todo') <= packets'
      BY <2>1, <2>2, <2>4, <2>5
    <3>2. \A i \in DOMAIN todo' : Number(todo'[i]) = Given' + i
      BY <2>6, <2>7
    <3>3. codec' = "jpeg" => \A i \in DOMAIN todo' : Kind(todo'[i]) = "intra"
      BY <2>2, <2>3, <2>5, <2>7
    <3> QED
      BY <3>1, <3>2, <3>3 DEF TodoInv
  <2>9. ASSUME NEW s \in Sources PROVE QueueOK(s)'
    <3>1. Latest(s) = Given /\ Latest(s)' = Given'
      BY <2>3, NotOffering
    <3>2. Latest(s)' = Latest(s) /\ Latest(s)' \in Nat /\ Listed' = Listed
      BY <1>a, <2>3, <2>6, <3>1 DEF Listed
    <3> QED
      BY <2>3, <3>2, SameQueue DEF sourceVars
  <2> QED
    BY <2>8, <2>9 DEF QueueInv
<1>2. CASE RemoveClosed
  <2> DEFINE r == video_list[at]
  <2>1. /\ fpc = "remove" /\ UNCHANGED <<fpc, todo, packets, at, codec>>
        /\ at \in DOMAIN video_list /\ r \in Sources
        /\ Delete({r}) /\ video_list' = Without(video_list, at)
    BY <1>2, <1>b DEF RemoveClosed, flowVars, Without
  <2>2. TodoInv' /\ Given' = Given
    BY <1>a, <2>1 DEF TodoInv, Given
  <2>3. \A s \in Sources : Latest(s)' = Latest(s) /\ Latest(s)' \in Nat
    BY <1>a, <2>1, <2>2, NotOffering
  <2>4. ASSUME NEW s \in Sources, s # r PROVE s \in Listed' <=> s \in Listed
    <3>1. /\ \A j \in DOMAIN video_list' :
               \E k \in DOMAIN video_list : k # at /\ video_list'[j] = video_list[k]
          /\ \A k \in DOMAIN video_list :
               k # at => \E j \in DOMAIN video_list' : video_list'[j] = video_list[k]
      <4>1. video_list \in Seq(Sources)
        BY DEF TypeOK
      <4> QED
        BY <1>b, <2>1, <4>1, WithoutMembers
    <3>2. s \in Listed' => s \in Listed
      BY <3>1 DEF Listed
    <3>3. s \in Listed => s \in Listed'
      BY <2>4, <3>1 DEF Listed
    <3> QED
      BY <3>2, <3>3
  <2>5. ASSUME NEW s \in Sources PROVE QueueOK(s)'
    <3>1. CASE s = r
      <4>1. cached_buffers'[s] = <<>> /\ ~ got_iframe'[s] /\ shown'[s] = NoPacket
        BY <2>1, <3>1 DEF Delete
      <4> QED
        BY <2>3, <4>1, GoneQueue
    <3>2. CASE s # r
      <4>1. /\ cached_buffers'[s] = cached_buffers[s] /\ shown'[s] = shown[s]
            /\ life'[s] = life[s]
        BY <2>1, <3>2 DEF Delete
      <4>2. got_iframe'[s] = got_iframe[s] /\ lost'[s] = lost[s]
        BY <2>1, <3>2 DEF Delete, TypeOK, SourceTypeOK
      <4> QED
        BY <2>1, <2>3, <2>4, <3>2, <4>1, <4>2, SameQueue
    <3> QED
      BY <3>1, <3>2
  <2> QED
    BY <2>2, <2>5 DEF QueueInv
<1>3. CASE KeepSource \/ RemovedAll
  <2>1. /\ UNCHANGED <<codec, sourceVars, packets, todo, video_list>>
        /\ fpc = "remove" /\ (fpc' = "remove" \/ (fpc' = "push" /\ at' = 1))
    BY <1>3 DEF KeepSource, RemovedAll, connVars
  <2>2. TodoInv' /\ Given' = Given
    BY <1>a, <2>1 DEF TodoInv, Given
  <2>3. ASSUME NEW s \in Sources PROVE QueueOK(s)'
    <3>1. Latest(s) = Given
      BY <2>1, NotOffering
    <3>2. ~ Offered(s)'
      BY <1>b, <2>1 DEF Offered
    <3>3. Latest(s)' = Latest(s) /\ Latest(s)' \in Nat /\ Listed' = Listed
      BY <1>a, <2>1, <2>2, <3>1, <3>2 DEF Latest, Listed
    <3> QED
      BY <2>1, <3>3, SameQueue DEF sourceVars
  <2> QED
    BY <2>2, <2>3 DEF QueueInv
<1>4. CASE SkipClosed
  <2>1. /\ UNCHANGED <<codec, sourceVars, packets, todo, video_list, fpc>>
        /\ fpc = "push" /\ at \in DOMAIN video_list
        /\ life[video_list[at]] = "closed" /\ at' = at + 1
    BY <1>4, <1>b DEF SkipClosed, connVars
  <2>2. TodoInv' /\ Given' = Given
    BY <1>a, <2>1 DEF TodoInv, Given
  <2>3. ASSUME NEW s \in Sources PROVE QueueOK(s)'
    <3>1. Offered(s)' <=> Offered(s) \/ s = video_list[at]
      BY <1>b, <2>1 DEF Offered
    <3>2. Latest(s)' \in Nat /\ Listed' = Listed /\ life' = life
      BY <1>a, <2>1, <2>2 DEF Latest, Listed, sourceVars
    <3>3. \/ Latest(s)' = Latest(s)
          \/ Latest(s)' >= Latest(s) /\ life'[s] = "closed"
      BY <1>a, <2>1, <2>2, <3>1, <3>2 DEF Latest
    <3> QED
      BY <2>1, <3>2, <3>3, SameQueue DEF sourceVars
  <2> QED
    BY <2>2, <2>3 DEF QueueInv
<1>5. CASE Push
  <2>1. /\ UNCHANGED <<codec, life, got_iframe, lost, shown>>
        /\ UNCHANGED <<packets, todo, video_list, at>>
        /\ fpc = "push" /\ fpc' = "write" /\ at \in DOMAIN video_list
        /\ \A s \in Sources : s # video_list[at] =>
             cached_buffers'[s] = cached_buffers[s]
    BY <1>5, <1>b DEF Push, connVars, TypeOK, SourceTypeOK
  <2>2. TodoInv' /\ Given' = Given
    BY <1>a, <2>1 DEF TodoInv, Given
  <2>3. ASSUME NEW s \in Sources PROVE QueueOK(s)'
    <3>1. Offered(s)' <=> Offered(s) \/ s = video_list[at]
      BY <1>b, <2>1 DEF Offered
    <3>2. s = video_list[at] => ~ Offered(s)
      BY <1>b, <2>1 DEF Offered
    <3>3. CASE s = video_list[at]
      <4>1. Latest(s) = Given /\ Latest(s)' = Given + 1
        BY <2>2, <3>1, <3>2, <3>3 DEF Latest
      <4> QED
        BY <1>5, <3>3, <4>1, PushQueue
    <3>4. CASE s # video_list[at]
      <4>1. Latest(s)' = Latest(s) /\ Latest(s)' \in Nat /\ Listed' = Listed
        BY <1>a, <2>1, <2>2, <3>1, <3>4 DEF Latest, Listed
      <4> QED
        BY <2>1, <3>4, <4>1, SameQueue
    <3> QED
      BY <3>3, <3>4
  <2> QED
    BY <2>2, <2>3 DEF QueueInv
<1>6. CASE WriteToken
  <2>1. /\ UNCHANGED <<codec, life, cached_buffers, got_iframe, lost, shown>>
        /\ UNCHANGED <<packets, todo, video_list>>
        /\ fpc = "write" /\ fpc' = "push" /\ at' = at + 1
    BY <1>6 DEF WriteToken, connVars
  <2>2. TodoInv' /\ Given' = Given
    BY <1>a, <2>1 DEF TodoInv, Given
  <2>3. ASSUME NEW s \in Sources PROVE QueueOK(s)'
    <3>1. Offered(s)' <=> Offered(s)
      BY <1>b, <2>1 DEF Offered
    <3>2. Latest(s)' = Latest(s) /\ Latest(s)' \in Nat /\ Listed' = Listed
      BY <1>a, <2>1, <2>2, <3>1 DEF Latest, Listed
    <3> QED
      BY <2>1, <3>2, SameQueue
  <2> QED
    BY <2>2, <2>3 DEF QueueInv
<1>7. CASE PushedToAll
  <2>1. /\ UNCHANGED <<codec, sourceVars, packets, video_list>>
        /\ fpc = "push" /\ at > Len(video_list) /\ fpc' \notin {"push", "write"}
        /\ todo' = Tail(todo)
    BY <1>7 DEF PushedToAll, connVars
  <2>2. todo \in Seq(Packets) /\ todo # <<>>
    BY <2>1 DEF TypeOK, Structure, FlowInv
  <2>3. /\ Len(todo') = Len(todo) - 1 /\ Len(todo) \in Nat
        /\ DOMAIN todo = 1 .. Len(todo) /\ DOMAIN todo' = 1 .. Len(todo')
        /\ \A i \in 1 .. Len(todo') : todo'[i] = todo[i + 1]
    BY <2>1, <2>2, HeadTailProperties, LenProperties
  <2>4. packets \in Nat /\ Given' = Given + 1
    BY <2>1, <2>3 DEF Given, TypeOK
  <2>5. TodoInv'
    <3>1. Len(todo') <= packets'
      BY <1>a, <2>1, <2>3, <2>4 DEF TodoInv
    <3>2. \A i \in DOMAIN todo' : i \in Nat /\ i + 1 \in DOMAIN todo /\ todo'[i] = todo[i + 1]
      BY <2>3
    <3>3. \A i \in DOMAIN todo' : Number(todo'[i]) = Given' + i
      <4> SUFFICES ASSUME NEW i \in DOMAIN todo' PROVE Number(todo'[i]) = Given' + i
        OBVIOUS
      <4>1. Number(todo[i + 1]) = Given + (i + 1)
        BY <1>a, <3>2 DEF TodoInv
      <4> QED
        BY <1>a, <2>4, <3>2, <4>1
    <3>4. codec' = "jpeg" => \A i \in DOMAIN todo' : Kind(todo'[i]) = "intra"
      BY <1>a, <2>1, <3>2 DEF TodoInv
    <3> QED
      BY <3>1, <3>3, <3>4 DEF TodoInv
  <2>6. ASSUME NEW s \in Sources PROVE QueueOK(s)'
    <3>1. Latest(s)' = Given + 1 /\ Listed' = Listed
      BY <2>1, <2>4, NotOffering DEF Listed
    <3>2. s \in Listed => Offered(s)
      <4>1. \A i \in DOMAIN video_list : i < at
        BY <1>b, <2>1
      <4> QED
        BY <2>1, <4>1 DEF Listed, Offered
    <3>3. CASE s \in Listed
      BY <1>a, <2>1, <3>1, <3>2, <3>3, SameQueue DEF Latest, sourceVars
    <3>4. CASE s \notin Listed
      <4>1. Latest(s)' >= Latest(s) /\ Latest(s)' \in Nat /\ s \notin Listed'
        BY <1>a, <3>1, <3>4
      <4> QED
        BY <2>1, <3>1, <4>1, SameQueue DEF sourceVars
    <3> QED
      BY <3>3, <3>4
  <2> QED
    BY <2>5, <2>6 DEF QueueInv
<1> QED
  BY <1>1, <1>2, <1>3, <1>4, <1>5, <1>6, <1>7 DEF FlowThread

(* So does the loop.                                                        *)
LEMMA LoopQueue ==
  ASSUME TypeOK, Structure, QueueInv, TypeOK', Structure',
         \/ LoopEnds \/ incomingMsgHandler
         \/ \E s \in Sources : Client(s) \/ ReadToken(s)
  PROVE  QueueInv'
<1>a. /\ TodoInv /\ Given \in Nat
      /\ \A s \in Sources : QueueOK(s) /\ Latest(s) \in {Given, Given + 1}
  BY QueueTypes DEF QueueInv
<1>b. /\ DOMAIN video_list = 1 .. Len(video_list) /\ Len(video_list) \in Nat
      /\ \A i \in DOMAIN video_list : video_list[i] \in Sources
      /\ at \in Nat \ {0} /\ at <= Len(video_list) + 1
      /\ fpc = "write" => at <= Len(video_list)
  BY InHand DEF TypeOK, Structure, FlowInv
<1>1. CASE LinkSource
  <2>1. /\ lpc = "link" /\ lsrc \in Sources /\ life[lsrc] = "new"
        /\ UNCHANGED <<codec, cached_buffers, got_iframe, lost, shown>>
        /\ UNCHANGED <<packets, todo, at, fpc>>
        /\ life' = [life EXCEPT ![lsrc] = "open"]
    BY <1>1, InHand DEF LinkSource, flowVars, Structure, LoopInv
  <2>2. TodoInv' /\ Given' = Given
    BY <1>a, <2>1 DEF TodoInv, Given
  <2>3. \A s \in Sources : life'[s] = "closed" <=> life[s] = "closed"
    BY <2>1 DEF TypeOK, SourceTypeOK
  <2>4. lsrc \notin Listed
    BY <1>b, <2>1 DEF Structure, ListInv, Live, Listed
  <2>5. CASE video_list' = video_list
    <3>1. \A s \in Sources : Latest(s)' = Latest(s) /\ Latest(s)' \in Nat
                             /\ Listed' = Listed
      BY <1>a, <2>1, <2>5, LatestSame
    <3> QED
      BY <2>1, <2>2, <2>3, <3>1, SameQueue DEF QueueInv
  <2>6. CASE video_list' = Append(video_list, lsrc)
    <3>1. /\ \A j \in DOMAIN video_list' :
               \/ j \in DOMAIN video_list /\ video_list'[j] = video_list[j]
               \/ j = Len(video_list) + 1 /\ video_list'[j] = lsrc
          /\ \A k \in DOMAIN video_list :
               k \in DOMAIN video_list' /\ video_list'[k] = video_list[k]
          /\ Len(video_list) + 1 \in DOMAIN video_list'
          /\ video_list'[Len(video_list) + 1] = lsrc
      <4>1. video_list \in Seq(Sources)
        BY DEF TypeOK
      <4> QED
        BY <2>1, <2>6, <4>1, AppendMembers
    <3>2. ASSUME NEW s \in Sources PROVE s \in Listed' <=> s \in Listed \/ s = lsrc
      BY <3>1 DEF Listed
    <3>3. ASSUME NEW s \in Sources PROVE Offered(s)' <=> Offered(s)
      <4>1. Offered(s) => Offered(s)'
        BY <2>1, <3>1 DEF Offered
      <4>2. ASSUME NEW j \in DOMAIN video_list', video_list'[j] = s,
                   \/ fpc \in {"push", "write"} /\ j < at
                   \/ fpc = "write" /\ j = at
            PROVE  Offered(s)
        <5>1. j # Len(video_list) + 1
          BY <1>b, <4>2
        <5>2. j \in DOMAIN video_list /\ video_list[j] = s
          BY <3>1, <4>2, <5>1
        <5> QED
          BY <4>2, <5>2 DEF Offered
      <4> QED
        BY <2>1, <4>1, <4>2 DEF Offered
    <3>4. ASSUME NEW s \in Sources PROVE Latest(s)' = Latest(s) /\ Latest(s)' \in Nat
      BY <1>a, <2>2, <3>3 DEF Latest
    <3>5. ASSUME NEW s \in Sources, s # lsrc PROVE QueueOK(s)'
      BY <2>1, <2>3, <3>2, <3>4, <3>5, SameQueue
    <3>6. QueueOK(lsrc) /\ cached_buffers[lsrc] = <<>> /\ ~ got_iframe[lsrc]
          /\ shown[lsrc] = NoPacket
      BY <1>a, <2>1, <2>4 DEF QueueOK, Unlisted
    <3>7. ASSUME NEW s \in Sources, s = lsrc PROVE QueueOK(s)'
      BY <2>1, <3>4, <3>6, <3>7, GoneQueue
    <3> QED
      BY <2>2, <3>5, <3>7 DEF QueueInv
  <2> QED
    BY <1>1, <2>5, <2>6 DEF LinkSource
<1>2. CASE PopPacket
  <2>1. /\ lsrc \in Sources /\ UNCHANGED <<codec, life, packets, todo>>
        /\ UNCHANGED <<video_list, at, fpc>>
    BY <1>2, InHand DEF PopPacket, connVars, flowVars
  <2>2. TodoInv'
    BY <1>a, <2>1 DEF TodoInv, Given
  <2>3. \A s \in Sources : /\ Latest(s)' = Latest(s) /\ Latest(s) \in Nat
                           /\ Listed' = Listed
    BY <1>a, <2>1, LatestSame
  <2>4. CASE cached_buffers[lsrc] = <<>>
    <3>1. UNCHANGED <<cached_buffers, got_iframe, shown, lost>>
      BY <1>2, <2>4 DEF PopPacket
    <3> QED
      BY <2>1, <3>1, RestQueue
  <2>5. CASE cached_buffers[lsrc] # <<>>
    <3>1. ASSUME NEW s \in Sources, s = lsrc PROVE QueueOK(s)'
      BY <1>2, <2>3, <2>5, <3>1, PopQueue
    <3>2. ASSUME NEW s \in Sources, s # lsrc PROVE QueueOK(s)'
      <4>1. /\ cached_buffers'[s] = cached_buffers[s] /\ shown'[s] = shown[s]
            /\ got_iframe'[s] = got_iframe[s] /\ lost'[s] = lost[s]
        BY <1>2, <2>1, <2>5, <3>2 DEF PopPacket, TypeOK, SourceTypeOK
      <4> QED
        BY <2>1, <2>3, <3>2, <4>1, SameQueue
    <3> QED
      BY <2>2, <3>1, <3>2 DEF QueueInv
  <2> QED
    BY <2>4, <2>5
<1>3. CASE CloseReadFd
  <2>1. \A s \in Sources : life'[s] # "closed" => life[s] # "closed"
    BY <1>3, InHand DEF CloseReadFd, TypeOK, SourceTypeOK, Structure, LoopInv
  <2> QED
    BY <1>3, <2>1, RestQueue DEF CloseReadFd, connVars, flowVars
<1>4. CASE addSession \/ AnswerSender \/ incomingMsgHandler
  BY <1>4, RestQueue
  DEF addSession, AnswerSender, incomingMsgHandler, sourceVars, flowVars
<1>5. CASE removeSession
  <2>1. /\ fpc = "done" /\ UNCHANGED <<codec, fpc, todo, packets, at>>
        /\ Delete(Listed) /\ video_list' = <<>>
    BY <1>5 DEF removeSession, flowVars, Structure, OwnerInv, Sent, Handling
  <2>2. TodoInv' /\ Given' = Given
    BY <1>a, <2>1 DEF TodoInv, Given
  <2>3. \A s \in Sources : Latest(s)' = Latest(s) /\ Latest(s)' \in Nat
    BY <1>a, <2>1, <2>2, NotOffering
  <2>4. \A s \in Sources : s \notin Listed'
    BY <2>1 DEF Listed
  <2>5. ASSUME NEW s \in Sources PROVE QueueOK(s)'
    <3>1. CASE s \in Listed
      <4>1. cached_buffers'[s] = <<>> /\ ~ got_iframe'[s] /\ shown'[s] = NoPacket
        BY <2>1, <3>1 DEF Delete
      <4> QED
        BY <2>3, <4>1, GoneQueue
    <3>2. CASE s \notin Listed
      <4>1. /\ cached_buffers'[s] = cached_buffers[s] /\ shown'[s] = shown[s]
            /\ life'[s] = life[s]
        BY <2>1, <3>2 DEF Delete
      <4>2. got_iframe'[s] = got_iframe[s] /\ lost'[s] = lost[s]
        BY <2>1, <3>2 DEF Delete, TypeOK, SourceTypeOK
      <4> QED
        BY <2>1, <2>3, <2>4, <3>2, <4>1, <4>2, SameQueue
    <3> QED
      BY <3>1, <3>2
  <2> QED
    BY <2>2, <2>5 DEF QueueInv
<1>6. ASSUME NEW s \in Sources, NewSource(s) PROVE QueueInv'
  <2>1. /\ life' = [life EXCEPT ![s] = "new"] /\ life[s] = "none"
        /\ UNCHANGED <<codec, cached_buffers, got_iframe, lost, shown>>
        /\ UNCHANGED <<packets, todo, video_list, at, fpc>>
    BY <1>6 DEF NewSource, connVars, flowVars
  <2>2. \A u \in Sources : life'[u] # "closed" => life[u] # "closed"
    BY <2>1 DEF TypeOK, SourceTypeOK
  <2> QED
    BY <2>1, <2>2, RestQueue
<1>7. ASSUME NEW s \in Sources,
             doGetNextFrame(s) \/ doStopGettingFrames(s) \/ ReadToken(s)
      PROVE  QueueInv'
  BY <1>7, RestQueue
  DEF doGetNextFrame, doStopGettingFrames, ReadToken, connVars, flowVars
<1>8. ASSUME NEW s \in Sources, CloseSource(s) PROVE QueueInv'
  <2>1. /\ life' = [life EXCEPT ![s] = "closing"] /\ life[s] = "open"
        /\ UNCHANGED <<codec, cached_buffers, got_iframe, lost, shown>>
        /\ UNCHANGED <<packets, todo, video_list, at, fpc>>
    BY <1>8 DEF CloseSource, connVars, flowVars
  <2>2. \A u \in Sources : life'[u] # "closed" => life[u] # "closed"
    BY <2>1 DEF TypeOK, SourceTypeOK
  <2> QED
    BY <2>1, <2>2, RestQueue
<1> QED
  BY <1>1, <1>2, <1>3, <1>4, <1>5, <1>6, <1>7, <1>8 DEF LoopEnds, Client

(* Every step keeps the queues in order.                                    *)
LEMMA QueueNext ==
  ASSUME TypeOK, Structure, QueueInv, TypeOK', Structure', [Next]_vars
  PROVE  QueueInv'
<1>1. CASE Owner \/ DestroyFlow
  <2>1. CASE StopAllThread
    <3>1. /\ fpc = "idle" /\ fpc' = "done"
          /\ UNCHANGED <<codec, sourceVars, video_list, packets, todo, at>>
      BY <2>1 DEF StopAllThread, connVars
    <3>2. TodoInv' /\ Given' = Given
      BY <3>1 DEF QueueInv, TodoInv, Given
    <3>3. \A s \in Sources : /\ Latest(s)' = Latest(s) /\ Latest(s)' \in Nat
                             /\ Listed' = Listed
      BY <3>1, <3>2, NotOffering, QueueTypes DEF Listed, QueueInv
    <3> QED
      BY <3>1, <3>2, <3>3, SameQueue DEF QueueInv, sourceVars
  <2>2. CASE ~ StopAllThread
    BY <1>1, <2>2, RestQueue
       DEF Owner, DestroyFlow, createNewChannel, ChannelCreated, removeChannel,
           ChannelRemoved, sendMessage, sourceVars, connVars, flowVars
  <2> QED
    BY <2>1, <2>2
<1>2. CASE UNCHANGED vars
  BY <1>2, RestQueue DEF vars, sourceVars, connVars, flowVars
<1> QED
  BY <1>1, <1>2, FlowQueue, LoopQueue DEF Next

(* In every reachable state the queues are in order.                        *)
THEOREM QueueCorrect == Spec => []QueueInv
<1>1. Init => QueueInv
  <2> SUFFICES ASSUME Init PROVE QueueInv
    OBVIOUS
  <2>1. todo = <<>> /\ packets = 0 /\ fpc = "idle"
    BY DEF Init
  <2>2. Len(todo) = 0 /\ DOMAIN todo = {} /\ packets = 0
    BY <2>1
  <2>3. Given = 0
    BY <2>2 DEF Given
  <2>4. TodoInv
    BY <2>1, <2>2 DEF TodoInv
  <2>5. ASSUME NEW s \in Sources PROVE QueueOK(s)
    <3>1. Latest(s) = 0
      BY <2>1, <2>3, NotOffering
    <3>2. cached_buffers[s] = <<>> /\ ~ got_iframe[s] /\ shown[s] = NoPacket
      BY DEF Init
    <3>3. DOMAIN cached_buffers[s] = {}
      BY <3>2
    <3>4. CacheOrder(s)
      BY <3>1, <3>2, <3>3, PacketParts
         DEF CacheOrder, AllIntra, Increasing, Chained
    <3> QED
      BY <3>2, <3>4 DEF QueueOK, CacheFresh, CacheBase, Unlisted
  <2> QED
    BY <2>4, <2>5 DEF QueueInv
<1>2. TypeOK /\ Structure /\ QueueInv /\ (TypeOK /\ Structure)' /\ [Next]_vars
        => QueueInv'
  BY QueueNext
<1> QED
  BY <1>1, <1>2, StructureCorrect, PTL DEF Spec

(* What a sink is shown changes only when the Source goes, or to the head   *)
(* of its cache.                                                            *)
LEMMA ShownStep ==
  ASSUME TypeOK, Structure, QueueInv, [Next]_vars, NEW s \in Sources,
         shown'[s] # shown[s]
  PROVE  \/ shown'[s] = NoPacket /\ life'[s] = "deleted"
         \/ /\ cached_buffers[s] # <<>> /\ shown'[s] = cached_buffers[s][1]
            /\ Showable(s, shown'[s])
<1>1. CASE RemoveClosed \/ removeSession
  <2>1. PICK S : Delete(S)
    BY <1>1 DEF RemoveClosed, removeSession
  <2> QED
    BY <2>1 DEF Delete
<1>2. CASE PopPacket
  <2>1. lsrc \in Sources
    BY <1>2, InHand DEF PopPacket
  <2>2. s = lsrc /\ cached_buffers[s] # <<>>
    BY <1>2, <2>1 DEF PopPacket, TypeOK, SourceTypeOK
  <2> DEFINE p == Head(cached_buffers[s])
  <2>3. shown'[s] = IF wanted[s] /\ Showable(s, p) THEN p ELSE shown[s]
    BY <1>2, <2>1, <2>2 DEF PopPacket, TypeOK, SourceTypeOK
  <2>4. p = cached_buffers[s][1]
    BY <2>2, InHand, HeadTailProperties
  <2> QED
    BY <2>2, <2>3, <2>4
<1>3. CASE ~ (RemoveClosed \/ removeSession) /\ ~ PopPacket
  <2>1. shown' = shown
    BY <1>3
       DEF Next, FlowThread, LoopEnds, Client, Owner, vars, sourceVars,
           SendMediaToServer, KeepSource, RemovedAll, SkipClosed, Push, WriteToken,
           PushedToAll, LinkSource, CloseReadFd, addSession, AnswerSender,
           incomingMsgHandler, NewSource, doGetNextFrame, doStopGettingFrames,
           CloseSource, ReadToken, createNewChannel, ChannelCreated, StopAllThread,
           removeChannel, ChannelRemoved, DestroyFlow
  <2> QED
    BY <2>1
<1> QED
  BY <1>1, <1>2, <1>3

(* What a client is shown keeps the encoder's order, and nothing comes      *)
(* twice.                                                                   *)
THEOREM ShownInOrderCorrect == Spec => ShownInOrder
<1>1. TypeOK /\ Structure /\ QueueInv /\ [Next]_vars =>
        [\A s \in Sources :
           shown'[s] # shown[s] /\ life'[s] # "deleted" =>
             Number(shown[s]) < Number(shown'[s])]_vars
  <2> SUFFICES ASSUME TypeOK, Structure, QueueInv, [Next]_vars, NEW s \in Sources,
                      shown'[s] # shown[s], life'[s] # "deleted"
               PROVE  Number(shown[s]) < Number(shown'[s])
    OBVIOUS
  <2> DEFINE q == cached_buffers[s]
  <2>1. q # <<>> /\ shown'[s] = q[1]
    BY ShownStep
  <2>2. 1 \in DOMAIN q
    BY <2>1, InHand, LenProperties, EmptySeq
  <2>3. CacheOrder(s)
    BY DEF QueueInv, QueueOK
  <2> QED
    BY <2>1, <2>2, <2>3 DEF CacheOrder
<1> QED
  BY <1>1, StructureCorrect, QueueCorrect, PTL DEF Spec, ShownInOrder

(* A predicted frame is shown right after the packet it builds on, unless   *)
(* the client paused.                                                       *)
THEOREM DecodableCorrect == Spec => Decodable
<1>1. TypeOK /\ Structure /\ QueueInv /\ [Next]_vars =>
        [\A s \in Sources :
           shown'[s] # shown[s] /\ Kind(shown'[s]) = "predicted" /\ ~ lost[s] =>
             shown[s] # NoPacket /\ Number(shown'[s]) = Number(shown[s]) + 1]_vars
  <2> SUFFICES ASSUME TypeOK, Structure, QueueInv, [Next]_vars, NEW s \in Sources,
                      shown'[s] # shown[s], Kind(shown'[s]) = "predicted", ~ lost[s]
               PROVE  shown[s] # NoPacket /\ Number(shown'[s]) = Number(shown[s]) + 1
    OBVIOUS
  <2> DEFINE q == cached_buffers[s]
  <2>1. shown'[s] # NoPacket
    BY PacketParts
  <2>2. q # <<>> /\ shown'[s] = q[1] /\ Showable(s, q[1])
    BY <2>1, ShownStep
  <2>3. 1 \in DOMAIN q
    BY <2>2, InHand, LenProperties, EmptySeq
  <2>4. CacheOrder(s) /\ CacheBase(s)
    BY DEF QueueInv, QueueOK
  <2>5. codec # "jpeg"
    BY <2>2, <2>3, <2>4 DEF CacheOrder, AllIntra
  <2>6. got_iframe[s]
    BY <2>2, <2>5 DEF Showable
  <2> QED
    BY <2>2, <2>4, <2>6 DEF CacheBase
<1> QED
  BY <1>1, StructureCorrect, QueueCorrect, PTL DEF Spec, Decodable
=============================================================================
