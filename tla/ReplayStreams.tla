---------------------------- MODULE ReplayStreams ----------------------------
(***************************************************************************)
(* Theorems about Replay, continued: every stream is stored at the track   *)
(* it was read from, in its place and with the status that was given for   *)
(* it, and no loss goes without a warning, however the session ends.       *)
(***************************************************************************)
EXTENDS ReplayProofs

-----------------------------------------------------------------------------
(* The places of the streams.                                              *)

\* The read q of s gave flux at pos.
Gave(s, q, pos) == s[q].pos = pos /\ Len(s[q].sent) > 1

\* How many of the first n reads did.
Count(s, n, pos) == Cardinality({q \in 1 .. n : Gave(s, q, pos)})

\* A read with flux counts for its position, any other does not.
LEMMA CountIs ==
    ASSUME NEW s, NEW n \in Nat, NEW pos
    PROVE  /\ Count(s, n, pos) \in Nat
           /\ Count(s, n + 1, pos) =
                 IF Gave(s, n + 1, pos) THEN Count(s, n, pos) + 1 ELSE Count(s, n, pos)
           /\ \A k \in 0 .. n : Count(s, k, pos) \in Nat /\ Count(s, k, pos) <= Count(s, n, pos)
<1>1. PICK A, B : /\ A = {q \in 1 .. n : Gave(s, q, pos)}
                  /\ B = {q \in 1 .. n + 1 : Gave(s, q, pos)}
  OBVIOUS
<1>2. IsFiniteSet(A)
  <2>1. IsFiniteSet(1 .. n)
    BY FS_Interval
  <2>2. A \in SUBSET (1 .. n)
    BY <1>1
  <2>3. QED
    BY <2>1, <2>2, FS_Subset, Zenon
<1>3. Cardinality(A) \in Nat
  BY <1>2, FS_CardinalityType
<1>4. B = IF Gave(s, n + 1, pos) THEN A \cup {n + 1} ELSE A
  BY <1>1
<1>5. n + 1 \notin A
  BY <1>1
<1>6. Cardinality(A \cup {n + 1}) = Cardinality(A) + 1
  BY <1>2, <1>5, FS_AddElement
<1>7. ASSUME NEW k \in 0 .. n
      PROVE  Count(s, k, pos) \in Nat /\ Count(s, k, pos) <= Cardinality(A)
  <2>1. PICK C : C = {q \in 1 .. k : Gave(s, q, pos)}
    OBVIOUS
  <2>2. C \in SUBSET A
    <3>1. 1 .. k \subseteq 1 .. n
      OBVIOUS
    <3>2. QED
      BY <1>1, <2>1, <3>1
  <2>3. IsFiniteSet(C) /\ Cardinality(C) <= Cardinality(A)
    BY <1>2, <2>2, FS_Subset, Zenon
  <2>4. QED
    BY <2>1, <2>3, FS_CardinalityType, Zenon DEF Count
<1>8. QED
  BY <1>1, <1>3, <1>4, <1>6, <1>7, Zenon DEF Count

\* A read that gave flux has a place, and a later one has a later place.
LEMMA CountPlace ==
    ASSUME NEW s, NEW n \in Nat, NEW pos, NEW r \in 1 .. n, Gave(s, r, pos)
    PROVE  /\ Count(s, r, pos) \in 1 .. Count(s, n, pos)
           /\ r < n /\ Gave(s, n, pos) => Count(s, r, pos) < Count(s, n, pos)
<1>1. PICK k \in Nat : k + 1 = r
  <2>1. r - 1 \in Nat /\ (r - 1) + 1 = r
    OBVIOUS
  <2>2. QED
    BY <2>1, Zenon
<1>2. Count(s, k, pos) \in Nat /\ Count(s, r, pos) = Count(s, k, pos) + 1
  BY <1>1, CountIs, Zenon
<1>3. Count(s, n, pos) \in Nat /\ Count(s, r, pos) <= Count(s, n, pos)
  <2>1. r \in 0 .. n
    OBVIOUS
  <2>2. QED
    BY <2>1, CountIs, Zenon
<1>4. ASSUME r < n, Gave(s, n, pos)
      PROVE  Count(s, r, pos) < Count(s, n, pos)
  <2>1. PICK j \in Nat : j + 1 = n
    <3>1. n - 1 \in Nat /\ (n - 1) + 1 = n
      BY <1>4
    <3>2. QED
      BY <3>1, Zenon
  <2>2. r \in 0 .. j
    BY <1>4, <2>1
  <2>3. /\ Count(s, j, pos) \in Nat /\ Count(s, n, pos) = Count(s, j, pos) + 1
        /\ Count(s, r, pos) <= Count(s, j, pos)
    BY <1>4, <2>1, <2>2, CountIs, Zenon
  <2>4. QED
    BY <1>2, <2>3
<1>5. QED
  BY <1>2, <1>3, <1>4

\* The places are the same when the reads are.
LEMMA CountSame ==
    ASSUME NEW s, NEW t, NEW n \in Nat,
           \A q \in 1 .. n : t[q].pos = s[q].pos /\ t[q].sent = s[q].sent
    PROVE  \A pos : \A k \in 0 .. n : Count(t, k, pos) = Count(s, k, pos)
<1> TAKE pos
<1> TAKE k \in 0 .. n
<1>1. \A q \in 1 .. k : q \in 1 .. n
  OBVIOUS
<1>2. \A q \in 1 .. k : Gave(t, q, pos) <=> Gave(s, q, pos)
  BY <1>1, Zenon DEF Gave
<1>3. {q \in 1 .. k : Gave(t, q, pos)} = {q \in 1 .. k : Gave(s, q, pos)}
  BY <1>2
<1>4. QED
  BY <1>3, Zenon DEF Count

\* The streams are the flux of the first n reads.
Stored(fifo, s, n) ==
    \A pos \in Places :
        /\ Len(fifo[pos]) = Count(s, n, pos)
        /\ \A r \in 1 .. n : Gave(s, r, pos) => fifo[pos][Count(s, r, pos)].data = s[r].sent

\* Each stream is that of its read, if the read has been ended properly, or else the
\* beginning of it.
RightStream(fifo, s, r, pos) ==
    LET nth == Count(s, r, pos)
    IN IF s[r].whole THEN nth <= Len(fifo[pos]) /\ fifo[pos][nth].data = s[r].sent
       ELSE nth <= Len(fifo[pos]) => IsPrefix(Front(fifo[pos][nth].data), s[r].sent)

\* Every stream has its read, and every read that gave flux its stream.
InPlace(fifo, s) ==
    \A pos \in Places :
        /\ Len(fifo[pos]) <= Count(s, Len(s), pos)
        /\ \A r \in 1 .. Len(s) : Gave(s, r, pos) => RightStream(fifo, s, r, pos)

\* Without a warning every stream is all that the device sent.
Told(fifo, warnings, s) ==
    warnings = 0 =>
        \A pos \in Places : \A r \in 1 .. Len(s) :
            Gave(s, r, pos) /\ Count(s, r, pos) <= Len(fifo[pos]) =>
                fifo[pos][Count(s, r, pos)].data = s[r].sent

AllWhole(s, n) == \A r \in 1 .. n : s[r].whole

\* The streams have the same data.
SameData(f, g) ==
    \A pos \in Places :
        /\ Len(g[pos]) = Len(f[pos])
        /\ \A i \in 1 .. Len(f[pos]) : g[pos][i].data = f[pos][i].data

\* Whether streams are in place depends on their data only,
LEMMA StoredData ==
    ASSUME NEW f, NEW g, SameData(f, g), NEW s, NEW n \in Nat, Stored(f, s, n)
    PROVE  Stored(g, s, n)
<1> SUFFICES ASSUME NEW pos \in Places
             PROVE  /\ Len(g[pos]) = Count(s, n, pos)
                    /\ \A r \in 1 .. n : Gave(s, r, pos) =>
                                            g[pos][Count(s, r, pos)].data = s[r].sent
  BY Zenon DEF Stored
<1>1. Len(f[pos]) = Count(s, n, pos) /\ Len(g[pos]) = Len(f[pos])
  BY Zenon DEF Stored, SameData
<1>2. ASSUME NEW r \in 1 .. n, Gave(s, r, pos)
      PROVE  g[pos][Count(s, r, pos)].data = s[r].sent
  <2>1. Count(s, r, pos) \in 1 .. Len(f[pos])
    BY <1>1, <1>2, CountPlace
  <2>2. QED
    BY <1>2, <2>1, Zenon DEF Stored, SameData
<1>3. QED
  BY <1>1, <1>2, Zenon

\* and so does whether losses have been told.
LEMMA InPlaceData ==
    ASSUME NEW f, NEW g, SameData(f, g), NEW s, Len(s) \in Nat,
           \A pos \in Places : Len(f[pos]) \in Nat
    PROVE  /\ InPlace(f, s) => InPlace(g, s)
           /\ \A w : Told(f, w, s) => Told(g, w, s)
<1>1. ASSUME NEW pos \in Places, NEW r \in 1 .. Len(s), Gave(s, r, pos),
             Count(s, r, pos) <= Len(f[pos])
      PROVE  g[pos][Count(s, r, pos)].data = f[pos][Count(s, r, pos)].data
  <2>1. Count(s, r, pos) \in 1 .. Count(s, Len(s), pos)
    BY <1>1, CountPlace
  <2>2. Count(s, r, pos) \in 1 .. Len(f[pos])
    <3>1. Count(s, Len(s), pos) \in Nat
      BY CountIs
    <3>2. QED
      BY <1>1, <2>1, <3>1
  <2>3. QED
    BY <2>2, Zenon DEF SameData
<1>2. \A pos \in Places : Len(g[pos]) = Len(f[pos])
  BY Zenon DEF SameData
<1>3. ASSUME InPlace(f, s) PROVE InPlace(g, s)
  <2>1. ASSUME NEW pos \in Places, NEW r \in 1 .. Len(s), Gave(s, r, pos)
        PROVE  RightStream(g, s, r, pos)
    <3>1. RightStream(f, s, r, pos)
      BY <1>3, <2>1, Zenon DEF InPlace
    <3>2. QED
      BY <1>1, <1>2, <2>1, <3>1, Zenon DEF RightStream
  <2>2. QED
    BY <1>2, <1>3, <2>1, Zenon DEF InPlace
<1>4. ASSUME NEW w, Told(f, w, s) PROVE Told(g, w, s)
  <2> SUFFICES ASSUME w = 0, NEW pos \in Places, NEW r \in 1 .. Len(s), Gave(s, r, pos),
                      Count(s, r, pos) <= Len(g[pos])
               PROVE  g[pos][Count(s, r, pos)].data = s[r].sent
    BY Zenon DEF Told
  <2>1. Count(s, r, pos) <= Len(f[pos])
    BY <1>2, Zenon
  <2>2. QED
    BY <1>1, <1>4, <2>1, Zenon DEF Told
<1>5. QED
  BY <1>3, <1>4, Zenon

\* The reads of t are those of s, but for the status that the host was given.
SameReads(s, t) ==
    /\ Len(t) = Len(s) /\ Len(s) \in Nat
    /\ \A q \in 1 .. Len(s) :
          t[q].pos = s[q].pos /\ t[q].sent = s[q].sent /\ t[q].whole = s[q].whole

\* Neither depends on the status the host was given.
LEMMA ReadsAlike ==
    ASSUME NEW s, NEW t, SameReads(s, t)
    PROVE  /\ \A f : \A n \in 0 .. Len(s) : Stored(f, s, n) => Stored(f, t, n)
           /\ \A f : InPlace(f, s) => InPlace(f, t)
           /\ \A f, w : Told(f, w, s) => Told(f, w, t)
           /\ \A n \in 0 .. Len(s) : AllWhole(s, n) => AllWhole(t, n)
<1>1. /\ Len(t) = Len(s) /\ Len(s) \in Nat
      /\ \A q \in 1 .. Len(s) :
            t[q].pos = s[q].pos /\ t[q].sent = s[q].sent /\ t[q].whole = s[q].whole
  BY Zenon DEF SameReads
<1>2. \A pos : \A k \in 0 .. Len(s) : Count(t, k, pos) = Count(s, k, pos)
  BY <1>1, CountSame, ZenonT(40)
<1>3. \A q \in 1 .. Len(s) : \A pos : Gave(t, q, pos) <=> Gave(s, q, pos)
  BY <1>1, Zenon DEF Gave
<1>4. /\ Len(s) \in 0 .. Len(s) /\ \A r \in 1 .. Len(s) : r \in 0 .. Len(s)
      /\ \A n \in 0 .. Len(s) : \A r \in 1 .. n : r \in 1 .. Len(s)
  BY <1>1
<1>5. ASSUME NEW f, NEW n \in 0 .. Len(s), Stored(f, s, n) PROVE Stored(f, t, n)
  BY <1>1, <1>2, <1>3, <1>4, <1>5, Zenon DEF Stored
<1>6. ASSUME NEW f, InPlace(f, s) PROVE InPlace(f, t)
  <2>1. ASSUME NEW pos \in Places, NEW r \in 1 .. Len(t), Gave(t, r, pos)
        PROVE  RightStream(f, t, r, pos)
    <3>1. r \in 1 .. Len(s) /\ Gave(s, r, pos)
      BY <1>1, <1>3, <2>1, Zenon
    <3>2. RightStream(f, s, r, pos)
      BY <1>6, <3>1, Zenon DEF InPlace
    <3>3. /\ Count(t, r, pos) = Count(s, r, pos)
          /\ t[r].sent = s[r].sent /\ t[r].whole = s[r].whole
      BY <1>1, <1>2, <1>4, <3>1, Zenon
    <3>4. QED
      BY <3>2, <3>3, Zenon DEF RightStream
  <2>2. QED
    BY <1>1, <1>2, <1>4, <1>6, <2>1, Zenon DEF InPlace
<1>7. ASSUME NEW f, NEW w, Told(f, w, s) PROVE Told(f, w, t)
  <2> SUFFICES ASSUME w = 0, NEW pos \in Places, NEW r \in 1 .. Len(t), Gave(t, r, pos),
                      Count(t, r, pos) <= Len(f[pos])
               PROVE  f[pos][Count(t, r, pos)].data = t[r].sent
    BY Zenon DEF Told
  <2>1. r \in 1 .. Len(s) /\ Gave(s, r, pos)
    BY <1>1, <1>3, Zenon
  <2>2. Count(t, r, pos) = Count(s, r, pos) /\ t[r].sent = s[r].sent
    BY <1>1, <1>2, <1>4, <2>1, Zenon
  <2>3. QED
    BY <1>7, <2>1, <2>2, Zenon DEF Told
<1>8. ASSUME NEW n \in 0 .. Len(s), AllWhole(s, n) PROVE AllWhole(t, n)
  BY <1>1, <1>4, <1>8, Zenon DEF AllWhole
<1>9. QED
  BY <1>5, <1>6, <1>7, <1>8, Zenon

\* The reads, as they are kept.
ReadsInv(s) ==
    /\ Len(s) \in Nat
    /\ \A r \in 1 .. Len(s) :
          /\ s[r].pos \in Places /\ s[r].whole \in BOOLEAN
          /\ s[r].sent \in Seq(Nat) /\ Len(s[r].sent) > 0 /\ Closed(s[r].sent)
          /\ \A i \in 1 .. Len(s[r].sent) : s[r].sent[i] # CMD_SEEK

\* A stream without its end mark is a prefix of it.
LEMMA PrefixFront ==
    ASSUME NEW x \in Seq(Nat), Len(x) > 0
    PROVE  IsPrefix(Front(x), x)
<1>1. PICK n, h : n = Len(x) - 1 /\ h = SubSeq(x, 1, n)
  OBVIOUS
<1>2. n \in Nat /\ n \in 0 .. Len(x)
  BY <1>1, LenProperties
<1>3. h \in Seq(Nat) /\ Len(h) = n
  BY <1>1, <1>2, FirstBytes
<1>4. SubSeq(h, 1, n) = h
  BY <1>3, SubSeqFull
<1>5. n <= Len(x)
  BY <1>2
<1>6. Front(x) = h
  BY <1>1, Zenon DEF Front
<1>7. QED
  BY <1>1, <1>3, <1>4, <1>5, <1>6, Zenon DEF IsPrefix

\* The streams of all reads, or of all but the last, which gave its host nothing.
LEMMA AllStored ==
    ASSUME NEW s, ReadsInv(s), NEW f, Stored(f, s, Len(s))
    PROVE  InPlace(f, s) /\ \A w : Told(f, w, s)
<1>1. Len(s) \in Nat
  BY Zenon DEF ReadsInv
<1>2. ASSUME NEW pos \in Places, NEW r \in 1 .. Len(s), Gave(s, r, pos)
      PROVE  RightStream(f, s, r, pos) /\ f[pos][Count(s, r, pos)].data = s[r].sent
  <2>1. PICK nth, all : nth = Count(s, r, pos) /\ all = Count(s, Len(s), pos)
    OBVIOUS
  <2>2. nth <= all
    <3>1. nth \in 1 .. all
      BY <1>1, <1>2, <2>1, CountPlace, Zenon
    <3>2. all \in Nat
      BY <1>1, <2>1, CountIs, Zenon
    <3>3. QED
      BY <3>1, <3>2
  <2>3. Len(f[pos]) = all /\ f[pos][nth].data = s[r].sent
    BY <1>2, <2>1, Zenon DEF Stored
  <2>4. IsPrefix(Front(s[r].sent), s[r].sent)
    BY PrefixFront, Zenon DEF ReadsInv
  <2>5. QED
    BY <2>1, <2>2, <2>3, <2>4, Zenon DEF RightStream
<1>3. \A pos \in Places : Len(f[pos]) <= Count(s, Len(s), pos)
  <2> TAKE pos \in Places
  <2>1. Len(f[pos]) = Count(s, Len(s), pos)
    BY Zenon DEF Stored
  <2>2. Count(s, Len(s), pos) \in Nat
    BY <1>1, CountIs, Zenon
  <2>3. QED
    BY <2>1, <2>2
<1>4. QED
  BY <1>2, <1>3, Zenon DEF InPlace, Told

\* A read broken off may have left nothing.
LEMMA LastMissing ==
    ASSUME NEW s, ReadsInv(s), NEW n \in Nat, Len(s) = n + 1, ~s[n + 1].whole,
           NEW f, Stored(f, s, n)
    PROVE  InPlace(f, s) /\ \A w : Told(f, w, s)
<1>1. ASSUME NEW pos \in Places
      PROVE  /\ Len(f[pos]) \in Nat /\ Len(f[pos]) <= Count(s, n + 1, pos)
             /\ Gave(s, n + 1, pos) => ~(Count(s, n + 1, pos) <= Len(f[pos]))
  <2>1. Len(f[pos]) = Count(s, n, pos)
    BY Zenon DEF Stored
  <2>2. /\ Count(s, n, pos) \in Nat
        /\ Count(s, n + 1, pos) =
              IF Gave(s, n + 1, pos) THEN Count(s, n, pos) + 1 ELSE Count(s, n, pos)
    BY CountIs, Zenon
  <2>3. QED
    BY <2>1, <2>2
<1>2. ASSUME NEW pos \in Places, NEW r \in 1 .. n, Gave(s, r, pos)
      PROVE  RightStream(f, s, r, pos) /\ f[pos][Count(s, r, pos)].data = s[r].sent
  <2>1. PICK nth, all : nth = Count(s, r, pos) /\ all = Count(s, n, pos)
    OBVIOUS
  <2>2. nth <= all
    <3>1. nth \in 1 .. all
      BY <1>2, <2>1, CountPlace, Zenon
    <3>2. all \in Nat
      BY <2>1, CountIs, Zenon
    <3>3. QED
      BY <3>1, <3>2
  <2>3. Len(f[pos]) = all /\ f[pos][nth].data = s[r].sent
    BY <1>2, <2>1, Zenon DEF Stored
  <2>4. r \in 1 .. Len(s)
    OBVIOUS
  <2>5. IsPrefix(Front(s[r].sent), s[r].sent)
    BY <2>4, PrefixFront, Zenon DEF ReadsInv
  <2>6. QED
    BY <2>1, <2>2, <2>3, <2>5, Zenon DEF RightStream
<1>3. \A r \in 1 .. Len(s) : r \in 1 .. n \/ r = n + 1
  OBVIOUS
<1>4. ASSUME NEW pos \in Places, NEW r \in 1 .. Len(s), Gave(s, r, pos)
      PROVE  /\ RightStream(f, s, r, pos)
             /\ Count(s, r, pos) <= Len(f[pos]) => f[pos][Count(s, r, pos)].data = s[r].sent
  <2>1. CASE r \in 1 .. n
    BY <1>2, <1>4, <2>1, Zenon
  <2>2. CASE r = n + 1
    BY <1>1, <1>4, <2>2, Zenon DEF RightStream
  <2>3. QED
    BY <1>3, <2>1, <2>2, Zenon
<1>5. QED
  BY <1>1, <1>4, Zenon DEF InPlace, Told

\* A closed stream is stored as it is.
LEMMA ClosedStream ==
    ASSUME NEW x \in Seq(Nat), Len(x) > 0, Closed(x)
    PROVE  Terminated(x) /\ Stream(x) = x
<1>1. PICK n, zeros : n = Len(x) /\ zeros = {i \in DOMAIN x : x[i] = 0}
  OBVIOUS
<1>2. DOMAIN x = 1 .. n /\ n \in Nat /\ n \in 1 .. n
  BY <1>1, LenProperties
<1>3. \A i \in 1 .. n : (x[i] = 0) <=> (i = n)
  BY <1>1, <1>2, Zenon DEF Closed
<1>4. zeros = {n}
  BY <1>1, <1>2, <1>3
<1>5. Min(zeros) = n
  <2>1. Min(zeros) = CHOOSE m \in zeros : \A y \in zeros : m <= y
    BY Zenon DEF Min
  <2>2. n <= n
    BY <1>2
  <2>3. QED
    BY <1>4, <2>1, <2>2
<1>6. Terminated(x)
  BY <1>2, <1>3, Zenon DEF Terminated
<1>7. SubSeq(x, 1, n) = x
  BY <1>1, SubSeqFull
<1>8. QED
  BY <1>1, <1>5, <1>6, <1>7, Zenon DEF Stream

OkayAck == <<CMD_READ_FLUX, ACK_OKAY>>

\* What has come of the flux of a stream that is x.
Came(body, l, x) ==
    /\ body \in Seq(Nat) /\ Len(body) + Len(l) = Len(x)
    /\ \A i \in 1 .. Len(body) : body[i] = x[i]
    /\ \A j \in 1 .. Len(l) : l[j] = x[Len(body) + j]

\* What has come behind the two bytes of the answer is the flux.
LEMMA BodySplit ==
    ASSUME NEW d \in Seq(Nat), NEW l \in Seq(Nat), NEW x \in Seq(Nat),
           d \o l = OkayAck \o x, Len(d) >= 2,
           NEW body, body = SubSeq(d, 3, Len(d))
    PROVE  d[1] = CMD_READ_FLUX /\ d[2] = ACK_OKAY /\ Came(body, l, x)
<1>1. OkayAck \in Seq(Nat) /\ Len(OkayAck) = 2 /\ OkayAck[1] = CMD_READ_FLUX /\ OkayAck[2] = ACK_OKAY
  BY Codes DEF OkayAck
<1>2. PICK c, a, k, n, m : /\ c = d \o l /\ a = Len(d) /\ k = Len(l) /\ n = Len(x)
                           /\ m = Len(body)
  OBVIOUS
<1>3. a \in Nat /\ k \in Nat /\ n \in Nat /\ a >= 2
  BY <1>2, LenProperties
<1>4. /\ Len(c) = a + k
      /\ \A i \in 1 .. a + k : c[i] = IF i <= a THEN d[i] ELSE l[i - a]
  BY <1>2, ConcatProperties, Zenon
<1>5. /\ Len(c) = 2 + n
      /\ \A i \in 1 .. 2 + n : c[i] = IF i <= 2 THEN OkayAck[i] ELSE x[i - 2]
  <2>1. PICK u : u = OkayAck
    OBVIOUS
  <2>2. u \in Seq(Nat) /\ Len(u) = 2 /\ c = u \o x
    BY <1>1, <1>2, <2>1, Zenon
  <2>3. /\ Len(u \o x) = Len(u) + Len(x)
        /\ \A i \in 1 .. Len(u) + Len(x) : (u \o x)[i] = IF i <= Len(u) THEN u[i] ELSE x[i - Len(u)]
    BY <2>2, ConcatProperties, Zenon
  <2>4. QED
    BY <1>2, <2>1, <2>2, <2>3, Zenon
<1>6. d[1] = CMD_READ_FLUX /\ d[2] = ACK_OKAY
  <2>1. 1 \in 1 .. a + k /\ 2 \in 1 .. a + k /\ 1 <= a /\ 2 <= a
    BY <1>3
  <2>2. 1 \in 1 .. 2 + n /\ 2 \in 1 .. 2 + n /\ 1 <= 2 /\ 2 <= 2
    BY <1>3
  <2>3. c[1] = d[1] /\ c[2] = d[2]
    BY <1>4, <2>1, Zenon
  <2>4. c[1] = OkayAck[1] /\ c[2] = OkayAck[2]
    BY <1>5, <2>2, Zenon
  <2>5. QED
    BY <1>1, <2>3, <2>4, Zenon
<1>7. body \in Seq(Nat) /\ m = a - 2 /\ m \in Nat /\ \A i \in 1 .. m : body[i] = d[2 + i]
  <2>1. \A i \in 3 .. a : d[i] \in Nat
    BY <1>2, <1>3, ElementOfSeq, SMTT(30)
  <2>2. /\ body \in Seq(Nat) /\ m = IF 3 <= a THEN a - 3 + 1 ELSE 0
        /\ \A i \in 1 .. a - 3 + 1 : body[i] = d[3 + i - 1]
    BY <1>2, <1>3, <2>1, SubSeqProperties
  <2>3. m = a - 2 /\ m \in Nat
    BY <1>3, <2>2
  <2>4. ASSUME NEW i \in 1 .. m PROVE body[i] = d[2 + i]
    <3>1. i \in 1 .. a - 3 + 1 /\ 3 + i - 1 = 2 + i
      BY <1>3, <2>3
    <3>2. QED
      BY <2>2, <3>1
  <2>5. QED
    BY <2>2, <2>3, <2>4, Zenon
<1>8. m + k = n
  BY <1>3, <1>4, <1>5, <1>7
<1>9. ASSUME NEW i \in 1 .. m PROVE body[i] = x[i]
  <2>1. PICK j : j = 2 + i
    OBVIOUS
  <2>2. j \in 1 .. a + k /\ j <= a /\ j \in 1 .. 2 + n /\ ~(j <= 2) /\ j - 2 = i
    BY <1>3, <1>7, <1>8, <2>1
  <2>3. c[j] = d[j]
    BY <1>4, <2>2, Zenon
  <2>4. c[j] = x[j - 2]
    BY <1>5, <2>2, Zenon
  <2>5. body[i] = d[j]
    BY <1>7, <2>1, Zenon
  <2>6. QED
    BY <2>2, <2>3, <2>4, <2>5, Zenon
<1>10. ASSUME NEW i \in 1 .. k PROVE l[i] = x[m + i]
  <2>1. PICK j : j = a + i
    OBVIOUS
  <2>2. /\ j \in 1 .. a + k /\ ~(j <= a) /\ j - a = i
        /\ j \in 1 .. 2 + n /\ ~(j <= 2) /\ j - 2 = m + i
    BY <1>3, <1>7, <1>8, <2>1
  <2>3. c[j] = l[j - a]
    BY <1>4, <2>2, Zenon
  <2>4. c[j] = x[j - 2]
    BY <1>5, <2>2, Zenon
  <2>5. QED
    BY <2>2, <2>3, <2>4, Zenon
<1>11. QED
  BY <1>2, <1>6, <1>7, <1>8, <1>9, <1>10, Zenon DEF Came

\* g is f with the stream x more, at at.
OneMore(f, g, at, x) ==
    /\ at \in Places
    /\ \A pos \in Places : pos # at => g[pos] = f[pos]
    /\ Len(f[at]) \in Nat /\ Len(g[at]) = Len(f[at]) + 1
    /\ \A i \in 1 .. Len(f[at]) : g[at][i] = f[at][i]
    /\ g[at][Len(f[at]) + 1].data = x /\ g[at][Len(f[at]) + 1].status = ACK_OKAY

\* Storing a stream adds it at the position of its command.
LEMMA GrownIs ==
    ASSUME NEW p, ParseInv(p), NEW x \in Seq(Nat), NEW at, at = <<p.pcyl, p.phead>>
    PROVE  OneMore(p.fifo, Grown(p, x), at, x)
<1>1. p \in ParseType
  BY Zenon DEF ParseInv
<1>2. PICK f, old, flux, g : /\ f = p.fifo /\ old = f[at]
                             /\ flux = [data |-> x, status |-> ACK_OKAY]
                             /\ g = [f EXCEPT ![at] = Append(old, flux)]
  OBVIOUS
<1>3. g = Grown(p, x)
  BY <1>2, Zenon DEF Grown
<1>4. at \in Places
  BY <1>1, ParseFields DEF Places
<1>5. f \in [Places -> Seq(FluxType)]
  BY <1>1, <1>2, ParseFields
<1>6. old \in Seq(FluxType)
  BY <1>2, <1>4, <1>5, Zenon
<1>7. flux \in FluxType /\ flux.data = x /\ flux.status = ACK_OKAY
  BY <1>2 DEF FluxType, ACK_OKAY
<1>8. /\ Len(old) \in Nat /\ Len(Append(old, flux)) = Len(old) + 1
      /\ \A i \in 1 .. Len(old) : Append(old, flux)[i] = old[i]
      /\ Append(old, flux)[Len(old) + 1] = flux
  BY <1>6, <1>7, AppendProperties, LenProperties
<1>9. g[at] = Append(old, flux) /\ \A pos \in Places : pos # at => g[pos] = f[pos]
  BY <1>2, <1>4, <1>5, Zenon
<1>10. OneMore(f, g, at, x)
  <2>1. PICK new : new = Append(old, flux)
    OBVIOUS
  <2>2. g[at] = new /\ f[at] = old
    BY <1>2, <1>9, <2>1, Zenon
  <2>3. /\ Len(new) = Len(old) + 1 /\ \A i \in 1 .. Len(old) : new[i] = old[i]
        /\ new[Len(old) + 1] = flux
    BY <1>8, <2>1, Zenon
  <2>4. QED
    BY <1>4, <1>7, <1>8, <1>9, <2>2, <2>3, Zenon DEF OneMore
<1>11. QED
  BY <1>2, <1>3, <1>10, Zenon

\* The stream of the read n + 1 comes behind those of the first n.
StoredWith(g, s, n, x) ==
    \A pos \in Places :
        /\ Len(g[pos]) = Count(s, n + 1, pos)
        /\ \A r \in 1 .. n : Gave(s, r, pos) => g[pos][Count(s, r, pos)].data = s[r].sent
        /\ Gave(s, n + 1, pos) => g[pos][Count(s, n + 1, pos)].data = x

\* Then it is the one of the read after the first n.
LEMMA GrownPlaces ==
    ASSUME NEW p, ParseInv(p), NEW x \in Seq(Nat), NEW s, NEW n \in Nat,
           s[n + 1].pos = <<p.pcyl, p.phead>>, Len(s[n + 1].sent) > 1, Stored(p.fifo, s, n)
    PROVE  StoredWith(Grown(p, x), s, n, x)
<1>1. PICK f, g, at : f = p.fifo /\ g = Grown(p, x) /\ at = <<p.pcyl, p.phead>>
  OBVIOUS
<1>2. /\ at \in Places
      /\ \A pos \in Places : pos # at => g[pos] = f[pos]
      /\ Len(f[at]) \in Nat /\ Len(g[at]) = Len(f[at]) + 1
      /\ \A i \in 1 .. Len(f[at]) : g[at][i] = f[at][i]
      /\ g[at][Len(f[at]) + 1].data = x
  <2>1. OneMore(f, g, at, x)
    BY <1>1, GrownIs, Zenon
  <2>2. QED
    BY <2>1, Zenon DEF OneMore
<1>3. \A pos : Gave(s, n + 1, pos) <=> pos = at
  BY <1>1, Zenon DEF Gave
<1>4. ASSUME NEW pos \in Places
      PROVE  /\ Len(f[pos]) = Count(s, n, pos)
             /\ \A r \in 1 .. n : Gave(s, r, pos) =>
                                     f[pos][Count(s, r, pos)].data = s[r].sent
             /\ Count(s, n + 1, pos) = IF pos = at THEN Count(s, n, pos) + 1 ELSE Count(s, n, pos)
             /\ \A r \in 1 .. n : Gave(s, r, pos) => Count(s, r, pos) \in 1 .. Len(f[pos])
  <2>1. /\ Len(f[pos]) = Count(s, n, pos)
        /\ \A r \in 1 .. n : Gave(s, r, pos) => f[pos][Count(s, r, pos)].data = s[r].sent
    BY <1>1, Zenon DEF Stored
  <2>2. Count(s, n + 1, pos) = IF pos = at THEN Count(s, n, pos) + 1 ELSE Count(s, n, pos)
    BY <1>3, CountIs, Zenon
  <2>3. \A r \in 1 .. n : Gave(s, r, pos) => Count(s, r, pos) \in 1 .. Len(f[pos])
    BY <2>1, CountPlace, Zenon
  <2>4. QED
    BY <2>1, <2>2, <2>3, Zenon
<1>5. ASSUME NEW pos \in Places
      PROVE  /\ Len(g[pos]) = Count(s, n + 1, pos)
             /\ \A r \in 1 .. n : Gave(s, r, pos) =>
                                     g[pos][Count(s, r, pos)].data = s[r].sent
             /\ Gave(s, n + 1, pos) => g[pos][Count(s, n + 1, pos)].data = x
  <2>1. CASE pos = at
    BY <1>2, <1>4, <2>1, Zenon
  <2>2. CASE pos # at
    BY <1>2, <1>3, <1>4, <2>2, Zenon
  <2>3. QED
    BY <2>1, <2>2
<1>6. QED
  BY <1>1, <1>5, Zenon DEF StoredWith

\* With the whole of that read's flux, n + 1 reads are stored.
LEMMA GrownStored ==
    ASSUME NEW p, ParseInv(p), NEW s, NEW n \in Nat,
           s[n + 1].pos = <<p.pcyl, p.phead>>, s[n + 1].sent \in Seq(Nat),
           Len(s[n + 1].sent) > 1, Stored(p.fifo, s, n)
    PROVE  Stored(Grown(p, s[n + 1].sent), s, n + 1)
<1>1. PICK g, x : g = Grown(p, x) /\ x = s[n + 1].sent
  OBVIOUS
<1>2. \A pos \in Places :
         /\ Len(g[pos]) = Count(s, n + 1, pos)
         /\ \A r \in 1 .. n : Gave(s, r, pos) => g[pos][Count(s, r, pos)].data = s[r].sent
         /\ Gave(s, n + 1, pos) => g[pos][Count(s, n + 1, pos)].data = x
  <2>1. StoredWith(g, s, n, x)
    BY <1>1, GrownPlaces, Zenon
  <2>2. QED
    BY <2>1, Zenon DEF StoredWith
<1>3. \A r \in 1 .. n + 1 : r \in 1 .. n \/ r = n + 1
  OBVIOUS
<1>4. QED
  BY <1>1, <1>2, <1>3, Zenon DEF Stored

\* A stream that was cut short.
LEMMA GrownShort ==
    ASSUME NEW p, ParseInv(p), NEW s, ReadsInv(s), NEW n \in Nat, Len(s) = n + 1,
           s[n + 1].pos = <<p.pcyl, p.phead>>, Len(s[n + 1].sent) > 1, ~s[n + 1].whole,
           Stored(p.fifo, s, n),
           NEW x \in Seq(Nat), IsPrefix(Front(x), s[n + 1].sent)
    PROVE  InPlace(Grown(p, x), s)
<1>1. PICK g : g = Grown(p, x)
  OBVIOUS
<1>2. \A pos \in Places :
         /\ Len(g[pos]) = Count(s, n + 1, pos)
         /\ \A r \in 1 .. n : Gave(s, r, pos) => g[pos][Count(s, r, pos)].data = s[r].sent
         /\ Gave(s, n + 1, pos) => g[pos][Count(s, n + 1, pos)].data = x
  <2>1. StoredWith(g, s, n, x)
    BY <1>1, GrownPlaces, Zenon
  <2>2. QED
    BY <2>1, Zenon DEF StoredWith
<1>3. \A r \in 1 .. n + 1 : r \in 1 .. n \/ r = n + 1
  OBVIOUS
<1>4. \A pos \in Places : Count(s, n + 1, pos) \in Nat
  <2>1. n + 1 \in Nat
    OBVIOUS
  <2>2. QED
    BY <2>1, CountIs, Zenon
<1>5. ASSUME NEW pos \in Places, NEW r \in 1 .. Len(s), Gave(s, r, pos)
      PROVE  RightStream(g, s, r, pos)
  <2>1. CASE r = n + 1
    BY <1>2, <1>5, <2>1, Zenon DEF RightStream
  <2>2. CASE r \in 1 .. n
    <3>1. g[pos][Count(s, r, pos)].data = s[r].sent
      BY <1>2, <1>5, <2>2, Zenon
    <3>2. Count(s, r, pos) <= Len(g[pos])
      <4>1. Count(s, r, pos) \in 1 .. Count(s, n, pos)
        BY <1>5, <2>2, CountPlace, Zenon
      <4>2. /\ Count(s, n, pos) \in Nat
            /\ Count(s, n + 1, pos) =
                  IF Gave(s, n + 1, pos) THEN Count(s, n, pos) + 1 ELSE Count(s, n, pos)
        BY CountIs, Zenon
      <4>3. Len(g[pos]) = Count(s, n + 1, pos)
        BY <1>2, Zenon
      <4>4. QED
        BY <4>1, <4>2, <4>3
    <3>3. IsPrefix(Front(s[r].sent), s[r].sent)
      BY PrefixFront, Zenon DEF ReadsInv
    <3>4. QED
      BY <3>1, <3>2, <3>3, Zenon DEF RightStream
  <2>3. QED
    BY <1>3, <2>1, <2>2, Zenon
<1>6. \A pos \in Places : Len(g[pos]) <= Count(s, Len(s), pos)
  BY <1>2, <1>4
<1>7. QED
  BY <1>1, <1>5, <1>6, Zenon DEF InPlace

\* A status changes no stream's data.
LEMMA MarkedData ==
    ASSUME NEW p, ParseInv(p), Len(p.dbuf) >= 2, p.last # Nothing
    PROVE  SameData(p.fifo, Marked(p))
<1>1. PICK f, g, a, b, v : /\ f = p.fifo /\ g = Marked(p) /\ a = p.last[1] /\ b = p.last[2]
                           /\ v = p.dbuf[2]
  OBVIOUS
<1>2. f \in [Places -> Seq(FluxType)] /\ g \in [Places -> Seq(FluxType)]
  <2>1. PICK q : q = StatusResolved(p)
    OBVIOUS
  <2>2. ParseInv(q) /\ q.fifo = g
    BY <1>1, <2>1, StatusStep, StatusFields, Zenon
  <2>3. QED
    BY <1>1, <2>2, ParseFields, Zenon DEF ParseInv
<1>3. a \in Places
  <2>1. p.last \in Places \X Nat
    BY ParseFields, Zenon DEF ParseInv
  <2>2. QED
    BY <1>1, <2>1
<1>4. PICK old, new : old = f[a] /\ new = g[a]
  OBVIOUS
<1>5. new = [old EXCEPT ![b].status = v] /\ \A pos \in Places : pos # a => g[pos] = f[pos]
  <2>1. g = [f EXCEPT ![a][b].status = v]
    BY <1>1, Zenon DEF Marked
  <2>2. QED
    BY <1>2, <1>3, <1>4, <2>1, Zenon
<1>6. old \in Seq(FluxType) /\ new \in Seq(FluxType)
  BY <1>2, <1>3, <1>4, Zenon
<1>7. Len(new) = Len(old) /\ Len(old) \in Nat
  <2>1. DOMAIN new = DOMAIN old
    BY <1>5, Zenon
  <2>2. QED
    BY <1>6, <2>1, LenProperties
<1>8. ASSUME NEW i \in 1 .. Len(old) PROVE new[i].data = old[i].data
  <2>1. i \in DOMAIN old /\ old[i] \in FluxType
    BY <1>6, LenProperties, ElementOfSeq
  <2>2. CASE i = b
    <3>1. PICK flux : flux = old[i]
      OBVIOUS
    <3>2. new[i] = [flux EXCEPT !.status = v]
      BY <1>5, <2>1, <2>2, <3>1, Zenon
    <3>3. QED
      BY <2>1, <3>1, <3>2 DEF FluxType
  <2>3. CASE i # b
    BY <1>5, <2>1, <2>3, Zenon
  <2>4. QED
    BY <2>2, <2>3
<1>9. ASSUME NEW pos \in Places
      PROVE  Len(g[pos]) = Len(f[pos]) /\ \A i \in 1 .. Len(f[pos]) : g[pos][i].data = f[pos][i].data
  <2>1. CASE pos = a
    BY <1>4, <1>7, <1>8, <2>1, Zenon
  <2>2. CASE pos # a
    BY <1>5, <2>2, Zenon
  <2>3. QED
    BY <2>1, <2>2
<1>10. QED
  BY <1>1, <1>9, Zenon DEF SameData

-----------------------------------------------------------------------------
(* What the parser has seen of the session.                                *)

\* No answer with flux is open.
Quiet(v) == v.pcmd = Nothing \/ v.pcmd[1] # CMD_READ_FLUX
Mute(v) == Quiet(v) \/ (Len(v.dbuf) >= 2 => v.dbuf[2] # ACK_OKAY)

\* Other answers store nothing.
LEMMA MuteResolved ==
    ASSUME NEW v, ParseInv(v), Mute(v)
    PROVE  SameData(v.fifo, ResolvedFifo(v))
<1>1. ~(Fits(v) /\ v.pcmd[1] = CMD_READ_FLUX /\ Okay(v))
  BY DEF Mute, Quiet, Fits, Okay
<1>2. SameData(v.fifo, v.fifo)
  BY Zenon DEF SameData
<1>3. CASE Fits(v) /\ v.pcmd[1] = CMD_GET_FLUX_STATUS /\ v.last # Nothing
  <2>1. ResolvedFifo(v) = Marked(v)
    BY <1>1, <1>3, Zenon DEF ResolvedFifo
  <2>2. Len(v.dbuf) >= 2
    BY <1>3, Zenon DEF Fits
  <2>3. QED
    BY <1>3, <2>1, <2>2, MarkedData, Zenon
<1>4. CASE ~(Fits(v) /\ v.pcmd[1] = CMD_GET_FLUX_STATUS /\ v.last # Nothing)
  <2>1. ResolvedFifo(v) = v.fifo
    BY <1>1, <1>4, Zenon DEF ResolvedFifo
  <2>2. QED
    BY <1>2, <2>1, Zenon
<1>5. QED
  BY <1>3, <1>4, Zenon

\* A warning tells of everything.
LEMMA ToldMore ==
    ASSUME NEW f, NEW s, NEW n \in Nat, NEW k \in Nat, Told(f, n, s)
    PROVE  Told(f, n + k, s)
<1>1. n + k = 0 => n = 0
  OBVIOUS
<1>2. QED
  BY <1>1, Zenon DEF Told

\* Nothing is silent after a warning.
LEMMA ToldAlways ==
    ASSUME NEW f, NEW s, NEW n, n # 0
    PROVE  Told(f, n, s)
  BY Zenon DEF Told

\* The last of the reads is being answered, and l is still to come.
Reading(v, s, l) ==
    /\ Len(s) > 0 /\ ~s[Len(s)].whole /\ AllWhole(s, Len(s) - 1)
    /\ Stored(v.fifo, s, Len(s) - 1)
    /\ v.pcmd = ReadFrame /\ <<v.pcyl, v.phead>> = s[Len(s)].pos
    /\ v.dbuf \o l = OkayAck \o s[Len(s)].sent

\* Nothing is left: the stream is whole.
LEMMA AllCame ==
    ASSUME NEW x \in Seq(Nat), NEW body, Came(body, Nothing, x)
    PROVE  body = x
<1>1. PICK n : n = Len(x)
  OBVIOUS
<1>2. n \in Nat /\ x \in [1 .. n -> Nat]
  BY <1>1, LenProperties
<1>3. Len(Nothing) = 0
  BY DEF Nothing
<1>4. /\ body \in Seq(Nat) /\ Len(body) + Len(Nothing) = n
      /\ \A i \in 1 .. Len(body) : body[i] = x[i]
  BY <1>1, Zenon DEF Came
<1>5. Len(body) = n
  <2>1. Len(body) \in Nat
    BY <1>4, LenProperties
  <2>2. QED
    BY <1>3, <1>4, <2>1
<1>6. body \in [1 .. n -> Nat]
  BY <1>4, <1>5, LenProperties
<1>7. QED
  BY <1>2, <1>4, <1>5, <1>6

\* As long as some of a stream is to come, no end has come.
LEMMA SomeCame ==
    ASSUME NEW x \in Seq(Nat), Closed(x), NEW l \in Seq(Nat), l # Nothing,
           NEW body, Came(body, l, x)
    PROVE  /\ ~Terminated(body) /\ Stream(body) = Append(body, 0)
           /\ \A j \in 1 .. Len(l) : (l[j] = 0) <=> (j = Len(l))
<1>1. PICK n, m, k : n = Len(x) /\ m = Len(body) /\ k = Len(l)
  OBVIOUS
<1>2. /\ body \in Seq(Nat) /\ m + k = n
      /\ \A i \in 1 .. m : body[i] = x[i]
      /\ \A j \in 1 .. k : l[j] = x[m + j]
  BY <1>1, Zenon DEF Came
<1>3. /\ n \in Nat /\ m \in Nat /\ k \in Nat /\ k > 0
      /\ DOMAIN x = 1 .. n /\ DOMAIN body = 1 .. m
  <2>1. k # 0
    BY <1>1, EmptySeq DEF Nothing
  <2>2. QED
    BY <1>1, <1>2, <2>1, LenProperties
<1>4. \A i \in 1 .. n : (x[i] = 0) <=> (i = n)
  BY <1>1, <1>3, Zenon DEF Closed
<1>5. \A i \in 1 .. m : body[i] # 0
  <2> TAKE i \in 1 .. m
  <2>1. i \in 1 .. n /\ i # n
    BY <1>2, <1>3
  <2>2. QED
    BY <1>2, <1>4, <2>1, Zenon
<1>6. ~Terminated(body)
  BY <1>3, <1>5, Zenon DEF Terminated
<1>7. \A j \in 1 .. k : (l[j] = 0) <=> (j = k)
  <2> TAKE j \in 1 .. k
  <2>1. m + j \in 1 .. n /\ (m + j = n <=> j = k)
    BY <1>2, <1>3
  <2>2. QED
    BY <1>2, <1>4, <2>1, Zenon
<1>8. QED
  BY <1>1, <1>6, <1>7, Zenon DEF Stream

\* A read that gave no flux has no stream.
LEMMA StoredEmpty ==
    ASSUME NEW s, NEW n \in Nat, NEW f, Stored(f, s, n), ~(Len(s[n + 1].sent) > 1)
    PROVE  Stored(f, s, n + 1)
<1>1. \A pos : ~Gave(s, n + 1, pos)
  BY Zenon DEF Gave
<1>2. \A pos : Count(s, n + 1, pos) = Count(s, n, pos)
  BY <1>1, CountIs, Zenon
<1>3. \A r \in 1 .. n + 1 : r \in 1 .. n \/ r = n + 1
  OBVIOUS
<1>4. QED
  BY <1>1, <1>2, <1>3, Zenon DEF Stored

\* A stream that was given its end: what came before is as the device sent it.
LEMMA ShortPrefix ==
    ASSUME NEW x \in Seq(Nat), NEW l \in Seq(Nat), NEW body, Came(body, l, x)
    PROVE  IsPrefix(Front(Append(body, 0)), x) /\ Append(body, 0) \in Seq(Nat)
<1>1. PICK n, m, k, y : n = Len(x) /\ m = Len(body) /\ k = Len(l) /\ y = Append(body, 0)
  OBVIOUS
<1>2. /\ body \in Seq(Nat) /\ m + k = n
      /\ \A i \in 1 .. m : body[i] = x[i]
  BY <1>1, Zenon DEF Came
<1>3. n \in Nat /\ m \in Nat /\ k \in Nat
  BY <1>1, <1>2, LenProperties
<1>4. y \in Seq(Nat) /\ Len(y) = m + 1 /\ \A i \in 1 .. m : y[i] = body[i]
  BY <1>1, <1>2, AppendProperties
<1>5. Front(y) = SubSeq(y, 1, m)
  BY <1>3, <1>4 DEF Front
<1>6. m \in 0 .. Len(y) /\ m \in 0 .. n /\ m <= n
  BY <1>2, <1>3, <1>4
<1>7. PICK g, h : g = SubSeq(y, 1, m) /\ h = SubSeq(x, 1, m)
  OBVIOUS
<1>8. /\ g \in Seq(Nat) /\ Len(g) = m /\ h \in Seq(Nat) /\ Len(h) = m
      /\ \A i \in 1 .. m : g[i] = y[i] /\ h[i] = x[i]
  <2>1. \A i \in 1 .. m : y[i] \in Nat /\ x[i] \in Nat
    BY <1>1, <1>3, <1>4, <1>6, ElementOfSeq
  <2>2. m - 1 + 1 = m /\ \A i \in 1 .. m : 1 + i - 1 = i
    BY <1>3
  <2>3. QED
    BY <1>1, <1>3, <1>4, <1>6, <1>7, <2>1, <2>2, FirstBytes, SubSeqProperties
<1>9. g = h
  <2>1. g \in [1 .. m -> Nat] /\ h \in [1 .. m -> Nat]
    BY <1>8, LenProperties
  <2>2. \A i \in 1 .. m : g[i] = h[i]
    BY <1>2, <1>4, <1>8, Zenon
  <2>3. g = [i \in 1 .. m |-> g[i]] /\ h = [i \in 1 .. m |-> h[i]]
    BY <2>1
  <2>4. QED
    BY <2>2, <2>3, Zenon
<1>10. SubSeq(g, 1, m) = g
  BY <1>8, SubSeqFull
<1>11. IsPrefix(g, x)
  BY <1>1, <1>6, <1>7, <1>8, <1>9, <1>10, Zenon DEF IsPrefix
<1>12. QED
  BY <1>1, <1>4, <1>5, <1>7, <1>11, Zenon

\* While a stream is under way, what has come of the answer is a beginning of it.
LEMMA ReadingCame ==
    ASSUME NEW v, ParseInv(v), NEW s, ReadsInv(s), NEW l \in Seq(Nat), Reading(v, s, l)
    PROVE  LET n == Len(s) - 1
               x == s[n + 1].sent
           IN /\ n \in Nat /\ n + 1 = Len(s) /\ n + 1 \in 1 .. Len(s)
              /\ x \in Seq(Nat) /\ Len(x) > 0 /\ Closed(x)
              /\ v.pcmd # Nothing /\ v.pcmd[1] = CMD_READ_FLUX
              /\ v.dbuf \in Seq(Nat) /\ Len(v.dbuf) \in Nat
              /\ Len(v.dbuf) + Len(l) = 2 + Len(x)
              /\ Len(v.dbuf) >= 2 => /\ Fits(v) /\ Okay(v) /\ Came(Body(v), l, x)
<1>1. PICK n, x : n = Len(s) - 1 /\ x = s[n + 1].sent
  OBVIOUS
<1>2. n \in Nat /\ n + 1 = Len(s) /\ n + 1 \in 1 .. Len(s)
  BY <1>1 DEF Reading, ReadsInv
<1>3. x \in Seq(Nat) /\ Len(x) > 0 /\ Closed(x)
  BY <1>1, <1>2, Zenon DEF ReadsInv
<1>4. v.pcmd = ReadFrame /\ v.dbuf \o l = OkayAck \o x
  BY <1>1, <1>2, Zenon DEF Reading
<1>5. v.pcmd # Nothing /\ v.pcmd[1] = CMD_READ_FLUX
  BY <1>4 DEF ReadFrame, Nothing
<1>6. v.dbuf \in Seq(Nat) /\ Len(v.dbuf) \in Nat
  BY ParseFields, LenProperties DEF ParseInv
<1>7. Len(v.dbuf) + Len(l) = 2 + Len(x)
  <2>1. PICK d, u : d = v.dbuf /\ u = OkayAck
    OBVIOUS
  <2>2. u \in Seq(Nat) /\ Len(u) = 2
    BY <2>1, Codes DEF OkayAck
  <2>3. Len(d \o l) = Len(d) + Len(l)
    BY <1>6, <2>1, ConcatProperties, Zenon
  <2>4. Len(u \o x) = Len(u) + Len(x)
    BY <1>3, <2>2, ConcatProperties, Zenon
  <2>5. QED
    BY <1>4, <2>1, <2>2, <2>3, <2>4, Zenon
<1>8. ASSUME Len(v.dbuf) >= 2
      PROVE  Fits(v) /\ Okay(v) /\ Came(Body(v), l, x)
  <2>1. PICK d, body : d = v.dbuf /\ body = SubSeq(d, 3, Len(d))
    OBVIOUS
  <2>2. d[1] = CMD_READ_FLUX /\ d[2] = ACK_OKAY /\ Came(body, l, x)
    <3>1. d \in Seq(Nat) /\ Len(d) >= 2 /\ d \o l = OkayAck \o x
      BY <1>4, <1>6, <1>8, <2>1, Zenon
    <3>2. QED
      BY <1>3, <2>1, <3>1, BodySplit, Zenon
  <2>3. Fits(v) /\ Okay(v)
    BY <1>5, <1>8, <2>1, <2>2, Zenon DEF Fits, Okay
  <2>4. Body(v) = body
    BY <2>1, Zenon DEF Body
  <2>5. QED
    BY <2>2, <2>3, <2>4, Zenon
<1>9. QED
  BY <1>1, <1>2, <1>3, <1>5, <1>6, <1>7, <1>8, Zenon

\* The end of an answer: all of the stream is stored, or the loss is told.
LEMMA ReadingResolved ==
    ASSUME NEW v, ParseInv(v), NEW s, ReadsInv(s), NEW l \in Seq(Nat), Reading(v, s, l)
    PROVE  /\ l = Nothing => Stored(ResolvedFifo(v), s, Len(s)) /\ Lost(v) = 0
           /\ l # Nothing => InPlace(ResolvedFifo(v), s) /\ Lost(v) # 0
<1>1. PICK n, x : n = Len(s) - 1 /\ x = s[n + 1].sent
  OBVIOUS
<1>2. /\ n \in Nat /\ n + 1 = Len(s) /\ n + 1 \in 1 .. Len(s)
      /\ x \in Seq(Nat) /\ Len(x) > 0 /\ Closed(x)
      /\ v.pcmd # Nothing /\ v.pcmd[1] = CMD_READ_FLUX
      /\ v.dbuf \in Seq(Nat) /\ Len(v.dbuf) \in Nat
      /\ Len(v.dbuf) + Len(l) = 2 + Len(x)
      /\ Len(v.dbuf) >= 2 => /\ Fits(v) /\ Okay(v) /\ Came(Body(v), l, x)
  BY <1>1, ReadingCame, Zenon
<1>3. /\ Stored(v.fifo, s, n) /\ ~s[n + 1].whole
      /\ s[n + 1].pos = <<v.pcyl, v.phead>>
  BY <1>1, <1>2, Zenon DEF Reading
<1>4. InPlace(v.fifo, s)
  BY <1>2, <1>3, LastMissing, Zenon
<1>5. CASE Len(v.dbuf) < 2
  <2>1. ~Fits(v)
    BY <1>2, <1>5 DEF Fits
  <2>2. Lost(v) = 1 /\ ResolvedFifo(v) = v.fifo
    BY <1>2, <2>1, Zenon DEF Lost, ResolvedFifo
  <2>3. l # Nothing
    <3>1. Len(l) # 0
      <4>1. Len(x) \in Nat /\ Len(l) \in Nat
        BY <1>2, LenProperties
      <4>2. QED
        BY <1>2, <1>5, <4>1
    <3>2. QED
      BY <3>1, EmptySeq DEF Nothing
  <2>4. 1 # 0
    OBVIOUS
  <2>5. QED
    BY <1>4, <2>2, <2>3, <2>4, Zenon
<1>6. PICK body, stream : body = Body(v) /\ stream = Stream(body)
  OBVIOUS
<1>7. ASSUME Len(v.dbuf) >= 2
      PROVE  /\ Came(body, l, x)
             /\ Lost(v) = Bit(~Terminated(body)) + Bit(Len(body) > Len(stream))
             /\ ResolvedFifo(v) = (IF Len(stream) > 1 THEN Grown(v, stream) ELSE v.fifo)
  <2>1. Fits(v) /\ Okay(v) /\ Came(body, l, x)
    BY <1>2, <1>6, <1>7, Zenon
  <2>2. CMD_READ_FLUX # CMD_GET_FLUX_STATUS
    BY DEF CMD_READ_FLUX, CMD_GET_FLUX_STATUS
  <2>3. QED
    BY <1>2, <1>6, <2>1, <2>2, Zenon DEF Lost, ResolvedFifo
<1>8. CASE Len(v.dbuf) >= 2 /\ l = Nothing
  <2>1. body = x /\ stream = x /\ Terminated(body)
    <3>1. body = x
      BY <1>2, <1>7, <1>8, AllCame, Zenon
    <3>2. QED
      BY <1>2, <1>6, <3>1, ClosedStream, Zenon
  <2>2. Lost(v) = 0
    <3>1. Len(x) \in Nat
      BY <1>2, LenProperties
    <3>2. ~(Len(body) > Len(stream))
      BY <2>1, <3>1
    <3>3. Bit(~Terminated(body)) = 0 /\ Bit(Len(body) > Len(stream)) = 0
      BY <2>1, <3>2, Zenon DEF Bit
    <3>4. QED
      BY <1>7, <1>8, <3>3
  <2>3. Stored(ResolvedFifo(v), s, n + 1)
    <3>1. CASE Len(x) > 1
      <4>1. ResolvedFifo(v) = Grown(v, s[n + 1].sent)
        BY <1>1, <1>7, <1>8, <2>1, <3>1, Zenon
      <4>2. Stored(Grown(v, s[n + 1].sent), s, n + 1)
        BY <1>1, <1>2, <1>3, <3>1, GrownStored, Zenon
      <4>3. QED
        BY <4>1, <4>2, Zenon
    <3>2. CASE ~(Len(x) > 1)
      <4>1. ResolvedFifo(v) = v.fifo
        BY <1>7, <1>8, <2>1, <3>2, Zenon
      <4>2. QED
        BY <1>1, <1>2, <1>3, <3>2, <4>1, StoredEmpty, Zenon
    <3>3. QED
      BY <3>1, <3>2
  <2>4. QED
    BY <1>2, <1>8, <2>2, <2>3, Zenon
<1>9. CASE Len(v.dbuf) >= 2 /\ l # Nothing
  <2>1. Came(body, l, x)
    BY <1>7, <1>9, Zenon
  <2>2. ~Terminated(body) /\ stream = Append(body, 0)
    BY <1>2, <1>6, <1>9, <2>1, SomeCame, Zenon
  <2>3. IsPrefix(Front(stream), x) /\ stream \in Seq(Nat)
    BY <1>2, <2>1, <2>2, ShortPrefix, Zenon
  <2>4. Lost(v) # 0
    <3>1. PICK more : more = Bit(Len(body) > Len(stream))
      OBVIOUS
    <3>2. more \in Nat
      BY <3>1 DEF Bit
    <3>3. Bit(~Terminated(body)) = 1
      BY <2>2, Zenon DEF Bit
    <3>4. Lost(v) = 1 + more
      BY <1>7, <1>9, <3>1, <3>3, Zenon
    <3>5. QED
      BY <3>2, <3>4
  <2>5. InPlace(ResolvedFifo(v), s)
    <3>1. CASE Len(stream) > 1
      <4>1. ResolvedFifo(v) = Grown(v, stream)
        BY <1>7, <1>9, <3>1, Zenon
      <4>2. Len(s[n + 1].sent) > 1
        <5>1. PICK m, k : m = Len(body) /\ k = Len(l)
          OBVIOUS
        <5>2. m + k = Len(x) /\ body \in Seq(Nat)
          BY <2>1, <5>1, Zenon DEF Came
        <5>3. m \in Nat /\ k \in Nat /\ k # 0
          BY <1>9, <5>1, <5>2, LenProperties, EmptySeq DEF Nothing
        <5>4. Len(stream) = m + 1
          BY <2>2, <5>1, <5>2, AppendProperties
        <5>5. Len(x) > 1
          BY <3>1, <5>2, <5>3, <5>4
        <5>6. QED
          BY <1>1, <5>5, Zenon
      <4>3. IsPrefix(Front(stream), s[n + 1].sent)
        BY <1>1, <2>3, Zenon
      <4>4. Len(s) = n + 1
        BY <1>2
      <4>5. InPlace(Grown(v, stream), s)
        BY <1>2, <1>3, <2>3, <4>2, <4>3, <4>4, GrownShort, Zenon
      <4>6. QED
        BY <4>1, <4>5, Zenon
    <3>2. CASE ~(Len(stream) > 1)
      <4>1. ResolvedFifo(v) = v.fifo
        BY <1>7, <1>9, <3>2, Zenon
      <4>2. QED
        BY <1>4, <4>1, Zenon
    <3>3. QED
      BY <3>1, <3>2
  <2>6. QED
    BY <1>9, <2>4, <2>5, Zenon
<1>10. Len(v.dbuf) < 2 \/ Len(v.dbuf) >= 2
  BY <1>2
<1>11. QED
  BY <1>5, <1>8, <1>9, <1>10, Zenon

\* Every read has been ended properly, and its stream is stored.
Good(v, s) == Mute(v) /\ Stored(v.fifo, s, Len(s)) /\ AllWhole(s, Len(s))

\* A read has not been: what is stored is in its place.
Broken(v, s) == Mute(v) /\ InPlace(v.fifo, s) /\ Told(v.fifo, v.warnings, s)

\* Either, or a stream is under way.
Fine(v, s) == Broken(v, s) \/ \E l \in Seq(Nat) : Reading(v, s, l)

\* What is stored of whole reads is as of reads that may be broken off.
LEMMA GoodIsBroken ==
    ASSUME NEW v, NEW s, ReadsInv(s), Good(v, s)
    PROVE  Broken(v, s)
  BY AllStored, Zenon DEF Good, Broken

\* What is stored is in its place now,
LEMMA FineNow ==
    ASSUME NEW v, NEW s, ReadsInv(s), Fine(v, s)
    PROVE  InPlace(v.fifo, s) /\ Told(v.fifo, v.warnings, s)
<1>1. CASE Broken(v, s)
  BY <1>1, Zenon DEF Broken
<1>2. CASE \E l \in Seq(Nat) : Reading(v, s, l)
  <2>1. PICK n : n = Len(s) - 1
    OBVIOUS
  <2>2. n \in Nat /\ n + 1 = Len(s)
    BY <1>2, <2>1 DEF Reading, ReadsInv
  <2>3. ~s[n + 1].whole /\ Stored(v.fifo, s, n)
    BY <1>2, <2>1, <2>2, Zenon DEF Reading
  <2>4. QED
    BY <2>2, <2>3, LastMissing, Zenon
<1>3. QED
  BY <1>1, <1>2, Zenon DEF Fine

\* and when the open answer ends here.
LEMMA FineResolved ==
    ASSUME NEW v, ParseInv(v), NEW s, ReadsInv(s), Fine(v, s)
    PROVE  /\ InPlace(ResolvedFifo(v), s)
           /\ Told(ResolvedFifo(v), v.warnings + Lost(v), s)
<1>1. v.warnings \in Nat /\ Lost(v) \in Nat
  BY ParseFields, ResolvedFields, Zenon DEF ParseInv
<1>2. CASE Broken(v, s)
  <2>1. Mute(v) /\ InPlace(v.fifo, s) /\ Told(v.fifo, v.warnings, s)
    BY <1>2, Zenon DEF Broken
  <2>2. PICK f, g : f = v.fifo /\ g = ResolvedFifo(v)
    OBVIOUS
  <2>3. SameData(f, g)
    BY <2>1, <2>2, MuteResolved, Zenon
  <2>4. Len(s) \in Nat /\ \A pos \in Places : Len(f[pos]) \in Nat
    <3>1. f \in [Places -> Seq(FluxType)]
      BY <2>2, ParseFields, Zenon DEF ParseInv
    <3>2. \A pos \in Places : f[pos] \in Seq(FluxType)
      BY <3>1, Zenon
    <3>3. QED
      BY <3>2, LenProperties, Zenon DEF ReadsInv
  <2>5. InPlace(g, s) /\ Told(g, v.warnings, s)
    BY <2>1, <2>2, <2>3, <2>4, InPlaceData, Zenon
  <2>6. QED
    BY <1>1, <2>2, <2>5, ToldMore, Zenon
<1>3. CASE \E l \in Seq(Nat) : Reading(v, s, l)
  <2>1. PICK l \in Seq(Nat) : Reading(v, s, l)
    BY <1>3
  <2>2. CASE l = Nothing
    BY <2>1, <2>2, ReadingResolved, AllStored, Zenon
  <2>3. CASE l # Nothing
    <3>1. InPlace(ResolvedFifo(v), s) /\ Lost(v) # 0
      BY <2>1, <2>3, ReadingResolved, Zenon
    <3>2. v.warnings + Lost(v) # 0
      BY <1>1, <3>1
    <3>3. QED
      BY <3>1, <3>2, ToldAlways, Zenon
  <2>4. QED
    BY <2>2, <2>3
<1>4. QED
  BY <1>2, <1>3, Zenon DEF Fine

\* Some of the answer is lost.
LEMMA FineFirst ==
    ASSUME NEW e, ParseInv(e), NEW b \in Seq(Nat), NEW m \in 0 .. Len(b),
           NEW s, Fine(With(e, b), s)
    PROVE  Fine(With(e, SubSeq(b, 1, m)), s)
<1>1. PICK a, rest, d : a = SubSeq(b, 1, m) /\ rest = SubSeq(b, m + 1, Len(b)) /\ d = e.dbuf
  OBVIOUS
<1>2. a \in Seq(Nat) /\ Len(a) = m /\ d \in Seq(Nat) /\ Len(b) \in Nat
  BY <1>1, FirstBytes, ParseFields, LenProperties DEF ParseInv
<1>3. rest \in Seq(Nat) /\ b = a \o rest
  <2>1. rest \in Seq(Nat)
    <3>1. \A i \in m + 1 .. Len(b) : b[i] \in Nat
      BY <1>2, ElementOfSeq
    <3>2. QED
      BY <1>1, <1>2, <3>1, SubSeqProperties
  <2>2. 1 \in 1 .. Len(b) + 1 /\ m \in 0 .. Len(b) /\ Len(b) \in m .. Len(b) /\ 1 - 1 = 0
    BY <1>2
  <2>3. SubSeq(b, 1, m) \o SubSeq(b, m + 1, Len(b)) = SubSeq(b, 1, Len(b))
    BY <2>2, ConcatAdjacentSubSeq
  <2>4. SubSeq(b, 1, Len(b)) = b
    BY SubSeqFull
  <2>5. QED
    BY <1>1, <2>1, <2>3, <2>4, Zenon
<1>4. PICK w, u : w = With(e, b) /\ u = With(e, a)
  OBVIOUS
<1>5. /\ w.dbuf = d \o b /\ w.pcmd = e.pcmd /\ w.pcyl = e.pcyl /\ w.phead = e.phead
      /\ w.fifo = e.fifo /\ w.warnings = e.warnings
  BY <1>1, <1>4, WithFields, Zenon
<1>6. /\ u.dbuf = d \o a /\ u.pcmd = e.pcmd /\ u.pcyl = e.pcyl /\ u.phead = e.phead
      /\ u.fifo = e.fifo /\ u.warnings = e.warnings
  BY <1>1, <1>2, <1>4, WithFields, Zenon
<1>7. d \o b = (d \o a) \o rest
  BY <1>2, <1>3, Joined, ZenonT(40)
<1>8. CASE Broken(w, s)
  <2>1. Mute(w) /\ InPlace(w.fifo, s) /\ Told(w.fifo, w.warnings, s)
    BY <1>8, Zenon DEF Broken
  <2>2. Mute(u)
    <3>1. CASE Quiet(w)
      BY <1>5, <1>6, <3>1, Zenon DEF Mute, Quiet
    <3>2. CASE Len(w.dbuf) >= 2 => w.dbuf[2] # ACK_OKAY
      <4>1. ASSUME Len(u.dbuf) >= 2
            PROVE  Len(w.dbuf) >= 2 /\ w.dbuf[2] = u.dbuf[2]
        <5>1. PICK g, h, n, k : g = d \o a /\ h = g \o rest /\ n = Len(g) /\ k = Len(rest)
          OBVIOUS
        <5>2. g \in Seq(Nat) /\ u.dbuf = g /\ w.dbuf = h
          BY <1>2, <1>5, <1>6, <1>7, <5>1, ConcatProperties, Zenon
        <5>3. n \in Nat /\ k \in Nat /\ n >= 2
          BY <1>3, <4>1, <5>1, <5>2, LenProperties
        <5>4. /\ Len(h) = n + k
              /\ \A i \in 1 .. n + k : h[i] = IF i <= n THEN g[i] ELSE rest[i - n]
          <6>1. /\ Len(g \o rest) = Len(g) + Len(rest)
                /\ \A i \in 1 .. Len(g) + Len(rest) :
                      (g \o rest)[i] = IF i <= Len(g) THEN g[i] ELSE rest[i - Len(g)]
            BY <1>3, <5>2, ConcatProperties, Zenon
          <6>2. QED
            BY <5>1, <6>1, Zenon
        <5>5. 2 \in 1 .. n + k /\ 2 <= n /\ n + k >= 2
          BY <5>3
        <5>6. h[2] = g[2]
          BY <5>4, <5>5, Zenon
        <5>7. QED
          BY <5>2, <5>4, <5>5, <5>6, Zenon
      <4>2. QED
        BY <3>2, <4>1, Zenon DEF Mute
    <3>3. QED
      BY <2>1, <3>1, <3>2, Zenon DEF Mute
  <2>3. InPlace(u.fifo, s) /\ Told(u.fifo, u.warnings, s)
    BY <1>5, <1>6, <2>1, Zenon
  <2>4. QED
    BY <1>1, <1>4, <2>2, <2>3, Zenon DEF Fine, Broken
<1>9. CASE \E l \in Seq(Nat) : Reading(w, s, l)
  <2>1. PICK l \in Seq(Nat) : Reading(w, s, l)
    BY <1>9
  <2>2. PICK r : r = rest \o l
    OBVIOUS
  <2>3. r \in Seq(Nat)
    BY <1>3, <2>2, ConcatProperties, Zenon
  <2>4. u.dbuf \o r = w.dbuf \o l
    <3>1. PICK g : g = d \o a
      OBVIOUS
    <3>2. g \in Seq(Nat)
      BY <1>2, <3>1, ConcatProperties, Zenon
    <3>3. (g \o rest) \o l = g \o (rest \o l)
      BY <1>3, <3>2, Joined, Zenon
    <3>4. QED
      BY <1>5, <1>6, <1>7, <2>2, <3>1, <3>3, Zenon
  <2>5. Reading(u, s, r)
    BY <1>5, <1>6, <2>1, <2>4, Zenon DEF Reading
  <2>6. QED
    BY <1>1, <1>4, <2>3, <2>5, Zenon DEF Fine
<1>10. QED
  BY <1>4, <1>8, <1>9, Zenon DEF Fine

-----------------------------------------------------------------------------
(* A command, and bytes of an answer, as the parser sees them.             *)

\* A command that can be carried out.
Sendable(frame) == HostBytes(frame) /\ Valid(frame) /\ OffDisk(frame) = 0

\* The commands of a capture can be carried out.
LEMMA SessionFrames ==
    /\ Sendable(<<CMD_GET_INFO, 3, GETINFO_FIRMWARE>>)
    /\ \A c \in 0 .. MaxTracks - 1 : Sendable(<<CMD_SEEK, 3, c>>)
    /\ \A h \in {0, 1} : Sendable(<<CMD_HEAD, 3, h>>)
    /\ Sendable(ReadFrame) /\ Sendable(<<CMD_GET_FLUX_STATUS, 2>>)
<1>1. FrameMax \in Nat /\ 8 <= FrameMax
  BY LogAssumption, RoomAssumption DEF ReadFrame
<1>2. Sendable(<<CMD_GET_INFO, 3, GETINFO_FIRMWARE>>)
  BY <1>1, Frames DEF Sendable, Valid, OffDisk, Bit, CMD_GET_INFO, CMD_SEEK
<1>3. ASSUME NEW c \in 0 .. MaxTracks - 1 PROVE Sendable(<<CMD_SEEK, 3, c>>)
  <2>1. c \in Nat /\ ~(c >= MaxTracks)
    BY LogAssumption
  <2>2. PICK f : f = <<CMD_SEEK, 3, c>>
    OBVIOUS
  <2>3. Len(f) = 3 /\ f[2] = 3 /\ f[3] = c
    BY <2>2
  <2>4. Valid(f)
    BY <1>1, <2>3 DEF Valid
  <2>5. OffDisk(f) = 0
    BY <2>1, <2>3, Zenon DEF OffDisk, Bit
  <2>6. HostBytes(f)
    BY <2>1, <2>2, Frames
  <2>7. QED
    BY <2>2, <2>4, <2>5, <2>6, Zenon DEF Sendable
<1>4. ASSUME NEW h \in {0, 1} PROVE Sendable(<<CMD_HEAD, 3, h>>)
  <2>1. PICK f : f = <<CMD_HEAD, 3, h>>
    OBVIOUS
  <2>2. Len(f) = 3 /\ f[2] = 3 /\ f[1] = CMD_HEAD /\ CMD_HEAD # CMD_SEEK /\ h \in Nat
    BY <2>1 DEF CMD_HEAD, CMD_SEEK
  <2>3. Valid(f) /\ OffDisk(f) = 0
    BY <1>1, <2>2 DEF Valid, OffDisk, Bit
  <2>4. HostBytes(f)
    BY <2>1, <2>2, Frames
  <2>5. QED
    BY <2>1, <2>3, <2>4, Zenon DEF Sendable
<1>5. Sendable(ReadFrame)
  BY <1>1, Frames DEF Sendable, Valid, OffDisk, Bit, ReadFrame, CMD_READ_FLUX, CMD_SEEK
<1>6. Sendable(<<CMD_GET_FLUX_STATUS, 2>>)
  BY <1>1, Frames DEF Sendable, Valid, OffDisk, Bit, CMD_GET_FLUX_STATUS, CMD_SEEK
<1>7. QED
  BY <1>2, <1>3, <1>4, <1>5, <1>6, Zenon

\* w is what a command makes of v.
Commanded(v, frame, w) ==
    /\ ParseInv(w) /\ w.pcmd = frame /\ w.dbuf = Nothing
    /\ w.pcyl = w.cyl /\ w.cyl = TrackedCyl(v, frame)
    /\ w.phead = w.head /\ w.head = TrackedHead(v, frame)
    /\ w.fifo = ResolvedFifo(v) /\ w.last = ResolvedLast(v)
    /\ w.warnings = v.warnings + Lost(v)

\* Such a command opens an answer and tracks the heads.
LEMMA CommandSeen ==
    ASSUME NEW v, ParseInv(v), NEW frame, Sendable(frame)
    PROVE  Commanded(v, frame, HostFrame(v, frame))
<1>1. HostBytes(frame) /\ Valid(frame) /\ OffDisk(frame) = 0
  BY Zenon DEF Sendable
<1>2. PICK w : w = HostFrame(v, frame)
  OBVIOUS
<1>3. ParseInv(w) /\ HostFrameIs(v, frame, w)
  BY <1>1, <1>2, HostFrameStep, HostFrameFields, Zenon
<1>4. v.warnings + Lost(v) + 0 = v.warnings + Lost(v)
  BY ParseFields, ResolvedFields DEF ParseInv
<1>5. QED
  BY <1>1, <1>2, <1>3, <1>4, Zenon DEF HostFrameIs, Commanded

\* Nothing has been warned about, and nothing will be when l has come.
Clean(v, l) == v.warnings = 0 /\ Lost(With(v, l)) = 0

\* What is lost depends on the command and its answer alone.
LEMMA LostSame ==
    ASSUME NEW p, NEW q, q.pcmd = p.pcmd, q.dbuf = p.dbuf
    PROVE  Lost(q) = Lost(p)
<1>1. Fits(q) = Fits(p) /\ Okay(q) = Okay(p) /\ Body(q) = Body(p)
  BY DEF Fits, Okay, Body
<1>2. QED
  BY <1>1 DEF Lost

\* With nothing left to come, nothing has been lost.
LEMMA CleanNow ==
    ASSUME NEW v, ParseInv(v), Clean(v, Nothing)
    PROVE  v.warnings = 0 /\ Lost(v) = 0
<1>1. PICK w : w = With(v, Nothing)
  OBVIOUS
<1>2. v.dbuf \in Seq(Nat) /\ Nothing \in Seq(Nat)
  BY ParseFields, Codes DEF ParseInv
<1>3. w.pcmd = v.pcmd /\ w.dbuf = v.dbuf \o Nothing
  BY <1>1, <1>2, WithFields, Zenon
<1>4. v.dbuf \o Nothing = v.dbuf
  BY <1>2, ConcatEmptySeq DEF Nothing
<1>5. Lost(w) = Lost(v)
  BY <1>3, <1>4, LostSame, Zenon
<1>6. QED
  BY <1>1, <1>5, Zenon DEF Clean

\* The streams after a command, when no stream was under way,
LEMMA SeenCommand ==
    ASSUME NEW v, ParseInv(v), NEW s, ReadsInv(s), NEW frame, NEW w, Commanded(v, frame, w)
    PROVE  /\ Good(v, s) => Good(w, s)
           /\ Broken(v, s) => Broken(w, s)
           /\ frame[1] # CMD_READ_FLUX => Quiet(w)
           /\ Clean(v, Nothing) => w.warnings = 0
<1>1. /\ w.pcmd = frame /\ w.dbuf = Nothing
      /\ w.fifo = ResolvedFifo(v) /\ w.warnings = v.warnings + Lost(v)
  BY Zenon DEF Commanded
<1>2. frame[1] # CMD_READ_FLUX => Quiet(w)
  BY <1>1, Zenon DEF Quiet
<1>3. Mute(w)
  BY <1>1 DEF Mute, Nothing
<1>4. ASSUME Good(v, s) PROVE Good(w, s)
  <2>1. Mute(v) /\ Stored(v.fifo, s, Len(s)) /\ AllWhole(s, Len(s))
    BY <1>4, Zenon DEF Good
  <2>2. Len(s) \in Nat
    BY Zenon DEF ReadsInv
  <2>3. Stored(ResolvedFifo(v), s, Len(s))
    BY <2>1, <2>2, MuteResolved, StoredData, Zenon
  <2>4. QED
    BY <1>1, <1>3, <2>1, <2>3, Zenon DEF Good
<1>5. ASSUME Broken(v, s) PROVE Broken(w, s)
  <2>1. Fine(v, s)
    BY <1>5, Zenon DEF Fine
  <2>2. InPlace(w.fifo, s) /\ Told(w.fifo, w.warnings, s)
    BY <1>1, <2>1, FineResolved, Zenon
  <2>3. QED
    BY <1>3, <2>2, Zenon DEF Broken
<1>6. ASSUME Clean(v, Nothing) PROVE w.warnings = 0
  <2>1. v.warnings = 0 /\ Lost(v) = 0
    BY <1>6, CleanNow, Zenon
  <2>2. QED
    BY <1>1, <2>1
<1>7. QED
  BY <1>2, <1>4, <1>5, <1>6, Zenon

\* t is s with its last read ended, whole or not.
Ended(s, t, whole) ==
    /\ Len(t) = Len(s) /\ Len(s) \in Nat
    /\ \A q \in 1 .. Len(s) :
          /\ t[q].pos = s[q].pos /\ t[q].sent = s[q].sent
          /\ t[q].whole = IF q = Len(s) THEN whole ELSE s[q].whole

\* and when one was.
LEMMA SeenEnd ==
    ASSUME NEW v, ParseInv(v), NEW s, ReadsInv(s), NEW l \in Seq(Nat), Reading(v, s, l),
           NEW frame, frame[1] # CMD_READ_FLUX, NEW w, Commanded(v, frame, w),
           NEW t, Ended(s, t, l = Nothing)
    PROVE  /\ l = Nothing => Good(w, t)
           /\ l # Nothing => Broken(w, t)
           /\ Quiet(w)
<1>1. /\ w.pcmd = frame /\ w.dbuf = Nothing
      /\ w.fifo = ResolvedFifo(v) /\ w.warnings = v.warnings + Lost(v)
  BY Zenon DEF Commanded
<1>2. Quiet(w) /\ Mute(w)
  BY <1>1, Zenon DEF Quiet, Mute
<1>3. PICK n : n = Len(s)
  OBVIOUS
<1>4. /\ Len(t) = n /\ n \in Nat
      /\ \A q \in 1 .. n :
            /\ t[q].pos = s[q].pos /\ t[q].sent = s[q].sent
            /\ t[q].whole = IF q = n THEN l = Nothing ELSE s[q].whole
  BY <1>3, Zenon DEF Ended
<1>5. n > 0 /\ ~s[n].whole /\ AllWhole(s, n - 1)
  BY <1>3, Zenon DEF Reading
<1>6. CASE l = Nothing
  <2>1. Stored(w.fifo, s, n)
    BY <1>1, <1>3, <1>6, ReadingResolved, Zenon
  <2>2. \A pos : \A k \in 0 .. n : Count(t, k, pos) = Count(s, k, pos)
    BY <1>4, CountSame, ZenonT(40)
  <2>3. \A r \in 1 .. n : \A pos : Gave(t, r, pos) <=> Gave(s, r, pos)
    BY <1>4, Zenon DEF Gave
  <2>4. n \in 0 .. n /\ \A r \in 1 .. n : r \in 0 .. n
    BY <1>4
  <2>5. Stored(w.fifo, t, n)
    <3>1. ASSUME NEW pos \in Places
          PROVE  /\ Len(w.fifo[pos]) = Count(t, n, pos)
                 /\ \A r \in 1 .. n : Gave(t, r, pos) =>
                                         w.fifo[pos][Count(t, r, pos)].data = t[r].sent
      <4>1. Len(w.fifo[pos]) = Count(t, n, pos)
        BY <2>1, <2>2, <2>4, Zenon DEF Stored
      <4>2. ASSUME NEW r \in 1 .. n, Gave(t, r, pos)
            PROVE  w.fifo[pos][Count(t, r, pos)].data = t[r].sent
        <5>1. w.fifo[pos][Count(s, r, pos)].data = s[r].sent
          BY <2>1, <2>3, <4>2, Zenon DEF Stored
        <5>2. Count(t, r, pos) = Count(s, r, pos) /\ t[r].sent = s[r].sent
          BY <1>4, <2>2, <2>4, Zenon
        <5>3. QED
          BY <5>1, <5>2, Zenon
      <4>3. QED
        BY <4>1, <4>2, Zenon
    <3>2. QED
      BY <3>1, Zenon DEF Stored
  <2>6. AllWhole(t, n)
    <3>1. \A r \in 1 .. n : r = n \/ r \in 1 .. n - 1
      BY <1>4
    <3>2. QED
      BY <1>4, <1>5, <1>6, <3>1, Zenon DEF AllWhole
  <2>7. QED
    BY <1>2, <1>4, <1>6, <2>5, <2>6, Zenon DEF Good
<1>7. CASE l # Nothing
  <2>1. Fine(v, s)
    BY Zenon DEF Fine
  <2>2. InPlace(w.fifo, s) /\ Told(w.fifo, w.warnings, s)
    BY <1>1, <2>1, FineResolved, Zenon
  <2>3. SameReads(s, t)
    <3>1. ASSUME NEW q \in 1 .. n PROVE t[q].whole = s[q].whole
      <4>1. s[q].whole \in BOOLEAN
        BY <1>3, Zenon DEF ReadsInv
      <4>2. CASE q = n
        BY <1>4, <1>5, <1>7, <4>1, <4>2
      <4>3. CASE q # n
        BY <1>4, <4>3, Zenon
      <4>4. QED
        BY <4>2, <4>3
    <3>2. QED
      BY <1>3, <1>4, <3>1, Zenon DEF SameReads
  <2>4. InPlace(w.fifo, t) /\ Told(w.fifo, w.warnings, t)
    BY <2>2, <2>3, ReadsAlike, Zenon
  <2>5. QED
    BY <1>2, <1>7, <2>4, Zenon DEF Broken
<1>8. QED
  BY <1>2, <1>6, <1>7, Zenon

\* r is l without its first n bytes.
Without(r, l, n) ==
    r \in Seq(Nat) /\ Len(r) = Len(l) - n /\ \A j \in 1 .. Len(r) : r[j] = l[n + j]

\* What the host reads of what has come.
LEMMA LineSplit ==
    ASSUME NEW l \in Seq(Nat), NEW n \in 1 .. Len(l), NEW a, a = SubSeq(l, 1, n),
           NEW r, r = SubSeq(l, n + 1, Len(l))
    PROVE  a \in Seq(Nat) /\ Len(a) = n /\ Without(r, l, n) /\ a \o r = l
<1>1. PICK k : k = Len(l)
  OBVIOUS
<1>2. k \in Nat /\ n \in 1 .. k /\ n \in 0 .. k
  BY <1>1, LenProperties
<1>3. a \in Seq(Nat) /\ Len(a) = n
  BY <1>1, <1>2, FirstBytes
<1>4. \A i \in n + 1 .. k : l[i] \in Nat
  BY <1>1, <1>2, ElementOfSeq
<1>5. /\ r \in Seq(Nat) /\ Len(r) = (IF n + 1 <= k THEN k - (n + 1) + 1 ELSE 0)
      /\ \A j \in 1 .. k - (n + 1) + 1 : r[j] = l[n + 1 + j - 1]
  <2>1. PICK g, q : g = n + 1 /\ q = SubSeq(l, g, k)
    OBVIOUS
  <2>2. g \in Int /\ k \in Int /\ \A i \in g .. k : l[i] \in Nat
    BY <1>2, <1>4, <2>1
  <2>3. SubSeq(l, g, k) \in Seq(Nat)
    BY <2>2, SubSeqProperties, Zenon
  <2>4. Len(SubSeq(l, g, k)) = IF g <= k THEN k - g + 1 ELSE 0
    BY <2>2, SubSeqProperties, Zenon
  <2>5. \A j \in 1 .. k - g + 1 : SubSeq(l, g, k)[j] = l[g + j - 1]
    BY <2>2, SubSeqProperties, SMT
  <2>6. r = q
    BY <1>1, <2>1, Zenon
  <2>7. QED
    BY <2>1, <2>3, <2>4, <2>5, <2>6, Zenon
<1>6. Len(r) = k - n
  BY <1>2, <1>5
<1>7. ASSUME NEW j \in 1 .. Len(r) PROVE r[j] = l[n + j]
  <2>1. j \in 1 .. k - (n + 1) + 1 /\ n + 1 + j - 1 = n + j
    BY <1>2, <1>6
  <2>2. QED
    BY <1>5, <2>1
<1>8. a \o r = l
  <2>1. 1 \in 1 .. k + 1 /\ n \in 1 - 1 .. k /\ k \in n .. k
    BY <1>2
  <2>2. SubSeq(l, 1, n) \o SubSeq(l, n + 1, k) = SubSeq(l, 1, k)
    BY <1>1, <2>1, ConcatAdjacentSubSeq
  <2>3. QED
    BY <1>1, <2>2, SubSeqFull, Zenon
<1>9. QED
  BY <1>1, <1>3, <1>5, <1>6, <1>7, <1>8, Zenon DEF Without

\* What bytes that the host takes from the line leave as it was.
Seeing(v, s, l, w, m) ==
    /\ ParseInv(w) /\ w.cyl = v.cyl /\ w.head = v.head /\ w.pcmd = v.pcmd /\ w.fifo = v.fifo
    /\ Quiet(v) => Quiet(w)
    /\ Quiet(v) /\ Good(v, s) => Good(w, s)
    /\ Quiet(v) /\ Broken(v, s) => Broken(w, s)
    /\ Reading(v, s, l) => Reading(w, s, m)
    /\ Clean(v, l) => Clean(w, m)

\* Bytes of an answer change no stream.
LEMMA SeenRead ==
    ASSUME NEW v, ParseInv(v), NEW s, NEW l \in Seq(Nat), NEW a \in Seq(Nat), NEW r \in Seq(Nat),
           a \o r = l
    PROVE  Seeing(v, s, l, With(v, a), r)
<1>1. PICK w, d : w = With(v, a) /\ d = v.dbuf
  OBVIOUS
<1>2. /\ ParseInv(w) /\ w.dbuf = d \o a /\ w.cyl = v.cyl /\ w.head = v.head
      /\ w.pcmd = v.pcmd /\ w.pcyl = v.pcyl /\ w.phead = v.phead
      /\ w.fifo = v.fifo /\ w.warnings = v.warnings
  BY <1>1, WithFields, Zenon
<1>3. d \in Seq(Nat)
  BY <1>1, ParseFields DEF ParseInv
<1>4. w.dbuf \o r = d \o l
  <2>1. (d \o a) \o r = d \o (a \o r)
    BY <1>3, Joined, Zenon
  <2>2. QED
    BY <1>2, <2>1, Zenon
<1>5. ASSUME Quiet(v)
      PROVE  /\ Quiet(w)
             /\ Good(v, s) => Good(w, s)
             /\ Broken(v, s) => Broken(w, s)
  <2>1. Quiet(w) /\ Mute(w)
    BY <1>2, <1>5, Zenon DEF Quiet, Mute
  <2>2. QED
    BY <1>2, <2>1, Zenon DEF Good, Broken
<1>6. Reading(v, s, l) => Reading(w, s, r)
  BY <1>1, <1>2, <1>4, Zenon DEF Reading
<1>7. ASSUME Clean(v, l) PROVE Clean(w, r)
  <2>1. PICK x, y : x = With(v, l) /\ y = With(w, r)
    OBVIOUS
  <2>2. x.pcmd = v.pcmd /\ x.dbuf = d \o l
    BY <1>1, <2>1, WithFields, Zenon
  <2>3. y.pcmd = w.pcmd /\ y.dbuf = w.dbuf \o r
    BY <1>2, <2>1, WithFields, Zenon
  <2>4. Lost(y) = Lost(x)
    BY <1>2, <1>4, <2>2, <2>3, LostSame, Zenon
  <2>5. QED
    BY <1>2, <1>7, <2>1, <2>4, Zenon DEF Clean
<1>8. QED
  BY <1>1, <1>2, <1>5, <1>6, <1>7, Zenon DEF Seeing

\* An answer's two bytes, a stream that is not one of them.
LEMMA TwoBytesClean ==
    ASSUME NEW w, ParseInv(w), w.dbuf = Nothing, w.pcmd # Nothing,
           NEW ack \in Nat, w.pcmd[1] \in Nat, w.pcmd[1] # CMD_READ_FLUX \/ ack # ACK_OKAY,
           NEW answer, answer = <<w.pcmd[1], ack>>
    PROVE  answer \in Seq(Nat) /\ Len(answer) = 2 /\ (w.warnings = 0 => Clean(w, answer))
<1>1. answer \in Seq(Nat) /\ Len(answer) = 2 /\ answer[1] = w.pcmd[1] /\ answer[2] = ack
  OBVIOUS
<1>2. PICK u : u = With(w, answer)
  OBVIOUS
<1>3. u.pcmd = w.pcmd /\ u.dbuf = answer
  <2>1. u.pcmd = w.pcmd /\ u.dbuf = w.dbuf \o answer
    BY <1>1, <1>2, WithFields, Zenon
  <2>2. Nothing \o answer = answer
    BY <1>1, ConcatEmptySeq DEF Nothing
  <2>3. QED
    BY <2>1, <2>2, Zenon
<1>4. Body(u) = Nothing
  <2>1. SubSeq(answer, 3, 2) = << >>
    BY SubSeqEmpty
  <2>2. QED
    BY <1>1, <1>3, <2>1, Zenon DEF Body, Nothing
<1>5. Fits(u) /\ (Okay(u) <=> ack = ACK_OKAY)
  BY <1>1, <1>3 DEF Fits, Okay
<1>6. ~(Len(Body(u)) >= InfoLen)
  BY <1>4, LogAssumption DEF Nothing
<1>7. Lost(u) = 0
  BY <1>3, <1>4, <1>5, <1>6, Zenon DEF Lost, Bit
<1>8. QED
  BY <1>1, <1>2, <1>7, Zenon DEF Clean

\* The answer to GET_INFO.
LEMMA InfoClean ==
    ASSUME NEW w, ParseInv(w), w.dbuf = Nothing,
           w.pcmd = <<CMD_GET_INFO, 3, GETINFO_FIRMWARE>>,
           NEW info \in Seq(Nat), Len(info) = InfoLen,
           NEW answer, answer = <<CMD_GET_INFO, ACK_OKAY>> \o info
    PROVE  /\ answer \in Seq(Nat) /\ Len(answer) = InfoLen + 2
           /\ w.warnings = 0 => Clean(w, answer)
           /\ answer[1] = CMD_GET_INFO /\ answer[2] = ACK_OKAY
<1>1. PICK two, n : two = <<CMD_GET_INFO, ACK_OKAY>> /\ n = InfoLen
  OBVIOUS
<1>2. n \in Nat /\ two \in Seq(Nat) /\ Len(two) = 2 /\ two[1] = CMD_GET_INFO /\ two[2] = ACK_OKAY
  BY <1>1, Codes, LogAssumption
<1>3. /\ two \o info \in Seq(Nat) /\ Len(two \o info) = Len(two) + Len(info)
      /\ \A i \in 1 .. Len(two) + Len(info) :
            (two \o info)[i] = IF i <= Len(two) THEN two[i] ELSE info[i - Len(two)]
  BY <1>2, ConcatProperties, Zenon
<1>4. answer \in Seq(Nat) /\ Len(answer) = n + 2 /\ answer[1] = two[1] /\ answer[2] = two[2]
  BY <1>1, <1>2, <1>3
<1>5. PICK u : u = With(w, answer)
  OBVIOUS
<1>6. u.pcmd = w.pcmd /\ u.dbuf = answer
  <2>1. u.pcmd = w.pcmd /\ u.dbuf = w.dbuf \o answer
    BY <1>4, <1>5, WithFields, Zenon
  <2>2. Nothing \o answer = answer
    BY <1>4, ConcatEmptySeq DEF Nothing
  <2>3. QED
    BY <2>1, <2>2, Zenon
<1>7. Len(Body(u)) = n
  <2>1. \A i \in 3 .. n + 2 : answer[i] \in Nat
    BY <1>2, <1>4, ElementOfSeq
  <2>2. Len(SubSeq(answer, 3, n + 2)) = IF 3 <= n + 2 THEN n + 2 - 3 + 1 ELSE 0
    BY <1>2, <2>1, SubSeqProperties
  <2>3. Len(SubSeq(answer, 3, n + 2)) = n
    BY <1>2, <2>2
  <2>4. QED
    BY <1>4, <1>6, <2>3, Zenon DEF Body
<1>8. w.pcmd # Nothing /\ w.pcmd[1] = CMD_GET_INFO
  BY DEF Nothing
<1>9. Fits(u) /\ Okay(u)
  <2>1. n + 2 >= 2
    BY <1>2
  <2>2. QED
    BY <1>2, <1>4, <1>6, <1>8, <2>1, Zenon DEF Fits, Okay
<1>10. ~(Len(Body(u)) > InfoLen)
  BY <1>1, <1>2, <1>7
<1>11. CMD_GET_INFO # CMD_READ_FLUX
  BY DEF CMD_GET_INFO, CMD_READ_FLUX
<1>12. Lost(u) = 0
  BY <1>6, <1>8, <1>9, <1>10, <1>11, Zenon DEF Lost, Bit
<1>13. QED
  BY <1>1, <1>2, <1>4, <1>5, <1>12, Zenon DEF Clean

\* t is s with a read more.
OneRead(s, t, read) ==
    /\ Len(s) \in Nat /\ Len(t) = Len(s) + 1 /\ t[Len(s) + 1] = read
    /\ \A i \in 1 .. Len(s) : t[i] = s[i]

\* A read begins.
LEMMA ReadBegins ==
    ASSUME NEW v, ParseInv(v), NEW s, ReadsInv(s), Good(v, s),
           NEW w, Commanded(v, ReadFrame, w),
           NEW x \in Seq(Nat), Len(x) > 0, Closed(x), \A i \in 1 .. Len(x) : x[i] # CMD_SEEK,
           NEW read, read.pos = <<v.cyl, v.head>>, read.sent = x, read.whole = FALSE,
           NEW t, OneRead(s, t, read), NEW l, l = OkayAck \o x
    PROVE  ReadsInv(t) /\ l \in Seq(Nat) /\ Reading(w, t, l)
<1>1. PICK n : n = Len(s)
  OBVIOUS
<1>2. n \in Nat /\ Len(t) = n + 1 /\ t[n + 1] = read /\ \A i \in 1 .. n : t[i] = s[i]
  BY <1>1, Zenon DEF OneRead
<1>3. \A r \in 1 .. n + 1 : r \in 1 .. n \/ r = n + 1
  BY <1>2
<1>4. v.cyl \in 0 .. MaxTracks - 1 /\ v.head \in {0, 1} /\ read.pos \in Places
  <2>1. v.cyl \in 0 .. MaxTracks - 1 /\ v.head \in {0, 1}
    BY ParseFields, Zenon DEF ParseInv
  <2>2. QED
    BY <2>1 DEF Places
<1>5. ReadsInv(t)
  <2>1. ASSUME NEW r \in 1 .. n + 1
        PROVE  /\ t[r].pos \in Places /\ t[r].whole \in BOOLEAN
               /\ t[r].sent \in Seq(Nat) /\ Len(t[r].sent) > 0 /\ Closed(t[r].sent)
               /\ \A i \in 1 .. Len(t[r].sent) : t[r].sent[i] # CMD_SEEK
    <3>1. CASE r = n + 1
      <4>1. FALSE \in BOOLEAN
        OBVIOUS
      <4>2. QED
        BY <1>2, <1>4, <3>1, <4>1, Zenon
    <3>2. CASE r \in 1 .. n
      BY <1>1, <1>2, <3>2, Zenon DEF ReadsInv
    <3>3. QED
      BY <1>3, <3>1, <3>2
  <2>2. n + 1 \in Nat
    BY <1>2
  <2>3. QED
    BY <1>2, <2>1, <2>2, Zenon DEF ReadsInv
<1>6. Stored(w.fifo, s, n) /\ AllWhole(s, n)
  BY <1>1, SeenCommand, Zenon DEF Good
<1>7. AllWhole(t, n)
  BY <1>2, <1>6, Zenon DEF AllWhole
<1>8. Stored(w.fifo, t, n)
  <2>1. \A pos : \A k \in 0 .. n : Count(t, k, pos) = Count(s, k, pos)
    BY <1>2, CountSame, Zenon
  <2>2. n \in 0 .. n /\ \A r \in 1 .. n : r \in 0 .. n
    BY <1>2
  <2>3. ASSUME NEW pos \in Places
        PROVE  /\ Len(w.fifo[pos]) = Count(t, n, pos)
               /\ \A r \in 1 .. n : Gave(t, r, pos) =>
                                       w.fifo[pos][Count(t, r, pos)].data = t[r].sent
    <3>1. Len(w.fifo[pos]) = Count(t, n, pos)
      BY <1>6, <2>1, <2>2, Zenon DEF Stored
    <3>2. ASSUME NEW r \in 1 .. n, Gave(t, r, pos)
          PROVE  w.fifo[pos][Count(t, r, pos)].data = t[r].sent
      <4>1. t[r] = s[r] /\ Gave(s, r, pos)
        BY <1>2, <3>2, Zenon DEF Gave
      <4>2. w.fifo[pos][Count(s, r, pos)].data = s[r].sent
        BY <1>6, <4>1, Zenon DEF Stored
      <4>3. Count(t, r, pos) = Count(s, r, pos)
        BY <2>1, <2>2, Zenon
      <4>4. QED
        BY <4>1, <4>2, <4>3, Zenon
    <3>3. QED
      BY <3>1, <3>2, Zenon
  <2>4. QED
    BY <2>3, Zenon DEF Stored
<1>9. l \in Seq(Nat)
  <2>1. OkayAck \in Seq(Nat)
    BY Codes DEF OkayAck
  <2>2. QED
    BY <2>1, ConcatProperties, Zenon
<1>10. w.dbuf \o l = OkayAck \o x
  <2>1. Nothing \o l = l
    BY <1>9, ConcatEmptySeq DEF Nothing
  <2>2. QED
    BY <2>1, Zenon DEF Commanded
<1>11. w.pcmd = ReadFrame /\ w.pcyl = v.cyl /\ w.phead = v.head
  <2>1. CMD_SEEK # ReadFrame[1] /\ CMD_HEAD # ReadFrame[1]
    BY DEF ReadFrame, CMD_SEEK, CMD_HEAD, CMD_READ_FLUX
  <2>2. QED
    BY <2>1, Zenon DEF Commanded, TrackedCyl, TrackedHead
<1>12. n + 1 > 0 /\ (n + 1) - 1 = n
  BY <1>2
<1>13. QED
  BY <1>2, <1>5, <1>7, <1>8, <1>9, <1>10, <1>11, <1>12, Zenon DEF Reading

\* A stream that comes whole loses nothing.
LEMMA ReadClean ==
    ASSUME NEW w, ParseInv(w), w.dbuf = Nothing, w.warnings = 0, NEW s, ReadsInv(s),
           NEW l \in Seq(Nat), Reading(w, s, l)
    PROVE  Clean(w, l)
<1>1. PICK u : u = With(w, l)
  OBVIOUS
<1>2. l \o Nothing = l
  BY ConcatEmptySeq DEF Nothing
<1>3. Nothing \in Seq(Nat)
  BY Codes
<1>4. ParseInv(u) /\ (Reading(w, s, l) => Reading(u, s, Nothing))
  <2>1. Seeing(w, s, l, u, Nothing)
    BY <1>1, <1>2, <1>3, SeenRead, Zenon
  <2>2. QED
    BY <2>1, Zenon DEF Seeing
<1>5. Lost(u) = 0
  BY <1>3, <1>4, ReadingResolved, Zenon
<1>6. QED
  BY <1>1, <1>5, Zenon DEF Clean

\* What is said of a parser does not depend on its warnings, but that they tell.
LEMMA AlikeSays ==
    ASSUME NEW v, v.warnings \in Nat, NEW w, NEW k \in Nat, Alike(v, w, k),
           NEW s, NEW t, SameReads(s, t)
    PROVE  /\ Quiet(v) => Quiet(w)
           /\ Good(v, s) => Good(w, t)
           /\ Broken(v, s) => Broken(w, t)
           /\ \A l : Reading(v, s, l) => Reading(w, t, l)
<1>1. /\ w.pcmd = v.pcmd /\ w.dbuf = v.dbuf /\ w.pcyl = v.pcyl /\ w.phead = v.phead
      /\ w.fifo = v.fifo /\ w.warnings = v.warnings + k
  BY Zenon DEF Alike
<1>2. /\ Quiet(v) => Quiet(w)
      /\ Mute(v) => Mute(w)
  BY <1>1, Zenon DEF Quiet, Mute
<1>3. PICK n : n = Len(s)
  OBVIOUS
<1>4. /\ Len(t) = n /\ n \in Nat
      /\ \A q \in 1 .. n :
            t[q].pos = s[q].pos /\ t[q].sent = s[q].sent /\ t[q].whole = s[q].whole
  BY <1>3, Zenon DEF SameReads
<1>5. n \in 0 .. n
  BY <1>4
<1>6. ASSUME Good(v, s) PROVE Good(w, t)
  <2>1. Mute(w) /\ Stored(w.fifo, s, n) /\ AllWhole(s, n)
    BY <1>1, <1>2, <1>3, <1>6, Zenon DEF Good
  <2>2. Stored(w.fifo, t, n) /\ AllWhole(t, n)
    BY <1>3, <1>5, <2>1, ReadsAlike, Zenon
  <2>3. QED
    BY <1>4, <2>1, <2>2, Zenon DEF Good
<1>7. ASSUME Broken(v, s) PROVE Broken(w, t)
  <2>1. Mute(w) /\ InPlace(w.fifo, s) /\ Told(w.fifo, v.warnings, s)
    BY <1>1, <1>2, <1>7, Zenon DEF Broken
  <2>2. Told(w.fifo, w.warnings, s)
    BY <1>1, <2>1, ToldMore, Zenon
  <2>3. QED
    BY <2>1, <2>2, ReadsAlike, Zenon DEF Broken
<1>8. ASSUME NEW l, Reading(v, s, l) PROVE Reading(w, t, l)
  <2>1. /\ n > 0 /\ ~s[n].whole /\ AllWhole(s, n - 1) /\ Stored(v.fifo, s, n - 1)
        /\ v.pcmd = ReadFrame /\ <<v.pcyl, v.phead>> = s[n].pos
        /\ v.dbuf \o l = OkayAck \o s[n].sent
    BY <1>3, <1>8, Zenon DEF Reading
  <2>2. n \in 1 .. n /\ n - 1 \in 0 .. n
    BY <1>4, <2>1
  <2>3. AllWhole(t, n - 1) /\ Stored(w.fifo, t, n - 1)
    BY <1>1, <1>3, <2>1, <2>2, ReadsAlike, Zenon
  <2>4. QED
    BY <1>1, <1>4, <2>1, <2>2, <2>3, Zenon DEF Reading
<1>9. QED
  BY <1>2, <1>6, <1>7, <1>8, Zenon

-----------------------------------------------------------------------------
(* The session as the log will have it.                                    *)

\* What is left of a stream that the host gave up: it answers no seek,
Stray(l) == l # Nothing /\ (l[1] # CMD_SEEK \/ Len(l) = 1)

\* not even with the answer to the seek behind it.
StrayAnswer(l) ==
    Len(l) > 2 /\ (l[1] # CMD_SEEK \/ (Len(l) = 3 /\ l[2] # ACK_OKAY /\ l[3] # CMD_SEEK))

\* m is the n bytes of l with a and b behind them.
WithTwo(m, l, n, a, b) ==
    /\ m \in Seq(Nat) /\ n \in Nat /\ Len(m) = n + 2
    /\ \A i \in 1 .. n : m[i] = l[i]
    /\ m[n + 1] = a /\ m[n + 2] = b

\* Two bytes are put behind the line.
LEMMA TwoMore ==
    ASSUME NEW l \in Seq(Nat), NEW a \in Nat, NEW b \in Nat
    PROVE  WithTwo(l \o <<a, b>>, l, Len(l), a, b)
<1> DEFINE m == l \o <<a, b>>
<1>1. PICK two, n : two = <<a, b>> /\ n = Len(l)
  OBVIOUS
<1>2. two \in Seq(Nat) /\ Len(two) = 2 /\ two[1] = a /\ two[2] = b /\ n \in Nat
  BY <1>1, LenProperties
<1>3. /\ l \o two \in Seq(Nat) /\ Len(l \o two) = Len(l) + Len(two)
      /\ \A i \in 1 .. Len(l) + Len(two) :
            (l \o two)[i] = IF i <= Len(l) THEN l[i] ELSE two[i - Len(l)]
  BY <1>2, ConcatProperties, Zenon
<1>4. m \in Seq(Nat) /\ Len(m) = n + 2
      /\ \A i \in 1 .. n + 2 : m[i] = IF i <= n THEN l[i] ELSE two[i - n]
  BY <1>1, <1>2, <1>3, Zenon
<1> HIDE DEF m
<1>5. \A i \in 1 .. n : i \in 1 .. n + 2 /\ i <= n
  BY <1>2
<1>6. /\ n + 1 \in 1 .. n + 2 /\ ~(n + 1 <= n) /\ (n + 1) - n = 1
      /\ n + 2 \in 1 .. n + 2 /\ ~(n + 2 <= n) /\ (n + 2) - n = 2
  BY <1>2
<1>7. m[n + 1] = a /\ m[n + 2] = b
  BY <1>2, <1>4, <1>6, Zenon
<1>8. WithTwo(m, l, n, a, b)
  BY <1>2, <1>4, <1>5, <1>7, Zenon DEF WithTwo
<1>9. QED
  BY <1>1, <1>8, Zenon DEF m

\* Bytes left of a stream and the answer to a seek behind them,
LEMMA StrayThenSeek ==
    ASSUME NEW l \in Seq(Nat), Stray(l), NEW ack \in Nat, ack # CMD_SEEK,
           NEW m, m = l \o <<CMD_SEEK, ack>>
    PROVE  m \in Seq(Nat) /\ StrayAnswer(m)
<1>1. PICK n : n = Len(l)
  OBVIOUS
<1>2. /\ m \in Seq(Nat) /\ n \in Nat /\ Len(m) = n + 2
      /\ \A i \in 1 .. n : m[i] = l[i]
      /\ m[n + 1] = CMD_SEEK /\ m[n + 2] = ack
  <2>1. CMD_SEEK \in Nat
    BY Codes
  <2>2. WithTwo(m, l, n, CMD_SEEK, ack)
    BY <1>1, <2>1, TwoMore, Zenon
  <2>3. QED
    BY <2>2, Zenon DEF WithTwo
<1>3. n > 0
  BY <1>1, <1>2, EmptySeq DEF Stray, Nothing
<1>4. m[1] = l[1] /\ Len(m) > 2
  BY <1>2, <1>3
<1>5. CASE l[1] # CMD_SEEK
  BY <1>2, <1>4, <1>5, Zenon DEF StrayAnswer
<1>6. CASE Len(l) = 1
  <2>1. n = 1
    BY <1>1, <1>6
  <2>2. Len(m) = 3 /\ m[2] = CMD_SEEK /\ m[3] = ack
    BY <1>2, <2>1
  <2>3. CMD_SEEK # ACK_OKAY
    BY DEF CMD_SEEK, ACK_OKAY
  <2>4. QED
    BY <1>2, <1>4, <2>2, <2>3, Zenon DEF StrayAnswer
<1>7. QED
  BY <1>5, <1>6, Zenon DEF Stray

\* are stray again if the answer was refused,
LEMMA StrayLeft ==
    ASSUME NEW l \in Seq(Nat), StrayAnswer(l), l[1] = CMD_SEEK,
           NEW r, Without(r, l, 2)
    PROVE  l[2] # ACK_OKAY /\ Stray(r)
<1>1. Len(l) = 3 /\ l[2] # ACK_OKAY /\ l[3] # CMD_SEEK
  BY DEF StrayAnswer
<1>2. Len(r) = 1 /\ r[1] = l[3]
  BY <1>1 DEF Without
<1>3. r # Nothing
  <2>1. Len(Nothing) = 0
    BY DEF Nothing
  <2>2. 0 # 1
    OBVIOUS
  <2>3. QED
    BY <1>2, <2>1, <2>2, Zenon
<1>4. QED
  BY <1>1, <1>2, <1>3, Zenon DEF Stray

\* and so are they with the answer about the status.
LEMMA StrayThenStatus ==
    ASSUME NEW l \in Seq(Nat), l # Nothing, \A i \in 1 .. Len(l) : l[i] # CMD_SEEK,
           NEW st \in Nat, NEW m, m = l \o <<CMD_GET_FLUX_STATUS, st>>,
           NEW r, r = SubSeq(m, 3, Len(m))
    PROVE  m \in Seq(Nat) /\ Stray(r)
<1>1. PICK n : n = Len(l)
  OBVIOUS
<1>2. /\ m \in Seq(Nat) /\ n \in Nat /\ Len(m) = n + 2
      /\ \A i \in 1 .. n : m[i] = l[i]
      /\ m[n + 1] = CMD_GET_FLUX_STATUS /\ m[n + 2] = st
  <2>1. CMD_GET_FLUX_STATUS \in Nat
    BY Codes
  <2>2. WithTwo(m, l, n, CMD_GET_FLUX_STATUS, st)
    BY <1>1, <2>1, TwoMore, Zenon
  <2>3. QED
    BY <2>2, Zenon DEF WithTwo
<1>3. n > 0
  BY <1>1, <1>2, EmptySeq DEF Nothing
<1>4. Len(r) = n /\ r[1] = m[3] /\ r \in Seq(Nat)
  <2>1. 2 \in 1 .. Len(m) /\ r = SubSeq(m, 2 + 1, Len(m))
    BY <1>2, <1>3
  <2>2. /\ r \in Seq(Nat) /\ Len(r) = Len(m) - 2
        /\ \A j \in 1 .. Len(r) : r[j] = m[2 + j]
    <3>1. PICK a : a = SubSeq(m, 1, 2)
      OBVIOUS
    <3>2. Without(r, m, 2)
      BY <1>2, <2>1, <3>1, LineSplit, Zenon
    <3>3. QED
      BY <3>2, Zenon DEF Without
  <2>3. Len(r) = n /\ 1 \in 1 .. n /\ 2 + 1 = 3
    BY <1>2, <1>3, <2>2
  <2>4. QED
    BY <2>2, <2>3, Zenon
<1>5. r # Nothing
  BY <1>3, <1>4 DEF Nothing
<1>6. CASE n = 1
  BY <1>2, <1>4, <1>5, <1>6 DEF Stray
<1>7. CASE n = 2
  <2>1. m[3] = CMD_GET_FLUX_STATUS /\ CMD_GET_FLUX_STATUS # CMD_SEEK
    BY <1>2, <1>7 DEF CMD_GET_FLUX_STATUS, CMD_SEEK
  <2>2. QED
    BY <1>2, <1>4, <1>5, <2>1, Zenon DEF Stray
<1>8. CASE n > 2
  <2>1. 3 \in 1 .. n
    BY <1>2, <1>8
  <2>2. m[3] = l[3] /\ l[3] # CMD_SEEK
    BY <1>1, <1>2, <2>1, Zenon
  <2>3. QED
    BY <1>2, <1>4, <1>5, <2>2, Zenon DEF Stray
<1>9. n = 1 \/ n = 2 \/ n > 2
  BY <1>2, <1>3
<1>10. QED
  BY <1>6, <1>7, <1>8, <1>9, Zenon

SameCyl(v, d) == d.cyl = v.cyl
SamePlace(v, d) == d.cyl = v.cyl /\ d.head = v.head

\* What the host does next, with what it has to read, while all goes well.
Going(at, v, s, l, d, sound) ==
    \/ at = "identify" /\ Good(v, s) /\ l = Nothing
    \/ /\ at = "info_ack" /\ Good(v, s) /\ Quiet(v)
       /\ Len(l) = InfoLen + 2 /\ l[1] = CMD_GET_INFO /\ l[2] = ACK_OKAY
    \/ at = "info" /\ Good(v, s) /\ Quiet(v) /\ Len(l) = InfoLen
    \/ at = "track" /\ Good(v, s) /\ l = Nothing
    \/ /\ at = "seek_ack" /\ Good(v, s) /\ Quiet(v) /\ l[1] = CMD_SEEK /\ Len(l) = 2
       /\ l[2] = ACK_OKAY => SameCyl(v, d)
    \/ at = "head" /\ Good(v, s) /\ l = Nothing /\ SameCyl(v, d)
    \/ /\ at = "head_ack" /\ Good(v, s) /\ Quiet(v)
       /\ l = <<CMD_HEAD, ACK_OKAY>> /\ SamePlace(v, d)
    \/ at = "read" /\ Good(v, s) /\ l = Nothing /\ SamePlace(v, d)
    \/ at = "read_ack" /\ Good(v, s) /\ v.dbuf = Nothing /\ l = <<CMD_READ_FLUX, ACK_NO_UNIT>>
    \/ at = "read_ack" /\ Reading(v, s, l) /\ v.dbuf = Nothing
    \/ at \in {"first", "rest"} /\ Reading(v, s, l) /\ Len(v.dbuf) >= 2 /\ l # Nothing
    \/ at = "status" /\ Reading(v, s, l) /\ Len(v.dbuf) >= 2 /\ (sound => l = Nothing)
    \/ at = "status_ack" /\ Good(v, s) /\ Quiet(v) /\ Len(l) = 2

\* After a read that failed half way.
Astray(at, v, s, l) ==
    \/ at = "exit" /\ Broken(v, s)
    \/ at = "track" /\ Broken(v, s) /\ Stray(l)
    \/ at = "seek_ack" /\ Broken(v, s) /\ Quiet(v) /\ StrayAnswer(l)
    \/ at = "status_ack" /\ Broken(v, s) /\ Quiet(v) /\ Stray(SubSeq(l, 3, Len(l)))

\* If the log holds all of it, nothing is lost.
Right(at, v, s, l, d, sound) ==
    /\ Going(at, v, s, l, d, sound) \/ (~sound /\ Astray(at, v, s, l))
    /\ sound => Clean(v, l)

\* Whatever the host does next, what is stored is right.
LEMMA RightIsFine ==
    ASSUME NEW v, NEW s, ReadsInv(s), NEW l \in Seq(Nat), NEW at, NEW d, NEW sound,
           Right(at, v, s, l, d, sound)
    PROVE  Fine(v, s)
<1>1. Good(v, s) \/ Broken(v, s) \/ Reading(v, s, l)
  BY DEF Right, Going, Astray
<1>2. QED
  BY <1>1, GoodIsBroken, Zenon DEF Fine

\* What is said of a session stays true of parsers and reads that are alike.
LEMMA RightAlike ==
    ASSUME NEW v, v.warnings \in Nat, NEW w, NEW k \in Nat, Alike(v, w, k),
           NEW s, NEW t, SameReads(s, t), NEW at, NEW l, NEW d,
           NEW sound \in BOOLEAN, Right(at, v, s, l, d, sound),
           NEW now \in BOOLEAN, now => sound,
           now => Clean(w, l)
    PROVE  Right(at, w, t, l, d, now)
<1>1. /\ Quiet(v) => Quiet(w)
      /\ Good(v, s) => Good(w, t)
      /\ Broken(v, s) => Broken(w, t)
      /\ Reading(v, s, l) => Reading(w, t, l)
  BY AlikeSays, Zenon
<1>2. w.dbuf = v.dbuf /\ (SameCyl(v, d) => SameCyl(w, d)) /\ (SamePlace(v, d) => SamePlace(w, d))
  BY Zenon DEF Alike, SameCyl, SamePlace
<1>3. Going(at, v, s, l, d, sound) => Going(at, w, t, l, d, now)
  BY <1>1, <1>2 DEF Going
<1>4. Astray(at, v, s, l) => Astray(at, w, t, l)
  BY <1>1 DEF Astray
<1>5. QED
  BY <1>3, <1>4, Zenon DEF Right


-----------------------------------------------------------------------------
(* What each step of the session makes of it: the command or the bytes as  *)
(* the log will have them.                                                 *)

\* v is the parser when all that has been transferred is dumped, s are the reads, l is
\* the line, d the device, and sound means that the log holds the whole session.
Situation(at, v, s, l, d, sound) ==
    /\ ParseInv(v) /\ ReadsInv(s) /\ l \in Seq(Nat) /\ sound \in BOOLEAN
    /\ Right(at, v, s, l, d, sound)

\* An answer comes while nothing is on the line.
LEMMA FirstAnswer ==
    ASSUME NEW answer \in Seq(Nat), NEW l, l = Nothing, NEW m, m = l \o answer
    PROVE  m = answer
  BY ConcatEmptySeq DEF Nothing

\* The program asks for what the device is,
LEMMA AsksInfo ==
    ASSUME NEW v, NEW s, NEW l, NEW d, NEW sound, Situation("identify", v, s, l, d, sound),
           NEW w, Commanded(v, <<CMD_GET_INFO, 3, GETINFO_FIRMWARE>>, w),
           NEW info \in Seq(Nat), Len(info) = InfoLen,
           NEW m, m = l \o (<<CMD_GET_INFO, ACK_OKAY>> \o info)
    PROVE  Situation("info_ack", w, s, m, d, sound)
<1>1. PICK frame, answer : /\ frame = <<CMD_GET_INFO, 3, GETINFO_FIRMWARE>>
                           /\ answer = <<CMD_GET_INFO, ACK_OKAY>> \o info
  OBVIOUS
<1>2. /\ ParseInv(v) /\ ReadsInv(s) /\ sound \in BOOLEAN
      /\ Good(v, s) /\ l = Nothing /\ (sound => Clean(v, Nothing))
  BY DEF Situation, Right, Going, Astray
<1>3. Commanded(v, frame, w) /\ ParseInv(w) /\ w.pcmd = frame /\ w.dbuf = Nothing
  BY <1>1, Zenon DEF Commanded
<1>4. frame[1] # CMD_READ_FLUX
  BY <1>1 DEF CMD_GET_INFO, CMD_READ_FLUX
<1>5. Good(w, s) /\ Quiet(w) /\ (sound => w.warnings = 0)
  BY <1>2, <1>3, <1>4, SeenCommand, Zenon
<1>6. /\ answer \in Seq(Nat) /\ Len(answer) = InfoLen + 2
      /\ w.warnings = 0 => Clean(w, answer)
      /\ answer[1] = CMD_GET_INFO /\ answer[2] = ACK_OKAY
  BY <1>1, <1>3, InfoClean, Zenon
<1>7. m = answer
  BY <1>1, <1>2, <1>6, FirstAnswer, Zenon
<1>8. QED
  BY <1>2, <1>3, <1>5, <1>6, <1>7, Zenon DEF Situation, Right, Going

\* moves the head,
LEMMA AsksSeek ==
    ASSUME NEW v, NEW s, NEW l, NEW d, NEW sound, Situation("track", v, s, l, d, sound),
           NEW c \in 0 .. MaxTracks - 1, NEW w, Commanded(v, <<CMD_SEEK, 3, c>>, w),
           NEW ack \in {ACK_OKAY, ACK_NO_TRK0}, NEW m, m = l \o <<CMD_SEEK, ack>>,
           NEW e, ack = ACK_OKAY => e.cyl = c
    PROVE  Situation("seek_ack", w, s, m, e, sound)
<1>1. PICK frame, answer : frame = <<CMD_SEEK, 3, c>> /\ answer = <<CMD_SEEK, ack>>
  OBVIOUS
<1>2. /\ ParseInv(v) /\ ReadsInv(s) /\ sound \in BOOLEAN /\ l \in Seq(Nat)
      /\ (Good(v, s) /\ l = Nothing) \/ (~sound /\ Broken(v, s) /\ Stray(l))
      /\ sound => Clean(v, l)
  BY DEF Situation, Right, Going, Astray
<1>3. Commanded(v, frame, w) /\ ParseInv(w) /\ w.pcmd = frame /\ w.dbuf = Nothing
  BY <1>1, Zenon DEF Commanded
<1>4. /\ frame[1] = CMD_SEEK /\ frame[1] # CMD_READ_FLUX /\ frame[1] \in Nat
      /\ frame[3] = c /\ frame # Nothing
  BY <1>1 DEF CMD_SEEK, CMD_READ_FLUX, Nothing
<1>5. /\ Good(v, s) => Good(w, s)
      /\ Broken(v, s) => Broken(w, s)
      /\ Quiet(w)
      /\ Clean(v, Nothing) => w.warnings = 0
  BY <1>2, <1>3, <1>4, SeenCommand, Zenon
<1>6. ack \in Nat /\ ack # CMD_SEEK
  BY DEF ACK_OKAY, ACK_NO_TRK0, CMD_SEEK
<1>7. /\ answer \in Seq(Nat) /\ Len(answer) = 2
      /\ w.warnings = 0 => Clean(w, answer)
  BY <1>1, <1>3, <1>4, <1>6, TwoBytesClean, Zenon
<1>8. CASE Good(v, s) /\ l = Nothing
  <2>1. m = answer /\ m[1] = CMD_SEEK /\ m[2] = ack
    <3>1. m = answer
      BY <1>1, <1>7, <1>8, FirstAnswer, Zenon
    <3>2. answer[1] = CMD_SEEK /\ answer[2] = ack
      BY <1>1
    <3>3. QED
      BY <3>1, <3>2, Zenon
  <2>2. m[2] = ACK_OKAY => SameCyl(w, e)
    <3>1. c < MaxTracks
      BY LogAssumption
    <3>2. w.cyl = c
      BY <1>3, <1>4, <3>1, Zenon DEF Commanded, TrackedCyl
    <3>3. QED
      BY <2>1, <3>2, Zenon DEF SameCyl
  <2>3. QED
    BY <1>2, <1>3, <1>5, <1>7, <1>8, <2>1, <2>2, Zenon DEF Situation, Right, Going
<1>9. CASE ~sound /\ Broken(v, s) /\ Stray(l)
  <2>1. m \in Seq(Nat) /\ StrayAnswer(m)
    BY <1>2, <1>6, <1>9, StrayThenSeek, Zenon
  <2>2. QED
    BY <1>2, <1>3, <1>5, <1>9, <2>1, Zenon DEF Situation, Right, Astray
<1>10. QED
  BY <1>2, <1>8, <1>9

\* selects the side,
LEMMA AsksHead ==
    ASSUME NEW v, NEW s, NEW l, NEW d, NEW sound, Situation("head", v, s, l, d, sound),
           NEW h \in {0, 1}, NEW w, Commanded(v, <<CMD_HEAD, 3, h>>, w),
           NEW m, m = l \o <<CMD_HEAD, ACK_OKAY>>,
           NEW e, e.cyl = d.cyl, e.head = h
    PROVE  Situation("head_ack", w, s, m, e, sound)
<1>1. PICK frame, answer : frame = <<CMD_HEAD, 3, h>> /\ answer = <<CMD_HEAD, ACK_OKAY>>
  OBVIOUS
<1>2. /\ ParseInv(v) /\ ReadsInv(s) /\ sound \in BOOLEAN
      /\ Good(v, s) /\ l = Nothing /\ SameCyl(v, d) /\ (sound => Clean(v, Nothing))
  BY DEF Situation, Right, Going, Astray
<1>3. Commanded(v, frame, w) /\ ParseInv(w) /\ w.pcmd = frame /\ w.dbuf = Nothing
  BY <1>1, Zenon DEF Commanded
<1>4. /\ frame[1] = CMD_HEAD /\ frame[1] # CMD_READ_FLUX /\ frame[1] # CMD_SEEK
      /\ frame[1] \in Nat /\ frame[3] % 2 = h /\ frame # Nothing
  <2>1. frame[3] = h /\ h % 2 = h
    <3>1. frame[3] = h
      BY <1>1
    <3>2. 0 % 2 = 0 /\ 1 % 2 = 1
      OBVIOUS
    <3>3. h = 0 \/ h = 1
      OBVIOUS
    <3>4. QED
      BY <3>1, <3>2, <3>3, Zenon
  <2>2. /\ frame[1] = CMD_HEAD /\ frame[1] # CMD_READ_FLUX /\ frame[1] # CMD_SEEK
        /\ frame[1] \in Nat /\ frame # Nothing
    BY <1>1 DEF CMD_HEAD, CMD_SEEK, CMD_READ_FLUX, Nothing
  <2>3. QED
    BY <2>1, <2>2, Zenon
<1>5. Good(w, s) /\ Quiet(w) /\ (sound => w.warnings = 0)
  BY <1>2, <1>3, <1>4, SeenCommand, Zenon
<1>6. ACK_OKAY \in Nat
  BY Codes
<1>7. /\ answer \in Seq(Nat) /\ Len(answer) = 2
      /\ w.warnings = 0 => Clean(w, answer)
  BY <1>1, <1>3, <1>4, <1>6, TwoBytesClean, Zenon
<1>8. m = answer
  BY <1>1, <1>2, <1>7, FirstAnswer, Zenon
<1>9. SamePlace(w, e)
  <2>1. w.cyl = v.cyl /\ w.head = h
    BY <1>3, <1>4, Zenon DEF Commanded, TrackedCyl, TrackedHead
  <2>2. QED
    BY <1>2, <2>1, Zenon DEF SameCyl, SamePlace
<1>10. QED
  BY <1>1, <1>2, <1>3, <1>5, <1>7, <1>8, <1>9, Zenon DEF Situation, Right, Going

\* and asks for flux, which is refused
LEMMA ReadRefused ==
    ASSUME NEW v, NEW s, NEW l, NEW d, NEW sound, Situation("read", v, s, l, d, sound),
           NEW w, Commanded(v, ReadFrame, w),
           NEW m, m = l \o <<CMD_READ_FLUX, ACK_NO_UNIT>>
    PROVE  Situation("read_ack", w, s, m, d, sound)
<1>1. PICK answer : answer = <<CMD_READ_FLUX, ACK_NO_UNIT>>
  OBVIOUS
<1>2. /\ ParseInv(v) /\ ReadsInv(s) /\ sound \in BOOLEAN
      /\ Good(v, s) /\ l = Nothing /\ (sound => Clean(v, Nothing))
  BY DEF Situation, Right, Going, Astray
<1>3. ParseInv(w) /\ w.pcmd = ReadFrame /\ w.dbuf = Nothing
  BY Zenon DEF Commanded
<1>4. w.pcmd[1] = CMD_READ_FLUX /\ w.pcmd # Nothing
  BY <1>3 DEF ReadFrame, Nothing
<1>5. Good(w, s) /\ (sound => w.warnings = 0)
  BY <1>2, SeenCommand, Zenon
<1>6. ACK_NO_UNIT \in Nat /\ CMD_READ_FLUX \in Nat /\ ACK_NO_UNIT # ACK_OKAY
  BY DEF ACK_NO_UNIT, CMD_READ_FLUX, ACK_OKAY
<1>7. /\ answer \in Seq(Nat) /\ Len(answer) = 2
      /\ w.warnings = 0 => Clean(w, answer)
  BY <1>1, <1>3, <1>4, <1>6, TwoBytesClean, Zenon
<1>8. m = answer
  BY <1>1, <1>2, <1>7, FirstAnswer, Zenon
<1>9. QED
  BY <1>1, <1>2, <1>3, <1>5, <1>7, <1>8, Zenon DEF Situation, Right, Going

\* or begins to come;
LEMMA ReadAccepted ==
    ASSUME NEW v, NEW s, NEW l, NEW d, NEW sound, Situation("read", v, s, l, d, sound),
           NEW w, Commanded(v, ReadFrame, w),
           NEW x \in Seq(Nat), Len(x) > 0, Closed(x), \A i \in 1 .. Len(x) : x[i] # CMD_SEEK,
           NEW read, read.pos = <<d.cyl, d.head>>, read.sent = x, read.whole = FALSE,
           NEW t, OneRead(s, t, read), NEW e,
           NEW m, m = l \o (OkayAck \o x)
    PROVE  Situation("read_ack", w, t, m, e, sound)
<1>1. PICK answer : answer = OkayAck \o x
  OBVIOUS
<1>2. /\ ParseInv(v) /\ ReadsInv(s) /\ sound \in BOOLEAN /\ SamePlace(v, d)
      /\ Good(v, s) /\ l = Nothing /\ (sound => Clean(v, Nothing))
  BY DEF Situation, Right, Going, Astray
<1>3. ParseInv(w) /\ w.dbuf = Nothing
  BY Zenon DEF Commanded
<1>4. read.pos = <<v.cyl, v.head>>
  BY <1>2, Zenon DEF SamePlace
<1>5. ReadsInv(t) /\ answer \in Seq(Nat) /\ Reading(w, t, answer)
  BY <1>1, <1>2, <1>4, ReadBegins, Zenon
<1>6. sound => w.warnings = 0
  BY <1>2, SeenCommand, Zenon
<1>7. sound => Clean(w, answer)
  BY <1>3, <1>5, <1>6, ReadClean, Zenon
<1>8. m = answer
  BY <1>1, <1>2, <1>5, FirstAnswer, Zenon
<1>9. QED
  BY <1>2, <1>3, <1>5, <1>7, <1>8, Zenon DEF Situation, Right, Going

\* then it asks how that went.
LEMMA AsksStatus ==
    ASSUME NEW v, NEW s, NEW l, NEW d, NEW sound, Situation("status", v, s, l, d, sound),
           NEW w, Commanded(v, <<CMD_GET_FLUX_STATUS, 2>>, w),
           NEW t, Ended(s, t, l = Nothing),
           NEW st \in Nat, NEW m, m = l \o <<CMD_GET_FLUX_STATUS, st>>
    PROVE  Situation("status_ack", w, t, m, d, sound)
<1>1. PICK frame, answer : /\ frame = <<CMD_GET_FLUX_STATUS, 2>>
                           /\ answer = <<CMD_GET_FLUX_STATUS, st>>
  OBVIOUS
<1>2. /\ ParseInv(v) /\ ReadsInv(s) /\ sound \in BOOLEAN /\ l \in Seq(Nat)
      /\ Reading(v, s, l) /\ Len(v.dbuf) >= 2 /\ (sound => l = Nothing)
      /\ sound => Clean(v, l)
  BY DEF Situation, Right, Going, Astray
<1>3. Commanded(v, frame, w) /\ ParseInv(w) /\ w.pcmd = frame /\ w.dbuf = Nothing
  BY <1>1, Zenon DEF Commanded
<1>4. /\ frame[1] = CMD_GET_FLUX_STATUS /\ frame[1] # CMD_READ_FLUX
      /\ frame[1] \in Nat /\ frame # Nothing
  BY <1>1 DEF CMD_GET_FLUX_STATUS, CMD_READ_FLUX, Nothing
<1>5. /\ l = Nothing => Good(w, t)
      /\ l # Nothing => Broken(w, t)
      /\ Quiet(w)
  BY <1>2, <1>3, <1>4, SeenEnd, Zenon
<1>6. sound => w.warnings = 0
  <2>1. sound => Clean(v, Nothing)
    BY <1>2, Zenon
  <2>2. Clean(v, Nothing) => w.warnings = 0
    BY <1>2, <1>3, SeenCommand, Zenon
  <2>3. QED
    BY <2>1, <2>2, Zenon
<1>7. /\ answer \in Seq(Nat) /\ Len(answer) = 2
      /\ w.warnings = 0 => Clean(w, answer)
  BY <1>1, <1>3, <1>4, TwoBytesClean, Zenon
<1>8. ReadsInv(t)
  <2>1. Len(t) = Len(s) /\ Len(s) \in Nat
    BY Zenon DEF Ended
  <2>2. ASSUME NEW r \in 1 .. Len(s)
        PROVE  /\ t[r].pos \in Places /\ t[r].whole \in BOOLEAN
               /\ t[r].sent \in Seq(Nat) /\ Len(t[r].sent) > 0 /\ Closed(t[r].sent)
               /\ \A i \in 1 .. Len(t[r].sent) : t[r].sent[i] # CMD_SEEK
    <3>1. t[r].pos = s[r].pos /\ t[r].sent = s[r].sent
      BY Zenon DEF Ended
    <3>2. t[r].whole \in BOOLEAN
      <4>1. s[r].whole \in BOOLEAN
        BY <1>2, Zenon DEF ReadsInv
      <4>2. t[r].whole = IF r = Len(s) THEN l = Nothing ELSE s[r].whole
        BY Zenon DEF Ended
      <4>3. QED
        BY <4>1, <4>2
    <3>3. QED
      BY <1>2, <3>1, <3>2, Zenon DEF ReadsInv
  <2>3. QED
    BY <2>1, <2>2, Zenon DEF ReadsInv
<1>9. CASE l = Nothing
  <2>1. m = answer
    BY <1>1, <1>7, <1>9, FirstAnswer, Zenon
  <2>2. QED
    BY <1>2, <1>3, <1>5, <1>6, <1>7, <1>8, <1>9, <2>1, Zenon DEF Situation, Right, Going
<1>10. CASE l # Nothing
  <2>1. PICK n, x : n = Len(s) - 1 /\ x = s[n + 1].sent
    OBVIOUS
  <2>2. n + 1 \in 1 .. Len(s) /\ Came(Body(v), l, x)
    BY <1>2, <2>1, ReadingCame, Zenon
  <2>3. \A i \in 1 .. Len(x) : x[i] # CMD_SEEK
    BY <1>2, <2>1, <2>2, Zenon DEF ReadsInv
  <2>4. \A j \in 1 .. Len(l) : l[j] # CMD_SEEK
    <3> TAKE j \in 1 .. Len(l)
    <3>1. PICK b, k : b = Len(Body(v)) /\ k = Len(l)
      OBVIOUS
    <3>2. b \in Nat /\ k \in Nat
      BY <1>2, <2>2, <3>1, LenProperties, Zenon DEF Came
    <3>3. b + k = Len(x) /\ l[j] = x[b + j]
      BY <2>2, <3>1, Zenon DEF Came
    <3>4. b + j \in 1 .. Len(x)
      BY <3>1, <3>2, <3>3
    <3>5. QED
      BY <2>3, <3>3, <3>4, Zenon
  <2>5. m \in Seq(Nat) /\ Stray(SubSeq(m, 3, Len(m)))
    BY <1>2, <1>10, <2>4, StrayThenStatus, Zenon
  <2>6. ~sound
    BY <1>2, <1>10, Zenon
  <2>7. QED
    BY <1>2, <1>3, <1>5, <1>8, <1>10, <2>5, <2>6, Zenon DEF Situation, Right, Astray
<1>11. QED
  BY <1>9, <1>10

\* The host takes n bytes from the line.
Takes(v, s, l, n, w, m) ==
    /\ Seeing(v, s, l, w, m) /\ Without(m, l, n)
    /\ w.dbuf = v.dbuf \o SubSeq(l, 1, n)
    /\ SubSeq(l, 1, n) \in Seq(Nat) /\ Len(SubSeq(l, 1, n)) = n
    /\ Len(w.dbuf) = Len(v.dbuf) + n
    /\ n = Len(l) => m = Nothing
    /\ n # Len(l) => m # Nothing

\* Taking bytes off the line brings them into the answer.
LEMMA BytesTaken ==
    ASSUME NEW v, ParseInv(v), NEW s, NEW l \in Seq(Nat), NEW n \in 1 .. Len(l)
    PROVE  Takes(v, s, l, n, With(v, SubSeq(l, 1, n)), SubSeq(l, n + 1, Len(l)))
<1>1. PICK a, m : a = SubSeq(l, 1, n) /\ m = SubSeq(l, n + 1, Len(l))
  OBVIOUS
<1>2. a \in Seq(Nat) /\ Len(a) = n /\ Without(m, l, n) /\ a \o m = l
  <2>1. a \in Seq(Nat)
    BY <1>1, LineSplit, Zenon
  <2>2. Len(a) = n
    BY <1>1, LineSplit, Zenon
  <2>3. Without(m, l, n)
    BY <1>1, LineSplit, Zenon
  <2>4. a \o m = l
    BY <1>1, LineSplit
  <2>5. QED
    BY <2>1, <2>2, <2>3, <2>4
<1>3. m \in Seq(Nat) /\ Len(m) = Len(l) - n
  BY <1>2, Zenon DEF Without
<1>4. PICK w : w = With(v, a)
  OBVIOUS
<1>5. Seeing(v, s, l, w, m)
  BY <1>2, <1>3, <1>4, SeenRead, Zenon
<1>6. w.dbuf = v.dbuf \o a
  BY <1>2, <1>4, WithFields, Zenon
<1>7. Len(w.dbuf) = Len(v.dbuf) + n
  <2>1. v.dbuf \in Seq(Nat)
    BY ParseFields, Zenon DEF ParseInv
  <2>2. QED
    BY <1>2, <1>6, <2>1, ConcatProperties
<1>8. (n = Len(l) => m = Nothing) /\ (n # Len(l) => m # Nothing)
  <2>1. Len(m) = 0 <=> m = << >>
    BY <1>3, EmptySeq
  <2>2. PICK k, j : k = Len(l) /\ j = Len(m)
    OBVIOUS
  <2>3. k \in Nat /\ j = k - n
    BY <1>3, <2>2, LenProperties
  <2>4. n = k <=> j = 0
    BY <2>3
  <2>5. QED
    BY <2>1, <2>2, <2>4, Zenon DEF Nothing
<1>9. Takes(v, s, l, n, w, m)
  BY <1>1, <1>2, <1>5, <1>6, <1>7, <1>8, Zenon DEF Takes
<1>10. QED
  BY <1>1, <1>4, <1>9, Zenon

\* The answer to GET_INFO and its payload come,
LEMMA TakesInfoAck ==
    ASSUME NEW v, NEW s, NEW l, NEW d, NEW sound, Situation("info_ack", v, s, l, d, sound),
           2 \in 1 .. Len(l),
           NEW w, w = With(v, SubSeq(l, 1, 2)), NEW m, m = SubSeq(l, 2 + 1, Len(l))
    PROVE  l[1] = CMD_GET_INFO /\ l[2] = ACK_OKAY /\ Situation("info", w, s, m, d, sound)
<1>1. /\ ParseInv(v) /\ ReadsInv(s) /\ sound \in BOOLEAN /\ l \in Seq(Nat)
      /\ Good(v, s) /\ Quiet(v) /\ Len(l) = InfoLen + 2
      /\ l[1] = CMD_GET_INFO /\ l[2] = ACK_OKAY
      /\ sound => Clean(v, l)
  BY DEF Situation, Right, Going, Astray
<1>2. Takes(v, s, l, 2, w, m)
  BY <1>1, BytesTaken, Zenon
<1>3. m \in Seq(Nat) /\ Len(m) = InfoLen
  <2>1. m \in Seq(Nat) /\ Len(m) = Len(l) - 2
    BY <1>2, Zenon DEF Takes, Without
  <2>2. QED
    BY <1>1, <2>1, LogAssumption
<1>4. ParseInv(w) /\ Quiet(w) /\ Good(w, s) /\ (sound => Clean(w, m))
  BY <1>1, <1>2, Zenon DEF Takes, Seeing
<1>5. QED
  BY <1>1, <1>3, <1>4, Zenon DEF Situation, Right, Going

\* after which nothing is on the line;
LEMMA TakesInfo ==
    ASSUME NEW v, NEW s, NEW l, NEW d, NEW sound, Situation("info", v, s, l, d, sound),
           InfoLen \in 1 .. Len(l), NEW w, w = With(v, SubSeq(l, 1, InfoLen)),
           NEW m, m = SubSeq(l, InfoLen + 1, Len(l))
    PROVE  Situation("track", w, s, m, d, sound)
<1>1. /\ ParseInv(v) /\ ReadsInv(s) /\ sound \in BOOLEAN /\ l \in Seq(Nat)
      /\ Good(v, s) /\ Quiet(v) /\ Len(l) = InfoLen
      /\ sound => Clean(v, l)
  BY DEF Situation, Right, Going, Astray
<1>2. Takes(v, s, l, InfoLen, w, m) /\ m = Nothing
  <2>1. Takes(v, s, l, InfoLen, w, m)
    BY <1>1, BytesTaken, Zenon
  <2>2. QED
    BY <1>1, <2>1, Zenon DEF Takes
<1>3. ParseInv(w) /\ Good(w, s) /\ (sound => Clean(w, m)) /\ m \in Seq(Nat)
  BY <1>1, <1>2, Zenon DEF Takes, Seeing, Without
<1>4. QED
  BY <1>1, <1>2, <1>3, Zenon DEF Situation, Right, Going

\* the answer to the seek, which may be the rest of a stream,
LEMMA TakesSeekAck ==
    ASSUME NEW v, NEW s, NEW l, NEW d, NEW sound, Situation("seek_ack", v, s, l, d, sound),
           2 \in 1 .. Len(l),
           NEW w, w = With(v, SubSeq(l, 1, 2)), NEW m, m = SubSeq(l, 2 + 1, Len(l)),
           NEW next, next = IF l[1] # CMD_SEEK THEN "exit"
                            ELSE IF l[2] = ACK_OKAY THEN "head" ELSE "track"
    PROVE  Situation(next, w, s, m, d, sound)
<1>1. /\ ParseInv(v) /\ ReadsInv(s) /\ sound \in BOOLEAN /\ l \in Seq(Nat) /\ Quiet(v)
      /\ \/ /\ Good(v, s) /\ l[1] = CMD_SEEK /\ Len(l) = 2
            /\ l[2] = ACK_OKAY => SameCyl(v, d)
         \/ ~sound /\ Broken(v, s) /\ StrayAnswer(l)
      /\ sound => Clean(v, l)
  BY DEF Situation, Right, Going, Astray
<1>2. Takes(v, s, l, 2, w, m)
  BY <1>1, BytesTaken, Zenon
<1>3. /\ ParseInv(w) /\ (Good(v, s) => Good(w, s)) /\ (Broken(v, s) => Broken(w, s))
      /\ (sound => Clean(w, m)) /\ m \in Seq(Nat)
      /\ SameCyl(v, d) => SameCyl(w, d)
  BY <1>1, <1>2, Zenon DEF Takes, Seeing, Without, SameCyl
<1>4. CASE /\ Good(v, s) /\ l[1] = CMD_SEEK /\ Len(l) = 2
           /\ l[2] = ACK_OKAY => SameCyl(v, d)
  <2>1. m = Nothing
    BY <1>2, <1>4, Zenon DEF Takes
  <2>2. CASE l[2] = ACK_OKAY
    <3>1. next = "head"
      BY <1>4, <2>2, Zenon
    <3>2. QED
      BY <1>1, <1>3, <1>4, <2>1, <2>2, <3>1, Zenon DEF Situation, Right, Going
  <2>3. CASE l[2] # ACK_OKAY
    <3>1. next = "track"
      BY <1>4, <2>3, Zenon
    <3>2. QED
      BY <1>1, <1>3, <1>4, <2>1, <3>1, Zenon DEF Situation, Right, Going
  <2>4. QED
    BY <2>2, <2>3
<1>5. CASE ~sound /\ Broken(v, s) /\ StrayAnswer(l)
  <2>1. CASE l[1] # CMD_SEEK
    <3>1. next = "exit"
      BY <2>1, Zenon
    <3>2. QED
      BY <1>1, <1>3, <1>5, <3>1, Zenon DEF Situation, Right, Astray
  <2>2. CASE l[1] = CMD_SEEK
    <3>1. l[2] # ACK_OKAY /\ Stray(m)
      <4>1. Without(m, l, 2)
        BY <1>2, Zenon DEF Takes
      <4>2. QED
        BY <1>1, <1>5, <2>2, <4>1, StrayLeft, Zenon
    <3>2. next = "track"
      BY <2>2, <3>1, Zenon
    <3>3. QED
      BY <1>1, <1>3, <1>5, <3>1, <3>2, Zenon DEF Situation, Right, Astray
  <2>3. QED
    BY <2>1, <2>2
<1>6. QED
  BY <1>1, <1>4, <1>5, Zenon

\* the answer to the side,
LEMMA TakesHeadAck ==
    ASSUME NEW v, NEW s, NEW l, NEW d, NEW sound, Situation("head_ack", v, s, l, d, sound),
           2 \in 1 .. Len(l),
           NEW w, w = With(v, SubSeq(l, 1, 2)), NEW m, m = SubSeq(l, 2 + 1, Len(l))
    PROVE  l[1] = CMD_HEAD /\ l[2] = ACK_OKAY /\ Situation("read", w, s, m, d, sound)
<1>1. /\ ParseInv(v) /\ ReadsInv(s) /\ sound \in BOOLEAN /\ l \in Seq(Nat)
      /\ Good(v, s) /\ Quiet(v) /\ l = <<CMD_HEAD, ACK_OKAY>> /\ SamePlace(v, d)
      /\ sound => Clean(v, l)
  BY DEF Situation, Right, Going, Astray
<1>2. Len(l) = 2 /\ l[1] = CMD_HEAD /\ l[2] = ACK_OKAY
  BY <1>1
<1>3. Takes(v, s, l, 2, w, m) /\ m = Nothing
  <2>1. Takes(v, s, l, 2, w, m)
    BY <1>1, BytesTaken, Zenon
  <2>2. QED
    BY <1>2, <2>1, Zenon DEF Takes
<1>4. /\ ParseInv(w) /\ Good(w, s) /\ (sound => Clean(w, m)) /\ m \in Seq(Nat)
      /\ SamePlace(w, d)
  BY <1>1, <1>3, Zenon DEF Takes, Seeing, Without, SamePlace
<1>5. QED
  BY <1>1, <1>2, <1>3, <1>4, Zenon DEF Situation, Right, Going

\* A refused read leaves no pending flux, and an accepted one begins its stream.
LEMMA TakesReadAck ==
    ASSUME NEW v, NEW s, NEW l, NEW d, NEW sound, Situation("read_ack", v, s, l, d, sound),
           2 \in 1 .. Len(l),
           NEW w, w = With(v, SubSeq(l, 1, 2)), NEW m, m = SubSeq(l, 2 + 1, Len(l)),
           NEW next, next = IF l[1] # CMD_READ_FLUX THEN "exit"
                            ELSE IF l[2] = ACK_OKAY THEN "first" ELSE "track"
    PROVE  Situation(next, w, s, m, d, sound)
<1>1. /\ ParseInv(v) /\ ReadsInv(s) /\ sound \in BOOLEAN /\ l \in Seq(Nat)
      /\ v.dbuf = Nothing
      /\ \/ Good(v, s) /\ l = <<CMD_READ_FLUX, ACK_NO_UNIT>>
         \/ Reading(v, s, l)
      /\ sound => Clean(v, l)
  BY DEF Situation, Right, Going, Astray
<1>2. Takes(v, s, l, 2, w, m)
  BY <1>1, BytesTaken, Zenon
<1>3. ParseInv(w) /\ m \in Seq(Nat) /\ w.fifo = v.fifo /\ (sound => Clean(w, m))
  BY <1>1, <1>2, Zenon DEF Takes, Seeing, Without
<1>4. w.dbuf = SubSeq(l, 1, 2) /\ Len(w.dbuf) = 2 /\ w.dbuf[1] = l[1] /\ w.dbuf[2] = l[2]
  <2>1. PICK a : a = SubSeq(l, 1, 2)
    OBVIOUS
  <2>2. a \in Seq(Nat) /\ Len(a) = 2 /\ w.dbuf = Nothing \o a
    BY <1>1, <1>2, <2>1, Zenon DEF Takes
  <2>3. Nothing \o a = a
    BY <2>2, ConcatEmptySeq DEF Nothing
  <2>4. a[1] = l[1] /\ a[2] = l[2]
    BY <1>1, <2>1
  <2>5. QED
    BY <2>1, <2>2, <2>3, <2>4, Zenon
<1>5. CASE Good(v, s) /\ l = <<CMD_READ_FLUX, ACK_NO_UNIT>>
  <2>1. /\ Len(l) = 2 /\ l[1] = CMD_READ_FLUX /\ l[2] = ACK_NO_UNIT
        /\ ACK_NO_UNIT # ACK_OKAY
    BY <1>5 DEF ACK_NO_UNIT, ACK_OKAY
  <2>2. m = Nothing
    BY <1>2, <2>1, Zenon DEF Takes
  <2>3. Good(w, s)
    BY <1>3, <1>4, <1>5, <2>1, Zenon DEF Good, Mute
  <2>4. next = "track"
    BY <2>1, Zenon
  <2>5. QED
    BY <1>1, <1>3, <2>2, <2>3, <2>4, Zenon DEF Situation, Right, Going
<1>6. CASE Reading(v, s, l)
  <2>1. Reading(w, s, m)
    BY <1>2, <1>6, Zenon DEF Takes, Seeing
  <2>2. PICK x : x = s[Len(s)].sent
    OBVIOUS
  <2>3. x \in Seq(Nat) /\ Len(x) > 0 /\ Len(w.dbuf) + Len(m) = 2 + Len(x)
    <3>1. PICK n, y : n = Len(s) - 1 /\ y = s[n + 1].sent
      OBVIOUS
    <3>2. n + 1 = Len(s) /\ y \in Seq(Nat) /\ Len(y) > 0 /\ Len(w.dbuf) + Len(m) = 2 + Len(y)
      BY <1>1, <1>3, <2>1, <3>1, ReadingCame, ZenonT(40)
    <3>3. QED
      BY <2>2, <3>1, <3>2, Zenon
  <2>4. m # Nothing
    <3>1. PICK k, j : k = Len(x) /\ j = Len(m)
      OBVIOUS
    <3>2. k \in Nat /\ k > 0 /\ 2 + j = 2 + k /\ j \in Nat
      BY <1>3, <1>4, <2>3, <3>1, LenProperties, Zenon
    <3>3. j # 0
      BY <3>2
    <3>4. QED
      BY <3>1, <3>3, EmptySeq DEF Nothing
  <2>5. l[1] = CMD_READ_FLUX /\ l[2] = ACK_OKAY
    <3>1. l = OkayAck \o x
      <4>1. Nothing \o l = l
        BY <1>1, ConcatEmptySeq DEF Nothing
      <4>2. QED
        BY <1>1, <1>6, <2>2, <4>1, Zenon DEF Reading
    <3>2. OkayAck \in Seq(Nat) /\ Len(OkayAck) = 2 /\ OkayAck[1] = CMD_READ_FLUX
          /\ OkayAck[2] = ACK_OKAY
      BY Codes DEF OkayAck
    <3>3. \A i \in 1 .. Len(OkayAck) + Len(x) :
             (OkayAck \o x)[i] = IF i <= Len(OkayAck) THEN OkayAck[i] ELSE x[i - Len(OkayAck)]
      BY <2>3, <3>2, ConcatProperties, Zenon
    <3>4. 1 \in 1 .. 2 + Len(x) /\ 2 \in 1 .. 2 + Len(x) /\ 1 <= 2 /\ 2 <= 2
      BY <2>3, LenProperties
    <3>5. QED
      BY <3>1, <3>2, <3>3, <3>4, Zenon
  <2>6. next = "first"
    BY <2>5, Zenon
  <2>7. Len(w.dbuf) >= 2
    BY <1>4
  <2>8. QED
    BY <1>1, <1>3, <2>1, <2>4, <2>6, <2>7, Zenon DEF Situation, Right, Going
<1>7. QED
  BY <1>1, <1>5, <1>6, Zenon

\* The host stops at the zero, which is the last byte.
LEMMA TakesStream ==
    ASSUME NEW v, NEW s, NEW l, NEW d, NEW sound,
           NEW at \in {"first", "rest"}, Situation(at, v, s, l, d, sound),
           NEW n \in 1 .. Len(l), NEW w, w = With(v, SubSeq(l, 1, n)),
           NEW m, m = SubSeq(l, n + 1, Len(l)), NEW other \in {"first", "rest"},
           NEW next, next = IF l[n] = 0 THEN "status" ELSE other
    PROVE  Situation(next, w, s, m, d, sound)
<1>1. /\ ParseInv(v) /\ ReadsInv(s) /\ sound \in BOOLEAN /\ l \in Seq(Nat)
      /\ Reading(v, s, l) /\ Len(v.dbuf) >= 2 /\ l # Nothing
      /\ sound => Clean(v, l)
  BY DEF Situation, Right, Going, Astray
<1>2. Takes(v, s, l, n, w, m)
  BY <1>1, BytesTaken, Zenon
<1>3. /\ ParseInv(w) /\ m \in Seq(Nat) /\ Reading(w, s, m) /\ (sound => Clean(w, m))
      /\ Len(w.dbuf) = Len(v.dbuf) + n
      /\ n = Len(l) => m = Nothing
      /\ n # Len(l) => m # Nothing
  BY <1>1, <1>2, Zenon DEF Takes, Seeing, Without
<1>4. Len(w.dbuf) >= 2
  <2>1. Len(v.dbuf) \in Nat
    BY <1>1, LenProperties, ParseFields, Zenon DEF ParseInv
  <2>2. PICK j : j = Len(v.dbuf)
    OBVIOUS
  <2>3. j \in Nat /\ j >= 2 /\ Len(w.dbuf) = j + n
    BY <1>1, <1>3, <2>1, <2>2, Zenon
  <2>4. QED
    BY <2>3
<1>5. (l[n] = 0) <=> (n = Len(l))
  <2>1. PICK k, x : k = Len(s) - 1 /\ x = s[k + 1].sent
    OBVIOUS
  <2>2. x \in Seq(Nat) /\ Closed(x) /\ Came(Body(v), l, x)
    BY <1>1, <2>1, ReadingCame, Zenon
  <2>3. QED
    BY <1>1, <2>2, SomeCame, Zenon
<1>6. CASE l[n] = 0
  <2>1. next = "status" /\ m = Nothing
    BY <1>3, <1>5, <1>6, Zenon
  <2>2. QED
    BY <1>1, <1>3, <1>4, <2>1, Zenon DEF Situation, Right, Going
<1>7. CASE l[n] # 0
  <2>1. next \in {"first", "rest"} /\ m # Nothing
    <3>1. next = other
      BY <1>7, Zenon
    <3>2. QED
      BY <1>3, <1>5, <1>7, <3>1, Zenon
  <2>2. QED
    BY <1>1, <1>3, <1>4, <2>1, Zenon DEF Situation, Right, Going
<1>8. QED
  BY <1>6, <1>7

\* Nothing waits, or a read fails.
LEMMA StreamStays ==
    ASSUME NEW v, NEW s, NEW l, NEW d, NEW sound,
           NEW at \in {"first", "rest"}, Situation(at, v, s, l, d, sound)
    PROVE  Situation("first", v, s, l, d, sound) /\ Situation("status", v, s, l, d, FALSE)
<1>1. /\ ParseInv(v) /\ ReadsInv(s) /\ sound \in BOOLEAN /\ l \in Seq(Nat)
      /\ Reading(v, s, l) /\ Len(v.dbuf) >= 2 /\ l # Nothing
      /\ sound => Clean(v, l)
  BY DEF Situation, Right, Going, Astray
<1>2. FALSE \in BOOLEAN
  OBVIOUS
<1>3. QED
  BY <1>1, <1>2, Zenon DEF Situation, Right, Going

\* and the status.
LEMMA TakesStatusAck ==
    ASSUME NEW v, NEW s, NEW l, NEW d, NEW sound, Situation("status_ack", v, s, l, d, sound),
           2 \in 1 .. Len(l),
           NEW w, w = With(v, SubSeq(l, 1, 2)), NEW m, m = SubSeq(l, 2 + 1, Len(l))
    PROVE  Situation("track", w, s, m, d, sound)
<1>1. /\ ParseInv(v) /\ ReadsInv(s) /\ sound \in BOOLEAN /\ l \in Seq(Nat) /\ Quiet(v)
      /\ \/ Good(v, s) /\ Len(l) = 2
         \/ ~sound /\ Broken(v, s) /\ Stray(SubSeq(l, 3, Len(l)))
      /\ sound => Clean(v, l)
  BY DEF Situation, Right, Going, Astray
<1>2. Takes(v, s, l, 2, w, m)
  BY <1>1, BytesTaken, Zenon
<1>3. /\ ParseInv(w) /\ (Good(v, s) => Good(w, s)) /\ (Broken(v, s) => Broken(w, s))
      /\ (sound => Clean(w, m)) /\ m \in Seq(Nat)
      /\ Len(l) = 2 => m = Nothing
  BY <1>1, <1>2, Zenon DEF Takes, Seeing, Without
<1>4. m = SubSeq(l, 3, Len(l))
  BY <1>1
<1>5. QED
  BY <1>1, <1>3, <1>4, Zenon DEF Situation, Right, Going, Astray

-----------------------------------------------------------------------------
(* The inductive invariant.                                                *)

\* The parser when the transfer that is under way will have been dumped.
Seen == IF out = NoTransfer THEN FrameEnds(ps) ELSE After(FrameEnds(ps), out)

TransferGood(t) ==
    t # NoTransfer => Len(t.bytes) > 0 /\ (t.dir = "host" => Sendable(t.bytes))

IsRead(read) ==
    read = [pos |-> read.pos, sent |-> read.sent, whole |-> read.whole, status |-> read.status]

ReadsType(s) == IsSeq(s) /\ \A i \in 1 .. Len(s) : IsRead(s[i])

SessionInv ==
    /\ ReadsType(reads) /\ TransferGood(out)
    /\ phase = "capture" => Situation(pc, Seen, reads, line, dev, intact)

ParsedInv ==
    /\ InPlace(ps.fifo, reads) /\ Told(ps.fifo, ps.warnings, reads)
    /\ intact => ps.warnings = 0

PlacesInv == SessionInv /\ (Parsed => ParsedInv)

\* A step within the capture keeps the invariant if it leads to a situation.
LEMMA Continues ==
    ASSUME phase' = "capture", ReadsType(reads'), TransferGood(out'),
           Situation(pc', Seen', reads', line', dev', intact')
    PROVE  PlacesInv'
<1>1. ~Parsed'
  BY DEF Parsed
<1>2. QED
  BY <1>1, Zenon DEF PlacesInv, SessionInv

\* The host writes a frame.
LEMMA CommandWritten ==
    ASSUME ParseInv(ps), out = NoTransfer, ps' = ps,
           NEW frame, Sendable(frame), NEW answer, NEW next, Command(frame, answer, next)
    PROVE  /\ Commanded(Seen, frame, Seen') /\ TransferGood(out')
           /\ line' = line \o answer /\ pc' = next
<1>1. /\ out' = [dir |-> "host", bytes |-> frame]
      /\ line' = line \o answer /\ pc' = next
  BY Zenon DEF Command
<1>2. out'.dir = "host" /\ out'.bytes = frame /\ out' # NoTransfer
  BY <1>1 DEF NoTransfer
<1>3. Seen = FrameEnds(ps) /\ Seen' = HostFrame(FrameEnds(ps), frame)
  BY <1>2, Zenon DEF Seen, After
<1>4. ParseInv(FrameEnds(ps))
  BY FrameEndsFields, Zenon
<1>5. Commanded(Seen, frame, Seen')
  BY <1>3, <1>4, CommandSeen, Zenon
<1>6. Len(frame) > 0
  <2>1. frame \in Seq(Nat) /\ Len(frame) >= 2
    BY Zenon DEF Sendable, HostBytes, Valid
  <2>2. PICK n : n = Len(frame)
    OBVIOUS
  <2>3. n \in Nat /\ n >= 2
    BY <2>1, <2>2, LenProperties, Zenon
  <2>4. n > 0
    BY <2>3
  <2>5. QED
    BY <2>2, <2>4, Zenon
<1>7. QED
  BY <1>1, <1>2, <1>5, <1>6, Zenon DEF TransferGood

\* The host has read n bytes.
LEMMA BytesRead ==
    ASSUME out = NoTransfer, ps' = ps, line \in Seq(Nat), NEW n, NEW next, Read(n, next)
    PROVE  /\ n \in 1 .. Len(line) /\ Seen' = With(Seen, SubSeq(line, 1, n))
           /\ line' = SubSeq(line, n + 1, Len(line)) /\ pc' = next /\ TransferGood(out')
<1>1. /\ n \in 1 .. Len(line)
      /\ out' = [dir |-> "dev", bytes |-> SubSeq(line, 1, n)]
      /\ line' = SubSeq(line, n + 1, Len(line)) /\ pc' = next
  BY Zenon DEF Read
<1>2. /\ out'.dir = "dev" /\ out'.dir # "host" /\ out'.bytes = SubSeq(line, 1, n)
      /\ out' # NoTransfer
  BY <1>1 DEF NoTransfer
<1>3. Seen' = With(Seen, SubSeq(line, 1, n))
  BY <1>2, Zenon DEF Seen, After
<1>4. Len(SubSeq(line, 1, n)) > 0
  <2>1. n \in 0 .. Len(line) /\ n > 0
    BY <1>1
  <2>2. Len(SubSeq(line, 1, n)) = n
    BY <2>1, FirstBytes, Zenon
  <2>3. QED
    BY <2>1, <2>2, Zenon
<1>5. QED
  BY <1>1, <1>2, <1>3, <1>4, Zenon DEF TransferGood

\* t is s with e for its last read.
LastIs(s, e, t) ==
    /\ IsSeq(t) /\ Len(t) = Len(s) /\ ReadsType(t)
    /\ \A i \in 1 .. Len(s) : t[i] = IF i = Len(s) THEN e ELSE s[i]

\* The last read is changed.
LEMMA ChangedRead ==
    ASSUME NEW s, ReadsType(s), NEW x
    PROVE  LET t == [s EXCEPT ![Len(s)].whole = x]
               u == [s EXCEPT ![Len(s)].status = x]
           IN /\ ReadsType(t) /\ Ended(s, t, x)
              /\ ReadsType(u) /\ SameReads(s, u)
<1>1. PICK n : n = Len(s)
  OBVIOUS
<1>2. IsSeq(s) /\ n \in Nat /\ DOMAIN s = 1 .. n /\ \A i \in 1 .. n : IsRead(s[i])
  BY <1>1, AppendIsSeq, Zenon DEF ReadsType
<1>3. ASSUME NEW e, IsRead(e), NEW t, t = [s EXCEPT ![n] = e]
      PROVE  LastIs(s, e, t)
  <2>1. IsSeq(t)
    BY <1>2, <1>3, ExceptIsSeq, Zenon
  <2>2. PICK m : m = Len(t)
    OBVIOUS
  <2>3. m \in Nat /\ DOMAIN t = 1 .. m
    BY <2>1, <2>2, AppendIsSeq, Zenon
  <2>4. DOMAIN t = 1 .. n
    BY <1>2, <1>3
  <2>5. m = n
    BY <1>2, <2>3, <2>4
  <2>6. \A i \in 1 .. n : t[i] = IF i = n THEN e ELSE s[i]
    BY <1>2, <1>3
  <2>7. \A i \in 1 .. n : IsRead(t[i])
    BY <1>2, <1>3, <2>6, Zenon
  <2>8. QED
    BY <1>1, <2>1, <2>2, <2>5, <2>6, <2>7, Zenon DEF ReadsType, LastIs
<1>4. PICK t, u : t = [s EXCEPT ![n].whole = x] /\ u = [s EXCEPT ![n].status = x]
  OBVIOUS
<1>5. CASE n = 0
  <2>1. t = s /\ u = s
    BY <1>2, <1>4, <1>5
  <2>2. \A q \in 1 .. n : FALSE
    BY <1>5
  <2>3. QED
    BY <1>1, <1>2, <1>4, <2>1, <2>2, Zenon DEF ReadsType, Ended, SameReads
<1>6. CASE n # 0
  <2>1. PICK r : r = s[n]
    OBVIOUS
  <2>2. n \in 1 .. n /\ IsRead(r)
    BY <1>2, <1>6, <2>1
  <2>3. PICK d, e : d = [r EXCEPT !.whole = x] /\ e = [r EXCEPT !.status = x]
    OBVIOUS
  <2>4. /\ IsRead(d) /\ d.pos = r.pos /\ d.sent = r.sent /\ d.whole = x
        /\ IsRead(e) /\ e.pos = r.pos /\ e.sent = r.sent /\ e.whole = r.whole
    BY <2>2, <2>3 DEF IsRead
  <2>5. t = [s EXCEPT ![n] = d] /\ u = [s EXCEPT ![n] = e]
    BY <1>4, <2>1, <2>3
  <2>6. /\ IsSeq(t) /\ Len(t) = n /\ ReadsType(t)
        /\ \A i \in 1 .. n : t[i] = IF i = n THEN d ELSE s[i]
    <3>1. LastIs(s, d, t)
      BY <1>3, <2>4, <2>5, Zenon
    <3>2. QED
      BY <1>1, <3>1, Zenon DEF LastIs
  <2>7. /\ IsSeq(u) /\ Len(u) = n /\ ReadsType(u)
        /\ \A i \in 1 .. n : u[i] = IF i = n THEN e ELSE s[i]
    <3>1. LastIs(s, e, u)
      BY <1>3, <2>4, <2>5, Zenon
    <3>2. QED
      BY <1>1, <3>1, Zenon DEF LastIs
  <2>8. Ended(s, t, x)
    <3>1. ASSUME NEW q \in 1 .. n
          PROVE  /\ t[q].pos = s[q].pos /\ t[q].sent = s[q].sent
                 /\ t[q].whole = IF q = n THEN x ELSE s[q].whole
      <4>1. CASE q = n
        BY <2>1, <2>4, <2>6, <4>1, Zenon
      <4>2. CASE q # n
        BY <2>6, <4>2, Zenon
      <4>3. QED
        BY <4>1, <4>2
    <3>2. QED
      BY <1>1, <1>2, <2>6, <3>1, Zenon DEF Ended
  <2>9. SameReads(s, u)
    <3>1. ASSUME NEW q \in 1 .. n
          PROVE  u[q].pos = s[q].pos /\ u[q].sent = s[q].sent /\ u[q].whole = s[q].whole
      <4>1. CASE q = n
        BY <2>1, <2>4, <2>7, <4>1, Zenon
      <4>2. CASE q # n
        BY <2>7, <4>2, Zenon
      <4>3. QED
        BY <4>1, <4>2
    <3>2. QED
      BY <1>1, <1>2, <2>7, <3>1, Zenon DEF SameReads
  <2>10. QED
    BY <1>1, <1>4, <2>6, <2>7, <2>8, <2>9, Zenon
<1>7. QED
  BY <1>5, <1>6

\* What the device sends as flux.
LEMMA FluxSent ==
    ASSUME NEW n \in Nat, n > 0, NEW flux \in {Nothing, Flux(n)}, NEW x, x = Append(flux, 0)
    PROVE  /\ x \in Seq(Nat) /\ Len(x) > 0 /\ Closed(x)
           /\ \A i \in 1 .. Len(x) : x[i] # CMD_SEEK
           /\ \A i \in 1 .. Len(x) : x[i] # CMD_GET_FLUX_STATUS
<1>0. ASSUME flux \in Seq(Nat)
      PROVE  /\ x \in Seq(Nat) /\ Len(x) = Len(flux) + 1
             /\ \A i \in 1 .. Len(flux) : x[i] = flux[i]
             /\ x[Len(flux) + 1] = 0
  <2>1. 0 \in Nat
    OBVIOUS
  <2>2. Append(flux, 0) \in Seq(Nat)
    BY <1>0, <2>1, AppendProperties, Zenon
  <2>3. Len(Append(flux, 0)) = Len(flux) + 1
    BY <1>0, <2>1, AppendProperties, Zenon
  <2>4. \A i \in 1 .. Len(flux) : Append(flux, 0)[i] = flux[i]
    BY <1>0, <2>1
  <2>5. Append(flux, 0)[Len(flux) + 1] = 0
    BY <1>0, <2>1, AppendProperties, ZenonT(40)
  <2>6. QED
    BY <2>2, <2>3, <2>4, <2>5, Zenon
<1>1. CASE flux = Nothing
  <2>1. flux \in Seq(Nat) /\ Len(flux) = 0
    BY <1>1, EmptySeq DEF Nothing
  <2>2. x \in Seq(Nat) /\ Len(x) = 1 /\ x[1] = 0 /\ DOMAIN x = 1 .. 1
    <3>1. 0 + 1 = 1
      OBVIOUS
    <3>2. x \in Seq(Nat) /\ Len(x) = 1 /\ x[1] = 0
      BY <1>0, <2>1, <3>1, Zenon
    <3>3. QED
      BY <3>2, LenProperties
  <2>3. QED
    BY <2>2 DEF Closed, CMD_SEEK, CMD_GET_FLUX_STATUS
<1>2. CASE flux = Flux(n)
  <2>1. PICK a, b, c : a = 20 * n /\ b = 20 * n + 1 /\ c = 20 * n + 2
    OBVIOUS
  <2>2. a \in Nat /\ b \in Nat /\ c \in Nat /\ a > 9 /\ b > 9 /\ c > 9
    BY <2>1
  <2>3. flux = <<a, b, c>>
    BY <1>2, <2>1, Zenon DEF Flux
  <2>4. /\ flux \in Seq(Nat) /\ Len(flux) = 3
        /\ flux[1] = a /\ flux[2] = b /\ flux[3] = c
    BY <2>2, <2>3
  <2>5. /\ x \in Seq(Nat) /\ Len(x) = Len(flux) + 1
        /\ \A i \in 1 .. Len(flux) : x[i] = flux[i]
        /\ x[Len(flux) + 1] = 0
    BY <1>0, <2>4, Zenon
  <2>6. x[1] = a /\ x[2] = b /\ x[3] = c /\ x[4] = 0 /\ Len(x) = 4
    <3>1. 1 \in 1 .. 3 /\ 2 \in 1 .. 3 /\ 3 \in 1 .. 3 /\ 3 + 1 = 4
      OBVIOUS
    <3>2. QED
      BY <2>4, <2>5, <3>1, Zenon
  <2>7. DOMAIN x = 1 .. 4 /\ x \in Seq(Nat)
    BY <2>5, <2>6
  <2>8. \A i \in 1 .. 4 : (x[i] = 0 <=> i = 4) /\ x[i] # 2 /\ x[i] # 9
    <3>1. \A i \in 1 .. 4 : i = 1 \/ i = 2 \/ i = 3 \/ i = 4
      OBVIOUS
    <3>2. QED
      BY <2>2, <2>6, <3>1
  <2>9. Closed(x)
    BY <2>6, <2>7, <2>8, Zenon DEF Closed
  <2>10. \A i \in 1 .. Len(x) : x[i] # CMD_SEEK /\ x[i] # CMD_GET_FLUX_STATUS
    BY <2>6, <2>8, Zenon DEF CMD_SEEK, CMD_GET_FLUX_STATUS
  <2>11. Len(x) > 0
    BY <2>6
  <2>12. QED
    BY <2>7, <2>9, <2>10, <2>11, Zenon
<1>3. QED
  BY <1>1, <1>2

-----------------------------------------------------------------------------
(* Each step keeps it.                                                     *)

\* Another command is written.
LEMMA AskingStep ==
    ASSUME DeviceInv, LogInv, SessionInv,
           Identify \/ Seek \/ SelectHead \/ ReadFlux \/ GetFluxStatus
    PROVE  PlacesInv'
<1>1. /\ phase = "capture" /\ out = NoTransfer
      /\ UNCHANGED <<phase, intact, ps>>
  BY Zenon DEF Identify, Seek, SelectHead, ReadFlux, GetFluxStatus, Capturing
<1>2. /\ ParseInv(ps) /\ IsSeq(reads) /\ dev \in DeviceType
      /\ pc \in {"seek_ack", "head"} => target \in Positions
  BY Zenon DEF DeviceInv, LogInv
<1>3. ReadsType(reads) /\ Situation(pc, Seen, reads, line, dev, intact)
  BY <1>1, Zenon DEF SessionInv
<1>4. PICK v, w : v = Seen /\ w = Seen'
  OBVIOUS
<1>5. CASE Identify
  <2>1. /\ pc = "identify" /\ UNCHANGED <<dev, reads>>
        /\ Command(<<CMD_GET_INFO, 3, GETINFO_FIRMWARE>>,
                   <<CMD_GET_INFO, ACK_OKAY>> \o [i \in 1 .. InfoLen |-> 1], "info_ack")
    BY <1>5, Zenon DEF Identify, Capturing
  <2>2. PICK info : info = [i \in 1 .. InfoLen |-> 1]
    OBVIOUS
  <2>3. info \in Seq(Nat) /\ Len(info) = InfoLen
    <3>1. PICK n \in Nat : n = InfoLen
      BY LogAssumption
    <3>2. [i \in 1 .. n |-> 1] \in Seq(Nat) /\ Len([i \in 1 .. n |-> 1]) = n
      OBVIOUS
    <3>3. QED
      BY <2>2, <3>1, <3>2, Zenon
  <2>4. /\ Commanded(v, <<CMD_GET_INFO, 3, GETINFO_FIRMWARE>>, w) /\ TransferGood(out')
        /\ line' = line \o (<<CMD_GET_INFO, ACK_OKAY>> \o info) /\ pc' = "info_ack"
    BY <1>1, <1>2, <1>4, <2>1, <2>2, SessionFrames, CommandWritten, Zenon
  <2>5. Situation("info_ack", w, reads, line', dev, intact)
    BY <1>3, <1>4, <2>1, <2>3, <2>4, AsksInfo, Zenon
  <2>6. QED
    BY <1>1, <1>3, <1>4, <2>1, <2>4, <2>5, Continues, Zenon
<1>6. CASE Seek
  <2>1. PICK pos \in Positions, ack \in {ACK_OKAY, ACK_NO_TRK0} :
          /\ dev' = [dev EXCEPT !.cyl = IF ack = ACK_OKAY THEN pos[1] ELSE Unknown]
          /\ Command(<<CMD_SEEK, 3, pos[1]>>, <<CMD_SEEK, ack>>, "seek_ack")
    BY <1>6, Zenon DEF Seek
  <2>2. pc = "track" /\ reads' = reads
    BY <1>6, Zenon DEF Seek, Capturing
  <2>3. PICK c : c = pos[1]
    OBVIOUS
  <2>4. c \in 0 .. MaxTracks - 1
    BY <2>3, PositionsAssumption
  <2>5. ack = ACK_OKAY => dev'.cyl = c
    BY <1>2, <2>1, <2>3 DEF DeviceType
  <2>6. /\ Commanded(v, <<CMD_SEEK, 3, c>>, w) /\ TransferGood(out')
        /\ line' = line \o <<CMD_SEEK, ack>> /\ pc' = "seek_ack"
    <3>1. Sendable(<<CMD_SEEK, 3, c>>) /\ Command(<<CMD_SEEK, 3, c>>, <<CMD_SEEK, ack>>, "seek_ack")
      BY <2>1, <2>3, <2>4, SessionFrames, Zenon
    <3>2. QED
      BY <1>1, <1>2, <1>4, <3>1, CommandWritten, Zenon
  <2>7. Situation("seek_ack", w, reads, line', dev', intact)
    BY <1>3, <1>4, <2>2, <2>4, <2>5, <2>6, AsksSeek, Zenon
  <2>8. QED
    BY <1>1, <1>3, <1>4, <2>2, <2>6, <2>7, Continues, Zenon
<1>7. CASE SelectHead
  <2>1. /\ pc = "head" /\ reads' = reads
        /\ dev' = [dev EXCEPT !.head = target[2]]
        /\ Command(<<CMD_HEAD, 3, target[2]>>, <<CMD_HEAD, ACK_OKAY>>, "head_ack")
    BY <1>7, Zenon DEF SelectHead, Capturing
  <2>2. PICK h : h = target[2]
    OBVIOUS
  <2>3. h \in {0, 1}
    <3>1. target \in Positions
      BY <1>2, <2>1
    <3>2. QED
      BY <2>2, <3>1, PositionsAssumption
  <2>4. dev'.cyl = dev.cyl /\ dev'.head = h
    BY <1>2, <2>1, <2>2 DEF DeviceType
  <2>5. /\ Commanded(v, <<CMD_HEAD, 3, h>>, w) /\ TransferGood(out')
        /\ line' = line \o <<CMD_HEAD, ACK_OKAY>> /\ pc' = "head_ack"
    <3>1. /\ Sendable(<<CMD_HEAD, 3, h>>)
          /\ Command(<<CMD_HEAD, 3, h>>, <<CMD_HEAD, ACK_OKAY>>, "head_ack")
      BY <2>1, <2>2, <2>3, SessionFrames, Zenon
    <3>2. QED
      BY <1>1, <1>2, <1>4, <3>1, CommandWritten, Zenon
  <2>6. Situation("head_ack", w, reads, line', dev', intact)
    BY <1>3, <1>4, <2>1, <2>3, <2>4, <2>5, AsksHead, Zenon
  <2>7. QED
    BY <1>1, <1>3, <1>4, <2>1, <2>5, <2>6, Continues, Zenon
<1>8. CASE ReadFlux
  <2>1. pc = "read"
    BY <1>8, Zenon DEF ReadFlux, Capturing
  <2>2. CASE /\ Command(ReadFrame, <<CMD_READ_FLUX, ACK_NO_UNIT>>, "read_ack")
             /\ UNCHANGED <<dev, reads>>
    <3>1. /\ Commanded(v, ReadFrame, w) /\ TransferGood(out')
          /\ line' = line \o <<CMD_READ_FLUX, ACK_NO_UNIT>> /\ pc' = "read_ack"
      BY <1>1, <1>2, <1>4, <2>2, SessionFrames, CommandWritten, Zenon
    <3>2. Situation("read_ack", w, reads, line', dev, intact)
      BY <1>3, <1>4, <2>1, <3>1, ReadRefused, Zenon
    <3>3. QED
      BY <1>1, <1>3, <1>4, <2>2, <3>1, <3>2, Continues, Zenon
  <2>3. ASSUME NEW flux \in {Nothing, Flux(Len(reads) + 1)}, NEW read,
               read = [pos |-> <<dev.cyl, dev.head>>, sent |-> Append(flux, 0),
                       whole |-> FALSE, status |-> NoAnswer],
               reads' = Append(reads, read),
               Command(ReadFrame, <<CMD_READ_FLUX, ACK_OKAY>> \o Append(flux, 0), "read_ack")
        PROVE  PlacesInv'
    <3>1. PICK n, x : n = Len(reads) + 1 /\ x = Append(flux, 0)
      OBVIOUS
    <3>2. /\ IsSeq(reads') /\ Len(reads) \in Nat
          /\ Len(reads') = Len(reads) + 1 /\ reads'[Len(reads) + 1] = read
          /\ \A i \in 1 .. Len(reads) : reads'[i] = reads[i]
      BY <1>2, <2>3, AppendIsSeq
    <3>3. x \in Seq(Nat) /\ Len(x) > 0 /\ Closed(x) /\ \A i \in 1 .. Len(x) : x[i] # CMD_SEEK
      <4>1. n \in Nat /\ n > 0
        BY <3>1, <3>2
      <4>2. flux \in {Nothing, Flux(n)}
        BY <2>3, <3>1, Zenon
      <4>3. QED
        BY <3>1, <4>1, <4>2, FluxSent, Zenon
    <3>4. /\ read.pos = <<dev.cyl, dev.head>> /\ read.sent = x /\ read.whole = FALSE
          /\ IsRead(read)
      BY <2>3, <3>1 DEF IsRead
    <3>5. OneRead(reads, reads', read)
      BY <3>2, Zenon DEF OneRead
    <3>6. ReadsType(reads')
      <4>1. \A i \in 1 .. Len(reads) + 1 : i \in 1 .. Len(reads) \/ i = Len(reads) + 1
        BY <3>2
      <4>2. \A i \in 1 .. Len(reads) + 1 : IsRead(reads'[i])
        BY <1>3, <3>2, <3>4, <4>1, Zenon DEF ReadsType
      <4>3. QED
        BY <3>2, <4>2, Zenon DEF ReadsType
    <3>7. /\ Commanded(v, ReadFrame, w) /\ TransferGood(out')
          /\ line' = line \o (OkayAck \o x) /\ pc' = "read_ack"
      <4>1. Command(ReadFrame, OkayAck \o x, "read_ack")
        BY <2>3, <3>1, Zenon DEF OkayAck
      <4>2. QED
        BY <1>1, <1>2, <1>4, <4>1, SessionFrames, CommandWritten, Zenon
    <3>8. Situation("read_ack", w, reads', line', dev', intact)
      BY <1>3, <1>4, <2>1, <3>3, <3>4, <3>5, <3>7, ReadAccepted, Zenon
    <3>9. QED
      BY <1>1, <1>4, <3>6, <3>7, <3>8, Continues, Zenon
  <2>4. QED
    BY <1>8, <2>2, <2>3, Zenon DEF ReadFlux
<1>9. CASE GetFluxStatus
  <2>1. /\ pc = "status" /\ dev' = dev
        /\ reads' = [reads EXCEPT ![Len(reads)].whole = (line = Nothing)]
        /\ Command(<<CMD_GET_FLUX_STATUS, 2>>, <<CMD_GET_FLUX_STATUS, dev.status>>, "status_ack")
    BY <1>9, Zenon DEF GetFluxStatus, Capturing
  <2>2. ReadsType(reads') /\ Ended(reads, reads', line = Nothing)
    BY <1>3, <2>1, ChangedRead, Zenon
  <2>3. dev.status \in Nat
    BY <1>2 DEF DeviceType
  <2>4. /\ Commanded(v, <<CMD_GET_FLUX_STATUS, 2>>, w) /\ TransferGood(out')
        /\ line' = line \o <<CMD_GET_FLUX_STATUS, dev.status>> /\ pc' = "status_ack"
    BY <1>1, <1>2, <1>4, <2>1, SessionFrames, CommandWritten, Zenon
  <2>5. Situation("status_ack", w, reads', line', dev, intact)
    BY <1>3, <1>4, <2>1, <2>2, <2>3, <2>4, AsksStatus, Zenon
  <2>6. QED
    BY <1>1, <1>4, <2>1, <2>2, <2>4, <2>5, Continues, Zenon
<1>10. QED
  BY <1>5, <1>6, <1>7, <1>8, <1>9

\* Another answer is read, or a part of the stream.
LEMMA TakingStep ==
    ASSUME DeviceInv, LogInv, SessionInv,
           \/ IdentifyAck \/ Info \/ SeekAck \/ HeadAck \/ ReadFluxAck \/ FirstByte
           \/ WaitingBytes \/ ReadFails \/ FluxStatusAck
    PROVE  PlacesInv'
<1>1. /\ phase = "capture" /\ out = NoTransfer
      /\ UNCHANGED <<phase, dev, reads, ps>>
  BY Zenon DEF IdentifyAck, Info, SeekAck, HeadAck, ReadFluxAck, FirstByte, WaitingBytes,
               ReadFails, FluxStatusAck, Capturing
<1>2. line \in Seq(Nat)
  BY Zenon DEF DeviceInv
<1>3. /\ ReadsType(reads) /\ TransferGood(out)
      /\ Situation(pc, Seen, reads, line, dev, intact)
  BY <1>1, Zenon DEF SessionInv
<1>4. PICK v, w : v = Seen /\ w = Seen'
  OBVIOUS
<1>5. ASSUME intact' = intact, TransferGood(out'), Situation(pc', w, reads, line', dev, intact)
      PROVE  PlacesInv'
  BY <1>1, <1>3, <1>4, <1>5, Continues, Zenon
<1>6. ASSUME NEW n, NEW next, Read(n, next)
      PROVE  /\ n \in 1 .. Len(line) /\ w = With(v, SubSeq(line, 1, n))
             /\ line' = SubSeq(line, n + 1, Len(line)) /\ pc' = next /\ TransferGood(out')
  BY <1>1, <1>2, <1>4, <1>6, BytesRead, Zenon
<1>7. CASE IdentifyAck
  <2>1. PICK next : next = IF line[1] # CMD_GET_INFO THEN "exit"
                           ELSE IF line[2] = ACK_OKAY THEN "info" ELSE "exit"
    OBVIOUS
  <2>2. pc = "info_ack" /\ intact' = intact /\ Read(2, next)
    BY <1>7, <2>1, Zenon DEF IdentifyAck, Capturing, ReadAnswer
  <2>3. /\ 2 \in 1 .. Len(line) /\ w = With(v, SubSeq(line, 1, 2))
        /\ line' = SubSeq(line, 2 + 1, Len(line)) /\ pc' = next /\ TransferGood(out')
    BY <1>6, <2>2, Zenon
  <2>4. /\ line[1] = CMD_GET_INFO /\ line[2] = ACK_OKAY
        /\ Situation("info", w, reads, line', dev, intact)
    BY <1>3, <1>4, <2>2, <2>3, TakesInfoAck, Zenon
  <2>5. QED
    BY <1>5, <2>1, <2>2, <2>3, <2>4, Zenon
<1>8. CASE Info
  <2>1. pc = "info" /\ intact' = intact /\ Read(InfoLen, "track")
    BY <1>8, Zenon DEF Info, Capturing
  <2>2. /\ InfoLen \in 1 .. Len(line) /\ w = With(v, SubSeq(line, 1, InfoLen))
        /\ line' = SubSeq(line, InfoLen + 1, Len(line)) /\ pc' = "track" /\ TransferGood(out')
    BY <1>6, <2>1, Zenon
  <2>3. Situation("track", w, reads, line', dev, intact)
    BY <1>3, <1>4, <2>1, <2>2, TakesInfo, Zenon
  <2>4. QED
    BY <1>5, <2>1, <2>2, <2>3, Zenon
<1>9. CASE SeekAck
  <2>1. PICK next : next = IF line[1] # CMD_SEEK THEN "exit"
                           ELSE IF line[2] = ACK_OKAY THEN "head" ELSE "track"
    OBVIOUS
  <2>2. pc = "seek_ack" /\ intact' = intact /\ Read(2, next)
    BY <1>9, <2>1, Zenon DEF SeekAck, Capturing, ReadAnswer
  <2>3. /\ 2 \in 1 .. Len(line) /\ w = With(v, SubSeq(line, 1, 2))
        /\ line' = SubSeq(line, 2 + 1, Len(line)) /\ pc' = next /\ TransferGood(out')
    BY <1>6, <2>2, Zenon
  <2>4. Situation(next, w, reads, line', dev, intact)
    BY <1>3, <1>4, <2>1, <2>2, <2>3, TakesSeekAck, Zenon
  <2>5. QED
    BY <1>5, <2>2, <2>3, <2>4, Zenon
<1>10. CASE HeadAck
  <2>1. PICK next : next = IF line[1] # CMD_HEAD THEN "exit"
                           ELSE IF line[2] = ACK_OKAY THEN "read" ELSE "track"
    OBVIOUS
  <2>2. pc = "head_ack" /\ intact' = intact /\ Read(2, next)
    BY <1>10, <2>1, Zenon DEF HeadAck, Capturing, ReadAnswer
  <2>3. /\ 2 \in 1 .. Len(line) /\ w = With(v, SubSeq(line, 1, 2))
        /\ line' = SubSeq(line, 2 + 1, Len(line)) /\ pc' = next /\ TransferGood(out')
    BY <1>6, <2>2, Zenon
  <2>4. /\ line[1] = CMD_HEAD /\ line[2] = ACK_OKAY
        /\ Situation("read", w, reads, line', dev, intact)
    BY <1>3, <1>4, <2>2, <2>3, TakesHeadAck, Zenon
  <2>5. QED
    BY <1>5, <2>1, <2>2, <2>3, <2>4, Zenon
<1>11. CASE ReadFluxAck
  <2>1. PICK next : next = IF line[1] # CMD_READ_FLUX THEN "exit"
                           ELSE IF line[2] = ACK_OKAY THEN "first" ELSE "track"
    OBVIOUS
  <2>2. pc = "read_ack" /\ intact' = intact /\ Read(2, next)
    BY <1>11, <2>1, Zenon DEF ReadFluxAck, Capturing, ReadAnswer
  <2>3. /\ 2 \in 1 .. Len(line) /\ w = With(v, SubSeq(line, 1, 2))
        /\ line' = SubSeq(line, 2 + 1, Len(line)) /\ pc' = next /\ TransferGood(out')
    BY <1>6, <2>2, Zenon
  <2>4. Situation(next, w, reads, line', dev, intact)
    BY <1>3, <1>4, <2>1, <2>2, <2>3, TakesReadAck, Zenon
  <2>5. QED
    BY <1>5, <2>2, <2>3, <2>4, Zenon
<1>12. ASSUME NEW at \in {"first", "rest"}, pc = at, intact' = intact, NEW n,
              NEW other \in {"first", "rest"},
              Read(n, IF line[n] = 0 THEN "status" ELSE other)
       PROVE  PlacesInv'
  <2>1. PICK next : next = IF line[n] = 0 THEN "status" ELSE other
    OBVIOUS
  <2>2. /\ n \in 1 .. Len(line) /\ w = With(v, SubSeq(line, 1, n))
        /\ line' = SubSeq(line, n + 1, Len(line)) /\ pc' = next /\ TransferGood(out')
    <3>1. Read(n, next)
      BY <1>12, <2>1, Zenon
    <3>2. QED
      BY <1>6, <3>1, Zenon
  <2>3. Situation(at, v, reads, line, dev, intact)
    BY <1>3, <1>4, <1>12, Zenon
  <2>4. Situation(next, w, reads, line', dev, intact)
    BY <1>12, <2>1, <2>2, <2>3, TakesStream, Zenon
  <2>5. QED
    BY <1>5, <1>12, <2>2, <2>4, Zenon
<1>13. CASE FirstByte
  BY <1>12, <1>13, Zenon DEF FirstByte, Capturing
<1>14. CASE WaitingBytes
  <2>1. pc = "rest" /\ intact' = intact
    BY <1>14, Zenon DEF WaitingBytes, Capturing
  <2>2. CASE pc' = "first" /\ UNCHANGED <<out, line>>
    <3>1. w = v
      BY <1>1, <1>4, <2>2, Zenon DEF Seen
    <3>2. Situation("first", v, reads, line, dev, intact)
      BY <1>3, <1>4, <2>1, StreamStays, Zenon
    <3>3. QED
      BY <1>3, <1>5, <2>1, <2>2, <3>1, <3>2, Zenon
  <2>3. ASSUME NEW n, Read(n, IF line[n] = 0 THEN "status" ELSE "first")
        PROVE  PlacesInv'
    BY <1>12, <2>1, <2>3, Zenon
  <2>4. QED
    BY <1>14, <2>2, <2>3, Zenon DEF WaitingBytes
<1>15. CASE ReadFails
  <2>1. /\ pc \in {"first", "rest"} /\ pc' = "status" /\ intact' = FALSE
        /\ UNCHANGED <<out, line>>
    BY <1>15, Zenon DEF ReadFails
  <2>2. w = v
    BY <1>1, <1>4, <2>1, Zenon DEF Seen
  <2>3. Situation("status", v, reads, line, dev, FALSE)
    BY <1>3, <1>4, <2>1, StreamStays, Zenon
  <2>4. QED
    BY <1>1, <1>3, <1>4, <2>1, <2>2, <2>3, Continues, Zenon
<1>16. CASE FluxStatusAck
  <2>1. pc = "status_ack" /\ intact' = intact /\ Read(2, "track")
    BY <1>16, Zenon DEF FluxStatusAck, Capturing
  <2>2. /\ 2 \in 1 .. Len(line) /\ w = With(v, SubSeq(line, 1, 2))
        /\ line' = SubSeq(line, 2 + 1, Len(line)) /\ pc' = "track" /\ TransferGood(out')
    BY <1>6, <2>1, Zenon
  <2>3. Situation("track", w, reads, line', dev, intact)
    BY <1>3, <1>4, <2>1, <2>2, TakesStatusAck, Zenon
  <2>4. QED
    BY <1>5, <2>1, <2>2, <2>3, Zenon
<1>17. QED
  BY <1>7, <1>8, <1>9, <1>10, <1>11, <1>13, <1>14, <1>15, <1>16

\* Reads that are alike are kept alike.
LEMMA SameReadsInv ==
    ASSUME NEW s, ReadsInv(s), NEW t, SameReads(s, t)
    PROVE  ReadsInv(t)
<1>1. Len(t) = Len(s) /\ Len(s) \in Nat
  BY Zenon DEF SameReads
<1>2. ASSUME NEW r \in 1 .. Len(s)
      PROVE  /\ t[r].pos \in Places /\ t[r].whole \in BOOLEAN
             /\ t[r].sent \in Seq(Nat) /\ Len(t[r].sent) > 0 /\ Closed(t[r].sent)
             /\ \A i \in 1 .. Len(t[r].sent) : t[r].sent[i] # CMD_SEEK
  <2>1. t[r].pos = s[r].pos /\ t[r].sent = s[r].sent /\ t[r].whole = s[r].whole
    BY Zenon DEF SameReads
  <2>2. QED
    BY <2>1, Zenon DEF ReadsInv
<1>3. QED
  BY <1>1, <1>2, Zenon DEF ReadsInv

\* What a session is stays so for a parser that has only more warnings.
LEMMA SituationAlike ==
    ASSUME NEW at, NEW v, NEW s, NEW l, NEW d, NEW sound, Situation(at, v, s, l, d, sound),
           NEW w, ParseInv(w), NEW k \in Nat, Alike(v, w, k),
           NEW t, SameReads(s, t), NEW now \in BOOLEAN, now => sound /\ k = 0
    PROVE  Situation(at, w, t, l, d, now)
<1>1. /\ ParseInv(v) /\ ReadsInv(s) /\ l \in Seq(Nat) /\ sound \in BOOLEAN
      /\ Right(at, v, s, l, d, sound)
  BY Zenon DEF Situation
<1>2. v.warnings \in Nat
  BY <1>1, ParseFields, Zenon DEF ParseInv
<1>3. now => Clean(w, l)
  <2> SUFFICES ASSUME now PROVE Clean(w, l)
    OBVIOUS
  <2>1. k = 0 /\ Clean(v, l)
    BY <1>1, Zenon DEF Right
  <2>2. v.warnings = 0 /\ Lost(With(v, l)) = 0
    BY <2>1, Zenon DEF Clean
  <2>3. w.warnings = v.warnings + k
    BY Zenon DEF Alike
  <2>4. w.warnings = 0
    BY <2>1, <2>2, <2>3
  <2>5. Alike(With(v, l), With(w, l), k)
    BY <1>1, AlikeWith, Zenon
  <2>6. Lost(With(w, l)) = Lost(With(v, l))
    BY <2>5, AlikeResolves, Zenon
  <2>7. QED
    BY <2>2, <2>4, <2>6, Zenon DEF Clean
<1>4. Right(at, w, t, l, d, now)
  <2>1. now => sound
    OBVIOUS
  <2>2. QED
    BY <1>1, <1>2, <1>3, <2>1, RightAlike
<1>5. ReadsInv(t)
  BY <1>1, SameReadsInv, Zenon
<1>6. QED
  BY <1>1, <1>4, <1>5, Zenon DEF Situation

\* Something is written to the log.
LEMMA WritingStep ==
    ASSUME DeviceInv, LogInv, SessionInv, WriteLog \/ WriteJunk
    PROVE  PlacesInv'
<1>1. phase = "capture" /\ UNCHANGED <<phase, pc, line, dev>>
  BY Zenon DEF WriteLog, WriteJunk
<1>2. ParseInv(ps) /\ TransferInv(out) /\ intact \in BOOLEAN
  BY Zenon DEF DeviceInv, LogInv
<1>3. ReadsType(reads) /\ TransferGood(out) /\ Situation(pc, Seen, reads, line, dev, intact)
  BY <1>1, Zenon DEF SessionInv
<1>4. CASE WriteLog
  <2>1. /\ out # NoTransfer /\ out' = NoTransfer /\ intact' = intact
        /\ ps' = TakeLines(ps, Dump(out.dir, out.bytes))
        /\ reads' = IF out.dir = "dev" /\ pc = "track" /\ out.bytes[1] = CMD_GET_FLUX_STATUS
                    THEN [reads EXCEPT ![Len(reads)].status = out.bytes[2]]
                    ELSE reads
    BY <1>4, Zenon DEF WriteLog
  <2>2. ReadsType(reads') /\ SameReads(reads, reads')
    <3>1. ReadsType(reads) /\ SameReads(reads, reads)
      <4>1. Len(reads) \in Nat
        BY <1>3, AppendIsSeq, Zenon DEF ReadsType
      <4>2. QED
        BY <1>3, <4>1, Zenon DEF SameReads
    <3>2. PICK u : u = [reads EXCEPT ![Len(reads)].status = out.bytes[2]]
      OBVIOUS
    <3>3. ReadsType(u) /\ SameReads(reads, u)
      BY <1>3, <3>2, ChangedRead, Zenon
    <3>4. reads' = u \/ reads' = reads
      BY <2>1, <3>2, Zenon
    <3>5. QED
      BY <3>1, <3>3, <3>4, Zenon
  <2>3. Dumpable(out)
    BY <1>2, <1>3, <2>1, Zenon DEF TransferInv, TransferGood, Sendable, Valid, Dumpable
  <2>4. ParseInv(ps') /\ Alike(After(FrameEnds(ps), out), FrameEnds(ps'), 0)
    <3>1. Written(ps, out, TakeLines(ps, Dump(out.dir, out.bytes)))
      BY <1>2, <2>3, LogWritten, Zenon
    <3>2. Written(ps, out, ps')
      BY <2>1, <3>1, Zenon
    <3>3. QED
      BY <3>2, Zenon DEF Written
  <2>5. Alike(Seen, Seen', 0) /\ Seen' = FrameEnds(ps')
    BY <2>1, <2>4, Zenon DEF Seen
  <2>6. ParseInv(Seen')
    BY <2>4, <2>5, FrameEndsFields, Zenon
  <2>7. Situation(pc, Seen', reads', line, dev, intact)
    <3>1. 0 \in Nat /\ (intact => intact /\ 0 = 0)
      OBVIOUS
    <3>2. PICK v, w, t : v = Seen /\ w = Seen' /\ t = reads'
      OBVIOUS
    <3>3. Situation(pc, w, t, line, dev, intact)
      BY <1>2, <1>3, <2>2, <2>5, <2>6, <3>1, <3>2, SituationAlike, Zenon
    <3>4. QED
      BY <3>2, <3>3, Zenon
  <2>8. TransferGood(out')
    BY <2>1, Zenon DEF TransferGood
  <2>9. QED
    BY <1>1, <2>1, <2>2, <2>7, <2>8, Continues, Zenon
<1>5. CASE WriteJunk
  <2>1. /\ out = NoTransfer /\ out' = NoTransfer /\ intact' = FALSE
        /\ ps' = TakeLine(ps, Junk) /\ reads' = reads
    BY <1>5, Zenon DEF WriteJunk
  <2>2. ps' = Warn(ps)
    BY <2>1 DEF TakeLine, Junk
  <2>3. Worse(Seen, Seen') /\ Seen' = FrameEnds(ps')
    BY <1>2, <2>1, <2>2, WarnWorse, Zenon DEF Seen
  <2>4. PICK k \in Nat : Alike(Seen, Seen', k)
    BY <2>3, Zenon DEF Worse
  <2>5. ParseInv(Seen')
    <3>1. ParseInv(Warn(ps))
      <4>1. TRUE \in BOOLEAN
        OBVIOUS
      <4>2. QED
        BY <1>2, <4>1, WarnStep, Zenon
    <3>2. QED
      BY <2>2, <2>3, <3>1, FrameEndsFields, Zenon
  <2>6. SameReads(reads, reads)
    <3>1. Len(reads) \in Nat
      BY <1>3, AppendIsSeq, Zenon DEF ReadsType
    <3>2. QED
      BY <3>1, Zenon DEF SameReads
  <2>7. Situation(pc, Seen', reads, line, dev, FALSE)
    <3>1. FALSE \in BOOLEAN
      OBVIOUS
    <3>2. PICK v, w : v = Seen /\ w = Seen'
      OBVIOUS
    <3>3. Situation(pc, w, reads, line, dev, FALSE)
      BY <1>3, <2>4, <2>5, <2>6, <3>1, <3>2, SituationAlike, Zenon
    <3>4. QED
      BY <3>2, <3>3, Zenon
  <2>8. QED
    BY <1>1, <1>3, <2>1, <2>7, Continues, Zenon
<1>6. QED
  BY <1>4, <1>5

\* The session ends, or breaks off.
LEMMA EndingStep ==
    ASSUME DeviceInv, LogInv, SessionInv, Exit \/ Killed
    PROVE  PlacesInv'
<1>1. phase = "capture" /\ phase' = "parsed" /\ UNCHANGED <<out, reads>>
  BY Zenon DEF Exit, Killed
<1>2. ParseInv(ps) /\ TransferInv(out) /\ line \in Seq(Nat)
  BY Zenon DEF DeviceInv, LogInv
<1>3. ReadsType(reads) /\ TransferGood(out) /\ Situation(pc, Seen, reads, line, dev, intact)
  BY <1>1, Zenon DEF SessionInv
<1>4. PICK v, e : v = Seen /\ e = FrameEnds(ps)
  OBVIOUS
<1>5. /\ ParseInv(v) /\ ReadsInv(reads) /\ Right(pc, v, reads, line, dev, intact)
      /\ ParseInv(e)
  BY <1>2, <1>3, <1>4, FrameEndsFields, Zenon DEF Situation
<1>6. Fine(v, reads)
  BY <1>2, <1>5, RightIsFine, Zenon
<1>7. ASSUME InPlace(ps'.fifo, reads), Told(ps'.fifo, ps'.warnings, reads),
             intact' => ps'.warnings = 0
      PROVE  PlacesInv'
  <2>1. phase' # "capture"
    BY <1>1
  <2>2. QED
    BY <1>1, <1>3, <1>7, <2>1, Zenon DEF PlacesInv, SessionInv, ParsedInv
<1>8. ASSUME NEW u, ParseInv(u), Fine(u, reads), EndsAs(u, ps'), intact' = FALSE
      PROVE  PlacesInv'
  <2>1. PICK k \in Nat : ps'.fifo = ResolvedFifo(u) /\ ps'.warnings = u.warnings + Lost(u) + k
    BY <1>8, Zenon DEF EndsAs
  <2>2. PICK n : n = u.warnings + Lost(u)
    OBVIOUS
  <2>3. n \in Nat
    <3>1. Lost(u) \in Nat
      BY <1>8, ResolvedFields, Zenon
    <3>2. u.warnings \in Nat
      BY <1>8, ParseFields, Zenon DEF ParseInv
    <3>3. QED
      BY <2>2, <3>1, <3>2
  <2>4. InPlace(ResolvedFifo(u), reads) /\ Told(ResolvedFifo(u), n, reads)
    BY <1>5, <1>8, <2>2, FineResolved, Zenon
  <2>5. Told(ResolvedFifo(u), n + k, reads)
    BY <2>3, <2>4, ToldMore, Zenon
  <2>6. QED
    BY <1>7, <1>8, <2>1, <2>2, <2>4, <2>5, Zenon
<1>9. CASE Exit
  <2>1. /\ out = NoTransfer /\ pc \in {"track", "exit"} /\ intact' = intact
        /\ ps' = ResolvePending(e)
    BY <1>4, <1>9, Zenon DEF Exit, TakeEof
  <2>2. v = e
    BY <1>4, <2>1, Zenon DEF Seen
  <2>3. ps'.fifo = ResolvedFifo(v) /\ ps'.warnings = v.warnings + Lost(v)
    BY <1>5, <2>1, <2>2, PendingFields, Zenon
  <2>4. InPlace(ResolvedFifo(v), reads) /\ Told(ResolvedFifo(v), v.warnings + Lost(v), reads)
    BY <1>5, <1>6, FineResolved, Zenon
  <2>5. intact => ps'.warnings = 0
    <3> SUFFICES ASSUME intact PROVE ps'.warnings = 0
      OBVIOUS
    <3>1. line = Nothing /\ Clean(v, Nothing)
      BY <1>5, <2>1 DEF Right, Going
    <3>2. v.warnings = 0 /\ Lost(v) = 0
      BY <1>5, <3>1, CleanNow, Zenon
    <3>3. QED
      BY <2>3, <3>2
  <2>6. QED
    BY <1>7, <2>1, <2>3, <2>4, <2>5, Zenon
<1>10. CASE Killed
  <2>1. PICK kind, bytes, lines : /\ kind = out.dir /\ bytes = out.bytes
                                  /\ lines = Dump(kind, bytes)
    OBVIOUS
  <2>2. /\ out # NoTransfer /\ intact' = FALSE
        /\ kind \in {"host", "dev"} /\ bytes \in Seq(Nat)
        /\ kind = "host" => HostBytes(bytes) /\ Sendable(bytes)
    BY <1>2, <1>3, <1>10, <2>1, Zenon DEF Killed, TransferInv, TransferGood
  <2>3. lines \in Seq(LineType) /\ DumpOf(lines, kind, bytes)
    BY <2>1, <2>2, DumpIs, Zenon
  <2>4. PICK n \in 1 .. Len(lines) :
           \E stump \in {Nothing} \cup {<<l>> : l \in Stumps(lines[n])} :
              ps' = TakeEof(TakeLines(ps, SubSeq(lines, 1, n - 1) \o stump))
    BY <1>10, <2>1, Zenon DEF Killed
  <2>5. PICK stump \in {Nothing} \cup {<<l>> : l \in Stumps(lines[n])} :
           ps' = TakeEof(TakeLines(ps, SubSeq(lines, 1, n - 1) \o stump))
    BY <2>4
  <2>6. PICK q : q = TakeLines(ps, SubSeq(lines, 1, n - 1) \o stump)
    OBVIOUS
  <2>7. TookPart(ps, q, kind, bytes)
    BY <2>2, <2>3, <2>6, PartTaken, Zenon
  <2>8. /\ kind = "host" => EndsAs(e, TakeEof(q))
        /\ kind = "dev" => EndsWithin(e, bytes, TakeEof(q))
    BY <1>2, <1>4, <2>2, <2>7, LogBroken, Zenon
  <2>9. ps' = TakeEof(q)
    BY <2>5, <2>6, Zenon
  <2>10. CASE kind = "host"
    <3>1. v = HostFrame(e, bytes)
      BY <1>4, <2>1, <2>2, <2>10, Zenon DEF Seen, After
    <3>2. Commanded(e, bytes, v)
      BY <1>5, <2>2, <2>10, <3>1, CommandSeen, Zenon
    <3>3. v.fifo = ResolvedFifo(e) /\ v.warnings = e.warnings + Lost(e)
      BY <3>2, Zenon DEF Commanded
    <3>4. PICK k \in Nat : ps'.fifo = ResolvedFifo(e) /\ ps'.warnings = e.warnings + Lost(e) + k
      BY <2>8, <2>9, <2>10, Zenon DEF EndsAs
    <3>5. InPlace(v.fifo, reads) /\ Told(v.fifo, v.warnings, reads)
      BY <1>5, <1>6, FineNow, Zenon
    <3>6. v.warnings \in Nat
      BY <1>5, ParseFields, Zenon DEF ParseInv
    <3>7. Told(v.fifo, v.warnings + k, reads)
      BY <3>5, <3>6, ToldMore, Zenon
    <3>8. QED
      BY <1>7, <2>2, <3>3, <3>4, <3>5, <3>7, Zenon
  <2>11. CASE kind = "dev"
    <3>1. v = With(e, bytes)
      <4>1. kind # "host"
        BY <2>11
      <4>2. QED
        BY <1>4, <2>1, <2>2, <4>1, Zenon DEF Seen, After
    <3>2. PICK m \in 0 .. Len(bytes) : EndsAs(With(e, SubSeq(bytes, 1, m)), TakeEof(q))
      BY <2>8, <2>11, Zenon DEF EndsWithin
    <3>3. PICK u : u = With(e, SubSeq(bytes, 1, m))
      OBVIOUS
    <3>4. Fine(u, reads)
      BY <1>5, <1>6, <2>2, <3>1, <3>3, FineFirst, Zenon
    <3>5. ParseInv(u)
      <4>1. SubSeq(bytes, 1, m) \in Seq(Nat)
        BY <2>2, FirstBytes, Zenon
      <4>2. QED
        BY <1>5, <3>3, <4>1, WithFields, Zenon
    <3>6. QED
      BY <1>8, <2>2, <2>9, <3>2, <3>3, <3>4, <3>5, Zenon
  <2>12. QED
    BY <2>2, <2>10, <2>11
<1>11. QED
  BY <1>9, <1>10

\* The invariant holds at the start,
LEMMA InitPlaces == Init => PlacesInv
<1> SUFFICES ASSUME Init PROVE PlacesInv
  OBVIOUS
<1>1. /\ phase = "capture" /\ pc = "identify" /\ out = NoTransfer /\ line = Nothing
      /\ reads = Nothing /\ intact = TRUE /\ ps = NewParse
  BY Zenon DEF Init
<1>2. PICK p : p = NewParse
  OBVIOUS
<1>3. /\ ~p.inHost /\ p.pcmd = Nothing /\ p.dbuf = Nothing /\ p.warnings = 0
      /\ \A pos \in Places : p.fifo[pos] = Nothing
  BY <1>2 DEF NewParse, Places
<1>4. ParseInv(p)
  BY <1>2, NewParseInv, Zenon
<1>5. Seen = p
  BY <1>1, <1>2, <1>3, Zenon DEF Seen, FrameEnds
<1>6. /\ Len(reads) = 0 /\ \A r \in 1 .. 0 : FALSE
      /\ Nothing \in Seq(Nat) /\ Len(Nothing) = 0
  BY <1>1, EmptySeq DEF Nothing
<1>7. ReadsType(reads) /\ ReadsInv(reads)
  <2>1. 0 \in Nat
    OBVIOUS
  <2>2. QED
    BY <1>1, <1>6, <2>1, Zenon DEF ReadsType, ReadsInv, IsSeq
<1>8. Good(p, reads)
  <2>1. \A pos : Count(reads, 0, pos) = 0
    <3> TAKE pos
    <3>1. {q \in 1 .. 0 : Gave(reads, q, pos)} = {}
      OBVIOUS
    <3>2. QED
      BY <3>1, FS_EmptySet, Zenon DEF Count
  <2>2. Stored(p.fifo, reads, 0)
    BY <1>3, <1>6, <2>1, Zenon DEF Stored
  <2>3. AllWhole(reads, 0)
    BY <1>6, Zenon DEF AllWhole
  <2>4. QED
    BY <1>3, <1>6, <2>2, <2>3, Zenon DEF Good, Mute, Quiet
<1>9. Clean(p, Nothing)
  <2>1. PICK u : u = With(p, Nothing)
    OBVIOUS
  <2>2. u.pcmd = p.pcmd /\ u.dbuf = p.dbuf \o Nothing
    BY <1>4, <1>6, <2>1, WithFields, Zenon
  <2>3. Nothing \o Nothing = Nothing
    BY <1>6, ConcatEmptySeq DEF Nothing
  <2>4. Lost(u) = 0
    BY <1>3, <2>2, <2>3, Zenon DEF Lost, Bit
  <2>5. QED
    BY <1>3, <2>1, <2>4, Zenon DEF Clean
<1>10. Situation(pc, Seen, reads, line, dev, intact)
  <2>1. intact \in BOOLEAN
    BY <1>1
  <2>2. QED
    BY <1>1, <1>4, <1>5, <1>6, <1>7, <1>8, <1>9, <2>1, Zenon DEF Situation, Right, Going
<1>11. TransferGood(out) /\ ~Parsed
  BY <1>1, Zenon DEF TransferGood, Parsed
<1>12. QED
  BY <1>1, <1>7, <1>10, <1>11, Zenon DEF PlacesInv, SessionInv

\* and every step keeps it.
LEMMA PlacesStep ==
    ASSUME ReplayInv, PlacesInv, [Next]_vars
    PROVE  PlacesInv'
<1>1. DeviceInv /\ LogInv /\ SessionInv
  BY Zenon DEF ReplayInv, PlacesInv
<1>2. CASE Identify \/ Seek \/ SelectHead \/ ReadFlux \/ GetFluxStatus
  BY <1>1, <1>2, AskingStep, Zenon
<1>3. CASE \/ IdentifyAck \/ Info \/ SeekAck \/ HeadAck \/ ReadFluxAck \/ FirstByte
           \/ WaitingBytes \/ ReadFails \/ FluxStatusAck
  BY <1>1, <1>3, TakingStep, Zenon
<1>4. CASE WriteLog \/ WriteJunk
  BY <1>1, <1>4, WritingStep, Zenon
<1>5. CASE Exit \/ Killed
  BY <1>1, <1>5, EndingStep, Zenon
<1>6. CASE Start \/ Visit
  <2>1. /\ phase # "capture" /\ phase' # "capture"
        /\ UNCHANGED <<out, reads, intact, ps>>
    BY <1>6 DEF Start, Visit, Session
  <2>2. QED
    BY <1>1, <2>1, Zenon DEF PlacesInv, SessionInv, ParsedInv, Parsed
<1>7. CASE UNCHANGED vars
  <2>1. UNCHANGED <<phase, pc, out, line, dev, reads, intact, ps>>
    BY <1>7, Zenon DEF vars
  <2>2. Seen' = Seen
    BY <2>1, Zenon DEF Seen
  <2>3. QED
    BY <1>1, <2>1, <2>2, Zenon DEF PlacesInv, SessionInv, ParsedInv, Parsed
<1>8. QED
  BY <1>2, <1>3, <1>4, <1>5, <1>6, <1>7, Zenon DEF Next

\* In every state the invariants hold together.
THEOREM PlacesInvHolds == Spec => []PlacesInv
<1>1. Init => PlacesInv
  BY InitPlaces
<1>2. ReplayInv /\ PlacesInv /\ [Next]_vars => PlacesInv'
  BY PlacesStep
<1>3. QED
  BY <1>1, <1>2, ReplayInvHolds, PTL DEF Spec

\* The reads that gave flux are counted alike.
LEMMA ReadsCounted ==
    ASSUME ReadsType(reads), NEW pos
    PROVE  /\ Cardinality(FluxReads(pos)) = Count(reads, Len(reads), pos)
           /\ \A r \in FluxReads(pos) : /\ r \in 1 .. Len(reads) /\ Gave(reads, r, pos)
                                        /\ Nth(r) = Count(reads, r, pos)
<1>1. PICK n, s : n = Len(reads) /\ s = reads
  OBVIOUS
<1>2. n \in Nat /\ DOMAIN s = 1 .. n
  BY <1>1, AppendIsSeq, Zenon DEF ReadsType
<1>3. FluxReads(pos) = {q \in 1 .. n : Gave(s, q, pos)}
  BY <1>1, <1>2, Zenon DEF FluxReads, Gave
<1>4. ASSUME NEW r \in FluxReads(pos)
      PROVE  r \in 1 .. n /\ Gave(s, r, pos) /\ Nth(r) = Count(s, r, pos)
  <2>1. r \in 1 .. n /\ Gave(s, r, pos) /\ reads[r].pos = pos
    BY <1>1, <1>3 DEF Gave
  <2>2. {q \in FluxReads(pos) : q <= r} = {q \in 1 .. r : Gave(s, q, pos)}
    <3>1. \A q : q \in 1 .. r <=> q \in 1 .. n /\ q <= r
      BY <1>2, <2>1
    <3>2. \A q : q \in FluxReads(pos) <=> q \in 1 .. n /\ Gave(s, q, pos)
      BY <1>3
    <3>3. QED
      BY <3>1, <3>2
  <2>3. QED
    BY <2>1, <2>2, Zenon DEF Nth, Count
<1>5. QED
  BY <1>1, <1>3, <1>4, Zenon DEF Count

\* It implies both properties.
LEMMA PlacesSuffice ==
    ASSUME ReplayInv, PlacesInv
    PROVE  StreamsInPlace /\ LossWarned
<1>1. ReadsType(reads) /\ ParseInv(ps) /\ (Parsed => ParsedInv)
  BY Zenon DEF ReplayInv, LogInv, PlacesInv, SessionInv
<1>2. ps.warnings \in Nat /\ DOMAIN ps.fifo = Places
  <2>1. ps.warnings \in Nat /\ ps.fifo \in [Places -> Seq(FluxType)]
    BY <1>1, ParseFields, Zenon DEF ParseInv
  <2>2. QED
    BY <2>1
<1>3. ASSUME Parsed, NEW pos \in Places
      PROVE  /\ Len(ps.fifo[pos]) <= Cardinality(FluxReads(pos))
             /\ \A r \in FluxReads(pos) :
                   /\ IF reads[r].whole
                      THEN /\ Nth(r) <= Len(ps.fifo[pos])
                           /\ ps.fifo[pos][Nth(r)].data = reads[r].sent
                      ELSE Nth(r) <= Len(ps.fifo[pos]) =>
                              IsPrefix(Front(ps.fifo[pos][Nth(r)].data), reads[r].sent)
                   /\ ps.warnings = 0 /\ Nth(r) <= Len(ps.fifo[pos]) =>
                         ps.fifo[pos][Nth(r)].data = reads[r].sent
  <2>1. InPlace(ps.fifo, reads) /\ Told(ps.fifo, ps.warnings, reads)
    BY <1>1, <1>3, Zenon DEF ParsedInv
  <2>2. Len(ps.fifo[pos]) <= Cardinality(FluxReads(pos))
    <3>1. Len(ps.fifo[pos]) <= Count(reads, Len(reads), pos)
      BY <2>1, Zenon DEF InPlace
    <3>2. QED
      BY <1>1, <3>1, ReadsCounted, Zenon
  <2>3. ASSUME NEW r \in FluxReads(pos)
        PROVE  /\ IF reads[r].whole
                  THEN /\ Nth(r) <= Len(ps.fifo[pos])
                       /\ ps.fifo[pos][Nth(r)].data = reads[r].sent
                  ELSE Nth(r) <= Len(ps.fifo[pos]) =>
                          IsPrefix(Front(ps.fifo[pos][Nth(r)].data), reads[r].sent)
               /\ ps.warnings = 0 /\ Nth(r) <= Len(ps.fifo[pos]) =>
                     ps.fifo[pos][Nth(r)].data = reads[r].sent
    <3>1. r \in 1 .. Len(reads) /\ Gave(reads, r, pos) /\ Nth(r) = Count(reads, r, pos)
      BY <1>1, ReadsCounted, Zenon
    <3>2. RightStream(ps.fifo, reads, r, pos)
      BY <2>1, <3>1, Zenon DEF InPlace
    <3>3. ps.warnings = 0 /\ Nth(r) <= Len(ps.fifo[pos]) =>
             ps.fifo[pos][Nth(r)].data = reads[r].sent
      BY <2>1, <3>1, Zenon DEF Told
    <3>4. QED
      BY <3>1, <3>2, <3>3, Zenon DEF RightStream
  <2>4. QED
    BY <2>2, <2>3, Zenon
<1>4. StreamsInPlace
  BY <1>2, <1>3, Zenon DEF StreamsInPlace
<1>5. LossWarned
  <2>1. ASSUME Parsed, NEW pos \in DOMAIN ps.fifo, NEW r \in FluxReads(pos),
               Nth(r) <= Len(ps.fifo[pos]), ps.fifo[pos][Nth(r)].data # reads[r].sent
        PROVE  ps.warnings > 0
    <3>1. ps.warnings # 0
      BY <1>2, <1>3, <2>1, Zenon
    <3>2. QED
      BY <1>2, <3>1
  <2>2. Parsed /\ intact => ps.warnings = 0
    BY <1>1, Zenon DEF ParsedInv
  <2>3. QED
    BY <2>1, <2>2, Zenon DEF LossWarned
<1>6. QED
  BY <1>4, <1>5

\* The queue of a track holds what the device read there and nothing else, in order:
\* gwreplay.c places a stream by the last seek and head it has seen, whatever their
\* answers, and that is right for every session, broken off anywhere.
THEOREM PlacedAsRead == Spec => []StreamsInPlace
<1>1. ReplayInv /\ PlacesInv => StreamsInPlace
  BY PlacesSuffice
<1>2. QED
  BY <1>1, ReplayInvHolds, PlacesInvHolds, PTL

\* The parser's warnings tell of every stream that is shorter than what the device
\* sent, and of nothing when the log holds a whole session.
THEOREM LossIsWarned == Spec => []LossWarned
<1>1. ReplayInv /\ PlacesInv => LossWarned
  BY PlacesSuffice
<1>2. QED
  BY <1>1, ReplayInvHolds, PlacesInvHolds, PTL

-----------------------------------------------------------------------------
(* Whose status is whose.                                                  *)

\* The reads from r on that were given a status before another one gave flux.
Own(s, r) ==
    {q \in r .. Len(s) : /\ \A p \in r + 1 .. Len(s) : Len(s[p].sent) > 1 => q < p
                         /\ s[q].status # NoAnswer}

\* The stream of r is to be stored with the status st, by the reads so far.
Given(s, r, st) ==
    \/ Own(s, r) = {} /\ st = ACK_OKAY
    \/ \E q \in Own(s, r) : (\A p \in Own(s, r) : p <= q) /\ st = s[q].status

\* All that are stored are.
StatusRight(f, s) ==
    \A pos \in Places : \A r \in 1 .. Len(s) :
        Gave(s, r, pos) /\ Count(s, r, pos) <= Len(f[pos]) =>
            Given(s, r, f[pos][Count(s, r, pos)].status)

\* last is the stream of the last of the first n reads that gave flux.
LastFlux(s, n, last) ==
    \/ last = Nothing /\ \A r \in 1 .. n : ~(Len(s[r].sent) > 1)
    \/ \E r \in 1 .. n :
          /\ Len(s[r].sent) > 1 /\ \A q \in r + 1 .. n : ~(Len(s[q].sent) > 1)
          /\ last = <<s[r].pos, Count(s, r, s[r].pos)>>

\* t has the reads of s, and perhaps one more that has no status yet.
Later(s, t) ==
    /\ Len(s) \in Nat /\ Len(t) \in {Len(s), Len(s) + 1}
    /\ \A q \in 1 .. Len(s) :
          t[q].pos = s[q].pos /\ t[q].sent = s[q].sent /\ t[q].status = s[q].status
    /\ Len(t) = Len(s) + 1 => t[Len(s) + 1].status = NoAnswer

\* The first n reads of s and t sent the same bytes from the same tracks, and so count alike.
SameSent(s, t, n) ==
    n \in Nat /\ \A q \in 1 .. n : t[q].pos = s[q].pos /\ t[q].sent = s[q].sent

SameCounts(s, t, n) == \A pos : \A k \in 0 .. n : Count(t, k, pos) = Count(s, k, pos)

\* Streams are counted by what was sent.
LEMMA CountsAlike ==
    ASSUME NEW s, NEW t, NEW n, SameSent(s, t, n)
    PROVE  SameCounts(s, t, n)
<1>1. n \in Nat
  BY Zenon DEF SameSent
<1>2. \A q \in 1 .. n : t[q].pos = s[q].pos /\ t[q].sent = s[q].sent
  BY Zenon DEF SameSent
<1>3. \A pos : \A k \in 0 .. n : Count(t, k, pos) = Count(s, k, pos)
  BY <1>1, <1>2, CountSame, ZenonT(40)
<1>4. QED
  BY <1>3, Zenon DEF SameCounts

\* A read without a status changes nothing for those before it.
LEMMA OwnLater ==
    ASSUME NEW s, NEW t, Later(s, t), NEW r \in 1 .. Len(s)
    PROVE  /\ Own(t, r) = Own(s, r)
           /\ \A st : Given(s, r, st) => Given(t, r, st)
<1>1. PICK n, k : n = Len(s) /\ k = Len(t)
  OBVIOUS
<1>2. n \in Nat /\ k \in {n, n + 1} /\ r \in 1 .. n
  BY <1>1, Zenon DEF Later
<1>3. \A q \in 1 .. n : t[q].sent = s[q].sent /\ t[q].status = s[q].status
  BY <1>1, Zenon DEF Later
<1>4. k = n + 1 => t[n + 1].status = NoAnswer
  BY <1>1, Zenon DEF Later
<1>5. ASSUME NEW q \in Own(t, r)
      PROVE  q \in Own(s, r)
  <2>1. /\ q \in r .. k /\ t[q].status # NoAnswer
        /\ \A p \in r + 1 .. k : Len(t[p].sent) > 1 => q < p
    BY <1>1, <1>5, Zenon DEF Own
  <2>2. q # n + 1 \/ k = n
    BY <1>2, <1>4, <2>1
  <2>3. q \in r .. n /\ q \in 1 .. n
    BY <1>2, <2>1, <2>2
  <2>4. s[q].status # NoAnswer
    BY <1>3, <2>1, <2>3, Zenon
  <2>5. ASSUME NEW p \in r + 1 .. n, Len(s[p].sent) > 1 PROVE q < p
    <3>1. p \in r + 1 .. k /\ p \in 1 .. n
      BY <1>2
    <3>2. Len(t[p].sent) > 1
      BY <1>3, <2>5, <3>1, Zenon
    <3>3. QED
      BY <2>1, <3>1, <3>2, Zenon
  <2>6. QED
    BY <1>1, <2>3, <2>4, <2>5, Zenon DEF Own
<1>6. ASSUME NEW q \in Own(s, r)
      PROVE  q \in Own(t, r) /\ t[q].status = s[q].status
  <2>1. /\ q \in r .. n /\ s[q].status # NoAnswer
        /\ \A p \in r + 1 .. n : Len(s[p].sent) > 1 => q < p
    BY <1>1, <1>6, Zenon DEF Own
  <2>2. q \in r .. k /\ q \in 1 .. n
    BY <1>2, <2>1
  <2>3. t[q].status = s[q].status
    BY <1>3, <2>2, Zenon
  <2>4. ASSUME NEW p \in r + 1 .. k, Len(t[p].sent) > 1 PROVE q < p
    <3>1. CASE p \in r + 1 .. n
      <4>1. p \in 1 .. n
        BY <1>2, <3>1
      <4>2. Len(s[p].sent) > 1
        BY <1>3, <2>4, <4>1, Zenon
      <4>3. QED
        BY <2>1, <3>1, <4>2, Zenon
    <3>2. CASE p \notin r + 1 .. n
      BY <1>2, <2>1, <3>2
    <3>3. QED
      BY <3>1, <3>2
  <2>5. QED
    BY <1>1, <2>1, <2>2, <2>3, <2>4, Zenon DEF Own
<1>7. Own(t, r) = Own(s, r)
  BY <1>5, <1>6, Zenon
<1>8. QED
  BY <1>6, <1>7, Zenon DEF Given

\* Nor does it for what is stored, if nothing is stored of it.
LEMMA StatusLater ==
    ASSUME NEW s, NEW t, Later(s, t), NEW f, StatusRight(f, s),
           Len(t) = Len(s) \/ Stored(f, s, Len(s))
    PROVE  StatusRight(f, t)
<1>1. PICK n : n = Len(s)
  OBVIOUS
<1>2. n \in Nat /\ Len(t) \in {n, n + 1}
  BY <1>1, Zenon DEF Later
<1>3. \A q \in 1 .. n : t[q].pos = s[q].pos /\ t[q].sent = s[q].sent
  BY <1>1, Zenon DEF Later
<1>4. \A pos : \A k \in 0 .. n : Count(t, k, pos) = Count(s, k, pos)
  <2>1. SameSent(s, t, n)
    BY <1>2, <1>3, Zenon DEF SameSent
  <2>2. SameCounts(s, t, n)
    BY <2>1, CountsAlike, Zenon
  <2>3. QED
    BY <2>2, Zenon DEF SameCounts
<1>5. SUFFICES ASSUME NEW pos \in Places, NEW r \in 1 .. Len(t),
                      Gave(t, r, pos), Count(t, r, pos) <= Len(f[pos])
               PROVE  Given(t, r, f[pos][Count(t, r, pos)].status)
  BY Zenon DEF StatusRight
<1>6. CASE r \in 1 .. n
  <2>1. r \in 0 .. n
    BY <1>2, <1>6
  <2>2. Gave(s, r, pos) /\ Count(t, r, pos) = Count(s, r, pos)
    BY <1>3, <1>4, <1>5, <1>6, <2>1, Zenon DEF Gave
  <2>3. Given(s, r, f[pos][Count(s, r, pos)].status)
    BY <1>1, <1>5, <1>6, <2>2, Zenon DEF StatusRight
  <2>4. QED
    BY <1>1, <1>6, <2>2, <2>3, OwnLater, Zenon
<1>7. CASE r \notin 1 .. n
  <2>1. r = n + 1 /\ Len(t) # n
    BY <1>2, <1>7
  <2>2. Len(f[pos]) = Count(s, n, pos)
    BY <1>1, <1>5, <2>1, Zenon DEF Stored
  <2>3. n \in 0 .. n
    BY <1>2
  <2>4. Count(t, n, pos) = Count(s, n, pos) /\ Count(t, n, pos) \in Nat
    BY <1>2, <1>4, <2>3, CountIs, Zenon
  <2>5. Count(t, n + 1, pos) = Count(t, n, pos) + 1
    BY <1>2, <1>5, <2>1, CountIs, Zenon
  <2>6. QED
    BY <1>5, <2>1, <2>2, <2>4, <2>5
<1>8. QED
  BY <1>6, <1>7

\* The last stream stays the last one.
LEMMA LastLater ==
    ASSUME NEW s, NEW t, Len(s) \in Nat,
           \A q \in 1 .. Len(s) : t[q].pos = s[q].pos /\ t[q].sent = s[q].sent,
           NEW n \in 0 .. Len(s), NEW last, LastFlux(s, n, last)
    PROVE  LastFlux(t, n, last)
<1>1. \A pos : \A k \in 0 .. Len(s) : Count(t, k, pos) = Count(s, k, pos)
  <2>1. SameSent(s, t, Len(s))
    BY Zenon DEF SameSent
  <2>2. SameCounts(s, t, Len(s))
    BY <2>1, CountsAlike, Zenon
  <2>3. QED
    BY <2>2, Zenon DEF SameCounts
<1>2. \A r \in 1 .. n : r \in 1 .. Len(s) /\ r \in 0 .. Len(s)
  OBVIOUS
<1>3. CASE last = Nothing /\ \A r \in 1 .. n : ~(Len(s[r].sent) > 1)
  BY <1>2, <1>3, Zenon DEF LastFlux
<1>4. ASSUME NEW r \in 1 .. n, Len(s[r].sent) > 1,
             \A q \in r + 1 .. n : ~(Len(s[q].sent) > 1),
             last = <<s[r].pos, Count(s, r, s[r].pos)>>
      PROVE  LastFlux(t, n, last)
  <2>1. \A q \in r + 1 .. n : q \in 1 .. n
    BY <1>4
  <2>2. \A q \in r + 1 .. n : ~(Len(t[q].sent) > 1)
    BY <1>2, <1>4, <2>1, Zenon
  <2>3. Len(t[r].sent) > 1 /\ t[r].pos = s[r].pos
    BY <1>2, <1>4, Zenon
  <2>4. last = <<t[r].pos, Count(t, r, t[r].pos)>>
    BY <1>1, <1>2, <1>4, <2>3, Zenon
  <2>5. QED
    BY <1>4, <2>2, <2>3, <2>4, Zenon DEF LastFlux
<1>5. QED
  BY <1>3, <1>4, Zenon DEF LastFlux

\* A read that gave no flux leaves the last stream what it was,
LEMMA LastStays ==
    ASSUME NEW s, NEW n \in Nat, NEW last, LastFlux(s, n, last), ~(Len(s[n + 1].sent) > 1)
    PROVE  LastFlux(s, n + 1, last)
<1>1. \A q \in 1 .. n + 1 : q \in 1 .. n \/ q = n + 1
  OBVIOUS
<1>2. CASE last = Nothing /\ \A r \in 1 .. n : ~(Len(s[r].sent) > 1)
  BY <1>1, <1>2, Zenon DEF LastFlux
<1>3. ASSUME NEW r \in 1 .. n, Len(s[r].sent) > 1,
             \A q \in r + 1 .. n : ~(Len(s[q].sent) > 1),
             last = <<s[r].pos, Count(s, r, s[r].pos)>>
      PROVE  LastFlux(s, n + 1, last)
  <2>1. r \in 1 .. n + 1 /\ \A q \in r + 1 .. n + 1 : q \in r + 1 .. n \/ q = n + 1
    BY <1>3
  <2>2. \A q \in r + 1 .. n + 1 : ~(Len(s[q].sent) > 1)
    BY <1>3, <2>1, Zenon
  <2>3. QED
    BY <1>3, <2>1, <2>2, Zenon DEF LastFlux
<1>4. QED
  BY <1>2, <1>3, Zenon DEF LastFlux

\* and one that did is the last now.
LEMMA LastMoves ==
    ASSUME NEW s, NEW n \in Nat, Len(s[n + 1].sent) > 1,
           NEW last, last = <<s[n + 1].pos, Count(s, n + 1, s[n + 1].pos)>>
    PROVE  LastFlux(s, n + 1, last)
<1>1. n + 1 \in 1 .. n + 1 /\ \A q \in (n + 1) + 1 .. n + 1 : FALSE
  OBVIOUS
<1>2. QED
  BY <1>1, Zenon DEF LastFlux

\* A stream is stored with the status "okay", which is right until there is another.
LEMMA StatusGrown ==
    ASSUME NEW p, ParseInv(p), NEW s, NEW n \in Nat, Len(s) = n + 1,
           s[n + 1].pos = <<p.pcyl, p.phead>>, Len(s[n + 1].sent) > 1,
           s[n + 1].status = NoAnswer,
           Stored(p.fifo, s, n), StatusRight(p.fifo, s), NEW x \in Seq(Nat)
    PROVE  StatusRight(Grown(p, x), s)
<1>1. PICK f, g, at : f = p.fifo /\ g = Grown(p, x) /\ at = <<p.pcyl, p.phead>>
  OBVIOUS
<1>2. /\ \A pos \in Places : pos # at => g[pos] = f[pos]
      /\ \A i \in 1 .. Len(f[at]) : g[at][i] = f[at][i]
      /\ g[at][Len(f[at]) + 1].status = ACK_OKAY
  <2>1. OneMore(f, g, at, x)
    BY <1>1, GrownIs, Zenon
  <2>2. QED
    BY <2>1, Zenon DEF OneMore
<1>3. SUFFICES ASSUME NEW pos \in Places, NEW r \in 1 .. n + 1,
                      Gave(s, r, pos), Count(s, r, pos) <= Len(g[pos])
               PROVE  Given(s, r, g[pos][Count(s, r, pos)].status)
  BY <1>1, Zenon DEF StatusRight
<1>4. PICK k, room : k = Count(s, r, pos) /\ room = Len(f[pos])
  OBVIOUS
<1>5. room = Count(s, n, pos) /\ room \in Nat
  <2>1. room = Count(s, n, pos)
    BY <1>1, <1>3, <1>4, Zenon DEF Stored
  <2>2. QED
    BY <2>1, CountIs, Zenon
<1>6. CASE r \in 1 .. n
  <2>1. k \in 1 .. room
    BY <1>3, <1>4, <1>5, <1>6, CountPlace, Zenon
  <2>2. g[pos][k] = f[pos][k]
    <3>1. CASE pos = at
      BY <1>2, <1>4, <2>1, <3>1, Zenon
    <3>2. CASE pos # at
      BY <1>2, <1>3, <3>2, Zenon
    <3>3. QED
      BY <3>1, <3>2
  <2>3. k <= room
    BY <1>5, <2>1
  <2>4. Given(s, r, f[pos][k].status)
    BY <1>1, <1>3, <1>4, <2>3, Zenon DEF StatusRight
  <2>5. QED
    BY <1>4, <2>2, <2>4, Zenon
<1>7. CASE r \notin 1 .. n
  <2>1. r = n + 1
    BY <1>3, <1>7
  <2>2. pos = at
    BY <1>1, <1>3, <2>1, Zenon DEF Gave
  <2>3. k = room + 1
    BY <1>3, <1>4, <1>5, <2>1, CountIs, Zenon
  <2>4. g[pos][k].status = ACK_OKAY
    BY <1>2, <1>4, <2>2, <2>3, Zenon
  <2>5. Own(s, r) = {}
    <3>1. ASSUME NEW q \in Own(s, r) PROVE FALSE
      <4>1. q \in r .. n + 1 /\ s[q].status # NoAnswer
        BY <3>1, Zenon DEF Own
      <4>2. q = n + 1
        BY <2>1, <4>1
      <4>3. QED
        BY <4>1, <4>2, Zenon
    <3>2. QED
      BY <3>1, Zenon
  <2>6. QED
    BY <1>4, <2>4, <2>5, Zenon DEF Given
<1>8. QED
  BY <1>6, <1>7

\* A status goes to the stream stored last.
LEMMA MarkedIs ==
    ASSUME NEW p, ParseInv(p), Len(p.dbuf) >= 2, p.last # Nothing,
           NEW pos \in Places, NEW i \in 1 .. Len(p.fifo[pos])
    PROVE  /\ p.last = <<pos, i>> => Marked(p)[pos][i].status = p.dbuf[2]
           /\ p.last # <<pos, i>> => Marked(p)[pos][i].status = p.fifo[pos][i].status
<1>1. PICK f, g, a, b, v : /\ f = p.fifo /\ g = Marked(p) /\ a = p.last[1] /\ b = p.last[2]
                           /\ v = p.dbuf[2]
  OBVIOUS
<1>2. p.last = <<a, b>> /\ a \in Places
  <2>1. p.last \in Places \X Nat
    BY ParseFields, Zenon DEF ParseInv
  <2>2. QED
    BY <1>1, <2>1
<1>3. f \in [Places -> Seq(FluxType)]
  BY <1>1, ParseFields, Zenon DEF ParseInv
<1>4. PICK old, flux : old = f[pos] /\ flux = old[i]
  OBVIOUS
<1>5. flux \in FluxType /\ i \in DOMAIN old
  <2>1. old \in Seq(FluxType)
    BY <1>3, <1>4, Zenon
  <2>2. QED
    BY <1>1, <1>4, <2>1, LenProperties, ElementOfSeq
<1>6. CASE pos # a
  <2>1. g[pos] = old
    BY <1>1, <1>2, <1>3, <1>4, <1>6, Zenon DEF Marked
  <2>2. p.last # <<pos, i>>
    BY <1>1, <1>6
  <2>3. QED
    BY <1>1, <1>4, <2>1, <2>2, Zenon
<1>7. CASE pos = a
  <2>1. g = [f EXCEPT ![a][b].status = v]
    BY <1>1, Zenon DEF Marked
  <2>2. g[pos] = [old EXCEPT ![b].status = v]
    BY <1>2, <1>3, <1>4, <1>7, <2>1, Zenon
  <2>3. CASE i = b
    <3>1. g[pos][i] = [flux EXCEPT !.status = v]
      BY <1>4, <1>5, <2>2, <2>3, Zenon
    <3>2. g[pos][i].status = v
      BY <1>5, <3>1 DEF FluxType
    <3>3. p.last = <<pos, i>>
      BY <1>2, <1>7, <2>3, Zenon
    <3>4. QED
      BY <1>1, <3>2, <3>3, Zenon
  <2>4. CASE i # b
    <3>1. g[pos][i] = flux
      BY <1>4, <1>5, <2>2, <2>4, Zenon
    <3>2. p.last # <<pos, i>>
      BY <1>1, <2>4
    <3>3. QED
      BY <1>1, <1>4, <3>1, <3>2, Zenon
  <2>5. QED
    BY <2>3, <2>4
<1>8. QED
  BY <1>6, <1>7

\* t is s with a status for the last read.
StatusSet(s, t, st) ==
    /\ Len(t) = Len(s) /\ Len(s) \in Nat
    /\ \A q \in 1 .. Len(s) :
          /\ t[q].pos = s[q].pos /\ t[q].sent = s[q].sent /\ t[q].whole = s[q].whole
          /\ t[q].status = IF q = Len(s) THEN st ELSE s[q].status

\* A status that was asked for belongs to the last read that gave flux, and to no other.
LEMMA OwnSet ==
    ASSUME NEW s, NEW t, NEW st, StatusSet(s, t, st), st # NoAnswer,
           NEW r \in 1 .. Len(s), NEW e \in 1 .. Len(s), Len(s[e].sent) > 1,
           \A q \in e + 1 .. Len(s) : ~(Len(s[q].sent) > 1), r <= e
    PROVE  /\ r = e => Given(t, r, st)
           /\ r # e => \A x : Given(s, r, x) => Given(t, r, x)
<1>1. PICK n : n = Len(s)
  OBVIOUS
<1>2. n \in Nat /\ Len(t) = n /\ r \in 1 .. n /\ e \in 1 .. n
  BY <1>1, Zenon DEF StatusSet
<1>3. \A q \in 1 .. n : /\ t[q].sent = s[q].sent
                        /\ t[q].status = IF q = n THEN st ELSE s[q].status
  BY <1>1, Zenon DEF StatusSet
<1>4. CASE r = e
  <2>1. n \in r .. n /\ n \in 1 .. n
    BY <1>2
  <2>2. ASSUME NEW p \in r + 1 .. n PROVE ~(Len(t[p].sent) > 1)
    <3>1. p \in 1 .. n
      BY <1>2
    <3>2. QED
      BY <1>1, <1>3, <1>4, <3>1, Zenon
  <2>3. t[n].status = st
    BY <1>3, <2>1, Zenon
  <2>4. n \in Own(t, r)
    BY <1>2, <2>1, <2>2, <2>3, Zenon DEF Own
  <2>5. ASSUME NEW p \in Own(t, r) PROVE p <= n
    <3>1. p \in r .. n
      BY <1>2, Zenon DEF Own
    <3>2. QED
      BY <3>1
  <2>6. QED
    BY <1>4, <2>3, <2>4, <2>5, Zenon DEF Given
<1>5. CASE r # e
  <2>1. e \in r + 1 .. n
    BY <1>2, <1>5
  <2>2. ASSUME NEW q \in r .. n, q < e
        PROVE  q \in 1 .. n /\ q # n
    BY <1>2, <2>2
  <2>3. \A p \in r + 1 .. n : p \in 1 .. n
    BY <1>2
  <2>4. ASSUME NEW q \in Own(t, r)
        PROVE  q \in Own(s, r)
    <3>1. /\ q \in r .. n /\ t[q].status # NoAnswer
          /\ \A p \in r + 1 .. n : Len(t[p].sent) > 1 => q < p
      BY <1>2, Zenon DEF Own
    <3>2. \A p \in r + 1 .. n : Len(s[p].sent) > 1 => q < p
      BY <1>3, <2>3, <3>1, Zenon
    <3>3. q < e
      BY <2>1, <3>2, Zenon
    <3>4. s[q].status # NoAnswer
      BY <1>3, <2>2, <3>1, <3>3, Zenon
    <3>5. QED
      BY <1>1, <3>1, <3>2, <3>4, Zenon DEF Own
  <2>5. ASSUME NEW q \in Own(s, r)
        PROVE  q \in Own(t, r) /\ t[q].status = s[q].status
    <3>1. /\ q \in r .. n /\ s[q].status # NoAnswer
          /\ \A p \in r + 1 .. n : Len(s[p].sent) > 1 => q < p
      BY <1>1, Zenon DEF Own
    <3>2. \A p \in r + 1 .. n : Len(t[p].sent) > 1 => q < p
      BY <1>3, <2>3, <3>1, Zenon
    <3>3. q < e
      BY <2>1, <3>1, Zenon
    <3>4. t[q].status = s[q].status
      BY <1>3, <2>2, <3>1, <3>3, Zenon
    <3>5. QED
      BY <1>2, <3>1, <3>2, <3>4, Zenon DEF Own
  <2>6. Own(t, r) = Own(s, r)
    BY <2>4, <2>5, Zenon
  <2>7. QED
    BY <1>5, <2>5, <2>6, Zenon DEF Given
<1>6. QED
  BY <1>4, <1>5

\* So it is stored as the session had it.
LEMMA StatusMarked ==
    ASSUME NEW p, ParseInv(p), Len(p.dbuf) >= 2, NEW s, Len(s) \in Nat,
           Stored(p.fifo, s, Len(s)), LastFlux(s, Len(s), p.last), StatusRight(p.fifo, s),
           p.dbuf[2] # NoAnswer, NEW t, StatusSet(s, t, p.dbuf[2])
    PROVE  StatusRight(IF p.last # Nothing THEN Marked(p) ELSE p.fifo, t)
<1>1. PICK n, st, f : n = Len(s) /\ st = p.dbuf[2] /\ f = p.fifo
  OBVIOUS
<1>2. n \in Nat /\ Len(t) = n /\ \A q \in 1 .. n : t[q].pos = s[q].pos /\ t[q].sent = s[q].sent
  BY <1>1, Zenon DEF StatusSet
<1>3. \A pos : \A k \in 0 .. n : Count(t, k, pos) = Count(s, k, pos)
  <2>1. SameSent(s, t, n)
    BY <1>2, Zenon DEF SameSent
  <2>2. SameCounts(s, t, n)
    BY <2>1, CountsAlike, Zenon
  <2>3. QED
    BY <2>2, Zenon DEF SameCounts
<1>4. ASSUME NEW pos \in Places, NEW r \in 1 .. n, Gave(t, r, pos)
      PROVE  Gave(s, r, pos) /\ Count(t, r, pos) = Count(s, r, pos) /\ Len(s[r].sent) > 1
  <2>1. r \in 0 .. n
    BY <1>2
  <2>2. QED
    BY <1>2, <1>3, <1>4, <2>1, Zenon DEF Gave
<1>5. CASE p.last = Nothing /\ \A r \in 1 .. n : ~(Len(s[r].sent) > 1)
  <2>1. \A pos \in Places : \A r \in 1 .. n : ~Gave(t, r, pos)
    BY <1>4, <1>5, Zenon
  <2>2. QED
    BY <1>2, <2>1, Zenon DEF StatusRight
<1>6. ASSUME NEW e \in 1 .. n, Len(s[e].sent) > 1,
             \A q \in e + 1 .. n : ~(Len(s[q].sent) > 1),
             p.last = <<s[e].pos, Count(s, e, s[e].pos)>>
      PROVE  p.last # Nothing /\ StatusRight(Marked(p), t)
  <2>1. p.last # Nothing
    BY <1>6 DEF Nothing
  <2>2. SUFFICES ASSUME NEW pos \in Places, NEW r \in 1 .. n, Gave(t, r, pos)
                 PROVE  Given(t, r, Marked(p)[pos][Count(t, r, pos)].status)
    BY <1>2, <2>1, Zenon DEF StatusRight
  <2>3. PICK k : k = Count(s, r, pos)
    OBVIOUS
  <2>4. Gave(s, r, pos) /\ Count(t, r, pos) = k /\ Len(s[r].sent) > 1
    BY <1>4, <2>2, <2>3, Zenon
  <2>5. r <= e
    <3> SUFFICES ASSUME ~(r <= e) PROVE FALSE
      OBVIOUS
    <3>1. r \in e + 1 .. n
      BY <1>2
    <3>2. QED
      BY <1>6, <2>4, <3>1, Zenon
  <2>6. k \in 1 .. Len(f[pos]) /\ k <= Len(f[pos])
    <3>1. Len(f[pos]) = Count(s, n, pos)
      BY <1>1, Zenon DEF Stored
    <3>2. k \in 1 .. Count(s, n, pos)
      BY <1>2, <2>2, <2>3, <2>4, CountPlace, Zenon
    <3>3. Count(s, n, pos) \in Nat
      BY <1>2, CountIs, Zenon
    <3>4. QED
      BY <3>1, <3>2, <3>3
  <2>7. /\ p.last = <<pos, k>> => Marked(p)[pos][k].status = st
        /\ p.last # <<pos, k>> => Marked(p)[pos][k].status = f[pos][k].status
    BY <1>1, <2>1, <2>6, MarkedIs, Zenon
  <2>8. /\ r = e => Given(t, r, st)
        /\ r # e => \A x : Given(s, r, x) => Given(t, r, x)
    BY <1>1, <1>6, <2>5, OwnSet, Zenon
  <2>9. CASE r = e
    <3>1. p.last = <<pos, k>>
      BY <1>6, <2>3, <2>4, <2>9, Zenon DEF Gave
    <3>2. QED
      BY <2>4, <2>7, <2>8, <2>9, <3>1, Zenon
  <2>10. CASE r # e
    <3>1. p.last # <<pos, k>>
      <4> SUFFICES ASSUME p.last = <<pos, k>> PROVE FALSE
        OBVIOUS
      <4>1. s[e].pos = pos /\ Count(s, e, s[e].pos) = k
        BY <1>6
      <4>2. Gave(s, e, pos)
        BY <1>6, <4>1, Zenon DEF Gave
      <4>3. r < e /\ e \in Nat /\ r \in 1 .. e
        BY <1>2, <2>5, <2>10
      <4>4. k < Count(s, e, pos)
        BY <2>3, <2>4, <4>2, <4>3, CountPlace, Zenon
      <4>5. k \in Nat
        BY <2>6
      <4>6. QED
        BY <4>1, <4>4, <4>5
    <3>2. Given(s, r, f[pos][k].status)
      BY <1>1, <2>3, <2>4, <2>6, Zenon DEF StatusRight
    <3>3. QED
      BY <2>4, <2>7, <2>8, <2>10, <3>1, <3>2, Zenon
  <2>11. QED
    BY <2>9, <2>10
<1>7. QED
  <2>1. CASE p.last = Nothing /\ \A r \in 1 .. n : ~(Len(s[r].sent) > 1)
    BY <1>1, <1>5, <2>1, Zenon
  <2>2. CASE \E e \in 1 .. n : /\ Len(s[e].sent) > 1 /\ \A q \in e + 1 .. n : ~(Len(s[q].sent) > 1)
                               /\ p.last = <<s[e].pos, Count(s, e, s[e].pos)>>
    BY <1>6, <2>2, Zenon
  <2>3. QED
    BY <1>1, <2>1, <2>2, Zenon DEF LastFlux

-----------------------------------------------------------------------------
(* What the log tells of the reads.                                        *)

\* No stream holds the byte that a GET_FLUX_STATUS is answered with.
NoStatusByte(s) ==
    \A r \in 1 .. Len(s) : \A i \in 1 .. Len(s[r].sent) : s[r].sent[i] # CMD_GET_FLUX_STATUS

\* The stored streams f have their status, and the stream stored last is the last one.
Knows(f, last, s) ==
    /\ StatusRight(f, s) /\ NoStatusByte(s)
    /\ AllWhole(s, Len(s)) => LastFlux(s, Len(s), last)

\* The last read is still to be stored and to be given a status.
Open(v, s) ==
    s[Len(s)].status = NoAnswer /\ StatusRight(v.fifo, s) /\ LastFlux(s, Len(s) - 1, v.last)

\* While an answer is awaited: it is no stream, or else the read's own refusal, or the
\* status of the stream stored last, of which the whole is then stored.
Marking(at, v, s, l) ==
    /\ at \in {"info_ack", "info", "seek_ack", "head_ack"} =>
          v.pcmd # Nothing /\ v.pcmd[1] \notin {CMD_READ_FLUX, CMD_GET_FLUX_STATUS}
    /\ at = "info_ack" => l[3] # CMD_GET_FLUX_STATUS
    /\ at = "info" => l[1] # CMD_GET_FLUX_STATUS
    /\ at = "read_ack" => v.pcmd = ReadFrame /\ v.dbuf = Nothing /\ l[1] = CMD_READ_FLUX
    /\ at = "status_ack" =>
          /\ v.pcmd = <<CMD_GET_FLUX_STATUS, 2>> /\ v.dbuf = Nothing /\ Len(s) > 0
          /\ l[1] = CMD_GET_FLUX_STATUS => AllWhole(s, Len(s)) /\ Stored(v.fifo, s, Len(s))

\* What v tells of the reads s while the host is at a place in its session and l is unread.
Telling(at, v, s, l) ==
    /\ Knows(ResolvedFifo(v), v.last, s)
    /\ Reading(v, s, l) => Open(v, s)
    /\ Marking(at, v, s, l)

\* Where the host waits for an answer to a command it has logged.
Awaiting == {"info_ack", "info", "seek_ack", "head_ack", "read_ack", "status_ack"}

\* Elsewhere no status is on its way.
LEMMA NoMarking ==
    ASSUME NEW at, at \notin Awaiting, NEW v, NEW s, NEW l
    PROVE  Marking(at, v, s, l)
  BY Zenon DEF Awaiting, Marking

\* What is no stream and no status changes nothing.
LEMMA NothingResolved ==
    ASSUME NEW v,
           \/ ~Fits(v)
           \/ v.pcmd[1] \notin {CMD_READ_FLUX, CMD_GET_FLUX_STATUS}
           \/ v.pcmd[1] = CMD_READ_FLUX /\ ~Okay(v)
    PROVE  ResolvedFifo(v) = v.fifo
<1>1. CMD_READ_FLUX # CMD_GET_FLUX_STATUS
  BY DEF CMD_READ_FLUX, CMD_GET_FLUX_STATUS
<1>2. QED
  BY <1>1, Zenon DEF ResolvedFifo

\* nor one of no bytes.
LEMMA EmptyUnfit ==
    ASSUME NEW v, v.dbuf = Nothing
    PROVE  ~Fits(v) /\ ResolvedFifo(v) = v.fifo
<1>1. ~(Len(v.dbuf) >= 2)
  BY EmptySeq DEF Nothing
<1>2. QED
  BY <1>1, NothingResolved, Zenon DEF Fits

\* A parser that resolves nothing keeps the last stream it has stored.
LEMMA MuteLast ==
    ASSUME NEW v, Mute(v)
    PROVE  ResolvedLast(v) = v.last
  BY Zenon DEF Mute, Quiet, ResolvedLast, Fits, Okay

\* Between reads there is no answer with a stream.
LEMMA NotReading ==
    ASSUME NEW v, NEW s, Len(s) \in Nat, NEW l,
           AllWhole(s, Len(s)) \/ v.pcmd # ReadFrame
    PROVE  ~Reading(v, s, l)
<1> SUFFICES ASSUME Reading(v, s, l) PROVE FALSE
  OBVIOUS
<1>1. Len(s) > 0 /\ ~s[Len(s)].whole /\ v.pcmd = ReadFrame
  BY Zenon DEF Reading
<1>2. Len(s) \in 1 .. Len(s)
  BY <1>1
<1>3. QED
  BY <1>1, <1>2, Zenon DEF AllWhole

\* A command that is no READ_FLUX leaves the reads as they are told.
LEMMA TellsCommand ==
    ASSUME NEW at, NEW v, Mute(v), NEW s, Len(s) \in Nat, NEW l, Telling(at, v, s, l),
           NEW frame, NEW w, Commanded(v, frame, w),
           frame # ReadFrame \/ AllWhole(s, Len(s)),
           NEW next, NEW m, Marking(next, w, s, m)
    PROVE  Telling(next, w, s, m) /\ StatusRight(ResolvedFifo(v), s)
<1>1. /\ w.pcmd = frame /\ w.dbuf = Nothing
      /\ w.fifo = ResolvedFifo(v) /\ w.last = ResolvedLast(v)
  BY Zenon DEF Commanded
<1>2. ResolvedFifo(w) = ResolvedFifo(v) /\ w.last = v.last
  BY <1>1, EmptyUnfit, MuteLast, Zenon
<1>3. ~Reading(w, s, m)
  BY <1>1, NotReading, Zenon
<1>4. Knows(ResolvedFifo(v), v.last, s)
  BY Zenon DEF Telling
<1>5. QED
  BY <1>2, <1>3, <1>4, Zenon DEF Telling, Knows

\* An accepted READ_FLUX opens a read,
LEMMA TellsRead ==
    ASSUME NEW v, ParseInv(v), NEW s, ReadsInv(s), Good(v, s),
           NEW at, NEW l, Telling(at, v, s, l), NEW w, Commanded(v, ReadFrame, w),
           NEW x \in Seq(Nat), \A i \in 1 .. Len(x) : x[i] # CMD_GET_FLUX_STATUS,
           NEW read, read.sent = x, read.whole = FALSE, read.status = NoAnswer,
           NEW t, OneRead(s, t, read), NEW m, m[1] = CMD_READ_FLUX
    PROVE  Telling("read_ack", w, t, m) /\ StatusRight(ResolvedFifo(v), t)
<1>1. /\ w.pcmd = ReadFrame /\ w.dbuf = Nothing
      /\ w.fifo = ResolvedFifo(v) /\ w.last = ResolvedLast(v)
  BY Zenon DEF Commanded
<1>2. Mute(v) /\ AllWhole(s, Len(s)) /\ Good(w, s)
  BY SeenCommand, Zenon DEF Good
<1>3. ResolvedFifo(w) = w.fifo /\ w.last = v.last
  BY <1>1, <1>2, EmptyUnfit, MuteLast, Zenon
<1>4. PICK n : n = Len(s)
  OBVIOUS
<1>5. /\ n \in Nat /\ Len(t) = n + 1 /\ t[n + 1] = read
      /\ \A i \in 1 .. n : t[i] = s[i]
  BY <1>4, Zenon DEF OneRead
<1>6. Later(s, t)
  <2>1. Len(t) \in {n, n + 1}
    BY <1>5
  <2>2. QED
    BY <1>4, <1>5, <2>1, Zenon DEF Later
<1>7. Knows(ResolvedFifo(v), v.last, s)
  BY Zenon DEF Telling
<1>8. StatusRight(w.fifo, t)
  <2>1. StatusRight(w.fifo, s)
    BY <1>1, <1>7, Zenon DEF Knows
  <2>2. Stored(w.fifo, s, Len(s))
    BY <1>2, Zenon DEF Good
  <2>3. QED
    BY <1>6, <2>1, <2>2, StatusLater, Zenon
<1>9. NoStatusByte(t)
  <2>1. ASSUME NEW r \in 1 .. n + 1
        PROVE  \A i \in 1 .. Len(t[r].sent) : t[r].sent[i] # CMD_GET_FLUX_STATUS
    <3>1. CASE r = n + 1
      BY <1>5, <3>1, Zenon
    <3>2. CASE r # n + 1
      <4>1. r \in 1 .. n
        BY <1>5, <3>2
      <4>2. QED
        BY <1>4, <1>5, <1>7, <4>1, Zenon DEF Knows, NoStatusByte
    <3>3. QED
      BY <3>1, <3>2
  <2>2. QED
    BY <1>5, <2>1, Zenon DEF NoStatusByte
<1>10. n + 1 \in 1 .. n + 1 /\ (n + 1) - 1 = n
  BY <1>5
<1>11. ~AllWhole(t, Len(t))
  BY <1>5, <1>10, Zenon DEF AllWhole
<1>12. LastFlux(t, n, w.last)
  <2>1. LastFlux(s, n, w.last)
    BY <1>2, <1>3, <1>4, <1>7, Zenon DEF Knows
  <2>2. n \in 0 .. Len(s)
    BY <1>4, <1>5
  <2>3. \A q \in 1 .. Len(s) : t[q].pos = s[q].pos /\ t[q].sent = s[q].sent
    BY <1>4, <1>5, Zenon
  <2>4. QED
    BY <1>4, <1>5, <2>1, <2>2, <2>3, LastLater, Zenon
<1>13. Open(w, t)
  BY <1>5, <1>8, <1>10, <1>12, Zenon DEF Open
<1>14. Marking("read_ack", w, t, m)
  BY <1>1, Zenon DEF Marking
<1>15. QED
  BY <1>1, <1>3, <1>8, <1>9, <1>11, <1>13, <1>14, Zenon DEF Telling, Knows


\* What is stored of an open read is stored with the status "okay".
LEMMA ReadingStatus ==
    ASSUME NEW v, ParseInv(v), NEW s, ReadsInv(s), NEW l \in Seq(Nat), Reading(v, s, l),
           s[Len(s)].status = NoAnswer, StatusRight(v.fifo, s)
    PROVE  StatusRight(ResolvedFifo(v), s)
<1>1. PICK n, x : n = Len(s) - 1 /\ x = s[n + 1].sent
  OBVIOUS
<1>2. /\ n \in Nat /\ n + 1 = Len(s) /\ n + 1 \in 1 .. Len(s)
      /\ x \in Seq(Nat) /\ Len(x) > 0 /\ Closed(x)
      /\ v.pcmd # Nothing /\ v.pcmd[1] = CMD_READ_FLUX
      /\ v.dbuf \in Seq(Nat) /\ Len(v.dbuf) \in Nat
      /\ Len(v.dbuf) + Len(l) = 2 + Len(x)
      /\ Len(v.dbuf) >= 2 => /\ Fits(v) /\ Okay(v) /\ Came(Body(v), l, x)
  BY <1>1, ReadingCame, Zenon
<1>3. Stored(v.fifo, s, n) /\ s[n + 1].pos = <<v.pcyl, v.phead>> /\ s[n + 1].status = NoAnswer
  BY <1>1, <1>2, Zenon DEF Reading
<1>4. PICK body, stream : body = Body(v) /\ stream = Stream(body)
  OBVIOUS
<1>5. CMD_READ_FLUX # CMD_GET_FLUX_STATUS
  BY DEF CMD_READ_FLUX, CMD_GET_FLUX_STATUS
<1>6. CASE ~(Fits(v) /\ Len(stream) > 1)
  <2>1. ResolvedFifo(v) = v.fifo
    BY <1>2, <1>4, <1>5, <1>6, Zenon DEF ResolvedFifo
  <2>2. QED
    BY <2>1, Zenon
<1>7. CASE Fits(v) /\ Len(stream) > 1
  <2>1. Came(body, l, x) /\ ResolvedFifo(v) = Grown(v, stream)
    BY <1>2, <1>4, <1>7, Zenon DEF Fits, ResolvedFifo
  <2>2. body \in Seq(Nat)
    BY <2>1, Zenon DEF Came
  <2>3. stream \in Seq(Nat)
    BY <1>4, <2>2, StreamClosed, Zenon
  <2>4. Len(x) > 1
    <3>1. CASE l = Nothing
      <4>1. body = x
        BY <1>2, <2>1, <3>1, AllCame, Zenon
      <4>2. stream = x
        BY <1>2, <1>4, <4>1, ClosedStream, Zenon
      <4>3. QED
        BY <1>7, <4>2, Zenon
    <3>2. CASE l # Nothing
      <4>1. stream = Append(body, 0)
        BY <1>2, <1>4, <2>1, <3>2, SomeCame, Zenon
      <4>2. PICK m, k : m = Len(body) /\ k = Len(l)
        OBVIOUS
      <4>3. m + k = Len(x)
        BY <2>1, <4>2, Zenon DEF Came
      <4>4. m \in Nat /\ k \in Nat /\ k # 0
        BY <2>2, <3>2, <4>2, LenProperties, EmptySeq DEF Nothing
      <4>5. Len(stream) = m + 1
        BY <2>2, <4>1, <4>2, AppendProperties
      <4>6. QED
        BY <1>7, <4>3, <4>4, <4>5
    <3>3. QED
      BY <3>1, <3>2
  <2>5. Len(s) = n + 1 /\ Len(s[n + 1].sent) > 1
    BY <1>1, <1>2, <2>4, Zenon
  <2>6. StatusRight(Grown(v, stream), s)
    BY <1>2, <1>3, <2>3, <2>5, StatusGrown, Zenon
  <2>7. QED
    BY <2>1, <2>6, Zenon
<1>8. QED
  BY <1>6, <1>7

\* When all of it has come, it is the last stream if it has flux.
LEMMA ReadingLast ==
    ASSUME NEW v, ParseInv(v), NEW s, ReadsInv(s), NEW l \in Seq(Nat), Reading(v, s, l),
           LastFlux(s, Len(s) - 1, v.last)
    PROVE  l = Nothing => LastFlux(s, Len(s), ResolvedLast(v))
<1>1. PICK n, x : n = Len(s) - 1 /\ x = s[n + 1].sent
  OBVIOUS
<1>2. /\ n \in Nat /\ n + 1 = Len(s) /\ n + 1 \in 1 .. Len(s)
      /\ x \in Seq(Nat) /\ Len(x) > 0 /\ Closed(x)
      /\ v.pcmd # Nothing /\ v.pcmd[1] = CMD_READ_FLUX
      /\ Len(v.dbuf) \in Nat /\ Len(v.dbuf) + Len(l) = 2 + Len(x)
      /\ Len(v.dbuf) >= 2 => /\ Fits(v) /\ Okay(v) /\ Came(Body(v), l, x)
  BY <1>1, ReadingCame, Zenon
<1> SUFFICES ASSUME l = Nothing PROVE LastFlux(s, Len(s), ResolvedLast(v))
  OBVIOUS
<1>3. Len(l) = 0
  BY EmptySeq DEF Nothing
<1>4. PICK pos : pos = s[n + 1].pos
  OBVIOUS
<1>5. Stored(v.fifo, s, n) /\ pos = <<v.pcyl, v.phead>>
  BY <1>1, <1>2, <1>4, Zenon DEF Reading
<1>6. Len(v.dbuf) >= 2
  <2>1. Len(x) \in Nat
    BY <1>2, LenProperties
  <2>2. QED
    BY <1>3, <1>2, <2>1
<1>7. Fits(v) /\ Okay(v) /\ Stream(Body(v)) = x
  <2>1. Body(v) = x
    BY <1>2, <1>6, AllCame, Zenon
  <2>2. QED
    BY <1>2, <1>6, <2>1, ClosedStream, Zenon
<1>8. CASE Len(x) > 1
  <2>1. ResolvedLast(v) = <<pos, Len(v.fifo[pos]) + 1>>
    BY <1>2, <1>5, <1>7, <1>8, Zenon DEF ResolvedLast, GrownLast
  <2>2. pos \in Places
    BY <1>2, <1>4, Zenon DEF ReadsInv
  <2>3. Len(v.fifo[pos]) = Count(s, n, pos)
    BY <1>5, <2>2, Zenon DEF Stored
  <2>4. Gave(s, n + 1, pos)
    BY <1>1, <1>4, <1>8, Zenon DEF Gave
  <2>5. Count(s, n + 1, pos) = Count(s, n, pos) + 1
    BY <1>2, <2>4, CountIs, Zenon
  <2>6. ResolvedLast(v) = <<s[n + 1].pos, Count(s, n + 1, s[n + 1].pos)>>
    BY <1>4, <2>1, <2>3, <2>5, Zenon
  <2>7. LastFlux(s, n + 1, ResolvedLast(v))
    BY <1>1, <1>2, <1>8, <2>6, LastMoves, Zenon
  <2>8. QED
    BY <1>2, <2>7, Zenon
<1>9. CASE ~(Len(x) > 1)
  <2>1. ResolvedLast(v) = v.last
    BY <1>7, <1>9, Zenon DEF ResolvedLast
  <2>2. LastFlux(s, n + 1, v.last)
    BY <1>1, <1>2, <1>9, LastStays, Zenon
  <2>3. QED
    BY <1>2, <2>1, <2>2, Zenon
<1>10. QED
  BY <1>8, <1>9

\* The bytes still to come are no status.
LEMMA ReadingByte ==
    ASSUME NEW v, ParseInv(v), NEW s, ReadsInv(s), NoStatusByte(s),
           NEW l \in Seq(Nat), Reading(v, s, l), Len(v.dbuf) >= 2, l # Nothing
    PROVE  l[1] # CMD_GET_FLUX_STATUS
<1>1. PICK n, x, body : n = Len(s) - 1 /\ x = s[n + 1].sent /\ body = Body(v)
  OBVIOUS
<1>2. n + 1 \in 1 .. Len(s) /\ Came(body, l, x)
  BY <1>1, ReadingCame, Zenon
<1>3. PICK m, k, z : m = Len(body) /\ k = Len(l) /\ z = Len(x)
  OBVIOUS
<1>4. body \in Seq(Nat) /\ m + k = z /\ \A j \in 1 .. k : l[j] = x[m + j]
  BY <1>2, <1>3, Zenon DEF Came
<1>5. m \in Nat /\ k \in Nat /\ k # 0
  BY <1>3, <1>4, LenProperties, EmptySeq DEF Nothing
<1>6. 1 \in 1 .. k /\ m + 1 \in 1 .. z
  BY <1>4, <1>5
<1>7. l[1] = x[m + 1]
  BY <1>4, <1>6, Zenon
<1>8. QED
  BY <1>1, <1>2, <1>3, <1>6, <1>7, Zenon DEF NoStatusByte

\* The reads have the status they had.
SameStatus(s, t) == \A q \in 1 .. Len(s) : t[q].status = s[q].status

\* and GET_FLUX_STATUS ends it.
LEMMA TellsEnd ==
    ASSUME NEW d, NEW sound, NEW v, NEW s, NEW l, Situation("status", v, s, l, d, sound),
           Telling("status", v, s, l), NEW w, Commanded(v, <<CMD_GET_FLUX_STATUS, 2>>, w),
           NEW t, Ended(s, t, l = Nothing), SameStatus(s, t),
           NEW st \in Nat, NEW m, m = l \o <<CMD_GET_FLUX_STATUS, st>>
    PROVE  Telling("status_ack", w, t, m) /\ StatusRight(ResolvedFifo(v), t)
<1>1. /\ ParseInv(v) /\ ReadsInv(s) /\ l \in Seq(Nat)
      /\ Reading(v, s, l) /\ Len(v.dbuf) >= 2
  BY Zenon DEF Situation, Right, Going, Astray
<1>2. Knows(ResolvedFifo(v), v.last, s) /\ Open(v, s)
  BY <1>1, Zenon DEF Telling
<1>3. /\ w.pcmd = <<CMD_GET_FLUX_STATUS, 2>> /\ w.dbuf = Nothing
      /\ w.fifo = ResolvedFifo(v) /\ w.last = ResolvedLast(v)
  BY Zenon DEF Commanded
<1>4. PICK frame : frame = <<CMD_GET_FLUX_STATUS, 2>>
  OBVIOUS
<1>5. frame[1] # CMD_READ_FLUX /\ frame # ReadFrame
  BY <1>4 DEF CMD_GET_FLUX_STATUS, CMD_READ_FLUX, ReadFrame
<1>6. Later(s, t)
  <2>1. Len(t) = Len(s) /\ Len(s) \in Nat
    BY Zenon DEF Ended
  <2>2. Len(t) \in {Len(s), Len(s) + 1} /\ Len(t) # Len(s) + 1
    BY <2>1
  <2>3. QED
    BY <2>1, <2>2, Zenon DEF Later, Ended, SameStatus
<1>7. Len(t) = Len(s) /\ \A q \in 1 .. Len(s) : t[q].pos = s[q].pos /\ t[q].sent = s[q].sent
  BY Zenon DEF Ended
<1>8. StatusRight(w.fifo, t)
  BY <1>2, <1>3, <1>6, <1>7, StatusLater, Zenon DEF Knows
<1>9. NoStatusByte(t)
  BY <1>2, <1>7, Zenon DEF Knows, NoStatusByte
<1>10. ASSUME AllWhole(t, Len(t))
       PROVE  l = Nothing
  <2>1. Len(s) \in 1 .. Len(s)
    <3>1. Len(s) \in Nat /\ Len(s) > 0
      BY <1>1, Zenon DEF ReadsInv, Reading
    <3>2. QED
      BY <3>1
  <2>2. QED
    BY <1>7, <1>10, <2>1, Zenon DEF AllWhole, Ended
<1>11. AllWhole(t, Len(t)) => LastFlux(t, Len(t), w.last)
  <2> SUFFICES ASSUME AllWhole(t, Len(t)) PROVE LastFlux(t, Len(t), w.last)
    OBVIOUS
  <2>1. LastFlux(s, Len(s), w.last)
    BY <1>1, <1>2, <1>3, <1>10, ReadingLast, Zenon DEF Open
  <2>2. Len(s) \in Nat
    BY <1>1, Zenon DEF ReadsInv
  <2>3. Len(s) \in 0 .. Len(s)
    BY <2>2
  <2>4. QED
    BY <1>7, <2>1, <2>2, <2>3, LastLater, Zenon
<1>12. ~Reading(w, t, m)
  <2>1. Len(t) \in Nat
    BY <1>1, <1>7, Zenon DEF ReadsInv
  <2>2. QED
    BY <1>3, <1>4, <1>5, <2>1, NotReading, Zenon
<1>13. m[1] = CMD_GET_FLUX_STATUS => l = Nothing
  <2> SUFFICES ASSUME l # Nothing PROVE m[1] # CMD_GET_FLUX_STATUS
    OBVIOUS
  <2>1. l[1] # CMD_GET_FLUX_STATUS
    BY <1>1, <1>2, ReadingByte, Zenon DEF Knows
  <2>2. m[1] = l[1]
    <3>1. WithTwo(m, l, Len(l), CMD_GET_FLUX_STATUS, st)
      BY <1>1, Codes, TwoMore, Zenon
    <3>2. 1 \in 1 .. Len(l)
      BY <1>1, LenProperties, EmptySeq DEF Nothing
    <3>3. QED
      BY <3>1, <3>2, Zenon DEF WithTwo
  <2>3. QED
    BY <2>1, <2>2, Zenon
<1>14. l = Nothing => AllWhole(t, Len(t)) /\ Stored(w.fifo, t, Len(t))
  BY <1>1, <1>4, <1>5, SeenEnd, Zenon DEF Good
<1>15. Marking("status_ack", w, t, m)
  <2>1. Len(t) > 0
    BY <1>1, <1>7, Zenon DEF Reading
  <2>2. "status_ack" \notin {"info_ack", "info", "seek_ack", "head_ack"}
    OBVIOUS
  <2>3. QED
    BY <1>3, <1>13, <1>14, <2>1, <2>2, Zenon DEF Marking
<1>16. ResolvedFifo(w) = w.fifo
  BY <1>3, EmptyUnfit, Zenon
<1>17. QED
  BY <1>3, <1>8, <1>9, <1>11, <1>12, <1>15, <1>16, Zenon DEF Telling, Knows


\* The host's reads of l, and what is left of it.
Receiving == {"info_ack", "info", "seek_ack", "head_ack", "read_ack", "first", "rest", "status_ack"}

\* The first bytes of l, and that the others follow them.
LEMMA RestOf ==
    ASSUME NEW l \in Seq(Nat), NEW m \in 0 .. Len(l), NEW a, a = SubSeq(l, 1, m)
    PROVE  a \in Seq(Nat) /\ Len(a) = m /\ \E r \in Seq(Nat) : a \o r = l
<1>1. a \in Seq(Nat) /\ Len(a) = m
  BY FirstBytes, Zenon
<1>2. CASE m = 0
  <2>1. a = << >>
    BY <1>1, <1>2, EmptySeq
  <2>2. a \o l = l
    BY <2>1, ConcatEmptySeq
  <2>3. QED
    BY <1>1, <2>2, Zenon
<1>3. CASE m # 0
  <2>1. m \in 1 .. Len(l)
    BY <1>3
  <2>2. PICK r : r = SubSeq(l, m + 1, Len(l))
    OBVIOUS
  <2>3. Without(r, l, m)
    BY <2>1, <2>2, LineSplit, Zenon
  <2>4. a \o r = l
    BY <2>1, <2>2, LineSplit
  <2>5. QED
    BY <1>1, <2>3, <2>4, Zenon DEF Without
<1>4. QED
  BY <1>2, <1>3

\* A parser with no answer yet has a for one, and nothing else changes.
FromNothing(v, a, w) ==
    /\ ParseInv(w) /\ w.dbuf = a /\ w.pcmd = v.pcmd
    /\ w.fifo = v.fifo /\ w.last = v.last

\* With does that.
LEMMA AfterNothing ==
    ASSUME NEW v, ParseInv(v), v.dbuf = Nothing, NEW a \in Seq(Nat), NEW w, w = With(v, a)
    PROVE  FromNothing(v, a, w)
<1>1. Nothing \o a = a
  BY ConcatEmptySeq DEF Nothing
<1>2. /\ ParseInv(w) /\ w.dbuf = v.dbuf \o a /\ w.pcmd = v.pcmd
      /\ w.fifo = v.fifo /\ w.last = v.last
  BY WithFields, Zenon
<1>3. QED
  BY <1>1, <1>2, Zenon DEF FromNothing

\* Whatever part of what the host reads is in the log, the streams have their status.
LEMMA TellsPart ==
    ASSUME NEW at \in Receiving, NEW v, NEW s, NEW l, NEW d, NEW sound,
           Situation(at, v, s, l, d, sound), Telling(at, v, s, l),
           NEW m \in 0 .. Len(l), at = "status_ack" => m < 2
    PROVE  StatusRight(ResolvedFifo(With(v, SubSeq(l, 1, m))), s)
<1>1. ParseInv(v) /\ ReadsInv(s) /\ l \in Seq(Nat)
  BY Zenon DEF Situation
<1>2. PICK a, w : a = SubSeq(l, 1, m) /\ w = With(v, a)
  OBVIOUS
<1>3. a \in Seq(Nat) /\ Len(a) = m
  BY <1>1, <1>2, RestOf, Zenon
<1>4. PICK r \in Seq(Nat) : a \o r = l
  BY <1>1, <1>2, RestOf, Zenon
<1>5. ParseInv(w) /\ w.pcmd = v.pcmd /\ w.fifo = v.fifo
  BY <1>1, <1>2, <1>3, WithFields, Zenon
<1>6. CASE Reading(v, s, l)
  <2>1. Reading(w, s, r)
    BY <1>1, <1>2, <1>3, <1>4, <1>6, SeenRead, Zenon DEF Seeing
  <2>2. s[Len(s)].status = NoAnswer /\ StatusRight(w.fifo, s)
    BY <1>5, <1>6, Zenon DEF Telling, Open
  <2>3. QED
    BY <1>1, <1>2, <1>5, <2>1, <2>2, ReadingStatus, Zenon
<1>7. ASSUME ~Reading(v, s, l)
      PROVE  ResolvedFifo(v) = v.fifo /\ ResolvedFifo(w) = w.fifo
  <2>1. Marking(at, v, s, l)
    BY Zenon DEF Telling
  <2>2. CASE at \in {"info_ack", "info", "seek_ack", "head_ack"}
    <3>1. v.pcmd[1] \notin {CMD_READ_FLUX, CMD_GET_FLUX_STATUS}
      BY <2>1, <2>2, Zenon DEF Marking
    <3>2. QED
      BY <1>5, <3>1, NothingResolved, Zenon
  <2>3. CASE at = "read_ack"
    <3>1. v.pcmd = ReadFrame /\ v.dbuf = Nothing
      BY <2>1, <2>3, Zenon DEF Marking
    <3>2. l = <<CMD_READ_FLUX, ACK_NO_UNIT>>
      BY <1>7, <2>3 DEF Situation, Right, Going, Astray
    <3>3. w.dbuf = a
      <4>1. FromNothing(v, a, w)
        BY <1>1, <1>2, <1>3, <3>1, AfterNothing, Zenon
      <4>2. QED
        BY <4>1, Zenon DEF FromNothing
    <3>4. w.pcmd[1] = CMD_READ_FLUX
      BY <1>5, <3>1 DEF ReadFrame
    <3>5. CASE m < 2
      <4>1. ~Fits(w)
        BY <1>3, <3>3, <3>5 DEF Fits
      <4>2. QED
        BY <3>1, <4>1, EmptyUnfit, NothingResolved, Zenon
    <3>6. CASE m = 2
      <4>1. a[2] = l[2]
        BY <1>1, <1>2, <3>6
      <4>2. ~Okay(w)
        BY <3>2, <3>3, <4>1 DEF Okay, ACK_OKAY, ACK_NO_UNIT
      <4>3. QED
        BY <3>1, <3>4, <4>2, EmptyUnfit, NothingResolved, Zenon
    <3>7. m < 2 \/ m = 2
      BY <3>2
    <3>8. QED
      BY <3>5, <3>6, <3>7
  <2>4. CASE at = "status_ack"
    <3>1. v.dbuf = Nothing
      BY <2>1, <2>4, Zenon DEF Marking
    <3>2. w.dbuf = a
      <4>1. FromNothing(v, a, w)
        BY <1>1, <1>2, <1>3, <3>1, AfterNothing, Zenon
      <4>2. QED
        BY <4>1, Zenon DEF FromNothing
    <3>3. ~Fits(w)
      BY <1>3, <2>4, <3>2 DEF Fits
    <3>4. QED
      BY <3>1, <3>3, EmptyUnfit, NothingResolved, Zenon
  <2>5. at \notin {"first", "rest"}
    BY <1>7 DEF Situation, Right, Going, Astray
  <2>6. QED
    BY <2>2, <2>3, <2>4, <2>5 DEF Receiving
<1>8. QED
  <2>1. StatusRight(ResolvedFifo(v), s)
    BY Zenon DEF Telling, Knows
  <2>2. QED
    BY <1>2, <1>5, <1>6, <1>7, <2>1, Zenon

\* So they have when the host has gone on,
LEMMA TellsTaken ==
    ASSUME NEW at \in Receiving, at # "status_ack", NEW v, NEW s, NEW l, NEW d, NEW sound,
           Situation(at, v, s, l, d, sound), Telling(at, v, s, l),
           NEW n \in 1 .. Len(l), NEW w, w = With(v, SubSeq(l, 1, n)),
           NEW m, m = SubSeq(l, n + 1, Len(l)), NEW next, Marking(next, w, s, m)
    PROVE  Telling(next, w, s, m)
<1>1. ParseInv(v) /\ ReadsInv(s) /\ l \in Seq(Nat) /\ v.dbuf \in Seq(Nat)
  BY ParseFields, Zenon DEF Situation, ParseInv
<1>2. PICK a : a = SubSeq(l, 1, n)
  OBVIOUS
<1>3. a \in Seq(Nat) /\ m \in Seq(Nat) /\ a \o m = l
  <2>1. a \in Seq(Nat) /\ Without(m, l, n)
    BY <1>1, <1>2, LineSplit, Zenon
  <2>2. a \o m = l
    BY <1>1, <1>2, LineSplit
  <2>3. QED
    BY <2>1, <2>2, Zenon DEF Without
<1>4. /\ w.pcmd = v.pcmd /\ w.pcyl = v.pcyl /\ w.phead = v.phead /\ w.fifo = v.fifo
      /\ w.last = v.last /\ w.dbuf = v.dbuf \o a
  BY <1>1, <1>2, <1>3, WithFields, Zenon
<1>5. Knows(ResolvedFifo(w), w.last, s)
  <2>1. n \in 0 .. Len(l)
    OBVIOUS
  <2>2. StatusRight(ResolvedFifo(w), s)
    BY <2>1, TellsPart, Zenon
  <2>3. QED
    BY <1>4, <2>2, Zenon DEF Telling, Knows
<1>6. ASSUME Reading(w, s, m)
      PROVE  Open(w, s)
  <2>1. v.dbuf \o l = w.dbuf \o m
    <3>1. (v.dbuf \o a) \o m = v.dbuf \o (a \o m)
      BY <1>1, <1>3, Joined, Zenon
    <3>2. QED
      BY <1>3, <1>4, <3>1, Zenon
  <2>2. Reading(v, s, l)
    BY <1>4, <1>6, <2>1, Zenon DEF Reading
  <2>3. QED
    BY <1>4, <2>2, Zenon DEF Telling, Open
<1>7. QED
  BY <1>5, <1>6, Zenon DEF Telling

\* and when a status has been told.
LEMMA TellsStatus ==
    ASSUME NEW v, NEW s, NEW l, NEW d, NEW sound, Situation("status_ack", v, s, l, d, sound),
           Telling("status_ack", v, s, l),
           2 \in 1 .. Len(l), NEW w, w = With(v, SubSeq(l, 1, 2)),
           NEW m, NEW t,
           l[1] = CMD_GET_FLUX_STATUS => StatusSet(s, t, l[2]),
           l[1] # CMD_GET_FLUX_STATUS => t = s
    PROVE  Telling("track", w, t, m)
<1>1. ParseInv(v) /\ ReadsInv(s) /\ l \in Seq(Nat)
  BY Zenon DEF Situation
<1>2. PICK a : a = SubSeq(l, 1, 2)
  OBVIOUS
<1>3. a \in Seq(Nat) /\ Len(a) = 2 /\ a[1] = l[1] /\ a[2] = l[2] /\ l[2] \in Nat
  <2>1. a \in Seq(Nat) /\ Len(a) = 2
    <3>1. 2 \in 0 .. Len(l)
      OBVIOUS
    <3>2. QED
      BY <1>1, <1>2, <3>1, RestOf, Zenon
  <2>2. QED
    BY <1>1, <1>2, <2>1
<1>4. /\ v.pcmd = <<CMD_GET_FLUX_STATUS, 2>> /\ v.dbuf = Nothing
      /\ l[1] = CMD_GET_FLUX_STATUS => AllWhole(s, Len(s)) /\ Stored(v.fifo, s, Len(s))
  BY Zenon DEF Telling, Marking
<1>5. /\ ParseInv(w) /\ w.dbuf = a /\ w.pcmd = v.pcmd
      /\ w.fifo = v.fifo /\ w.last = v.last
  <2>1. w = With(v, a)
    BY <1>2, Zenon
  <2>2. v.dbuf = Nothing
    BY <1>4, Zenon
  <2>3. FromNothing(v, a, w)
    BY <1>1, <1>3, <2>1, <2>2, AfterNothing, Zenon
  <2>4. QED
    BY <2>3, Zenon DEF FromNothing
<1>6. Knows(w.fifo, w.last, s)
  BY <1>4, <1>5, EmptyUnfit, Zenon DEF Telling
<1>7. /\ w.pcmd # Nothing /\ w.pcmd # ReadFrame /\ w.pcmd[1] = CMD_GET_FLUX_STATUS
      /\ CMD_READ_FLUX # CMD_GET_FLUX_STATUS
  BY <1>4, <1>5 DEF CMD_GET_FLUX_STATUS, CMD_READ_FLUX, ReadFrame, Nothing
<1>8. Len(s) \in Nat
  BY <1>1, Zenon DEF ReadsInv
<1>9. Marking("track", w, t, m)
  <2>1. "track" \notin Awaiting
    BY DEF Awaiting
  <2>2. QED
    BY <2>1, NoMarking, Zenon
<1>10. CASE l[1] # CMD_GET_FLUX_STATUS
  <2>1. ~Fits(w)
    BY <1>3, <1>5, <1>7, <1>10, Zenon DEF Fits
  <2>2. ResolvedFifo(w) = w.fifo
    BY <2>1, NothingResolved, Zenon
  <2>3. ~Reading(w, s, m)
    BY <1>7, <1>8, NotReading, Zenon
  <2>4. QED
    BY <1>6, <1>9, <1>10, <2>2, <2>3, Zenon DEF Telling
<1>11. CASE l[1] = CMD_GET_FLUX_STATUS
  <2>1. StatusSet(s, t, w.dbuf[2])
    BY <1>3, <1>5, <1>11, Zenon
  <2>2. /\ Len(t) = Len(s)
        /\ \A q \in 1 .. Len(s) : /\ t[q].pos = s[q].pos /\ t[q].sent = s[q].sent
                                  /\ t[q].whole = s[q].whole
    BY <2>1, Zenon DEF StatusSet
  <2>3. Len(w.dbuf) >= 2 /\ w.dbuf[2] # NoAnswer
    <3>1. 2 >= 2 /\ l[2] # NoAnswer
      BY <1>3 DEF NoAnswer
    <3>2. QED
      BY <1>3, <1>5, <3>1, Zenon
  <2>4. LastFlux(s, Len(s), w.last)
    BY <1>4, <1>6, <1>11, Zenon DEF Knows
  <2>5. StatusRight(ResolvedFifo(w), t)
    <3>1. ResolvedFifo(w) = IF w.last # Nothing THEN Marked(w) ELSE w.fifo
      <4>1. Fits(w)
        BY <1>3, <1>5, <1>7, <1>11, <2>3, Zenon DEF Fits
      <4>2. QED
        BY <1>7, <4>1, Zenon DEF ResolvedFifo
    <3>2. Stored(w.fifo, s, Len(s)) /\ StatusRight(w.fifo, s)
      BY <1>4, <1>5, <1>6, <1>11, Zenon DEF Knows
    <3>3. StatusRight(IF w.last # Nothing THEN Marked(w) ELSE w.fifo, t)
      BY <1>5, <1>8, <2>1, <2>3, <2>4, <3>2, StatusMarked, Zenon
    <3>4. QED
      BY <3>1, <3>3, Zenon
  <2>6. NoStatusByte(t)
    BY <1>6, <2>2, Zenon DEF Knows, NoStatusByte
  <2>7. LastFlux(t, Len(t), w.last)
    <3>1. Len(s) \in 0 .. Len(s)
      BY <1>8
    <3>2. QED
      BY <1>8, <2>2, <2>4, <3>1, LastLater, Zenon
  <2>8. ~Reading(w, t, m)
    BY <1>7, <1>8, <2>2, NotReading, Zenon
  <2>9. QED
    BY <1>9, <2>5, <2>6, <2>7, <2>8, Zenon DEF Telling, Knows
<1>12. QED
  BY <1>10, <1>11

-----------------------------------------------------------------------------
(* The inductive invariant for the statuses.                               *)

\* The status of the last read is about to be written to the log.
StatusPending == out.dir = "dev" /\ pc = "track" /\ out.bytes[1] = CMD_GET_FLUX_STATUS

\* The reads as the log will have them.
SeenReads ==
    IF StatusPending THEN [reads EXCEPT ![Len(reads)].status = out.bytes[2]] ELSE reads

\* A part of the transfer t, after what the parser e has seen, takes no status away.
Unfinished(t, e, s) ==
    /\ t.dir = "host" => StatusRight(ResolvedFifo(e), s)
    /\ t.dir = "dev" =>
          \A m \in 0 .. Len(t.bytes) - 1 :
              StatusRight(ResolvedFifo(With(e, SubSeq(t.bytes, 1, m))), s)

\* The log, with the transfer that is being written, gives every stream stored its own
\* status, a part of that transfer does too, and so does what was parsed in the end.
StatusInv ==
    /\ phase = "capture" => /\ Telling(pc, Seen, SeenReads, line)
                            /\ Unfinished(out, FrameEnds(ps), reads)
    /\ Parsed => StatusRight(ps.fifo, reads)

\* Parsers that are alike tell alike.
LEMMA TellsAlike ==
    ASSUME NEW v, NEW w, NEW k, Alike(v, w, k),
           NEW at, NEW s, NEW l, Telling(at, v, s, l)
    PROVE  Telling(at, w, s, l)
<1>1. /\ w.pcmd = v.pcmd /\ w.pcyl = v.pcyl /\ w.phead = v.phead /\ w.dbuf = v.dbuf
      /\ w.last = v.last /\ w.fifo = v.fifo
  BY Zenon DEF Alike
<1>2. ResolvedFifo(w) = ResolvedFifo(v)
  BY AlikeResolves, Zenon
<1>3. Reading(w, s, l) => Reading(v, s, l)
  BY <1>1, Zenon DEF Reading
<1>4. Open(v, s) => Open(w, s)
  BY <1>1, Zenon DEF Open
<1>5. Marking(at, v, s, l) => Marking(at, w, s, l)
  BY <1>1, Zenon DEF Marking
<1>6. QED
  BY <1>1, <1>2, <1>3, <1>4, <1>5, Zenon DEF Telling

\* Between two transfers there is nothing unfinished,
LEMMA TellsIdle ==
    ASSUME phase' = "capture", out' = NoTransfer, Telling(pc', Seen', reads', line')
    PROVE  StatusInv'
<1>1. out'.dir = "none"
  BY DEF NoTransfer
<1>2. out'.dir # "host" /\ out'.dir # "dev"
  BY <1>1
<1>3. SeenReads' = reads'
  BY <1>2, Zenon DEF SeenReads, StatusPending
<1>4. Unfinished(out', FrameEnds(ps'), reads')
  BY <1>2, Zenon DEF Unfinished
<1>5. QED
  BY <1>3, <1>4, Zenon DEF StatusInv, Parsed

\* and a command that is half written is none yet.
LEMMA TellsAsked ==
    ASSUME phase' = "capture", out = NoTransfer, ps' = ps,
           NEW frame, NEW answer, NEW next, Command(frame, answer, next),
           Telling(pc', Seen', reads', line'), StatusRight(ResolvedFifo(Seen), reads')
    PROVE  StatusInv'
<1>1. out'.dir = "host"
  BY DEF Command
<1>2. out'.dir # "dev"
  BY <1>1
<1>3. SeenReads' = reads'
  BY <1>2, Zenon DEF SeenReads, StatusPending
<1>4. Seen = FrameEnds(ps')
  BY Zenon DEF Seen
<1>5. Unfinished(out', FrameEnds(ps'), reads')
  BY <1>2, <1>4, Zenon DEF Unfinished
<1>6. QED
  BY <1>3, <1>5, Zenon DEF StatusInv, Parsed

\* The first bytes of the first bytes.
LEMMA FirstOfFirst ==
    ASSUME NEW l \in Seq(Nat), NEW n \in 1 .. Len(l), NEW m \in 0 .. n
    PROVE  SubSeq(SubSeq(l, 1, n), 1, m) = SubSeq(l, 1, m)
<1>1. PICK a, k : a = SubSeq(l, 1, n) /\ k = Len(l)
  OBVIOUS
<1>2. k \in Nat /\ n \in 1 .. k /\ n \in 0 .. k /\ m \in 0 .. k
  BY <1>1, LenProperties
<1>3. a \in Seq(Nat) /\ Len(a) = n /\ \A i \in 1 .. n : a[i] = l[i]
  BY <1>1, <1>2, FirstBytes
<1>4. SubSeq(a, 1, m) \in Seq(Nat) /\ Len(SubSeq(a, 1, m)) = m
  BY <1>3, FirstBytes
<1>5. SubSeq(l, 1, m) \in Seq(Nat) /\ Len(SubSeq(l, 1, m)) = m
  BY <1>1, <1>2, FirstBytes
<1>6. \A i \in 1 .. m : SubSeq(a, 1, m)[i] = SubSeq(l, 1, m)[i]
  BY <1>1, <1>2, <1>3
<1>7. QED
  BY <1>1, <1>4, <1>5, <1>6, SeqEqual

\* The bytes that the host has just read, in whole or in part.
LEMMA TellsReceived ==
    ASSUME phase' = "capture", out = NoTransfer, ps' = ps, reads' = reads,
           Situation(pc, Seen, reads, line, dev, intact), Telling(pc, Seen, reads, line),
           pc \in Receiving, NEW n, NEW next, Read(n, next),
           pc = "status_ack" => n <= 2,
           Telling(next, Seen', SeenReads', line')
    PROVE  StatusInv'
<1>1. /\ n \in 1 .. Len(line) /\ pc' = next
      /\ out' = [dir |-> "dev", bytes |-> SubSeq(line, 1, n)]
  BY Zenon DEF Read
<1>2. out'.dir = "dev" /\ out'.dir # "host" /\ out'.bytes = SubSeq(line, 1, n)
  BY <1>1
<1>3. line \in Seq(Nat)
  BY Zenon DEF Situation
<1>4. PICK e : e = Seen
  OBVIOUS
<1>5. FrameEnds(ps') = e
  BY <1>4, Zenon DEF Seen
<1>6. Len(out'.bytes) = n
  <2>1. n \in 0 .. Len(line)
    BY <1>1
  <2>2. QED
    BY <1>2, <1>3, <2>1, FirstBytes, Zenon
<1>7. ASSUME NEW m \in 0 .. n - 1
      PROVE  StatusRight(ResolvedFifo(With(e, SubSeq(out'.bytes, 1, m))), reads')
  <2>1. m \in 0 .. n /\ m \in 0 .. Len(line) /\ (pc = "status_ack" => m < 2)
    BY <1>1, <1>7
  <2>2. SubSeq(out'.bytes, 1, m) = SubSeq(line, 1, m)
    BY <1>1, <1>2, <1>3, <2>1, FirstOfFirst, Zenon
  <2>3. StatusRight(ResolvedFifo(With(e, SubSeq(line, 1, m))), reads)
    BY <1>4, <2>1, TellsPart, Zenon
  <2>4. QED
    BY <2>2, <2>3, Zenon
<1>8. Unfinished(out', FrameEnds(ps'), reads')
  BY <1>2, <1>5, <1>6, <1>7, Zenon DEF Unfinished
<1>9. QED
  BY <1>1, <1>8, Zenon DEF StatusInv, Parsed

-----------------------------------------------------------------------------
(* Each step keeps that one too.                                           *)

\* A command is written where no stream is open.
LEMMA AskedMute ==
    ASSUME NEW at \in {"identify", "track", "head", "read"}, NEW v, NEW s, NEW l, NEW d, NEW sound,
           Situation(at, v, s, l, d, sound)
    PROVE  Mute(v) /\ Len(s) \in Nat
  BY DEF Situation, Right, Going, Astray, Good, Broken, ReadsInv

\* GET_FLUX_STATUS ends the last read and changes no status.
LEMMA EndedStatus ==
    ASSUME NEW s, ReadsType(s), NEW x, NEW t, t = [s EXCEPT ![Len(s)].whole = x]
    PROVE  SameStatus(s, t)
<1> SUFFICES ASSUME NEW q \in 1 .. Len(s) PROVE t[q].status = s[q].status
  BY Zenon DEF SameStatus
<1>1. Len(s) \in Nat /\ DOMAIN s = 1 .. Len(s)
  BY AppendIsSeq, Zenon DEF ReadsType
<1>2. IsRead(s[q])
  BY Zenon DEF ReadsType
<1>3. CASE q = Len(s)
  <2>1. t[q] = [s[q] EXCEPT !.whole = x]
    BY <1>1, <1>3
  <2>2. QED
    BY <1>2, <2>1 DEF IsRead
<1>4. CASE q # Len(s)
  <2>1. t[q] = s[q]
    BY <1>1, <1>4
  <2>2. QED
    BY <2>1, Zenon
<1>5. QED
  BY <1>3, <1>4

\* A status for the last read.
LEMMA StatusSetIs ==
    ASSUME NEW s, ReadsType(s), NEW x, NEW t, t = [s EXCEPT ![Len(s)].status = x]
    PROVE  StatusSet(s, t, x)
<1>1. /\ Len(s) \in Nat /\ DOMAIN s = 1 .. Len(s)
      /\ ReadsType(t) /\ SameReads(s, t)
  BY AppendIsSeq, ChangedRead, Zenon DEF ReadsType
<1>2. ASSUME NEW q \in 1 .. Len(s)
      PROVE  t[q].status = IF q = Len(s) THEN x ELSE s[q].status
  <2>1. IsRead(s[q])
    BY Zenon DEF ReadsType
  <2>2. CASE q = Len(s)
    <3>1. t[q] = [s[q] EXCEPT !.status = x]
      BY <1>1, <2>2
    <3>2. QED
      BY <2>1, <2>2, <3>1 DEF IsRead
  <2>3. CASE q # Len(s)
    <3>1. t[q] = s[q]
      BY <1>1, <2>3
    <3>2. QED
      BY <2>3, <3>1
  <2>4. QED
    BY <2>2, <2>3
<1>3. QED
  BY <1>1, <1>2, Zenon DEF SameReads, StatusSet

\* The host writes a command.
LEMMA StatusAsking ==
    ASSUME DeviceInv, LogInv, SessionInv, StatusInv,
           Identify \/ Seek \/ SelectHead \/ ReadFlux \/ GetFluxStatus
    PROVE  StatusInv'
<1>1. /\ phase = "capture" /\ out = NoTransfer
      /\ UNCHANGED <<phase, ps>>
  BY Zenon DEF Identify, Seek, SelectHead, ReadFlux, GetFluxStatus, Capturing
<1>2. /\ ParseInv(ps) /\ IsSeq(reads) /\ dev \in DeviceType
      /\ pc \in {"seek_ack", "head"} => target \in Positions
  BY Zenon DEF DeviceInv, LogInv
<1>3. ReadsType(reads) /\ Situation(pc, Seen, reads, line, dev, intact)
  BY <1>1, Zenon DEF SessionInv
<1>4. PICK v, w : v = Seen /\ w = Seen'
  OBVIOUS
<1>5. Telling(pc, v, reads, line)
  <2>1. out.dir # "dev"
    BY <1>1 DEF NoTransfer
  <2>2. SeenReads = reads
    BY <2>1, Zenon DEF SeenReads, StatusPending
  <2>3. QED
    BY <1>1, <1>4, <2>2, Zenon DEF StatusInv
<1>6. Situation(pc, v, reads, line, dev, intact) /\ ParseInv(v) /\ ReadsInv(reads)
  BY <1>3, <1>4, Zenon DEF Situation
<1>7. ASSUME NEW frame, Sendable(frame), NEW answer, NEW next, Command(frame, answer, next)
      PROVE  /\ Commanded(v, frame, w) /\ line' = line \o answer /\ pc' = next
             /\ w.pcmd = frame /\ w.dbuf = Nothing
  <2>1. Commanded(v, frame, w) /\ line' = line \o answer /\ pc' = next
    BY <1>1, <1>2, <1>4, <1>7, CommandWritten, Zenon
  <2>2. QED
    BY <2>1, Zenon DEF Commanded
<1>8. ASSUME NEW frame, Sendable(frame), NEW answer, NEW next, Command(frame, answer, next),
             pc \in {"identify", "track", "head", "read"}, reads' = reads,
             frame # ReadFrame \/ AllWhole(reads, Len(reads)),
             Marking(next, w, reads, line')
      PROVE  StatusInv'
  <2>1. Commanded(v, frame, w) /\ pc' = next
    BY <1>7, <1>8, Zenon
  <2>2. Mute(v) /\ Len(reads) \in Nat
    BY <1>6, <1>8, AskedMute, Zenon
  <2>3. Telling(next, w, reads, line') /\ StatusRight(ResolvedFifo(v), reads)
    BY <1>5, <1>8, <2>1, <2>2, TellsCommand, Zenon
  <2>4. QED
    BY <1>1, <1>4, <1>8, <2>1, <2>3, TellsAsked, Zenon
<1>9. CASE Identify
  <2>1. PICK frame, info, answer : /\ frame = <<CMD_GET_INFO, 3, GETINFO_FIRMWARE>>
                                   /\ info = [i \in 1 .. InfoLen |-> 1]
                                   /\ answer = <<CMD_GET_INFO, ACK_OKAY>> \o info
    OBVIOUS
  <2>2. /\ pc = "identify" /\ reads' = reads /\ Command(frame, answer, "info_ack")
    BY <1>9, <2>1, Zenon DEF Identify, Capturing
  <2>3. Sendable(frame)
    BY <2>1, SessionFrames, Zenon
  <2>4. /\ frame # ReadFrame /\ frame # Nothing
        /\ frame[1] \notin {CMD_READ_FLUX, CMD_GET_FLUX_STATUS}
    BY <2>1 DEF ReadFrame, Nothing, CMD_GET_INFO, CMD_READ_FLUX, CMD_GET_FLUX_STATUS
  <2>5. w.pcmd = frame /\ line' = line \o answer
    BY <1>7, <2>2, <2>3, Zenon
  <2>6. line'[3] # CMD_GET_FLUX_STATUS
    <3>1. line = Nothing
      BY <1>6, <2>2 DEF Situation, Right, Going, Astray
    <3>2. PICK n \in Nat : n = InfoLen /\ n # 0
      BY LogAssumption
    <3>3. info \in Seq(Nat) /\ Len(info) = n /\ info[1] = 1
      <4>1. [i \in 1 .. n |-> 1] \in Seq(Nat) /\ Len([i \in 1 .. n |-> 1]) = n
        OBVIOUS
      <4>2. 1 \in 1 .. n
        BY <3>2
      <4>3. [i \in 1 .. n |-> 1][1] = 1
        BY <4>2
      <4>4. QED
        BY <2>1, <3>2, <4>1, <4>3, Zenon
    <3>4. answer \in Seq(Nat) /\ answer[3] = 1
      BY <2>1, <3>2, <3>3 DEF CMD_GET_INFO, ACK_OKAY
    <3>5. line' = answer
      BY <2>5, <3>1, <3>4, ConcatEmptySeq DEF Nothing
    <3>6. QED
      BY <3>4, <3>5 DEF CMD_GET_FLUX_STATUS
  <2>7. Marking("info_ack", w, reads, line')
    BY <2>4, <2>5, <2>6 DEF Marking
  <2>8. QED
    BY <1>8, <2>2, <2>3, <2>4, <2>7, Zenon
<1>10. CASE Seek
  <2>1. PICK pos \in Positions, ack \in {ACK_OKAY, ACK_NO_TRK0} :
          Command(<<CMD_SEEK, 3, pos[1]>>, <<CMD_SEEK, ack>>, "seek_ack")
    BY <1>10, Zenon DEF Seek
  <2>2. pc = "track" /\ reads' = reads
    BY <1>10, Zenon DEF Seek, Capturing
  <2>3. PICK c, frame : c = pos[1] /\ frame = <<CMD_SEEK, 3, c>>
    OBVIOUS
  <2>4. c \in 0 .. MaxTracks - 1
    BY <2>3, PositionsAssumption
  <2>5. Sendable(frame) /\ Command(frame, <<CMD_SEEK, ack>>, "seek_ack")
    BY <2>1, <2>3, <2>4, SessionFrames, Zenon
  <2>6. /\ frame # ReadFrame /\ frame # Nothing
        /\ frame[1] \notin {CMD_READ_FLUX, CMD_GET_FLUX_STATUS}
    BY <2>3 DEF ReadFrame, Nothing, CMD_SEEK, CMD_READ_FLUX, CMD_GET_FLUX_STATUS
  <2>7. w.pcmd = frame
    BY <1>7, <2>5, Zenon
  <2>8. Marking("seek_ack", w, reads, line')
    BY <2>6, <2>7 DEF Marking
  <2>9. QED
    BY <1>8, <2>2, <2>5, <2>6, <2>8, Zenon
<1>11. CASE SelectHead
  <2>1. /\ pc = "head" /\ reads' = reads
        /\ Command(<<CMD_HEAD, 3, target[2]>>, <<CMD_HEAD, ACK_OKAY>>, "head_ack")
    BY <1>11, Zenon DEF SelectHead, Capturing
  <2>2. PICK h, frame : h = target[2] /\ frame = <<CMD_HEAD, 3, h>>
    OBVIOUS
  <2>3. h \in {0, 1}
    <3>1. target \in Positions
      BY <1>2, <2>1
    <3>2. QED
      BY <2>2, <3>1, PositionsAssumption
  <2>4. Sendable(frame) /\ Command(frame, <<CMD_HEAD, ACK_OKAY>>, "head_ack")
    BY <2>1, <2>2, <2>3, SessionFrames, Zenon
  <2>5. /\ frame # ReadFrame /\ frame # Nothing
        /\ frame[1] \notin {CMD_READ_FLUX, CMD_GET_FLUX_STATUS}
    BY <2>2 DEF ReadFrame, Nothing, CMD_HEAD, CMD_READ_FLUX, CMD_GET_FLUX_STATUS
  <2>6. w.pcmd = frame
    BY <1>7, <2>4, Zenon
  <2>7. Marking("head_ack", w, reads, line')
    BY <2>5, <2>6 DEF Marking
  <2>8. QED
    BY <1>8, <2>1, <2>4, <2>5, <2>7, Zenon
<1>12. CASE ReadFlux
  <2>1. pc = "read"
    BY <1>12, Zenon DEF ReadFlux, Capturing
  <2>2. Good(v, reads) /\ line = Nothing
    BY <1>6, <2>1 DEF Situation, Right, Going, Astray
  <2>3. Sendable(ReadFrame)
    BY SessionFrames, Zenon
  <2>4. ASSUME NEW answer, answer \in Seq(Nat), Command(ReadFrame, answer, "read_ack")
        PROVE  line' = answer /\ w.pcmd = ReadFrame /\ w.dbuf = Nothing
    <3>1. line' = line \o answer /\ w.pcmd = ReadFrame /\ w.dbuf = Nothing
      BY <1>7, <2>3, <2>4, Zenon
    <3>2. QED
      BY <2>2, <2>4, <3>1, ConcatEmptySeq DEF Nothing
  <2>5. CASE /\ Command(ReadFrame, <<CMD_READ_FLUX, ACK_NO_UNIT>>, "read_ack")
             /\ UNCHANGED <<dev, reads>>
    <3>1. PICK answer : answer = <<CMD_READ_FLUX, ACK_NO_UNIT>>
      OBVIOUS
    <3>2. answer \in Seq(Nat) /\ answer[1] = CMD_READ_FLUX
      BY <3>1 DEF CMD_READ_FLUX, ACK_NO_UNIT
    <3>3. Command(ReadFrame, answer, "read_ack") /\ reads' = reads
      BY <2>5, <3>1, Zenon
    <3>4. line' = answer /\ w.pcmd = ReadFrame /\ w.dbuf = Nothing
      BY <2>4, <3>2, <3>3, Zenon
    <3>5. Marking("read_ack", w, reads, line')
      BY <3>2, <3>4 DEF Marking
    <3>6. AllWhole(reads, Len(reads))
      BY <2>2, Zenon DEF Good
    <3>7. QED
      BY <1>8, <2>1, <2>3, <3>3, <3>5, <3>6, Zenon
  <2>6. ASSUME NEW flux \in {Nothing, Flux(Len(reads) + 1)}, NEW read,
               read = [pos |-> <<dev.cyl, dev.head>>, sent |-> Append(flux, 0),
                       whole |-> FALSE, status |-> NoAnswer],
               reads' = Append(reads, read),
               Command(ReadFrame, <<CMD_READ_FLUX, ACK_OKAY>> \o Append(flux, 0), "read_ack")
        PROVE  StatusInv'
    <3>1. PICK n, x, answer : /\ n = Len(reads) + 1 /\ x = Append(flux, 0)
                              /\ answer = <<CMD_READ_FLUX, ACK_OKAY>> \o x
      OBVIOUS
    <3>2. /\ Len(reads) \in Nat
          /\ Len(reads') = Len(reads) + 1 /\ reads'[Len(reads) + 1] = read
          /\ \A i \in 1 .. Len(reads) : reads'[i] = reads[i]
      BY <1>2, <2>6, AppendIsSeq
    <3>3. x \in Seq(Nat) /\ \A i \in 1 .. Len(x) : x[i] # CMD_GET_FLUX_STATUS
      <4>1. n \in Nat /\ n > 0
        BY <3>1, <3>2
      <4>2. flux \in {Nothing, Flux(n)}
        BY <2>6, <3>1, Zenon
      <4>3. QED
        BY <3>1, <4>1, <4>2, FluxSent, Zenon
    <3>4. read.sent = x /\ read.whole = FALSE /\ read.status = NoAnswer
      BY <2>6, <3>1
    <3>5. OneRead(reads, reads', read)
      BY <3>2, Zenon DEF OneRead
    <3>6. answer \in Seq(Nat) /\ answer[1] = CMD_READ_FLUX
      BY <3>1, <3>3 DEF CMD_READ_FLUX, ACK_OKAY
    <3>7. Command(ReadFrame, answer, "read_ack")
      BY <2>6, <3>1, Zenon
    <3>8. line'[1] = CMD_READ_FLUX /\ Commanded(v, ReadFrame, w) /\ pc' = "read_ack"
      BY <1>7, <2>3, <2>4, <3>6, <3>7, Zenon
    <3>9. Telling("read_ack", w, reads', line') /\ StatusRight(ResolvedFifo(v), reads')
      BY <1>5, <1>6, <2>2, <3>3, <3>4, <3>5, <3>8, TellsRead, Zenon
    <3>10. QED
      BY <1>1, <1>4, <3>7, <3>8, <3>9, TellsAsked, Zenon
  <2>7. QED
    BY <1>12, <2>5, <2>6, Zenon DEF ReadFlux
<1>13. CASE GetFluxStatus
  <2>1. /\ pc = "status"
        /\ reads' = [reads EXCEPT ![Len(reads)].whole = (line = Nothing)]
        /\ Command(<<CMD_GET_FLUX_STATUS, 2>>, <<CMD_GET_FLUX_STATUS, dev.status>>, "status_ack")
    BY <1>13, Zenon DEF GetFluxStatus, Capturing
  <2>2. Ended(reads, reads', line = Nothing)
    BY <1>3, <2>1, ChangedRead, Zenon
  <2>3. SameStatus(reads, reads')
    BY <1>3, <2>1, EndedStatus, Zenon
  <2>4. dev.status \in Nat
    BY <1>2 DEF DeviceType
  <2>5. /\ Commanded(v, <<CMD_GET_FLUX_STATUS, 2>>, w)
        /\ line' = line \o <<CMD_GET_FLUX_STATUS, dev.status>> /\ pc' = "status_ack"
    BY <1>7, <2>1, SessionFrames, Zenon
  <2>6. Telling("status_ack", w, reads', line') /\ StatusRight(ResolvedFifo(v), reads')
    BY <1>5, <1>6, <2>1, <2>2, <2>3, <2>4, <2>5, TellsEnd, Zenon
  <2>7. QED
    BY <1>1, <1>4, <2>1, <2>5, <2>6, TellsAsked, Zenon
<1>14. QED
  BY <1>9, <1>10, <1>11, <1>12, <1>13


\* Before a transfer the invariant is about the reads as they are.
LEMMA TellingNow ==
    ASSUME StatusInv, phase = "capture", out = NoTransfer
    PROVE  Telling(pc, Seen, reads, line)
<1>1. out.dir # "dev"
  BY DEF NoTransfer
<1>2. SeenReads = reads
  BY <1>1, Zenon DEF SeenReads, StatusPending
<1>3. QED
  BY <1>2, Zenon DEF StatusInv

\* The host reads an answer that is no status, or a part of the stream.
LEMMA StatusReceiving ==
    ASSUME phase = "capture", phase' = "capture", out = NoTransfer, ps' = ps, reads' = reads,
           ParseInv(ps), Situation(pc, Seen, reads, line, dev, intact), StatusInv,
           pc \in Receiving, pc # "status_ack", NEW n, NEW next, Read(n, next),
           next \in Awaiting => pc = "info_ack" /\ n = 2 /\ next = "info",
           next = "track" => line[1] # CMD_GET_FLUX_STATUS
    PROVE  StatusInv'
<1>1. /\ line \in Seq(Nat) /\ Telling(pc, Seen, reads, line)
  BY TellingNow, Zenon DEF Situation
<1>2. PICK v, w, m : v = Seen /\ w = Seen' /\ m = line'
  OBVIOUS
<1>3. /\ n \in 1 .. Len(line) /\ w = With(v, SubSeq(line, 1, n))
      /\ m = SubSeq(line, n + 1, Len(line)) /\ pc' = next
  BY <1>1, <1>2, BytesRead, Zenon
<1>4. out'.dir = "dev" /\ out'.bytes = SubSeq(line, 1, n)
  BY DEF Read
<1>5. out'.bytes[1] = line[1]
  BY <1>1, <1>3, <1>4
<1>6. SeenReads' = reads
  BY <1>3, <1>5, Zenon DEF SeenReads, StatusPending
<1>7. Marking(next, w, reads, m)
  <2>1. CASE next \notin Awaiting
    BY <2>1, NoMarking, Zenon
  <2>2. CASE next \in Awaiting
    <3>1. pc = "info_ack" /\ n = 2 /\ next = "info"
      BY <2>2, Zenon
    <3>2. /\ v.pcmd # Nothing /\ v.pcmd[1] \notin {CMD_READ_FLUX, CMD_GET_FLUX_STATUS}
          /\ line[3] # CMD_GET_FLUX_STATUS
      BY <1>1, <1>2, <3>1, Zenon DEF Telling, Marking
    <3>3. m[1] = line[3]
      <4>1. Len(line) = InfoLen + 2
        BY <3>1 DEF Situation, Right, Going, Astray
      <4>2. QED
        BY <1>1, <1>3, <3>1, <4>1, LogAssumption
    <3>4. w.pcmd = v.pcmd
      <4>1. SubSeq(line, 1, n) \in Seq(Nat) /\ ParseInv(v)
        <5>1. n \in 0 .. Len(line)
          BY <1>3
        <5>2. QED
          BY <1>1, <1>2, <5>1, FirstBytes, Zenon DEF Situation
      <4>2. QED
        BY <1>3, <4>1, WithFields, Zenon
    <3>5. QED
      BY <3>1, <3>2, <3>3, <3>4 DEF Marking
  <2>3. QED
    BY <2>1, <2>2
<1>8. Telling(next, w, reads, m)
  BY <1>1, <1>2, <1>3, <1>7, TellsTaken, Zenon
<1>9. QED
  BY <1>1, <1>2, <1>6, <1>8, TellsReceived, Zenon

\* It reads the status.
LEMMA StatusTold ==
    ASSUME phase = "capture", phase' = "capture", out = NoTransfer, ps' = ps, reads' = reads,
           ReadsType(reads), Situation(pc, Seen, reads, line, dev, intact), StatusInv,
           pc = "status_ack", Read(2, "track")
    PROVE  StatusInv'
<1>1. line \in Seq(Nat) /\ Telling(pc, Seen, reads, line)
  BY TellingNow, Zenon DEF Situation
<1>2. PICK v, w, m, t : v = Seen /\ w = Seen' /\ m = line' /\ t = SeenReads'
  OBVIOUS
<1>3. 2 \in 1 .. Len(line) /\ w = With(v, SubSeq(line, 1, 2)) /\ pc' = "track"
  BY <1>1, <1>2, BytesRead, Zenon
<1>4. out'.dir = "dev" /\ out'.bytes = SubSeq(line, 1, 2)
  BY DEF Read
<1>5. out'.bytes[1] = line[1] /\ out'.bytes[2] = line[2]
  BY <1>1, <1>3, <1>4
<1>6. t = IF line[1] = CMD_GET_FLUX_STATUS
          THEN [reads EXCEPT ![Len(reads)].status = line[2]] ELSE reads
  BY <1>2, <1>3, <1>4, <1>5, Zenon DEF SeenReads, StatusPending
<1>7. line[1] = CMD_GET_FLUX_STATUS => StatusSet(reads, t, line[2])
  BY <1>6, StatusSetIs, Zenon
<1>8. Telling("track", w, t, m)
  BY <1>1, <1>2, <1>3, <1>6, <1>7, TellsStatus, Zenon
<1>9. pc \in Receiving /\ 2 <= 2
  BY DEF Receiving
<1>10. QED
  BY <1>1, <1>2, <1>8, <1>9, TellsReceived, Zenon

\* An answer is read, or a part of the stream, or nothing.
LEMMA StatusTaking ==
    ASSUME DeviceInv, LogInv, SessionInv, StatusInv,
           \/ IdentifyAck \/ Info \/ SeekAck \/ HeadAck \/ ReadFluxAck \/ FirstByte
           \/ WaitingBytes \/ ReadFails \/ FluxStatusAck
    PROVE  StatusInv'
<1>1. /\ phase = "capture" /\ phase' = "capture" /\ out = NoTransfer
      /\ UNCHANGED <<reads, ps>>
  BY Zenon DEF IdentifyAck, Info, SeekAck, HeadAck, ReadFluxAck, FirstByte, WaitingBytes,
               ReadFails, FluxStatusAck, Capturing
<1>2. /\ ReadsType(reads) /\ ParseInv(ps)
      /\ Situation(pc, Seen, reads, line, dev, intact)
  BY <1>1, Zenon DEF SessionInv, LogInv
<1>3. Telling(pc, Seen, reads, line)
  BY <1>1, TellingNow, Zenon
<1>4. /\ pc = "info" => line[1] # CMD_GET_FLUX_STATUS
      /\ pc = "read_ack" => line[1] = CMD_READ_FLUX
  BY <1>3, Zenon DEF Telling, Marking
<1>5. /\ CMD_SEEK # CMD_GET_FLUX_STATUS /\ CMD_READ_FLUX # CMD_GET_FLUX_STATUS
      /\ \A at \in {"exit", "head", "track", "read", "first", "rest", "status"} :
            at \notin Awaiting
      /\ "info" # "track"
  BY DEF CMD_SEEK, CMD_READ_FLUX, CMD_GET_FLUX_STATUS, Awaiting
<1>6. ASSUME NEW n, NEW next, Read(n, next), pc \in Receiving, pc # "status_ack",
             next \in Awaiting => pc = "info_ack" /\ n = 2 /\ next = "info",
             next = "track" => line[1] # CMD_GET_FLUX_STATUS
      PROVE  StatusInv'
  BY <1>1, <1>2, <1>6, StatusReceiving, Zenon
<1>7. CASE IdentifyAck
  <2>1. PICK next : next = IF line[1] # CMD_GET_INFO THEN "exit"
                           ELSE IF line[2] = ACK_OKAY THEN "info" ELSE "exit"
    OBVIOUS
  <2>2. pc = "info_ack" /\ Read(2, next)
    BY <1>7, <2>1, Zenon DEF IdentifyAck, Capturing, ReadAnswer
  <2>3. next \in {"exit", "info"}
    BY <2>1
  <2>4. (next \in Awaiting => next = "info") /\ next # "track" /\ pc \in Receiving
    BY <1>5, <2>2, <2>3 DEF Receiving
  <2>5. pc # "status_ack"
    BY <2>2
  <2>6. QED
    BY <1>6, <2>2, <2>4, <2>5, Zenon
<1>8. CASE Info
  <2>1. pc = "info" /\ Read(InfoLen, "track")
    BY <1>8, Zenon DEF Info, Capturing
  <2>2. "track" \notin Awaiting /\ pc \in Receiving /\ pc # "status_ack"
    BY <1>5, <2>1 DEF Receiving
  <2>3. QED
    BY <1>4, <1>6, <2>1, <2>2, Zenon
<1>9. CASE SeekAck
  <2>1. PICK next : next = IF line[1] # CMD_SEEK THEN "exit"
                           ELSE IF line[2] = ACK_OKAY THEN "head" ELSE "track"
    OBVIOUS
  <2>2. pc = "seek_ack" /\ Read(2, next)
    BY <1>9, <2>1, Zenon DEF SeekAck, Capturing, ReadAnswer
  <2>3. next \in {"exit", "head", "track"} /\ (next = "track" => line[1] = CMD_SEEK)
    BY <2>1
  <2>4. next \notin Awaiting /\ pc \in Receiving /\ pc # "status_ack"
    BY <1>5, <2>2, <2>3 DEF Receiving
  <2>5. QED
    BY <1>5, <1>6, <2>2, <2>3, <2>4, Zenon
<1>10. CASE HeadAck
  <2>1. PICK next : next = IF line[1] # CMD_HEAD THEN "exit"
                           ELSE IF line[2] = ACK_OKAY THEN "read" ELSE "track"
    OBVIOUS
  <2>2. pc = "head_ack" /\ Read(2, next)
    BY <1>10, <2>1, Zenon DEF HeadAck, Capturing, ReadAnswer
  <2>3. 2 \in 1 .. Len(line)
    BY <2>2 DEF Read
  <2>4. line[1] = CMD_HEAD
    <3>1. PICK w, m : w = With(Seen, SubSeq(line, 1, 2)) /\ m = SubSeq(line, 2 + 1, Len(line))
      OBVIOUS
    <3>2. QED
      BY <1>2, <2>2, <2>3, <3>1, TakesHeadAck, Zenon
  <2>5. next \in {"exit", "read", "track"} /\ CMD_HEAD # CMD_GET_FLUX_STATUS
    BY <2>1 DEF CMD_HEAD, CMD_GET_FLUX_STATUS
  <2>6. next \notin Awaiting /\ pc \in Receiving /\ pc # "status_ack"
    BY <1>5, <2>2, <2>5 DEF Receiving
  <2>7. QED
    BY <1>6, <2>2, <2>4, <2>5, <2>6, Zenon
<1>11. CASE ReadFluxAck
  <2>1. PICK next : next = IF line[1] # CMD_READ_FLUX THEN "exit"
                           ELSE IF line[2] = ACK_OKAY THEN "first" ELSE "track"
    OBVIOUS
  <2>2. pc = "read_ack" /\ Read(2, next)
    BY <1>11, <2>1, Zenon DEF ReadFluxAck, Capturing, ReadAnswer
  <2>3. next \in {"exit", "first", "track"}
    BY <2>1
  <2>4. next \notin Awaiting /\ pc \in Receiving /\ pc # "status_ack"
    BY <1>5, <2>2, <2>3 DEF Receiving
  <2>5. QED
    BY <1>4, <1>5, <1>6, <2>2, <2>4, Zenon
<1>12. ASSUME pc \in {"first", "rest"}, NEW n, NEW other \in {"first", "rest"},
              Read(n, IF line[n] = 0 THEN "status" ELSE other)
       PROVE  StatusInv'
  <2>1. PICK next : next = IF line[n] = 0 THEN "status" ELSE other
    OBVIOUS
  <2>2. next \in {"status", "first", "rest"}
    BY <1>12, <2>1
  <2>3. next \notin Awaiting /\ next # "track" /\ pc \in Receiving /\ pc # "status_ack"
    BY <1>5, <1>12, <2>2 DEF Receiving
  <2>4. QED
    BY <1>6, <1>12, <2>1, <2>3, Zenon
<1>13. CASE FirstByte
  <2>1. pc = "first" /\ Read(1, IF line[1] = 0 THEN "status" ELSE "rest")
    BY <1>13, Zenon DEF FirstByte, Capturing
  <2>2. QED
    BY <1>12, <2>1, Zenon
<1>14. ASSUME pc' \in {"first", "status"}, UNCHANGED <<out, line>>
       PROVE  StatusInv'
  <2>1. Seen' = Seen
    BY <1>1, <1>14, Zenon DEF Seen
  <2>2. pc' \notin Awaiting
    BY <1>5, <1>14, Zenon
  <2>3. Marking(pc', Seen, reads, line)
    BY <2>2, NoMarking, Zenon
  <2>4. Telling(pc', Seen, reads, line)
    BY <1>3, <2>3, Zenon DEF Telling
  <2>5. QED
    BY <1>1, <1>14, <2>1, <2>4, TellsIdle, Zenon
<1>15. CASE WaitingBytes
  <2>1. pc = "rest"
    BY <1>15, Zenon DEF WaitingBytes, Capturing
  <2>2. CASE pc' = "first" /\ UNCHANGED <<out, line>>
    BY <1>14, <2>2, Zenon
  <2>3. ASSUME NEW n, Read(n, IF line[n] = 0 THEN "status" ELSE "first")
        PROVE  StatusInv'
    BY <1>12, <2>1, <2>3, Zenon
  <2>4. QED
    BY <1>15, <2>2, <2>3, Zenon DEF WaitingBytes
<1>16. CASE ReadFails
  BY <1>14, <1>16, Zenon DEF ReadFails
<1>17. CASE FluxStatusAck
  <2>1. pc = "status_ack" /\ Read(2, "track")
    BY <1>17, Zenon DEF FluxStatusAck, Capturing
  <2>2. QED
    BY <1>1, <1>2, <2>1, StatusTold, Zenon
<1>18. QED
  BY <1>7, <1>8, <1>9, <1>10, <1>11, <1>13, <1>15, <1>16, <1>17


\* A transfer, or junk, is written to the log.
LEMMA StatusWriting ==
    ASSUME DeviceInv, LogInv, SessionInv, StatusInv, WriteLog \/ WriteJunk
    PROVE  StatusInv'
<1>1. phase = "capture" /\ phase' = "capture" /\ UNCHANGED <<pc, line>> /\ out' = NoTransfer
  BY Zenon DEF WriteLog, WriteJunk
<1>2. ParseInv(ps) /\ TransferInv(out) /\ TransferGood(out)
  BY Zenon DEF DeviceInv, LogInv, SessionInv
<1>3. Telling(pc, Seen, SeenReads, line)
  BY <1>1, Zenon DEF StatusInv
<1>4. ASSUME NEW k, Alike(Seen, Seen', k), reads' = SeenReads
      PROVE  StatusInv'
  <2>1. PICK v, w : v = Seen /\ w = Seen'
    OBVIOUS
  <2>2. Telling(pc, w, SeenReads, line)
    BY <1>3, <1>4, <2>1, TellsAlike, Zenon
  <2>3. QED
    BY <1>1, <1>4, <2>1, <2>2, TellsIdle, Zenon
<1>5. CASE WriteLog
  <2>1. /\ out # NoTransfer /\ ps' = TakeLines(ps, Dump(out.dir, out.bytes))
        /\ reads' = SeenReads
    BY <1>5, Zenon DEF WriteLog, SeenReads, StatusPending
  <2>2. Dumpable(out)
    BY <1>2, <2>1, Zenon DEF TransferInv, TransferGood, Sendable, Valid, Dumpable
  <2>3. Written(ps, out, TakeLines(ps, Dump(out.dir, out.bytes)))
    BY <1>2, <2>2, LogWritten, Zenon
  <2>4. Written(ps, out, ps')
    BY <2>1, <2>3, Zenon
  <2>5. Alike(Seen, Seen', 0)
    BY <1>1, <2>1, <2>4, Zenon DEF Seen, Written
  <2>6. QED
    BY <1>4, <2>1, <2>5, Zenon
<1>6. CASE WriteJunk
  <2>1. out = NoTransfer /\ ps' = TakeLine(ps, Junk) /\ reads' = reads
    BY <1>6, Zenon DEF WriteJunk
  <2>2. ps' = Warn(ps)
    BY <2>1 DEF TakeLine, Junk
  <2>3. Worse(Seen, Seen')
    BY <1>1, <1>2, <2>1, <2>2, WarnWorse, Zenon DEF Seen
  <2>4. PICK k \in Nat : Alike(Seen, Seen', k)
    BY <2>3, Zenon DEF Worse
  <2>5. SeenReads = reads
    <3>1. out.dir # "dev"
      BY <2>1 DEF NoTransfer
    <3>2. QED
      BY <3>1, Zenon DEF SeenReads, StatusPending
  <2>6. QED
    BY <1>4, <2>1, <2>4, <2>5, Zenon
<1>7. QED
  BY <1>5, <1>6

\* The session ends, or breaks off.
LEMMA StatusEnding ==
    ASSUME DeviceInv, LogInv, SessionInv, StatusInv, Exit \/ Killed
    PROVE  StatusInv'
<1>1. phase = "capture" /\ phase' = "parsed" /\ reads' = reads
  BY Zenon DEF Exit, Killed
<1>2. /\ ParseInv(ps) /\ TransferInv(out) /\ TransferGood(out)
      /\ Situation(pc, Seen, reads, line, dev, intact)
  BY <1>1, Zenon DEF DeviceInv, LogInv, SessionInv
<1>3. PICK e : e = FrameEnds(ps)
  OBVIOUS
<1>4. ASSUME StatusRight(ps'.fifo, reads)
      PROVE  StatusInv'
  <2>1. phase' # "capture"
    BY <1>1
  <2>2. QED
    BY <1>1, <1>4, <2>1, Zenon DEF StatusInv
<1>5. CASE Exit
  <2>1. out = NoTransfer /\ ps' = ResolvePending(e)
    BY <1>3, <1>5, Zenon DEF Exit, TakeEof
  <2>2. Seen = e
    BY <1>3, <2>1, Zenon DEF Seen
  <2>3. ParseInv(e)
    BY <1>2, <1>3, FrameEndsFields, Zenon
  <2>4. ps'.fifo = ResolvedFifo(e)
    BY <2>1, <2>3, PendingFields, Zenon
  <2>5. StatusInv /\ phase = "capture"
    BY <1>1
  <2>6. StatusRight(ResolvedFifo(e), reads)
    BY <2>1, <2>2, <2>5, TellingNow, Zenon DEF Telling, Knows
  <2>7. QED
    BY <1>4, <2>4, <2>6, Zenon
<1>6. CASE Killed
  <2>1. PICK kind, bytes, lines : /\ kind = out.dir /\ bytes = out.bytes
                                  /\ lines = Dump(kind, bytes)
    OBVIOUS
  <2>2. /\ out # NoTransfer
        /\ kind \in {"host", "dev"} /\ bytes \in Seq(Nat)
        /\ kind = "host" => HostBytes(bytes)
    BY <1>2, <1>6, <2>1, Zenon DEF Killed, TransferInv
  <2>3. lines \in Seq(LineType) /\ DumpOf(lines, kind, bytes)
    BY <2>1, <2>2, DumpIs, Zenon
  <2>4. PICK n \in 1 .. Len(lines) :
           \E stump \in {Nothing} \cup {<<l>> : l \in Stumps(lines[n])} :
              ps' = TakeEof(TakeLines(ps, SubSeq(lines, 1, n - 1) \o stump))
    BY <1>6, <2>1, Zenon DEF Killed
  <2>5. PICK stump \in {Nothing} \cup {<<l>> : l \in Stumps(lines[n])} :
           ps' = TakeEof(TakeLines(ps, SubSeq(lines, 1, n - 1) \o stump))
    BY <2>4
  <2>6. PICK q : q = TakeLines(ps, SubSeq(lines, 1, n - 1) \o stump)
    OBVIOUS
  <2>7. TookPart(ps, q, kind, bytes)
    BY <2>2, <2>3, <2>6, PartTaken, Zenon
  <2>8. /\ kind = "host" => EndsAs(e, TakeEof(q))
        /\ kind = "dev" => EndsWithin(e, bytes, TakeEof(q))
    BY <1>2, <1>3, <2>2, <2>7, LogBroken, Zenon
  <2>9. ps' = TakeEof(q)
    BY <2>5, <2>6, Zenon
  <2>10. Unfinished(out, e, reads)
    BY <1>1, <1>3, Zenon DEF StatusInv
  <2>11. CASE kind = "host"
    BY <1>4, <2>1, <2>8, <2>9, <2>10, <2>11, Zenon DEF EndsAs, Unfinished
  <2>12. CASE kind = "dev"
    <3>1. PICK m \in 0 .. Len(bytes) :
             m < Len(bytes) /\ EndsAs(With(e, SubSeq(bytes, 1, m)), TakeEof(q))
      BY <2>8, <2>12, Zenon DEF EndsWithin
    <3>2. m \in 0 .. Len(bytes) - 1
      BY <3>1
    <3>3. StatusRight(ResolvedFifo(With(e, SubSeq(bytes, 1, m))), reads)
      BY <2>1, <2>10, <2>12, <3>2, Zenon DEF Unfinished
    <3>4. QED
      BY <1>4, <2>9, <3>1, <3>3, Zenon DEF EndsAs
  <2>13. QED
    BY <2>2, <2>11, <2>12
<1>7. QED
  BY <1>5, <1>6

\* The invariant holds at the start,
LEMMA InitStatus == Init => StatusInv
<1> SUFFICES ASSUME Init PROVE StatusInv
  OBVIOUS
<1>1. /\ phase = "capture" /\ pc = "identify" /\ out = NoTransfer /\ line = Nothing
      /\ reads = Nothing /\ ps = NewParse
  BY Zenon DEF Init
<1>2. PICK p : p = NewParse
  OBVIOUS
<1>3. /\ ~p.inHost /\ p.pcmd = Nothing /\ p.dbuf = Nothing /\ p.last = Nothing
  BY <1>2 DEF NewParse
<1>4. Seen = p /\ out.dir # "dev" /\ out.dir # "host"
  <2>1. Seen = p
    BY <1>1, <1>2, <1>3, Zenon DEF Seen, FrameEnds
  <2>2. QED
    BY <1>1, <2>1 DEF NoTransfer
<1>5. Len(reads) = 0 /\ (\A r \in 1 .. 0 : FALSE) /\ Len(reads) \in Nat
  BY <1>1, EmptySeq DEF Nothing
<1>6. Knows(ResolvedFifo(p), p.last, reads)
  BY <1>3, <1>5, Zenon DEF Knows, StatusRight, NoStatusByte, LastFlux
<1>7. ~Reading(p, reads, line)
  <2>1. AllWhole(reads, Len(reads))
    BY <1>5, Zenon DEF AllWhole
  <2>2. QED
    BY <1>5, <2>1, NotReading, Zenon
<1>8. Marking(pc, p, reads, line)
  <2>1. pc \notin Awaiting
    BY <1>1 DEF Awaiting
  <2>2. QED
    BY <2>1, NoMarking, Zenon
<1>9. SeenReads = reads /\ Unfinished(out, FrameEnds(ps), reads) /\ ~Parsed
  BY <1>1, <1>4, Zenon DEF SeenReads, StatusPending, Unfinished, Parsed
<1>10. QED
  BY <1>4, <1>6, <1>7, <1>8, <1>9, Zenon DEF StatusInv, Telling

\* and every step keeps it.
LEMMA GivenStep ==
    ASSUME ReplayInv, PlacesInv, StatusInv, [Next]_vars
    PROVE  StatusInv'
<1>1. DeviceInv /\ LogInv /\ SessionInv
  BY Zenon DEF ReplayInv, PlacesInv
<1>2. CASE Identify \/ Seek \/ SelectHead \/ ReadFlux \/ GetFluxStatus
  BY <1>1, <1>2, StatusAsking, Zenon
<1>3. CASE \/ IdentifyAck \/ Info \/ SeekAck \/ HeadAck \/ ReadFluxAck \/ FirstByte
           \/ WaitingBytes \/ ReadFails \/ FluxStatusAck
  BY <1>1, <1>3, StatusTaking, Zenon
<1>4. CASE WriteLog \/ WriteJunk
  BY <1>1, <1>4, StatusWriting, Zenon
<1>5. CASE Exit \/ Killed
  BY <1>1, <1>5, StatusEnding, Zenon
<1>6. CASE Start \/ Visit
  <2>1. phase # "capture" /\ phase' # "capture" /\ UNCHANGED <<reads, ps>>
    BY <1>6 DEF Start, Visit, Session
  <2>2. QED
    BY <2>1, Zenon DEF StatusInv, Parsed
<1>7. CASE UNCHANGED vars
  <2>1. UNCHANGED <<phase, pc, out, line, reads, ps>>
    BY <1>7, Zenon DEF vars
  <2>2. Seen' = Seen /\ SeenReads' = SeenReads
    BY <2>1, Zenon DEF Seen, SeenReads, StatusPending
  <2>3. QED
    BY <2>1, <2>2, Zenon DEF StatusInv, Parsed
<1>8. QED
  BY <1>2, <1>3, <1>4, <1>5, <1>6, <1>7, Zenon DEF Next

\* So it holds in every session.
THEOREM StatusInvHolds == Spec => []StatusInv
<1>1. Init => StatusInv
  BY InitStatus
<1>2. ReplayInv /\ PlacesInv /\ StatusInv /\ [Next]_vars => StatusInv'
  BY GivenStep
<1>3. QED
  BY <1>1, <1>2, ReplayInvHolds, PlacesInvHolds, PTL DEF Spec

\* It implies that statuses are kept.
LEMMA GivenSuffices ==
    ASSUME ReplayInv, PlacesInv, StatusInv
    PROVE  StatusKept
<1>1. ReadsType(reads) /\ ParseInv(ps)
  BY Zenon DEF ReplayInv, LogInv, PlacesInv, SessionInv
<1>2. DOMAIN ps.fifo = Places
  <2>1. ps.fifo \in [Places -> Seq(FluxType)]
    BY <1>1, ParseFields, Zenon DEF ParseInv
  <2>2. QED
    BY <2>1
<1>3. Len(reads) \in Nat
  BY <1>1, AppendIsSeq, Zenon DEF ReadsType
<1>4. SUFFICES ASSUME Parsed, NEW pos \in DOMAIN ps.fifo, NEW r \in FluxReads(pos),
                      Nth(r) <= Len(ps.fifo[pos])
               PROVE  LET later == {q \in r + 1 .. Len(reads) : Len(reads[q].sent) > 1}
                          own == {q \in r .. Len(reads) :
                                     (\A p \in later : q < p) /\ reads[q].status # NoAnswer}
                      IN ps.fifo[pos][Nth(r)].status =
                            IF own = {} THEN ACK_OKAY ELSE reads[Max(own)].status
  BY DEF StatusKept
<1>5. PICK later : later = {q \in r + 1 .. Len(reads) : Len(reads[q].sent) > 1}
  OBVIOUS
<1>6. PICK own : own = {q \in r .. Len(reads) :
                           (\A p \in later : q < p) /\ reads[q].status # NoAnswer}
  OBVIOUS
<1>7. pos \in Places
  BY <1>2, <1>4
<1>8. ps.fifo[pos][Nth(r)].status = IF own = {} THEN ACK_OKAY ELSE reads[Max(own)].status
  <2>1. r \in 1 .. Len(reads) /\ Gave(reads, r, pos) /\ Nth(r) = Count(reads, r, pos)
    BY <1>1, ReadsCounted, Zenon
  <2>2. PICK st : st = ps.fifo[pos][Nth(r)].status
    OBVIOUS
  <2>3. Given(reads, r, st)
    <3>1. StatusRight(ps.fifo, reads)
      BY <1>4, Zenon DEF StatusInv
    <3>2. QED
      BY <1>4, <1>7, <2>1, <2>2, <3>1, Zenon DEF StatusRight
  <2>4. own = Own(reads, r)
    <3>1. ASSUME NEW q
          PROVE  (\A p \in later : q < p) <=>
                    (\A p \in r + 1 .. Len(reads) : Len(reads[p].sent) > 1 => q < p)
      BY <1>5, Zenon
    <3>2. QED
      BY <1>6, <3>1, Zenon DEF Own
  <2>5. CASE own = {}
    BY <2>2, <2>3, <2>4, <2>5, Zenon DEF Given
  <2>6. ASSUME NEW q \in own, \A p \in own : p <= q, st = reads[q].status
        PROVE  own # {} /\ st = reads[Max(own)].status
    <3>1. own \subseteq Nat
      <4>1. \A p \in own : p \in r .. Len(reads)
        BY <1>6
      <4>2. QED
        BY <1>3, <2>1, <4>1
    <3>2. PICK top : top = Max(own)
      OBVIOUS
    <3>3. top \in own /\ \A p \in own : top >= p
      <4>1. \A p \in own : q >= p
        BY <2>6, <3>1
      <4>2. QED
        BY <2>6, <3>2, <4>1, Zenon DEF Max
    <3>4. top = q
      BY <2>6, <3>1, <3>3
    <3>5. QED
      BY <2>6, <3>2, <3>4, Zenon
  <2>7. QED
    BY <2>2, <2>3, <2>4, <2>5, <2>6, Zenon DEF Given
<1>9. QED
  BY <1>5, <1>6, <1>8, Zenon

\* A stream is stored with the status that was given for it, and with no other's.
THEOREM StatusAsGiven == Spec => []StatusKept
<1>1. ReplayInv /\ PlacesInv /\ StatusInv => StatusKept
  BY GivenSuffices
<1>2. QED
  BY <1>1, ReplayInvHolds, PlacesInvHolds, StatusInvHolds, PTL
==============================================================================
