---------------------------- MODULE ReplayProofs ----------------------------
(***************************************************************************)
(* Theorems about Replay, for every session, log and interruption: what    *)
(* the parser stores is well formed, and a replay of it keeps in step and  *)
(* gives each stream once, in order.                                       *)
(***************************************************************************)
EXTENDS Replay, Induction, SequenceTheorems

-----------------------------------------------------------------------------
(* What the parser keeps.                                                  *)

Places == (0 .. MaxTracks - 1) \X {0, 1}

FluxType == [data : Seq(Nat), status : Nat]

ParseType ==
    [ inHost : BOOLEAN, hbuf : Seq(Nat), cyl : 0 .. MaxTracks - 1, head : {0, 1},
      pcmd : Seq(Nat), pcyl : 0 .. MaxTracks - 1, phead : {0, 1}, dbuf : Seq(Nat),
      last : {Nothing} \cup (Places \X Nat), info : Seq(Nat), warnings : Nat,
      fifo : [Places -> Seq(FluxType)] ]

LineType == [kind : {"host", "dev", "cont", "junk"}, bytes : Seq(Nat)]

\* The bytes of a host frame, all of them or the first ones: a command that moves the
\* head has its argument.
HostBytes(h) ==
    h \in Seq(Nat) /\ (Len(h) >= 2 /\ h[1] \in {CMD_SEEK, CMD_HEAD} => h[2] = 3)

\* A stream as gw_decode_stream() wants it: it ends with its only zero.
Closed(data) == \A i \in DOMAIN data : (data[i] = 0) <=> (i = Len(data))

StreamsClosed(fifo) ==
    \A pos \in Places : \A i \in DOMAIN fifo[pos] :
        Len(fifo[pos][i].data) > 1 /\ Closed(fifo[pos][i].data)

ParseInv(p) ==
    /\ p \in ParseType
    /\ HostBytes(p.hbuf) /\ (~p.inHost => p.hbuf = Nothing)
    /\ StreamsClosed(p.fifo)

\* What resolving a command's answer leaves alone.
SameHost(p, q) ==
    q.inHost = p.inHost /\ q.hbuf = p.hbuf /\ q.cyl = p.cyl /\ q.head = p.head

\* The fields of a parser.
LEMMA ParseFields ==
    ASSUME NEW p \in ParseType
    PROVE  /\ p.inHost \in BOOLEAN /\ p.hbuf \in Seq(Nat)
           /\ p.cyl \in 0 .. MaxTracks - 1 /\ p.head \in {0, 1}
           /\ p.pcmd \in Seq(Nat) /\ p.pcyl \in 0 .. MaxTracks - 1 /\ p.phead \in {0, 1}
           /\ p.dbuf \in Seq(Nat) /\ p.last \in {Nothing} \cup (Places \X Nat)
           /\ p.info \in Seq(Nat) /\ p.warnings \in Nat
           /\ p.fifo \in [Places -> Seq(FluxType)]
  BY Zenon DEF ParseType

\* A warning changes nothing else.
LEMMA WarnStep ==
    ASSUME NEW p, ParseInv(p), NEW loss \in BOOLEAN
    PROVE  /\ ParseInv(Warn(p)) /\ SameHost(p, Warn(p)) /\ Warn(p).fifo = p.fifo
           /\ ParseInv(WarnIf(p, loss)) /\ SameHost(p, WarnIf(p, loss))
           /\ WarnIf(p, loss).fifo = p.fifo
<1>1. p \in ParseType
  BY Zenon DEF ParseInv
<1>2. PICK q : q = Warn(p)
  OBVIOUS
<1>3. q \in ParseType
  <2>1. p.warnings + 1 \in Nat
    BY <1>1, ParseFields
  <2>2. QED
    BY <1>1, <1>2, <2>1, Zenon DEF Warn, ParseType
<1>4. /\ q.inHost = p.inHost /\ q.hbuf = p.hbuf /\ q.cyl = p.cyl /\ q.head = p.head
      /\ q.fifo = p.fifo
  BY <1>1, <1>2 DEF Warn, ParseType
<1>5. ParseInv(q) /\ SameHost(p, q)
  BY <1>3, <1>4, Zenon DEF ParseInv, SameHost
<1>6. WarnIf(p, loss) = q \/ WarnIf(p, loss) = p
  BY <1>2, Zenon DEF WarnIf
<1>7. SameHost(p, p)
  BY Zenon DEF SameHost
<1>8. QED
  BY <1>2, <1>4, <1>5, <1>6, <1>7, Zenon

\* A stream that is stored ends with its only zero, whatever the device sent.
LEMMA StreamClosed ==
    ASSUME NEW bytes \in Seq(Nat)
    PROVE  Stream(bytes) \in Seq(Nat) /\ Closed(Stream(bytes))
<1>1. Len(bytes) \in Nat /\ DOMAIN bytes = 1 .. Len(bytes) /\ \A i \in DOMAIN bytes : bytes[i] \in Nat
  BY LenProperties, ElementOfSeq
<1>2. CASE Terminated(bytes)
  <2>1. PICK zeros : zeros = {i \in DOMAIN bytes : bytes[i] = 0}
    OBVIOUS
  <2>2. zeros \in SUBSET Nat /\ zeros # {}
    BY <1>1, <1>2, <2>1 DEF Terminated
  <2>3. \E m \in zeros : \A x \in zeros : m <= x
    BY <2>2, SmallestMember
  <2>4. PICK m : m = Min(zeros)
    OBVIOUS
  <2>5. m \in zeros /\ \A x \in zeros : m <= x
    BY <2>3, <2>4 DEF Min
  <2>6. m \in 1 .. Len(bytes) /\ bytes[m] = 0 /\ \A i \in 1 .. m - 1 : bytes[i] # 0
    BY <1>1, <2>1, <2>5
  <2>7. Stream(bytes) = SubSeq(bytes, 1, m)
    BY <1>2, <2>1, <2>4, Zenon DEF Stream
  <2>8. PICK s : s = SubSeq(bytes, 1, m)
    OBVIOUS
  <2>9. s \in Seq(Nat) /\ Len(s) = m /\ \A i \in 1 .. m : s[i] = bytes[i]
    <3>1. \A i \in 1 .. m : bytes[i] \in Nat
      BY <1>1, <2>6
    <3>2. QED
      BY <1>1, <2>6, <2>8, <3>1, SubSeqProperties
  <2>10. Closed(s)
    BY <1>1, <2>6, <2>9 DEF Closed
  <2>11. QED
    BY <2>7, <2>8, <2>9, <2>10
<1>3. CASE ~Terminated(bytes)
  <2>1. PICK s : s = Append(bytes, 0)
    OBVIOUS
  <2>2. /\ s \in Seq(Nat) /\ Len(s) = Len(bytes) + 1 /\ s[Len(bytes) + 1] = 0
        /\ \A i \in 1 .. Len(bytes) : s[i] = bytes[i]
    BY <1>1, <2>1, AppendProperties, 0 \in Nat
  <2>3. \A i \in 1 .. Len(bytes) : bytes[i] # 0
    BY <1>1, <1>3 DEF Terminated
  <2>4. Closed(s)
    BY <1>1, <2>2, <2>3, SMTT(60) DEF Closed
  <2>5. Stream(bytes) = s
    BY <1>3, <2>1, Zenon DEF Stream
  <2>6. QED
    BY <2>2, <2>4, <2>5
<1>4. QED
  BY <1>2, <1>3

\* What the device sent after its two bytes of answer.
LEMMA BodyType ==
    ASSUME NEW p \in ParseType
    PROVE  Body(p) \in Seq(Nat)
<1>1. p.dbuf \in Seq(Nat)
  BY ParseFields
<1>2. Len(p.dbuf) \in Nat /\ \A i \in 3 .. Len(p.dbuf) : p.dbuf[i] \in Nat
  BY <1>1, LenProperties, ElementOfSeq
<1>3. QED
  BY <1>2, SubSeqProperties DEF Body

\* A stream stored behind those of its position.
LEMMA FluxAppendStep ==
    ASSUME NEW p, ParseInv(p), NEW stream \in Seq(Nat), Len(stream) > 1, Closed(stream)
    PROVE  ParseInv(FluxAppend(p, stream)) /\ SameHost(p, FluxAppend(p, stream))
<1>1. p \in ParseType
  BY Zenon DEF ParseInv
<1>2. PICK pos : pos = <<p.pcyl, p.phead>>
  OBVIOUS
<1>3. pos \in Places
  BY <1>1, <1>2, ParseFields DEF Places
<1>4. PICK flux : flux = [data |-> stream, status |-> ACK_OKAY]
  OBVIOUS
<1>5. flux \in FluxType /\ flux.data = stream
  BY <1>4 DEF FluxType, ACK_OKAY
<1>6. PICK old : old = p.fifo[pos]
  OBVIOUS
<1>7. p.fifo \in [Places -> Seq(FluxType)]
  BY <1>1, ParseFields
<1>8. old \in Seq(FluxType) /\ Len(old) \in Nat
  BY <1>3, <1>6, <1>7, LenProperties
<1>9. PICK fifo : fifo = [p.fifo EXCEPT ![pos] = Append(old, flux)]
  OBVIOUS
<1>10. /\ Append(old, flux) \in Seq(FluxType)
       /\ Len(Append(old, flux)) = Len(old) + 1
       /\ \A i \in 1 .. Len(old) : Append(old, flux)[i] = old[i]
       /\ Append(old, flux)[Len(old) + 1] = flux
  BY <1>5, <1>8, AppendProperties
<1>11. fifo \in [Places -> Seq(FluxType)]
  BY <1>7, <1>9, <1>10, Zenon
<1>12. StreamsClosed(fifo)
  <2> SUFFICES ASSUME NEW at \in Places, NEW i \in DOMAIN fifo[at]
               PROVE  Len(fifo[at][i].data) > 1 /\ Closed(fifo[at][i].data)
    BY Zenon DEF StreamsClosed
  <2>1. CASE at = pos
    <3>1. fifo[at] = Append(old, flux)
      BY <1>3, <1>7, <1>9, <2>1
    <3>2. i \in 1 .. Len(old) + 1
      BY <1>10, <3>1, LenProperties
    <3>3. CASE i = Len(old) + 1
      BY <1>5, <1>10, <3>1, <3>3
    <3>4. CASE i # Len(old) + 1
      <4>1. i \in 1 .. Len(old)
        BY <1>8, <3>2, <3>4
      <4>2. i \in DOMAIN old
        BY <1>8, <4>1, LenProperties
      <4>3. fifo[at][i] = p.fifo[at][i]
        BY <1>6, <1>10, <2>1, <3>1, <4>1
      <4>4. QED
        BY <1>6, <2>1, <4>2, <4>3, Zenon DEF ParseInv, StreamsClosed
    <3>5. QED
      BY <3>3, <3>4
  <2>2. CASE at # pos
    <3>1. fifo[at] = p.fifo[at]
      BY <1>7, <1>9, <2>2
    <3>2. QED
      BY <3>1, Zenon DEF ParseInv, StreamsClosed
  <2>3. QED
    BY <2>1, <2>2
<1>13. PICK last : last = <<pos, Len(old) + 1>>
  OBVIOUS
<1>14. last \in {Nothing} \cup (Places \X Nat)
  BY <1>3, <1>8, <1>13
<1>15. PICK new : new = [p EXCEPT !.fifo = fifo, !.last = last]
  OBVIOUS
<1>16. new = FluxAppend(p, stream)
  BY <1>2, <1>4, <1>6, <1>9, <1>13, <1>15, Zenon DEF FluxAppend
<1>17. new \in ParseType
  BY <1>1, <1>11, <1>14, <1>15, Zenon DEF ParseType
<1>18. /\ new.inHost = p.inHost /\ new.hbuf = p.hbuf /\ new.cyl = p.cyl /\ new.head = p.head
       /\ new.fifo = fifo
  BY <1>1, <1>15 DEF ParseType
<1>19. QED
  BY <1>12, <1>16, <1>17, <1>18, Zenon DEF ParseInv, SameHost

\* A status given to a stream changes nothing of its data.
LEMMA StatusStep ==
    ASSUME NEW p, ParseInv(p), Len(p.dbuf) >= 2
    PROVE  ParseInv(StatusResolved(p)) /\ SameHost(p, StatusResolved(p))
<1>1. p \in ParseType
  BY Zenon DEF ParseInv
<1>2. PICK loss : loss = (Body(p) # Nothing)
  OBVIOUS
<1>3. loss \in BOOLEAN
  BY <1>2
<1>4. CASE p.last = Nothing
  <2>1. StatusResolved(p) = WarnIf(p, loss)
    BY <1>2, <1>4, Zenon DEF StatusResolved
  <2>2. QED
    BY <1>3, <2>1, WarnStep, Zenon
<1>5. CASE p.last # Nothing
  <2>1. PICK a, b : a = p.last[1] /\ b = p.last[2]
    OBVIOUS
  <2>2. a \in Places
    <3>1. p.last \in Places \X Nat
      BY <1>1, <1>5, ParseFields, Zenon
    <3>2. QED
      BY <2>1, <3>1
  <2>3. PICK v : v = p.dbuf[2]
    OBVIOUS
  <2>4. v \in Nat
    <3>1. p.dbuf \in Seq(Nat)
      BY <1>1, ParseFields
    <3>2. QED
      BY <2>3, <3>1, ElementOfSeq, LenProperties
  <2>5. PICK old : old = p.fifo[a]
    OBVIOUS
  <2>6. p.fifo \in [Places -> Seq(FluxType)]
    BY <1>1, ParseFields
  <2>7. old \in Seq(FluxType)
    BY <2>2, <2>5, <2>6
  <2>8. PICK flux : flux = [old[b] EXCEPT !.status = v]
    OBVIOUS
  <2>9. PICK changed : changed = [old EXCEPT ![b] = flux]
    OBVIOUS
  <2>10. /\ changed \in Seq(FluxType) /\ DOMAIN changed = DOMAIN old
         /\ \A i \in DOMAIN old : changed[i].data = old[i].data
    <3>1. CASE b \in DOMAIN old
      <4>1. old[b] \in FluxType
        BY <2>7, <3>1, ElementOfSeq, LenProperties
      <4>2. flux \in FluxType /\ flux.data = old[b].data
        BY <2>4, <2>8, <4>1 DEF FluxType
      <4>3. changed \in Seq(FluxType)
        <5>1. old \in [1 .. Len(old) -> FluxType] /\ Len(old) \in Nat
          BY <2>7, LenProperties
        <5>2. changed \in [1 .. Len(old) -> FluxType]
          BY <2>9, <4>2, <5>1, Zenon
        <5>3. QED
          BY <5>1, <5>2, IsASeq
      <4>4. QED
        BY <2>9, <4>2, <4>3
    <3>2. CASE b \notin DOMAIN old
      <4>1. old = [i \in DOMAIN old |-> old[i]]
        BY <2>7
      <4>2. changed = old
        BY <2>9, <3>2, <4>1
      <4>3. QED
        BY <2>7, <4>2
    <3>3. QED
      BY <3>1, <3>2
  <2>11. PICK fifo : fifo = [p.fifo EXCEPT ![a] = changed]
    OBVIOUS
  <2>12. fifo \in [Places -> Seq(FluxType)]
    BY <2>6, <2>10, <2>11, Zenon
  <2>13. StreamsClosed(fifo)
    <3> SUFFICES ASSUME NEW at \in Places, NEW i \in DOMAIN fifo[at]
                 PROVE  Len(fifo[at][i].data) > 1 /\ Closed(fifo[at][i].data)
      BY Zenon DEF StreamsClosed
    <3>1. i \in DOMAIN p.fifo[at] /\ fifo[at][i].data = p.fifo[at][i].data
      <4>1. CASE at = a
        BY <2>2, <2>5, <2>6, <2>10, <2>11, <4>1
      <4>2. CASE at # a
        BY <2>6, <2>11, <4>2
      <4>3. QED
        BY <4>1, <4>2
    <3>2. QED
      BY <3>1, Zenon DEF ParseInv, StreamsClosed
  <2>14. PICK new : new = [p EXCEPT !.fifo = fifo]
    OBVIOUS
  <2>15. new = [p EXCEPT !.fifo[p.last[1]][p.last[2]].status = p.dbuf[2]]
    BY <2>1, <2>3, <2>5, <2>8, <2>9, <2>11, <2>14, Zenon
  <2>16. new \in ParseType
    BY <1>1, <2>12, <2>14, Zenon DEF ParseType
  <2>17. /\ new.inHost = p.inHost /\ new.hbuf = p.hbuf /\ new.cyl = p.cyl
         /\ new.head = p.head /\ new.fifo = fifo
    BY <1>1, <2>14 DEF ParseType
  <2>18. ParseInv(new) /\ SameHost(p, new)
    BY <2>13, <2>16, <2>17, Zenon DEF ParseInv, SameHost
  <2>19. StatusResolved(p) = WarnIf(new, loss)
    BY <1>2, <1>5, <2>15, Zenon DEF StatusResolved
  <2>20. ParseInv(WarnIf(new, loss)) /\ SameHost(new, WarnIf(new, loss))
    BY <1>3, <2>18, WarnStep, Zenon
  <2>21. QED
    BY <2>18, <2>19, <2>20, Zenon DEF SameHost
<1>6. QED
  BY <1>4, <1>5

\* The answer to READ_FLUX and its stream.
LEMMA ReadStep ==
    ASSUME NEW p, ParseInv(p)
    PROVE  ParseInv(ReadResolved(p)) /\ SameHost(p, ReadResolved(p))
<1>1. p \in ParseType
  BY Zenon DEF ParseInv
<1>2. PICK stream, cut, more :
          /\ stream = Stream(Body(p)) /\ cut = (~Terminated(Body(p)))
          /\ more = (Len(Body(p)) > Len(stream))
  OBVIOUS
<1>3. stream \in Seq(Nat) /\ Closed(stream) /\ cut \in BOOLEAN /\ more \in BOOLEAN
  BY <1>1, <1>2, BodyType, StreamClosed
<1>4. PICK q : q = WarnIf(p, cut)
  OBVIOUS
<1>5. ParseInv(q) /\ SameHost(p, q)
  BY <1>3, <1>4, WarnStep, Zenon
<1>6. PICK r : r = IF Len(stream) > 1 THEN FluxAppend(q, stream) ELSE q
  OBVIOUS
<1>7. ParseInv(r) /\ SameHost(p, r)
  <2>1. CASE Len(stream) > 1
    <3>1. ParseInv(FluxAppend(q, stream)) /\ SameHost(q, FluxAppend(q, stream))
      BY <1>3, <1>5, <2>1, FluxAppendStep, Zenon
    <3>2. QED
      BY <1>5, <1>6, <2>1, <3>1, Zenon DEF SameHost
  <2>2. CASE ~(Len(stream) > 1)
    BY <1>5, <1>6, <2>2, Zenon
  <2>3. QED
    BY <2>1, <2>2
<1>8. ReadResolved(p) = WarnIf(r, more)
  BY <1>2, <1>4, <1>6, Zenon DEF ReadResolved
<1>9. ParseInv(WarnIf(r, more)) /\ SameHost(r, WarnIf(r, more))
  BY <1>3, <1>7, WarnStep, Zenon
<1>10. QED
  BY <1>7, <1>8, <1>9, Zenon DEF SameHost

\* The answer to GET_INFO.
LEMMA InfoStep ==
    ASSUME NEW p, ParseInv(p)
    PROVE  ParseInv(InfoResolved(p)) /\ SameHost(p, InfoResolved(p))
<1>1. p \in ParseType
  BY Zenon DEF ParseInv
<1>2. PICK body, more : body = Body(p) /\ more = (Len(Body(p)) > InfoLen)
  OBVIOUS
<1>3. body \in Seq(Nat) /\ Len(body) \in Nat /\ more \in BOOLEAN
  BY <1>1, <1>2, BodyType, LenProperties
<1>4. SameHost(p, p)
  BY Zenon DEF SameHost
<1>5. CASE p.pcmd[3] = GETINFO_FIRMWARE /\ Len(body) >= InfoLen
  <2>1. PICK info : info = SubSeq(body, 1, InfoLen)
    OBVIOUS
  <2>2. info \in Seq(Nat)
    <3>1. InfoLen \in Nat
      BY LogAssumption
    <3>2. \A i \in 1 .. InfoLen : body[i] \in Nat
      BY <1>3, <1>5, <3>1, ElementOfSeq, LenProperties
    <3>3. QED
      BY <2>1, <3>1, <3>2, SubSeqProperties
  <2>3. PICK new : new = [p EXCEPT !.info = info]
    OBVIOUS
  <2>4. new \in ParseType
    BY <1>1, <2>2, <2>3, Zenon DEF ParseType
  <2>5. /\ new.inHost = p.inHost /\ new.hbuf = p.hbuf /\ new.cyl = p.cyl
        /\ new.head = p.head /\ new.fifo = p.fifo
    BY <1>1, <2>3 DEF ParseType
  <2>6. ParseInv(new) /\ SameHost(p, new)
    BY <2>4, <2>5, Zenon DEF ParseInv, SameHost
  <2>7. PICK r : r = IF p.info = Nothing THEN new ELSE p
    OBVIOUS
  <2>8. ParseInv(r) /\ SameHost(p, r)
    BY <1>4, <2>6, <2>7, Zenon
  <2>9. InfoResolved(p) = WarnIf(r, more)
    BY <1>2, <1>5, <2>1, <2>3, <2>7, Zenon DEF InfoResolved
  <2>10. ParseInv(WarnIf(r, more)) /\ SameHost(r, WarnIf(r, more))
    BY <1>3, <2>8, WarnStep, Zenon
  <2>11. QED
    BY <2>8, <2>9, <2>10, Zenon DEF SameHost
<1>6. CASE ~(p.pcmd[3] = GETINFO_FIRMWARE /\ Len(body) >= InfoLen)
  <2>1. InfoResolved(p) = p
    BY <1>2, <1>6, Zenon DEF InfoResolved
  <2>2. QED
    BY <1>4, <2>1, Zenon
<1>7. QED
  BY <1>5, <1>6, Zenon

\* What a command's answer says.
LEMMA ResolvedStep ==
    ASSUME NEW p, ParseInv(p)
    PROVE  ParseInv(Resolved(p)) /\ SameHost(p, Resolved(p))
<1>1. PICK q : q = Resolved(p)
  OBVIOUS
<1>2. p \in ParseType
  BY Zenon DEF ParseInv
<1>3. PICK okay, some, body : /\ okay = (p.dbuf[2] = ACK_OKAY)
                              /\ some = (p.dbuf # Nothing) /\ body = (Body(p) # Nothing)
  OBVIOUS
<1>4. some \in BOOLEAN /\ body \in BOOLEAN
  BY <1>3
<1>5. /\ ParseInv(WarnIf(p, some)) /\ SameHost(p, WarnIf(p, some))
      /\ ParseInv(WarnIf(p, body)) /\ SameHost(p, WarnIf(p, body))
      /\ ParseInv(Warn(p)) /\ SameHost(p, Warn(p))
  BY <1>4, WarnStep, Zenon
<1>6. CASE p.pcmd = Nothing
  <2>1. q = WarnIf(p, some)
    BY <1>1, <1>3, <1>6, Zenon DEF Resolved
  <2>2. QED
    BY <1>1, <1>5, <2>1, Zenon
<1>7. CASE p.pcmd # Nothing /\ (Len(p.dbuf) < 2 \/ p.dbuf[1] # p.pcmd[1])
  <2>1. q = Warn(p)
    BY <1>1, <1>7 DEF Resolved
  <2>2. QED
    BY <1>1, <1>5, <2>1, Zenon
<1>8. CASE p.pcmd # Nothing /\ ~(Len(p.dbuf) < 2) /\ p.dbuf[1] = p.pcmd[1]
  <2>1. Len(p.dbuf) >= 2
    <3>1. Len(p.dbuf) \in Nat
      BY <1>2, ParseFields, LenProperties
    <3>2. QED
      BY <1>8, <3>1
  <2>2. q \in {InfoResolved(p), ReadResolved(p), StatusResolved(p), WarnIf(p, body)}
    BY <1>1, <1>3, <1>8 DEF Resolved
  <2>3. ParseInv(StatusResolved(p)) /\ SameHost(p, StatusResolved(p))
    BY <2>1, StatusStep, Zenon
  <2>4. ParseInv(ReadResolved(p)) /\ SameHost(p, ReadResolved(p))
    BY ReadStep, Zenon
  <2>5. ParseInv(InfoResolved(p)) /\ SameHost(p, InfoResolved(p))
    BY InfoStep, Zenon
  <2>6. QED
    BY <1>1, <1>5, <2>2, <2>3, <2>4, <2>5, Zenon
<1>9. QED
  BY <1>6, <1>7, <1>8, Zenon

\* resolve_pending()
LEMMA ResolveStep ==
    ASSUME NEW p, ParseInv(p)
    PROVE  LET new == ResolvePending(p)
           IN /\ ParseInv(new) /\ SameHost(p, new)
              /\ new.pcmd = Nothing /\ new.dbuf = Nothing
<1>1. PICK q : q = Resolved(p)
  OBVIOUS
<1>2. ParseInv(q) /\ SameHost(p, q)
  BY <1>1, ResolvedStep, Zenon
<1>3. PICK new : new = [q EXCEPT !.pcmd = Nothing, !.dbuf = Nothing]
  OBVIOUS
<1>4. q \in ParseType
  BY <1>2, Zenon DEF ParseInv
<1>5. new \in ParseType
  <2>1. Nothing \in Seq(Nat)
    BY EmptySeq DEF Nothing
  <2>2. QED
    BY <1>3, <1>4, <2>1, Zenon DEF ParseType
<1>6. /\ new.inHost = q.inHost /\ new.hbuf = q.hbuf /\ new.cyl = q.cyl
      /\ new.head = q.head /\ new.fifo = q.fifo /\ new.pcmd = Nothing /\ new.dbuf = Nothing
  BY <1>3, <1>4 DEF ParseType
<1>7. new = ResolvePending(p)
  BY <1>1, <1>3, Zenon DEF ResolvePending
<1>8. ParseInv(new) /\ SameHost(p, new)
  BY <1>2, <1>5, <1>6, Zenon DEF ParseInv, SameHost
<1>9. QED
  BY <1>6, <1>7, <1>8, Zenon

\* The command that a host frame holds moves the head within the tracks there are.
LEMMA TrackedStep ==
    ASSUME NEW p, ParseInv(p), NEW frame, HostBytes(frame),
           Len(frame) >= 2, frame[2] = Len(frame)
    PROVE  LET new == Tracked(p, frame)
           IN ParseInv(new) /\ new.inHost = p.inHost /\ new.hbuf = p.hbuf
<1>1. p \in ParseType /\ frame \in Seq(Nat)
  BY Zenon DEF ParseInv, HostBytes
<1>2. PICK cmd, arg : cmd = frame[1] /\ arg = frame[3]
  OBVIOUS
<1>3. cmd \in {CMD_SEEK, CMD_HEAD} => arg \in Nat
  <2> SUFFICES ASSUME cmd \in {CMD_SEEK, CMD_HEAD} PROVE arg \in Nat
    OBVIOUS
  <2>1. Len(frame) = 3
    BY <1>2 DEF HostBytes
  <2>2. 3 \in 1 .. Len(frame)
    BY <2>1
  <2>3. QED
    BY <1>1, <1>2, <2>2, ElementOfSeq
<1>4. CASE cmd = CMD_SEEK /\ arg < MaxTracks
  <2>1. PICK new : new = [p EXCEPT !.cyl = arg]
    OBVIOUS
  <2>2. arg \in 0 .. MaxTracks - 1
    BY <1>3, <1>4, LogAssumption
  <2>3. new \in ParseType
    BY <1>1, <2>1, <2>2, Zenon DEF ParseType
  <2>4. new.inHost = p.inHost /\ new.hbuf = p.hbuf /\ new.fifo = p.fifo
    BY <1>1, <2>1 DEF ParseType
  <2>5. Tracked(p, frame) = new
    <3>1. frame[1] = CMD_SEEK /\ frame[3] < MaxTracks /\ ~(frame[3] >= MaxTracks)
      BY <1>2, <1>3, <1>4, LogAssumption
    <3>2. frame[1] # CMD_HEAD
      BY <3>1 DEF CMD_SEEK, CMD_HEAD
    <3>3. Tracked(p, frame) = [p EXCEPT !.cyl = frame[3]]
      BY <3>1, <3>2, Zenon DEF Tracked
    <3>4. QED
      BY <1>2, <2>1, <3>3, Zenon
  <2>6. QED
    BY <2>3, <2>4, <2>5, Zenon DEF ParseInv
<1>5. CASE cmd = CMD_SEEK /\ ~(arg < MaxTracks)
  <2>1. arg >= MaxTracks
    BY <1>3, <1>5, LogAssumption
  <2>2. Tracked(p, frame) = Warn(p)
    BY <1>2, <1>5, <2>1 DEF Tracked, CMD_SEEK, CMD_HEAD
  <2>3. ParseInv(Warn(p)) /\ SameHost(p, Warn(p))
    BY TRUE \in BOOLEAN, WarnStep, Zenon
  <2>4. QED
    BY <2>2, <2>3, Zenon DEF SameHost
<1>6. CASE cmd = CMD_HEAD
  <2>1. PICK head : head = arg % 2
    OBVIOUS
  <2>2. head \in {0, 1}
    BY <1>3, <1>6, <2>1
  <2>3. PICK new : new = [p EXCEPT !.head = head]
    OBVIOUS
  <2>4. new \in ParseType
    BY <1>1, <2>2, <2>3, Zenon DEF ParseType
  <2>5. new.inHost = p.inHost /\ new.hbuf = p.hbuf /\ new.fifo = p.fifo
    BY <1>1, <2>3 DEF ParseType
  <2>6. Tracked(p, frame) = new
    BY <1>2, <1>6, <2>1, <2>3 DEF Tracked, CMD_SEEK, CMD_HEAD
  <2>7. QED
    BY <2>4, <2>5, <2>6, Zenon DEF ParseInv
<1>7. CASE cmd \notin {CMD_SEEK, CMD_HEAD}
  <2>1. Tracked(p, frame) = p
    BY <1>2, <1>7 DEF Tracked
  <2>2. QED
    BY <2>1, Zenon
<1>8. QED
  BY <1>4, <1>5, <1>6, <1>7, Zenon

\* host_frame()
LEMMA HostFrameStep ==
    ASSUME NEW p, ParseInv(p), NEW frame, HostBytes(frame)
    PROVE  LET new == HostFrame(p, frame)
           IN ParseInv(new) /\ new.inHost = p.inHost /\ new.hbuf = p.hbuf
<1>1. PICK q, t : q = ResolvePending(p) /\ t = Tracked(q, frame)
  OBVIOUS
<1>2. ParseInv(q) /\ SameHost(p, q)
  BY <1>1, ResolveStep, Zenon
<1>3. CASE Len(frame) < 2 \/ Len(frame) > FrameMax \/ frame[2] # Len(frame)
  <2>1. HostFrame(p, frame) = Warn(q)
    BY <1>1, <1>3, Zenon DEF HostFrame
  <2>2. ParseInv(Warn(q)) /\ SameHost(q, Warn(q))
    BY <1>2, TRUE \in BOOLEAN, WarnStep, Zenon
  <2>3. QED
    BY <1>2, <2>1, <2>2, Zenon DEF SameHost
<1>4. CASE ~(Len(frame) < 2 \/ Len(frame) > FrameMax \/ frame[2] # Len(frame))
  <2>1. frame \in Seq(Nat)
    BY Zenon DEF HostBytes
  <2>2. Len(frame) \in Nat
    BY <2>1, LenProperties
  <2>3. Len(frame) >= 2 /\ frame[2] = Len(frame)
    BY <1>4, <2>2
  <2>4. ParseInv(t) /\ t.inHost = q.inHost /\ t.hbuf = q.hbuf
    BY <1>1, <1>2, <2>3, TrackedStep, Zenon
  <2>5. t \in ParseType
    BY <2>4, Zenon DEF ParseInv
  <2>6. PICK cyl, head : cyl = t.cyl /\ head = t.head
    OBVIOUS
  <2>7. cyl \in 0 .. MaxTracks - 1 /\ head \in {0, 1}
    BY <2>5, <2>6, ParseFields
  <2>8. PICK new : new = [t EXCEPT !.pcmd = frame, !.pcyl = cyl, !.phead = head]
    OBVIOUS
  <2>9. HostFrame(p, frame) = new
    BY <1>1, <1>4, <2>6, <2>8, Zenon DEF HostFrame
  <2>10. new \in ParseType
    BY <2>1, <2>5, <2>7, <2>8, Zenon DEF ParseType
  <2>11. new.inHost = t.inHost /\ new.hbuf = t.hbuf /\ new.fifo = t.fifo
    BY <2>5, <2>8 DEF ParseType
  <2>12. ParseInv(new)
    BY <2>4, <2>10, <2>11, Zenon DEF ParseInv
  <2>13. QED
    BY <1>2, <2>4, <2>9, <2>11, <2>12, Zenon DEF SameHost
<1>5. QED
  BY <1>3, <1>4, Zenon

\* The end of a host frame, if one was being read.
LEMMA FrameEndsStep ==
    ASSUME NEW p, ParseInv(p)
    PROVE  LET new == FrameEnds(p)
           IN ParseInv(new) /\ ~new.inHost /\ new.hbuf = Nothing
<1>1. CASE p.inHost
  <2>1. PICK q : q = HostFrame(p, p.hbuf)
    OBVIOUS
  <2>2. ParseInv(q)
    <3>1. PICK frame : frame = p.hbuf
      OBVIOUS
    <3>2. HostBytes(frame)
      BY <3>1, Zenon DEF ParseInv
    <3>3. ParseInv(HostFrame(p, frame))
      BY <3>2, HostFrameStep, Zenon
    <3>4. QED
      BY <2>1, <3>1, <3>3, Zenon
  <2>3. q \in ParseType
    BY <2>2, Zenon DEF ParseInv
  <2>4. PICK new : new = [q EXCEPT !.inHost = FALSE, !.hbuf = Nothing]
    OBVIOUS
  <2>5. Nothing \in Seq(Nat) /\ HostBytes(Nothing)
    BY EmptySeq DEF Nothing, HostBytes
  <2>6. new \in ParseType
    BY <2>3, <2>4, <2>5, Zenon DEF ParseType
  <2>7. new.inHost = FALSE /\ new.hbuf = Nothing /\ new.fifo = q.fifo
    BY <2>3, <2>4 DEF ParseType
  <2>8. FrameEnds(p) = new
    BY <1>1, <2>1, <2>4, Zenon DEF FrameEnds
  <2>9. QED
    BY <2>2, <2>5, <2>6, <2>7, <2>8, Zenon DEF ParseInv
<1>2. CASE ~p.inHost
  <2>1. FrameEnds(p) = p
    BY <1>2, Zenon DEF FrameEnds
  <2>2. QED
    BY <1>2, <2>1, Zenon DEF ParseInv
<1>3. QED
  BY <1>1, <1>2, Zenon

\* The end of the log.
LEMMA EofStep ==
    ASSUME NEW p, ParseInv(p)
    PROVE  ParseInv(TakeEof(p))
<1>1. PICK q : q = FrameEnds(p)
  OBVIOUS
<1>2. ParseInv(q)
  BY <1>1, FrameEndsStep, Zenon
<1>3. ParseInv(ResolvePending(q))
  BY <1>2, ResolveStep, Zenon
<1>4. QED
  BY <1>1, <1>3, Zenon DEF TakeEof

\* One line.  Those of a host frame add up to its bytes.
LEMMA TakeLineStep ==
    ASSUME NEW p, ParseInv(p), NEW l \in LineType,
           l.kind = "host" => HostBytes(l.bytes),
           l.kind = "cont" /\ p.inHost => HostBytes(p.hbuf \o l.bytes)
    PROVE  LET new == TakeLine(p, l)
           IN /\ ParseInv(new)
              /\ l.kind = "host" => new.inHost /\ new.hbuf = l.bytes
              /\ l.kind = "cont" /\ p.inHost => new.inHost /\ new.hbuf = p.hbuf \o l.bytes
              /\ l.kind = "dev" => ~new.inHost
              /\ l.kind = "cont" /\ ~p.inHost => ~new.inHost
<1>1. l.kind \in {"host", "dev", "cont", "junk"} /\ l.bytes \in Seq(Nat)
  BY DEF LineType
<1>2. PICK q : q = IF l.kind = "cont" THEN p ELSE FrameEnds(p)
  OBVIOUS
<1>3. ParseInv(q)
  BY <1>2, FrameEndsStep, Zenon
<1>4. q \in ParseType
  BY <1>3, Zenon DEF ParseInv
<1>5. CASE l.kind = "junk"
  <2>1. TakeLine(p, l) = Warn(p)
    BY <1>5 DEF TakeLine
  <2>2. ParseInv(Warn(p))
    BY TRUE \in BOOLEAN, WarnStep, Zenon
  <2>3. QED
    BY <1>5, <2>1, <2>2
<1>6. CASE l.kind = "host" \/ (l.kind = "cont" /\ q.inHost)
  <2>1. PICK h, more : h = q.hbuf \o l.bytes /\ more = (Len(q.hbuf) + Len(l.bytes) > FrameMax)
    OBVIOUS
  <2>2. more \in BOOLEAN
    BY <2>1
  <2>3. HostBytes(h)
    <3>1. CASE l.kind = "host"
      <4>1. l.kind # "cont"
        BY <3>1
      <4>2. q.hbuf = <<>>
        BY <1>2, <4>1, FrameEndsStep, Zenon DEF Nothing
      <4>3. h = l.bytes
        BY <1>1, <2>1, <4>2, ConcatEmptySeq
      <4>4. QED
        BY <3>1, <4>3
    <3>2. CASE l.kind # "host"
      BY <1>2, <1>6, <2>1, <3>2
    <3>3. QED
      BY <3>1, <3>2
  <2>4. PICK r : r = [q EXCEPT !.hbuf = h, !.inHost = TRUE]
    OBVIOUS
  <2>5. r \in ParseType
    <3>1. h \in Seq(Nat)
      BY <2>3, Zenon DEF HostBytes
    <3>2. QED
      BY <1>4, <2>4, <3>1, Zenon DEF ParseType
  <2>6. r.inHost = TRUE /\ r.hbuf = h /\ r.fifo = q.fifo
    BY <1>4, <2>4 DEF ParseType
  <2>7. ParseInv(r)
    BY <1>3, <2>3, <2>5, <2>6, Zenon DEF ParseInv
  <2>8. TakeLine(p, l) = WarnIf(r, more)
    <3>1. l.kind # "junk"
      BY <1>6
    <3>2. TakeLine(p, l) = WarnIf([q EXCEPT !.hbuf = @ \o l.bytes, !.inHost = TRUE], more)
      BY <1>2, <1>6, <2>1, <3>1 DEF TakeLine
    <3>3. QED
      BY <2>1, <2>4, <3>2, Zenon
  <2>9. ParseInv(WarnIf(r, more)) /\ SameHost(r, WarnIf(r, more))
    BY <2>2, <2>7, WarnStep, Zenon
  <2>10. l.kind = "host" => h = l.bytes
    <3> SUFFICES ASSUME l.kind = "host" PROVE h = l.bytes
      OBVIOUS
    <3>1. l.kind # "cont"
      OBVIOUS
    <3>2. q.hbuf = <<>>
      BY <1>2, <3>1, FrameEndsStep, Zenon DEF Nothing
    <3>3. QED
      BY <1>1, <2>1, <3>2, ConcatEmptySeq
  <2>11. l.kind = "cont" => h = p.hbuf \o l.bytes /\ p.inHost
    BY <1>2, <1>6, <2>1
  <2>12. PICK new : new = TakeLine(p, l)
    OBVIOUS
  <2>13. ParseInv(new) /\ new.inHost = TRUE /\ new.hbuf = h
    BY <2>6, <2>8, <2>9, <2>12, Zenon DEF SameHost
  <2>14. QED
    BY <1>6, <2>10, <2>11, <2>12, <2>13
<1>7. CASE l.kind = "dev" \/ (l.kind = "cont" /\ ~q.inHost)
  <2>1. PICK bytes : bytes = q.dbuf \o l.bytes
    OBVIOUS
  <2>2. bytes \in Seq(Nat)
    BY <1>1, <1>4, <2>1, ParseFields, ConcatProperties
  <2>3. PICK new : new = [q EXCEPT !.dbuf = bytes]
    OBVIOUS
  <2>4. new \in ParseType
    BY <1>4, <2>2, <2>3, Zenon DEF ParseType
  <2>5. new.inHost = q.inHost /\ new.hbuf = q.hbuf /\ new.fifo = q.fifo
    BY <1>4, <2>3 DEF ParseType
  <2>6. ParseInv(new)
    BY <1>3, <2>4, <2>5, Zenon DEF ParseInv
  <2>7. TakeLine(p, l) = new
    <3>1. l.kind # "junk" /\ ~(l.kind = "host" \/ (l.kind = "cont" /\ q.inHost))
      BY <1>7
    <3>2. TakeLine(p, l) = [q EXCEPT !.dbuf = @ \o l.bytes]
      BY <1>2, <3>1, Zenon DEF TakeLine
    <3>3. QED
      BY <2>1, <2>3, <3>2, Zenon
  <2>8. ~q.inHost
    <3>1. CASE l.kind = "dev"
      <4>1. l.kind # "cont"
        BY <3>1
      <4>2. QED
        BY <1>2, <4>1, FrameEndsStep, Zenon
    <3>2. CASE l.kind # "dev"
      BY <1>7, <3>2
    <3>3. QED
      BY <3>1, <3>2
  <2>9. l.kind \in {"dev", "cont"} /\ (l.kind = "cont" => ~p.inHost)
    BY <1>2, <1>7, <2>8
  <2>10. QED
    BY <2>5, <2>6, <2>7, <2>8, <2>9
<1>8. QED
  BY <1>1, <1>5, <1>6, <1>7

-----------------------------------------------------------------------------
(* The lines of a transfer.                                                *)

\* What the parser has become after each of the lines.
Taking(f, p, lines) ==
    /\ f[0] = p
    /\ \A k \in 1 .. Len(lines) : f[k] = TakeLine(f[k - 1], lines[k])

\* The recursion over the lines of a log has a solution.
LEMMA TakingExists ==
    ASSUME NEW p, NEW lines, Len(lines) \in Nat
    PROVE  \E f : Taking(f, p, lines) /\ f = [k \in 0 .. Len(lines) |-> f[k]]
<1> DEFINE Upto(m) == \E f : /\ f[0] = p
                             /\ \A k \in 1 .. m : f[k] = TakeLine(f[k - 1], lines[k])
                             /\ f = [k \in 0 .. m |-> f[k]]
           S == {m \in Nat : Upto(m)}
<1>1. 0 \in S
  <2>1. PICK f : f = [k \in 0 .. 0 |-> p]
    OBVIOUS
  <2>2. f[0] = p /\ f = [k \in 0 .. 0 |-> f[k]] /\ 1 .. 0 = {}
    BY <2>1
  <2>3. Upto(0)
    BY <2>2
  <2>4. QED
    BY <2>3
<1>2. ASSUME NEW m \in Nat, m \in S
      PROVE  m + 1 \in S
  <2>1. PICK f : /\ f[0] = p
                 /\ \A k \in 1 .. m : f[k] = TakeLine(f[k - 1], lines[k])
    BY <1>2
  <2>2. PICK v : v = TakeLine(f[m], lines[m + 1])
    OBVIOUS
  <2>3. PICK g : g = [i \in 0 .. m + 1 |-> IF i = m + 1 THEN v ELSE f[i]]
    OBVIOUS
  <2>4. g[m + 1] = v /\ \A i \in 0 .. m : g[i] = f[i]
    BY <2>3
  <2>5. g[0] = p
    BY <2>1, <2>4
  <2>6. ASSUME NEW k \in 1 .. m + 1
        PROVE  g[k] = TakeLine(g[k - 1], lines[k])
    <3>1. CASE k = m + 1
      <4>1. k - 1 = m /\ m \in 0 .. m
        BY <3>1
      <4>2. g[k - 1] = f[m] /\ g[k] = v
        BY <2>4, <3>1, <4>1
      <4>3. QED
        BY <2>2, <3>1, <4>2, Zenon
    <3>2. CASE k # m + 1
      <4>1. k \in 1 .. m /\ k \in 0 .. m /\ k - 1 \in 0 .. m
        BY <3>2
      <4>2. g[k] = f[k] /\ g[k - 1] = f[k - 1]
        BY <2>4, <4>1
      <4>3. QED
        BY <2>1, <4>1, <4>2, Zenon
    <3>3. QED
      BY <3>1, <3>2
  <2>7. g = [i \in 0 .. m + 1 |-> g[i]]
    BY <2>3
  <2>8. PICK n : n = m + 1
    OBVIOUS
  <2>9. Upto(n)
    <3>1. \A k \in 1 .. n : g[k] = TakeLine(g[k - 1], lines[k])
      BY <2>6, <2>8
    <3>2. g = [i \in 0 .. n |-> g[i]]
      BY <2>7, <2>8
    <3>3. QED
      BY <2>5, <3>1, <3>2, Zenon
  <2>10. QED
    <3> HIDE DEF Upto
    <3>1. n \in Nat
      BY <2>8
    <3>2. QED
      BY <2>8, <2>9, <3>1
<1>3. Nat \subseteq S
  <2> HIDE DEF S
  <2> QED
    BY <1>1, <1>2, SetInduction
<1>4. Upto(Len(lines))
  <2> HIDE DEF Upto
  <2> QED
    BY <1>3
<1>5. QED
  BY <1>4, Zenon DEF Taking

\* Two solutions agree.
LEMMA TakingUnique ==
    ASSUME NEW p, NEW lines, Len(lines) \in Nat,
           NEW f, Taking(f, p, lines), NEW g, Taking(g, p, lines)
    PROVE  \A k \in 0 .. Len(lines) : f[k] = g[k]
<1> DEFINE S == {k \in Nat : k <= Len(lines) => f[k] = g[k]}
<1>1. 0 \in S
  BY Zenon DEF Taking
<1>2. ASSUME NEW k \in Nat, k \in S PROVE k + 1 \in S
  <2> SUFFICES ASSUME k + 1 <= Len(lines) PROVE f[k + 1] = g[k + 1]
    OBVIOUS
  <2>1. PICK j : j = k + 1
    OBVIOUS
  <2>2. j \in 1 .. Len(lines) /\ j - 1 = k /\ f[k] = g[k]
    BY <1>2, <2>1
  <2>3. f[j] = TakeLine(f[j - 1], lines[j]) /\ g[j] = TakeLine(g[j - 1], lines[j])
    BY <2>2, Zenon DEF Taking
  <2>4. f[j] = g[j]
    BY <2>2, <2>3, Zenon
  <2>5. QED
    BY <2>1, <2>4
<1>3. Nat \subseteq S
  <2> HIDE DEF S
  <2> QED
    BY <1>1, <1>2, SetInduction
<1>4. QED
  BY <1>3

\* TakeLines() is the last of them.
LEMMA TakeLinesIs ==
    ASSUME NEW p, NEW lines, Len(lines) \in Nat, NEW f, Taking(f, p, lines)
    PROVE  TakeLines(p, lines) = f[Len(lines)]
<1> DEFINE Step(g, k) == IF k = 0 THEN p ELSE TakeLine(g[k - 1], lines[k])
           Solves(g) == g = [k \in 0 .. Len(lines) |-> Step(g, k)]
<1>1. PICK h : Taking(h, p, lines) /\ h = [k \in 0 .. Len(lines) |-> h[k]]
  BY TakingExists, Zenon
<1>2. Solves(h)
  <2>1. \A k \in 0 .. Len(lines) : h[k] = Step(h, k)
    <3> TAKE k \in 0 .. Len(lines)
    <3>1. CASE k = 0
      BY <1>1, <3>1, Zenon DEF Taking
    <3>2. CASE k # 0
      <4>1. k \in 1 .. Len(lines)
        BY <3>2
      <4>2. QED
        BY <1>1, <3>2, <4>1, Zenon DEF Taking
    <3>3. QED
      BY <3>1, <3>2, Zenon
  <2> HIDE DEF Step
  <2>2. QED
    BY <1>1, <2>1, Zenon
<1>3. PICK g : g = CHOOSE u : Solves(u)
  OBVIOUS
<1>4. Solves(g)
  <2> HIDE DEF Solves
  <2> QED
    BY <1>2, <1>3, Zenon
<1>5. TakeLines(p, lines) = g[Len(lines)]
  BY <1>3, Zenon DEF TakeLines
<1>6. \A k \in 0 .. Len(lines) : g[k] = Step(g, k)
  <2> HIDE DEF Step
  <2> QED
    BY <1>4, Zenon
<1>7. Taking(g, p, lines)
  <2>1. g[0] = p
    <3>1. 0 \in 0 .. Len(lines)
      OBVIOUS
    <3>2. QED
      BY <1>6, <3>1, Zenon
  <2>2. ASSUME NEW k \in 1 .. Len(lines)
        PROVE  g[k] = TakeLine(g[k - 1], lines[k])
    <3>1. k \in 0 .. Len(lines) /\ k # 0
      OBVIOUS
    <3>2. QED
      BY <1>6, <3>1, Zenon
  <2>3. QED
    BY <2>1, <2>2, Zenon DEF Taking
<1>8. f[Len(lines)] = g[Len(lines)]
  <2>1. Len(lines) \in 0 .. Len(lines)
    OBVIOUS
  <2>2. \A k \in 0 .. Len(lines) : f[k] = g[k]
    <3>1. Len(lines) \in Nat /\ Taking(f, p, lines) /\ Taking(g, p, lines)
      BY <1>7
    <3>2. QED
      BY <3>1, TakingUnique
  <2>3. QED
    BY <2>1, <2>2, Zenon
<1>9. QED
  BY <1>5, <1>8

\* One more line.
LEMMA TakeLinesAppend ==
    ASSUME NEW p, NEW lines \in Seq(LineType), NEW l \in LineType
    PROVE  TakeLines(p, Append(lines, l)) = TakeLine(TakeLines(p, lines), l)
<1>1. PICK more : more = Append(lines, l)
  OBVIOUS
<1>2. PICK n : n = Len(lines)
  OBVIOUS
<1>3. /\ n \in Nat /\ Len(more) = n + 1 /\ more[n + 1] = l
      /\ \A i \in 1 .. n : more[i] = lines[i]
  BY <1>1, <1>2, AppendProperties, LenProperties
<1>4. PICK f : Taking(f, p, more)
  <2>1. Len(more) \in Nat
    BY <1>3
  <2>2. QED
    BY <2>1, TakingExists, Zenon
<1>5. Taking(f, p, lines)
  <2>1. f[0] = p
    BY <1>4, Zenon DEF Taking
  <2>2. ASSUME NEW k \in 1 .. n
        PROVE  f[k] = TakeLine(f[k - 1], lines[k])
    <3>1. k \in 1 .. Len(more)
      BY <1>3
    <3>2. QED
      BY <1>3, <1>4, <3>1, Zenon DEF Taking
  <2>3. QED
    BY <1>2, <2>1, <2>2, Zenon DEF Taking
<1>6. TakeLines(p, lines) = f[n]
  BY <1>2, <1>3, <1>5, TakeLinesIs, Zenon
<1>7. TakeLines(p, more) = f[n + 1]
  <2>1. Len(more) \in Nat
    BY <1>3
  <2>2. TakeLines(p, more) = f[Len(more)]
    BY <1>4, <2>1, TakeLinesIs, Zenon
  <2>3. QED
    BY <1>3, <2>2
<1>8. f[n + 1] = TakeLine(f[n], l)
  <2>1. PICK j : j = n + 1
    OBVIOUS
  <2>2. j \in 1 .. Len(more) /\ j - 1 = n /\ more[j] = l
    BY <1>3, <2>1
  <2>3. f[j] = TakeLine(f[j - 1], more[j])
    BY <1>4, <2>2, Zenon DEF Taking
  <2>4. QED
    BY <2>1, <2>2, <2>3
<1>9. QED
  BY <1>1, <1>6, <1>7, <1>8

\* lines hold bytes, cut anywhere.
LinesOf(lines, kind, bytes) ==
    \E cut \in [0 .. Len(lines) -> 0 .. Len(bytes)] :
        /\ cut[0] = 0
        /\ \A k \in 1 .. Len(lines) :
              /\ cut[k - 1] <= cut[k]
              /\ lines[k] = [kind  |-> IF k = 1 THEN kind ELSE "cont",
                             bytes |-> SubSeq(bytes, cut[k - 1] + 1, cut[k])]

\* lines hold the first m bytes, cut anywhere.
LinesTo(lines, kind, bytes, m) ==
    \E cut \in [0 .. Len(lines) -> 0 .. Len(bytes)] :
        /\ cut[0] = 0 /\ cut[Len(lines)] = m
        /\ \A k \in 1 .. Len(lines) :
              /\ cut[k - 1] <= cut[k]
              /\ lines[k] = [kind  |-> IF k = 1 THEN kind ELSE "cont",
                             bytes |-> SubSeq(bytes, cut[k - 1] + 1, cut[k])]

\* lines hold bytes, at least one on each.
DumpOf(lines, kind, bytes) ==
    \E cut \in [0 .. Len(lines) -> 0 .. Len(bytes)] :
        /\ cut[0] = 0
        /\ \A k \in 1 .. Len(lines) :
              /\ cut[k - 1] < cut[k]
              /\ lines[k] = [kind  |-> IF k = 1 THEN kind ELSE "cont",
                             bytes |-> SubSeq(bytes, cut[k - 1] + 1, cut[k])]

\* lines hold the first bytes, but not all of them.
LinesPart(lines, kind, bytes) ==
    \E m \in 0 .. Len(bytes) : m < Len(bytes) /\ LinesTo(lines, kind, bytes, m)

\* The first bytes of a host frame.
LEMMA HostPrefix ==
    ASSUME NEW bytes, HostBytes(bytes), NEW m \in 0 .. Len(bytes)
    PROVE  HostBytes(SubSeq(bytes, 1, m))
<1>1. bytes \in Seq(Nat)
  BY Zenon DEF HostBytes
<1>2. \A i \in 1 .. m : bytes[i] \in Nat
  BY <1>1, ElementOfSeq, LenProperties
<1>3. PICK h : h = SubSeq(bytes, 1, m)
  OBVIOUS
<1>4. h \in Seq(Nat) /\ Len(h) = m /\ \A i \in 1 .. m : h[i] = bytes[i]
  <2>1. m \in Nat
    BY <1>1, LenProperties
  <2>2. QED
    BY <1>2, <1>3, <2>1, SubSeqProperties
<1>5. Len(h) >= 2 /\ h[1] \in {CMD_SEEK, CMD_HEAD} => h[2] = 3
  <2> SUFFICES ASSUME Len(h) >= 2, h[1] \in {CMD_SEEK, CMD_HEAD} PROVE h[2] = 3
    OBVIOUS
  <2>1. Len(bytes) \in Nat /\ m \in Nat
    BY <1>1, LenProperties
  <2>2. 1 \in 1 .. m /\ 2 \in 1 .. m /\ Len(bytes) >= 2
    BY <1>4, <2>1
  <2>3. QED
    BY <1>4, <2>2 DEF HostBytes
<1>6. QED
  BY <1>3, <1>4, <1>5 DEF HostBytes

\* A transfer, or the beginning of one, leaves the parser as it should be.
LEMMA LinesTaken ==
    ASSUME NEW p, ParseInv(p), NEW kind \in {"host", "dev"}, NEW bytes \in Seq(Nat),
           kind = "host" => HostBytes(bytes),
           NEW lines \in Seq(LineType), LinesOf(lines, kind, bytes)
    PROVE  ParseInv(TakeLines(p, lines))
<1>1. PICK n : n = Len(lines)
  OBVIOUS
<1>2. n \in Nat /\ Len(bytes) \in Nat
  BY <1>1, LenProperties
<1>3. PICK cut \in [0 .. n -> 0 .. Len(bytes)] :
        /\ cut[0] = 0
        /\ \A k \in 1 .. n :
              /\ cut[k - 1] <= cut[k]
              /\ lines[k] = [kind  |-> IF k = 1 THEN kind ELSE "cont",
                             bytes |-> SubSeq(bytes, cut[k - 1] + 1, cut[k])]
  BY <1>1, Zenon DEF LinesOf
<1>4. PICK f : Taking(f, p, lines)
  BY <1>1, <1>2, TakingExists
<1> DEFINE Upto(k) == IF kind = "host" THEN f[k].inHost /\ f[k].hbuf = SubSeq(bytes, 1, cut[k])
                                       ELSE ~f[k].inHost
           S == {k \in Nat : k <= n => ParseInv(f[k]) /\ (k > 0 => Upto(k))}
<1>5. 0 \in S
  BY <1>4 DEF Taking
<1>6. ASSUME NEW k \in Nat, k \in S PROVE k + 1 \in S
  <2> SUFFICES ASSUME k + 1 <= n PROVE ParseInv(f[k + 1]) /\ Upto(k + 1)
    OBVIOUS
  <2>1. PICK j \in 1 .. n : j = k + 1
    BY <1>2
  <2>2. j - 1 = k /\ k \in 0 .. n /\ j \in 0 .. n
    BY <1>2, <2>1
  <2>3. PICK a, b : a = cut[k] /\ b = cut[j]
    OBVIOUS
  <2>4. a \in 0 .. Len(bytes) /\ b \in 0 .. Len(bytes) /\ a <= b
    <3>1. a \in 0 .. Len(bytes) /\ b \in 0 .. Len(bytes)
      BY <1>3, <2>2, <2>3
    <3>2. cut[j - 1] <= cut[j]
      BY <1>3, <2>1, Zenon
    <3>3. QED
      BY <2>2, <2>3, <3>1, <3>2
  <2>5. PICK q, l, part : q = f[k] /\ l = lines[j] /\ part = SubSeq(bytes, a + 1, b)
    OBVIOUS
  <2>6. l = [kind |-> IF j = 1 THEN kind ELSE "cont", bytes |-> part]
    BY <1>3, <2>2, <2>3, <2>5
  <2>7. f[j] = TakeLine(q, l)
    BY <1>1, <1>4, <2>2, <2>5 DEF Taking
  <2>8. part \in Seq(Nat) /\ SubSeq(bytes, 1, a) \o part = SubSeq(bytes, 1, b)
    <3>1. SubSeq(bytes, 1, a) \o SubSeq(bytes, a + 1, b) = SubSeq(bytes, 1, b)
      <4>1. 1 \in 1 .. Len(bytes) + 1 /\ a \in 1 - 1 .. Len(bytes) /\ b \in a .. Len(bytes)
        BY <1>2, <2>4
      <4>2. QED
        BY <4>1, ConcatAdjacentSubSeq
    <3>2. \A i \in a + 1 .. b : bytes[i] \in Nat
      BY <1>2, <2>4, ElementOfSeq, SMTT(60)
    <3>3. part \in Seq(Nat)
      BY <2>4, <2>5, <3>2, SubSeqProperties
    <3>4. QED
      BY <2>5, <3>1, <3>3
  <2>9. l \in LineType /\ l.bytes = part /\ l.kind = (IF j = 1 THEN kind ELSE "cont")
    BY <2>6, <2>8 DEF LineType
  <2>10. ParseInv(q) /\ (k > 0 => Upto(k))
    BY <1>6, <2>2, <2>5
  <2>11. kind = "host" => HostBytes(SubSeq(bytes, 1, b))
    BY <2>4, HostPrefix
  <2>12. CASE j = 1
    <3>1. l.kind = kind /\ k = 0
      BY <2>1, <2>9, <2>12
    <3>2. a = 0
      BY <1>3, <2>3, <3>1
    <3>3. part = SubSeq(bytes, 1, b)
      BY <2>5, <3>2
    <3>4. kind = "host" => HostBytes(l.bytes)
      BY <2>9, <2>11, <3>3
    <3>5. l.kind # "cont"
      BY <3>1
    <3>6. /\ ParseInv(TakeLine(q, l))
          /\ l.kind = "host" => TakeLine(q, l).inHost /\ TakeLine(q, l).hbuf = l.bytes
          /\ l.kind = "dev" => ~TakeLine(q, l).inHost
      BY <2>9, <2>10, <3>1, <3>4, <3>5, TakeLineStep, Zenon
    <3>7. ParseInv(f[j]) /\ Upto(j)
      BY <2>3, <2>7, <2>9, <3>1, <3>3, <3>6
    <3>8. QED
      BY <2>1, <3>7
  <2>13. CASE j # 1
    <3>1. l.kind = "cont" /\ k > 0
      BY <2>1, <2>9, <2>13
    <3>2. Upto(k)
      BY <2>10, <3>1
    <3>3. kind = "host" => q.inHost /\ q.hbuf = SubSeq(bytes, 1, a)
      BY <2>3, <2>5, <3>2
    <3>4. kind = "dev" => ~q.inHost
      BY <2>5, <3>2
    <3>5. q.inHost => HostBytes(q.hbuf \o l.bytes)
      BY <2>8, <2>9, <2>11, <3>3, <3>4
    <3>6. l.kind # "host"
      BY <3>1
    <3>7. /\ ParseInv(TakeLine(q, l))
          /\ q.inHost => TakeLine(q, l).inHost /\ TakeLine(q, l).hbuf = q.hbuf \o l.bytes
          /\ ~q.inHost => ~TakeLine(q, l).inHost
      BY <2>9, <2>10, <3>1, <3>5, <3>6, TakeLineStep, Zenon
    <3>8. ParseInv(f[j]) /\ Upto(j)
      BY <2>3, <2>7, <2>8, <2>9, <3>3, <3>4, <3>7
    <3>9. QED
      BY <2>1, <3>8
  <2>14. QED
    BY <2>12, <2>13
<1>7. n \in S
  <2>1. Nat \subseteq S
    <3> HIDE DEF S
    <3> QED
      BY <1>5, <1>6, SetInduction
  <2>2. QED
    BY <1>2, <2>1
<1>8. ParseInv(f[n])
  BY <1>7
<1>9. TakeLines(p, lines) = f[n]
  BY <1>1, <1>2, <1>4, TakeLinesIs, Zenon
<1>10. QED
  BY <1>8, <1>9

\* Rounding a division by LineLen up.
LEMMA RoundedUp ==
    ASSUME NEW n \in Nat, NEW k \in Nat, k < (n + LineLen - 1) \div LineLen
    PROVE  k * LineLen < n
<1>1. PICK q \in Nat : q = LineLen /\ q > 0
  BY LogAssumption
<1>2. PICK d : d = (n + q - 1) \div q
  OBVIOUS
<1>3. d \in Int /\ d * q <= n + q - 1
  BY <1>1, <1>2
<1>4. (k + 1) * q <= d * q
  <2>1. k + 1 <= d
    BY <1>1, <1>2, <1>3
  <2>2. QED
    BY <1>1, <1>3, <2>1
<1>5. (k + 1) * q = k * q + q
  BY <1>1
<1>6. k * q \in Nat
  BY <1>1
<1>7. k * q < n
  BY <1>1, <1>3, <1>4, <1>5, <1>6
<1>8. QED
  BY <1>1, <1>7

\* The dump of a transfer holds its bytes.
LEMMA DumpIs ==
    ASSUME NEW kind \in {"host", "dev"}, NEW bytes \in Seq(Nat)
    PROVE  /\ Dump(kind, bytes) \in Seq(LineType)
           /\ LinesOf(Dump(kind, bytes), kind, bytes)
           /\ DumpOf(Dump(kind, bytes), kind, bytes)
           /\ LinesTo(Dump(kind, bytes), kind, bytes, Len(bytes))
           /\ Len(bytes) > 0 => Len(Dump(kind, bytes)) > 0
<1>1. PICK n : n = Len(bytes)
  OBVIOUS
<1>2. PICK q \in Nat : q = LineLen /\ q > 0
  BY LogAssumption
<1>3. PICK m : m = (n + q - 1) \div q
  OBVIOUS
<1>4. n \in Nat /\ m \in Nat
  <2>1. n \in Nat
    BY <1>1, LenProperties
  <2>2. QED
    BY <1>2, <1>3, <2>1
<1> DEFINE Least(k) == IF k * q <= n THEN k * q ELSE n
<1>5. \A k \in Nat : k * q \in Nat /\ Least(k) \in 0 .. n /\ Min({k * q, n}) = Least(k)
  <2> TAKE k \in Nat
  <2>1. PICK x \in Nat : x = k * q
    BY <1>2
  <2>2. PICK y \in Nat : y = Least(k)
    BY <1>4, <2>1
  <2>3. y \in {x, n} /\ \A z \in {x, n} : y <= z
    BY <1>4, <2>1, <2>2
  <2>4. Min({x, n}) = y
    <3>1. PICK w : w = Min({x, n})
      OBVIOUS
    <3>2. w \in {x, n} /\ \A z \in {x, n} : w <= z
      BY <2>3, <3>1 DEF Min
    <3>3. QED
      BY <1>4, <2>3, <3>1, <3>2
  <2>5. QED
    BY <1>4, <2>1, <2>2, <2>4
<1>6. \A k \in 1 .. m : Least(k - 1) = (k - 1) * q /\ Least(k - 1) < Least(k)
  <2> TAKE k \in 1 .. m
  <2>1. PICK j \in Nat : j = k - 1
    BY <1>4
  <2>2. j < (n + LineLen - 1) \div LineLen
    BY <1>2, <1>3, <1>4, <2>1
  <2>3. j * q < n
    BY <1>2, <1>4, <2>2, RoundedUp
  <2>4. k * q = j * q + q /\ j * q \in Nat
    BY <1>2, <2>1
  <2>5. QED
    BY <1>2, <1>4, <2>1, <2>3, <2>4
<1>7. PICK cut : cut = [k \in 0 .. m |-> Least(k)]
  OBVIOUS
<1>8. /\ cut \in [0 .. m -> 0 .. n] /\ cut[0] = 0
      /\ \A k \in 0 .. m : cut[k] = Least(k)
  <2>1. \A k \in 0 .. m : k \in Nat
    BY <1>4
  <2>2. Least(0) = 0
    BY <1>2, <1>4
  <2>3. 0 \in 0 .. m
    BY <1>4
  <2> HIDE DEF Least
  <2>4. QED
    BY <1>5, <1>7, <2>1, <2>2, <2>3
<1>9. PICK lines : lines = Dump(kind, bytes)
  OBVIOUS
<1>10. lines = [k \in 1 .. m |->
                  [kind  |-> IF k = 1 THEN kind ELSE "cont",
                   bytes |-> SubSeq(bytes, (k - 1) * q + 1, Min({k * q, n}))]]
  BY <1>1, <1>2, <1>3, <1>9, Zenon DEF Dump
<1>11. \A k \in 1 .. m :
          lines[k] = [kind  |-> IF k = 1 THEN kind ELSE "cont",
                      bytes |-> SubSeq(bytes, cut[k - 1] + 1, cut[k])]
  <2> TAKE k \in 1 .. m
  <2>1. k \in Nat /\ k \in 0 .. m /\ k - 1 \in 0 .. m
    BY <1>4
  <2>2. lines[k] = [kind  |-> IF k = 1 THEN kind ELSE "cont",
                    bytes |-> SubSeq(bytes, (k - 1) * q + 1, Min({k * q, n}))]
    BY <1>10, Zenon
  <2>3. cut[k - 1] = (k - 1) * q /\ cut[k] = Min({k * q, n})
    <3>1. cut[k - 1] = Least(k - 1) /\ cut[k] = Least(k)
      BY <1>8, <2>1, Zenon
    <3>2. Least(k - 1) = (k - 1) * q
      BY <1>6, Zenon
    <3>3. Min({k * q, n}) = Least(k)
      BY <1>5, <2>1, Zenon
    <3>4. QED
      BY <3>1, <3>2, <3>3, Zenon
  <2>4. QED
    BY <2>2, <2>3, Zenon
<1>12. \A k \in 1 .. m : cut[k - 1] < cut[k] /\ cut[k - 1] <= cut[k]
  <2> TAKE k \in 1 .. m
  <2>1. k \in 0 .. m /\ k - 1 \in 0 .. m
    BY <1>4
  <2>2. cut[k - 1] = Least(k - 1) /\ cut[k] = Least(k)
    BY <1>8, <2>1, Zenon
  <2>3. Least(k - 1) < Least(k)
    BY <1>6, Zenon
  <2>4. cut[k - 1] < cut[k]
    BY <2>2, <2>3, Zenon
  <2>5. cut[k - 1] \in Nat /\ cut[k] \in Nat
    BY <1>4, <1>8, <2>1
  <2>6. QED
    BY <2>4, <2>5
<1>13. Len(lines) = m
  BY <1>4, <1>10
<1>14. lines \in Seq(LineType)
  <2>1. \A k \in 1 .. m : lines[k] \in LineType
    <3> TAKE k \in 1 .. m
    <3>1. PICK a, b : a = cut[k - 1] /\ b = cut[k]
      OBVIOUS
    <3>2. a \in 0 .. n /\ b \in 0 .. n
      <4>1. k \in 0 .. m /\ k - 1 \in 0 .. m
        BY <1>4
      <4>2. QED
        BY <1>8, <3>1, <4>1
    <3>3. \A i \in a + 1 .. b : bytes[i] \in Nat
      BY <1>1, <1>4, <3>2, ElementOfSeq
    <3>4. PICK part : part = SubSeq(bytes, a + 1, b)
      OBVIOUS
    <3>5. part \in Seq(Nat)
      BY <3>2, <3>3, <3>4, SubSeqProperties
    <3>6. lines[k] = [kind |-> IF k = 1 THEN kind ELSE "cont", bytes |-> part]
      BY <1>11, <3>1, <3>4, Zenon
    <3>7. QED
      BY <3>5, <3>6 DEF LineType
  <2>2. lines = [k \in 1 .. m |-> lines[k]]
    BY <1>10
  <2>3. lines \in [1 .. m -> LineType]
    BY <2>1, <2>2
  <2>4. QED
    BY <1>4, <2>3
<1>15. LinesOf(lines, kind, bytes)
  BY <1>1, <1>8, <1>11, <1>12, <1>13, Zenon DEF LinesOf
<1>16. DumpOf(lines, kind, bytes)
  BY <1>1, <1>8, <1>11, <1>12, <1>13, Zenon DEF DumpOf
<1>17. n <= m * q
  <2>1. m * q > (n + q - 1) - q
    BY <1>2, <1>3, <1>4
  <2>2. QED
    BY <1>2, <1>4, <2>1
<1>18. cut[Len(lines)] = Len(bytes)
  <2>1. Least(m) = n
    BY <1>2, <1>4, <1>17
  <2>2. m \in 0 .. m
    BY <1>4
  <2>3. QED
    BY <1>1, <1>8, <1>13, <2>1, <2>2, Zenon
<1>19. LinesTo(lines, kind, bytes, Len(bytes))
  BY <1>1, <1>8, <1>11, <1>12, <1>13, <1>18, Zenon DEF LinesTo
<1>20. n > 0 => m > 0
  <2> SUFFICES ASSUME n > 0, m = 0 PROVE FALSE
    BY <1>4
  <2>1. m * q = 0
    BY <1>2
  <2>2. QED
    BY <1>4, <1>17, <2>1
<1>21. QED
  BY <1>1, <1>9, <1>13, <1>14, <1>15, <1>19, <1>20, <1>16

\* The bytes of a part, and its first ones.
LEMMA PartOf ==
    ASSUME NEW bytes \in Seq(Nat),
           NEW a \in 0 .. Len(bytes), NEW b \in 0 .. Len(bytes), a <= b
    PROVE  /\ SubSeq(bytes, a + 1, b) \in Seq(Nat)
           /\ Len(SubSeq(bytes, a + 1, b)) = b - a
           /\ \A k \in 0 .. b - a :
                 SubSeq(SubSeq(bytes, a + 1, b), 1, k) = SubSeq(bytes, a + 1, a + k)
<1>1. PICK n \in Nat : n = Len(bytes)
  BY LenProperties
<1>2. a \in Nat /\ b \in Nat /\ b <= n
  BY <1>1
<1>3. PICK part : part = SubSeq(bytes, a + 1, b)
  OBVIOUS
<1>4. part \in Seq(Nat) /\ Len(part) = b - a
  <2>1. \A i \in a + 1 .. b : bytes[i] \in Nat
    BY <1>1, <1>2, ElementOfSeq
  <2>2. part \in Seq(Nat) /\ Len(part) = (IF a + 1 <= b THEN b - (a + 1) + 1 ELSE 0)
    BY <1>2, <1>3, <2>1, SubSeqProperties
  <2>3. QED
    BY <1>2, <2>2
<1>5. \A k \in 0 .. b - a : SubSeq(part, 1, k) = SubSeq(bytes, a + 1, a + k)
  BY <1>1, <1>2, <1>3, <1>4
<1>6. QED
  BY <1>3, <1>4, <1>5

\* q is what the parser makes of a transfer without its last byte, after which the log may
\* end with something that is no line.
TookPart(p, q, kind, bytes) ==
    \E part \in Seq(LineType) :
        /\ LinesPart(part, kind, bytes)
        /\ q = TakeLines(p, part) \/ q = Warn(TakeLines(p, part))

\* A log that breaks off in a transfer, or in the middle of one of its lines.
LEMMA PartTaken ==
    ASSUME NEW p, NEW kind \in {"host", "dev"}, NEW bytes \in Seq(Nat),
           NEW lines \in Seq(LineType), DumpOf(lines, kind, bytes),
           NEW n \in 1 .. Len(lines),
           NEW stump \in {Nothing} \cup {<<l>> : l \in Stumps(lines[n])}
    PROVE  TookPart(p, TakeLines(p, SubSeq(lines, 1, n - 1) \o stump), kind, bytes)
<1>1. PICK whole, all, room : whole = SubSeq(lines, 1, n - 1) /\ all = Len(lines) /\ room = Len(bytes)
  OBVIOUS
<1>2. /\ all \in Nat /\ room \in Nat /\ n \in 1 .. all /\ n \in Nat /\ n - 1 \in Nat
      /\ \A i \in 1 .. all : lines[i] \in LineType
  BY <1>1, LenProperties, ElementOfSeq
<1>3. whole \in Seq(LineType) /\ Len(whole) = n - 1 /\ \A i \in 1 .. n - 1 : whole[i] = lines[i]
  <2>1. \A i \in 1 .. n - 1 : lines[i] \in LineType
    BY <1>2
  <2>2. QED
    BY <1>1, <1>2, <2>1, SubSeqProperties
<1>4. PICK cut \in [0 .. all -> 0 .. room] :
        /\ cut[0] = 0
        /\ \A k \in 1 .. all :
              /\ cut[k - 1] < cut[k]
              /\ lines[k] = [kind  |-> IF k = 1 THEN kind ELSE "cont",
                             bytes |-> SubSeq(bytes, cut[k - 1] + 1, cut[k])]
  BY <1>1, Zenon DEF DumpOf
<1>5. \A k \in 1 .. all : /\ k - 1 \in 0 .. all /\ k \in 0 .. all
                         /\ cut[k - 1] \in 0 .. room /\ cut[k] \in 0 .. room
                         /\ cut[k - 1] < cut[k] /\ cut[k - 1] <= cut[k]
  <2> TAKE k \in 1 .. all
  <2>1. k - 1 \in 0 .. all /\ k \in 0 .. all
    BY <1>2
  <2>2. cut[k - 1] \in 0 .. room /\ cut[k] \in 0 .. room
    BY <1>4, <2>1
  <2>3. PICK a, b : a = cut[k - 1] /\ b = cut[k]
    OBVIOUS
  <2>4. a < b
    BY <1>4, <2>3, Zenon
  <2>5. a <= b
    BY <1>2, <2>2, <2>3, <2>4
  <2>6. QED
    BY <2>1, <2>2, <2>3, <2>4, <2>5, Zenon
<1>6. LinesPart(whole, kind, bytes)
  <2>1. PICK c : c = [k \in 0 .. n - 1 |-> cut[k]]
    OBVIOUS
  <2>2. /\ c \in [0 .. n - 1 -> 0 .. room]
        /\ \A k \in 0 .. n - 1 : c[k] = cut[k]
    BY <1>2, <1>4, <2>1, SMTT(60)
  <2>3. c[0] = 0
    BY <1>2, <1>4, <2>2
  <2>4. \A k \in 1 .. n - 1 :
           /\ c[k - 1] <= c[k]
           /\ whole[k] = [kind  |-> IF k = 1 THEN kind ELSE "cont",
                          bytes |-> SubSeq(bytes, c[k - 1] + 1, c[k])]
    <3> TAKE k \in 1 .. n - 1
    <3>1. k \in 1 .. all /\ k \in 0 .. n - 1 /\ k - 1 \in 0 .. n - 1
      BY <1>2
    <3>2. c[k] = cut[k] /\ c[k - 1] = cut[k - 1] /\ whole[k] = lines[k]
      BY <1>3, <2>2, <3>1
    <3>3. QED
      BY <1>4, <1>5, <3>1, <3>2, Zenon
  <2>5. /\ c \in [0 .. Len(whole) -> 0 .. Len(bytes)]
        /\ \A k \in 1 .. Len(whole) :
              /\ c[k - 1] <= c[k]
              /\ whole[k] = [kind  |-> IF k = 1 THEN kind ELSE "cont",
                             bytes |-> SubSeq(bytes, c[k - 1] + 1, c[k])]
    <3>1. n - 1 = Len(whole) /\ room = Len(bytes)
      BY <1>1, <1>3
    <3>2. QED
      BY <2>2, <2>4, <3>1, Zenon
  <2>6. cut[n - 1] < room /\ cut[n - 1] \in 0 .. room
    <3>1. cut[n - 1] \in 0 .. room /\ cut[n] \in 0 .. room /\ cut[n - 1] < cut[n]
      BY <1>2, <1>5, Zenon
    <3>2. QED
      BY <1>2, <3>1
  <2>7. c[Len(whole)] = cut[n - 1]
    <3>1. n - 1 \in 0 .. n - 1
      BY <1>2
    <3>2. QED
      BY <1>3, <2>2, <3>1
  <2>8. LinesTo(whole, kind, bytes, cut[n - 1])
    BY <2>3, <2>5, <2>7, Zenon DEF LinesTo
  <2>9. QED
    BY <1>1, <2>6, <2>8, Zenon DEF LinesPart
<1>7. ASSUME NEW part \in Seq(LineType), LinesPart(part, kind, bytes),
             NEW q, q = TakeLines(p, part) \/ q = Warn(TakeLines(p, part))
      PROVE  TookPart(p, q, kind, bytes)
  BY <1>7, Zenon DEF TookPart
<1>8. CASE stump = Nothing
  <2>1. whole \o stump = whole
    BY <1>3, <1>8, ConcatEmptySeq DEF Nothing
  <2>2. QED
    BY <1>1, <1>3, <1>6, <1>7, <2>1, Zenon
<1>9. ASSUME NEW l \in LineType, stump = <<l>>
      PROVE  whole \o stump = Append(whole, l)
  BY <1>3, <1>9, AppendIsConcat
<1>10. CASE stump = <<Junk>>
  <2>1. Junk \in LineType /\ Junk.kind = "junk"
    BY EmptySeq DEF Junk, LineType, Nothing
  <2>2. TakeLines(p, Append(whole, Junk)) = TakeLine(TakeLines(p, whole), Junk)
    BY <1>3, <2>1, TakeLinesAppend, Zenon
  <2>3. \A q : TakeLine(q, Junk) = Warn(q)
    BY <2>1, Zenon DEF TakeLine
  <2>4. TakeLine(TakeLines(p, whole), Junk) = Warn(TakeLines(p, whole))
    BY <2>3, Zenon
  <2>5. whole \o stump = Append(whole, Junk)
    BY <1>9, <1>10, <2>1, Zenon
  <2>6. QED
    BY <1>1, <1>3, <1>6, <1>7, <2>2, <2>4, <2>5, Zenon
<1>11. ASSUME NEW k \in Nat, k <= Len(lines[n].bytes) - 1,
              stump = <<[lines[n] EXCEPT !.bytes = SubSeq(@, 1, k)]>>
       PROVE  TookPart(p, TakeLines(p, whole \o stump), kind, bytes)
  <2>1. PICK a, b : a = cut[n - 1] /\ b = cut[n]
    OBVIOUS
  <2>2. a \in 0 .. room /\ b \in 0 .. room
    <3>1. n - 1 \in 0 .. all /\ n \in 0 .. all
      BY <1>2
    <3>2. QED
      BY <1>4, <2>1, <3>1
  <2>3. a < b /\ lines[n] = [kind  |-> IF n = 1 THEN kind ELSE "cont",
                              bytes |-> SubSeq(bytes, a + 1, b)]
    BY <1>2, <1>4, <2>1, Zenon
  <2>4. PICK part : part = SubSeq(bytes, a + 1, b)
    OBVIOUS
  <2>5. /\ part \in Seq(Nat) /\ Len(part) = b - a
        /\ \A i \in 0 .. b - a : SubSeq(part, 1, i) = SubSeq(bytes, a + 1, a + i)
    <3>1. a <= b
      BY <1>2, <2>2, <2>3
    <3>2. QED
      BY <1>1, <2>2, <2>4, <3>1, PartOf, Zenon
  <2>6. PICK name, old : name = (IF n = 1 THEN kind ELSE "cont") /\ old = lines[n]
    OBVIOUS
  <2>7. /\ old = [kind |-> name, bytes |-> part] /\ old.bytes = part
        /\ k \in 0 .. b - a /\ k < b - a
        /\ stump = <<[old EXCEPT !.bytes = SubSeq(part, 1, k)]>>
    <3>1. old = [kind |-> name, bytes |-> part]
      BY <2>3, <2>4, <2>6, Zenon
    <3>2. old.bytes = part
      BY <3>1, Zenon
    <3>3. Len(old.bytes) = b - a
      BY <2>5, <3>2, Zenon
    <3>4. k \in Nat /\ k <= Len(old.bytes) - 1 /\ a \in Nat /\ b \in Nat
      BY <1>2, <1>11, <2>2, <2>6
    <3>5. k \in 0 .. b - a /\ k < b - a
      BY <3>3, <3>4
    <3>6. QED
      BY <1>11, <2>6, <3>1, <3>2, <3>5, Zenon
  <2>8. PICK l : l = [kind  |-> IF n = 1 THEN kind ELSE "cont",
                      bytes |-> SubSeq(bytes, a + 1, a + k)]
    OBVIOUS
  <2>9. stump = <<l>>
    <3>1. [old EXCEPT !.bytes = SubSeq(part, 1, k)] = [kind |-> name, bytes |-> SubSeq(part, 1, k)]
      <4>1. old = [kind |-> name, bytes |-> part]
        BY <2>7
      <4>2. PICK x : x = SubSeq(part, 1, k)
        OBVIOUS
      <4>3. [[kind |-> name, bytes |-> part] EXCEPT !.bytes = x] = [kind |-> name, bytes |-> x]
        OBVIOUS
      <4>4. QED
        BY <4>1, <4>2, <4>3, Zenon
    <3>2. l = [kind |-> name, bytes |-> SubSeq(part, 1, k)]
      BY <2>5, <2>6, <2>7, <2>8, Zenon
    <3>3. QED
      BY <2>7, <3>1, <3>2, Zenon
  <2>10. l \in LineType /\ a + k \in 0 .. room /\ a <= a + k /\ a + k < room
    <3>1. a + k \in 0 .. room /\ a <= a + k /\ a + k < room
      BY <1>2, <2>2, <2>7, SMTT(60)
    <3>2. SubSeq(bytes, a + 1, a + k) \in Seq(Nat)
      BY <1>1, <2>2, <3>1, PartOf, Zenon
    <3>3. name \in {"host", "dev", "cont", "junk"}
      BY <2>6
    <3>4. QED
      BY <2>6, <2>8, <3>1, <3>2, <3>3, Zenon DEF LineType
  <2>11. PICK more : more = Append(whole, l)
    OBVIOUS
  <2>12. /\ more \in Seq(LineType) /\ Len(more) = n /\ more[n] = l
         /\ \A i \in 1 .. n - 1 : more[i] = lines[i]
    BY <1>2, <1>3, <2>10, <2>11, AppendProperties, SMTT(60)
  <2>13. PICK c : c = [j \in 0 .. n |-> IF j = n THEN a + k ELSE cut[j]]
    OBVIOUS
  <2>14. /\ c \in [0 .. n -> 0 .. room]
         /\ c[n] = a + k /\ \A j \in 0 .. n - 1 : c[j] = cut[j]
    <3>1. a + k \in 0 .. room
      BY <2>10
    <3>2. \A j \in 0 .. n : j \in 0 .. all
      BY <1>2
    <3>3. \A j \in 0 .. n : cut[j] \in 0 .. room
      BY <1>4, <3>2
    <3>4. QED
      BY <1>2, <2>13, <3>1, <3>3, SMTT(60)
  <2>15. c[0] = 0
    BY <1>2, <1>4, <2>14
  <2>16. \A j \in 1 .. n :
            /\ c[j - 1] <= c[j]
            /\ more[j] = [kind  |-> IF j = 1 THEN kind ELSE "cont",
                          bytes |-> SubSeq(bytes, c[j - 1] + 1, c[j])]
    <3> TAKE j \in 1 .. n
    <3>1. CASE j = n
      <4>1. c[j - 1] = a /\ c[j] = a + k
        BY <1>2, <2>1, <2>14, <3>1
      <4>2. c[j - 1] <= c[j]
        BY <2>10, <4>1
      <4>3. more[j] = l /\ (j = 1 <=> n = 1)
        BY <2>12, <3>1
      <4>4. QED
        BY <2>8, <4>1, <4>2, <4>3, Zenon
    <3>2. CASE j # n
      <4>1. j \in 1 .. all /\ j \in 1 .. n - 1 /\ j \in 0 .. n - 1 /\ j - 1 \in 0 .. n - 1
        BY <1>2, <3>2
      <4>2. c[j] = cut[j] /\ c[j - 1] = cut[j - 1] /\ more[j] = lines[j]
        BY <2>12, <2>14, <4>1
      <4>3. QED
        BY <1>4, <1>5, <4>1, <4>2, Zenon
    <3>3. QED
      BY <3>1, <3>2
  <2>17. LinesPart(more, kind, bytes)
    <3>1. LinesTo(more, kind, bytes, a + k)
      BY <1>1, <2>12, <2>14, <2>15, <2>16, Zenon DEF LinesTo
    <3>2. QED
      BY <1>1, <2>10, <3>1, Zenon DEF LinesPart
  <2>18. TookPart(p, TakeLines(p, more), kind, bytes)
    BY <1>7, <2>12, <2>17, Zenon
  <2>19. whole \o stump = more
    BY <1>9, <2>9, <2>10, <2>11, Zenon
  <2>20. QED
    BY <2>18, <2>19, Zenon
<1>12. stump \in {Nothing, <<Junk>>} \/ \E k \in Nat :
          k <= Len(lines[n].bytes) - 1 /\ stump = <<[lines[n] EXCEPT !.bytes = SubSeq(@, 1, k)]>>
  <2>1. PICK l \in LineType : l = lines[n]
    BY <1>2
  <2>2. Len(l.bytes) \in Nat
    <3>1. l.bytes \in Seq(Nat)
      BY DEF LineType
    <3>2. QED
      BY <3>1, LenProperties
  <2>3. \A k \in (IF l.kind = "cont" THEN 1 ELSE 0) .. Len(l.bytes) - 1 :
           k \in Nat /\ k <= Len(l.bytes) - 1
    BY <2>2
  <2>4. QED
    BY <2>1, <2>3, Zenon DEF Stumps
<1>13. QED
  BY <1>1, <1>8, <1>10, <1>11, <1>12, Zenon

\* The parser stays as it should be.
LEMMA BrokenLog ==
    ASSUME NEW p, ParseInv(p), NEW kind \in {"host", "dev"}, NEW bytes \in Seq(Nat),
           kind = "host" => HostBytes(bytes), NEW q, TookPart(p, q, kind, bytes)
    PROVE  ParseInv(q)
<1>1. PICK part \in Seq(LineType) :
        /\ LinesPart(part, kind, bytes)
        /\ q = TakeLines(p, part) \/ q = Warn(TakeLines(p, part))
  BY Zenon DEF TookPart
<1>2. ParseInv(TakeLines(p, part))
  <2>1. LinesOf(part, kind, bytes)
    BY <1>1, Zenon DEF LinesPart, LinesTo, LinesOf
  <2>2. QED
    BY <1>1, <2>1, LinesTaken, Zenon
<1>3. ParseInv(Warn(TakeLines(p, part)))
  BY <1>2, TRUE \in BOOLEAN, WarnStep, Zenon
<1>4. QED
  BY <1>1, <1>2, <1>3, Zenon

-----------------------------------------------------------------------------
(* The responder.                                                          *)

ResponderType ==
    [ cyl : 0 .. MaxTracks - 1, head : {0, 1}, flux_status : Nat, outq : Seq(Nat),
      next : [Positions -> Nat] ]

\* A responder between two visits.
Ready(r, log) ==
    /\ r \in ResponderType /\ r.outq = Nothing
    /\ \A pos \in Positions : r.next[pos] <= Len(log[pos])

\* Its fields.
LEMMA ResponderFields ==
    ASSUME NEW r \in ResponderType
    PROVE  /\ r.cyl \in 0 .. MaxTracks - 1 /\ r.head \in {0, 1} /\ r.flux_status \in Nat
           /\ r.outq \in Seq(Nat) /\ r.next \in [Positions -> Nat]
  BY Zenon DEF ResponderType

\* Two bytes at the head of the queue are the next answer.
LEMMA TwoBytes ==
    ASSUME NEW two \in Seq(Nat), Len(two) = 2, NEW rest \in Seq(Nat),
           NEW q, q = two \o rest
    PROVE  q \in Seq(Nat) /\ SubSeq(q, 1, 2) = two /\ SubSeq(q, 3, Len(q)) = rest
<1>1. PICK n \in Nat : n = Len(rest)
  BY LenProperties
<1>2. /\ q \in Seq(Nat) /\ Len(q) = n + 2
      /\ \A i \in 1 .. n + 2 : q[i] = IF i <= 2 THEN two[i] ELSE rest[i - 2]
  <2>1. /\ q \in Seq(Nat) /\ Len(q) = Len(two) + Len(rest)
        /\ \A i \in 1 .. Len(two) + Len(rest) :
              q[i] = IF i <= Len(two) THEN two[i] ELSE rest[i - Len(two)]
    BY ConcatProperties, Zenon
  <2>2. Len(two) + Len(rest) = n + 2
    BY <1>1
  <2>3. QED
    BY <2>1, <2>2
<1>3. SubSeq(q, 1, 2) = two
  <2>1. PICK s : s = SubSeq(q, 1, 2)
    OBVIOUS
  <2>2. s \in Seq(Nat) /\ Len(s) = 2 /\ \A i \in 1 .. 2 : s[i] = two[i]
    BY <1>1, <1>2, <2>1
  <2>3. s = two
    BY <2>2, SeqEqual
  <2>4. QED
    BY <2>1, <2>3
<1>4. SubSeq(q, 3, n + 2) = rest
  <2>1. PICK s : s = SubSeq(q, 3, n + 2)
    OBVIOUS
  <2>2. s \in Seq(Nat) /\ Len(s) = n /\ \A i \in 1 .. n : s[i] = rest[i]
    BY <1>1, <1>2, <2>1, SMTT(60)
  <2>3. s = rest
    BY <1>1, <2>2, SeqEqual
  <2>4. QED
    BY <2>1, <2>3
<1>5. QED
  BY <1>2, <1>3, <1>4

\* A new responder is ready.
LEMMA NewIsReady ==
    ASSUME NEW log \in [Places -> Seq(FluxType)]
    PROVE  Ready(NewResponder, log)
<1>1. PICK r : r = NewResponder
  OBVIOUS
<1>2. 0 \in 0 .. MaxTracks - 1
  BY LogAssumption
<1>3. Nothing \in Seq(Nat)
  BY EmptySeq DEF Nothing
<1>4. [pos \in Positions |-> 0] \in [Positions -> Nat]
  OBVIOUS
<1>5. ACK_OKAY \in Nat
  BY DEF ACK_OKAY
<1>6. r \in ResponderType
  BY <1>1, <1>2, <1>3, <1>4, <1>5, Zenon DEF NewResponder, ResponderType
<1>7. r.outq = Nothing /\ \A pos \in Positions : r.next[pos] = 0
  BY <1>1 DEF NewResponder
<1>8. \A pos \in Positions : 0 <= Len(log[pos])
  <2> TAKE pos \in Positions
  <2>1. pos \in Places
    BY PositionsAssumption DEF Places
  <2>2. log[pos] \in Seq(FluxType)
    BY <2>1
  <2>3. QED
    BY <2>2, LenProperties
<1>9. QED
  BY <1>1, <1>6, <1>7, <1>8 DEF Ready

\* An answer, and what the queue holds after it.
AnswerOf(d) ==
    [r |-> [d EXCEPT !.outq = SubSeq(@, 3, Len(@))], answer |-> SubSeq(d.outq, 1, 2)]

\* What the queue of d holds: an answer and what follows it.
Queued(d, answer, rest) == Len(answer) = 2 /\ d.outq = answer \o rest

\* asked is the answer of a queue, and nothing else has changed.
Answered(asked, d, answer, rest) ==
    /\ asked.answer = answer
    /\ asked.r \in ResponderType /\ asked.r.outq = rest
    /\ asked.r.cyl = d.cyl /\ asked.r.head = d.head
    /\ asked.r.next = d.next /\ asked.r.flux_status = d.flux_status

\* An answer of two bytes, and what follows it.
LEMMA AnswerStep ==
    ASSUME NEW two \in Seq(Nat), NEW rest \in Seq(Nat),
           NEW d \in ResponderType, Queued(d, two, rest)
    PROVE  Answered(AnswerOf(d), d, two, rest)
<1>1. PICK q : q = d.outq
  OBVIOUS
<1>2. SubSeq(q, 1, 2) = two /\ SubSeq(q, 3, Len(q)) = rest
  <2>1. Len(two) = 2 /\ q = two \o rest
    BY <1>1, Zenon DEF Queued
  <2>2. QED
    BY <2>1, TwoBytes, ZenonT(60)
<1>3. PICK new : new = [d EXCEPT !.outq = rest]
  OBVIOUS
<1>4. AnswerOf(d) = [r |-> new, answer |-> two]
  BY <1>1, <1>2, <1>3, Zenon DEF AnswerOf
<1>5. new \in ResponderType
  BY <1>3, ResponderFields, Zenon DEF ResponderType
<1>6. /\ new.outq = rest /\ new.cyl = d.cyl /\ new.head = d.head
      /\ new.next = d.next /\ new.flux_status = d.flux_status
  BY <1>3 DEF ResponderType
<1>7. AnswerOf(d).r = new /\ AnswerOf(d).answer = two
  BY <1>4
<1>8. QED
  BY <1>5, <1>6, <1>7, Zenon DEF Answered

\* An answer that is pushed to an empty queue.
LEMMA PushedAnswer ==
    ASSUME NEW r \in ResponderType, r.outq = Nothing, NEW two \in Seq(Nat)
    PROVE  LET p == Pushed(r, two)
           IN /\ p \in ResponderType /\ p.outq = two
              /\ p.outq = two \o Nothing
              /\ p.cyl = r.cyl /\ p.head = r.head
              /\ p.next = r.next /\ p.flux_status = r.flux_status
<1>1. Nothing \o two = two /\ two \o Nothing = two
  BY ConcatEmptySeq DEF Nothing
<1>2. PICK p : p = [r EXCEPT !.outq = two]
  OBVIOUS
<1>3. Pushed(r, two) = p
  BY <1>1, <1>2, Zenon DEF Pushed
<1>4. p \in ResponderType
  BY <1>2, ResponderFields, Zenon DEF ResponderType
<1>5. /\ p.outq = two /\ p.cyl = r.cyl /\ p.head = r.head
      /\ p.next = r.next /\ p.flux_status = r.flux_status
  BY <1>2 DEF ResponderType
<1>6. QED
  BY <1>1, <1>3, <1>4, <1>5, Zenon

\* The bytes of answers are numbers.
LEMMA Codes ==
    /\ CMD_GET_INFO \in Nat /\ CMD_SEEK \in Nat /\ CMD_HEAD \in Nat
    /\ CMD_READ_FLUX \in Nat /\ CMD_GET_FLUX_STATUS \in Nat
    /\ ACK_OKAY \in Nat /\ ACK_NO_INDEX \in Nat /\ ACK_NO_TRK0 \in Nat
    /\ ACK_FLUX_OVERFLOW \in Nat /\ ACK_NO_UNIT \in Nat
    /\ GETINFO_FIRMWARE \in Nat /\ Nothing \in Seq(Nat)
  BY EmptySeq DEF CMD_GET_INFO, CMD_SEEK, CMD_HEAD, CMD_READ_FLUX, CMD_GET_FLUX_STATUS,
         ACK_OKAY, ACK_NO_INDEX, ACK_NO_TRK0, ACK_FLUX_OVERFLOW, ACK_NO_UNIT,
         GETINFO_FIRMWARE, Nothing

\* A seek to a track there is.
LEMMA SeekAnswered ==
    ASSUME NEW r \in ResponderType, r.outq = Nothing,
           NEW frame, frame[3] \in 0 .. MaxTracks - 1
    PROVE  LET asked == AnswerOf(DispatchSeek(r, frame))
           IN /\ asked.answer = <<CMD_SEEK, ACK_OKAY>>
              /\ asked.r \in ResponderType /\ asked.r.outq = Nothing
              /\ asked.r.cyl = frame[3] /\ asked.r.head = r.head /\ asked.r.next = r.next
<1>1. PICK two, p : two = <<CMD_SEEK, ACK_OKAY>> /\ p = Pushed(r, two)
  OBVIOUS
<1>2. two \in Seq(Nat) /\ Len(two) = 2 /\ Nothing \in Seq(Nat)
  BY <1>1, Codes
<1>3. /\ p \in ResponderType /\ p.outq = two \o Nothing
      /\ p.head = r.head /\ p.next = r.next
  BY <1>1, <1>2, PushedAnswer, Zenon
<1>4. PICK c \in 0 .. MaxTracks - 1 : c = frame[3]
  OBVIOUS
<1>d. PICK d : d = [p EXCEPT !.cyl = c]
  OBVIOUS
<1>5. d \in ResponderType
  BY <1>3, <1>4, <1>d, ResponderFields, Zenon DEF ResponderType
<1>6. d.outq = p.outq /\ d.cyl = c /\ d.head = p.head /\ d.next = p.next
  BY <1>3, <1>4, <1>d DEF ResponderType
<1>7. DispatchSeek(r, frame) = d
  <2>1. ~(frame[3] >= MaxTracks)
    BY LogAssumption
  <2>2. QED
    BY <1>1, <1>4, <1>d, <2>1, Zenon DEF DispatchSeek
<1>8. Queued(d, two, Nothing)
  BY <1>2, <1>3, <1>6, Zenon DEF Queued
<1>9. PICK asked : asked = AnswerOf(d)
  OBVIOUS
<1>10. /\ asked.answer = two
       /\ asked.r \in ResponderType /\ asked.r.outq = Nothing
       /\ asked.r.cyl = d.cyl /\ asked.r.head = d.head /\ asked.r.next = d.next
  <2>1. Answered(AnswerOf(d), d, two, Nothing)
    BY <1>2, <1>5, <1>8, AnswerStep, Zenon
  <2>2. QED
    BY <1>9, <2>1, Zenon DEF Answered
<1>11. QED
  BY <1>1, <1>3, <1>4, <1>6, <1>7, <1>9, <1>10, Zenon

\* The choice of a head.
LEMMA HeadAnswered ==
    ASSUME NEW r \in ResponderType, r.outq = Nothing, NEW h \in {0, 1}
    PROVE  LET asked == AnswerOf([Pushed(r, <<CMD_HEAD, ACK_OKAY>>) EXCEPT !.head = h])
           IN /\ asked.answer = <<CMD_HEAD, ACK_OKAY>>
              /\ asked.r \in ResponderType /\ asked.r.outq = Nothing
              /\ asked.r.cyl = r.cyl /\ asked.r.head = h /\ asked.r.next = r.next
<1>1. PICK two, p : two = <<CMD_HEAD, ACK_OKAY>> /\ p = Pushed(r, two)
  OBVIOUS
<1>2. two \in Seq(Nat) /\ Len(two) = 2 /\ Nothing \in Seq(Nat)
  BY <1>1, Codes
<1>3. /\ p \in ResponderType /\ p.outq = two \o Nothing
      /\ p.cyl = r.cyl /\ p.next = r.next
  BY <1>1, <1>2, PushedAnswer, Zenon
<1>4. PICK d : d = [p EXCEPT !.head = h]
  OBVIOUS
<1>5. d \in ResponderType
  BY <1>3, <1>4, ResponderFields, Zenon DEF ResponderType
<1>6. d.outq = p.outq /\ d.cyl = p.cyl /\ d.head = h /\ d.next = p.next
  BY <1>3, <1>4 DEF ResponderType
<1>7. Queued(d, two, Nothing)
  BY <1>2, <1>3, <1>6, Zenon DEF Queued
<1>8. PICK asked : asked = AnswerOf(d)
  OBVIOUS
<1>9. /\ asked.answer = two
      /\ asked.r \in ResponderType /\ asked.r.outq = Nothing
      /\ asked.r.cyl = d.cyl /\ asked.r.head = d.head /\ asked.r.next = d.next
  <2>1. Answered(AnswerOf(d), d, two, Nothing)
    BY <1>2, <1>5, <1>7, AnswerStep, Zenon
  <2>2. QED
    BY <1>8, <2>1, Zenon DEF Answered
<1>10. QED
  BY <1>1, <1>3, <1>4, <1>6, <1>8, <1>9, Zenon

\* The status of the stream that was read.
LEMMA StatusAnswered ==
    ASSUME NEW r \in ResponderType, r.outq = Nothing
    PROVE  LET asked == AnswerOf(Pushed(r, <<CMD_GET_FLUX_STATUS, r.flux_status>>))
           IN /\ asked.answer = <<CMD_GET_FLUX_STATUS, r.flux_status>>
              /\ asked.r \in ResponderType /\ asked.r.outq = Nothing
              /\ asked.r.next = r.next
<1>1. PICK two, d : two = <<CMD_GET_FLUX_STATUS, r.flux_status>> /\ d = Pushed(r, two)
  OBVIOUS
<1>2. two \in Seq(Nat) /\ Len(two) = 2 /\ Nothing \in Seq(Nat)
  <2>1. r.flux_status \in Nat
    BY ResponderFields, Zenon
  <2>2. QED
    BY <1>1, <2>1, Codes
<1>3. d \in ResponderType /\ Queued(d, two, Nothing) /\ d.next = r.next
  BY <1>1, <1>2, PushedAnswer, Zenon DEF Queued
<1>4. PICK asked : asked = AnswerOf(d)
  OBVIOUS
<1>5. /\ asked.answer = two
      /\ asked.r \in ResponderType /\ asked.r.outq = Nothing
      /\ asked.r.next = d.next
  <2>1. Answered(AnswerOf(d), d, two, Nothing)
    BY <1>2, <1>3, AnswerStep, Zenon
  <2>2. QED
    BY <1>4, <2>1, Zenon DEF Answered
<1>6. QED
  BY <1>1, <1>3, <1>4, <1>5, Zenon

\* A read, with the bytes that are sent for it.
ReadQueue(r, bytes, next, status) ==
    [Pushed(Pushed(r, <<CMD_READ_FLUX, ACK_OKAY>>), bytes)
        EXCEPT !.next = next, !.flux_status = status]

Sends(read, bytes, next, status) ==
    /\ read.answer = <<CMD_READ_FLUX, ACK_OKAY>>
    /\ read.r \in ResponderType /\ read.r.outq = bytes
    /\ read.r.next = next /\ read.r.flux_status = status

\* Its answer is followed by the bytes.
LEMMA ReadAnswered ==
    ASSUME NEW r \in ResponderType, r.outq = Nothing, NEW bytes \in Seq(Nat),
           NEW next \in [Positions -> Nat], NEW status \in Nat
    PROVE  Sends(AnswerOf(ReadQueue(r, bytes, next, status)), bytes, next, status)
<1>1. PICK two, p, b : /\ two = <<CMD_READ_FLUX, ACK_OKAY>>
                       /\ p = Pushed(r, two) /\ b = Pushed(p, bytes)
  OBVIOUS
<1>2. two \in Seq(Nat) /\ Len(two) = 2
  BY <1>1, Codes
<1>3. p \in ResponderType /\ p.outq = two
  BY <1>1, <1>2, PushedAnswer, Zenon
<1>4. two \o bytes \in Seq(Nat)
  BY <1>2, ConcatProperties, Zenon
<1>5. b = [p EXCEPT !.outq = two \o bytes]
  BY <1>1, <1>3, Zenon DEF Pushed
<1>6. b \in ResponderType
  BY <1>3, <1>4, <1>5, ResponderFields, Zenon DEF ResponderType
<1>7. b.outq = two \o bytes
  BY <1>3, <1>5 DEF ResponderType
<1>8. PICK d : d = [b EXCEPT !.next = next, !.flux_status = status]
  OBVIOUS
<1>9. d \in ResponderType
  BY <1>6, <1>8, ResponderFields, Zenon DEF ResponderType
<1>10. Queued(d, two, bytes) /\ d.next = next /\ d.flux_status = status
  BY <1>2, <1>6, <1>7, <1>8, SMTT(60) DEF ResponderType, Queued
<1>11. QED
  <2>1. Answered(AnswerOf(d), d, two, bytes)
    BY <1>2, <1>9, <1>10, AnswerStep, Zenon
  <2>2. Sends(AnswerOf(d), bytes, next, status)
    BY <1>1, <1>10, <2>1, Zenon DEF Answered, Sends
  <2>3. d = ReadQueue(r, bytes, next, status)
    BY <1>1, <1>8, Zenon DEF ReadQueue
  <2>4. QED
    BY <2>2, <2>3, Zenon

\* One visit.  Replaying host and responder stay in step, and the responder gives the
\* next stream of the position, or none that counts.
VisitIs(r, log, pos, visit) ==
    /\ Ready(visit.r, log)
    /\ visit.got.inStep /\ visit.got.pos = pos
    /\ IF r.next[pos] < Len(log[pos])
       THEN /\ visit.r.next = [r.next EXCEPT ![pos] = r.next[pos] + 1]
            /\ visit.got.data = log[pos][r.next[pos] + 1].data
            /\ visit.got.status = log[pos][r.next[pos] + 1].status
       ELSE /\ visit.r.next = r.next
            /\ visit.got.data = EmptyRev /\ visit.got.status = ACK_OKAY

\* What is sent for a read and how the responder counts it.
LEMMA ReadGives ==
    ASSUME NEW log \in [Places -> Seq(FluxType)], StreamsClosed(log),
           NEW r \in ResponderType, r.outq = Nothing, NEW pos \in Positions,
           \A at \in Positions : r.next[at] <= Len(log[at]),
           pos = <<r.cyl, r.head>>
    PROVE  LET read == AnswerOf(DispatchRead(r, log))
           IN /\ read.answer = <<CMD_READ_FLUX, ACK_OKAY>>
              /\ read.r \in ResponderType
              /\ Len(read.r.outq) > 0 /\ read.r.outq[Len(read.r.outq)] = 0
              /\ \A at \in Positions : read.r.next[at] <= Len(log[at])
              /\ IF r.next[pos] < Len(log[pos])
                 THEN /\ read.r.next = [r.next EXCEPT ![pos] = r.next[pos] + 1]
                      /\ read.r.outq = log[pos][r.next[pos] + 1].data
                      /\ read.r.flux_status = log[pos][r.next[pos] + 1].status
                 ELSE /\ read.r.next = r.next
                      /\ read.r.outq = EmptyRev /\ read.r.flux_status = ACK_OKAY
<1>1. PICK n, fifo, ack : /\ n = r.next[pos] /\ fifo = log[pos]
                          /\ ack = Pushed(r, <<CMD_READ_FLUX, ACK_OKAY>>)
  OBVIOUS
<1>2. pos \in Places
  BY PositionsAssumption DEF Places
<1>3. n \in Nat /\ fifo \in Seq(FluxType) /\ Len(fifo) \in Nat
  <2>1. r.next \in [Positions -> Nat]
    BY ResponderFields, Zenon
  <2>2. fifo \in Seq(FluxType)
    BY <1>1, <1>2
  <2>3. QED
    BY <1>1, <2>1, <2>2, LenProperties
<1>4. PICK d, read : d = DispatchRead(r, log) /\ read = AnswerOf(d)
  OBVIOUS
<1>5. CASE n < Len(fifo)
  <2>1. PICK flux : flux = fifo[n + 1]
    OBVIOUS
  <2>2. n + 1 \in DOMAIN fifo /\ flux \in FluxType
    <3>1. n + 1 \in 1 .. Len(fifo)
      BY <1>3, <1>5
    <3>2. QED
      BY <1>3, <2>1, <3>1, ElementOfSeq, LenProperties
  <2>3. PICK next : next = [r.next EXCEPT ![pos] = r.next[pos] + 1]
    OBVIOUS
  <2>4. /\ next \in [Positions -> Nat]
        /\ \A at \in Positions : next[at] = IF at = pos THEN n + 1 ELSE r.next[at]
    <3>1. r.next \in [Positions -> Nat]
      BY ResponderFields, Zenon
    <3>2. QED
      BY <1>1, <1>3, <2>3, <3>1
  <2>5. flux.data \in Seq(Nat) /\ flux.status \in Nat
    BY <2>2, Zenon DEF FluxType
  <2>6. Len(flux.data) > 1 /\ Closed(flux.data)
    <3>1. \A i \in DOMAIN fifo : Len(fifo[i].data) > 1 /\ Closed(fifo[i].data)
      BY <1>1, <1>2, Zenon DEF StreamsClosed
    <3>2. QED
      BY <2>1, <2>2, <3>1, Zenon
  <2>7. d = [Pushed(ack, flux.data) EXCEPT !.next = next, !.flux_status = flux.status]
    <3>1. PICK q : q = Pushed(ack, flux.data)
      OBVIOUS
    <3>2. q.next = r.next
      <4>1. q = [[r EXCEPT !.outq = @ \o <<CMD_READ_FLUX, ACK_OKAY>>] EXCEPT !.outq = @ \o flux.data]
        BY <1>1, <3>1, Zenon DEF Pushed
      <4>2. PICK x, y : /\ x = r.outq \o <<CMD_READ_FLUX, ACK_OKAY>>
                        /\ y = [r EXCEPT !.outq = x].outq \o flux.data
        OBVIOUS
      <4>3. q = [[r EXCEPT !.outq = x] EXCEPT !.outq = y]
        BY <4>1, <4>2, Zenon
      <4>4. QED
        BY <4>3 DEF ResponderType
    <3>3. d = [q EXCEPT !.next[pos] = @ + 1, !.flux_status = flux.status]
      BY <1>1, <1>4, <1>5, <2>1, <3>1, Zenon DEF DispatchRead
    <3>4. [q EXCEPT !.next[pos] = @ + 1, !.flux_status = flux.status]
             = [q EXCEPT !.next = [q.next EXCEPT ![pos] = @ + 1], !.flux_status = flux.status]
      OBVIOUS
    <3>5. QED
      BY <2>3, <3>1, <3>2, <3>3, <3>4, Zenon
  <2>8. /\ read.answer = <<CMD_READ_FLUX, ACK_OKAY>>
        /\ read.r \in ResponderType /\ read.r.outq = flux.data
        /\ read.r.next = next /\ read.r.flux_status = flux.status
    <3>1. Sends(AnswerOf(ReadQueue(r, flux.data, next, flux.status)), flux.data, next, flux.status)
      BY <2>4, <2>5, ReadAnswered, Zenon
    <3>2. d = ReadQueue(r, flux.data, next, flux.status)
      BY <1>1, <2>7, Zenon DEF ReadQueue
    <3>3. QED
      BY <1>4, <3>1, <3>2, Zenon DEF Sends
  <2>9. Len(flux.data) > 0 /\ flux.data[Len(flux.data)] = 0
    <3>1. Len(flux.data) \in Nat /\ Len(flux.data) \in DOMAIN flux.data
      BY <2>5, <2>6, LenProperties
    <3>2. QED
      BY <2>6, <3>1 DEF Closed
  <2>10. \A at \in Positions : next[at] <= Len(log[at])
    <3> TAKE at \in Positions
    <3>1. CASE at = pos
      <4>1. next[at] = n + 1 /\ log[at] = fifo
        BY <1>1, <2>4, <3>1
      <4>2. n + 1 <= Len(fifo)
        BY <1>3, <1>5
      <4>3. QED
        BY <4>1, <4>2
    <3>2. CASE at # pos
      BY <2>4, <3>2
    <3>3. QED
      BY <3>1, <3>2
  <2>11. QED
    BY <1>1, <1>4, <1>5, <2>1, <2>3, <2>8, <2>9, <2>10, Zenon
<1>6. CASE ~(n < Len(fifo))
  <2>1. PICK next : next = r.next
    OBVIOUS
  <2>2. next \in [Positions -> Nat]
    BY <2>1, ResponderFields, Zenon
  <2>3. EmptyRev \in Seq(Nat) /\ Len(EmptyRev) = 2 /\ EmptyRev[2] = 0
    BY DEF EmptyRev
  <2>4. d = [Pushed(ack, EmptyRev) EXCEPT !.next = next, !.flux_status = ACK_OKAY]
    <3>1. PICK q : q = Pushed(ack, EmptyRev)
      OBVIOUS
    <3>2. d = [q EXCEPT !.flux_status = ACK_OKAY]
      BY <1>1, <1>4, <1>6, <3>1, Zenon DEF DispatchRead
    <3>3. q \in ResponderType /\ q.next = r.next
      <4>1. PICK two : two = <<CMD_READ_FLUX, ACK_OKAY>>
        OBVIOUS
      <4>2. two \in Seq(Nat)
        BY <4>1, Codes
      <4>3. ack \in ResponderType /\ ack.next = r.next
        BY <1>1, <4>1, <4>2, PushedAnswer, Zenon
      <4>4. PICK x : x = ack.outq \o EmptyRev
        OBVIOUS
      <4>5. x \in Seq(Nat)
        BY <2>3, <4>3, <4>4, ResponderFields, ConcatProperties, Zenon
      <4>6. q = [ack EXCEPT !.outq = x]
        BY <3>1, <4>4, Zenon DEF Pushed
      <4>7. q \in ResponderType
        BY <4>3, <4>5, <4>6, ResponderFields, Zenon DEF ResponderType
      <4>8. q.next = ack.next
        BY <4>3, <4>6 DEF ResponderType
      <4>9. QED
        BY <4>3, <4>7, <4>8
    <3>4. [q EXCEPT !.flux_status = ACK_OKAY] = [q EXCEPT !.next = next, !.flux_status = ACK_OKAY]
      BY <2>1, <3>3 DEF ResponderType
    <3>5. QED
      BY <3>1, <3>2, <3>4, Zenon
  <2>5. ACK_OKAY \in Nat
    BY Codes
  <2>6. /\ read.answer = <<CMD_READ_FLUX, ACK_OKAY>>
        /\ read.r \in ResponderType /\ read.r.outq = EmptyRev
        /\ read.r.next = next /\ read.r.flux_status = ACK_OKAY
    <3>1. Sends(AnswerOf(ReadQueue(r, EmptyRev, next, ACK_OKAY)), EmptyRev, next, ACK_OKAY)
      BY <2>2, <2>3, <2>5, ReadAnswered, Zenon
    <3>2. d = ReadQueue(r, EmptyRev, next, ACK_OKAY)
      BY <1>1, <2>4, Zenon DEF ReadQueue
    <3>3. QED
      BY <1>4, <3>1, <3>2, Zenon DEF Sends
  <2>7. Len(EmptyRev) > 0 /\ EmptyRev[Len(EmptyRev)] = 0
    BY <2>3
  <2>8. QED
    BY <1>1, <1>4, <1>6, <2>1, <2>6, <2>7, Zenon
<1>7. QED
  BY <1>5, <1>6

\* A whole visit.
LEMMA VisitStep ==
    ASSUME NEW log \in [Places -> Seq(FluxType)], StreamsClosed(log),
           NEW r, Ready(r, log), NEW pos \in Positions
    PROVE  VisitIs(r, log, pos, Served(r, log, pos))
<1>1. r \in ResponderType /\ r.outq = Nothing /\ \A at \in Positions : r.next[at] <= Len(log[at])
  BY Zenon DEF Ready
<1>2. PICK c, h : pos = <<c, h>> /\ c \in 0 .. MaxTracks - 1 /\ h \in {0, 1}
  BY PositionsAssumption
<1>3. pos[1] = c /\ pos[2] = h /\ h % 2 = h
  BY <1>2, SMTT(60)
<1>4. /\ CMD_SEEK # CMD_HEAD /\ CMD_SEEK # CMD_READ_FLUX /\ CMD_SEEK # CMD_GET_FLUX_STATUS
      /\ CMD_HEAD # CMD_READ_FLUX /\ CMD_HEAD # CMD_GET_FLUX_STATUS
      /\ CMD_READ_FLUX # CMD_GET_FLUX_STATUS
      /\ Acknowledged \cap {CMD_SEEK, CMD_HEAD, CMD_READ_FLUX, CMD_GET_FLUX_STATUS} = {}
  BY DEF CMD_SEEK, CMD_HEAD, CMD_READ_FLUX, CMD_GET_FLUX_STATUS, Acknowledged
<1>5. PICK seek : seek = Asked(r, log, <<CMD_SEEK, 3, pos[1]>>)
  OBVIOUS
<1>6. /\ seek.answer = <<CMD_SEEK, ACK_OKAY>>
      /\ seek.r \in ResponderType /\ seek.r.outq = Nothing
      /\ seek.r.cyl = c /\ seek.r.next = r.next
  <2>1. PICK frame : frame = <<CMD_SEEK, 3, pos[1]>>
    OBVIOUS
  <2>2. frame[1] = CMD_SEEK /\ frame[3] = c
    BY <1>3, <2>1
  <2>3. Dispatch(r, log, frame) = DispatchSeek(r, frame)
    BY <1>4, <2>2 DEF Dispatch
  <2>4. seek = AnswerOf(DispatchSeek(r, frame))
    BY <1>5, <2>1, <2>3, Zenon DEF Asked, AnswerOf
  <2>5. QED
    <3>1. frame[3] \in 0 .. MaxTracks - 1
      BY <1>2, <2>2
    <3>2. QED
      BY <1>1, <2>2, <2>4, <3>1, SeekAnswered, Zenon
<1>7. PICK s : s = seek.r
  OBVIOUS
<1>8. PICK head : head = Asked(s, log, <<CMD_HEAD, 3, pos[2]>>)
  OBVIOUS
<1>9. /\ head.answer = <<CMD_HEAD, ACK_OKAY>>
      /\ head.r \in ResponderType /\ head.r.outq = Nothing
      /\ head.r.cyl = c /\ head.r.head = h /\ head.r.next = r.next
  <2>1. PICK frame : frame = <<CMD_HEAD, 3, pos[2]>>
    OBVIOUS
  <2>2. frame[1] = CMD_HEAD /\ frame[3] % 2 = h
    BY <1>3, <2>1
  <2>3. Dispatch(s, log, frame) = [Pushed(s, <<CMD_HEAD, ACK_OKAY>>) EXCEPT !.head = h]
    BY <1>4, <2>2 DEF Dispatch
  <2>4. head = AnswerOf([Pushed(s, <<CMD_HEAD, ACK_OKAY>>) EXCEPT !.head = h])
    BY <1>8, <2>1, <2>3, Zenon DEF Asked, AnswerOf
  <2>5. s \in ResponderType /\ s.outq = Nothing /\ s.cyl = c /\ s.next = r.next
    BY <1>6, <1>7, Zenon
  <2>6. QED
    BY <1>2, <2>4, <2>5, HeadAnswered, Zenon
<1>10. PICK m : m = head.r
  OBVIOUS
<1>11. /\ m \in ResponderType /\ m.outq = Nothing /\ m.next = r.next
       /\ pos = <<m.cyl, m.head>>
  BY <1>2, <1>9, <1>10, Zenon
<1>12. PICK read : read = Asked(m, log, ReadFrame)
  OBVIOUS
<1>13. read = AnswerOf(DispatchRead(m, log))
  <2>1. PICK frame : frame = ReadFrame
    OBVIOUS
  <2>2. frame[1] = CMD_READ_FLUX
    BY <2>1 DEF ReadFrame
  <2>3. Dispatch(m, log, frame) = DispatchRead(m, log)
    BY <1>4, <2>2 DEF Dispatch
  <2>4. QED
    BY <1>12, <2>1, <2>3, Zenon DEF Asked, AnswerOf
<1>14. /\ read.answer = <<CMD_READ_FLUX, ACK_OKAY>>
       /\ read.r \in ResponderType
       /\ Len(read.r.outq) > 0 /\ read.r.outq[Len(read.r.outq)] = 0
       /\ \A at \in Positions : read.r.next[at] <= Len(log[at])
       /\ IF r.next[pos] < Len(log[pos])
          THEN /\ read.r.next = [r.next EXCEPT ![pos] = r.next[pos] + 1]
               /\ read.r.outq = log[pos][r.next[pos] + 1].data
               /\ read.r.flux_status = log[pos][r.next[pos] + 1].status
          ELSE /\ read.r.next = r.next
               /\ read.r.outq = EmptyRev /\ read.r.flux_status = ACK_OKAY
  <2>1. \A at \in Positions : m.next[at] <= Len(log[at])
    BY <1>1, <1>11, Zenon
  <2>2. PICK gives : gives = AnswerOf(DispatchRead(m, log))
    OBVIOUS
  <2>3. /\ gives.answer = <<CMD_READ_FLUX, ACK_OKAY>>
        /\ gives.r \in ResponderType
        /\ Len(gives.r.outq) > 0 /\ gives.r.outq[Len(gives.r.outq)] = 0
        /\ \A at \in Positions : gives.r.next[at] <= Len(log[at])
        /\ IF m.next[pos] < Len(log[pos])
           THEN /\ gives.r.next = [m.next EXCEPT ![pos] = m.next[pos] + 1]
                /\ gives.r.outq = log[pos][m.next[pos] + 1].data
                /\ gives.r.flux_status = log[pos][m.next[pos] + 1].status
           ELSE /\ gives.r.next = m.next
                /\ gives.r.outq = EmptyRev /\ gives.r.flux_status = ACK_OKAY
    BY <1>11, <2>1, <2>2, ReadGives, ZenonT(60)
  <2>4. gives = read /\ m.next = r.next
    BY <1>11, <1>13, <2>2
  <2>5. QED
    BY <2>3, <2>4, Zenon
<1>15. PICK e : e = Drained(read.r)
  OBVIOUS
<1>16. /\ e \in ResponderType /\ e.outq = Nothing /\ e.next = read.r.next
       /\ e.flux_status = read.r.flux_status
  <2>1. PICK old \in ResponderType : old = read.r
    BY <1>14
  <2>2. e = [old EXCEPT !.outq = Nothing]
    BY <1>15, <2>1, Zenon DEF Drained
  <2>3. Nothing \in Seq(Nat)
    BY Codes
  <2>4. e \in ResponderType
    BY <2>2, <2>3, ResponderFields, Zenon DEF ResponderType
  <2>5. e.outq = Nothing /\ e.next = old.next /\ e.flux_status = old.flux_status
    BY <2>2 DEF ResponderType
  <2>6. QED
    BY <2>1, <2>4, <2>5, Zenon
<1>17. PICK flux : flux = Asked(e, log, <<CMD_GET_FLUX_STATUS, 2>>)
  OBVIOUS
<1>18. /\ flux.answer = <<CMD_GET_FLUX_STATUS, e.flux_status>>
       /\ flux.r \in ResponderType /\ flux.r.outq = Nothing /\ flux.r.next = e.next
  <2>1. PICK frame : frame = <<CMD_GET_FLUX_STATUS, 2>>
    OBVIOUS
  <2>2. frame[1] = CMD_GET_FLUX_STATUS
    BY <2>1
  <2>3. Dispatch(e, log, frame) = Pushed(e, <<CMD_GET_FLUX_STATUS, e.flux_status>>)
    BY <1>4, <2>2 DEF Dispatch
  <2>4. flux = AnswerOf(Pushed(e, <<CMD_GET_FLUX_STATUS, e.flux_status>>))
    BY <1>17, <2>1, <2>3, Zenon DEF Asked, AnswerOf
  <2>5. QED
    BY <1>16, <2>4, StatusAnswered, Zenon
<1>19. PICK visit, inStep :
          /\ visit = Served(r, log, pos)
          /\ inStep = (/\ seek.answer = <<CMD_SEEK, ACK_OKAY>>
                       /\ head.answer = <<CMD_HEAD, ACK_OKAY>>
                       /\ read.answer = <<CMD_READ_FLUX, ACK_OKAY>>
                       /\ read.r.outq # Nothing
                       /\ read.r.outq[Len(read.r.outq)] = 0
                       /\ flux.answer[1] = CMD_GET_FLUX_STATUS
                       /\ flux.r.outq = Nothing)
  OBVIOUS
<1>20. visit = [r |-> flux.r,
                got |-> [pos |-> pos, data |-> read.r.outq, status |-> flux.answer[2],
                         inStep |-> inStep]]
  BY <1>5, <1>7, <1>8, <1>10, <1>12, <1>15, <1>17, <1>19, Zenon DEF Served
<1>21. /\ visit.r = flux.r /\ visit.got.pos = pos /\ visit.got.data = read.r.outq
       /\ visit.got.status = flux.answer[2] /\ visit.got.inStep = inStep
  BY <1>20
<1>22. inStep
  <2>1. read.r.outq # Nothing
    BY <1>14 DEF Nothing
  <2>2. flux.answer[1] = CMD_GET_FLUX_STATUS
    BY <1>18
  <2>3. QED
    BY <1>6, <1>9, <1>14, <1>18, <1>19, <2>1, <2>2, Zenon
<1>23. flux.answer[2] = read.r.flux_status
  BY <1>16, <1>18
<1>24. Ready(visit.r, log)
  BY <1>14, <1>16, <1>18, <1>21, Zenon DEF Ready
<1>25. visit.got.inStep /\ visit.got.pos = pos
  BY <1>21, <1>22, Zenon
<1>26. visit.r.next = read.r.next /\ visit.got.data = read.r.outq
       /\ visit.got.status = read.r.flux_status
  BY <1>16, <1>18, <1>21, <1>23, Zenon
<1>27. QED
  BY <1>14, <1>19, <1>24, <1>25, <1>26, Zenon DEF VisitIs

-----------------------------------------------------------------------------
(* The capturing session.                                                  *)

IsSeq(s) == \E S : s \in Seq(S)

DeviceType ==
    [cyl : (0 .. MaxTracks - 1) \cup {Unknown}, head : {0, 1}, status : Nat]

\* A transfer that is to be dumped.
TransferInv(t) ==
    \/ t = NoTransfer
    \/ /\ t.dir \in {"host", "dev"} /\ t.bytes \in Seq(Nat)
       /\ t.dir = "host" => HostBytes(t.bytes)

\* The program and its device.
DeviceInv ==
    /\ dev \in DeviceType /\ visits \in 0 .. MaxVisits
    /\ line \in Seq(Nat) /\ IsSeq(reads)
    /\ TransferInv(out)
    /\ pc \in {"seek_ack", "head"} => target \in Positions

\* The log and its parser.
LogInv ==
    /\ phase \in {"capture", "parsed", "replay", "refused"}
    /\ intact \in BOOLEAN
    /\ ParseInv(ps)

\* A sequence grows by one.
LEMMA AppendIsSeq ==
    ASSUME NEW s, IsSeq(s), NEW e
    PROVE  /\ IsSeq(Append(s, e)) /\ Len(s) \in Nat /\ DOMAIN s = 1 .. Len(s)
           /\ Len(Append(s, e)) = Len(s) + 1 /\ Append(s, e)[Len(s) + 1] = e
           /\ \A i \in 1 .. Len(s) : Append(s, e)[i] = s[i]
<1>1. PICK S : s \in Seq(S)
  BY Zenon DEF IsSeq
<1>2. PICK T : T = S \cup {e}
  OBVIOUS
<1>3. s \in Seq(T) /\ e \in T
  BY <1>1, <1>2, SeqMonotonic
<1>4. Append(s, e) \in Seq(T)
  BY <1>3, AppendProperties
<1>5. IsSeq(Append(s, e))
  BY <1>4, Zenon DEF IsSeq
<1>6. QED
  BY <1>3, <1>5, AppendProperties, LenProperties

\* A place of a sequence is overwritten.
LEMMA ExceptIsSeq ==
    ASSUME NEW s, IsSeq(s), NEW i, NEW e
    PROVE  IsSeq([s EXCEPT ![i] = e])
<1>1. PICK S : s \in Seq(S)
  BY Zenon DEF IsSeq
<1>2. PICK T : T = S \cup {e}
  OBVIOUS
<1>3. PICK n \in Nat : n = Len(s)
  BY <1>1, LenProperties
<1>4. s \in [1 .. n -> S]
  BY <1>1, <1>3, LenProperties
<1>5. [s EXCEPT ![i] = e] \in [1 .. n -> T]
  <2>1. PICK f : f = [s EXCEPT ![i] = e]
    OBVIOUS
  <2>2. DOMAIN f = 1 .. n /\ f = [j \in 1 .. n |-> f[j]]
    BY <1>4, <2>1
  <2>3. \A j \in 1 .. n : f[j] = e \/ f[j] = s[j]
    BY <1>4, <2>1
  <2>4. \A j \in 1 .. n : f[j] \in T
    BY <1>2, <1>4, <2>3
  <2>5. QED
    BY <2>1, <2>2, <2>4
<1>6. [s EXCEPT ![i] = e] \in Seq(T)
  <2>1. PICK f \in [1 .. n -> T] : f = [s EXCEPT ![i] = e]
    BY <1>5
  <2>2. f \in Seq(T)
    BY <1>3
  <2>3. QED
    BY <2>1, <2>2
<1>7. QED
  BY <1>6, Zenon DEF IsSeq

\* A frame that the host writes.
LEMMA HostTransfer ==
    ASSUME NEW frame, HostBytes(frame)
    PROVE  TransferInv([dir |-> "host", bytes |-> frame])
<1>1. PICK t : t = [dir |-> "host", bytes |-> frame]
  OBVIOUS
<1>2. t.dir = "host" /\ t.bytes = frame
  BY <1>1
<1>3. QED
  BY <1>1, <1>2 DEF TransferInv, HostBytes

\* Bytes that the host reads.
LEMMA DevTransfer ==
    ASSUME NEW l \in Seq(Nat), NEW n \in 1 .. Len(l)
    PROVE  /\ TransferInv([dir |-> "dev", bytes |-> SubSeq(l, 1, n)])
           /\ SubSeq(l, n + 1, Len(l)) \in Seq(Nat)
<1>1. PICK m \in Nat : m = Len(l)
  BY LenProperties
<1>2. \A i \in 1 .. m : l[i] \in Nat
  BY <1>1, ElementOfSeq
<1>3. SubSeq(l, 1, n) \in Seq(Nat) /\ SubSeq(l, n + 1, m) \in Seq(Nat)
  <2>1. \A i \in 1 .. n : l[i] \in Nat
    BY <1>1, <1>2
  <2>2. \A i \in n + 1 .. m : l[i] \in Nat
    BY <1>1, <1>2
  <2>3. QED
    BY <1>1, <2>1, <2>2, SubSeqProperties
<1>4. PICK t : t = [dir |-> "dev", bytes |-> SubSeq(l, 1, n)]
  OBVIOUS
<1>5. t.dir = "dev" /\ t.bytes \in Seq(Nat)
  BY <1>3, <1>4
<1>6. QED
  BY <1>1, <1>3, <1>4, <1>5 DEF TransferInv

\* The frames of a session: a command that moves the head has its argument.
LEMMA Frames ==
    /\ HostBytes(<<CMD_GET_INFO, 3, GETINFO_FIRMWARE>>)
    /\ \A c \in Nat : HostBytes(<<CMD_SEEK, 3, c>>) /\ HostBytes(<<CMD_HEAD, 3, c>>)
    /\ HostBytes(ReadFrame) /\ HostBytes(<<CMD_GET_FLUX_STATUS, 2>>)
<1>1. HostBytes(<<CMD_GET_INFO, 3, GETINFO_FIRMWARE>>)
  BY DEF HostBytes, CMD_GET_INFO, GETINFO_FIRMWARE, CMD_SEEK, CMD_HEAD
<1>2. \A c \in Nat : HostBytes(<<CMD_SEEK, 3, c>>) /\ HostBytes(<<CMD_HEAD, 3, c>>)
  BY DEF HostBytes, CMD_SEEK, CMD_HEAD
<1>3. HostBytes(ReadFrame)
  BY DEF HostBytes, ReadFrame, CMD_READ_FLUX, CMD_SEEK, CMD_HEAD
<1>4. HostBytes(<<CMD_GET_FLUX_STATUS, 2>>)
  BY DEF HostBytes, CMD_GET_FLUX_STATUS, CMD_SEEK, CMD_HEAD
<1>5. QED
  BY <1>1, <1>2, <1>3, <1>4

\* What the device answers.
LEMMA Answers ==
    ASSUME NEW a \in Nat, NEW b \in Nat, NEW rest \in Seq(Nat)
    PROVE  <<a, b>> \in Seq(Nat) /\ <<a, b>> \o rest \in Seq(Nat)
<1>1. PICK two : two = <<a, b>>
  OBVIOUS
<1>2. two \in Seq(Nat)
  BY <1>1
<1>3. two \o rest \in Seq(Nat)
  BY <1>2, ConcatProperties, Zenon
<1>4. QED
  BY <1>1, <1>2, <1>3

\* The host writes a frame.
LEMMA CommandStep ==
    ASSUME line \in Seq(Nat), NEW frame, HostBytes(frame), NEW answer \in Seq(Nat),
           out' = [dir |-> "host", bytes |-> frame], line' = line \o answer
    PROVE  TransferInv(out') /\ line' \in Seq(Nat)
<1>1. TransferInv([dir |-> "host", bytes |-> frame])
  BY HostTransfer, Zenon
<1>2. line \o answer \in Seq(Nat)
  BY ConcatProperties, Zenon
<1>3. QED
  BY <1>1, <1>2, Zenon

\* The host reads n bytes.
LEMMA ReadBytes ==
    ASSUME line \in Seq(Nat), NEW n \in 1 .. Len(line),
           out' = [dir |-> "dev", bytes |-> SubSeq(line, 1, n)],
           line' = SubSeq(line, n + 1, Len(line))
    PROVE  TransferInv(out') /\ line' \in Seq(Nat)
<1>1. PICK l \in Seq(Nat) : l = line
  OBVIOUS
<1>2. n \in 1 .. Len(l)
  BY <1>1
<1>3. /\ TransferInv([dir |-> "dev", bytes |-> SubSeq(l, 1, n)])
      /\ SubSeq(l, n + 1, Len(l)) \in Seq(Nat)
  BY <1>2, DevTransfer, Zenon
<1>4. QED
  BY <1>1, <1>3, Zenon

\* Program and device.
LEMMA DeviceStep ==
    ASSUME DeviceInv, [Next]_vars
    PROVE  DeviceInv'
<1>1. /\ dev \in DeviceType /\ visits \in 0 .. MaxVisits
      /\ line \in Seq(Nat) /\ IsSeq(reads) /\ TransferInv(out)
      /\ pc \in {"seek_ack", "head"} => target \in Positions
  BY Zenon DEF DeviceInv
<1>2. ASSUME UNCHANGED <<dev, visits, reads, target>>,
             TransferInv(out') /\ line' \in Seq(Nat), pc' \notin {"seek_ack", "head"}
      PROVE  DeviceInv'
  BY <1>1, <1>2, Zenon DEF DeviceInv
<1>3. ASSUME UNCHANGED <<dev, visits, line, target, pc>>,
             TransferInv(out'), IsSeq(reads')
      PROVE  DeviceInv'
  BY <1>1, <1>3, Zenon DEF DeviceInv
<1>4. CASE Identify
  <2>1. /\ out' = [dir |-> "host", bytes |-> <<CMD_GET_INFO, 3, GETINFO_FIRMWARE>>]
        /\ line' = line \o (<<CMD_GET_INFO, ACK_OKAY>> \o [i \in 1 .. InfoLen |-> 1])
        /\ pc' = "info_ack" /\ UNCHANGED <<dev, visits, reads, target>>
    BY <1>4, Zenon DEF Identify, Command
  <2>2. [i \in 1 .. InfoLen |-> 1] \in Seq(Nat)
    <3>1. PICK n \in Nat : n = InfoLen
      BY LogAssumption
    <3>2. [i \in 1 .. n |-> 1] \in Seq(Nat)
      OBVIOUS
    <3>3. QED
      BY <3>1, <3>2
  <2>3. <<CMD_GET_INFO, ACK_OKAY>> \o [i \in 1 .. InfoLen |-> 1] \in Seq(Nat)
    BY <2>2, Codes, Answers
  <2>4. TransferInv(out') /\ line' \in Seq(Nat)
    BY <1>1, <2>1, <2>3, Frames, CommandStep
  <2>5. pc' \notin {"seek_ack", "head"}
    BY <2>1
  <2>6. QED
    BY <1>2, <2>1, <2>4, <2>5, Zenon
<1>5. CASE \/ IdentifyAck \/ Info \/ HeadAck \/ ReadFluxAck \/ FirstByte \/ FluxStatusAck
  <2>1. \E n \in 1 .. Len(line) :
           /\ out' = [dir |-> "dev", bytes |-> SubSeq(line, 1, n)]
           /\ line' = SubSeq(line, n + 1, Len(line))
    BY <1>5, Zenon DEF IdentifyAck, Info, HeadAck, ReadFluxAck, FirstByte, FluxStatusAck,
                ReadAnswer, Read
  <2>2. UNCHANGED <<dev, visits, reads, target>>
    BY <1>5, Zenon DEF IdentifyAck, Info, HeadAck, ReadFluxAck, FirstByte, FluxStatusAck
  <2>3. pc' \notin {"seek_ack", "head"}
    BY <1>5 DEF IdentifyAck, Info, HeadAck, ReadFluxAck, FirstByte, FluxStatusAck,
                ReadAnswer, Read
  <2>4. TransferInv(out') /\ line' \in Seq(Nat)
    BY <1>1, <2>1, ReadBytes
  <2>5. QED
    BY <1>2, <2>2, <2>3, <2>4, Zenon
<1>6. CASE Seek
  <2>1. PICK pos \in Positions, ack \in {ACK_OKAY, ACK_NO_TRK0} :
          /\ target' = pos
          /\ dev' = [dev EXCEPT !.cyl = IF ack = ACK_OKAY THEN pos[1] ELSE Unknown]
          /\ out' = [dir |-> "host", bytes |-> <<CMD_SEEK, 3, pos[1]>>]
          /\ line' = line \o <<CMD_SEEK, ack>>
          /\ pc' = "seek_ack"
    BY <1>6, Zenon DEF Seek, Command
  <2>2. visits < MaxVisits /\ visits' = visits + 1 /\ reads' = reads
    BY <1>6, Zenon DEF Seek
  <2>3. pos[1] \in 0 .. MaxTracks - 1 /\ pos[1] \in Nat
    BY PositionsAssumption
  <2>4. dev' \in DeviceType
    <3>1. PICK cyl : cyl = IF ack = ACK_OKAY THEN pos[1] ELSE Unknown
      OBVIOUS
    <3>2. cyl \in (0 .. MaxTracks - 1) \cup {Unknown}
      BY <2>3, <3>1, Zenon
    <3>3. dev' = [dev EXCEPT !.cyl = cyl]
      BY <2>1, <3>1, Zenon
    <3>4. QED
      BY <1>1, <3>2, <3>3, Zenon DEF DeviceType
  <2>5. TransferInv(out') /\ line' \in Seq(Nat)
    <3>1. HostBytes(<<CMD_SEEK, 3, pos[1]>>)
      BY <2>3, Frames
    <3>2. <<CMD_SEEK, ack>> \in Seq(Nat)
      BY Codes, EmptySeq, Answers
    <3>3. QED
      BY <1>1, <2>1, <3>1, <3>2, CommandStep
  <2>6. visits' \in 0 .. MaxVisits
    BY <1>1, <2>2, PositionsAssumption
  <2>7. QED
    BY <1>1, <2>1, <2>2, <2>4, <2>5, <2>6, Zenon DEF DeviceInv
<1>7. CASE SeekAck
  <2>1. \E n \in 1 .. Len(line) :
           /\ out' = [dir |-> "dev", bytes |-> SubSeq(line, 1, n)]
           /\ line' = SubSeq(line, n + 1, Len(line))
    BY <1>7, Zenon DEF SeekAck, ReadAnswer, Read
  <2>2. UNCHANGED <<dev, visits, reads, target>> /\ pc = "seek_ack"
    BY <1>7, Zenon DEF SeekAck, Capturing
  <2>3. TransferInv(out') /\ line' \in Seq(Nat)
    BY <1>1, <2>1, ReadBytes
  <2>4. target \in Positions
    BY <1>1, <2>2
  <2>5. QED
    BY <1>1, <2>2, <2>3, <2>4, Zenon DEF DeviceInv
<1>8. CASE SelectHead
  <2>1. /\ dev' = [dev EXCEPT !.head = target[2]]
        /\ out' = [dir |-> "host", bytes |-> <<CMD_HEAD, 3, target[2]>>]
        /\ line' = line \o <<CMD_HEAD, ACK_OKAY>>
        /\ pc' = "head_ack" /\ UNCHANGED <<visits, reads, target>> /\ pc = "head"
    BY <1>8, Zenon DEF SelectHead, Command, Capturing
  <2>2. target[2] \in {0, 1} /\ target[2] \in Nat
    <3>1. target \in Positions
      BY <1>1, <2>1
    <3>2. QED
      BY <3>1, PositionsAssumption
  <2>3. dev' \in DeviceType
    BY <1>1, <2>1, <2>2, Zenon DEF DeviceType
  <2>4. TransferInv(out') /\ line' \in Seq(Nat)
    <3>1. HostBytes(<<CMD_HEAD, 3, target[2]>>)
      BY <2>2, Frames
    <3>2. <<CMD_HEAD, ACK_OKAY>> \in Seq(Nat)
      BY Codes, EmptySeq, Answers
    <3>3. QED
      BY <1>1, <2>1, <3>1, <3>2, CommandStep
  <2>5. pc' \notin {"seek_ack", "head"}
    BY <2>1
  <2>6. QED
    BY <1>1, <2>1, <2>3, <2>4, <2>5, Zenon DEF DeviceInv
<1>9. CASE ReadFlux
  <2>1. UNCHANGED <<visits, target>> /\ pc' = "read_ack"
    BY <1>9, Zenon DEF ReadFlux, Command
  <2>2. HostBytes(ReadFrame) /\ Len(reads) \in Nat
    BY <1>1, Frames, AppendIsSeq
  <2>3. CASE /\ Command(ReadFrame, <<CMD_READ_FLUX, ACK_NO_UNIT>>, "read_ack")
             /\ UNCHANGED <<dev, reads>>
    <3>1. <<CMD_READ_FLUX, ACK_NO_UNIT>> \in Seq(Nat)
      BY Codes, EmptySeq, Answers
    <3>2. /\ out' = [dir |-> "host", bytes |-> ReadFrame]
          /\ line' = line \o <<CMD_READ_FLUX, ACK_NO_UNIT>>
          /\ UNCHANGED <<dev, reads>>
      BY <2>3, Zenon DEF Command
    <3>3. TransferInv(out') /\ line' \in Seq(Nat)
      BY <1>1, <2>2, <3>1, <3>2, CommandStep
    <3>4. pc' \notin {"seek_ack", "head"}
      BY <2>1
    <3>5. QED
      BY <1>2, <2>1, <3>2, <3>3, <3>4, Zenon
  <2>4. ASSUME NEW flux \in {Nothing, Flux(Len(reads) + 1)},
               NEW status \in (IF flux = Nothing THEN {ACK_NO_INDEX}
                               ELSE {ACK_OKAY, ACK_FLUX_OVERFLOW}),
               reads' = Append(reads, [pos |-> <<dev.cyl, dev.head>>, sent |-> Append(flux, 0),
                                       whole |-> FALSE, status |-> NoAnswer]),
               dev' = [dev EXCEPT !.status = status],
               Command(ReadFrame, <<CMD_READ_FLUX, ACK_OKAY>> \o Append(flux, 0), "read_ack")
        PROVE  DeviceInv'
    <3>1. flux \in Seq(Nat)
      <4>1. PICK n \in Nat : n = Len(reads) + 1
        BY <2>2
      <4>2. <<20 * n, 20 * n + 1, 20 * n + 2>> \in Seq(Nat)
        OBVIOUS
      <4>3. Flux(Len(reads) + 1) \in Seq(Nat)
        BY <4>1, <4>2, Zenon DEF Flux
      <4>4. Nothing \in Seq(Nat)
        BY Codes
      <4>5. QED
        BY <2>4, <4>3, <4>4, Zenon
    <3>2. Append(flux, 0) \in Seq(Nat)
      BY <3>1, AppendProperties
    <3>3. <<CMD_READ_FLUX, ACK_OKAY>> \o Append(flux, 0) \in Seq(Nat)
      BY <3>2, Codes, Answers
    <3>4. /\ out' = [dir |-> "host", bytes |-> ReadFrame]
          /\ line' = line \o (<<CMD_READ_FLUX, ACK_OKAY>> \o Append(flux, 0))
      BY <2>4, Zenon DEF Command
    <3>5. TransferInv(out') /\ line' \in Seq(Nat)
      BY <1>1, <2>2, <3>3, <3>4, CommandStep
    <3>6. status \in Nat
      BY <2>4, Codes
    <3>7. dev' \in DeviceType
      BY <1>1, <2>4, <3>6, Zenon DEF DeviceType
    <3>8. IsSeq(reads')
      <4>1. PICK new : new = [pos |-> <<dev.cyl, dev.head>>, sent |-> Append(flux, 0),
                              whole |-> FALSE, status |-> NoAnswer]
        OBVIOUS
      <4>2. IsSeq(Append(reads, new))
        BY <1>1, AppendIsSeq
      <4>3. QED
        BY <2>4, <4>1, <4>2, Zenon
    <3>9. pc' \notin {"seek_ack", "head"}
      BY <2>1
    <3>10. QED
      BY <1>1, <2>1, <3>5, <3>7, <3>8, <3>9, Zenon DEF DeviceInv
  <2>5. QED
    BY <1>9, <2>3, <2>4, Zenon DEF ReadFlux
<1>10. CASE WaitingBytes
  <2>1. UNCHANGED <<dev, visits, reads, target>>
    BY <1>10, Zenon DEF WaitingBytes
  <2>2. pc' \notin {"seek_ack", "head"}
    BY <1>10 DEF WaitingBytes, Read
  <2>3. CASE UNCHANGED <<out, line>>
    BY <1>1, <1>2, <2>1, <2>2, <2>3, Zenon
  <2>4. CASE \E n \in 1 .. Len(line) :
                /\ out' = [dir |-> "dev", bytes |-> SubSeq(line, 1, n)]
                /\ line' = SubSeq(line, n + 1, Len(line))
    <3>1. TransferInv(out') /\ line' \in Seq(Nat)
      BY <1>1, <2>4, ReadBytes
    <3>2. QED
      BY <1>2, <2>1, <2>2, <3>1, Zenon
  <2>5. QED
    BY <1>10, <2>3, <2>4, Zenon DEF WaitingBytes, Read
<1>11. CASE ReadFails
  <2>1. UNCHANGED <<dev, visits, reads, target, out, line>> /\ pc' = "status"
    BY <1>11, Zenon DEF ReadFails
  <2>2. pc' \notin {"seek_ack", "head"}
    BY <2>1
  <2>3. QED
    BY <1>1, <1>2, <2>1, <2>2, Zenon
<1>12. CASE GetFluxStatus
  <2>1. /\ reads' = [reads EXCEPT ![Len(reads)].whole = (line = Nothing)]
        /\ out' = [dir |-> "host", bytes |-> <<CMD_GET_FLUX_STATUS, 2>>]
        /\ line' = line \o <<CMD_GET_FLUX_STATUS, dev.status>>
        /\ pc' = "status_ack" /\ UNCHANGED <<dev, visits, target>>
    BY <1>12, Zenon DEF GetFluxStatus, Command
  <2>2. dev.status \in Nat
    BY <1>1 DEF DeviceType
  <2>3. TransferInv(out') /\ line' \in Seq(Nat)
    <3>1. <<CMD_GET_FLUX_STATUS, dev.status>> \in Seq(Nat)
      BY <2>2, Codes, EmptySeq, Answers
    <3>2. QED
      BY <1>1, <2>1, <3>1, Frames, CommandStep
  <2>4. IsSeq(reads')
    <3>1. PICK new : new = [reads[Len(reads)] EXCEPT !.whole = (line = Nothing)]
      OBVIOUS
    <3>2. reads' = [reads EXCEPT ![Len(reads)] = new]
      BY <2>1, <3>1, Zenon
    <3>3. QED
      BY <1>1, <3>2, ExceptIsSeq, Zenon
  <2>5. pc' \notin {"seek_ack", "head"}
    BY <2>1
  <2>6. QED
    BY <1>1, <2>1, <2>3, <2>4, <2>5, Zenon DEF DeviceInv
<1>13. CASE WriteLog
  <2>1. /\ UNCHANGED <<dev, visits, line, target, pc>> /\ out' = NoTransfer
        /\ reads' = IF out.dir = "dev" /\ pc = "track" /\ out.bytes[1] = CMD_GET_FLUX_STATUS
                    THEN [reads EXCEPT ![Len(reads)].status = out.bytes[2]]
                    ELSE reads
    BY <1>13, Zenon DEF WriteLog
  <2>2. IsSeq(reads')
    <3>1. PICK new : new = [reads[Len(reads)] EXCEPT !.status = out.bytes[2]]
      OBVIOUS
    <3>2. IsSeq([reads EXCEPT ![Len(reads)] = new])
      BY <1>1, ExceptIsSeq, Zenon
    <3>3. QED
      BY <1>1, <2>1, <3>1, <3>2, Zenon
  <2>3. TransferInv(out')
    BY <2>1, Zenon DEF TransferInv
  <2>4. QED
    BY <1>3, <2>1, <2>2, <2>3, Zenon
<1>14. CASE \/ WriteJunk \/ Exit \/ Killed \/ Start \/ Visit \/ UNCHANGED vars
  <2>1. UNCHANGED <<dev, visits, line, target, pc, out, reads>>
    BY <1>14, Zenon DEF WriteJunk, Exit, Killed, Start, Visit, Session, vars
  <2>2. QED
    BY <1>1, <1>3, <2>1, Zenon
<1>15. QED
  BY <1>4, <1>5, <1>6, <1>7, <1>8, <1>9, <1>10, <1>11, <1>12, <1>13, <1>14, Zenon DEF Next

\* The log and its parser.
LEMMA LogStep ==
    ASSUME DeviceInv, LogInv, [Next]_vars
    PROVE  LogInv'
<1>1. /\ phase \in {"capture", "parsed", "replay", "refused"} /\ intact \in BOOLEAN
      /\ ParseInv(ps) /\ TransferInv(out)
  BY Zenon DEF LogInv, DeviceInv
<1>2. ASSUME phase' \in {"capture", "parsed", "replay", "refused"}, intact' \in BOOLEAN,
             ParseInv(ps')
      PROVE  LogInv'
  BY <1>2, Zenon DEF LogInv
<1>3. PICK p : p = ps
  OBVIOUS
<1>4. CASE \/ Identify \/ IdentifyAck \/ Info \/ Seek \/ SeekAck \/ SelectHead \/ HeadAck
           \/ ReadFlux \/ ReadFluxAck \/ FirstByte \/ WaitingBytes \/ GetFluxStatus
           \/ FluxStatusAck \/ Visit \/ UNCHANGED vars
  <2>1. UNCHANGED <<phase, intact, ps>>
    BY <1>4, Zenon DEF Identify, IdentifyAck, Info, Seek, SeekAck, SelectHead, HeadAck,
                ReadFlux, ReadFluxAck, FirstByte, WaitingBytes, GetFluxStatus,
                FluxStatusAck, Visit, Session, vars
  <2>2. QED
    BY <1>1, <1>2, <2>1, Zenon
<1>5. CASE ReadFails
  <2>1. UNCHANGED <<phase, ps>> /\ intact' = FALSE
    BY <1>5, Zenon DEF ReadFails
  <2>2. QED
    BY <1>1, <1>2, <2>1, Zenon
<1>6. CASE Start
  <2>1. UNCHANGED <<ps, intact>> /\ phase' \in {"refused", "replay"}
    BY <1>6, Zenon DEF Start, Session
  <2>2. QED
    BY <1>1, <1>2, <2>1, Zenon
<1>7. CASE WriteJunk
  <2>1. ps' = TakeLine(p, Junk) /\ intact' = FALSE /\ phase' = phase
    BY <1>3, <1>7, Zenon DEF WriteJunk
  <2>2. Junk \in LineType /\ Junk.kind # "host" /\ Junk.kind # "cont"
    BY EmptySeq DEF Junk, LineType, Nothing
  <2>3. ParseInv(TakeLine(p, Junk))
    BY <1>1, <1>3, <2>2, TakeLineStep, Zenon
  <2>4. QED
    BY <1>1, <1>2, <2>1, <2>3, Zenon
<1>8. CASE Exit
  <2>1. ps' = TakeEof(p) /\ phase' = "parsed" /\ intact' = intact
    BY <1>3, <1>8, Zenon DEF Exit
  <2>2. ParseInv(TakeEof(p))
    BY <1>1, <1>3, EofStep, Zenon
  <2>3. QED
    BY <1>1, <1>2, <2>1, <2>2, Zenon
<1>9. PICK kind, bytes, lines : /\ kind = out.dir /\ bytes = out.bytes
                                /\ lines = Dump(kind, bytes)
  OBVIOUS
<1>10. ASSUME out # NoTransfer
       PROVE  /\ kind \in {"host", "dev"} /\ bytes \in Seq(Nat)
              /\ kind = "host" => HostBytes(bytes)
              /\ lines \in Seq(LineType) /\ LinesOf(lines, kind, bytes)
              /\ DumpOf(lines, kind, bytes)
  <2>1. kind \in {"host", "dev"} /\ bytes \in Seq(Nat) /\ (kind = "host" => HostBytes(bytes))
    BY <1>1, <1>9, <1>10, Zenon DEF TransferInv
  <2>2. QED
    BY <1>9, <2>1, DumpIs, Zenon
<1>11. CASE WriteLog
  <2>1. /\ out # NoTransfer /\ ps' = TakeLines(p, lines)
        /\ intact' = intact /\ phase' = phase
    BY <1>3, <1>9, <1>11, Zenon DEF WriteLog
  <2>2. ParseInv(TakeLines(p, lines))
    BY <1>1, <1>3, <1>10, <2>1, LinesTaken, Zenon
  <2>3. QED
    BY <1>1, <1>2, <2>1, <2>2, Zenon
<1>12. CASE Killed
  <2>1. out # NoTransfer /\ intact' = FALSE /\ phase' = "parsed"
    BY <1>12, Zenon DEF Killed
  <2>2. PICK n \in 1 .. Len(lines) :
           \E stump \in {Nothing} \cup {<<l>> : l \in Stumps(lines[n])} :
              ps' = TakeEof(TakeLines(p, SubSeq(lines, 1, n - 1) \o stump))
    BY <1>3, <1>9, <1>12, Zenon DEF Killed
  <2>3. PICK stump \in {Nothing} \cup {<<l>> : l \in Stumps(lines[n])} :
           ps' = TakeEof(TakeLines(p, SubSeq(lines, 1, n - 1) \o stump))
    BY <2>2
  <2>4. TookPart(p, TakeLines(p, SubSeq(lines, 1, n - 1) \o stump), kind, bytes)
    BY <1>10, <2>1, PartTaken, Zenon
  <2>5. ParseInv(TakeLines(p, SubSeq(lines, 1, n - 1) \o stump))
    BY <1>1, <1>3, <1>10, <2>1, <2>4, BrokenLog, Zenon
  <2>6. ParseInv(TakeEof(TakeLines(p, SubSeq(lines, 1, n - 1) \o stump)))
    BY <2>5, EofStep, Zenon
  <2>7. QED
    BY <1>2, <2>1, <2>3, <2>6, Zenon
<1>13. QED
  BY <1>4, <1>5, <1>6, <1>7, <1>8, <1>11, <1>12, Zenon DEF Next

-----------------------------------------------------------------------------
(* The replay.                                                             *)

Least(a, b) == IF a <= b THEN a ELSE b

\* How often pos is among the first n visits.
Times(s, n, pos) == Cardinality({w \in 1 .. n : s[w].pos = pos})

\* What the visit v was given.
Gives(s, v, log) ==
    LET fifo == log[s[v].pos]
        nth == Times(s, v, s[v].pos)
    IN IF nth <= Len(fifo)
       THEN s[v].data = fifo[nth].data /\ s[v].status = fifo[nth].status
       ELSE s[v].data = EmptyRev /\ s[v].status = ACK_OKAY

\* The responder's count for a position is that of the visits there, as long as there
\* are streams.
ServeIs(r, s, log) ==
    /\ Ready(r, log) /\ IsSeq(s)
    /\ \A v \in DOMAIN s : s[v].pos \in Positions /\ s[v].inStep
    /\ \A pos \in Positions : r.next[pos] = Least(Times(s, Len(s), pos), Len(log[pos]))
    /\ \A v \in DOMAIN s : Gives(s, v, log)

ServeInv ==
    /\ phase # "replay" => served = Nothing /\ rp = NewResponder
    /\ ServeIs(rp, served, ps.fifo)

\* Counting visits.
LEMMA TimesIs ==
    ASSUME NEW s, IsSeq(s), NEW e
    PROVE  LET t == Append(s, e)
               n == Len(s)
           IN \A pos : /\ \A k \in 0 .. n : Times(t, k, pos) = Times(s, k, pos)
                       /\ \A k \in 0 .. n : Times(s, k, pos) \in Nat
                       /\ Times(t, n + 1, pos) =
                             IF e.pos = pos THEN Times(s, n, pos) + 1 ELSE Times(s, n, pos)
<1>1. PICK t, n : t = Append(s, e) /\ n = Len(s)
  OBVIOUS
<1>2. /\ n \in Nat /\ t[n + 1] = e
      /\ \A i \in 1 .. n : t[i] = s[i]
  BY <1>1, AppendIsSeq
<1>3. ASSUME NEW pos, NEW k \in 0 .. n
      PROVE  Times(t, k, pos) = Times(s, k, pos) /\ Times(s, k, pos) \in Nat
  <2>1. k \in Nat /\ \A w \in 1 .. k : t[w] = s[w]
    BY <1>2
  <2>2. {w \in 1 .. k : t[w].pos = pos} = {w \in 1 .. k : s[w].pos = pos}
    BY <2>1
  <2>3. IsFiniteSet({w \in 1 .. k : s[w].pos = pos})
    <3>1. IsFiniteSet(1 .. k)
      BY <2>1, FS_Interval
    <3>2. {w \in 1 .. k : s[w].pos = pos} \in SUBSET (1 .. k)
      OBVIOUS
    <3>3. QED
      BY <3>1, <3>2, FS_Subset, Zenon
  <2>4. QED
    BY <2>2, <2>3, FS_CardinalityType, Zenon DEF Times
<1>4. ASSUME NEW pos
      PROVE  Times(t, n + 1, pos) =
                IF e.pos = pos THEN Times(s, n, pos) + 1 ELSE Times(s, n, pos)
  <2>1. PICK A, B : /\ A = {w \in 1 .. n : s[w].pos = pos}
                    /\ B = {w \in 1 .. n + 1 : t[w].pos = pos}
    OBVIOUS
  <2>2. IsFiniteSet(A)
    <3>1. IsFiniteSet(1 .. n)
      BY <1>2, FS_Interval
    <3>2. A \in SUBSET (1 .. n)
      BY <2>1
    <3>3. QED
      BY <3>1, <3>2, FS_Subset, Zenon
  <2>3. B = IF e.pos = pos THEN A \cup {n + 1} ELSE A
    BY <1>2, <2>1
  <2>4. n + 1 \notin A
    BY <1>2, <2>1
  <2>5. Cardinality(A \cup {n + 1}) = Cardinality(A) + 1
    BY <2>2, <2>4, FS_AddElement
  <2>6. QED
    BY <2>1, <2>3, <2>5, Zenon DEF Times
<1>5. QED
  BY <1>1, <1>3, <1>4, Zenon

\* No visit has been made.
LEMMA FreshServe ==
    ASSUME NEW log \in [Places -> Seq(FluxType)]
    PROVE  ServeIs(NewResponder, Nothing, log)
<1>1. PICK s, r : s = Nothing /\ r = NewResponder
  OBVIOUS
<1>2. IsSeq(s) /\ Len(s) = 0 /\ DOMAIN s = {}
  <2>1. s \in Seq({0}) /\ Len(s) = 0 /\ DOMAIN s = {}
    BY <1>1, EmptySeq DEF Nothing
  <2>2. QED
    BY <2>1, Zenon DEF IsSeq
<1>3. Ready(r, log)
  BY <1>1, NewIsReady, Zenon
<1>4. \A pos \in Positions : r.next[pos] = Least(Times(s, Len(s), pos), Len(log[pos]))
  <2> TAKE pos \in Positions
  <2>1. {w \in 1 .. Len(s) : s[w].pos = pos} = {}
    BY <1>2
  <2>2. Times(s, Len(s), pos) = 0
    BY <2>1, FS_EmptySet, Zenon DEF Times
  <2>3. r.next[pos] = 0
    BY <1>1 DEF NewResponder
  <2>4. 0 <= Len(log[pos])
    <3>1. pos \in Places
      BY PositionsAssumption DEF Places
    <3>2. log[pos] \in Seq(FluxType)
      BY <3>1
    <3>3. QED
      BY <3>2, LenProperties
  <2>5. QED
    BY <2>2, <2>3, <2>4, Zenon DEF Least
<1>5. QED
  BY <1>1, <1>2, <1>3, <1>4, Zenon DEF ServeIs

\* One visit more.
LEMMA VisitServed ==
    ASSUME NEW log \in [Places -> Seq(FluxType)], NEW r, NEW s, ServeIs(r, s, log),
           NEW pos \in Positions, NEW visit, VisitIs(r, log, pos, visit)
    PROVE  ServeIs(visit.r, Append(s, visit.got), log)
<1>1. PICK got, next, t, n : /\ got = visit.got /\ next = visit.r.next
                             /\ t = Append(s, got) /\ n = Len(s)
  OBVIOUS
<1>2. /\ n \in Nat /\ DOMAIN s = 1 .. n /\ IsSeq(t) /\ Len(t) = n + 1 /\ DOMAIN t = 1 .. n + 1
      /\ t[n + 1] = got /\ \A i \in 1 .. n : t[i] = s[i]
  <2>1. IsSeq(s)
    BY Zenon DEF ServeIs
  <2>2. /\ n \in Nat /\ DOMAIN s = 1 .. n /\ IsSeq(t) /\ Len(t) = n + 1
        /\ t[n + 1] = got /\ \A i \in 1 .. n : t[i] = s[i]
    BY <1>1, <2>1, AppendIsSeq
  <2>3. DOMAIN t = 1 .. Len(t)
    BY <2>2, AppendIsSeq, Zenon
  <2>4. QED
    BY <2>2, <2>3
<1>3. got.pos = pos /\ got.inStep /\ Ready(visit.r, log)
  BY <1>1, Zenon DEF VisitIs
<1>4. \A at : /\ \A k \in 0 .. n : Times(t, k, at) = Times(s, k, at) /\ Times(s, k, at) \in Nat
              /\ Times(t, n + 1, at) = IF pos = at THEN Times(s, n, at) + 1 ELSE Times(s, n, at)
  <2>1. IsSeq(s)
    BY Zenon DEF ServeIs
  <2>2. \A at : /\ \A k \in 0 .. Len(s) : Times(Append(s, got), k, at) = Times(s, k, at)
                /\ \A k \in 0 .. Len(s) : Times(s, k, at) \in Nat
                /\ Times(Append(s, got), Len(s) + 1, at) =
                      IF got.pos = at THEN Times(s, Len(s), at) + 1 ELSE Times(s, Len(s), at)
    BY <2>1, TimesIs, Zenon
  <2>3. QED
    BY <1>1, <1>3, <2>2, Zenon
<1>5. PICK m, room, given : /\ m = Times(s, n, pos) /\ room = Len(log[pos])
                            /\ given = r.next[pos]
  OBVIOUS
<1>6. m \in Nat /\ room \in Nat /\ given = Least(m, room) /\ Times(t, n + 1, pos) = m + 1
  <2>1. m \in Nat /\ Times(t, n + 1, pos) = m + 1
    BY <1>2, <1>4, <1>5
  <2>2. room \in Nat
    <3>1. pos \in Places
      BY PositionsAssumption DEF Places
    <3>2. log[pos] \in Seq(FluxType)
      BY <3>1
    <3>3. QED
      BY <1>5, <3>2, LenProperties
  <2>3. given = Least(m, room)
    BY <1>1, <1>5, Zenon DEF ServeIs
  <2>4. QED
    BY <2>1, <2>2, <2>3
<1>7. \A v \in DOMAIN t : t[v].pos \in Positions /\ t[v].inStep
  <2>1. \A v \in 1 .. n : s[v].pos \in Positions /\ s[v].inStep
    BY <1>2, Zenon DEF ServeIs
  <2> TAKE v \in DOMAIN t
  <2>2. CASE v = n + 1
    BY <1>2, <1>3, <2>2
  <2>3. CASE v # n + 1
    <3>1. v \in 1 .. n
      BY <1>2, <2>3
    <3>2. t[v] = s[v]
      BY <1>2, <3>1
    <3>3. QED
      BY <2>1, <3>1, <3>2, Zenon
  <2>4. QED
    BY <2>2, <2>3
<1>8. \A at \in Positions : next[at] = Least(Times(t, Len(t), at), Len(log[at]))
  <2> TAKE at \in Positions
  <2>1. r.next \in [Positions -> Nat]
    <3>1. r \in ResponderType
      BY Zenon DEF ServeIs, Ready
    <3>2. QED
      BY <3>1, ResponderFields, Zenon
  <2>2. CASE at = pos
    <3>1. Times(t, Len(t), at) = m + 1
      BY <1>2, <1>6, <2>2
    <3>2. next[at] = IF given < room THEN given + 1 ELSE given
      <4>1. CASE given < room
        <5>1. next = [r.next EXCEPT ![pos] = r.next[pos] + 1]
          BY <1>1, <1>5, <4>1, Zenon DEF VisitIs
        <5>2. QED
          BY <1>5, <2>1, <2>2, <4>1, <5>1
      <4>2. CASE ~(given < room)
        <5>1. next = r.next
          BY <1>1, <1>5, <4>2, Zenon DEF VisitIs
        <5>2. QED
          BY <1>5, <2>2, <4>2, <5>1
      <4>3. QED
        BY <4>1, <4>2
    <3>3. QED
      BY <1>5, <1>6, <2>2, <3>1, <3>2 DEF Least
  <2>3. CASE at # pos
    <3>1. Times(t, Len(t), at) = Times(s, n, at)
      BY <1>2, <1>4, <2>3, Zenon
    <3>2. next[at] = r.next[at]
      <4>1. next = [r.next EXCEPT ![pos] = r.next[pos] + 1] \/ next = r.next
        BY <1>1, Zenon DEF VisitIs
      <4>2. QED
        BY <2>1, <2>3, <4>1
    <3>3. r.next[at] = Least(Times(s, n, at), Len(log[at]))
      BY <1>1, Zenon DEF ServeIs
    <3>4. QED
      BY <3>1, <3>2, <3>3, Zenon
  <2>4. QED
    BY <2>2, <2>3
<1>9. \A v \in DOMAIN t : Gives(t, v, log)
  <2> TAKE v \in DOMAIN t
  <2>1. CASE v = n + 1
    <3>1. t[v].pos = pos /\ t[v] = got /\ Times(t, v, pos) = m + 1
      BY <1>2, <1>3, <1>6, <2>1
    <3>2. CASE given < room
      <4>1. m + 1 <= room /\ given + 1 = m + 1
        BY <1>6, <3>2 DEF Least
      <4>2. got.data = log[pos][given + 1].data /\ got.status = log[pos][given + 1].status
        BY <1>1, <1>5, <3>2, Zenon DEF VisitIs
      <4>3. QED
        BY <1>5, <3>1, <4>1, <4>2, Zenon DEF Gives
    <3>3. CASE ~(given < room)
      <4>1. ~(m + 1 <= room)
        BY <1>6, <3>3 DEF Least
      <4>2. got.data = EmptyRev /\ got.status = ACK_OKAY
        BY <1>1, <1>5, <3>3, Zenon DEF VisitIs
      <4>3. QED
        BY <1>5, <3>1, <4>1, <4>2, Zenon DEF Gives
    <3>4. QED
      BY <3>2, <3>3
  <2>2. CASE v # n + 1
    <3>1. v \in 1 .. n /\ v \in 0 .. n
      BY <1>2, <2>2
    <3>2. t[v] = s[v]
      BY <1>2, <3>1
    <3>3. \A at : Times(t, v, at) = Times(s, v, at)
      BY <1>4, <3>1, Zenon
    <3>4. Gives(s, v, log)
      BY <1>2, <3>1, Zenon DEF ServeIs
    <3>5. QED
      BY <3>2, <3>3, <3>4, Zenon DEF Gives
  <2>3. QED
    BY <2>1, <2>2
<1>10. QED
  BY <1>1, <1>2, <1>3, <1>7, <1>8, <1>9, ZenonT(60) DEF ServeIs

\* Replaying.
LEMMA ServeStep ==
    ASSUME LogInv, LogInv', ServeInv, [Next]_vars
    PROVE  ServeInv'
<1>1. /\ phase # "replay" => served = Nothing /\ rp = NewResponder
      /\ ServeIs(rp, served, ps.fifo)
  BY Zenon DEF ServeInv
<1>2. PICK log, log1 : log = ps.fifo /\ log1 = ps'.fifo
  OBVIOUS
<1>3. /\ log \in [Places -> Seq(FluxType)] /\ StreamsClosed(log)
      /\ log1 \in [Places -> Seq(FluxType)]
  <2>1. ParseInv(ps) /\ ParseInv(ps')
    BY Zenon DEF LogInv
  <2>2. PICK p, q : p = ps /\ q = ps'
    OBVIOUS
  <2>3. p \in ParseType /\ q \in ParseType /\ StreamsClosed(p.fifo)
    BY <2>1, <2>2, Zenon DEF ParseInv
  <2>4. QED
    BY <1>2, <2>2, <2>3, ParseFields, Zenon
<1>4. ASSUME served' = Nothing, rp' = NewResponder
      PROVE  ServeInv'
  <2>1. ServeIs(NewResponder, Nothing, log1)
    BY <1>3, FreshServe, Zenon
  <2>2. QED
    BY <1>2, <1>4, <2>1, Zenon DEF ServeInv
<1>5. CASE Visit
  <2>1. PICK r, s : r = rp /\ s = served
    OBVIOUS
  <2>2. PICK pos, visit :
          /\ pos \in Positions /\ visit = Served(r, log, pos)
          /\ rp' = visit.r /\ served' = Append(s, visit.got)
    BY <1>2, <1>5, <2>1, Zenon DEF Visit
  <2>3. phase = "replay" /\ phase' = phase /\ ps' = ps
    BY <1>5, Zenon DEF Visit, Session
  <2>4. ServeIs(r, s, log)
    BY <1>1, <1>2, <2>1, Zenon
  <2>5. Ready(r, log)
    BY <2>4, Zenon DEF ServeIs
  <2>6. VisitIs(r, log, pos, visit)
    BY <1>3, <2>2, <2>5, VisitStep, Zenon
  <2>7. ServeIs(visit.r, Append(s, visit.got), log)
    BY <1>3, <2>2, <2>4, <2>6, VisitServed, Zenon
  <2>8. QED
    BY <1>2, <2>2, <2>3, <2>7, Zenon DEF ServeInv
<1>6. CASE Start
  <2>1. phase = "parsed" /\ served' = served /\ rp' = NewResponder
    BY <1>6, Zenon DEF Start
  <2>2. phase # "replay"
    BY <2>1
  <2>3. QED
    BY <1>1, <1>4, <2>1, <2>2, Zenon
<1>7. CASE UNCHANGED vars
  BY <1>1, <1>7, Zenon DEF vars, ServeInv
<1>8. CASE \/ Identify \/ IdentifyAck \/ Info \/ Seek \/ SeekAck \/ SelectHead \/ HeadAck
           \/ ReadFlux \/ ReadFluxAck \/ FirstByte \/ WaitingBytes \/ ReadFails
           \/ GetFluxStatus \/ FluxStatusAck \/ WriteLog \/ WriteJunk \/ Exit \/ Killed
  <2>1. phase = "capture" /\ UNCHANGED <<rp, served>>
    BY <1>8, Zenon DEF Identify, IdentifyAck, Info, Seek, SeekAck, SelectHead, HeadAck,
                ReadFlux, ReadFluxAck, FirstByte, WaitingBytes, ReadFails, GetFluxStatus,
                FluxStatusAck, WriteLog, WriteJunk, Exit, Killed, Capturing, Replaying
  <2>2. phase # "replay"
    BY <2>1
  <2>3. QED
    BY <1>1, <1>4, <2>1, <2>2, Zenon
<1>9. QED
  BY <1>5, <1>6, <1>7, <1>8, Zenon DEF Next

-----------------------------------------------------------------------------
(* What becomes of the fields of a parser.                                 *)

Bit(b) == IF b THEN 1 ELSE 0

\* Resolving an answer leaves these alone,
Kept(p, r) ==
    /\ r.inHost = p.inHost /\ r.hbuf = p.hbuf /\ r.cyl = p.cyl /\ r.head = p.head
    /\ r.pcmd = p.pcmd /\ r.pcyl = p.pcyl /\ r.phead = p.phead /\ r.dbuf = p.dbuf

\* and all but the streams these too.
Same(p, r) == Kept(p, r) /\ r.fifo = p.fifo /\ r.last = p.last /\ r.info = p.info

\* Warnings count, and that is all.
LEMMA WarnFields ==
    ASSUME NEW p, ParseInv(p), NEW loss \in BOOLEAN
    PROVE  /\ Same(p, Warn(p)) /\ Warn(p).warnings = p.warnings + 1
           /\ Same(p, WarnIf(p, loss)) /\ WarnIf(p, loss).warnings = p.warnings + Bit(loss)
<1>1. p \in ParseType /\ p.warnings \in Nat
  BY ParseFields, Zenon DEF ParseInv
<1>2. PICK q, w : q = Warn(p) /\ w = p.warnings + 1
  OBVIOUS
<1>3. q = [p EXCEPT !.warnings = w]
  BY <1>2, Zenon DEF Warn
<1>4. Same(p, q) /\ q.warnings = w
  BY <1>1, <1>3 DEF ParseType, Same, Kept
<1>5. Same(p, p)
  BY Zenon DEF Same, Kept
<1>6. CASE loss
  BY <1>2, <1>4, <1>6 DEF WarnIf, Bit
<1>7. CASE ~loss
  BY <1>1, <1>2, <1>4, <1>5, <1>7 DEF WarnIf, Bit
<1>8. QED
  BY <1>6, <1>7

\* One step after the other.
LEMMA SameTrans ==
    ASSUME NEW p, NEW q, NEW r
    PROVE  /\ Kept(p, q) /\ Kept(q, r) => Kept(p, r)
           /\ Same(p, q) /\ Same(q, r) => Same(p, r)
  BY Zenon DEF Same, Kept

\* The streams with one more.
Grown(p, stream) ==
    [p.fifo EXCEPT ![<<p.pcyl, p.phead>>] = Append(@, [data |-> stream, status |-> ACK_OKAY])]

GrownLast(p) == <<<<p.pcyl, p.phead>>, Len(p.fifo[<<p.pcyl, p.phead>>]) + 1>>

\* flux_append()
LEMMA FluxAppendFields ==
    ASSUME NEW p, ParseInv(p), NEW stream
    PROVE  LET r == FluxAppend(p, stream)
           IN /\ Kept(p, r) /\ r.info = p.info /\ r.warnings = p.warnings
              /\ r.fifo = Grown(p, stream) /\ r.last = GrownLast(p)
<1>1. p \in ParseType
  BY Zenon DEF ParseInv
<1>2. PICK f, l : f = Grown(p, stream) /\ l = GrownLast(p)
  OBVIOUS
<1>3. PICK r : r = [p EXCEPT !.fifo = f, !.last = l]
  OBVIOUS
<1>4. r = FluxAppend(p, stream)
  BY <1>2, <1>3, Zenon DEF FluxAppend, Grown, GrownLast
<1>5. Kept(p, r) /\ r.info = p.info /\ r.warnings = p.warnings /\ r.fifo = f /\ r.last = l
  BY <1>1, <1>3 DEF ParseType, Kept
<1>6. QED
  BY <1>2, <1>4, <1>5, Zenon

\* A stream is stored if it has a pulse.
LEMMA ReadFields ==
    ASSUME NEW p, ParseInv(p)
    PROVE  LET r == ReadResolved(p)
               stream == Stream(Body(p))
           IN /\ Kept(p, r) /\ r.info = p.info
              /\ r.fifo = (IF Len(stream) > 1 THEN Grown(p, stream) ELSE p.fifo)
              /\ r.last = (IF Len(stream) > 1 THEN GrownLast(p) ELSE p.last)
              /\ r.warnings = p.warnings + Bit(~Terminated(Body(p)))
                                + Bit(Len(Body(p)) > Len(stream))
<1>1. p \in ParseType /\ p.warnings \in Nat
  BY ParseFields, Zenon DEF ParseInv
<1>2. PICK stream, cut, more :
          /\ stream = Stream(Body(p)) /\ cut = (~Terminated(Body(p)))
          /\ more = (Len(Body(p)) > Len(stream))
  OBVIOUS
<1>3. stream \in Seq(Nat) /\ Closed(stream) /\ cut \in BOOLEAN /\ more \in BOOLEAN
  BY <1>1, <1>2, BodyType, StreamClosed
<1>4. PICK q : q = WarnIf(p, cut)
  OBVIOUS
<1>5. ParseInv(q) /\ Same(p, q) /\ q.warnings = p.warnings + Bit(cut)
  BY <1>3, <1>4, WarnStep, WarnFields, Zenon
<1>6. PICK r : r = IF Len(stream) > 1 THEN FluxAppend(q, stream) ELSE q
  OBVIOUS
<1>7. /\ ParseInv(r) /\ Kept(p, r) /\ r.info = p.info /\ r.warnings = q.warnings
      /\ r.fifo = (IF Len(stream) > 1 THEN Grown(p, stream) ELSE p.fifo)
      /\ r.last = (IF Len(stream) > 1 THEN GrownLast(p) ELSE p.last)
  <2>1. CASE Len(stream) > 1
    <3>1. ParseInv(r)
      BY <1>3, <1>5, <1>6, <2>1, FluxAppendStep, Zenon
    <3>2. /\ Kept(q, r) /\ r.info = q.info /\ r.warnings = q.warnings
          /\ r.fifo = Grown(q, stream) /\ r.last = GrownLast(q)
      BY <1>5, <1>6, <2>1, FluxAppendFields, Zenon
    <3>3. Grown(q, stream) = Grown(p, stream) /\ GrownLast(q) = GrownLast(p)
      BY <1>5, Zenon DEF Grown, GrownLast, Same, Kept
    <3>4. Kept(p, r)
      BY <1>5, <3>2, SameTrans, Zenon DEF Same
    <3>5. QED
      BY <1>5, <2>1, <3>1, <3>2, <3>3, <3>4, Zenon DEF Same
  <2>2. CASE ~(Len(stream) > 1)
    BY <1>5, <1>6, <2>2, Zenon DEF Same
  <2>3. QED
    BY <2>1, <2>2
<1>8. PICK s : s = WarnIf(r, more)
  OBVIOUS
<1>9. Same(r, s) /\ s.warnings = r.warnings + Bit(more)
  BY <1>3, <1>7, <1>8, WarnFields, Zenon
<1>10. s = ReadResolved(p)
  BY <1>2, <1>4, <1>6, <1>8, Zenon DEF ReadResolved
<1>11. Kept(p, s)
  BY <1>7, <1>9, SameTrans, Zenon DEF Same
<1>12. s.warnings = p.warnings + Bit(cut) + Bit(more)
  BY <1>5, <1>7, <1>9, Zenon
<1>13. QED
  BY <1>2, <1>7, <1>9, <1>10, <1>11, <1>12, Zenon DEF Same

\* The stream that a status is for, with that status.
Marked(p) == [p.fifo EXCEPT ![p.last[1]][p.last[2]].status = p.dbuf[2]]

\* The answer about the status changes the status of one stream.
LEMMA StatusFields ==
    ASSUME NEW p, ParseInv(p), Len(p.dbuf) >= 2
    PROVE  LET r == StatusResolved(p)
           IN /\ Kept(p, r) /\ r.info = p.info /\ r.last = p.last
              /\ r.fifo = (IF p.last # Nothing THEN Marked(p) ELSE p.fifo)
              /\ r.warnings = p.warnings + Bit(Body(p) # Nothing)
<1>1. p \in ParseType
  BY Zenon DEF ParseInv
<1>2. PICK loss : loss = (Body(p) # Nothing)
  OBVIOUS
<1>3. loss \in BOOLEAN
  BY <1>2
<1>4. CASE p.last = Nothing
  <2>1. StatusResolved(p) = WarnIf(p, loss)
    BY <1>2, <1>4, Zenon DEF StatusResolved
  <2>2. QED
    BY <1>2, <1>3, <1>4, <2>1, WarnFields, Zenon DEF Same
<1>5. CASE p.last # Nothing
  <2>1. PICK f : f = Marked(p)
    OBVIOUS
  <2>2. PICK q : q = [p EXCEPT !.fifo = f]
    OBVIOUS
  <2>3. /\ Kept(p, q) /\ q.info = p.info /\ q.last = p.last /\ q.fifo = f
        /\ q.warnings = p.warnings
    BY <1>1, <2>2 DEF ParseType, Kept
  <2>4. q = [p EXCEPT !.fifo[p.last[1]][p.last[2]].status = p.dbuf[2]]
    BY <2>1, <2>2, Zenon DEF Marked
  <2>5. StatusResolved(p) = WarnIf(q, loss)
    BY <1>2, <1>5, <2>4, Zenon DEF StatusResolved
  <2>6. p.warnings \in Nat
    BY <1>1, ParseFields
  <2>7. PICK r, w : r = WarnIf(q, loss) /\ w = q.warnings + 1
    OBVIOUS
  <2>8. Same(q, r) /\ r.warnings = q.warnings + Bit(loss)
    <3>1. CASE loss
      <4>1. r = [q EXCEPT !.warnings = w]
        BY <2>7, <3>1, Zenon DEF WarnIf, Warn
      <4>2. q = [x \in DOMAIN p |-> q[x]] /\ DOMAIN q = DOMAIN p
        BY <1>1, <2>2 DEF ParseType
      <4>3. Same(q, r) /\ r.warnings = w
        BY <1>1, <2>2, <4>1 DEF ParseType, Same, Kept
      <4>4. QED
        BY <2>7, <3>1, <4>3, Zenon DEF Bit
    <3>2. CASE ~loss
      <4>1. r = q
        BY <2>7, <3>2, Zenon DEF WarnIf
      <4>2. q.warnings + 0 = q.warnings
        BY <2>3, <2>6
      <4>3. QED
        BY <3>2, <4>1, <4>2, Zenon DEF Bit, Same, Kept
    <3>3. QED
      BY <1>3, <3>1, <3>2
  <2>9. Kept(p, r)
    BY <2>3, <2>8, SameTrans, Zenon DEF Same
  <2>10. QED
    BY <1>2, <1>5, <2>1, <2>3, <2>5, <2>7, <2>8, <2>9, Zenon DEF Same
<1>6. QED
  BY <1>4, <1>5

\* The answer to GET_INFO changes no stream.
LEMMA InfoFields ==
    ASSUME NEW p, ParseInv(p)
    PROVE  LET r == InfoResolved(p)
               whole == p.pcmd[3] = GETINFO_FIRMWARE /\ Len(Body(p)) >= InfoLen
           IN /\ Kept(p, r) /\ r.fifo = p.fifo /\ r.last = p.last
              /\ r.info = (IF whole /\ p.info = Nothing THEN SubSeq(Body(p), 1, InfoLen) ELSE p.info)
              /\ r.warnings = p.warnings + Bit(whole /\ Len(Body(p)) > InfoLen)
<1>1. p \in ParseType /\ p.warnings \in Nat
  BY ParseFields, Zenon DEF ParseInv
<1>2. PICK body, more, whole :
        /\ body = Body(p) /\ more = (Len(body) > InfoLen)
        /\ whole = (p.pcmd[3] = GETINFO_FIRMWARE /\ Len(body) >= InfoLen)
  OBVIOUS
<1>3. more \in BOOLEAN /\ whole \in BOOLEAN
  BY <1>2
<1>4. CASE whole
  <2>1. PICK info : info = SubSeq(body, 1, InfoLen)
    OBVIOUS
  <2>2. PICK q : q = IF p.info = Nothing THEN [p EXCEPT !.info = info] ELSE p
    OBVIOUS
  <2>3. /\ Kept(p, q) /\ q.fifo = p.fifo /\ q.last = p.last /\ q.warnings = p.warnings
        /\ q.info = IF p.info = Nothing THEN info ELSE p.info
    BY <1>1, <2>2 DEF ParseType, Kept
  <2>4. InfoResolved(p) = WarnIf(q, more)
    BY <1>2, <1>4, <2>1, <2>2, Zenon DEF InfoResolved
  <2>5. PICK r, w : r = WarnIf(q, more) /\ w = q.warnings + 1
    OBVIOUS
  <2>6. Same(q, r) /\ r.warnings = q.warnings + Bit(more)
    <3>1. CASE more
      <4>1. r = [q EXCEPT !.warnings = w]
        BY <2>5, <3>1, Zenon DEF WarnIf, Warn
      <4>2. Same(q, r) /\ r.warnings = w
        BY <1>1, <2>2, <4>1 DEF ParseType, Same, Kept
      <4>3. QED
        BY <2>5, <3>1, <4>2, Zenon DEF Bit
    <3>2. CASE ~more
      <4>1. r = q
        BY <2>5, <3>2, Zenon DEF WarnIf
      <4>2. q.warnings + 0 = q.warnings
        BY <1>1, <2>3
      <4>3. QED
        BY <3>2, <4>1, <4>2, Zenon DEF Bit, Same, Kept
    <3>3. QED
      BY <1>3, <3>1, <3>2
  <2>7. Kept(p, r)
    BY <2>3, <2>6, SameTrans, Zenon DEF Same
  <2>8. Bit(whole /\ Len(body) > InfoLen) = Bit(more)
    BY <1>2, <1>4 DEF Bit
  <2>9. r.fifo = p.fifo /\ r.last = p.last /\ r.info = q.info /\ r.warnings = p.warnings + Bit(more)
    BY <2>3, <2>6, Zenon DEF Same
  <2>10. QED
    BY <1>2, <1>4, <2>1, <2>3, <2>4, <2>5, <2>7, <2>8, <2>9
<1>5. CASE ~whole
  <2>1. InfoResolved(p) = p
    BY <1>2, <1>5, Zenon DEF InfoResolved
  <2>2. p.warnings + 0 = p.warnings /\ Kept(p, p)
    BY <1>1 DEF Kept
  <2>3. Bit(whole /\ Len(Body(p)) > InfoLen) = 0
    BY <1>5 DEF Bit
  <2>4. QED
    BY <1>2, <1>5, <2>1, <2>2, <2>3, Zenon
<1>6. QED
  BY <1>3, <1>4, <1>5

\* The answer in dbuf is one to the command before it.
Fits(p) == p.pcmd # Nothing /\ Len(p.dbuf) >= 2 /\ p.dbuf[1] = p.pcmd[1]
Okay(p) == p.dbuf[2] = ACK_OKAY

\* What resolving does to the streams, to what a status is for, and to the warnings.
ResolvedFifo(p) ==
    IF Fits(p) /\ p.pcmd[1] = CMD_READ_FLUX /\ Okay(p) /\ Len(Stream(Body(p))) > 1
    THEN Grown(p, Stream(Body(p)))
    ELSE IF Fits(p) /\ p.pcmd[1] = CMD_GET_FLUX_STATUS /\ p.last # Nothing THEN Marked(p)
    ELSE p.fifo

ResolvedLast(p) ==
    IF Fits(p) /\ p.pcmd[1] = CMD_READ_FLUX /\ Okay(p) /\ Len(Stream(Body(p))) > 1
    THEN GrownLast(p)
    ELSE p.last

Lost(p) ==
    IF p.pcmd = Nothing THEN Bit(p.dbuf # Nothing)
    ELSE IF ~Fits(p) THEN 1
    ELSE IF p.pcmd[1] = CMD_READ_FLUX /\ Okay(p)
         THEN Bit(~Terminated(Body(p))) + Bit(Len(Body(p)) > Len(Stream(Body(p))))
    ELSE IF p.pcmd[1] = CMD_GET_INFO /\ Okay(p)
         THEN Bit((p.pcmd[3] = GETINFO_FIRMWARE /\ Len(Body(p)) >= InfoLen) /\ Len(Body(p)) > InfoLen)
    ELSE Bit(Body(p) # Nothing)

\* What resolving an answer makes of the streams, and how often it warns.
LEMMA ResolvedFields ==
    ASSUME NEW p, ParseInv(p)
    PROVE  LET r == Resolved(p)
           IN /\ Kept(p, r) /\ r.fifo = ResolvedFifo(p) /\ r.last = ResolvedLast(p)
              /\ r.warnings = p.warnings + Lost(p) /\ Lost(p) \in Nat
<1>1. p \in ParseType
  BY Zenon DEF ParseInv
<1>2. p.warnings \in Nat /\ Len(p.dbuf) \in Nat
  BY <1>1, ParseFields, LenProperties
<1>3. PICK r : r = Resolved(p)
  OBVIOUS
<1>4. Lost(p) \in Nat
  BY SMTT(60) DEF Lost, Bit
<1>5. PICK some, body : some = (p.dbuf # Nothing) /\ body = (Body(p) # Nothing)
  OBVIOUS
<1>6. some \in BOOLEAN /\ body \in BOOLEAN
  BY <1>5
<1>7. PICK cmd : cmd = p.pcmd[1]
  OBVIOUS
<1>8. CASE p.pcmd = Nothing
  <2>1. r = WarnIf(p, some)
    BY <1>3, <1>5, <1>8, Zenon DEF Resolved
  <2>2. Same(p, r) /\ r.warnings = p.warnings + Bit(some)
    BY <1>6, <2>1, WarnFields, Zenon
  <2>3. ~Fits(p) /\ Lost(p) = Bit(some)
    BY <1>5, <1>8, Zenon DEF Fits, Lost
  <2>4. ResolvedFifo(p) = p.fifo /\ ResolvedLast(p) = p.last
    BY <2>3, Zenon DEF ResolvedFifo, ResolvedLast
  <2>5. QED
    BY <1>3, <1>4, <2>2, <2>3, <2>4, Zenon DEF Same
<1>9. CASE p.pcmd # Nothing /\ ~Fits(p)
  <2>1. Len(p.dbuf) < 2 \/ p.dbuf[1] # p.pcmd[1]
    BY <1>2, <1>9 DEF Fits
  <2>2. r = Warn(p)
    BY <1>3, <1>9, <2>1, Zenon DEF Resolved
  <2>3. Same(p, r) /\ r.warnings = p.warnings + 1
    BY <2>2, TRUE \in BOOLEAN, WarnFields, Zenon
  <2>4. Lost(p) = 1
    BY <1>9, Zenon DEF Lost
  <2>5. ResolvedFifo(p) = p.fifo /\ ResolvedLast(p) = p.last
    BY <1>9, Zenon DEF ResolvedFifo, ResolvedLast
  <2>6. QED
    BY <1>3, <1>4, <2>3, <2>4, <2>5, Zenon DEF Same
<1>10. CASE Fits(p)
  <2>1. p.pcmd # Nothing /\ Len(p.dbuf) >= 2 /\ p.dbuf[1] = p.pcmd[1]
    BY <1>10, Zenon DEF Fits
  <2>2. ~(Len(p.dbuf) < 2 \/ p.dbuf[1] # p.pcmd[1])
    BY <1>2, <2>1
  <2>3. r = CASE cmd = CMD_GET_INFO /\ Okay(p) -> InfoResolved(p)
              [] cmd = CMD_READ_FLUX /\ Okay(p) -> ReadResolved(p)
              [] cmd = CMD_GET_FLUX_STATUS -> StatusResolved(p)
              [] OTHER -> WarnIf(p, body)
    BY <1>3, <1>5, <1>7, <2>1, <2>2, Zenon DEF Resolved, Okay
  <2>4. CASE cmd = CMD_GET_INFO /\ Okay(p)
    <3>1. cmd # CMD_READ_FLUX /\ cmd # CMD_GET_FLUX_STATUS
      BY <2>4 DEF CMD_GET_INFO, CMD_READ_FLUX, CMD_GET_FLUX_STATUS
    <3>2. r = InfoResolved(p)
      BY <2>3, <2>4, <3>1, Zenon
    <3>3. PICK more : more = (/\ p.pcmd[3] = GETINFO_FIRMWARE /\ Len(Body(p)) >= InfoLen
                              /\ Len(Body(p)) > InfoLen)
      OBVIOUS
    <3>4. /\ Kept(p, r) /\ r.fifo = p.fifo /\ r.last = p.last
          /\ r.warnings = p.warnings + Bit(more)
      BY <3>2, <3>3, InfoFields, Zenon
    <3>5. Lost(p) = Bit(more)
      BY <1>7, <1>10, <2>1, <2>4, <3>1, <3>3, Zenon DEF Lost
    <3>6. ResolvedFifo(p) = p.fifo /\ ResolvedLast(p) = p.last
      BY <1>7, <3>1, Zenon DEF ResolvedFifo, ResolvedLast
    <3>7. QED
      BY <1>3, <1>4, <3>4, <3>5, <3>6, Zenon
  <2>5. CASE cmd = CMD_READ_FLUX /\ Okay(p)
    <3>1. cmd # CMD_GET_INFO /\ cmd # CMD_GET_FLUX_STATUS
      BY <2>5 DEF CMD_GET_INFO, CMD_READ_FLUX, CMD_GET_FLUX_STATUS
    <3>2. r = ReadResolved(p)
      BY <2>3, <2>5, <3>1, Zenon
    <3>3. PICK s, a, b : /\ s = Stream(Body(p)) /\ a = Bit(~Terminated(Body(p)))
                         /\ b = Bit(Len(Body(p)) > Len(s))
      OBVIOUS
    <3>4. /\ Kept(p, r)
          /\ r.fifo = (IF Len(s) > 1 THEN Grown(p, s) ELSE p.fifo)
          /\ r.last = (IF Len(s) > 1 THEN GrownLast(p) ELSE p.last)
          /\ r.warnings = p.warnings + a + b
      BY <3>2, <3>3, ReadFields, Zenon
    <3>5. Lost(p) = a + b
      BY <1>7, <1>10, <2>1, <2>5, <3>3, Zenon DEF Lost
    <3>6. a \in Nat /\ b \in Nat
      BY <3>3 DEF Bit
    <3>7. r.warnings = p.warnings + Lost(p)
      BY <1>2, <3>4, <3>5, <3>6
    <3>8. r.fifo = ResolvedFifo(p) /\ r.last = ResolvedLast(p)
      BY <1>7, <1>10, <2>5, <3>1, <3>3, <3>4, Zenon DEF ResolvedFifo, ResolvedLast
    <3>9. QED
      BY <1>3, <1>4, <3>4, <3>7, <3>8, Zenon
  <2>6. CASE cmd = CMD_GET_FLUX_STATUS
    <3>1. cmd # CMD_GET_INFO /\ cmd # CMD_READ_FLUX
      BY <2>6 DEF CMD_GET_INFO, CMD_READ_FLUX, CMD_GET_FLUX_STATUS
    <3>2. r = StatusResolved(p)
      BY <2>3, <2>6, <3>1, Zenon
    <3>3. /\ Kept(p, r) /\ r.last = p.last
          /\ r.fifo = (IF p.last # Nothing THEN Marked(p) ELSE p.fifo)
          /\ r.warnings = p.warnings + Bit(body)
      BY <1>5, <2>1, <3>2, StatusFields, Zenon
    <3>4. Lost(p) = Bit(body)
      BY <1>5, <1>7, <1>10, <2>1, <3>1, Zenon DEF Lost
    <3>5. r.fifo = ResolvedFifo(p) /\ r.last = ResolvedLast(p)
      BY <1>7, <1>10, <2>6, <3>1, <3>3, Zenon DEF ResolvedFifo, ResolvedLast
    <3>6. QED
      BY <1>3, <1>4, <3>3, <3>4, <3>5, Zenon
  <2>7. CASE /\ ~(cmd = CMD_GET_INFO /\ Okay(p)) /\ ~(cmd = CMD_READ_FLUX /\ Okay(p))
             /\ cmd # CMD_GET_FLUX_STATUS
    <3>1. r = WarnIf(p, body)
      BY <2>3, <2>7, Zenon
    <3>2. Same(p, r) /\ r.warnings = p.warnings + Bit(body)
      BY <1>6, <3>1, WarnFields, Zenon
    <3>3. Lost(p) = Bit(body)
      BY <1>5, <1>7, <1>10, <2>1, <2>7, Zenon DEF Lost
    <3>4. ResolvedFifo(p) = p.fifo /\ ResolvedLast(p) = p.last
      BY <1>7, <2>7, Zenon DEF ResolvedFifo, ResolvedLast
    <3>5. QED
      BY <1>3, <1>4, <3>2, <3>3, <3>4, Zenon DEF Same
  <2>8. QED
    BY <2>4, <2>5, <2>6, <2>7
<1>11. QED
  BY <1>8, <1>9, <1>10, Zenon DEF Fits

\* resolve_pending(), with all it changes.
LEMMA PendingFields ==
    ASSUME NEW p, ParseInv(p)
    PROVE  LET r == ResolvePending(p)
           IN /\ r.inHost = p.inHost /\ r.hbuf = p.hbuf /\ r.cyl = p.cyl /\ r.head = p.head
              /\ r.pcmd = Nothing /\ r.pcyl = p.pcyl /\ r.phead = p.phead /\ r.dbuf = Nothing
              /\ r.fifo = ResolvedFifo(p) /\ r.last = ResolvedLast(p)
              /\ r.warnings = p.warnings + Lost(p)
<1>1. PICK q, r : q = Resolved(p) /\ r = ResolvePending(p)
  OBVIOUS
<1>2. /\ Kept(p, q) /\ q.fifo = ResolvedFifo(p) /\ q.last = ResolvedLast(p)
      /\ q.warnings = p.warnings + Lost(p)
  BY <1>1, ResolvedFields, Zenon
<1>3. r = [q EXCEPT !.pcmd = Nothing, !.dbuf = Nothing]
  BY <1>1, Zenon DEF ResolvePending
<1>4. ParseInv(r) /\ r.pcmd = Nothing /\ r.dbuf = Nothing
  BY <1>1, ResolveStep, Zenon
<1>5. r \in ParseType
  BY <1>4, Zenon DEF ParseInv
<1>6. q \in ParseType
  BY <1>1, ResolvedStep, Zenon DEF ParseInv
<1>7. /\ r.inHost = q.inHost /\ r.hbuf = q.hbuf /\ r.cyl = q.cyl /\ r.head = q.head
      /\ r.pcyl = q.pcyl /\ r.phead = q.phead /\ r.fifo = q.fifo /\ r.last = q.last
      /\ r.warnings = q.warnings
  BY <1>3, <1>6 DEF ParseType
<1>8. QED
  BY <1>1, <1>2, <1>4, <1>7, Zenon DEF Kept

\* Where a command leaves the head.
TrackedCyl(p, frame) ==
    IF frame[1] = CMD_SEEK /\ frame[3] < MaxTracks THEN frame[3] ELSE p.cyl
TrackedHead(p, frame) == IF frame[1] = CMD_HEAD THEN frame[3] % 2 ELSE p.head
OffDisk(frame) == Bit(frame[1] = CMD_SEEK /\ frame[3] >= MaxTracks)

TrackedIs(p, frame, r) ==
    /\ r.inHost = p.inHost /\ r.hbuf = p.hbuf
    /\ r.cyl = TrackedCyl(p, frame) /\ r.head = TrackedHead(p, frame)
    /\ r.pcmd = p.pcmd /\ r.pcyl = p.pcyl /\ r.phead = p.phead /\ r.dbuf = p.dbuf
    /\ r.fifo = p.fifo /\ r.last = p.last
    /\ r.warnings = p.warnings + OffDisk(frame)

\* Seeks and head changes are followed.
LEMMA TrackedFields ==
    ASSUME NEW p, ParseInv(p), NEW frame, HostBytes(frame),
           Len(frame) >= 2, frame[2] = Len(frame)
    PROVE  TrackedIs(p, frame, Tracked(p, frame))
<1>1. p \in ParseType /\ frame \in Seq(Nat) /\ p.warnings \in Nat
  BY ParseFields, Zenon DEF ParseInv, HostBytes
<1>2. PICK cmd, arg : cmd = frame[1] /\ arg = frame[3]
  OBVIOUS
<1>3. cmd \in {CMD_SEEK, CMD_HEAD} => arg \in Nat
  <2> SUFFICES ASSUME cmd \in {CMD_SEEK, CMD_HEAD} PROVE arg \in Nat
    OBVIOUS
  <2>1. Len(frame) = 3
    BY <1>2 DEF HostBytes
  <2>2. 3 \in 1 .. Len(frame)
    BY <2>1
  <2>3. QED
    BY <1>1, <1>2, <2>2, ElementOfSeq
<1>4. CASE cmd = CMD_SEEK /\ arg < MaxTracks
  <2>1. frame[1] = CMD_SEEK /\ frame[3] < MaxTracks /\ ~(frame[3] >= MaxTracks)
    BY <1>2, <1>3, <1>4, LogAssumption
  <2>2. frame[1] # CMD_HEAD
    BY <2>1 DEF CMD_SEEK, CMD_HEAD
  <2>3. PICK r : r = [p EXCEPT !.cyl = arg]
    OBVIOUS
  <2>4. Tracked(p, frame) = r
    BY <1>2, <2>1, <2>2, <2>3, Zenon DEF Tracked
  <2>5. /\ TrackedCyl(p, frame) = arg /\ TrackedHead(p, frame) = p.head /\ OffDisk(frame) = 0
    BY <1>2, <2>1, <2>2, Zenon DEF TrackedCyl, TrackedHead, OffDisk, Bit
  <2>6. /\ r.inHost = p.inHost /\ r.hbuf = p.hbuf /\ r.cyl = arg /\ r.head = p.head
        /\ r.pcmd = p.pcmd /\ r.pcyl = p.pcyl /\ r.phead = p.phead /\ r.dbuf = p.dbuf
        /\ r.fifo = p.fifo /\ r.last = p.last /\ r.warnings = p.warnings + 0
    BY <1>1, <2>3 DEF ParseType
  <2>7. QED
    BY <2>4, <2>5, <2>6, Zenon DEF TrackedIs
<1>5. CASE cmd = CMD_SEEK /\ ~(arg < MaxTracks)
  <2>1. frame[1] = CMD_SEEK /\ ~(frame[3] < MaxTracks) /\ frame[3] >= MaxTracks
    BY <1>2, <1>3, <1>5, LogAssumption
  <2>2. frame[1] # CMD_HEAD
    BY <2>1 DEF CMD_SEEK, CMD_HEAD
  <2>3. Tracked(p, frame) = Warn(p)
    BY <2>1, <2>2, Zenon DEF Tracked
  <2>4. /\ TrackedCyl(p, frame) = p.cyl /\ TrackedHead(p, frame) = p.head /\ OffDisk(frame) = 1
    BY <2>1, <2>2, Zenon DEF TrackedCyl, TrackedHead, OffDisk, Bit
  <2>5. Same(p, Warn(p)) /\ Warn(p).warnings = p.warnings + 1
    BY TRUE \in BOOLEAN, WarnFields, Zenon
  <2>6. QED
    BY <2>3, <2>4, <2>5, Zenon DEF Same, Kept, TrackedIs
<1>6. CASE cmd = CMD_HEAD
  <2>1. frame[1] = CMD_HEAD /\ frame[1] # CMD_SEEK
    BY <1>2, <1>6 DEF CMD_SEEK, CMD_HEAD
  <2>2. PICK head : head = arg % 2
    OBVIOUS
  <2>3. PICK r : r = [p EXCEPT !.head = head]
    OBVIOUS
  <2>4. Tracked(p, frame) = r
    BY <1>2, <2>1, <2>2, <2>3, Zenon DEF Tracked
  <2>5. /\ TrackedCyl(p, frame) = p.cyl /\ TrackedHead(p, frame) = head /\ OffDisk(frame) = 0
    BY <1>2, <2>1, <2>2, Zenon DEF TrackedCyl, TrackedHead, OffDisk, Bit
  <2>6. /\ r.inHost = p.inHost /\ r.hbuf = p.hbuf /\ r.cyl = p.cyl /\ r.head = head
        /\ r.pcmd = p.pcmd /\ r.pcyl = p.pcyl /\ r.phead = p.phead /\ r.dbuf = p.dbuf
        /\ r.fifo = p.fifo /\ r.last = p.last /\ r.warnings = p.warnings + 0
    BY <1>1, <2>3 DEF ParseType
  <2>7. QED
    BY <2>4, <2>5, <2>6, Zenon DEF TrackedIs
<1>7. CASE cmd \notin {CMD_SEEK, CMD_HEAD}
  <2>1. frame[1] # CMD_SEEK /\ frame[1] # CMD_HEAD
    BY <1>2, <1>7
  <2>2. Tracked(p, frame) = p
    BY <2>1, Zenon DEF Tracked
  <2>3. /\ TrackedCyl(p, frame) = p.cyl /\ TrackedHead(p, frame) = p.head /\ OffDisk(frame) = 0
    BY <2>1, Zenon DEF TrackedCyl, TrackedHead, OffDisk, Bit
  <2>4. p.warnings + 0 = p.warnings
    BY <1>1
  <2>5. QED
    BY <2>2, <2>3, <2>4, Zenon DEF TrackedIs
<1>8. QED
  BY <1>4, <1>5, <1>6, <1>7, Zenon

\* A frame that is a command.
Valid(frame) == Len(frame) >= 2 /\ Len(frame) <= FrameMax /\ frame[2] = Len(frame)

\* host_frame(), with all it changes.
HostFrameIs(p, frame, r) ==
    /\ r.inHost = p.inHost /\ r.hbuf = p.hbuf /\ r.dbuf = Nothing
    /\ r.fifo = ResolvedFifo(p) /\ r.last = ResolvedLast(p)
    /\ Valid(frame) =>
          /\ r.cyl = TrackedCyl(p, frame) /\ r.head = TrackedHead(p, frame)
          /\ r.pcmd = frame /\ r.pcyl = r.cyl /\ r.phead = r.head
          /\ r.warnings = p.warnings + Lost(p) + OffDisk(frame)
    /\ ~Valid(frame) =>
          /\ r.cyl = p.cyl /\ r.head = p.head
          /\ r.pcmd = Nothing /\ r.pcyl = p.pcyl /\ r.phead = p.phead
          /\ r.warnings = p.warnings + Lost(p) + 1

\* What a command of the host makes of the parser.
LEMMA HostFrameFields ==
    ASSUME NEW p, ParseInv(p), NEW frame, HostBytes(frame)
    PROVE  HostFrameIs(p, frame, HostFrame(p, frame))
<1>1. PICK q, t : q = ResolvePending(p) /\ t = Tracked(q, frame)
  OBVIOUS
<1>2. /\ ParseInv(q) /\ q.inHost = p.inHost /\ q.hbuf = p.hbuf /\ q.cyl = p.cyl /\ q.head = p.head
      /\ q.pcmd = Nothing /\ q.pcyl = p.pcyl /\ q.phead = p.phead /\ q.dbuf = Nothing
      /\ q.fifo = ResolvedFifo(p) /\ q.last = ResolvedLast(p)
      /\ q.warnings = p.warnings + Lost(p)
  BY <1>1, ResolveStep, PendingFields, Zenon
<1>3. frame \in Seq(Nat) /\ Len(frame) \in Nat
  BY LenProperties DEF HostBytes
<1>4. CASE ~Valid(frame)
  <2>1. Len(frame) < 2 \/ Len(frame) > FrameMax \/ frame[2] # Len(frame)
    BY <1>3, <1>4, LogAssumption DEF Valid
  <2>2. HostFrame(p, frame) = Warn(q)
    BY <1>1, <2>1, Zenon DEF HostFrame
  <2>3. Same(q, Warn(q)) /\ Warn(q).warnings = q.warnings + 1
    BY <1>2, TRUE \in BOOLEAN, WarnFields, Zenon
  <2>4. QED
    BY <1>2, <1>4, <2>2, <2>3, Zenon DEF Same, Kept, HostFrameIs
<1>5. CASE Valid(frame)
  <2>1. /\ ~(Len(frame) < 2 \/ Len(frame) > FrameMax \/ frame[2] # Len(frame))
        /\ Len(frame) >= 2 /\ frame[2] = Len(frame)
    BY <1>3, <1>5, LogAssumption DEF Valid
  <2>2. ParseInv(t)
    BY <1>1, <1>2, <2>1, TrackedStep, Zenon
  <2>3. /\ t.inHost = q.inHost /\ t.hbuf = q.hbuf
        /\ t.cyl = TrackedCyl(q, frame) /\ t.head = TrackedHead(q, frame)
        /\ t.dbuf = q.dbuf /\ t.fifo = q.fifo /\ t.last = q.last
        /\ t.warnings = q.warnings + OffDisk(frame)
    <3>1. TrackedIs(q, frame, t)
      BY <1>1, <1>2, <2>1, TrackedFields, Zenon
    <3>2. QED
      BY <3>1, Zenon DEF TrackedIs
  <2>4. TrackedCyl(q, frame) = TrackedCyl(p, frame) /\ TrackedHead(q, frame) = TrackedHead(p, frame)
    BY <1>2, Zenon DEF TrackedCyl, TrackedHead
  <2>5. t \in ParseType
    BY <2>2, Zenon DEF ParseInv
  <2>6. PICK cyl, head : cyl = t.cyl /\ head = t.head
    OBVIOUS
  <2>7. PICK r : r = [t EXCEPT !.pcmd = frame, !.pcyl = cyl, !.phead = head]
    OBVIOUS
  <2>8. HostFrame(p, frame) = r
    BY <1>1, <2>1, <2>6, <2>7, Zenon DEF HostFrame
  <2>9. /\ r.inHost = t.inHost /\ r.hbuf = t.hbuf /\ r.cyl = t.cyl /\ r.head = t.head
        /\ r.pcmd = frame /\ r.pcyl = cyl /\ r.phead = head /\ r.dbuf = t.dbuf
        /\ r.fifo = t.fifo /\ r.last = t.last /\ r.warnings = t.warnings
    BY <2>5, <2>7 DEF ParseType
  <2>10. QED
    BY <1>2, <1>5, <2>3, <2>4, <2>6, <2>8, <2>9, Zenon DEF HostFrameIs
<1>6. QED
  BY <1>4, <1>5

\* q is as p, with d warnings more.
Alike(p, q, d) ==
    /\ q.cyl = p.cyl /\ q.head = p.head /\ q.pcmd = p.pcmd
    /\ q.pcyl = p.pcyl /\ q.phead = p.phead /\ q.dbuf = p.dbuf
    /\ q.last = p.last /\ q.fifo = p.fifo
    /\ q.warnings = p.warnings + d

\* No warning decides on anything.
LEMMA AlikeResolves ==
    ASSUME NEW p, NEW q, NEW d, Alike(p, q, d)
    PROVE  /\ ResolvedFifo(q) = ResolvedFifo(p) /\ ResolvedLast(q) = ResolvedLast(p)
           /\ Lost(q) = Lost(p)
<1>1. Fits(q) = Fits(p) /\ Okay(q) = Okay(p) /\ Body(q) = Body(p) /\ GrownLast(q) = GrownLast(p)
  BY DEF Alike, Fits, Okay, Body, GrownLast
<1>2. Marked(q) = Marked(p) /\ \A s : Grown(q, s) = Grown(p, s)
  BY DEF Alike, Marked, Grown
<1>3. q.pcmd = p.pcmd /\ q.dbuf = p.dbuf /\ q.last = p.last /\ q.fifo = p.fifo
  BY DEF Alike
<1>4. QED
  BY <1>1, <1>2, <1>3 DEF ResolvedFifo, ResolvedLast, Lost

\* A command leaves parsers alike that were,
LEMMA AlikeHostFrame ==
    ASSUME NEW p, ParseInv(p), NEW q, ParseInv(q), NEW d \in Nat, Alike(p, q, d),
           NEW frame, HostBytes(frame)
    PROVE  Alike(HostFrame(p, frame), HostFrame(q, frame), d)
<1>1. PICK a, b : a = HostFrame(p, frame) /\ b = HostFrame(q, frame)
  OBVIOUS
<1>2. HostFrameIs(p, frame, a) /\ HostFrameIs(q, frame, b)
  BY <1>1, HostFrameFields, Zenon
<1>3. p.warnings \in Nat /\ q.warnings \in Nat /\ q.warnings = p.warnings + d
  BY ParseFields, Zenon DEF ParseInv, Alike
<1>4. Lost(p) \in Nat /\ Lost(q) = Lost(p)
  BY ResolvedFields, AlikeResolves, Zenon
<1>5. OffDisk(frame) \in Nat
  BY DEF OffDisk, Bit
<1>6. a.fifo = b.fifo /\ a.last = b.last /\ a.dbuf = b.dbuf
  <2>1. ResolvedFifo(q) = ResolvedFifo(p) /\ ResolvedLast(q) = ResolvedLast(p)
    BY AlikeResolves, Zenon
  <2>2. QED
    BY <1>2, <2>1, Zenon DEF HostFrameIs
<1>7. CASE Valid(frame)
  <2>1. /\ a.cyl = TrackedCyl(p, frame) /\ a.head = TrackedHead(p, frame)
        /\ a.pcmd = frame /\ a.pcyl = a.cyl /\ a.phead = a.head
        /\ a.warnings = p.warnings + Lost(p) + OffDisk(frame)
    BY <1>2, <1>7, Zenon DEF HostFrameIs
  <2>2. /\ b.cyl = TrackedCyl(q, frame) /\ b.head = TrackedHead(q, frame)
        /\ b.pcmd = frame /\ b.pcyl = b.cyl /\ b.phead = b.head
        /\ b.warnings = q.warnings + Lost(q) + OffDisk(frame)
    BY <1>2, <1>7, Zenon DEF HostFrameIs
  <2>3. TrackedCyl(q, frame) = TrackedCyl(p, frame) /\ TrackedHead(q, frame) = TrackedHead(p, frame)
    BY Zenon DEF Alike, TrackedCyl, TrackedHead
  <2>4. b.warnings = a.warnings + d
    BY <1>3, <1>4, <1>5, <2>1, <2>2
  <2>5. QED
    BY <1>1, <1>6, <2>1, <2>2, <2>3, <2>4, Zenon DEF Alike
<1>8. CASE ~Valid(frame)
  <2>1. /\ a.cyl = p.cyl /\ a.head = p.head
        /\ a.pcmd = Nothing /\ a.pcyl = p.pcyl /\ a.phead = p.phead
        /\ a.warnings = p.warnings + Lost(p) + 1
    BY <1>2, <1>8, Zenon DEF HostFrameIs
  <2>2. /\ b.cyl = q.cyl /\ b.head = q.head
        /\ b.pcmd = Nothing /\ b.pcyl = q.pcyl /\ b.phead = q.phead
        /\ b.warnings = q.warnings + Lost(q) + 1
    BY <1>2, <1>8, Zenon DEF HostFrameIs
  <2>3. b.warnings = a.warnings + d
    BY <1>3, <1>4, <2>1, <2>2
  <2>4. QED
    BY <1>1, <1>6, <2>1, <2>2, <2>3, Zenon DEF Alike
<1>9. QED
  BY <1>7, <1>8

\* The end of a host frame changes these.
LEMMA FrameEndsFields ==
    ASSUME NEW p, ParseInv(p)
    PROVE  /\ p.inHost => Alike(HostFrame(p, p.hbuf), FrameEnds(p), 0)
           /\ ~p.inHost => FrameEnds(p) = p /\ Alike(p, FrameEnds(p), 0)
           /\ ParseInv(FrameEnds(p)) /\ ~FrameEnds(p).inHost /\ FrameEnds(p).hbuf = Nothing
<1>1. ParseInv(FrameEnds(p)) /\ ~FrameEnds(p).inHost /\ FrameEnds(p).hbuf = Nothing
  BY FrameEndsStep, Zenon
<1>2. ASSUME p.inHost
      PROVE  Alike(HostFrame(p, p.hbuf), FrameEnds(p), 0)
  <2>1. PICK q : q = HostFrame(p, p.hbuf)
    OBVIOUS
  <2>2. ParseInv(q)
    BY <2>1, HostFrameStep, Zenon DEF ParseInv
  <2>3. q \in ParseType /\ q.warnings \in Nat
    BY <2>2, ParseFields, Zenon DEF ParseInv
  <2>4. PICK r : r = [q EXCEPT !.inHost = FALSE, !.hbuf = Nothing]
    OBVIOUS
  <2>5. r = FrameEnds(p)
    BY <1>2, <2>1, <2>4, Zenon DEF FrameEnds
  <2>6. Alike(q, r, 0)
    BY <2>3, <2>4 DEF ParseType, Alike
  <2>7. QED
    BY <2>1, <2>5, <2>6, Zenon
<1>3. ASSUME ~p.inHost
      PROVE  FrameEnds(p) = p /\ Alike(p, FrameEnds(p), 0)
  <2>1. FrameEnds(p) = p
    BY <1>3, Zenon DEF FrameEnds
  <2>2. p.warnings + 0 = p.warnings
    BY ParseFields DEF ParseInv
  <2>3. QED
    BY <2>1, <2>2, Zenon DEF Alike
<1>4. QED
  BY <1>1, <1>2, <1>3, Zenon

\* Extra warnings add up.
LEMMA AlikeTrans ==
    ASSUME NEW p, p.warnings \in Nat, NEW q, NEW r, NEW d \in Nat, NEW e \in Nat,
           Alike(p, q, d), Alike(q, r, e)
    PROVE  Alike(p, r, d + e)
<1>1. r.warnings = p.warnings + (d + e)
  BY DEF Alike
<1>2. QED
  BY <1>1, Zenon DEF Alike

\* and so does the end of a frame.
LEMMA AlikeFrameEnds ==
    ASSUME NEW p, ParseInv(p), NEW q, ParseInv(q), NEW d \in Nat, Alike(p, q, d),
           q.inHost = p.inHost, q.hbuf = p.hbuf
    PROVE  Alike(FrameEnds(p), FrameEnds(q), d)
<1>1. CASE p.inHost
  <2>1. PICK a, b, x, y : /\ a = HostFrame(p, p.hbuf) /\ b = HostFrame(q, q.hbuf)
                          /\ x = FrameEnds(p) /\ y = FrameEnds(q)
    OBVIOUS
  <2>2. Alike(a, b, d)
    <3>1. HostBytes(p.hbuf)
      BY Zenon DEF ParseInv
    <3>2. QED
      BY <2>1, <3>1, AlikeHostFrame, Zenon
  <2>3. Alike(a, x, 0) /\ Alike(b, y, 0)
    BY <1>1, <2>1, FrameEndsFields, Zenon
  <2>4. ParseInv(a) /\ ParseInv(b)
    BY <2>1, HostFrameStep, ZenonT(40) DEF ParseInv
  <2>5. a.warnings \in Nat /\ b.warnings \in Nat
    BY <2>4, ParseFields, Zenon DEF ParseInv
  <2>6. y.warnings = x.warnings + d
    BY <2>2, <2>3, <2>5 DEF Alike
  <2>7. QED
    BY <2>1, <2>2, <2>3, <2>6, Zenon DEF Alike
<1>2. CASE ~p.inHost
  <2>1. FrameEnds(p) = p /\ FrameEnds(q) = q
    BY <1>2, Zenon DEF FrameEnds
  <2>2. QED
    BY <2>1, Zenon
<1>3. QED
  BY <1>1, <1>2

-----------------------------------------------------------------------------
(* A transfer in the log, whole or in part.                                *)

\* The parser with more of the device's bytes.
With(p, bytes) == [p EXCEPT !.dbuf = @ \o bytes]

\* More bytes of the device's change its answer only.
LEMMA WithFields ==
    ASSUME NEW p, ParseInv(p), NEW bytes \in Seq(Nat)
    PROVE  LET r == With(p, bytes)
           IN /\ ParseInv(r) /\ r.dbuf = p.dbuf \o bytes
              /\ r.inHost = p.inHost /\ r.hbuf = p.hbuf /\ r.cyl = p.cyl /\ r.head = p.head
              /\ r.pcmd = p.pcmd /\ r.pcyl = p.pcyl /\ r.phead = p.phead
              /\ r.last = p.last /\ r.fifo = p.fifo /\ r.warnings = p.warnings
<1>1. p \in ParseType
  BY Zenon DEF ParseInv
<1>2. PICK d : d = p.dbuf \o bytes
  OBVIOUS
<1>3. d \in Seq(Nat)
  BY <1>1, <1>2, ParseFields, ConcatProperties
<1>4. PICK r : r = [p EXCEPT !.dbuf = d]
  OBVIOUS
<1>5. r = With(p, bytes)
  BY <1>2, <1>4, Zenon DEF With
<1>6. r \in ParseType
  BY <1>1, <1>3, <1>4, Zenon DEF ParseType
<1>7. /\ r.dbuf = d
      /\ r.inHost = p.inHost /\ r.hbuf = p.hbuf /\ r.cyl = p.cyl /\ r.head = p.head
      /\ r.pcmd = p.pcmd /\ r.pcyl = p.pcyl /\ r.phead = p.phead
      /\ r.last = p.last /\ r.fifo = p.fifo /\ r.warnings = p.warnings
  BY <1>1, <1>4 DEF ParseType
<1>8. ParseInv(r)
  BY <1>6, <1>7, Zenon DEF ParseInv
<1>9. QED
  BY <1>2, <1>5, <1>7, <1>8, Zenon

\* A line of a host frame: base is the parser that the frame found.
LEMMA HostLine ==
    ASSUME NEW p, ParseInv(p), NEW l \in LineType, NEW h \in Seq(Nat), NEW base,
           \/ l.kind = "host" /\ base = FrameEnds(p) /\ h = l.bytes
           \/ l.kind = "cont" /\ p.inHost /\ base = p /\ h = p.hbuf \o l.bytes
    PROVE  LET r == TakeLine(p, l)
           IN /\ Alike(base, r, Bit(Len(h) > FrameMax)) /\ r.inHost /\ r.hbuf = h
<1>1. l.kind \in {"host", "cont"} /\ l.bytes \in Seq(Nat)
  BY DEF LineType
<1>2. PICK q : q = IF l.kind = "cont" THEN p ELSE FrameEnds(p)
  OBVIOUS
<1>3. q = base
  BY <1>2
<1>4. ParseInv(q)
  BY <1>2, FrameEndsStep, Zenon
<1>5. q \in ParseType /\ q.hbuf \in Seq(Nat) /\ q.warnings \in Nat
  BY <1>4, ParseFields, Zenon DEF ParseInv
<1>6. h = q.hbuf \o l.bytes
  <2>1. CASE l.kind = "host"
    <3>1. q.hbuf = <<>>
      BY <1>2, <2>1, FrameEndsStep DEF Nothing
    <3>2. QED
      BY <1>1, <2>1, <3>1, ConcatEmptySeq
  <2>2. CASE l.kind = "cont"
    BY <1>2, <2>2
  <2>3. QED
    BY <1>1, <2>1, <2>2
<1>7. Len(h) = Len(q.hbuf) + Len(l.bytes)
  BY <1>1, <1>5, <1>6, ConcatProperties
<1>8. PICK more : more = (Len(h) > FrameMax)
  OBVIOUS
<1>9. PICK r : r = [q EXCEPT !.hbuf = h, !.inHost = TRUE]
  OBVIOUS
<1>10. Alike(q, r, 0) /\ r.inHost = TRUE /\ r.hbuf = h
  BY <1>5, <1>9 DEF ParseType, Alike
<1>11. TakeLine(p, l) = WarnIf(r, more)
  <2>1. l.kind # "junk" /\ (l.kind = "host" \/ (l.kind = "cont" /\ q.inHost))
    BY <1>2
  <2>2. TakeLine(p, l) = WarnIf([q EXCEPT !.hbuf = @ \o l.bytes, !.inHost = TRUE],
                                Len(q.hbuf) + Len(l.bytes) > FrameMax)
    BY <1>2, <2>1 DEF TakeLine
  <2>3. QED
    BY <1>6, <1>7, <1>8, <1>9, <2>2, Zenon
<1>12. PICK s, w : s = WarnIf(r, more) /\ w = r.warnings + 1
  OBVIOUS
<1>13. Alike(r, s, Bit(more)) /\ s.inHost = r.inHost /\ s.hbuf = r.hbuf
  <2>1. CASE more
    <3>1. s = [r EXCEPT !.warnings = w]
      BY <1>12, <2>1, Zenon DEF WarnIf, Warn
    <3>2. Alike(r, s, 1) /\ s.inHost = r.inHost /\ s.hbuf = r.hbuf
      BY <1>5, <1>9, <1>12, <3>1 DEF ParseType, Alike
    <3>3. QED
      BY <2>1, <3>2, Zenon DEF Bit
  <2>2. CASE ~more
    <3>1. s = r
      BY <1>12, <2>2, Zenon DEF WarnIf
    <3>2. r.warnings + 0 = r.warnings
      BY <1>5, <1>10 DEF Alike
    <3>3. QED
      BY <2>2, <3>1, <3>2, Zenon DEF Bit, Alike
  <2>3. QED
    BY <1>8, <2>1, <2>2
<1>14. Alike(q, s, Bit(more))
  <2>1. s.warnings = q.warnings + Bit(more)
    BY <1>5, <1>10, <1>13 DEF Alike
  <2>2. QED
    BY <1>10, <1>13, <2>1, Zenon DEF Alike
<1>15. QED
  BY <1>3, <1>8, <1>10, <1>11, <1>12, <1>13, <1>14, Zenon

\* A line of what the device sent.
LEMMA DevLine ==
    ASSUME NEW p, ParseInv(p), NEW l \in LineType, NEW base,
           \/ l.kind = "dev" /\ base = FrameEnds(p)
           \/ l.kind = "cont" /\ ~p.inHost /\ base = p
    PROVE  TakeLine(p, l) = With(base, l.bytes) /\ ParseInv(base) /\ ~base.inHost
<1>1. PICK q : q = IF l.kind = "cont" THEN p ELSE FrameEnds(p)
  OBVIOUS
<1>2. q = base /\ ~q.inHost /\ ParseInv(q)
  BY <1>1, FrameEndsStep
<1>3. l.kind # "junk" /\ ~(l.kind = "host" \/ (l.kind = "cont" /\ q.inHost))
  BY <1>2
<1>4. TakeLine(p, l) = [q EXCEPT !.dbuf = @ \o l.bytes]
  BY <1>1, <1>3, Zenon DEF TakeLine
<1>5. QED
  BY <1>2, <1>4, Zenon DEF With

\* Bytes come one after the other.
LEMMA Joined ==
    ASSUME NEW a \in Seq(Nat), NEW b \in Seq(Nat), NEW c \in Seq(Nat)
    PROVE  (a \o b) \o c = a \o (b \o c)
  OBVIOUS

\* They leave parsers alike that were.
LEMMA AlikeWith ==
    ASSUME NEW p, ParseInv(p), NEW q, ParseInv(q), NEW d, Alike(p, q, d),
           NEW bytes \in Seq(Nat)
    PROVE  Alike(With(p, bytes), With(q, bytes), d)
<1>1. PICK a, b : a = With(p, bytes) /\ b = With(q, bytes)
  OBVIOUS
<1>2. /\ a.dbuf = p.dbuf \o bytes
      /\ a.cyl = p.cyl /\ a.head = p.head /\ a.pcmd = p.pcmd /\ a.pcyl = p.pcyl
      /\ a.phead = p.phead /\ a.last = p.last /\ a.fifo = p.fifo /\ a.warnings = p.warnings
  BY <1>1, WithFields, Zenon
<1>3. /\ b.dbuf = q.dbuf \o bytes
      /\ b.cyl = q.cyl /\ b.head = q.head /\ b.pcmd = q.pcmd /\ b.pcyl = q.pcyl
      /\ b.phead = q.phead /\ b.last = q.last /\ b.fifo = q.fifo /\ b.warnings = q.warnings
  BY <1>1, WithFields, Zenon
<1>4. b.dbuf = a.dbuf
  BY <1>2, <1>3, Zenon DEF Alike
<1>5. QED
  BY <1>1, <1>2, <1>3, <1>4, Zenon DEF Alike

\* q is what becomes of the parser when m bytes of a transfer have been seen; e is what
\* the parser was, with the host frame before the transfer ended.
HostTaken(e, q, bytes, m) ==
    /\ ParseInv(q) /\ q.inHost /\ q.hbuf = SubSeq(bytes, 1, m)
    /\ \E d \in Nat : Alike(e, q, d) /\ (Len(bytes) <= FrameMax => d = 0)

DevTaken(e, q, bytes, m) ==
    ParseInv(q) /\ ~q.inHost /\ Alike(With(e, SubSeq(bytes, 1, m)), q, 0)

Took(kind, e, q, bytes, m) ==
    IF kind = "host" THEN HostTaken(e, q, bytes, m) ELSE DevTaken(e, q, bytes, m)

\* The first bytes of a transfer are bytes.
LEMMA FirstBytes ==
    ASSUME NEW bytes \in Seq(Nat), NEW m \in 0 .. Len(bytes)
    PROVE  SubSeq(bytes, 1, m) \in Seq(Nat) /\ Len(SubSeq(bytes, 1, m)) = m
<1>1. m \in Nat /\ \A i \in 1 .. m : bytes[i] \in Nat
  BY ElementOfSeq, LenProperties
<1>2. QED
  BY <1>1, SubSeqProperties

\* The first line of a dump,
LEMMA FirstLine ==
    ASSUME NEW p, ParseInv(p), NEW kind \in {"host", "dev"}, NEW bytes \in Seq(Nat),
           kind = "host" => HostBytes(bytes), NEW m \in 0 .. Len(bytes),
           NEW l, l = [kind |-> kind, bytes |-> SubSeq(bytes, 1, m)]
    PROVE  Took(kind, FrameEnds(p), TakeLine(p, l), bytes, m)
<1>1. PICK h : h = SubSeq(bytes, 1, m)
  OBVIOUS
<1>2. h \in Seq(Nat) /\ Len(h) = m /\ m \in Nat /\ Len(bytes) \in Nat
  BY <1>1, FirstBytes, LenProperties
<1>3. l.kind = kind /\ l.bytes = h /\ l \in LineType
  BY <1>1, <1>2 DEF LineType
<1>4. l.kind # "cont"
  BY <1>3
<1>5. PICK e, r : e = FrameEnds(p) /\ r = TakeLine(p, l)
  OBVIOUS
<1>6. ParseInv(e)
  BY <1>5, FrameEndsStep, Zenon
<1>7. CASE kind = "host"
  <2>1. HostBytes(l.bytes)
    BY <1>1, <1>3, <1>7, HostPrefix
  <2>2. ParseInv(r)
    BY <1>3, <1>4, <1>5, <2>1, TakeLineStep, Zenon
  <2>3. PICK d : d = Bit(Len(h) > FrameMax)
    OBVIOUS
  <2>4. Alike(e, r, d) /\ r.inHost /\ r.hbuf = h
    <3>1. l.kind = "host" /\ e = FrameEnds(p) /\ h = l.bytes
      BY <1>3, <1>5, <1>7, Zenon
    <3>2. QED
      BY <1>2, <1>3, <1>5, <2>3, <3>1, HostLine, ZenonT(40)
  <2>5. d \in Nat /\ (Len(bytes) <= FrameMax => d = 0)
    <3>1. Len(bytes) <= FrameMax => ~(Len(h) > FrameMax)
      BY <1>2, LogAssumption
    <3>2. QED
      BY <2>3, <3>1 DEF Bit
  <2>6. HostTaken(e, r, bytes, m)
    BY <1>1, <2>2, <2>4, <2>5, Zenon DEF HostTaken
  <2>7. QED
    BY <1>5, <1>7, <2>6, Zenon DEF Took
<1>8. CASE kind = "dev"
  <2>1. kind # "host" /\ l.kind # "host" /\ l.kind = "dev"
    BY <1>3, <1>8
  <2>2. ParseInv(r) /\ ~r.inHost
    BY <1>3, <1>4, <1>5, <2>1, TakeLineStep, Zenon
  <2>3. r = With(e, h)
    BY <1>3, <1>5, <2>1, DevLine, Zenon
  <2>4. r.warnings = r.warnings + 0
    <3>1. r \in ParseType
      BY <2>2, Zenon DEF ParseInv
    <3>2. QED
      BY <3>1, ParseFields
  <2>5. Alike(r, r, 0)
    BY <2>4, Zenon DEF Alike
  <2>6. DevTaken(e, r, bytes, m)
    BY <1>1, <2>2, <2>3, <2>5, Zenon DEF DevTaken
  <2>7. QED
    BY <1>5, <2>1, <2>6, Zenon DEF Took
<1>9. QED
  BY <1>7, <1>8

\* and each line after it, takes that much of the transfer.
LEMMA NextLine ==
    ASSUME NEW e, ParseInv(e), NEW kind \in {"host", "dev"}, NEW bytes \in Seq(Nat),
           kind = "host" => HostBytes(bytes),
           NEW a \in 0 .. Len(bytes), NEW b \in 0 .. Len(bytes), a <= b,
           NEW q, Took(kind, e, q, bytes, a),
           NEW l, l = [kind |-> "cont", bytes |-> SubSeq(bytes, a + 1, b)]
    PROVE  Took(kind, e, TakeLine(q, l), bytes, b)
<1>1. PICK g, h, part : /\ g = SubSeq(bytes, 1, a) /\ h = SubSeq(bytes, 1, b)
                        /\ part = SubSeq(bytes, a + 1, b)
  OBVIOUS
<1>2. /\ g \in Seq(Nat) /\ h \in Seq(Nat) /\ Len(h) = b
      /\ a \in Nat /\ b \in Nat /\ Len(bytes) \in Nat
  BY <1>1, FirstBytes, LenProperties
<1>3. part \in Seq(Nat)
  BY <1>1, PartOf
<1>4. h = g \o part
  <2>1. 1 \in 1 .. Len(bytes) + 1 /\ a \in 1 - 1 .. Len(bytes) /\ b \in a .. Len(bytes)
    BY <1>2
  <2>2. QED
    BY <1>1, <2>1, ConcatAdjacentSubSeq
<1>5. l.kind = "cont" /\ l.bytes = part /\ l \in LineType
  BY <1>1, <1>3 DEF LineType
<1>6. l.kind # "host" /\ l.kind # "dev"
  BY <1>5
<1>7. PICK r : r = TakeLine(q, l)
  OBVIOUS
<1>8. CASE kind = "host"
  <2>1. ParseInv(q) /\ q.inHost /\ q.hbuf = g
    BY <1>1, <1>8, Zenon DEF Took, HostTaken
  <2>2. PICK d \in Nat : Alike(e, q, d) /\ (Len(bytes) <= FrameMax => d = 0)
    BY <1>8, Zenon DEF Took, HostTaken
  <2>3. HostBytes(q.hbuf \o l.bytes)
    BY <1>1, <1>4, <1>5, <1>8, <2>1, HostPrefix
  <2>4. ParseInv(r)
    BY <1>5, <1>6, <1>7, <2>1, <2>3, TakeLineStep, Zenon
  <2>5. PICK c : c = Bit(Len(h) > FrameMax)
    OBVIOUS
  <2>6. h = q.hbuf \o l.bytes
    BY <1>4, <1>5, <2>1
  <2>7. Alike(q, r, c) /\ r.inHost /\ r.hbuf = h
    BY <1>2, <1>5, <1>7, <2>1, <2>5, <2>6, HostLine, ZenonT(40)
  <2>8. c \in Nat /\ (Len(bytes) <= FrameMax => c = 0)
    BY <1>2, <2>5, LogAssumption DEF Bit
  <2>9. Alike(e, r, d + c)
    <3>1. e.warnings \in Nat
      BY ParseFields DEF ParseInv
    <3>2. QED
      BY <2>2, <2>7, <2>8, <3>1, AlikeTrans, Zenon
  <2>10. d + c \in Nat /\ (Len(bytes) <= FrameMax => d + c = 0)
    BY <2>2, <2>8
  <2>11. HostTaken(e, r, bytes, b)
    BY <1>1, <2>4, <2>7, <2>9, <2>10, Zenon DEF HostTaken
  <2>12. QED
    BY <1>7, <1>8, <2>11, Zenon DEF Took
<1>9. CASE kind = "dev"
  <2>1. kind # "host"
    BY <1>9
  <2>2. ParseInv(q) /\ ~q.inHost /\ Alike(With(e, g), q, 0)
    BY <1>1, <2>1, Zenon DEF Took, DevTaken
  <2>3. ParseInv(r) /\ ~r.inHost
    BY <1>5, <1>6, <1>7, <2>2, TakeLineStep, Zenon
  <2>4. r = With(q, part)
    BY <1>5, <1>7, <2>2, DevLine, Zenon
  <2>5. Alike(With(e, h), r, 0)
    <3>1. PICK s, t, u : s = With(e, g) /\ t = With(s, part) /\ u = With(e, h)
      OBVIOUS
    <3>2. /\ ParseInv(s) /\ s.dbuf = e.dbuf \o g
          /\ s.cyl = e.cyl /\ s.head = e.head /\ s.pcmd = e.pcmd /\ s.pcyl = e.pcyl
          /\ s.phead = e.phead /\ s.last = e.last /\ s.fifo = e.fifo /\ s.warnings = e.warnings
      BY <1>2, <3>1, WithFields, Zenon
    <3>3. /\ u.dbuf = e.dbuf \o h
          /\ u.cyl = e.cyl /\ u.head = e.head /\ u.pcmd = e.pcmd /\ u.pcyl = e.pcyl
          /\ u.phead = e.phead /\ u.last = e.last /\ u.fifo = e.fifo /\ u.warnings = e.warnings
      BY <1>2, <3>1, WithFields, Zenon
    <3>4. /\ t.dbuf = s.dbuf \o part
          /\ t.cyl = s.cyl /\ t.head = s.head /\ t.pcmd = s.pcmd /\ t.pcyl = s.pcyl
          /\ t.phead = s.phead /\ t.last = s.last /\ t.fifo = s.fifo /\ t.warnings = s.warnings
      <4>1. ParseInv(s)
        BY <3>2
      <4>2. QED
        BY <1>3, <3>1, <4>1, WithFields, Zenon
    <3>5. e.dbuf \in Seq(Nat)
      BY ParseFields DEF ParseInv
    <3>6. t.dbuf = u.dbuf
      <4>1. (e.dbuf \o g) \o part = e.dbuf \o (g \o part)
        BY <1>2, <1>3, <3>5, Joined, Zenon
      <4>2. QED
        BY <1>4, <3>2, <3>3, <3>4, <4>1, Zenon
    <3>7. Alike(t, r, 0)
      BY <1>3, <2>2, <2>4, <3>1, <3>2, AlikeWith, Zenon
    <3>8. QED
      BY <3>1, <3>2, <3>3, <3>4, <3>6, <3>7, ZenonT(40) DEF Alike
  <2>6. DevTaken(e, r, bytes, b)
    BY <1>1, <2>3, <2>5, Zenon DEF DevTaken
  <2>7. QED
    BY <1>7, <2>1, <2>6, Zenon DEF Took
<1>10. QED
  BY <1>8, <1>9

\* All the lines, or the first ones.
LEMMA LinesTook ==
    ASSUME NEW p, ParseInv(p), NEW kind \in {"host", "dev"}, NEW bytes \in Seq(Nat),
           kind = "host" => HostBytes(bytes),
           NEW lines \in Seq(LineType), Len(lines) > 0, NEW m, LinesTo(lines, kind, bytes, m)
    PROVE  m \in 0 .. Len(bytes) /\ Took(kind, FrameEnds(p), TakeLines(p, lines), bytes, m)
<1>1. PICK n, e : n = Len(lines) /\ e = FrameEnds(p)
  OBVIOUS
<1>2. n \in Nat /\ n > 0 /\ Len(bytes) \in Nat /\ ParseInv(e)
  BY <1>1, LenProperties, FrameEndsStep
<1>3. PICK cut \in [0 .. n -> 0 .. Len(bytes)] :
        /\ cut[0] = 0 /\ cut[n] = m
        /\ \A k \in 1 .. n :
              /\ cut[k - 1] <= cut[k]
              /\ lines[k] = [kind  |-> IF k = 1 THEN kind ELSE "cont",
                             bytes |-> SubSeq(bytes, cut[k - 1] + 1, cut[k])]
  BY <1>1, Zenon DEF LinesTo
<1>4. PICK f : Taking(f, p, lines)
  BY <1>1, <1>2, TakingExists
<1> DEFINE S == {k \in Nat : k + 1 <= n => Took(kind, e, f[k + 1], bytes, cut[k + 1])}
<1>5. 0 \in S
  <2>1. 1 \in 1 .. n /\ 1 - 1 = 0
    BY <1>2
  <2>2. PICK c, l : c = cut[1] /\ l = lines[1]
    OBVIOUS
  <2>3. c \in 0 .. Len(bytes)
    BY <1>2, <1>3, <2>2
  <2>4. l = [kind |-> kind, bytes |-> SubSeq(bytes, 1, c)]
    BY <1>3, <2>1, <2>2, SMTT(30)
  <2>5. f[1] = TakeLine(p, l)
    BY <1>1, <1>4, <2>1, <2>2 DEF Taking
  <2>6. Took(kind, e, TakeLine(p, l), bytes, c)
    BY <1>1, <2>3, <2>4, FirstLine, Zenon
  <2>7. 0 + 1 = 1 /\ 0 \in Nat
    OBVIOUS
  <2>8. Took(kind, e, f[0 + 1], bytes, cut[0 + 1])
    BY <2>2, <2>5, <2>6, <2>7, Zenon
  <2>9. QED
    BY <2>7, <2>8, Zenon
<1>6. ASSUME NEW k \in Nat, k \in S PROVE k + 1 \in S
  <2> SUFFICES ASSUME k + 1 + 1 <= n PROVE Took(kind, e, f[k + 1 + 1], bytes, cut[k + 1 + 1])
    OBVIOUS
  <2>1. PICK i, j : i = k + 1 /\ j = i + 1
    OBVIOUS
  <2>2. i \in 0 .. n /\ j \in 1 .. n /\ j # 1 /\ j - 1 = i /\ j \in 0 .. n /\ i <= n
    BY <1>2, <2>1
  <2>3. PICK a, b, q, l : a = cut[i] /\ b = cut[j] /\ q = f[i] /\ l = lines[j]
    OBVIOUS
  <2>4. a \in 0 .. Len(bytes) /\ b \in 0 .. Len(bytes)
    BY <1>3, <2>2, <2>3
  <2>5. cut[j - 1] <= cut[j]
    BY <1>3, <2>2, Zenon
  <2>6. a <= b /\ l = [kind |-> "cont", bytes |-> SubSeq(bytes, a + 1, b)]
    BY <1>3, <2>2, <2>3, <2>5
  <2>7. f[j] = TakeLine(q, l)
    BY <1>1, <1>4, <2>2, <2>3 DEF Taking
  <2>8. Took(kind, e, q, bytes, a)
    BY <1>6, <2>1, <2>2, <2>3, Zenon
  <2>9. Took(kind, e, TakeLine(q, l), bytes, b)
    BY <1>2, <2>4, <2>6, <2>8, NextLine, Zenon
  <2>10. QED
    BY <2>1, <2>3, <2>7, <2>9, Zenon
<1>7. Nat \subseteq S
  <2> HIDE DEF S
  <2> QED
    BY <1>5, <1>6, SetInduction
<1>8. Took(kind, e, f[n], bytes, cut[n])
  <2>1. PICK k \in Nat : k + 1 = n
    <3>1. n - 1 \in Nat /\ (n - 1) + 1 = n
      BY <1>2
    <3>2. QED
      BY <3>1, Zenon
  <2>2. k \in S
    BY <1>7, Zenon
  <2>3. k + 1 <= n
    BY <1>2, <2>1
  <2>4. QED
    BY <2>1, <2>2, <2>3, Zenon
<1>9. TakeLines(p, lines) = f[n]
  BY <1>1, <1>2, <1>4, TakeLinesIs, Zenon
<1>10. m \in 0 .. Len(bytes)
  <2>1. n \in 0 .. n
    BY <1>2
  <2>2. QED
    BY <1>3, <2>1
<1>11. QED
  BY <1>1, <1>3, <1>8, <1>9, <1>10, Zenon

\* The parser after a transfer, when the host frame before it has ended.
After(v, t) == IF t.dir = "host" THEN HostFrame(v, t.bytes) ELSE With(v, t.bytes)

\* A transfer that the log can hold.
Dumpable(t) ==
    /\ t.dir \in {"host", "dev"} /\ t.bytes \in Seq(Nat) /\ Len(t.bytes) > 0
    /\ t.dir = "host" => HostBytes(t.bytes) /\ Len(t.bytes) <= FrameMax

Written(p, t, q) == ParseInv(q) /\ Alike(After(FrameEnds(p), t), FrameEnds(q), 0)

\* A transfer that is in the log has been seen as it was.
LEMMA LogWritten ==
    ASSUME NEW p, ParseInv(p), NEW t, Dumpable(t)
    PROVE  Written(p, t, TakeLines(p, Dump(t.dir, t.bytes)))
<1>1. PICK kind, bytes, lines, q, e :
        /\ kind = t.dir /\ bytes = t.bytes /\ lines = Dump(kind, bytes)
        /\ q = TakeLines(p, lines) /\ e = FrameEnds(p)
  OBVIOUS
<1>2. /\ kind \in {"host", "dev"} /\ bytes \in Seq(Nat) /\ Len(bytes) \in Nat /\ Len(bytes) > 0
      /\ kind = "host" => HostBytes(bytes) /\ Len(bytes) <= FrameMax
      /\ ParseInv(e)
  BY <1>1, FrameEndsStep, LenProperties DEF Dumpable
<1>3. lines \in Seq(LineType) /\ Len(lines) > 0 /\ LinesTo(lines, kind, bytes, Len(bytes))
  BY <1>1, <1>2, DumpIs, Zenon
<1>4. Took(kind, e, q, bytes, Len(bytes))
  BY <1>1, <1>2, <1>3, LinesTook, Zenon
<1>5. SubSeq(bytes, 1, Len(bytes)) = bytes
  BY <1>2, SubSeqFull
<1>6. CASE kind = "host"
  <2>1. ParseInv(q) /\ q.inHost /\ q.hbuf = bytes
    BY <1>4, <1>5, <1>6, Zenon DEF Took, HostTaken
  <2>2. Alike(e, q, 0)
    BY <1>2, <1>4, <1>6, Zenon DEF Took, HostTaken
  <2>3. PICK a, b, c : a = HostFrame(e, bytes) /\ b = HostFrame(q, bytes) /\ c = FrameEnds(q)
    OBVIOUS
  <2>4. Alike(a, b, 0)
    <3>1. 0 \in Nat
      OBVIOUS
    <3>2. QED
      BY <1>2, <1>6, <2>1, <2>2, <2>3, <3>1, AlikeHostFrame, Zenon
  <2>5. Alike(b, c, 0)
    BY <2>1, <2>3, FrameEndsFields, Zenon
  <2>6. ParseInv(a)
    BY <1>2, <1>6, <2>3, HostFrameStep, Zenon
  <2>7. a.warnings \in Nat
    BY <2>6, ParseFields, Zenon DEF ParseInv
  <2>8. Alike(a, c, 0 + 0)
    <3>1. 0 \in Nat
      OBVIOUS
    <3>2. QED
      BY <2>4, <2>5, <2>7, <3>1, AlikeTrans, Zenon
  <2>9. 0 + 0 = 0
    OBVIOUS
  <2>10. QED
    BY <1>1, <1>6, <2>1, <2>3, <2>8, <2>9, Zenon DEF After, Written
<1>7. CASE kind = "dev"
  <2>1. kind # "host"
    BY <1>7
  <2>2. ParseInv(q) /\ ~q.inHost /\ Alike(With(e, bytes), q, 0)
    BY <1>4, <1>5, <2>1, Zenon DEF Took, DevTaken
  <2>3. FrameEnds(q) = q
    BY <2>2, Zenon DEF FrameEnds
  <2>4. QED
    BY <1>1, <2>1, <2>2, <2>3, Zenon DEF After, Written
<1>8. QED
  BY <1>2, <1>6, <1>7

\* q is as p, with some more warnings perhaps.
Worse(p, q) == \E d \in Nat : Alike(p, q, d)

\* Warnings only get more.
LEMMA WorseTrans ==
    ASSUME NEW p, p.warnings \in Nat, NEW q, NEW r, Worse(p, q), Worse(q, r)
    PROVE  Worse(p, r)
<1>1. PICK d \in Nat : Alike(p, q, d)
  BY Zenon DEF Worse
<1>2. PICK e \in Nat : Alike(q, r, e)
  BY Zenon DEF Worse
<1>3. Alike(p, r, d + e)
  BY <1>1, <1>2, AlikeTrans, Zenon
<1>4. d + e \in Nat
  OBVIOUS
<1>5. QED
  BY <1>3, <1>4, Zenon DEF Worse

\* What is no line only warns.
LEMMA WarnWorse ==
    ASSUME NEW p, ParseInv(p)
    PROVE  /\ Alike(p, Warn(p), 1) /\ Worse(p, Warn(p)) /\ Worse(p, p)
           /\ Warn(p).inHost = p.inHost /\ Warn(p).hbuf = p.hbuf
           /\ Worse(FrameEnds(p), FrameEnds(Warn(p)))
<1>1. PICK q : q = Warn(p)
  OBVIOUS
<1>2. Same(p, q) /\ q.warnings = p.warnings + 1 /\ ParseInv(q)
  BY <1>1, TRUE \in BOOLEAN, WarnFields, WarnStep, Zenon
<1>3. Alike(p, q, 1) /\ q.inHost = p.inHost /\ q.hbuf = p.hbuf
  BY <1>2, Zenon DEF Same, Kept, Alike
<1>4. p.warnings + 0 = p.warnings
  BY ParseFields DEF ParseInv
<1>5. Alike(p, p, 0)
  BY <1>4, Zenon DEF Alike
<1>6. 0 \in Nat /\ 1 \in Nat
  OBVIOUS
<1>7. Alike(FrameEnds(p), FrameEnds(q), 1)
  BY <1>2, <1>3, <1>6, AlikeFrameEnds, Zenon
<1>8. QED
  BY <1>1, <1>3, <1>5, <1>6, <1>7, Zenon DEF Worse

\* The end of the log: the parser is left with v's streams and at least its warnings.
EndsAs(v, r) == r.fifo = ResolvedFifo(v) /\ \E d \in Nat : r.warnings = v.warnings + Lost(v) + d

\* What is stored at the end does not depend on how the transfers were cut into lines.
LEMMA EofFields ==
    ASSUME NEW q, ParseInv(q), NEW v, ParseInv(v), Worse(v, FrameEnds(q))
    PROVE  EndsAs(v, TakeEof(q))
<1>1. PICK x, r : x = FrameEnds(q) /\ r = ResolvePending(x)
  OBVIOUS
<1>2. ParseInv(x)
  BY <1>1, FrameEndsStep, Zenon
<1>3. r.fifo = ResolvedFifo(x) /\ r.warnings = x.warnings + Lost(x)
  BY <1>1, <1>2, PendingFields, Zenon
<1>4. PICK d \in Nat : Alike(v, x, d)
  BY <1>1, Zenon DEF Worse
<1>5. ResolvedFifo(x) = ResolvedFifo(v) /\ Lost(x) = Lost(v)
  BY <1>4, AlikeResolves, Zenon
<1>6. x.warnings = v.warnings + d /\ v.warnings \in Nat /\ Lost(v) \in Nat
  <2>1. v.warnings \in Nat
    BY ParseFields, Zenon DEF ParseInv
  <2>2. Lost(v) \in Nat
    BY ResolvedFields, Zenon
  <2>3. QED
    BY <1>4, <2>1, <2>2, Zenon DEF Alike
<1>7. r.warnings = v.warnings + Lost(v) + d
  BY <1>3, <1>5, <1>6
<1>8. QED
  BY <1>1, <1>3, <1>5, <1>7, Zenon DEF EndsAs, TakeEof

\* r is that once the device has sent some of bytes, but not all.
EndsWithin(e, bytes, r) ==
    \E m \in 0 .. Len(bytes) : m < Len(bytes) /\ EndsAs(With(e, SubSeq(bytes, 1, m)), r)

\* A transfer that is in the log in part: of a command nothing counts but that the answer
\* before it has ended, of an answer the bytes that are there.
LEMMA LogBroken ==
    ASSUME NEW p, ParseInv(p), NEW kind \in {"host", "dev"}, NEW bytes \in Seq(Nat),
           kind = "host" => HostBytes(bytes), NEW q, TookPart(p, q, kind, bytes)
    PROVE  /\ kind = "host" => EndsAs(FrameEnds(p), TakeEof(q))
           /\ kind = "dev" => EndsWithin(FrameEnds(p), bytes, TakeEof(q))
<1>1. PICK part \in Seq(LineType) :
        LinesPart(part, kind, bytes) /\ (q = TakeLines(p, part) \/ q = Warn(TakeLines(p, part)))
  BY Zenon DEF TookPart
<1>2. PICK m \in 0 .. Len(bytes) : m < Len(bytes) /\ LinesTo(part, kind, bytes, m)
  BY <1>1, Zenon DEF LinesPart
<1>3. PICK e, n, s : e = FrameEnds(p) /\ n = Len(part) /\ s = TakeLines(p, part)
  OBVIOUS
<1>4. /\ ParseInv(e) /\ ParseInv(s) /\ ParseInv(q) /\ n \in Nat
      /\ q = s \/ q = Warn(s)
  <2>1. ParseInv(e) /\ n \in Nat
    BY <1>3, FrameEndsStep, LenProperties
  <2>2. ParseInv(s)
    <3>1. LinesOf(part, kind, bytes)
      BY <1>2, Zenon DEF LinesTo, LinesOf
    <3>2. QED
      BY <1>1, <1>3, <3>1, LinesTaken, Zenon
  <2>3. ParseInv(q)
    BY BrokenLog, Zenon
  <2>4. QED
    BY <1>1, <1>3, <2>1, <2>2, <2>3, Zenon
<1>5. Worse(s, q) /\ q.inHost = s.inHost /\ q.hbuf = s.hbuf /\ Worse(FrameEnds(s), FrameEnds(q))
  <2>1. Worse(FrameEnds(s), FrameEnds(s)) /\ Worse(s, s)
    <3>1. ParseInv(FrameEnds(s))
      BY <1>4, FrameEndsStep, Zenon
    <3>2. QED
      BY <1>4, <3>1, WarnWorse, Zenon
  <2>2. QED
    BY <1>4, <2>1, WarnWorse, Zenon
<1>6. e.warnings \in Nat
  BY <1>4, ParseFields DEF ParseInv
<1>7. CASE n = 0
  <2>1. s = p
    <3>1. PICK f : f = [k \in 0 .. 0 |-> p]
      OBVIOUS
    <3>2. f[0] = p
      BY <3>1
    <3>3. Taking(f, p, part)
      BY <1>3, <1>7, <3>2 DEF Taking
    <3>4. QED
      BY <1>3, <1>7, <3>2, <3>3, TakeLinesIs, 0 \in Nat, Zenon
  <2>2. Worse(e, FrameEnds(q))
    BY <1>3, <1>5, <2>1, Zenon
  <2>3. EndsAs(e, TakeEof(q))
    BY <1>4, <2>2, EofFields, Zenon
  <2>4. PICK w, none : none = SubSeq(bytes, 1, 0) /\ w = With(e, none)
    OBVIOUS
  <2>5. 0 \in 0 .. Len(bytes) /\ 0 < Len(bytes)
    BY <1>2, LenProperties
  <2>6. none = <<>> /\ none \in Seq(Nat)
    BY <2>4, SubSeqEmpty, EmptySeq
  <2>7. Alike(w, e, 0) /\ ParseInv(w)
    <3>1. /\ ParseInv(w) /\ w.dbuf = e.dbuf \o none
          /\ w.cyl = e.cyl /\ w.head = e.head /\ w.pcmd = e.pcmd /\ w.pcyl = e.pcyl
          /\ w.phead = e.phead /\ w.last = e.last /\ w.fifo = e.fifo /\ w.warnings = e.warnings
      BY <1>4, <2>4, <2>6, WithFields, Zenon
    <3>2. e.dbuf \o none = e.dbuf
      <4>1. e.dbuf \in Seq(Nat)
        BY <1>4, ParseFields DEF ParseInv
      <4>2. QED
        BY <2>6, <4>1, ConcatEmptySeq
    <3>3. e.warnings + 0 = e.warnings
      BY <1>6
    <3>4. QED
      BY <3>1, <3>2, <3>3, Zenon DEF Alike
  <2>8. EndsAs(w, TakeEof(q))
    <3>1. Worse(w, e)
      BY <2>7, 0 \in Nat, Zenon DEF Worse
    <3>2. w.warnings \in Nat
      BY <2>7, ParseFields DEF ParseInv
    <3>3. Worse(w, FrameEnds(q))
      BY <2>2, <3>1, <3>2, WorseTrans, Zenon
    <3>4. QED
      BY <1>4, <2>7, <3>3, EofFields, Zenon
  <2>9. QED
    BY <1>3, <2>3, <2>4, <2>5, <2>8, Zenon DEF EndsWithin
<1>8. CASE n # 0
  <2>1. n > 0
    BY <1>4, <1>8
  <2>2. m \in 0 .. Len(bytes) /\ m < Len(bytes)
    BY <1>2
  <2>3. Took(kind, e, s, bytes, m)
    BY <1>1, <1>3, <1>2, <2>1, LinesTook, Zenon
  <2>4. CASE kind = "host"
    <3>1. s.inHost /\ Worse(e, s)
      BY <2>3, <2>4, Zenon DEF Took, HostTaken, Worse
    <3>2. q.inHost /\ Worse(e, q)
      BY <1>5, <1>6, <3>1, WorseTrans, Zenon
    <3>3. PICK h, x, r : h = HostFrame(q, q.hbuf) /\ x = FrameEnds(q) /\ r = TakeEof(q)
      OBVIOUS
    <3>4. HostBytes(q.hbuf) /\ HostFrameIs(q, q.hbuf, h)
      BY <1>4, <3>3, HostFrameFields, Zenon DEF ParseInv
    <3>5. Alike(h, x, 0) /\ ParseInv(x)
      BY <1>4, <3>2, <3>3, FrameEndsFields, Zenon
    <3>6. x.fifo = ResolvedFifo(q) /\ x.dbuf = Nothing
      BY <3>4, <3>5, Zenon DEF HostFrameIs, Alike
    <3>7. ResolvedFifo(x) = x.fifo
      <4>1. ~Fits(x)
        BY <3>6 DEF Fits, Nothing
      <4>2. QED
        BY <4>1, Zenon DEF ResolvedFifo
    <3>8. r.fifo = ResolvedFifo(x) /\ r.warnings = x.warnings + Lost(x)
      BY <3>3, <3>5, PendingFields, Zenon DEF TakeEof
    <3>9. PICK d \in Nat : Alike(e, q, d)
      BY <3>2, Zenon DEF Worse
    <3>10. ResolvedFifo(q) = ResolvedFifo(e) /\ Lost(q) = Lost(e) /\ q.warnings = e.warnings + d
      BY <3>9, AlikeResolves, Zenon DEF Alike
    <3>11. Lost(x) \in Nat /\ Lost(e) \in Nat
      BY <1>4, <3>5, ResolvedFields, Zenon
    <3>12. PICK c \in Nat : h.warnings = q.warnings + Lost(q) + c
      <4>1. OffDisk(q.hbuf) \in Nat
        BY DEF OffDisk, Bit
      <4>2. QED
        BY <3>4, <4>1, 1 \in Nat, Zenon DEF HostFrameIs
    <3>13. x.warnings = h.warnings + 0
      BY <3>5, Zenon DEF Alike
    <3>14. r.warnings = e.warnings + Lost(e) + (d + c + Lost(x))
      <4>1. PICK w, lost, left : w = e.warnings /\ lost = Lost(e) /\ left = Lost(x)
        OBVIOUS
      <4>2. r.warnings = ((((w + d) + lost) + c) + 0) + left
        BY <3>8, <3>10, <3>12, <3>13, <4>1, Zenon
      <4>3. w \in Nat /\ lost \in Nat /\ left \in Nat
        BY <1>6, <3>11, <4>1
      <4>4. ((((w + d) + lost) + c) + 0) + left = w + lost + (d + c + left)
        BY <4>3
      <4>5. QED
        BY <4>1, <4>2, <4>4, Zenon
    <3>15. d + c + Lost(x) \in Nat
      BY <3>11
    <3>16. EndsAs(e, r)
      BY <3>6, <3>7, <3>8, <3>10, <3>14, <3>15, Zenon DEF EndsAs
    <3>17. kind # "dev"
      BY <2>4
    <3>18. QED
      BY <1>3, <3>3, <3>16, <3>17, Zenon
  <2>5. CASE kind = "dev"
    <3>1. kind # "host"
      BY <2>5
    <3>2. PICK w, some : some = SubSeq(bytes, 1, m) /\ w = With(e, some)
      OBVIOUS
    <3>3. ~s.inHost /\ Alike(w, s, 0)
      BY <2>3, <3>1, <3>2, Zenon DEF Took, DevTaken
    <3>4. ParseInv(w) /\ w.warnings \in Nat
      <4>1. some \in Seq(Nat)
        BY <2>2, <3>2, FirstBytes
      <4>2. ParseInv(w)
        BY <1>4, <3>2, <4>1, WithFields, Zenon
      <4>3. QED
        BY <4>2, ParseFields DEF ParseInv
    <3>5. Worse(w, q)
      <4>1. Worse(w, s)
        BY <3>3, 0 \in Nat, Zenon DEF Worse
      <4>2. QED
        BY <1>5, <3>4, <4>1, WorseTrans, Zenon
    <3>6. FrameEnds(q) = q
      BY <1>5, <3>3, Zenon DEF FrameEnds
    <3>7. EndsAs(w, TakeEof(q))
      BY <1>4, <3>4, <3>5, <3>6, EofFields, Zenon
    <3>8. QED
      BY <1>3, <2>2, <3>1, <3>2, <3>7, Zenon DEF EndsWithin
  <2>6. QED
    BY <2>4, <2>5
<1>9. QED
  BY <1>7, <1>8

-----------------------------------------------------------------------------
(* Theorems.                                                               *)

\* Everything together.
ReplayInv == DeviceInv /\ LogInv /\ ServeInv

\* A parser that has read nothing.
LEMMA NewParseInv == ParseInv(NewParse)
<1>1. PICK p, fifo : p = NewParse /\ fifo = [pos \in Places |-> Nothing]
  OBVIOUS
<1>2. 0 \in 0 .. MaxTracks - 1 /\ Nothing \in Seq(Nat)
  BY LogAssumption, Codes
<1>3. /\ fifo \in [Places -> Seq(FluxType)]
      /\ \A pos \in Places : DOMAIN fifo[pos] = {}
  BY <1>1, EmptySeq DEF Nothing
<1>4. p = [inHost |-> FALSE, hbuf |-> Nothing, cyl |-> 0, head |-> 0,
           pcmd |-> Nothing, pcyl |-> 0, phead |-> 0, dbuf |-> Nothing,
           last |-> Nothing, info |-> Nothing, warnings |-> 0, fifo |-> fifo]
  BY <1>1, Zenon DEF NewParse, Places
<1>5. p \in ParseType
  <2>1. 0 \in {0, 1} /\ 0 \in Nat /\ Nothing \in {Nothing} \cup (Places \X Nat)
    OBVIOUS
  <2>2. QED
    BY <1>2, <1>3, <1>4, <2>1, Zenon DEF ParseType
<1>6. p.inHost = FALSE /\ p.hbuf = Nothing /\ p.fifo = fifo
  BY <1>4
<1>7. HostBytes(Nothing)
  BY EmptySeq DEF Nothing, HostBytes
<1>8. StreamsClosed(fifo)
  BY <1>3, Zenon DEF StreamsClosed
<1>9. QED
  BY <1>1, <1>5, <1>6, <1>7, <1>8, Zenon DEF ParseInv

\* The invariant holds at the start.
LEMMA InitReplayInv == Init => ReplayInv
<1> SUFFICES ASSUME Init PROVE ReplayInv
  OBVIOUS
<1>1. /\ phase = "capture" /\ pc = "identify" /\ out = NoTransfer /\ line = Nothing
      /\ dev = [cyl |-> 0, head |-> 0, status |-> ACK_OKAY]
      /\ visits = 0 /\ reads = Nothing /\ intact = TRUE
      /\ ps = NewParse /\ rp = NewResponder /\ served = Nothing
  BY Zenon DEF Init
<1>2. Nothing \in Seq(Nat)
  BY Codes
<1>3. DeviceInv
  <2>1. dev \in DeviceType
    BY <1>1, Codes, LogAssumption DEF DeviceType
  <2>2. visits \in 0 .. MaxVisits
    BY <1>1, PositionsAssumption
  <2>3. TransferInv(out) /\ IsSeq(reads) /\ line \in Seq(Nat)
    BY <1>1, <1>2, Zenon DEF TransferInv, IsSeq
  <2>4. pc \notin {"seek_ack", "head"}
    BY <1>1
  <2>5. QED
    BY <2>1, <2>2, <2>3, <2>4, Zenon DEF DeviceInv
<1>4. LogInv
  BY <1>1, NewParseInv, Zenon DEF LogInv
<1>5. ServeInv
  <2>1. PICK p : p = NewParse
    OBVIOUS
  <2>2. p \in ParseType
    BY <2>1, NewParseInv, Zenon DEF ParseInv
  <2>3. p.fifo \in [Places -> Seq(FluxType)]
    BY <2>2, ParseFields, Zenon
  <2>4. ServeIs(NewResponder, Nothing, p.fifo)
    BY <2>3, FreshServe, Zenon
  <2>5. QED
    BY <1>1, <2>1, <2>4, Zenon DEF ServeInv
<1>6. QED
  BY <1>3, <1>4, <1>5, Zenon DEF ReplayInv

\* The invariant of a session, its log and the replays of it.
THEOREM ReplayInvHolds == Spec => []ReplayInv
<1>1. Init => ReplayInv
  BY InitReplayInv
<1>2. ReplayInv /\ [Next]_vars => ReplayInv'
  <2> SUFFICES ASSUME ReplayInv, [Next]_vars PROVE ReplayInv'
    OBVIOUS
  <2>1. DeviceInv /\ LogInv /\ ServeInv
    BY Zenon DEF ReplayInv
  <2>2. DeviceInv'
    BY <2>1, DeviceStep
  <2>3. LogInv'
    BY <2>1, LogStep
  <2>4. ServeInv'
    BY <2>1, <2>3, ServeStep
  <2>5. QED
    BY <2>2, <2>3, <2>4, Zenon DEF ReplayInv
<1>3. QED
  BY <1>1, <1>2, PTL DEF Spec

\* TypeOK.  Whatever was logged, and wherever the log breaks off, each stored stream is
\* one that the decoder of flux can read to its end: it is not empty, and its last byte
\* is its only zero (flux_append(), resolve_pending()).
THEOREM TypeCorrect == Spec => []TypeOK
<1>1. ReplayInv => TypeOK
  <2> SUFFICES ASSUME ReplayInv PROVE TypeOK
    OBVIOUS
  <2>1. DeviceInv /\ LogInv /\ ServeInv
    BY Zenon DEF ReplayInv
  <2>2. PICK p, r : p = ps /\ r = rp
    OBVIOUS
  <2>3. p \in ParseType /\ StreamsClosed(p.fifo)
    BY <2>1, <2>2, Zenon DEF LogInv, ParseInv
  <2>4. Ready(r, p.fifo)
    BY <2>1, <2>2, Zenon DEF ServeInv, ServeIs
  <2>5. p.fifo \in [Places -> Seq(FluxType)]
    BY <2>3, ParseFields, Zenon
  <2>6. dev.cyl \in (0 .. MaxTracks - 1) \cup {Unknown} /\ dev.head \in {0, 1}
    <3>1. dev \in DeviceType
      BY <2>1, Zenon DEF DeviceInv
    <3>2. QED
      BY <3>1 DEF DeviceType
  <2>7. /\ phase \in {"capture", "parsed", "replay", "refused"}
        /\ visits \in 0 .. MaxVisits /\ intact \in BOOLEAN
    BY <2>1, Zenon DEF DeviceInv, LogInv
  <2>8. ps.cyl \in 0 .. MaxTracks - 1 /\ ps.head \in {0, 1} /\ ps.warnings \in Nat
    BY <2>2, <2>3, ParseFields, Zenon
  <2>9. ASSUME NEW s \in Streams
        PROVE  LET data == ps.fifo[s[1]][s[2]].data
               IN Len(data) > 1 /\ \A i \in DOMAIN data : (data[i] = 0) <=> (i = Len(data))
    <3>1. PICK pos, i : pos \in DOMAIN p.fifo /\ i \in DOMAIN p.fifo[pos] /\ s = <<pos, i>>
      <4>1. PICK pos \in DOMAIN ps.fifo : s \in {<<pos, i>> : i \in DOMAIN ps.fifo[pos]}
        BY <2>9, Zenon DEF Streams
      <4>2. PICK i \in DOMAIN ps.fifo[pos] : s = <<pos, i>>
        BY <4>1
      <4>3. QED
        BY <2>2, <4>1, <4>2, Zenon
    <3>2. s[1] = pos /\ s[2] = i
      BY <3>1
    <3>3. pos \in Places
      BY <2>5, <3>1
    <3>4. Len(p.fifo[pos][i].data) > 1 /\ Closed(p.fifo[pos][i].data)
      BY <2>3, <3>1, <3>3, Zenon DEF StreamsClosed
    <3>5. QED
      BY <2>2, <3>2, <3>4, Zenon DEF Closed
  <2>10. \A pos \in Positions : rp.next[pos] \in 0 .. Len(ps.fifo[pos])
    <3> TAKE pos \in Positions
    <3>1. r.next[pos] \in Nat /\ r.next[pos] <= Len(p.fifo[pos])
      <4>1. r \in ResponderType /\ r.next[pos] <= Len(p.fifo[pos])
        BY <2>4, Zenon DEF Ready
      <4>2. r.next \in [Positions -> Nat]
        BY <4>1, ResponderFields, Zenon
      <4>3. QED
        BY <4>1, <4>2
    <3>2. Len(p.fifo[pos]) \in Nat
      <4>1. pos \in Places
        BY PositionsAssumption DEF Places
      <4>2. p.fifo[pos] \in Seq(FluxType)
        BY <2>5, <4>1
      <4>3. QED
        BY <4>2, LenProperties
    <3>3. QED
      BY <2>2, <3>1, <3>2
  <2>11. QED
    BY <2>6, <2>7, <2>8, <2>9, <2>10, Zenon DEF TypeOK
<1>2. QED
  BY <1>1, ReplayInvHolds, PTL

\* InStep.  Whatever was captured, the responder's answers never get out of step with
\* the host that replays: each is to the command before it, the stream of a read ends
\* where the host stops reading (gw_read_stream()), and no byte is left over.
THEOREM RepliesInStep == Spec => []InStep
<1>1. ReplayInv => InStep
  BY Zenon DEF ReplayInv, ServeInv, ServeIs, InStep
<1>2. QED
  BY <1>1, ReplayInvHolds, PTL

\* ReplaysCapture.  The reads of a track get the streams that were stored for it, each
\* once, in order and with its status, and then an unformatted track, however the visits
\* to the tracks are interleaved (dispatch_read_flux()).
THEOREM ReplaysRecorded == Spec => []ReplaysCapture
<1>1. ReplayInv => ReplaysCapture
  <2> SUFFICES ASSUME ReplayInv PROVE ReplaysCapture
    OBVIOUS
  <2>1. \A v \in DOMAIN served : Gives(served, v, ps.fifo)
    BY Zenon DEF ReplayInv, ServeInv, ServeIs
  <2>2. QED
    BY <2>1, Zenon DEF ReplaysCapture, Gives, Times
<1>2. QED
  BY <1>1, ReplayInvHolds, PTL
=============================================================================
