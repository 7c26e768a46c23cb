-------------------------- MODULE FluxCodecProofs --------------------------
(***************************************************************************)
(* Theorems about FluxCodec, for every number of ticks: what one side      *)
(* writes for a pulse is what the other side reads.                        *)
(***************************************************************************)
EXTENDS FluxCodec, SequenceTheorems, TLAPS

Byte == 1 .. 255

\* Ticks that one byte, and that two bytes, can say.
Short  == 1 .. 249
Middle == 250 .. 1524

\* A 28-bit number.
Number28 == {v \in Nat : v < 128 * 2097152}

-----------------------------------------------------------------------------
(* Numbers of 28 bits.                                                     *)

\* The digits of v to the base of 128.
Digits(v, a, b, c, e) ==
    /\ {a, b, c, e} \subseteq 0 .. 127
    /\ v = a + 128 * b + 16384 * c + 2097152 * e
    /\ (v \div 1) % 128 = a /\ (v \div 128) % 128 = b
    /\ (v \div 16384) % 128 = c /\ (v \div 2097152) % 128 = e

LEMMA Divided ==
    ASSUME NEW v \in Nat
    PROVE  /\ v = 128 * (v \div 128) + (v % 128)
           /\ v % 128 \in 0 .. 127 /\ v \div 128 \in Nat
  BY SMT

LEMMA DigitsOf ==
    ASSUME NEW v \in Number28
    PROVE  \E a, b, c, e \in 0 .. 127 : Digits(v, a, b, c, e)
<1>1. v \in Nat /\ v < 128 * 2097152
  BY SMT DEF Number28
<1>2. PICK a, x : a = v % 128 /\ x = v \div 128
  OBVIOUS
<1>3. v = 128 * x + a /\ a \in 0 .. 127 /\ x \in Nat
  BY <1>1, <1>2, Divided, SMT
<1>4. PICK b, y : b = x % 128 /\ y = x \div 128
  OBVIOUS
<1>5. x = 128 * y + b /\ b \in 0 .. 127 /\ y \in Nat
  BY <1>3, <1>4, Divided, SMT
<1>6. PICK c, e : c = y % 128 /\ e = y \div 128
  OBVIOUS
<1>7. y = 128 * e + c /\ c \in 0 .. 127 /\ e \in Nat
  BY <1>5, <1>6, Divided, SMT
<1>8. e \in 0 .. 127
  BY <1>1, <1>3, <1>5, <1>7, SMT
<1>9. v \div 1 = v
  BY <1>1, SMT
<1>10. v \div 16384 = y
  BY <1>1, <1>3, <1>5, <1>7, SMT
<1>11. v \div 2097152 = e
  BY <1>1, <1>3, <1>5, <1>7, SMT
<1>12. \A n \in 0 .. 127 : n % 128 = n
  BY SMT
<1>13. v = a + 128 * b + 16384 * c + 2097152 * e
  BY <1>3, <1>5, <1>7, SMT
<1>14. Digits(v, a, b, c, e)
  BY <1>2, <1>3, <1>4, <1>5, <1>6, <1>7, <1>8, <1>9, <1>10, <1>11, <1>12, <1>13, SMT DEF Digits
<1>15. QED
  BY <1>3, <1>5, <1>7, <1>8, <1>14, Zenon

\* gw_write_28() writes four bytes, none of them 0, from which gw_read_28() reads the
\* number again.
LEMMA Written28 ==
    ASSUME NEW v \in Number28, NEW w, w = Write28(v)
    PROVE  w \in Seq(Byte) /\ Len(w) = 4 /\ Read28(w) = v
<1>1. PICK a, b, c, e \in 0 .. 127 : Digits(v, a, b, c, e)
  BY DigitsOf, Zenon
<1>2. DOMAIN w = 1 .. 4
  BY DEF Write28
<1>3. w[1] = 2 * a + 1 /\ w[2] = 2 * b + 1 /\ w[3] = 2 * c + 1 /\ w[4] = 2 * e + 1
  <2>1. \A i \in 1 .. 4 : w[i] = 2 * ((v \div Weight28[i]) % 128) + 1
    BY Zenon DEF Write28
  <2>2. Weight28[1] = 1 /\ Weight28[2] = 128 /\ Weight28[3] = 16384 /\ Weight28[4] = 2097152
    BY SMT DEF Weight28
  <2>3. /\ (v \div Weight28[1]) % 128 = a /\ (v \div Weight28[2]) % 128 = b
        /\ (v \div Weight28[3]) % 128 = c /\ (v \div Weight28[4]) % 128 = e
    BY <1>1, <2>2, SMT DEF Digits
  <2>4. 1 \in 1 .. 4 /\ 2 \in 1 .. 4 /\ 3 \in 1 .. 4 /\ 4 \in 1 .. 4
    OBVIOUS
  <2>5. QED
    BY <2>1, <2>3, <2>4, Zenon
<1>4. \A i \in 1 .. 4 : w[i] \in Byte
  <2>1. \A n \in 0 .. 127 : 2 * n + 1 \in Byte
    BY DEF Byte
  <2>2. \A i \in 1 .. 4 : i = 1 \/ i = 2 \/ i = 3 \/ i = 4
    OBVIOUS
  <2>3. QED
    BY <1>3, <2>1, <2>2, Zenon
<1>5. w = [i \in 1 .. 4 |-> w[i]]
  BY Zenon DEF Write28
<1>6. w \in Seq(Byte) /\ Len(w) = 4
  BY <1>2, <1>4, <1>5
<1>7. Read28(w) = v
  <2>1. \A n \in 0 .. 127 : (2 * n + 1) \div 2 = n
    OBVIOUS
  <2>2. (w[1] \div 2) = a /\ (w[2] \div 2) = b /\ (w[3] \div 2) = c /\ (w[4] \div 2) = e
    BY <1>3, <2>1, Zenon
  <2>3. v = a + 128 * b + 16384 * c + 2097152 * e
    BY <1>1, SMT DEF Digits
  <2>4. QED
    BY <2>2, <2>3, SMT DEF Read28
<1>8. QED
  BY <1>6, <1>7

-----------------------------------------------------------------------------
(* Codes in a stream.                                                      *)

\* c is a and b, of m and n bytes, one behind the other.
Joined(S, a, b, c, m, n) ==
    /\ c \in Seq(S) /\ Len(c) = m + n
    /\ \A i \in 1 .. m : c[i] = a[i]
    /\ \A i \in m + 1 .. m + n : c[i] = b[i - m]

LEMMA JoinedAt ==
    ASSUME NEW S, NEW a \in Seq(S), NEW b \in Seq(S)
    PROVE  Joined(S, a, b, a \o b, Len(a), Len(b))
  BY DEF Joined

\* A code at the head of a buffer.
Starts(buf, code) ==
    /\ code \in Seq(Byte) /\ buf \in Seq(Nat) /\ Len(buf) >= Len(code)
    /\ \A i \in 1 .. Len(code) : buf[i] = code[i]

\* What the two readers take from an opcode and its number.
OpAtHead(op, v, buf) ==
    /\ buf[1] = 255 /\ buf[2] = op /\ CodeLen(buf) = 6 /\ Complete(buf)
    /\ Read28(SubSeq(buf, 3, 6)) = v

LEMMA OpWritten ==
    ASSUME NEW op \in Byte, NEW v \in Number28
    PROVE  \E w \in Seq(Byte) :
               /\ w = Write28(v) /\ Len(w) = 4 /\ Read28(w) = v
               /\ Joined(Byte, <<255, op>>, w, Op(op, v), 2, 4)
<1>1. PICK w : w = Write28(v)
  OBVIOUS
<1>2. w \in Seq(Byte) /\ Len(w) = 4 /\ Read28(w) = v
  BY <1>1, Written28, Zenon
<1>3. PICK h : h = <<255, op>>
  OBVIOUS
<1>4. h \in Seq(Byte) /\ Len(h) = 2
  BY <1>3 DEF Byte
<1>5. Joined(Byte, h, w, h \o w, 2, 4)
  BY <1>2, <1>4, JoinedAt, Zenon
<1>6. Op(op, v) = h \o w
  BY <1>1, <1>3, Zenon DEF Op
<1>7. Joined(Byte, <<255, op>>, w, Op(op, v), 2, 4)
  BY <1>3, <1>5, <1>6, Zenon
<1>8. QED
  BY <1>1, <1>2, <1>7, Zenon

LEMMA OpRead ==
    ASSUME NEW op \in Byte, NEW v \in Number28, NEW buf, Starts(buf, Op(op, v))
    PROVE  OpAtHead(op, v, buf)
<1>1. PICK w \in Seq(Byte) :
          /\ w = Write28(v) /\ Len(w) = 4 /\ Read28(w) = v
          /\ Joined(Byte, <<255, op>>, w, Op(op, v), 2, 4)
  BY OpWritten, Zenon
<1>2. PICK code : code = Op(op, v)
  OBVIOUS
<1>3. Joined(Byte, <<255, op>>, w, code, 2, 4)
  BY <1>1, <1>2, Zenon
<1>4. code[1] = 255 /\ code[2] = op /\ Len(code) = 6
  BY <1>3 DEF Joined
<1>5. code[3] = w[1] /\ code[4] = w[2] /\ code[5] = w[3] /\ code[6] = w[4]
  BY <1>3 DEF Joined
<1>6. Starts(buf, code)
  BY <1>2, Zenon
<1>7. buf \in Seq(Nat) /\ Len(buf) >= 6 /\ \A i \in 1 .. 6 : buf[i] = code[i]
  BY <1>4, <1>6 DEF Starts
<1>8. PICK x : x = SubSeq(buf, 3, 6)
  OBVIOUS
<1>9. x[1] = buf[3] /\ x[2] = buf[4] /\ x[3] = buf[5] /\ x[4] = buf[6]
  BY <1>7, <1>8
<1>10. x[1] = w[1] /\ x[2] = w[2] /\ x[3] = w[3] /\ x[4] = w[4]
  BY <1>5, <1>7, <1>9
<1>11. Read28(x) = v
  <2>1. Read28(x) = Read28(w)
    BY <1>10, SMT DEF Read28
  <2>2. QED
    BY <1>1, <2>1, Zenon
<1>12. buf[1] = 255 /\ buf[2] = op
  BY <1>4, <1>7
<1>13. CodeLen(buf) = 6
  BY <1>12 DEF CodeLen
<1>14. Complete(buf)
  <2>1. buf # <<>>
    BY <1>7
  <2>2. QED
    BY <1>7, <1>13, <2>1 DEF Complete
<1>15. QED
  BY <1>8, <1>11, <1>12, <1>13, <1>14, Zenon DEF OpAtHead

\* What the two readers take from a pulse of one byte or two.
PulseAtHead(ticks, len, buf) ==
    buf[1] \in 1 .. 254 /\ CodeLen(buf) = len /\ Complete(buf) /\ CodeTicks(buf) = ticks

LEMMA DirectRead ==
    ASSUME NEW ticks \in Short, NEW buf, Starts(buf, Direct(ticks))
    PROVE  PulseAtHead(ticks, 1, buf)
<1>0. ticks \in 1 .. 249
  BY DEF Short
<1>1. PICK code : code = Direct(ticks)
  OBVIOUS
<1>2. Len(code) = 1 /\ code[1] = ticks
  BY <1>1 DEF Direct
<1>3. Starts(buf, code)
  BY <1>1, Zenon
<1>4. buf \in Seq(Nat) /\ Len(buf) >= 1 /\ buf[1] = ticks
  BY <1>0, <1>2, <1>3 DEF Starts
<1>5. buf # <<>>
  BY <1>4
<1>6. CodeLen(buf) = 1
  <2>1. buf[1] # 255 /\ buf[1] < 250 /\ buf[1] \notin 250 .. 254
    BY <1>0, <1>4
  <2>2. QED
    BY <2>1, Zenon DEF CodeLen
<1>7. Complete(buf)
  BY <1>4, <1>5, <1>6 DEF Complete
<1>8. CodeTicks(buf) = ticks
  BY <1>0, <1>4 DEF CodeTicks
<1>9. buf[1] \in 1 .. 254
  BY <1>0, <1>4
<1>10. QED
  BY <1>6, <1>7, <1>8, <1>9, Zenon DEF PulseAtHead

LEMMA TwoByteRead ==
    ASSUME NEW ticks \in Middle, NEW buf, Starts(buf, TwoByte(ticks))
    PROVE  PulseAtHead(ticks, 2, buf)
<1>0. ticks \in 250 .. 1524
  BY DEF Middle
<1>1. PICK code : code = TwoByte(ticks)
  OBVIOUS
<1>2. PICK q, r : q = (ticks - 250) \div 255 /\ r = (ticks - 250) % 255
  OBVIOUS
<1>3. q \in 0 .. 4 /\ r \in 0 .. 254 /\ ticks = 250 + 255 * q + r
  BY <1>0, <1>2, SMT
<1>4. Len(code) = 2 /\ code[1] = 250 + q /\ code[2] = 1 + r
  BY <1>1, <1>2 DEF TwoByte
<1>5. Starts(buf, code)
  BY <1>1, Zenon
<1>6. buf \in Seq(Nat) /\ Len(buf) >= 2 /\ buf[1] = 250 + q /\ buf[2] = 1 + r
  BY <1>4, <1>5 DEF Starts
<1>7. buf # <<>>
  BY <1>6
<1>8. buf[1] \in 250 .. 254
  BY <1>3, <1>6
<1>9. CodeLen(buf) = 2
  BY <1>8 DEF CodeLen
<1>10. Complete(buf)
  BY <1>6, <1>7, <1>9 DEF Complete
<1>11. CodeTicks(buf) = ticks
  <2>1. ~(buf[1] < 250)
    BY <1>8
  <2>2. CodeTicks(buf) = 250 + (buf[1] - 250) * 255 + buf[2] - 1
    BY <2>1, Zenon DEF CodeTicks
  <2>3. QED
    BY <1>3, <1>6, <2>2, SMT
<1>12. buf[1] \in 1 .. 254
  BY <1>8
<1>13. QED
  BY <1>9, <1>10, <1>11, <1>12, Zenon DEF PulseAtHead

\* A code of len bytes, none of them 0.
OneCode(code, len) == code \in Seq(Byte) /\ Len(code) = len

LEMMA CodesOfBytes ==
    /\ \A op \in Byte : \A v \in Number28 : OneCode(Op(op, v), 6)
    /\ \A n \in Short : OneCode(Direct(n), 1)
    /\ \A n \in Middle : OneCode(TwoByte(n), 2)
<1>1. ASSUME NEW op \in Byte, NEW v \in Number28
      PROVE  OneCode(Op(op, v), 6)
  <2>1. PICK w : Joined(Byte, <<255, op>>, w, Op(op, v), 2, 4)
    BY OpWritten, Zenon
  <2>2. QED
    BY <2>1 DEF Joined, OneCode
<1>2. ASSUME NEW n \in Short
      PROVE  OneCode(Direct(n), 1)
  BY DEF Direct, Byte, Short, OneCode
<1>3. ASSUME NEW n \in Middle
      PROVE  OneCode(TwoByte(n), 2)
  <2>1. PICK a, b : a = 250 + (n - 250) \div 255 /\ b = 1 + ((n - 250) % 255)
    OBVIOUS
  <2>2. a \in Byte /\ b \in Byte
    BY <2>1, SMT DEF Byte, Middle
  <2>3. TwoByte(n) = <<a, b>>
    BY <2>1, Zenon DEF TwoByte
  <2>4. QED
    BY <2>2, <2>3 DEF OneCode
<1>4. QED
  BY <1>1, <1>2, <1>3, Zenon

\* The two sides agree about every pulse that is not an area without flux.
LEMMA EncodersAgree ==
    ASSUME NEW ticks \in Nat, ticks > 0, NEW nfa_thresh \in Nat,
           ticks < 250 \/ ticks <= nfa_thresh, NEW nfa_period
    PROVE  EncodeTicks(ticks, nfa_thresh, nfa_period) = SbufPulse(ticks)
<1>1. CASE ticks < 250
  <2>1. ticks # 0 /\ ticks \in 1 .. 249 /\ ticks \notin 250 .. 1524 /\ ~(ticks >= 250)
    BY <1>1
  <2>2. SbufPulse(ticks) = Direct(ticks)
    BY <2>1, SMT DEF SbufPulse
  <2>3. EncodeTicks(ticks, nfa_thresh, nfa_period) = Direct(ticks)
    BY <1>1, <2>1, SMT DEF EncodeTicks
  <2>4. QED
    BY <2>2, <2>3
<1>2. CASE ~(ticks < 250)
  <2>1. ticks <= nfa_thresh /\ ~(ticks > nfa_thresh)
    BY <1>2
  <2>2. (ticks - 250) \div 255 < 5 <=> ticks <= 1524
    BY <1>2, SMT
  <2>3. EncodeTicks(ticks, nfa_thresh, nfa_period)
          = IF (ticks - 250) \div 255 < 5 THEN TwoByte(ticks) ELSE Long(ticks)
    BY <1>2, <2>1 DEF EncodeTicks
  <2>4. CASE ticks <= 1524
    <3>1. ticks # 0 /\ ticks \notin 1 .. 249 /\ ticks \in 250 .. 1524
      BY <1>2, <2>4
    <3>2. SbufPulse(ticks) = TwoByte(ticks)
      BY <3>1, SMT DEF SbufPulse
    <3>3. QED
      BY <2>2, <2>3, <2>4, <3>2, Zenon
  <2>5. CASE ~(ticks <= 1524)
    <3>1. ticks # 0 /\ ticks \notin 1 .. 249 /\ ticks \notin 250 .. 1524
      BY <1>2, <2>5
    <3>2. SbufPulse(ticks) = Long(ticks)
      BY <3>1, SMT DEF SbufPulse
    <3>3. ~((ticks - 250) \div 255 < 5)
      BY <2>2, <2>5
    <3>4. QED
      BY <2>3, <3>2, <3>3, Zenon
  <2>6. QED
    BY <2>4, <2>5
<1>3. QED
  BY <1>1, <1>2

\* The three forms of a pulse.
LEMMA PulseForms ==
    ASSUME NEW ticks \in Number28, ticks > 0
    PROVE  \/ ticks \in Short /\ SbufPulse(ticks) = Direct(ticks)
           \/ ticks \in Middle /\ SbufPulse(ticks) = TwoByte(ticks)
           \/ \E v \in Number28 : /\ ticks = v + 249 /\ v > 0
                                  /\ SbufPulse(ticks) = Op(OpSpace, v) \o Direct(249)
<1>1. ticks \in Nat /\ ticks < 128 * 2097152
  BY SMT DEF Number28
<1>2. CASE ticks \in 1 .. 249
  <2>1. SbufPulse(ticks) = Direct(ticks)
    <3>1. ticks # 0 /\ ticks \in 1 .. 249 /\ ticks \notin 250 .. 1524
      BY <1>2
    <3>2. QED
      BY <3>1, SMT DEF SbufPulse
  <2>2. QED
    BY <1>2, <2>1, Zenon DEF Short
<1>3. CASE ticks \in 250 .. 1524
  <2>1. SbufPulse(ticks) = TwoByte(ticks)
    BY <1>3, SMT DEF SbufPulse
  <2>2. ticks \in Middle
    BY <1>3, SMT DEF Middle
  <2>3. QED
    BY <2>1, <2>2, Zenon
<1>4. CASE ticks > 1524
  <2>1. PICK v : v = ticks - 249
    OBVIOUS
  <2>2. v \in Number28 /\ v > 0 /\ ticks = v + 249
    BY <1>1, <1>4, <2>1, SMT DEF Number28
  <2>3. SbufPulse(ticks) = Long(ticks)
    <3>1. ticks # 0 /\ ticks \notin 1 .. 249 /\ ticks \notin 250 .. 1524
      BY <1>1, <1>4, SMT
    <3>2. QED
      BY <3>1, SMT DEF SbufPulse
  <2>4. Long(ticks) = Op(OpSpace, v) \o Direct(249)
    BY <2>1, Zenon DEF Long, Direct
  <2>5. QED
    BY <2>2, <2>3, <2>4, Zenon
<1>5. QED
  BY <1>1, <1>2, <1>3, <1>4

-----------------------------------------------------------------------------
(* gw_decode_stream() reads what the simulator sends.                      *)

Stream == [ticks : Nat, last : Nat]

\* The stream after a pulse n ticks behind where it stood.
After(g, n) == [ticks |-> g.ticks + n, last |-> g.ticks + n]

\* What the host makes of a code.
Turn(kind, ticks, h) == [kind |-> kind, ticks |-> ticks, next |-> h]

\* At the head of whatever buffer, the host takes the whole of the code and no more, for
\* kind and ticks, and goes from g to h.
Decodes(g, code, kind, ticks, h) ==
    /\ code \in Seq(Byte)
    /\ \A buf : Starts(buf, code) =>
           /\ Complete(buf) /\ CodeLen(buf) = Len(code)
           /\ DecodeCode(g, buf) = Turn(kind, ticks, h)

LEMMA IsPulse ==
    ASSUME NEW g \in Stream, NEW n \in Nat, NEW len, NEW buf, PulseAtHead(n, len, buf)
    PROVE  DecodeCode(g, buf) = Turn("pulse", g.ticks + n - g.last, After(g, n))
<1>1. /\ buf[1] # 0 /\ ~(buf[1] = 255 /\ buf[2] = OpIndex)
      /\ ~(buf[1] = 255 /\ buf[2] = OpSpace)
      /\ ~(buf[1] = 255 /\ buf[2] \notin {OpIndex, OpSpace})
  BY DEF PulseAtHead
<1>2. CodeTicks(buf) = n
  BY Zenon DEF PulseAtHead
<1>3. PICK t : t = g.ticks + n
  OBVIOUS
<1>4. g.ticks + CodeTicks(buf) = t
  BY <1>2, <1>3
<1>5. DecodeCode(g, buf) = [kind |-> "pulse", ticks |-> t - g.last, next |-> [ticks |-> t, last |-> t]]
  BY <1>1, <1>4, SMT DEF DecodeCode
<1>6. QED
  <2>1. DecodeCode(g, buf) = Turn("pulse", t - g.last, After(g, n))
    BY <1>3, <1>5, SMT DEF After, Turn
  <2>2. t - g.last = g.ticks + n - g.last
    BY <1>3 DEF Stream
  <2>3. QED
    BY <2>1, <2>2

LEMMA IsSpace ==
    ASSUME NEW g \in Stream, NEW v \in Nat, NEW buf, OpAtHead(OpSpace, v, buf)
    PROVE  DecodeCode(g, buf) = Turn("space", v, [g EXCEPT !.ticks = @ + v])
<1>1. buf[1] = 255 /\ buf[2] = OpSpace /\ OpSpace # OpIndex /\ Read28(SubSeq(buf, 3, 6)) = v
  BY DEF OpAtHead, OpSpace, OpIndex
<1>2. QED
  BY <1>1, SMT DEF DecodeCode, Turn

LEMMA IsIndex ==
    ASSUME NEW g \in Stream, NEW v \in Nat, NEW buf, OpAtHead(OpIndex, v, buf)
    PROVE  DecodeCode(g, buf) = Turn("index", g.ticks + v, g)
<1>1. buf[1] = 255 /\ buf[2] = OpIndex /\ OpSpace # OpIndex /\ Read28(SubSeq(buf, 3, 6)) = v
  BY DEF OpAtHead, OpSpace, OpIndex
<1>2. QED
  BY <1>1, SMT DEF DecodeCode, Turn

LEMMA PulseDecodes ==
    ASSUME NEW g \in Stream, NEW n \in Nat, NEW len, NEW code, OneCode(code, len),
           \A buf : Starts(buf, code) => PulseAtHead(n, len, buf)
    PROVE  Decodes(g, code, "pulse", g.ticks + n - g.last, After(g, n))
<1>1. ASSUME NEW buf, Starts(buf, code)
      PROVE  /\ Complete(buf) /\ CodeLen(buf) = Len(code)
             /\ DecodeCode(g, buf) = Turn("pulse", g.ticks + n - g.last, After(g, n))
  <2>1. PulseAtHead(n, len, buf)
    BY <1>1, Zenon
  <2>2. DecodeCode(g, buf) = Turn("pulse", g.ticks + n - g.last, After(g, n))
    BY <2>1, IsPulse, Zenon
  <2>3. QED
    BY <2>1, <2>2, Zenon DEF PulseAtHead, OneCode
<1>2. QED
  BY <1>1, Zenon DEF Decodes, OneCode

LEMMA OpDecodes ==
    ASSUME NEW g \in Stream, NEW op \in Byte, NEW v \in Number28, NEW kind, NEW ticks, NEW h,
           \A buf : OpAtHead(op, v, buf) => DecodeCode(g, buf) = Turn(kind, ticks, h)
    PROVE  Decodes(g, Op(op, v), kind, ticks, h)
<1>1. OneCode(Op(op, v), 6)
  BY CodesOfBytes, Zenon
<1>2. ASSUME NEW buf, Starts(buf, Op(op, v))
      PROVE  /\ Complete(buf) /\ CodeLen(buf) = Len(Op(op, v))
             /\ DecodeCode(g, buf) = Turn(kind, ticks, h)
  <2>1. OpAtHead(op, v, buf)
    BY <1>2, OpRead, Zenon
  <2>2. QED
    BY <1>1, <2>1, Zenon DEF OpAtHead, OneCode
<1>3. QED
  BY <1>1, <1>2, Zenon DEF Decodes, OneCode

LEMMA OpFacts ==
    /\ OpSpace \in Byte /\ OpIndex \in Byte
    /\ \A v \in Number28 : v \in Nat
    /\ \A n \in Short \cup Middle : n \in Nat
    /\ 249 \in Short
  BY SMT DEF OpSpace, OpIndex, Byte, Number28, Short, Middle

\* sbuf_index(): the host reads an index mark as many ticks ahead of where the stream
\* stands as the device wrote, and the stream stays where it is.
THEOREM IndexDecoded ==
    ASSUME NEW g \in Stream, NEW v \in Number28
    PROVE  Decodes(g, SbufIndex(v), "index", g.ticks + v, g)
<1>1. SbufIndex(v) = Op(OpIndex, v)
  BY Zenon DEF SbufIndex
<1>2. v \in Nat /\ OpIndex \in Byte
  BY OpFacts, Zenon
<1>3. \A buf : OpAtHead(OpIndex, v, buf) => DecodeCode(g, buf) = Turn("index", g.ticks + v, g)
  BY <1>2, IsIndex, Zenon
<1>4. QED
  BY <1>1, <1>2, <1>3, OpDecodes, Zenon

\* sbuf_pulse(), encode_ticks(): however many ticks lie before a pulse, one code or a space
\* and one code say it, none of their bytes is the 0 that ends a stream, and the host reads
\* one pulse, that many ticks after where the stream stood.
THEOREM PulsesDecoded ==
    ASSUME NEW g \in Stream, NEW ticks \in Number28, ticks > 0
    PROVE  \/ Decodes(g, SbufPulse(ticks), "pulse", g.ticks + ticks - g.last, After(g, ticks))
           \/ \E space, pulse, m :
                  /\ SbufPulse(ticks) = space \o pulse
                  /\ Decodes(g, space, "space", m.ticks - g.ticks, m)
                  /\ Decodes(m, pulse, "pulse", g.ticks + ticks - g.last, After(g, ticks))
<1>1. CASE ticks \in Short /\ SbufPulse(ticks) = Direct(ticks)
  <2>1. OneCode(Direct(ticks), 1) /\ \A buf : Starts(buf, Direct(ticks)) => PulseAtHead(ticks, 1, buf)
    BY <1>1, CodesOfBytes, DirectRead, Zenon
  <2>2. QED
    BY <1>1, <2>1, OpFacts, PulseDecodes, Zenon
<1>2. CASE ticks \in Middle /\ SbufPulse(ticks) = TwoByte(ticks)
  <2>1. OneCode(TwoByte(ticks), 2) /\ \A buf : Starts(buf, TwoByte(ticks)) => PulseAtHead(ticks, 2, buf)
    BY <1>2, CodesOfBytes, TwoByteRead, Zenon
  <2>2. QED
    BY <1>2, <2>1, OpFacts, PulseDecodes, Zenon
<1>3. CASE \E v \in Number28 : /\ ticks = v + 249 /\ v > 0
                               /\ SbufPulse(ticks) = Op(OpSpace, v) \o Direct(249)
  <2>1. PICK v \in Number28 : /\ ticks = v + 249 /\ v > 0
                              /\ SbufPulse(ticks) = Op(OpSpace, v) \o Direct(249)
    BY <1>3
  <2>2. v \in Nat /\ OpSpace \in Byte /\ 249 \in Short
    BY OpFacts, Zenon
  <2>3. PICK m : m = [g EXCEPT !.ticks = @ + v]
    OBVIOUS
  <2>4. m \in Stream /\ m.last = g.last /\ m.ticks = g.ticks + v
    BY <2>2, <2>3 DEF Stream
  <2>5. Decodes(g, Op(OpSpace, v), "space", v, m)
    <3>1. \A buf : OpAtHead(OpSpace, v, buf) => DecodeCode(g, buf) = Turn("space", v, m)
      BY <2>2, <2>3, IsSpace, Zenon
    <3>2. QED
      BY <2>2, <3>1, OpDecodes, Zenon
  <2>6. PICK n : n = 249
    OBVIOUS
  <2>7. Decodes(m, Direct(n), "pulse", m.ticks + n - m.last, After(m, n))
    <3>1. n \in Short /\ n \in Nat
      BY <2>2, <2>6
    <3>2. OneCode(Direct(n), 1) /\ \A buf : Starts(buf, Direct(n)) => PulseAtHead(n, 1, buf)
      BY <3>1, CodesOfBytes, DirectRead, Zenon
    <3>3. QED
      BY <2>4, <3>1, <3>2, PulseDecodes, Zenon
  <2>8. /\ m.ticks + n = g.ticks + ticks /\ m.last = g.last /\ v = m.ticks - g.ticks
        /\ After(m, n) = After(g, ticks)
    BY <2>1, <2>2, <2>4, <2>6, SMT DEF Stream, After
  <2>9. SbufPulse(ticks) = Op(OpSpace, v) \o Direct(n)
    BY <2>1, <2>6
  <2>10. Decodes(g, Op(OpSpace, v), "space", m.ticks - g.ticks, m)
    BY <2>5, <2>8, Zenon
  <2>11. Decodes(m, Direct(n), "pulse", g.ticks + ticks - g.last, After(g, ticks))
    <3>1. m.ticks + n - m.last = g.ticks + ticks - g.last
      BY <2>4, <2>6, <2>8, OpFacts, SMT DEF Stream
    <3>2. QED
      BY <2>7, <2>8, <3>1, SMT
  <2>12. QED
    BY <2>9, <2>10, <2>11, Zenon
<1>4. QED
  BY <1>1, <1>2, <1>3, PulseForms

\* A code whose end has not come in yet is left for the next turn, wherever it is cut.
THEOREM CutCodeWaits ==
    ASSUME NEW g, NEW code, NEW kind, NEW ticks, NEW h, Decodes(g, code, kind, ticks, h),
           NEW buf \in Seq(Nat), Len(buf) < Len(code), \A i \in 1 .. Len(buf) : buf[i] = code[i]
    PROVE  ~Complete(buf)
<1>1. code \in Seq(Byte) /\ Byte \subseteq Nat
  BY DEF Decodes, Byte
<1>2. code \in Seq(Nat)
  BY <1>1, SeqMonotonic
<1>3. Starts(code, code)
  BY <1>1, <1>2 DEF Starts
<1>4. CodeLen(code) = Len(code)
  BY <1>3, Zenon DEF Decodes
<1>5. CASE buf = <<>>
  BY <1>5, Zenon DEF Complete
<1>6. CASE buf # <<>>
  <2>1. 1 \in 1 .. Len(buf)
    BY <1>6
  <2>2. buf[1] = code[1]
    BY <2>1
  <2>3. CodeLen(buf) = CodeLen(code)
    BY <2>2, Zenon DEF CodeLen
  <2>4. ~(Len(buf) >= CodeLen(buf))
    BY <1>2, <1>4, <2>3
  <2>5. QED
    BY <2>4, Zenon DEF Complete
<1>7. QED
  BY <1>5, <1>6, Zenon

-----------------------------------------------------------------------------
(* wrstream_pulses() reads what the host sends.                            *)

Flux == [ticks : Nat, last : Nat, space_start : Nat, pending : Nat, flux : Seq(Nat)]

\* At the head of whatever buffer, the simulator takes the code and no more, and goes
\* from w to x.
Writes(w, code, x) ==
    /\ code \in Seq(Byte)
    /\ \A buf : Starts(buf, code) => CodeLen(buf) = Len(code) /\ WriteCode(w, buf) = x

\* One transition more, n ticks behind where the stream stood, and the stream is there.
Struck(w, n, x) ==
    /\ x \in Flux /\ x.ticks = w.ticks + n /\ x.last = x.ticks /\ x.pending = 0
    /\ x.flux = Append(w.flux, x.ticks - w.last)

\* What a space leaves behind: no transition, and the stream that much further.
Passed(w, v) ==
    [w EXCEPT !.space_start = IF w.pending = 0 THEN w.ticks ELSE @,
              !.pending = @ + v, !.ticks = @ + v]

\* What a pulse leaves behind.
Hit(w, n) ==
    [w EXCEPT !.flux = Append(@, w.ticks + n - w.last), !.last = w.ticks + n,
              !.ticks = w.ticks + n, !.pending = 0]

LEMMA HitStrikes ==
    ASSUME NEW w \in Flux, w.last <= w.ticks, NEW n \in Nat
    PROVE  Struck(w, n, Hit(w, n))
<1>1. w.ticks + n \in Nat /\ w.ticks + n - w.last \in Nat
  BY SMT DEF Flux
<1>2. PICK t, d : t = w.ticks + n /\ d = w.ticks + n - w.last
  OBVIOUS
<1>3. w.flux \in Seq(Nat) /\ Append(w.flux, d) \in Seq(Nat)
  BY <1>1, <1>2 DEF Flux
<1>4. Hit(w, n) = [w EXCEPT !.flux = Append(@, d), !.last = t, !.ticks = t, !.pending = 0]
  BY <1>2 DEF Hit
<1>5. PICK x : x = [w EXCEPT !.flux = Append(@, d), !.last = t, !.ticks = t, !.pending = 0]
  OBVIOUS
<1>6. x \in Flux /\ x.ticks = t /\ x.last = t /\ x.pending = 0 /\ x.flux = Append(w.flux, d)
  BY <1>1, <1>2, <1>3, <1>5 DEF Flux
<1>7. x.ticks - w.last = d
  BY <1>2, <1>6 DEF Flux
<1>8. Struck(w, n, x)
  BY <1>2, <1>6, <1>7 DEF Struck
<1>9. QED
  BY <1>4, <1>5, <1>8

LEMMA PulseHits ==
    ASSUME NEW w \in Flux, w.last <= w.ticks, NEW n \in Nat, n > 0,
           NEW len, NEW buf, PulseAtHead(n, len, buf)
    PROVE  WriteCode(w, buf) = Hit(w, n)
<1>1. ~(buf[1] = 255) /\ CodeTicks(buf) = n
  BY DEF PulseAtHead
<1>2. PICK t : t = w.ticks + n
  OBVIOUS
<1>3. t > w.last
  BY <1>2 DEF Flux
<1>4. Transition(w, t) = [w EXCEPT !.flux = Append(@, t - w.last), !.last = t]
  BY <1>3, Zenon DEF Transition
<1>5. WriteCode(w, buf) = [Transition(w, t) EXCEPT !.ticks = t, !.pending = 0]
  BY <1>1, <1>2, SMT DEF WriteCode
<1>6. [Transition(w, t) EXCEPT !.ticks = t, !.pending = 0]
        = [w EXCEPT !.flux = Append(@, t - w.last), !.last = t, !.ticks = t, !.pending = 0]
  BY <1>4 DEF Flux
<1>7. t - w.last = w.ticks + n - w.last
  BY <1>2 DEF Flux
<1>8. Hit(w, n) = [w EXCEPT !.flux = Append(@, t - w.last), !.last = t, !.ticks = t, !.pending = 0]
  BY <1>2, <1>7 DEF Hit
<1>9. QED
  BY <1>5, <1>6, <1>8

LEMMA SpacePasses ==
    ASSUME NEW w \in Flux, NEW v \in Nat, NEW buf, OpAtHead(OpSpace, v, buf)
    PROVE  WriteCode(w, buf) = Passed(w, v)
<1>1. buf[1] = 255 /\ buf[2] = OpSpace /\ OpSpace # OpAstable /\ Read28(SubSeq(buf, 3, 6)) = v
  BY DEF OpAtHead, OpSpace, OpAstable
<1>2. PICK r : r = Read28(SubSeq(buf, 3, 6))
  OBVIOUS
<1>3. WriteCode(w, buf) = [w EXCEPT !.space_start = IF w.pending = 0 THEN w.ticks ELSE @,
                                   !.pending = @ + r, !.ticks = @ + r]
  BY <1>1, <1>2, SMT DEF WriteCode
<1>4. r = v
  BY <1>1, <1>2
<1>5. QED
  BY <1>3, <1>4, Zenon DEF Passed

LEMMA PulseWrites ==
    ASSUME NEW w \in Flux, w.last <= w.ticks, NEW n \in Nat, n > 0,
           NEW len, NEW code, OneCode(code, len),
           \A buf : Starts(buf, code) => PulseAtHead(n, len, buf)
    PROVE  Writes(w, code, Hit(w, n)) /\ Struck(w, n, Hit(w, n))
<1>1. ASSUME NEW buf, Starts(buf, code)
      PROVE  CodeLen(buf) = Len(code) /\ WriteCode(w, buf) = Hit(w, n)
  <2>1. PulseAtHead(n, len, buf)
    BY <1>1, Zenon
  <2>2. WriteCode(w, buf) = Hit(w, n)
    BY <2>1, PulseHits, Zenon
  <2>3. QED
    BY <2>1, <2>2, Zenon DEF PulseAtHead, OneCode
<1>2. QED
  BY <1>1, HitStrikes, Zenon DEF Writes, OneCode

LEMMA SpaceWrites ==
    ASSUME NEW w \in Flux, NEW v \in Number28
    PROVE  Writes(w, Op(OpSpace, v), Passed(w, v))
<1>1. OneCode(Op(OpSpace, v), 6)
  BY CodesOfBytes, OpFacts, Zenon
<1>2. ASSUME NEW buf, Starts(buf, Op(OpSpace, v))
      PROVE  CodeLen(buf) = Len(Op(OpSpace, v)) /\ WriteCode(w, buf) = Passed(w, v)
  <2>1. OpAtHead(OpSpace, v, buf)
    BY <1>2, OpFacts, OpRead, Zenon
  <2>2. WriteCode(w, buf) = Passed(w, v)
    BY <2>1, OpFacts, SpacePasses, Zenon
  <2>3. QED
    BY <1>1, <2>1, <2>2, Zenon DEF OpAtHead, OneCode
<1>3. QED
  BY <1>1, <1>2, Zenon DEF Writes, OneCode

\* encode_ticks(), wrstream_pulses(): however many ticks dmk2gw puts before a pulse, and
\* whatever space came before it, the head strikes once, that many ticks after where it
\* stood, and the next pulse finds the stream there.
THEOREM PulsesWritten ==
    ASSUME NEW w \in Flux, w.last <= w.ticks, NEW ticks \in Number28, ticks > 0,
           NEW nfa_thresh \in Nat, ticks < 250 \/ ticks <= nfa_thresh, NEW nfa_period
    PROVE  \E x :
               /\ Struck(w, ticks, x)
               /\ \/ Writes(w, EncodeTicks(ticks, nfa_thresh, nfa_period), x)
                  \/ \E space, pulse, y :
                         /\ EncodeTicks(ticks, nfa_thresh, nfa_period) = space \o pulse
                         /\ Writes(w, space, y) /\ Writes(y, pulse, x)
<1>1. ticks \in Nat
  BY OpFacts, Zenon
<1>2. EncodeTicks(ticks, nfa_thresh, nfa_period) = SbufPulse(ticks)
  BY <1>1, EncodersAgree, Zenon
<1>3. CASE ticks \in Short /\ SbufPulse(ticks) = Direct(ticks)
  <2>1. OneCode(Direct(ticks), 1) /\ \A buf : Starts(buf, Direct(ticks)) => PulseAtHead(ticks, 1, buf)
    BY <1>3, CodesOfBytes, DirectRead, Zenon
  <2>2. Writes(w, Direct(ticks), Hit(w, ticks)) /\ Struck(w, ticks, Hit(w, ticks))
    BY <1>1, <2>1, PulseWrites, Zenon
  <2>3. QED
    BY <1>2, <1>3, <2>2, Zenon
<1>4. CASE ticks \in Middle /\ SbufPulse(ticks) = TwoByte(ticks)
  <2>1. OneCode(TwoByte(ticks), 2) /\ \A buf : Starts(buf, TwoByte(ticks)) => PulseAtHead(ticks, 2, buf)
    BY <1>4, CodesOfBytes, TwoByteRead, Zenon
  <2>2. Writes(w, TwoByte(ticks), Hit(w, ticks)) /\ Struck(w, ticks, Hit(w, ticks))
    BY <1>1, <2>1, PulseWrites, Zenon
  <2>3. QED
    BY <1>2, <1>4, <2>2, Zenon
<1>5. CASE \E v \in Number28 : /\ ticks = v + 249 /\ v > 0
                               /\ SbufPulse(ticks) = Op(OpSpace, v) \o Direct(249)
  <2>0. PICK n : n = 249
    OBVIOUS
  <2>1. PICK v \in Number28 : /\ ticks = v + n
                              /\ SbufPulse(ticks) = Op(OpSpace, v) \o Direct(n)
    BY <1>5, <2>0
  <2>2. v \in Nat /\ n \in Nat /\ n > 0 /\ n \in Short
    BY <2>0, OpFacts
  <2>3. PICK y : y = Passed(w, v)
    OBVIOUS
  <2>4. Writes(w, Op(OpSpace, v), y)
    BY <2>3, SpaceWrites, Zenon
  <2>5. /\ y \in Flux /\ y.last <= y.ticks
        /\ y.ticks = w.ticks + v /\ y.last = w.last /\ y.flux = w.flux
    <3>1. PICK a, s, d : a = (IF w.pending = 0 THEN w.ticks ELSE w.space_start)
                         /\ s = w.ticks + v /\ d = w.pending + v
      OBVIOUS
    <3>2. a \in Nat /\ s \in Nat /\ d \in Nat /\ w.last <= s
      BY <2>2, <3>1 DEF Flux
    <3>3. y = [w EXCEPT !.space_start = a, !.pending = d, !.ticks = s]
      BY <2>3, <3>1 DEF Passed, Flux
    <3>4. /\ y \in Flux /\ y.ticks = s /\ y.last = w.last /\ y.flux = w.flux
      BY <3>2, <3>3 DEF Flux
    <3>5. QED
      BY <3>1, <3>2, <3>4
  <2>6. OneCode(Direct(n), 1) /\ \A buf : Starts(buf, Direct(n)) => PulseAtHead(n, 1, buf)
    BY <2>2, CodesOfBytes, DirectRead, Zenon
  <2>7. PICK x : Writes(y, Direct(n), x) /\ Struck(y, n, x)
    BY <2>2, <2>5, <2>6, PulseWrites, Zenon
  <2>8. Struck(w, ticks, x)
    <3>1. y.ticks + n = w.ticks + ticks
      BY <2>1, <2>2, <2>5 DEF Flux
    <3>2. QED
      BY <2>5, <2>7, <3>1 DEF Struck
  <2>9. QED
    BY <1>2, <2>1, <2>4, <2>7, <2>8, Zenon
<1>6. QED
  BY <1>3, <1>4, <1>5, PulseForms
=============================================================================
