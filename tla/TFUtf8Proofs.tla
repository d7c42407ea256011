---------------------------- MODULE TFUtf8Proofs ----------------------------
(***************************************************************************)
(* tf_utf8_next decodes UTF-8 exactly, at every offset of every buffer.    *)
(***************************************************************************)
EXTENDS MCUtf8, SequenceTheorems, TLAPS

-----------------------------------------------------------------------------
(* Arithmetic.                                                             *)

(* A number is put together from its quotient and its remainder ...        *)
LEMMA Division ==
  ASSUME NEW m \in Nat \ {0}, NEW c \in Nat
  PROVE  c \div m \in Nat /\ c % m \in Nat /\ c % m < m /\ c = m * (c \div m) + (c % m)
  OBVIOUS

(* ... which are the only such. *)
LEMMA Quotient ==
  ASSUME NEW m \in Nat \ {0}, NEW q \in Nat, NEW r \in Nat, r < m, NEW c \in Nat, c = m * q + r
  PROVE  c \div m = q /\ c % m = r
<1>1. c \div m = q
  OBVIOUS
<1>2. c = m * (c \div m) + (c % m)
  BY Division
<1> QED BY <1>1, <1>2

(* An interval, by inequalities. *)
LEMMA Between == ASSUME NEW a \in Nat, NEW z \in Nat, NEW x
                 PROVE  x \in a .. z <=> x \in Nat /\ a <= x /\ x <= z
  OBVIOUS

(* The bytes the decoder tells apart: a byte, a continuation ...           *)
LEMMA Bytes ==
  ASSUME NEW b
  PROVE  /\ b \in Byte <=> b \in Nat /\ 0 <= b /\ b <= 255
         /\ Continues(b) <=> b \in Nat /\ 128 <= b /\ b <= 191
<1>1. 0 \in Nat /\ 128 \in Nat /\ 191 \in Nat /\ 255 \in Nat
  OBVIOUS
<1> QED BY <1>1, Between, Zenon DEF Byte, Continues

(* ... and the first byte of a character of each size.                     *)
LEMMA LeadOne == ASSUME NEW l PROVE l \in Leads[1] <=> l \in Nat /\ 0 <= l /\ l <= 127
<1> DEFINE range == 0 .. 127
<1>1. Leads[1] = range
  BY DEF Leads
<1>2. l \in range <=> l \in Nat /\ 0 <= l /\ l <= 127
  <2>1. 0 \in Nat /\ 127 \in Nat
    OBVIOUS
  <2> QED BY <2>1, Between, Zenon
<1> HIDE DEF range
<1> QED BY <1>1, <1>2, Zenon

(* See LeadOne. *)
LEMMA LeadTwo == ASSUME NEW l PROVE l \in Leads[2] <=> l \in Nat /\ 194 <= l /\ l <= 223
<1> DEFINE range == 194 .. 223
<1>1. Leads[2] = range
  BY DEF Leads
<1>2. l \in range <=> l \in Nat /\ 194 <= l /\ l <= 223
  <2>1. 194 \in Nat /\ 223 \in Nat
    OBVIOUS
  <2> QED BY <2>1, Between, Zenon
<1> HIDE DEF range
<1> QED BY <1>1, <1>2, Zenon

(* See LeadOne. *)
LEMMA LeadThree == ASSUME NEW l PROVE l \in Leads[3] <=> l \in Nat /\ 224 <= l /\ l <= 239
<1> DEFINE range == 224 .. 239
<1>1. Leads[3] = range
  BY DEF Leads
<1>2. l \in range <=> l \in Nat /\ 224 <= l /\ l <= 239
  <2>1. 224 \in Nat /\ 239 \in Nat
    OBVIOUS
  <2> QED BY <2>1, Between, Zenon
<1> HIDE DEF range
<1> QED BY <1>1, <1>2, Zenon

(* See LeadOne. *)
LEMMA LeadFour == ASSUME NEW l PROVE l \in Leads[4] <=> l \in Nat /\ 240 <= l /\ l <= 244
<1> DEFINE range == 240 .. 244
<1>1. Leads[4] = range
  BY DEF Leads
<1>2. l \in range <=> l \in Nat /\ 240 <= l /\ l <= 244
  <2>1. 240 \in Nat /\ 244 \in Nat
    OBVIOUS
  <2> QED BY <2>1, Between, Zenon
<1> HIDE DEF range
<1> QED BY <1>1, <1>2, Zenon

(* The encoding of a scalar value has the bytes the decoder asks for.      *)
LEMMA TwoForth ==
  ASSUME NEW c \in Nat, 128 <= c, c < 2048,
         NEW l, l = 192 + c \div 64, NEW b, b = 128 + ((c \div 1) % 64)
  PROVE  l \in Nat /\ 194 <= l /\ l <= 223 /\ b \in Nat /\ 128 <= b /\ b <= 191
  OBVIOUS

(* See TwoForth. *)
LEMMA ThreeForth ==
  ASSUME NEW c \in Nat, 2048 <= c, c < 65536, c < FirstSurrogate \/ c > LastSurrogate,
         NEW l, l = 224 + c \div 4096, NEW b, b = 128 + ((c \div 64) % 64),
         NEW d, d = 128 + ((c \div 1) % 64)
  PROVE  /\ l \in Nat /\ 224 <= l /\ l <= 239 /\ b \in Nat /\ 128 <= b /\ b <= 191
         /\ d \in Nat /\ 128 <= d /\ d <= 191 /\ SecondFits(l, b)
<1> DEFINE q == c \div 64  p == q \div 64
<1>1. q \in Nat /\ c % 64 \in Nat /\ c % 64 < 64 /\ c = 64 * q + (c % 64)
  BY Division
<1> HIDE DEF q
<1>2. p \in Nat /\ q % 64 \in Nat /\ q % 64 < 64 /\ q = 64 * p + (q % 64)
  BY <1>1, Division
<1> HIDE DEF p
<1>3. c \div 4096 = p
  <2>1. 64 * (q % 64) + (c % 64) \in Nat /\ 64 * (q % 64) + (c % 64) < 4096 /\ c = 4096 * p + (64 * (q % 64) + (c % 64))
    BY <1>1, <1>2
  <2> QED BY <1>2, <2>1, Quotient
<1>4. l = 224 + p /\ b = 128 + (q % 64) /\ c \div 1 = c
  BY <1>3 DEF q
<1>5. l \in Nat /\ 224 <= l /\ l <= 239 /\ b \in Nat /\ 128 <= b /\ b <= 191
  BY <1>1, <1>2, <1>4
<1>6. SecondFits(l, b)
  BY <1>1, <1>2, <1>4 DEF SecondFits, MaxCodePoint, FirstSurrogate, LastSurrogate
<1> QED BY <1>1, <1>4, <1>5, <1>6

(* See TwoForth. *)
LEMMA FourForth ==
  ASSUME NEW c \in Nat, 65536 <= c, c <= MaxCodePoint,
         NEW l, l = 240 + c \div 262144, NEW b, b = 128 + ((c \div 4096) % 64),
         NEW d, d = 128 + ((c \div 64) % 64), NEW e, e = 128 + ((c \div 1) % 64)
  PROVE  /\ l \in Nat /\ 240 <= l /\ l <= 244 /\ b \in Nat /\ 128 <= b /\ b <= 191
         /\ d \in Nat /\ 128 <= d /\ d <= 191 /\ e \in Nat /\ 128 <= e /\ e <= 191
         /\ SecondFits(l, b)
<1> DEFINE q == c \div 4096  p == q \div 64
<1>1. q \in Nat /\ c % 4096 \in Nat /\ c % 4096 < 4096 /\ c = 4096 * q + (c % 4096)
  BY Division
<1> HIDE DEF q
<1>2. p \in Nat /\ q % 64 \in Nat /\ q % 64 < 64 /\ q = 64 * p + (q % 64)
  BY <1>1, Division
<1> HIDE DEF p
<1>3. c \div 262144 = p
  <2>1. 4096 * (q % 64) + (c % 4096) \in Nat /\ 4096 * (q % 64) + (c % 4096) < 262144
        /\ c = 262144 * p + (4096 * (q % 64) + (c % 4096))
    BY <1>1, <1>2
  <2> QED BY <1>2, <2>1, Quotient
<1>4. l = 240 + p /\ b = 128 + (q % 64) /\ c \div 1 = c
  BY <1>3 DEF q
<1>5. l \in Nat /\ 240 <= l /\ l <= 244 /\ b \in Nat /\ 128 <= b /\ b <= 191
  <2>1. p < 5
    BY <1>1, <1>2 DEF MaxCodePoint
  <2> QED BY <1>2, <1>4, <2>1
<1>6. SecondFits(l, b)
  BY <1>1, <1>2, <1>4 DEF SecondFits, MaxCodePoint, FirstSurrogate, LastSurrogate
<1>7. (c \div 64) % 64 \in Nat /\ (c \div 64) % 64 < 64 /\ c % 64 \in Nat /\ c % 64 < 64
  BY Division
<1> QED BY <1>4, <1>5, <1>6, <1>7

-----------------------------------------------------------------------------
(* A byte is a number, and a buffer one of numbers. *)
LEMMA ByteAt ==
  ASSUME NEW s \in Seq(Byte), NEW k \in 1 .. Len(s)
  PROVE  s[k] \in Nat /\ s[k] <= 255
  BY ElementOfSeq, Bytes

(* A tuple is a window of the buffer if its bytes are.                     *)
LEMMA Window ==
  ASSUME NEW s \in Seq(Byte), NEW at \in Nat, NEW n \in 1 .. 4, at + n <= Len(s),
         NEW t \in Seq(Nat), Len(t) = n
  PROVE  t = SubSeq(s, at + 1, at + n) <=> \A k \in 1 .. n : t[k] = s[at + k]
<1> DEFINE w == SubSeq(s, at + 1, at + n)
<1>1. \A k \in at + 1 .. at + n : s[k] \in Nat
  <2> TAKE k \in at + 1 .. at + n
  <2>1. k \in 1 .. Len(s)
    OBVIOUS
  <2> QED BY <2>1, ByteAt
<1>2. /\ w \in Seq(Nat) /\ Len(w) = n
      /\ \A k \in 1 .. n : w[k] = s[at + k]
  <2>1. /\ w \in Seq(Nat)
        /\ Len(w) = IF at + 1 <= at + n THEN (at + n) - (at + 1) + 1 ELSE 0
        /\ \A k \in 1 .. (at + n) - (at + 1) + 1 : w[k] = s[(at + 1) + k - 1]
    <3> DEFINE a == at + 1  z == at + n
    <3>1. a \in Int /\ z \in Int /\ \A k \in a .. z : s[k] \in Nat
      BY <1>1
    <3> HIDE DEF a, z
    <3>2. /\ SubSeq(s, a, z) \in Seq(Nat)
          /\ Len(SubSeq(s, a, z)) = IF a <= z THEN z - a + 1 ELSE 0
          /\ \A k \in 1 .. z - a + 1 : SubSeq(s, a, z)[k] = s[a + k - 1]
      BY <3>1, SubSeqProperties
    <3> QED BY <3>2 DEF a, z
  <2> HIDE DEF w
  <2>2. (at + n) - (at + 1) + 1 = n /\ at + 1 <= at + n /\ \A k \in 1 .. n : (at + 1) + k - 1 = at + k
    OBVIOUS
  <2> QED BY <2>1, <2>2
<1> HIDE DEF w
<1>3. t = w <=> \A k \in 1 .. n : t[k] = w[k]
  BY <1>2, SeqEqual
<1> QED BY <1>2, <1>3 DEF w

(* The size of a window. *)
LEMMA WindowLen ==
  ASSUME NEW s \in Seq(Byte), NEW at \in Nat, Len(s) \in Nat, NEW n \in 1 .. 4, at + n <= Len(s)
  PROVE  Len(SubSeq(s, at + 1, at + n)) = n
<1> DEFINE a == at + 1  z == at + n
<1>1. a \in Int /\ z \in Int /\ z - a + 1 = n /\ a <= z
  OBVIOUS
<1>2. \A k \in a .. z : s[k] \in Byte
  <2> TAKE k \in a .. z
  <2>1. k \in 1 .. Len(s)
    OBVIOUS
  <2> QED BY <2>1, ElementOfSeq
<1> HIDE DEF a, z
<1>3. Len(SubSeq(s, a, z)) = IF a <= z THEN z - a + 1 ELSE 0
  BY <1>1, <1>2, SubSeqProperties
<1> QED BY <1>1, <1>3 DEF a, z

(* The bytes of a window. *)
LEMMA Windows ==
  ASSUME NEW s \in Seq(Byte), NEW at \in Nat, Len(s) \in Nat
  PROVE  /\ at + 1 <= Len(s) => SubSeq(s, at + 1, at + 1) = <<s[at + 1]>> /\ s[at + 1] \in Nat
         /\ at + 2 <= Len(s) => /\ SubSeq(s, at + 1, at + 2) = <<s[at + 1], s[at + 2]>>
                                /\ s[at + 1] \in Nat /\ s[at + 2] \in Nat
         /\ at + 3 <= Len(s) => /\ SubSeq(s, at + 1, at + 3) = <<s[at + 1], s[at + 2], s[at + 3]>>
                                /\ s[at + 1] \in Nat /\ s[at + 2] \in Nat /\ s[at + 3] \in Nat
         /\ at + 4 <= Len(s) =>
              /\ SubSeq(s, at + 1, at + 4) = <<s[at + 1], s[at + 2], s[at + 3], s[at + 4]>>
              /\ s[at + 1] \in Nat /\ s[at + 2] \in Nat /\ s[at + 3] \in Nat /\ s[at + 4] \in Nat
<1>1. \A k \in 1 .. 4 : at + k <= Len(s) => s[at + k] \in Nat
  <2> TAKE k \in 1 .. 4
  <2> HAVE at + k <= Len(s)
  <2>1. at + k \in 1 .. Len(s)
    OBVIOUS
  <2> QED BY <2>1, ByteAt
<1>2. ASSUME NEW n \in 1 .. 4, at + n <= Len(s)
      PROVE  \A k \in 1 .. n : at + k <= Len(s)
  BY <1>2
<1>3. ASSUME at + 1 <= Len(s)
      PROVE  SubSeq(s, at + 1, at + 1) = <<s[at + 1]>> /\ s[at + 1] \in Nat
  <2> DEFINE x == s[at + 1]  t == <<x>>
  <2>1. x \in Nat
    BY <1>1, <1>3
  <2> HIDE DEF x
  <2>2. t \in Seq(Nat) /\ Len(t) = 1 /\ t[1] = x
    BY <2>1
  <2> HIDE DEF t
  <2>3. 1 \in 1 .. 4 /\ \A k \in 1 .. 1 : t[k] = s[at + k]
    BY <2>2 DEF x
  <2>4. SubSeq(s, at + 1, at + 1) = t
    BY <1>3, <2>2, <2>3, Window, Zenon
  <2> QED BY <2>1, <2>4 DEF x, t
<1>4. ASSUME at + 2 <= Len(s)
      PROVE  SubSeq(s, at + 1, at + 2) = <<s[at + 1], s[at + 2]>> /\ s[at + 1] \in Nat /\ s[at + 2] \in Nat
  <2> DEFINE x == s[at + 1]  y == s[at + 2]  t == <<x, y>>
  <2>1. x \in Nat /\ y \in Nat
    BY <1>1, <1>4
  <2> HIDE DEF x, y
  <2>2. t \in Seq(Nat) /\ Len(t) = 2 /\ t[1] = x /\ t[2] = y
    BY <2>1
  <2> HIDE DEF t
  <2>3. 2 \in 1 .. 4 /\ \A k \in 1 .. 2 : t[k] = s[at + k]
    BY <2>2 DEF x, y
  <2>4. SubSeq(s, at + 1, at + 2) = t
    BY <1>4, <2>2, <2>3, Window, Zenon
  <2> QED BY <2>1, <2>4 DEF x, y, t
<1>5. ASSUME at + 3 <= Len(s)
      PROVE  /\ SubSeq(s, at + 1, at + 3) = <<s[at + 1], s[at + 2], s[at + 3]>>
             /\ s[at + 1] \in Nat /\ s[at + 2] \in Nat /\ s[at + 3] \in Nat
  <2> DEFINE x == s[at + 1]  y == s[at + 2]  z == s[at + 3]  t == <<x, y, z>>
  <2>1. x \in Nat /\ y \in Nat /\ z \in Nat
    BY <1>1, <1>5
  <2> HIDE DEF x, y, z
  <2>2. t \in Seq(Nat) /\ Len(t) = 3 /\ t[1] = x /\ t[2] = y /\ t[3] = z
    BY <2>1
  <2> HIDE DEF t
  <2>3. 3 \in 1 .. 4 /\ \A k \in 1 .. 3 : t[k] = s[at + k]
    BY <2>2 DEF x, y, z
  <2>4. SubSeq(s, at + 1, at + 3) = t
    BY <1>5, <2>2, <2>3, Window, Zenon
  <2> QED BY <2>1, <2>4 DEF x, y, z, t
<1>6. ASSUME at + 4 <= Len(s)
      PROVE  /\ SubSeq(s, at + 1, at + 4) = <<s[at + 1], s[at + 2], s[at + 3], s[at + 4]>>
             /\ s[at + 1] \in Nat /\ s[at + 2] \in Nat /\ s[at + 3] \in Nat /\ s[at + 4] \in Nat
  <2> DEFINE w == s[at + 1]  x == s[at + 2]  y == s[at + 3]  z == s[at + 4]  t == <<w, x, y, z>>
  <2>1. w \in Nat /\ x \in Nat /\ y \in Nat /\ z \in Nat
    BY <1>1, <1>6
  <2> HIDE DEF w, x, y, z
  <2>2. t \in Seq(Nat) /\ Len(t) = 4 /\ t[1] = w /\ t[2] = x /\ t[3] = y /\ t[4] = z
    BY <2>1
  <2> HIDE DEF t
  <2>3. 4 \in 1 .. 4 /\ \A k \in 1 .. 4 : t[k] = s[at + k]
    BY <2>2 DEF w, x, y, z
  <2>4. SubSeq(s, at + 1, at + 4) = t
    BY <1>6, <2>2, <2>3, Window, Zenon
  <2> QED BY <2>1, <2>4 DEF w, x, y, z, t
<1> QED BY <1>3, <1>4, <1>5, <1>6

-----------------------------------------------------------------------------
(* Encodings and payloads, by the number of bytes.                         *)

(* One byte. *)
LEMMA EncodeOne == ASSUME NEW c \in Nat, c < 128 PROVE Encode(c) = <<c>>
  BY SMT DEF Encode

(* Two bytes. *)
LEMMA EncodeTwo ==
  ASSUME NEW c \in Nat, 128 <= c, c < 2048
  PROVE  Encode(c) = <<192 + c \div 64, 128 + ((c \div 1) % 64)>>
  BY SMT DEF Encode

(* Three bytes. *)
LEMMA EncodeThree ==
  ASSUME NEW c \in Nat, 2048 <= c, c < 65536
  PROVE  Encode(c) = <<224 + c \div 4096, 128 + ((c \div 64) % 64), 128 + ((c \div 1) % 64)>>
  BY SMT DEF Encode

(* Four bytes. *)
LEMMA EncodeFour ==
  ASSUME NEW c \in Nat, 65536 <= c
  PROVE  Encode(c) = <<240 + c \div 262144, 128 + ((c \div 4096) % 64),
                       128 + ((c \div 64) % 64), 128 + ((c \div 1) % 64)>>
  BY SMT DEF Encode

(* The payload of each. *)
LEMMA Payloads ==
  ASSUME NEW s, NEW at
  PROVE  /\ Payload(s, at, 1) = s[at + 1]
         /\ Payload(s, at, 2) = (s[at + 1] % 32) * 64 + (s[at + 2] % 64)
         /\ Payload(s, at, 3) = (s[at + 1] % 16) * 4096 + (s[at + 2] % 64) * 64 + (s[at + 3] % 64)
         /\ Payload(s, at, 4) = (s[at + 1] % 8) * 262144 + (s[at + 2] % 64) * 4096
                                + (s[at + 3] % 64) * 64 + (s[at + 4] % 64)
  BY SMT DEF Payload

(* The bounds of the scalar values are numbers. *)
LEMMA Limits ==
  /\ MaxCodePoint \in Nat /\ FirstSurrogate \in Nat /\ LastSurrogate \in Nat
  /\ 65536 <= MaxCodePoint /\ 2048 <= FirstSurrogate /\ LastSurrogate < 65536
  BY SMT DEF MaxCodePoint, FirstSurrogate, LastSurrogate

(* A scalar value, by inequalities. *)
LEMMA Scalars ==
  ASSUME NEW c
  PROVE  IsScalar(c) <=> c \in Nat /\ c <= MaxCodePoint /\ (c < FirstSurrogate \/ c > LastSurrogate)
  BY Limits, SMT DEF IsScalar

(* A formed character, by its size. *)
LEMMA FormedBytes ==
  ASSUME NEW s, NEW at \in Nat, Len(s) \in Nat
  PROVE  /\ Formed(s, at, 1) <=> at + 1 <= Len(s) /\ s[at + 1] \in Leads[1]
         /\ Formed(s, at, 2) <=> at + 2 <= Len(s) /\ s[at + 1] \in Leads[2] /\ Continues(s[at + 2])
         /\ Formed(s, at, 3) <=> /\ at + 3 <= Len(s) /\ s[at + 1] \in Leads[3] /\ Continues(s[at + 2])
                                 /\ Continues(s[at + 3]) /\ SecondFits(s[at + 1], s[at + 2])
         /\ Formed(s, at, 4) <=> /\ at + 4 <= Len(s) /\ s[at + 1] \in Leads[4] /\ Continues(s[at + 2])
                                 /\ Continues(s[at + 3]) /\ Continues(s[at + 4])
                                 /\ SecondFits(s[at + 1], s[at + 2])
<1>1. Formed(s, at, 1) <=> at + 1 <= Len(s) /\ s[at + 1] \in Leads[1]
  BY SMT DEF Formed, Available
<1>2. Formed(s, at, 2) <=> at + 2 <= Len(s) /\ s[at + 1] \in Leads[2] /\ Continues(s[at + 2])
  <2>1. \A k \in 2 .. 2 : k = 2
    OBVIOUS
  <2> QED BY <2>1, SMT DEF Formed, Available
<1>3. Formed(s, at, 3) <=> /\ at + 3 <= Len(s) /\ s[at + 1] \in Leads[3] /\ Continues(s[at + 2])
                           /\ Continues(s[at + 3]) /\ SecondFits(s[at + 1], s[at + 2])
  <2>1. \A k \in 2 .. 3 : k = 2 \/ k = 3
    OBVIOUS
  <2> QED BY <2>1, SMT DEF Formed, Available
<1>4. Formed(s, at, 4) <=> /\ at + 4 <= Len(s) /\ s[at + 1] \in Leads[4] /\ Continues(s[at + 2])
                           /\ Continues(s[at + 3]) /\ Continues(s[at + 4])
                           /\ SecondFits(s[at + 1], s[at + 2])
  <2>1. \A k \in 2 .. 4 : k = 2 \/ k = 3 \/ k = 4
    OBVIOUS
  <2> QED BY <2>1, SMT DEF Formed, Available
<1> QED BY <1>1, <1>2, <1>3, <1>4

-----------------------------------------------------------------------------
(* What the decoder accepts is UTF-8.                                      *)

(* One byte and its payload ... *)
LEMMA OneDecodes ==
  ASSUME NEW s, NEW at, s[at + 1] \in Leads[1]
  PROVE  IsScalar(Payload(s, at, 1)) /\ Encode(Payload(s, at, 1)) = <<s[at + 1]>>
<1> DEFINE l == s[at + 1]  c == Payload(s, at, 1)
<1>1. c = l
  BY Payloads, SMT
<1> HIDE DEF l, c
<1>2. l \in Nat /\ l <= 127
  <2>1. l \in Leads[1]
    BY DEF l
  <2> QED BY <2>1, LeadOne
<1>3. Encode(c) = <<c>>
  BY <1>1, <1>2, SMT DEF Encode
<1>4. c \in Nat /\ c <= MaxCodePoint /\ c < FirstSurrogate
  BY <1>1, <1>2, Limits, SMT
<1>5. IsScalar(c)
  BY <1>4, Scalars, SMT
<1> QED BY <1>1, <1>3, <1>5, Zenon DEF l, c

(* ... two ... *)
LEMMA TwoDecode ==
  ASSUME NEW s, NEW at, s[at + 1] \in Leads[2], Continues(s[at + 2])
  PROVE  IsScalar(Payload(s, at, 2)) /\ Encode(Payload(s, at, 2)) = <<s[at + 1], s[at + 2]>>
<1> DEFINE l == s[at + 1]  b == s[at + 2]  c == Payload(s, at, 2)
<1>1. c = (l % 32) * 64 + (b % 64)
  BY Payloads, SMT
<1> HIDE DEF l, b, c
<1>2. l \in Nat /\ 194 <= l /\ l <= 223
  <2>1. l \in Leads[2]
    BY DEF l
  <2> QED BY <2>1, LeadTwo
<1>3. b \in Nat /\ 128 <= b /\ b <= 191
  BY Bytes, Zenon DEF b
<1>4. c = 64 * (l - 192) + (b - 128) /\ c \in Nat
  BY <1>1, <1>2, <1>3, SMT
<1>5. c \div 64 = l - 192 /\ c % 64 = b - 128 /\ c \div 1 = c
  BY <1>2, <1>3, <1>4, SMT
<1>6. c \in Nat /\ 128 <= c /\ c < 2048
  BY <1>2, <1>3, <1>4, SMT
<1>7. Encode(c) = <<192 + c \div 64, 128 + ((c \div 1) % 64)>>
  BY <1>6, EncodeTwo, SMT
<1>8. 192 + c \div 64 = l /\ 128 + ((c \div 1) % 64) = b
  BY <1>2, <1>3, <1>5, SMT
<1>9. IsScalar(c)
  <2>1. c \in Nat /\ c <= MaxCodePoint /\ c < FirstSurrogate
    BY <1>6, Limits, SMT
  <2> QED BY <2>1, Scalars, SMT
<1> QED BY <1>7, <1>8, <1>9, SMT DEF l, b, c

(* ... three ... *)
LEMMA ThreeDecode ==
  ASSUME NEW s, NEW at, s[at + 1] \in Leads[3], Continues(s[at + 2]), Continues(s[at + 3]),
         SecondFits(s[at + 1], s[at + 2])
  PROVE  /\ IsScalar(Payload(s, at, 3))
         /\ Encode(Payload(s, at, 3)) = <<s[at + 1], s[at + 2], s[at + 3]>>
<1> DEFINE l == s[at + 1]  b == s[at + 2]  d == s[at + 3]  c == Payload(s, at, 3)
           q == 64 * (l - 224) + (b - 128)  r == 64 * (b - 128) + (d - 128)
<1>1. c = (l % 16) * 4096 + (b % 64) * 64 + (d % 64)
  BY Payloads, SMT
<1> HIDE DEF l, b, d, c
<1>2. l \in Nat /\ 224 <= l /\ l <= 239
  <2>1. l \in Leads[3]
    BY DEF l
  <2> QED BY <2>1, LeadThree
<1>3. b \in Nat /\ 128 <= b /\ b <= 191 /\ d \in Nat /\ 128 <= d /\ d <= 191
  BY Bytes, Zenon DEF b, d
<1>4. SecondFits(l, b)
  BY DEF l, b
<1>5. c = (l - 224) * 4096 + (b - 128) * 64 + (d - 128) /\ c \in Nat
  BY <1>1, <1>2, <1>3, SMT
<1>6. /\ q \in Nat /\ q = 64 * (l - 224) + (b - 128) /\ r \in Nat /\ r < 4096
      /\ c = 64 * q + (d - 128) /\ c = 4096 * (l - 224) + r
  BY <1>2, <1>3, <1>5, SMT
<1> HIDE DEF q, r
<1>7. q % 64 = b - 128 /\ c \div 64 = q /\ c % 64 = d - 128
  BY <1>2, <1>3, <1>5, <1>6, Quotient
<1>8. c \div 4096 = l - 224 /\ c \div 1 = c
  BY <1>2, <1>3, <1>5, <1>6, Quotient
<1>9. c \in Nat /\ 2048 <= c /\ c < 65536
  BY <1>2, <1>3, <1>4, <1>5, SMT DEF SecondFits
<1>10. Encode(c) = <<224 + c \div 4096, 128 + ((c \div 64) % 64), 128 + ((c \div 1) % 64)>>
  BY <1>9, EncodeThree, SMT
<1>11. 224 + c \div 4096 = l /\ 128 + ((c \div 64) % 64) = b /\ 128 + ((c \div 1) % 64) = d
  BY <1>2, <1>3, <1>7, <1>8, SMT
<1>12. IsScalar(c)
  <2>1. c < FirstSurrogate \/ c > LastSurrogate
    BY <1>2, <1>3, <1>4, <1>5, SMT DEF SecondFits, FirstSurrogate, LastSurrogate
  <2>2. c \in Nat /\ c <= MaxCodePoint
    BY <1>9, Limits, SMT
  <2> QED BY <2>1, <2>2, Scalars, SMT
<1> QED BY <1>10, <1>11, <1>12, SMT DEF l, b, d, c

(* ... and four. *)
LEMMA FourDecode ==
  ASSUME NEW s, NEW at, s[at + 1] \in Leads[4], Continues(s[at + 2]), Continues(s[at + 3]),
         Continues(s[at + 4]), SecondFits(s[at + 1], s[at + 2])
  PROVE  /\ IsScalar(Payload(s, at, 4))
         /\ Encode(Payload(s, at, 4)) = <<s[at + 1], s[at + 2], s[at + 3], s[at + 4]>>
<1> DEFINE l == s[at + 1]  b == s[at + 2]  d == s[at + 3]  e == s[at + 4]  c == Payload(s, at, 4)
           p == 64 * (l - 240) + (b - 128)
           q == 64 * p + (d - 128)
           r == 4096 * (b - 128) + 64 * (d - 128) + (e - 128)
           t == 64 * (d - 128) + (e - 128)
<1>1. c = (l % 8) * 262144 + (b % 64) * 4096 + (d % 64) * 64 + (e % 64)
  BY Payloads, SMT
<1> HIDE DEF l, b, d, e, c
<1>2. l \in Nat /\ 240 <= l /\ l <= 244
  <2>1. l \in Leads[4]
    BY DEF l
  <2> QED BY <2>1, LeadFour
<1>3. /\ b \in Nat /\ 128 <= b /\ b <= 191 /\ d \in Nat /\ 128 <= d /\ d <= 191
      /\ e \in Nat /\ 128 <= e /\ e <= 191
  BY Bytes, Zenon DEF b, d, e
<1>4. SecondFits(l, b)
  BY DEF l, b
<1>5. c = (l - 240) * 262144 + (b - 128) * 4096 + (d - 128) * 64 + (e - 128) /\ c \in Nat
  BY <1>1, <1>2, <1>3, SMT
<1>6. /\ p \in Nat /\ p = 64 * (l - 240) + (b - 128)
      /\ q \in Nat /\ q = 64 * p + (d - 128) /\ c = 64 * q + (e - 128)
      /\ r \in Nat /\ r < 262144 /\ c = 262144 * (l - 240) + r
      /\ t \in Nat /\ t < 4096 /\ c = 4096 * p + t
  BY <1>2, <1>3, <1>5, SMT
<1> HIDE DEF p, q, r, t
<1>7. p % 64 = b - 128 /\ q % 64 = d - 128
  BY <1>2, <1>3, <1>6, Quotient
<1>8. c \div 64 = q /\ c % 64 = e - 128 /\ c \div 1 = c
  BY <1>3, <1>5, <1>6, Quotient
<1>9. c \div 4096 = p
  BY <1>5, <1>6, Quotient
<1>10. c \div 262144 = l - 240
  <2>1. l - 240 \in Nat /\ r \in Nat /\ r < 262144 /\ c = 262144 * (l - 240) + r
    BY <1>2, <1>6, SMT
  <2> QED BY <1>5, <2>1, Quotient, SMT
<1>11. c \in Nat /\ 65536 <= c
  BY <1>2, <1>3, <1>4, <1>5, SMT DEF SecondFits
<1>12. Encode(c) = <<240 + c \div 262144, 128 + ((c \div 4096) % 64),
                     128 + ((c \div 64) % 64), 128 + ((c \div 1) % 64)>>
  BY <1>11, EncodeFour, SMT
<1>13. /\ 240 + c \div 262144 = l /\ 128 + ((c \div 4096) % 64) = b
       /\ 128 + ((c \div 64) % 64) = d /\ 128 + ((c \div 1) % 64) = e
  BY <1>2, <1>3, <1>7, <1>8, <1>9, <1>10, SMT
<1>14. IsScalar(c)
  <2>1. c <= MaxCodePoint
    BY <1>2, <1>3, <1>4, <1>5, SMT DEF SecondFits, MaxCodePoint
  <2>2. c > LastSurrogate
    BY <1>11, Limits, SMT
  <2> QED BY <1>11, <2>1, <2>2, Scalars, SMT
<1> QED BY <1>12, <1>13, <1>14, SMT DEF l, b, d, e, c

(* A formed character is the encoding of its payload, a scalar value.      *)
LEMMA FormedIsWellFormed ==
  ASSUME NEW s \in Seq(Byte), NEW at \in Nat, Len(s) \in Nat, NEW n \in 1 .. 4, Formed(s, at, n)
  PROVE  WellFormed(s, at, n)
<1>0. n = 1 \/ n = 2 \/ n = 3 \/ n = 4
  OBVIOUS
<1>1. CASE n = 1
  <2>1. at + 1 <= Len(s) /\ s[at + 1] \in Leads[1]
    BY <1>1, FormedBytes, Zenon
  <2>2. SubSeq(s, at + 1, at + 1) = <<s[at + 1]>>
    BY <2>1, Windows, Zenon
  <2>3. /\ IsScalar(Payload(s, at, 1))
        /\ Encode(Payload(s, at, 1)) = <<s[at + 1]>>
    BY <2>1, OneDecodes, Zenon
  <2> QED BY <1>1, <2>1, <2>2, <2>3, Zenon DEF WellFormed
<1>2. CASE n = 2
  <2>1. at + 2 <= Len(s) /\ s[at + 1] \in Leads[2] /\ Continues(s[at + 2])
    BY <1>2, FormedBytes, Zenon
  <2>2. SubSeq(s, at + 1, at + 2) = <<s[at + 1], s[at + 2]>>
    BY <2>1, Windows, Zenon
  <2>3. /\ IsScalar(Payload(s, at, 2))
        /\ Encode(Payload(s, at, 2)) = <<s[at + 1], s[at + 2]>>
    BY <2>1, TwoDecode, Zenon
  <2> QED BY <1>2, <2>1, <2>2, <2>3, Zenon DEF WellFormed
<1>3. CASE n = 3
  <2>1. /\ at + 3 <= Len(s) /\ s[at + 1] \in Leads[3] /\ Continues(s[at + 2])
        /\ Continues(s[at + 3]) /\ SecondFits(s[at + 1], s[at + 2])
    BY <1>3, FormedBytes, Zenon
  <2>2. SubSeq(s, at + 1, at + 3) = <<s[at + 1], s[at + 2], s[at + 3]>>
    BY <2>1, Windows, Zenon
  <2>3. /\ IsScalar(Payload(s, at, 3))
        /\ Encode(Payload(s, at, 3)) = <<s[at + 1], s[at + 2], s[at + 3]>>
    BY <2>1, ThreeDecode, Zenon
  <2> QED BY <1>3, <2>1, <2>2, <2>3, Zenon DEF WellFormed
<1>4. CASE n = 4
  <2>1. /\ at + 4 <= Len(s) /\ s[at + 1] \in Leads[4] /\ Continues(s[at + 2])
        /\ Continues(s[at + 3]) /\ Continues(s[at + 4]) /\ SecondFits(s[at + 1], s[at + 2])
    BY <1>4, FormedBytes, Zenon
  <2>2. SubSeq(s, at + 1, at + 4) = <<s[at + 1], s[at + 2], s[at + 3], s[at + 4]>>
    BY <2>1, Windows, Zenon
  <2>3. /\ IsScalar(Payload(s, at, 4))
        /\ Encode(Payload(s, at, 4)) = <<s[at + 1], s[at + 2], s[at + 3], s[at + 4]>>
    BY <2>1, FourDecode, Zenon
  <2> QED BY <1>4, <2>1, <2>2, <2>3, Zenon DEF WellFormed
<1> QED BY <1>0, <1>1, <1>2, <1>3, <1>4

(* And the encoding of a scalar value is formed: the decoder accepts it.   *)
LEMMA WellFormedIsFormed ==
  ASSUME NEW s \in Seq(Byte), NEW at \in Nat, Len(s) \in Nat, NEW n \in 1 .. 4, WellFormed(s, at, n)
  PROVE  Formed(s, at, n)
<1> DEFINE l == s[at + 1]  b == s[at + 2]  d == s[at + 3]  e == s[at + 4]
           c == Payload(s, at, n)
<1>1. at + n <= Len(s) /\ IsScalar(c) /\ Encode(c) = SubSeq(s, at + 1, at + n)
  BY DEF WellFormed
<1>2. c \in Nat /\ c <= MaxCodePoint /\ (c < FirstSurrogate \/ c > LastSurrogate)
  BY <1>1, Scalars
<1>3. /\ l \in Nat /\ (n = 1 => Encode(c) = <<l>>)
      /\ n = 2 => Encode(c) = <<l, b>>
      /\ n = 3 => Encode(c) = <<l, b, d>>
      /\ n = 4 => Encode(c) = <<l, b, d, e>>
      /\ n = 1 \/ n = 2 \/ n = 3 \/ n = 4
  <2>1. n = 1 \/ n = 2 \/ n = 3 \/ n = 4
    OBVIOUS
  <2>2. l \in Nat
    <3>1. at + 1 <= Len(s)
      BY <1>1
    <3> QED BY <3>1, ByteAt
  <2> HIDE DEF c
  <2>3. CASE n = 1
    BY <1>1, <2>2, <2>3, Windows, Zenon
  <2>4. CASE n = 2
    BY <1>1, <2>2, <2>4, Windows, Zenon
  <2>5. CASE n = 3
    BY <1>1, <2>2, <2>5, Windows, Zenon
  <2>6. CASE n = 4
    BY <1>1, <2>2, <2>6, Windows, Zenon
  <2> QED BY <2>1, <2>3, <2>4, <2>5, <2>6
<1> HIDE DEF l, b, d, e, c
<1>4. CASE c < 128
  <2>1. Encode(c) = <<c>>
    BY <1>2, <1>4, EncodeOne
  <2>2. n = 1 /\ l = c
    BY <1>3, <2>1, SMT
  <2>3. 0 <= l /\ l <= 127
    BY <1>2, <1>4, <2>2
  <2>4. l \in Leads[1]
    BY <1>3, <2>3, LeadOne
  <2> QED BY <1>1, <2>2, <2>4, FormedBytes, Zenon DEF l
<1>5. CASE 128 <= c /\ c < 2048
  <2> DEFINE x == 192 + c \div 64  y == 128 + ((c \div 1) % 64)
  <2>1. Encode(c) = <<x, y>>
    BY <1>2, <1>5, EncodeTwo, SMT
  <2>2. x \in Nat /\ 194 <= x /\ x <= 223 /\ y \in Nat /\ 128 <= y /\ y <= 191
    BY <1>2, <1>5, TwoForth, SMT
  <2> HIDE DEF x, y
  <2>3. n = 2 /\ l = x /\ b = y
    BY <1>3, <2>1, SMT
  <2>4. l \in Leads[2] /\ Continues(b)
    BY <2>2, <2>3, LeadTwo, Bytes
  <2> QED BY <1>1, <2>3, <2>4, FormedBytes, Zenon DEF l, b
<1>6. CASE 2048 <= c /\ c < 65536
  <2> DEFINE x == 224 + c \div 4096  y == 128 + ((c \div 64) % 64)  z == 128 + ((c \div 1) % 64)
  <2>1. Encode(c) = <<x, y, z>>
    BY <1>2, <1>6, EncodeThree, SMT
  <2>2. /\ x \in Nat /\ 224 <= x /\ x <= 239 /\ y \in Nat /\ 128 <= y /\ y <= 191
        /\ z \in Nat /\ 128 <= z /\ z <= 191 /\ SecondFits(x, y)
    BY <1>2, <1>6, ThreeForth, SMT
  <2> HIDE DEF x, y, z
  <2>3. n = 3 /\ l = x /\ b = y /\ d = z
    BY <1>3, <2>1, SMT
  <2>4. l \in Leads[3] /\ Continues(b) /\ Continues(d) /\ SecondFits(l, b)
    BY <2>2, <2>3, LeadThree, Bytes
  <2> QED BY <1>1, <2>3, <2>4, FormedBytes, Zenon DEF l, b, d
<1>7. CASE 65536 <= c
  <2> DEFINE w == 240 + c \div 262144  x == 128 + ((c \div 4096) % 64)
             y == 128 + ((c \div 64) % 64)  z == 128 + ((c \div 1) % 64)
  <2>1. Encode(c) = <<w, x, y, z>>
    BY <1>2, <1>7, EncodeFour, SMT
  <2>2. /\ w \in Nat /\ 240 <= w /\ w <= 244 /\ x \in Nat /\ 128 <= x /\ x <= 191
        /\ y \in Nat /\ 128 <= y /\ y <= 191 /\ z \in Nat /\ 128 <= z /\ z <= 191
        /\ SecondFits(w, x)
    BY <1>2, <1>7, FourForth, SMT
  <2> HIDE DEF w, x, y, z
  <2>3. n = 4 /\ l = w /\ b = x /\ d = y /\ e = z
    BY <1>3, <2>1, SMT
  <2>4. l \in Leads[4] /\ Continues(b) /\ Continues(d) /\ Continues(e) /\ SecondFits(l, b)
    BY <2>2, <2>3, LeadFour, Bytes
  <2> QED BY <1>1, <2>3, <2>4, FormedBytes, Zenon DEF l, b, d, e
<1> QED BY <1>2, <1>4, <1>5, <1>6, <1>7, SMT

-----------------------------------------------------------------------------
(* What tf_utf8_next returns.                                              *)

(* A byte leads characters of one size. *)
LEMMA LeadsApart ==
  ASSUME NEW m \in 1 .. 4, NEW n \in 1 .. 4, NEW l, l \in Leads[m], l \in Leads[n]
  PROVE  m = n
<1>1. \A k \in 1 .. 4 : k = 1 \/ k = 2 \/ k = 3 \/ k = 4
  OBVIOUS
<1>2. \/ m = 1 /\ l <= 127
      \/ m = 2 /\ 194 <= l /\ l <= 223
      \/ m = 3 /\ 224 <= l /\ l <= 239
      \/ m = 4 /\ 240 <= l
  BY <1>1, LeadOne, LeadTwo, LeadThree, LeadFour, SMT
<1>3. \/ n = 1 /\ l <= 127
      \/ n = 2 /\ 194 <= l /\ l <= 223
      \/ n = 3 /\ 224 <= l /\ l <= 239
      \/ n = 4 /\ 240 <= l
  BY <1>1, LeadOne, LeadTwo, LeadThree, LeadFour, SMT
<1>4. l \in Nat
  BY <1>1, LeadOne, LeadTwo, LeadThree, LeadFour, SMT
<1> QED BY <1>2, <1>3, <1>4, SMT

(* A byte that continues a character leads none. *)
LEMMA LeadStops ==
  ASSUME NEW n \in 1 .. 4, NEW l, l \in Leads[n]
  PROVE  ~Continues(l) /\ (n # 1 => l # 10)
<1>1. n = 1 \/ n = 2 \/ n = 3 \/ n = 4
  OBVIOUS
<1>2. \/ n = 1 /\ l <= 127
      \/ n = 2 /\ 194 <= l /\ l <= 223
      \/ n = 3 /\ 224 <= l /\ l <= 239
      \/ n = 4 /\ 240 <= l
  BY <1>1, LeadOne, LeadTwo, LeadThree, LeadFour, SMT
<1>3. l \in Nat
  BY <1>1, LeadOne, LeadTwo, LeadThree, LeadFour, SMT
<1> QED BY <1>2, <1>3, Bytes, SMT

(* A formed character is what is returned ... *)
LEMMA NextDecodes ==
  ASSUME NEW s \in Seq(Byte), NEW at \in Nat, NEW n \in 1 .. 4, Formed(s, at, n)
  PROVE  tf_utf8_next(s, at) = Decoded(Payload(s, at, n), n)
<1> DEFINE m == CHOOSE k \in 1 .. 4 : Formed(s, at, k)
<1>1. m \in 1 .. 4 /\ Formed(s, at, m)
  OBVIOUS
<1> HIDE DEF m
<1>2. m = n
  BY <1>1, LeadsApart DEF Formed
<1>3. \E k \in 1 .. 4 : Formed(s, at, k)
  OBVIOUS
<1>4. tf_utf8_next(s, at) = Decoded(Payload(s, at, m), m)
  BY <1>3, Zenon DEF tf_utf8_next, m
<1> QED BY <1>2, <1>4

(* ... and the error if there is none. *)
LEMMA NextFails ==
  ASSUME NEW s, NEW at, ~\E n \in 1 .. 4 : Formed(s, at, n)
  PROVE  tf_utf8_next(s, at) = Malformed
  BY Zenon DEF tf_utf8_next

(* So the decoder is exact: an n-byte character is well-formed just when it *)
(* is what is returned.                                                    *)
LEMMA NextExact ==
  ASSUME NEW s \in Seq(Byte), NEW at \in Nat, Len(s) \in Nat, NEW n \in 1 .. 4
  PROVE  LET d == tf_utf8_next(s, at) IN
         /\ WellFormed(s, at, n) <=> d.code_point # TF_DECODE_ERROR /\ d.length = n
         /\ WellFormed(s, at, n) => Formed(s, at, n) /\ d = Decoded(Payload(s, at, n), n)
         /\ d = Malformed \/ \E k \in 1 .. 4 : d = Decoded(Payload(s, at, k), k) /\ WellFormed(s, at, k)
<1> DEFINE d == tf_utf8_next(s, at)
<1>1. ASSUME NEW k \in 1 .. 4
      PROVE  Formed(s, at, k) <=> WellFormed(s, at, k)
  BY FormedIsWellFormed, WellFormedIsFormed, Zenon
<1>2. ASSUME NEW k \in 1 .. 4, WellFormed(s, at, k)
      PROVE  d = Decoded(Payload(s, at, k), k) /\ d.code_point # TF_DECODE_ERROR /\ d.length = k
  <2>1. d = Decoded(Payload(s, at, k), k)
    BY <1>1, <1>2, NextDecodes, Zenon
  <2>2. Payload(s, at, k) \in Nat
    BY <1>2, Scalars DEF WellFormed
  <2> HIDE DEF d
  <2> QED BY <2>1, <2>2, SMT DEF Decoded, TF_DECODE_ERROR
<1>3. CASE \E k \in 1 .. 4 : WellFormed(s, at, k)
  <2>1. PICK k \in 1 .. 4 : WellFormed(s, at, k)
    BY <1>3
  <2>2. d = Decoded(Payload(s, at, k), k) /\ d.code_point # TF_DECODE_ERROR /\ d.length = k
    BY <1>2, <2>1, Zenon
  <2> HIDE DEF d
  <2> QED BY <1>1, <1>2, <2>1, <2>2, Zenon DEF d
<1>4. CASE ~\E k \in 1 .. 4 : WellFormed(s, at, k)
  <2>1. d = Malformed
    BY <1>1, <1>4, NextFails, Zenon
  <2>2. d.code_point = TF_DECODE_ERROR
    BY <2>1, SMT DEF Malformed
  <2> HIDE DEF d
  <2> QED BY <1>4, <2>1, <2>2, Zenon DEF d
<1> QED BY <1>3, <1>4

(* One character ahead of `at`: its bytes are in the buffer, only the first *)
(* starts one, and a newline is a byte of its own.                         *)
LEMMA NextCharacter ==
  ASSUME NEW s \in Seq(Byte), NEW at \in Nat, Len(s) \in Nat, at < Len(s)
  PROVE  LET d == tf_utf8_next(s, at) IN
         /\ d = Decoded(d.code_point, d.length)
         /\ d.length \in 1 .. 4 /\ at + d.length <= Len(s)
         /\ d.code_point \in -1 .. MaxCodePoint
         /\ \A k \in 2 .. d.length : Continues(s[at + k])
         /\ d.code_point = 10 <=> s[at + 1] = 10
         /\ d.code_point = 10 => d.length = 1
<1> DEFINE d == tf_utf8_next(s, at)
<1>1. CASE d = Malformed /\ ~\E k \in 1 .. 4 : Formed(s, at, k)
  <2>1. s[at + 1] # 10
    <3>1. ASSUME s[at + 1] = 10 PROVE s[at + 1] \in Leads[1]
      BY <3>1, LeadOne, SMT
    <3>2. s[at + 1] \in Leads[1] => Formed(s, at, 1)
      BY FormedBytes, SMT
    <3> QED BY <1>1, <3>1, <3>2
  <2> HIDE DEF d
  <2>2. d = Decoded(d.code_point, d.length) /\ d.code_point = -1 /\ d.length = 1
    BY <1>1, SMT DEF Malformed, Decoded, TF_DECODE_ERROR
  <2>3. -1 \in -1 .. MaxCodePoint /\ at + 1 <= Len(s) /\ \A k \in 2 .. 1 : FALSE
    BY Limits, SMT
  <2>4. d.length \in 1 .. 4 /\ at + d.length <= Len(s) /\ d.code_point \in -1 .. MaxCodePoint
        /\ d.code_point # 10 /\ \A k \in 2 .. d.length : Continues(s[at + k])
    BY <2>2, <2>3, SMT
  <2> QED BY <2>1, <2>2, <2>4, Zenon DEF d
<1>2. CASE \E k \in 1 .. 4 : Formed(s, at, k)
  <2>1. PICK n \in 1 .. 4 : Formed(s, at, n)
    BY <1>2
  <2> DEFINE c == Payload(s, at, n)
  <2>2. d = Decoded(c, n)
    BY <2>1, NextDecodes
  <2>3. c \in Nat /\ c <= MaxCodePoint /\ at + n <= Len(s)
    <3>1. WellFormed(s, at, n)
      BY <2>1, FormedIsWellFormed
    <3> QED BY <3>1, Scalars, Zenon DEF WellFormed
  <2>4. \A k \in 2 .. n : Continues(s[at + k])
    BY <2>1 DEF Formed, Available
  <2>5. n = 1 => c = s[at + 1]
    BY Payloads, SMT
  <2>6. n # 1 => s[at + 1] # 10
    BY <2>1, LeadStops, Zenon DEF Formed
  <2>7. n # 1 => c # 10
    <3> SUFFICES ASSUME n # 1, c = 10 PROVE FALSE
      OBVIOUS
    <3>1. WellFormed(s, at, n)
      BY <2>1, FormedIsWellFormed
    <3>2. Encode(10) = SubSeq(s, at + 1, at + n)
      BY <3>1, Zenon DEF WellFormed
    <3>3. Encode(10) = <<10>>
      BY EncodeOne, SMT
    <3>4. Len(SubSeq(s, at + 1, at + n)) = n
      BY <2>3, WindowLen
    <3>5. Len(<<10>>) = 1
      OBVIOUS
    <3> QED BY <3>2, <3>3, <3>4, <3>5, Zenon
  <2> HIDE DEF d, c
  <2>8. d = Decoded(d.code_point, d.length) /\ d.code_point = c /\ d.length = n
    BY <2>2, SMT DEF Decoded
  <2>9. c \in -1 .. MaxCodePoint
    BY <2>3, Limits, SMT
  <2> QED BY <2>3, <2>4, <2>5, <2>6, <2>7, <2>8, <2>9, Zenon DEF d
<1> QED BY <1>1, <1>2, NextFails, Zenon

(* The code point returned has the size returned. *)
LEMMA NextSize ==
  ASSUME NEW s \in Seq(Byte), NEW at \in Nat, Len(s) \in Nat,
         tf_utf8_next(s, at).code_point # TF_DECODE_ERROR
  PROVE  Len(Encode(tf_utf8_next(s, at).code_point)) = tf_utf8_next(s, at).length
<1> DEFINE d == tf_utf8_next(s, at)
<1>1. 1 \in 1 .. 4
  OBVIOUS
<1>2. d # Malformed
  BY SMT DEF Malformed
<1>3. PICK k \in 1 .. 4 : d = Decoded(Payload(s, at, k), k) /\ WellFormed(s, at, k)
  BY <1>1, <1>2, NextExact, Zenon
<1> HIDE DEF d
<1>4. Payload(s, at, k) = d.code_point /\ d.length = k
  BY <1>3, SMT DEF Decoded
<1>5. Encode(d.code_point) = SubSeq(s, at + 1, at + k) /\ at + k <= Len(s)
  BY <1>3, <1>4, Zenon DEF WellFormed
<1>6. Len(Encode(d.code_point)) = k
  BY <1>5, WindowLen
<1> QED BY <1>4, <1>6 DEF d

(* The byte order mark has three bytes. *)
LEMMA MarkIsThree ==
  ASSUME NEW s \in Seq(Byte), NEW at \in Nat, Len(s) \in Nat, tf_utf8_next(s, at).code_point = 65279
  PROVE  tf_utf8_next(s, at).length = 3
<1> DEFINE c == tf_utf8_next(s, at).code_point
<1>1. c = 65279 /\ c # TF_DECODE_ERROR
  BY SMT DEF TF_DECODE_ERROR
<1>2. Len(Encode(c)) = tf_utf8_next(s, at).length
  BY <1>1, NextSize, SMT
<1> HIDE DEF c
<1>3. Encode(c) = <<224 + c \div 4096, 128 + ((c \div 64) % 64), 128 + ((c \div 1) % 64)>>
  BY <1>1, EncodeThree, SMT
<1>4. Len(Encode(c)) = 3
  BY <1>3, SMT
<1> QED BY <1>2, <1>4, SMT

(* A place between characters is followed by one, behind the next.         *)
LEMMA NextBoundary ==
  ASSUME NEW s \in Seq(Byte), NEW at \in Nat, Len(s) \in Nat, at < Len(s), Boundary(s, at)
  PROVE  Boundary(s, at + tf_utf8_next(s, at).length)
<1> DEFINE d == tf_utf8_next(s, at)  past == at + d.length
<1>1. d.length \in 1 .. 4 /\ \A k \in 2 .. d.length : Continues(s[at + k])
  BY NextCharacter, Zenon
<1> SUFFICES ASSUME NEW n \in 2 .. 4, NEW back \in 1 .. n - 1, past - back >= 0,
                    WellFormed(s, past - back, n)
             PROVE  FALSE
  BY Zenon DEF Boundary
<1> HIDE DEF d
<1> DEFINE q == past - back
<1>2. q \in Nat /\ n \in 1 .. 4 /\ n # 1 /\ q < past /\ past < q + n
  BY <1>1, SMT
<1>3. Formed(s, q, n)
  BY <1>2, WellFormedIsFormed, Zenon
<1>4. ~Continues(s[q + 1])
  BY <1>2, <1>3, LeadStops, Zenon DEF Formed
<1>5. WellFormed(s, q, n)
  OBVIOUS
<1> HIDE DEF q
<1>6. CASE q < at
  <2>1. n \in 2 .. 4 /\ at - q \in 1 .. n - 1 /\ at - (at - q) = q /\ q >= 0
    BY <1>1, <1>2, <1>6, SMT
  <2> QED BY <1>5, <2>1 DEF Boundary
<1>7. CASE q = at
  <2>1. d.length = n
    BY <1>2, <1>5, <1>7, NextExact, Zenon DEF d
  <2> QED BY <1>1, <1>2, <1>7, <2>1, SMT
<1>8. CASE q > at
  <2>1. (q + 1) - at \in 2 .. d.length /\ at + ((q + 1) - at) = q + 1
    BY <1>1, <1>2, <1>8, SMT
  <2> QED BY <1>1, <1>4, <2>1
<1> QED BY <1>2, <1>6, <1>7, <1>8, SMT

(* Nothing starts before the buffer does. *)
LEMMA StartBoundary == ASSUME NEW s PROVE Boundary(s, 0)
  BY SMT DEF Boundary

-----------------------------------------------------------------------------
(* Any buffer of bytes decodes to what it encodes. *)
LEMMA BufferDecodes == buffer \in Seq(Byte) => DecodesExactly
<1> SUFFICES ASSUME buffer \in Seq(Byte), buffer # <<>> PROVE DecodesExactly
  BY Zenon DEF DecodesExactly
<1> DEFINE d == tf_utf8_next(buffer, 0)
           lengths == {n \in 1 .. 4 : WellFormed(buffer, 0, n)}
<1>1. 0 \in Nat /\ Len(buffer) \in Nat /\ 1 \in 1 .. 4
  BY LenProperties
<1>2. ASSUME NEW n \in 1 .. 4
      PROVE  /\ WellFormed(buffer, 0, n) <=> d.code_point # TF_DECODE_ERROR /\ d.length = n
             /\ WellFormed(buffer, 0, n) => d = Decoded(Payload(buffer, 0, n), n)
  BY <1>1, NextExact, Zenon
<1>3. d = Malformed \/ \E n \in 1 .. 4 : WellFormed(buffer, 0, n)
  BY <1>1, NextExact, Zenon
<1>4. CASE d.code_point = TF_DECODE_ERROR
  <2>1. lengths = {}
    BY <1>2, <1>4, Zenon
  <2>2. d = Malformed
    BY <1>2, <1>3, <1>4, Zenon
  <2>3. d.length = 1
    BY <2>2, SMT DEF Malformed
  <2> QED BY <1>4, <2>1, <2>3, Zenon DEF DecodesExactly
<1>5. CASE d.code_point # TF_DECODE_ERROR
  <2>1. d # Malformed
    BY <1>5, SMT DEF Malformed
  <2>2. PICK n \in 1 .. 4 : WellFormed(buffer, 0, n)
    BY <1>3, <2>1, Zenon
  <2>3. d.length = n /\ d = Decoded(Payload(buffer, 0, n), n)
    BY <1>2, <2>2, Zenon
  <2> HIDE DEF d
  <2>4. d.code_point = Payload(buffer, 0, n)
    BY <2>3, SMT DEF Decoded
  <2>5. 0 + 1 = 1 /\ 0 + n = n
    BY SMT
  <2>6. Encode(d.code_point) = SubSeq(buffer, 1, d.length)
    BY <2>2, <2>3, <2>4, <2>5, Zenon DEF WellFormed
  <2>7. lengths = {d.length}
    BY <1>2, <1>5, <2>2, <2>3, Zenon DEF d
  <2> QED BY <1>5, <2>6, <2>7, Zenon DEF DecodesExactly, d
<1> QED BY <1>4, <1>5

(* "To the same rules as ICU's U8_NEXT", for every buffer over any set of   *)
(* bytes and of any length: tf_utf8_next returns the code point whose      *)
(* encoding starts the buffer, and the error just when there is none.      *)
THEOREM DecoderIsExact == BufferSpec => []DecodesExactly
<1>1. BufferInit => buffer \in Seq(Byte)
  BY DEF BufferInit
<1>2. buffer \in Seq(Byte) /\ [BufferNext]_buffer => (buffer \in Seq(Byte))'
  BY EdgeAssumption, AppendProperties DEF BufferNext, BufferGrows
<1>3. buffer \in Seq(Byte) => DecodesExactly
  BY BufferDecodes
<1> QED BY <1>1, <1>2, <1>3, PTL DEF BufferSpec
=============================================================================
