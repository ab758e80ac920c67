---------------------------- MODULE PartsProofs ----------------------------
(***************************************************************************)
(* Theorems about the parts that MCParts runs: the decoder of              *)
(* src/osbinary.rs, the page reclaim at start-up, the heapsort and the     *)
(* maps, what the two GPU backends hold between ticks and show, and the    *)
(* arguments read of a process.                                            *)
(***************************************************************************)
EXTENDS OsBinary, Agx, Rm, Reclaim, Args, TLAPS, WellFoundedInduction, FiniteSetTheorems

----------------------------------------------------------------------------
(* The decoder.  A reference resolves to the object the kernel numbered    *)
(* so, for every length of the checkpoint table, every blob and every      *)
(* lookup: the table covers the objects seen so far (Covers) through each  *)
(* doubling of its stride, the items of a blob lie end to end (Tiled), and *)
(* a scan is always between the object it has passed and the one it is to  *)
(* find (ScanOK).                                                          *)


Pos == Nat \ {0}

Table == [buf : Seq(Nat), cap : Pos, stride : Pos]

(* CkptsExact, of any table and any objects.                               *)
Covers(c, objs) ==
  /\ Len(c.buf) <= c.cap
  /\ \A k \in 1 .. Len(c.buf) :
       /\ (k - 1) * c.stride < Len(objs)
       /\ c.buf[k] = objs[(k - 1) * c.stride + 1]
  /\ Len(objs) <= Len(c.buf) * c.stride

OTypes ==
  /\ ckpts \in Table
  /\ objsArray \in Seq(Nat) /\ count = Len(objsArray)
  /\ cursor \in Nat
  /\ scan \in [idx : Nat, offset : Nat, i : Nat]

(* Items lie end to end, and those that are no references are the objects, *)
(* in order.                                                               *)
Follow ==
  \A o \in DOMAIN blob :
    /\ o \in Nat /\ o < cursor /\ scalar_step(blob[o]) \in Pos
    /\ o + scalar_step(blob[o]) \in DOMAIN blob \cup {cursor}
    /\ \A q \in DOMAIN blob : q <= o \/ o + scalar_step(blob[o]) <= q

Numbered ==
  /\ \A n \in 1 .. Len(objsArray) : objsArray[n] \in DOMAIN blob /\ ~IsRef(blob[objsArray[n]])
  /\ \A o \in DOMAIN blob : ~IsRef(blob[o]) => \E n \in 1 .. Len(objsArray) : objsArray[n] = o
  /\ \A m, n \in 1 .. Len(objsArray) : m < n => objsArray[m] < objsArray[n]

Tiled == Follow /\ Numbered

ScanOK ==
  pc \in {"seek", "found"} =>
    /\ scan.idx < Len(objsArray) /\ scan.i <= scan.idx
    /\ scan.offset \in DOMAIN blob
    /\ scan.offset <= objsArray[scan.i + 1]
    /\ scan.i > 0 => objsArray[scan.i] < scan.offset
    /\ pc = "found" => scan.offset = objsArray[scan.idx + 1]

OInv == OTypes /\ Covers(ckpts, objsArray) /\ Tiled /\ ScanOK

----------------------------------------------------------------------------
(* Arithmetic                                                              *)

(* The one multiple of s that n strides reach but n - 1 do not.            *)
LEMMA LastMultiple ==
  ASSUME NEW s \in Pos, NEW n \in Nat, NEW c \in Nat,
         c % s = 0, c <= n * s, n > 0 => (n - 1) * s < c
  PROVE  c = n * s
<1> DEFINE q == c \div s
<1>1. q \in Nat /\ c = q * s  BY DEF Pos
<1>2. q <= n
  <2>1. SUFFICES ASSUME q > n PROVE FALSE  BY <1>1
  <2>2. q * s >= (n + 1) * s  BY <1>1, <2>1 DEF Pos
  <2>3. (n + 1) * s = n * s + s  BY DEF Pos
  <2> QED  BY <1>1, <2>2, <2>3 DEF Pos
<1>3. q >= n
  <2>1. SUFFICES ASSUME q < n PROVE FALSE  BY <1>1
  <2>2. (n - 1) * s >= q * s  BY <1>1, <2>1 DEF Pos
  <2> QED  BY <1>1, <2>1, <2>2 DEF Pos
<1> QED  BY <1>1, <1>2, <1>3

LEMMA Multiple == ASSUME NEW s \in Pos, NEW m \in Nat PROVE (m * s) % s = 0
BY SMTT(60) DEF Pos

LEMMA NoMultiple ==
  ASSUME NEW s \in Pos, NEW m \in Nat
  PROVE  ((2 * m + 1) * s) % (2 * s) # 0
<1>1. (2 * m + 1) * s = m * (2 * s) + s  BY DEF Pos
<1>2. 2 * s \in Pos /\ s < 2 * s /\ s # 0  BY DEF Pos
<1>3. (m * (2 * s) + s) % (2 * s) = s
  <2>1. \A a, b \in Nat, d \in Pos : b < d => (a * d + b) % d = b  BY SMTT(60) DEF Pos
  <2> QED  BY <2>1, <1>2 DEF Pos
<1> QED  BY <1>1, <1>2, <1>3

----------------------------------------------------------------------------
(* The table                                                               *)

LEMMA PushTable ==
  ASSUME NEW c \in Table, NEW x \in Nat
  PROVE  /\ Push(c, x) \in Table
         /\ Push(c, x).cap = c.cap /\ Push(c, x).stride = c.stride
         /\ Len(Push(c, x).buf) = Len(c.buf) + 1
         /\ Push(c, x).buf[Len(c.buf) + 1] = x
         /\ \A k \in 1 .. Len(c.buf) : Push(c, x).buf[k] = c.buf[k]
BY DEF Push, Table

LEMMA HalvedTable ==
  ASSUME NEW c \in Table
  PROVE  /\ Halved(c) \in Table
         /\ Halved(c).cap = c.cap /\ Halved(c).stride = 2 * c.stride
         /\ Len(Halved(c).buf) = (Len(c.buf) + 1) \div 2
         /\ \A k \in 1 .. (Len(c.buf) + 1) \div 2 : Halved(c).buf[k] = c.buf[2 * k - 1]
<1> DEFINE n == (Len(c.buf) + 1) \div 2
           b == [k \in 1 .. n |-> c.buf[2 * k - 1]]
<1>1. c.buf \in Seq(Nat) /\ Len(c.buf) \in Nat /\ c.stride \in Pos /\ c.cap \in Pos  BY DEF Table
<1>2. \A m \in Nat : /\ (m + 1) \div 2 \in Nat
                     /\ \A k \in 1 .. (m + 1) \div 2 : 2 * k - 1 \in 1 .. m
  OBVIOUS
<1>3. n \in Nat /\ \A k \in 1 .. n : 2 * k - 1 \in 1 .. Len(c.buf)  BY <1>1, <1>2
<1>4. Halved(c) = [c EXCEPT !.stride = 2 * c.stride, !.buf = b]  BY DEF Halved
<1> HIDE DEF n
<1>5. \A k \in 1 .. n : c.buf[2 * k - 1] \in Nat  BY <1>1, <1>3
<1>6. b \in Seq(Nat) /\ Len(b) = n  BY <1>3, <1>5
<1>7. 2 * c.stride \in Pos  BY <1>1 DEF Pos
<1> HIDE DEF b
<1>8. /\ Halved(c).buf = b /\ Halved(c).cap = c.cap /\ Halved(c).stride = 2 * c.stride
      /\ Halved(c) \in Table
  BY <1>1, <1>4, <1>6, <1>7 DEF Table
<1> QED  BY <1>3, <1>6, <1>8 DEF n, b

(* What the next object needs of a table in which it is due or not.        *)
LEMMA NotDueCovers ==
  ASSUME NEW c \in Table, NEW objs \in Seq(Nat), NEW x \in Nat,
         Covers(c, objs), ~Due(c, Len(objs))
  PROVE  Covers(c, Append(objs, x))
<1> DEFINE s == c.stride
           n == Len(c.buf)
<1>1. s \in Pos /\ n \in Nat /\ Len(objs) \in Nat  BY DEF Table
<1>2. Len(objs) # n * s  BY <1>1, Multiple DEF Due
<1>3. n * s \in Nat  BY <1>1 DEF Pos
<1>4. Len(objs) + 1 <= n * s  BY <1>1, <1>2, <1>3 DEF Covers
<1>5. Len(Append(objs, x)) = Len(objs) + 1  OBVIOUS
<1>6. ASSUME NEW k \in 1 .. n
      PROVE  (k - 1) * s < Len(objs) + 1 /\ c.buf[k] = Append(objs, x)[(k - 1) * s + 1]
  <2>1. (k - 1) * s \in Nat  BY <1>1 DEF Pos
  <2>2. (k - 1) * s < Len(objs) /\ c.buf[k] = objs[(k - 1) * s + 1]  BY DEF Covers
  <2>3. (k - 1) * s + 1 \in 1 .. Len(objs)  BY <1>1, <2>1, <2>2
  <2>4. Append(objs, x)[(k - 1) * s + 1] = objs[(k - 1) * s + 1]  BY <2>3
  <2> QED  BY <1>1, <2>1, <2>2, <2>4
<1> QED  BY <1>4, <1>5, <1>6 DEF Covers

LEMMA PushCovers ==
  ASSUME NEW c \in Table, NEW objs \in Seq(Nat), NEW x \in Nat,
         Covers(c, objs), Len(c.buf) < c.cap, Due(c, Len(objs))
  PROVE  Covers(Push(c, x), Append(objs, x))
<1> DEFINE s == c.stride
           n == Len(c.buf)
           d == Push(c, x)
<1>1. s \in Pos /\ n \in Nat /\ Len(objs) \in Nat /\ c.cap \in Pos  BY DEF Table
<1>0. \A a \in Nat, t \in Pos : (a + 1) * t = a * t + t /\ (a + 1 - 1) * t = a * t  BY DEF Pos
<1>2. n > 0 => (n - 1) * s < Len(objs)  BY <1>1 DEF Covers
<1>3. Len(objs) = n * s  BY <1>1, <1>2, LastMultiple DEF Due, Covers
<1>4. d.stride = s /\ d.cap = c.cap /\ Len(d.buf) = n + 1 /\ d.buf[n + 1] = x
  BY PushTable
<1>5. Len(Append(objs, x)) = Len(objs) + 1 /\ Append(objs, x)[Len(objs) + 1] = x  OBVIOUS
<1>6. (n + 1) * s = n * s + s /\ (n + 1 - 1) * s = n * s  BY <1>0, <1>1
<1>7. ASSUME NEW k \in 1 .. n
      PROVE  (k - 1) * s < Len(objs) + 1 /\ d.buf[k] = Append(objs, x)[(k - 1) * s + 1]
  <2>1. (k - 1) * s \in Nat  BY <1>1 DEF Pos
  <2>2. (k - 1) * s < Len(objs) /\ c.buf[k] = objs[(k - 1) * s + 1]  BY DEF Covers
  <2>3. (k - 1) * s + 1 \in 1 .. Len(objs)  BY <1>1, <2>1, <2>2
  <2>4. Append(objs, x)[(k - 1) * s + 1] = objs[(k - 1) * s + 1]  BY <2>3
  <2>5. d.buf[k] = c.buf[k]  BY PushTable
  <2> QED  BY <1>1, <2>1, <2>2, <2>4, <2>5
<1>8. ASSUME NEW k \in 1 .. n + 1
      PROVE  (k - 1) * s < Len(objs) + 1 /\ d.buf[k] = Append(objs, x)[(k - 1) * s + 1]
  <2>1. CASE k \in 1 .. n  BY <1>7, <2>1
  <2>2. CASE k = n + 1
    <3>1. (k - 1) * s = Len(objs)  BY <1>3, <1>6, <2>2
    <3> QED  BY <1>1, <1>4, <1>5, <2>2, <3>1
  <2> QED
    <3>1. \A m \in Nat : k \in 1 .. m + 1 => k \in 1 .. m \/ k = m + 1  OBVIOUS
    <3> QED  BY <1>1, <2>1, <2>2, <3>1
<1>9. Len(Append(objs, x)) <= Len(d.buf) * s  BY <1>1, <1>3, <1>4, <1>5, <1>6 DEF Pos
<1>10. Len(d.buf) <= d.cap
  <2>1. n < c.cap  OBVIOUS
  <2> QED  BY <1>1, <1>4, <2>1 DEF Pos
<1>11. Covers(d, Append(objs, x))
  <2> HIDE DEF d, n, s
  <2> QED  BY <1>4, <1>5, <1>8, <1>9, <1>10 DEF Covers
<1> QED  BY <1>11
(* Halving a full table keeps every second multiple.                       *)
LEMMA HalvedCovers ==
  ASSUME NEW c \in Table, NEW objs \in Seq(Nat),
         Covers(c, objs), Len(c.buf) = c.cap, Due(c, Len(objs))
  PROVE  /\ Covers(Halved(c), objs) /\ Len(Halved(c).buf) <= c.cap
         /\ Due(Halved(c), Len(objs)) => Len(Halved(c).buf) < c.cap
<1> DEFINE s == c.stride
           n == Len(c.buf)
           d == Halved(c)
           m == (n + 1) \div 2
<1>1. s \in Pos /\ n \in Nat /\ Len(objs) \in Nat /\ c.cap \in Pos  BY DEF Table
<1>2. n > 0 => (n - 1) * s < Len(objs)  BY <1>1 DEF Covers
<1>3. Len(objs) = n * s  BY <1>1, <1>2, LastMultiple DEF Due, Covers
<1>4. d.stride = 2 * s /\ d.cap = c.cap /\ Len(d.buf) = m  BY HalvedTable
<1>5. /\ m \in Nat
      /\ n > 0 => m <= n
      /\ \A k \in 1 .. m : k \in Int /\ 2 * k - 1 \in 1 .. n
      /\ n = 2 * m \/ n = 2 * m - 1
  <2>1. \A a \in Nat : /\ (a + 1) \div 2 \in Nat
                       /\ a > 0 => (a + 1) \div 2 <= a
                       /\ \A k \in 1 .. (a + 1) \div 2 : k \in Int /\ 2 * k - 1 \in 1 .. a
                       /\ a = 2 * ((a + 1) \div 2) \/ a = 2 * ((a + 1) \div 2) - 1
    OBVIOUS
  <2> QED  BY <1>1, <2>1
<1>6. ASSUME NEW k \in 1 .. m
      PROVE  (k - 1) * (2 * s) < Len(objs) /\ d.buf[k] = objs[(k - 1) * (2 * s) + 1]
  <2>1. d.buf[k] = c.buf[2 * k - 1]  BY HalvedTable
  <2>2. (2 * k - 1 - 1) * s < Len(objs) /\ c.buf[2 * k - 1] = objs[(2 * k - 1 - 1) * s + 1]
    BY <1>5 DEF Covers
  <2>3. (2 * k - 1 - 1) * s = (k - 1) * (2 * s)
    <3>1. \A j \in Int, t \in Pos : (2 * j - 1 - 1) * t = (j - 1) * (2 * t)  BY DEF Pos
    <3> QED  BY <1>1, <1>5, <3>1
  <2> QED  BY <2>1, <2>2, <2>3
<1>7. \A a \in Nat, t \in Pos : /\ (2 * a) * t = a * (2 * t)
                               /\ (2 * a - 1) * t <= a * (2 * t)  BY DEF Pos
<1>8. Len(objs) <= m * (2 * s)
  <2> HIDE DEF m, n, s
  <2>1. CASE n = 2 * m  BY <1>1, <1>3, <1>5, <1>7, <2>1 DEF Pos
  <2>2. CASE n = 2 * m - 1  BY <1>1, <1>3, <1>5, <1>7, <2>2 DEF Pos
  <2> QED  BY <1>5, <2>1, <2>2
<1>9. Due(d, Len(objs)) => m < c.cap
  <2> SUFFICES ASSUME Due(d, Len(objs)) PROVE m < c.cap  OBVIOUS
  <2>1. (n * s) % (2 * s) = 0  BY <1>3, <1>4 DEF Due
  <2>2. n = c.cap  OBVIOUS
  <2> HIDE DEF m, n, s, d
  <2>3. CASE n = 2 * m  BY <1>1, <1>5, <2>2, <2>3 DEF Pos
  <2>4. CASE n = 2 * m - 1
    <3>1. m > 0  BY <1>1, <1>5, <2>4
    <3>2. m - 1 \in Nat /\ n = 2 * (m - 1) + 1  BY <1>5, <2>4, <3>1
    <3> QED  BY <1>1, <2>1, <3>2, NoMultiple
  <2> QED  BY <1>5, <2>3, <2>4
<1>10. n > 0 /\ m <= c.cap
  <2>1. n = c.cap  OBVIOUS
  <2> HIDE DEF n, m
  <2> QED  BY <1>1, <1>5, <2>1 DEF Pos
<1>11. Covers(d, objs)
  <2> HIDE DEF d, m, n, s
  <2> QED  BY <1>4, <1>6, <1>8, <1>10 DEF Covers
<1> QED  BY <1>4, <1>9, <1>10, <1>11

LEMMA RecordCovers ==
  ASSUME NEW c \in Table, NEW objs \in Seq(Nat), NEW x \in Nat, Covers(c, objs)
  PROVE  /\ record(c, Len(objs), x) \in Table
         /\ Covers(record(c, Len(objs), x), Append(objs, x))
<1> DEFINE d == Halved(c)
<1>1. Len(c.buf) \in Nat /\ c.cap \in Pos /\ Len(c.buf) <= c.cap  BY DEF Table, Covers
<1>2. CASE ~Due(c, Len(objs))  BY <1>2, NotDueCovers DEF record
<1>3. CASE Due(c, Len(objs)) /\ Len(c.buf) < c.cap  BY <1>3, PushTable, PushCovers DEF record
<1>4. CASE Due(c, Len(objs)) /\ ~(Len(c.buf) < c.cap)
  <2>1. Len(c.buf) = c.cap  BY <1>1, <1>4 DEF Pos
  <2>2. d \in Table /\ d.cap = c.cap  BY HalvedTable
  <2>3. Covers(d, objs) /\ (Due(d, Len(objs)) => Len(d.buf) < d.cap)
    BY <1>4, <2>1, <2>2, HalvedCovers
  <2>4. CASE Due(d, Len(objs))
    <3>1. record(c, Len(objs), x) = Push(d, x)  BY <1>4, <2>4 DEF record
    <3> HIDE DEF d
    <3> QED  BY <2>2, <2>3, <2>4, <3>1, PushTable, PushCovers
  <2>5. CASE ~Due(d, Len(objs))
    <3>1. record(c, Len(objs), x) = d  BY <1>4, <2>5 DEF record
    <3> HIDE DEF d
    <3> QED  BY <2>2, <2>3, <2>5, <3>1, NotDueCovers
  <2> QED  BY <2>4, <2>5
<1> QED  BY <1>2, <1>3, <1>4
----------------------------------------------------------------------------
(* The walk                                                                *)

LEMMA Steps ==
  ASSUME NEW tag \in Fitting
  PROVE  scalar_step(tag) \in Pos
<1>1. \A n \in Nat : Padded(n) \in Nat  BY DEF Padded
<1>2. CASE tag.ty = "number"  BY <1>2 DEF scalar_step, Pos
<1>3. CASE tag.ty = "symbol"
  <2>1. tag.operand = 2  BY <1>3 DEF Fitting, Tag
  <2>2. 4 + Padded(2) \in Pos  BY <1>1 DEF Pos
  <2> QED  BY <1>3, <2>1, <2>2 DEF scalar_step
<1>4. CASE tag.ty # "number" /\ tag.ty # "symbol"  BY <1>4 DEF scalar_step, Pos
<1> QED  BY <1>2, <1>3, <1>4

LEMMA RefStep == \A tag : IsRef(tag) => scalar_step(tag) = 4
BY DEF IsRef, scalar_step

(* A new item goes behind the others.                                      *)
LEMMA ConsumeFollows ==
  ASSUME OInv, NEW tag \in Fitting, Consume(tag)
  PROVE  Follow'
<1>1. scalar_step(tag) \in Pos  BY Steps
<1>2. cursor \in Nat /\ Follow  BY DEF OInv, OTypes, Tiled
<1>3. DOMAIN blob' = DOMAIN blob \cup {cursor} /\ cursor' = cursor + scalar_step(tag)
  BY DEF Consume, Extend
<1>4. cursor \notin DOMAIN blob  BY <1>2 DEF Follow
<1>5. blob'[cursor] = tag /\ \A o \in DOMAIN blob : blob'[o] = blob[o]
  BY <1>4 DEF Consume, Extend
<1>6. ASSUME NEW o \in DOMAIN blob
      PROVE  /\ o \in Nat /\ o < cursor' /\ scalar_step(blob'[o]) \in Pos
             /\ o + scalar_step(blob'[o]) \in DOMAIN blob' \cup {cursor'}
             /\ \A q \in DOMAIN blob' : q <= o \/ o + scalar_step(blob'[o]) <= q
  <2>1. o \in Nat /\ o < cursor /\ scalar_step(blob[o]) \in Pos
        /\ o + scalar_step(blob[o]) \in DOMAIN blob \cup {cursor}
        /\ \A q \in DOMAIN blob : q <= o \/ o + scalar_step(blob[o]) <= q  BY <1>2 DEF Follow
  <2>2. o + scalar_step(blob[o]) <= cursor  BY <1>2, <2>1 DEF Follow
  <2> QED  BY <1>1, <1>2, <1>3, <1>5, <2>1, <2>2 DEF Pos
<1>7. /\ cursor \in Nat /\ cursor < cursor' /\ scalar_step(blob'[cursor]) \in Pos
      /\ cursor + scalar_step(blob'[cursor]) = cursor'
      /\ \A q \in DOMAIN blob' : q <= cursor
  BY <1>1, <1>2, <1>3, <1>5 DEF Pos, Follow
<1> QED  BY <1>3, <1>6, <1>7 DEF Follow

LEMMA ObjectNumbered ==
  ASSUME OInv, NEW tag \in Fitting, WalkObject(tag)
  PROVE  Numbered'
<1>0. cursor \in Nat /\ Follow  BY DEF OInv, OTypes, Tiled
<1>1. Follow /\ Numbered /\ objsArray \in Seq(Nat)  BY DEF OInv, OTypes, Tiled
<1>2. cursor \notin DOMAIN blob  BY <1>0 DEF Follow
<1>3. /\ DOMAIN blob' = DOMAIN blob \cup {cursor} /\ blob'[cursor] = tag
      /\ \A o \in DOMAIN blob : blob'[o] = blob[o]
  BY <1>2 DEF WalkObject, Consume, Extend
<1>4. /\ Len(objsArray') = Len(objsArray) + 1 /\ objsArray'[Len(objsArray) + 1] = cursor
      /\ \A n \in 1 .. Len(objsArray) : objsArray'[n] = objsArray[n]
  BY <1>1 DEF WalkObject
<1>5. \A n \in 1 .. Len(objsArray') : n \in 1 .. Len(objsArray) \/ n = Len(objsArray) + 1
  BY <1>1, <1>4
<1>6. Len(objsArray) \in Nat /\ ~IsRef(tag)  BY <1>1 DEF WalkObject
<1>7. \A n \in 1 .. Len(objsArray') :
        objsArray'[n] \in DOMAIN blob' /\ ~IsRef(blob'[objsArray'[n]])
  BY <1>1, <1>3, <1>4, <1>5, <1>6 DEF Numbered
<1>8. \A o \in DOMAIN blob' : ~IsRef(blob'[o]) =>
        \E n \in 1 .. Len(objsArray') : objsArray'[n] = o
  <2>1. SUFFICES ASSUME NEW o \in DOMAIN blob', ~IsRef(blob'[o])
                 PROVE  \E n \in 1 .. Len(objsArray') : objsArray'[n] = o  OBVIOUS
  <2>2. CASE o = cursor
    <3>1. Len(objsArray) + 1 \in 1 .. Len(objsArray')  BY <1>4, <1>6
    <3> QED  BY <1>4, <2>2, <3>1
  <2>3. CASE o \in DOMAIN blob
    <3>1. PICK n \in 1 .. Len(objsArray) : objsArray[n] = o
      BY <1>1, <1>3, <2>1, <2>3 DEF Numbered
    <3>2. n \in 1 .. Len(objsArray')  BY <1>4, <1>6
    <3> QED  BY <1>4, <3>1, <3>2
  <2> QED  BY <1>3, <2>2, <2>3
<1>9. \A m, n \in 1 .. Len(objsArray') : m < n => objsArray'[m] < objsArray'[n]
  <2>1. SUFFICES ASSUME NEW m \in 1 .. Len(objsArray'), NEW n \in 1 .. Len(objsArray'), m < n
                 PROVE  objsArray'[m] < objsArray'[n]  OBVIOUS
  <2>2. m \in 1 .. Len(objsArray)  BY <1>4, <1>6, <2>1
  <2>3. CASE n \in 1 .. Len(objsArray)  BY <1>1, <1>4, <2>1, <2>2, <2>3 DEF Numbered
  <2>4. CASE n = Len(objsArray) + 1
    <3>1. objsArray[m] < cursor  BY <1>1, <2>2 DEF Numbered, Follow
    <3> QED  BY <1>4, <2>2, <2>4, <3>1
  <2> QED  BY <1>5, <2>3, <2>4
<1> QED  BY <1>7, <1>8, <1>9 DEF Numbered

LEMMA RefNumbered ==
  ASSUME OInv, NEW tag \in Fitting, WalkRef(tag)
  PROVE  Numbered'
<1>0. cursor \in Nat /\ Follow  BY DEF OInv, OTypes, Tiled
<1>1. Numbered  BY DEF OInv, Tiled
<1>2. cursor \notin DOMAIN blob  BY <1>0 DEF Follow
<1>3. /\ DOMAIN blob' = DOMAIN blob \cup {cursor} /\ blob'[cursor] = tag
      /\ \A o \in DOMAIN blob : blob'[o] = blob[o]
  BY <1>2 DEF WalkRef, Consume, Extend
<1>4. objsArray' = objsArray /\ IsRef(tag)  BY DEF WalkRef
<1> QED  BY <1>1, <1>3, <1>4 DEF Numbered
----------------------------------------------------------------------------
(* The scan                                                                *)

(* An item between two objects that is a reference, or the object itself,  *)
(* is followed by one that is still not behind the next object.            *)
LEMMA NextItem ==
  ASSUME OInv, NEW o \in DOMAIN blob, NEW n \in 1 .. Len(objsArray), o < objsArray[n]
  PROVE  /\ o + scalar_step(blob[o]) \in DOMAIN blob
         /\ o + scalar_step(blob[o]) <= objsArray[n]
         /\ o < o + scalar_step(blob[o])
<1>1. Follow /\ Numbered /\ cursor \in Nat  BY DEF OInv, OTypes, Tiled
<1>2. objsArray[n] \in DOMAIN blob  BY <1>1 DEF Numbered
<1>3. /\ o \in Nat /\ scalar_step(blob[o]) \in Pos
      /\ o + scalar_step(blob[o]) \in DOMAIN blob \cup {cursor}
      /\ objsArray[n] \in Nat /\ objsArray[n] < cursor
      /\ objsArray[n] <= o \/ o + scalar_step(blob[o]) <= objsArray[n]
  BY <1>1, <1>2 DEF Follow
<1> QED  BY <1>1, <1>3 DEF Pos

LEMMA SeekScan ==
  ASSUME OInv, NEW idx \in 0 .. count - 1, Seek(idx)
  PROVE  ScanOK' /\ scan' \in [idx : Nat, offset : Nat, i : Nat]
<1> DEFINE s == ckpts.stride
           ck == idx \div s
<1>1. s \in Pos /\ Len(ckpts.buf) \in Nat /\ ckpts.buf \in Seq(Nat)
      /\ objsArray \in Seq(Nat) /\ count = Len(objsArray)
  BY DEF OInv, OTypes, Table
<1>2. idx \in Nat /\ idx < Len(objsArray)  BY <1>1
<1>3. ck \in Nat /\ ck * s <= idx /\ idx < (ck + 1) * s
  <2>1. \A a \in Nat, t \in Pos : /\ a \div t \in Nat
                                  /\ (a \div t) * t <= a
                                  /\ a < ((a \div t) + 1) * t
    BY SMTT(60) DEF Pos
  <2> QED  BY <1>1, <1>2, <2>1
<1>4. ck * s \in Nat  BY <1>1, <1>3 DEF Pos
<1>5. ck + 1 \in 1 .. Len(ckpts.buf)
  <2>1. Len(objsArray) <= Len(ckpts.buf) * s  BY DEF OInv, Covers
  <2> HIDE DEF ck, s
  <2>2. SUFFICES ASSUME Len(ckpts.buf) <= ck PROVE FALSE  BY <1>1, <1>3
  <2>3. Len(ckpts.buf) * s <= ck * s
    <3>1. \A a, b, t \in Nat : a <= b => a * t <= b * t  OBVIOUS
    <3> QED  BY <1>1, <1>3, <2>2, <3>1 DEF Pos
  <2>4. Len(objsArray) \in Nat /\ Len(ckpts.buf) * s \in Nat  BY <1>1 DEF Pos
  <2> HIDE DEF ck, s
  <2> QED  BY <1>2, <1>3, <1>4, <2>1, <2>3, <2>4
<1>6. ckpts.buf[ck + 1] = objsArray[ck * s + 1]
  <2> DEFINE k == ck + 1
  <2>1. \A n \in 1 .. Len(ckpts.buf) : ckpts.buf[n] = objsArray[(n - 1) * s + 1]
    BY DEF OInv, Covers
  <2>2. k \in 1 .. Len(ckpts.buf) /\ k - 1 = ck
    <3> HIDE DEF ck
    <3> QED  BY <1>3, <1>5
  <2> HIDE DEF k
  <2>3. ckpts.buf[k] = objsArray[(k - 1) * s + 1]  BY <2>1, <2>2
  <2> QED  BY <2>2, <2>3 DEF k
<1>7. scan' = [idx |-> idx, offset |-> objsArray[ck * s + 1], i |-> ck * s] /\ pc' = "seek"
  BY <1>6 DEF Seek
<1>8. blob' = blob /\ objsArray' = objsArray  BY DEF Seek, walking
<1> HIDE DEF ck, s
<1>9. ck * s + 1 \in 1 .. Len(objsArray)  BY <1>1, <1>2, <1>3, <1>4
<1>10. objsArray[ck * s + 1] \in DOMAIN blob /\ objsArray[ck * s + 1] \in Nat
  BY <1>1, <1>9 DEF OInv, Tiled, Numbered
<1>11. ck * s > 0 => objsArray[ck * s] < objsArray[ck * s + 1]
  <2>1. SUFFICES ASSUME ck * s > 0 PROVE objsArray[ck * s] < objsArray[ck * s + 1]  OBVIOUS
  <2>2. ck * s \in 1 .. Len(objsArray) /\ ck * s < ck * s + 1  BY <1>1, <1>4, <1>9, <2>1
  <2> QED  BY <1>9, <2>2 DEF OInv, Tiled, Numbered
<1> QED  BY <1>2, <1>3, <1>4, <1>7, <1>8, <1>10, <1>11 DEF ScanOK

LEMMA SkipRefScan ==
  ASSUME OInv, SkipRef
  PROVE  ScanOK' /\ scan' \in [idx : Nat, offset : Nat, i : Nat]
<1>1. pc = "seek" /\ IsRef(blob[scan.offset])  BY DEF SkipRef, Here
<1>2. scan \in [idx : Nat, offset : Nat, i : Nat] /\ objsArray \in Seq(Nat)  BY DEF OInv, OTypes
<1>3. /\ scan.idx < Len(objsArray) /\ scan.i <= scan.idx /\ scan.offset \in DOMAIN blob
      /\ scan.offset <= objsArray[scan.i + 1]
      /\ scan.i > 0 => objsArray[scan.i] < scan.offset
  BY <1>1 DEF OInv, ScanOK
<1>4. scan.i + 1 \in 1 .. Len(objsArray)  BY <1>2, <1>3
<1>5. objsArray[scan.i + 1] \in Nat /\ ~IsRef(blob[objsArray[scan.i + 1]])
  BY <1>2, <1>4 DEF OInv, Tiled, Numbered
<1>6. scan.offset < objsArray[scan.i + 1]  BY <1>1, <1>2, <1>3, <1>5
<1>7. scalar_step(blob[scan.offset]) = 4  BY <1>1, RefStep
<1>8. /\ scan.offset + 4 \in DOMAIN blob
      /\ scan.offset + 4 <= objsArray[scan.i + 1]
  BY <1>3, <1>4, <1>6, <1>7, NextItem
<1>9. /\ scan'.idx = scan.idx /\ scan'.i = scan.i /\ scan'.offset = scan.offset + 4
      /\ scan' \in [idx : Nat, offset : Nat, i : Nat]
      /\ pc' = "seek" /\ blob' = blob /\ objsArray' = objsArray
  <2>1. scan' = [scan EXCEPT !.offset = scan.offset + 4]  BY DEF SkipRef
  <2>2. pc' = "seek" /\ blob' = blob /\ objsArray' = objsArray  BY <1>1 DEF SkipRef, walking
  <2>3. scan.offset + 4 \in Nat  BY <1>2
  <2> QED  BY <1>2, <2>1, <2>2, <2>3
<1>10. scan.i > 0 => objsArray[scan.i] < scan.offset + 4
  <2>1. scan.i > 0 => scan.i \in 1 .. Len(objsArray)  BY <1>2, <1>4
  <2>2. scan.i > 0 => objsArray[scan.i] \in Nat  BY <1>2, <2>1
  <2> QED  BY <1>2, <1>3, <2>2
<1> QED  BY <1>3, <1>8, <1>9, <1>10 DEF ScanOK

LEMMA AtObject ==
  ASSUME OInv, pc = "seek", ~IsRef(Here)
  PROVE  scan.offset = objsArray[scan.i + 1]
<1>1. scan \in [idx : Nat, offset : Nat, i : Nat] /\ objsArray \in Seq(Nat)  BY DEF OInv, OTypes
<1>2. /\ scan.idx < Len(objsArray) /\ scan.i <= scan.idx /\ scan.offset \in DOMAIN blob
      /\ scan.offset <= objsArray[scan.i + 1]
      /\ scan.i > 0 => objsArray[scan.i] < scan.offset
  BY DEF OInv, ScanOK
<1>3. Numbered  BY DEF OInv, Tiled
<1>4. PICK n \in 1 .. Len(objsArray) : objsArray[n] = scan.offset
  BY <1>2, <1>3 DEF Numbered, Here
<1>5. scan.i + 1 \in 1 .. Len(objsArray) /\ n \in Nat  BY <1>1, <1>2
<1>6. ~(scan.i + 1 < n)
  <2>1. SUFFICES ASSUME scan.i + 1 < n PROVE FALSE  OBVIOUS
  <2>2. objsArray[scan.i + 1] < objsArray[n]  BY <1>3, <1>5, <2>1 DEF Numbered
  <2>3. objsArray[scan.i + 1] \in Nat  BY <1>1, <1>5
  <2> QED  BY <1>1, <1>2, <1>4, <2>2, <2>3
<1>7. ~(n < scan.i + 1)
  <2>1. SUFFICES ASSUME n < scan.i + 1 PROVE FALSE  OBVIOUS
  <2>2. scan.i > 0 /\ scan.i \in 1 .. Len(objsArray) /\ n <= scan.i  BY <1>1, <1>5, <2>1
  <2>3. objsArray[n] <= objsArray[scan.i]
    <3>1. CASE n = scan.i  BY <1>1, <1>5, <3>1, <2>2
    <3>2. CASE n < scan.i  BY <1>1, <1>3, <2>2, <3>2 DEF Numbered
    <3> QED  BY <1>1, <2>2, <3>1, <3>2
  <2>4. objsArray[n] \in Nat /\ objsArray[scan.i] \in Nat  BY <1>1, <2>2
  <2> QED  BY <1>1, <1>2, <1>4, <2>2, <2>3, <2>4
<1> QED  BY <1>1, <1>4, <1>5, <1>6, <1>7

LEMMA PassScan ==
  ASSUME OInv, PassObject
  PROVE  ScanOK' /\ scan' \in [idx : Nat, offset : Nat, i : Nat]
<1>1. pc = "seek" /\ ~IsRef(Here) /\ scan.i # scan.idx  BY DEF PassObject
<1>2. scan \in [idx : Nat, offset : Nat, i : Nat] /\ objsArray \in Seq(Nat)  BY DEF OInv, OTypes
<1>3. /\ scan.idx < Len(objsArray) /\ scan.i <= scan.idx /\ scan.offset \in DOMAIN blob
  BY <1>1 DEF OInv, ScanOK
<1>4. scan.offset = objsArray[scan.i + 1]  BY <1>1, AtObject
<1>5. scan.i + 1 \in 1 .. Len(objsArray) /\ scan.i + 2 \in 1 .. Len(objsArray)
      /\ scan.i + 1 < scan.i + 2 /\ scan.i + 1 <= scan.idx
  BY <1>1, <1>2, <1>3
<1>6. objsArray[scan.i + 1] < objsArray[scan.i + 2]  BY <1>5 DEF OInv, Tiled, Numbered
<1> DEFINE o == scan.offset + scalar_step(Here)
<1>7. o \in DOMAIN blob /\ o <= objsArray[scan.i + 2] /\ scan.offset < o
  BY <1>3, <1>4, <1>5, <1>6, NextItem DEF Here
<1>8. o \in Nat  BY <1>7 DEF OInv, Tiled, Follow
<1>9. scan' = [scan EXCEPT !.offset = o, !.i = scan.i + 1]
      /\ pc' = "seek" /\ blob' = blob /\ objsArray' = objsArray
  BY <1>1 DEF PassObject, walking
<1> HIDE DEF o
<1>10. /\ scan'.idx = scan.idx /\ scan'.i = scan.i + 1 /\ scan'.offset = o
       /\ scan' \in [idx : Nat, offset : Nat, i : Nat]
  <2>1. scan.i + 1 \in Nat  BY <1>2
  <2> QED  BY <1>2, <1>8, <1>9, <2>1
<1>11. scan'.i + 1 = scan.i + 2  BY <1>2, <1>10
<1> QED  BY <1>3, <1>4, <1>5, <1>7, <1>9, <1>10, <1>11 DEF ScanOK
----------------------------------------------------------------------------
(* The invariant                                                           *)

LEMMA OInitInv == OInit("walk") => OInv
<1> SUFFICES ASSUME OInit("walk") PROVE OInv  OBVIOUS
<1>1. PICK n \in Caps : ckpts = [buf |-> <<>>, cap |-> n, stride |-> 1]  BY DEF OInit
<1>2. n \in Pos  BY OsBinaryAssumption DEF OsBinaryAssumption, Pos
<1>3. objsArray = <<>> /\ blob = <<>> /\ pc = "walk" /\ count = 0 /\ cursor = 4 /\ scan = NoScan
  BY DEF OInit
<1>4. OTypes  BY <1>1, <1>2, <1>3 DEF OTypes, Table, Pos, NoScan
<1>5. Covers(ckpts, objsArray)  BY <1>1, <1>2, <1>3 DEF Covers, Pos
<1>6. Follow  BY <1>3 DEF Follow
<1>7. Numbered  BY <1>3 DEF Numbered
<1>8. ScanOK  BY <1>3 DEF ScanOK
<1> QED  BY <1>4, <1>5, <1>6, <1>7, <1>8 DEF OInv, Tiled

LEMMA ONextInv == OInv /\ [ONext]_ovars => OInv'
<1> SUFFICES ASSUME OInv, [ONext]_ovars PROVE OInv'  OBVIOUS
<1>t. OTypes /\ objsArray \in Seq(Nat) /\ cursor \in Nat /\ count = Len(objsArray)
  BY DEF OInv, OTypes
<1>1. ASSUME NEW tag \in Fitting, WalkObject(tag) PROVE OInv'
  <2>1. scalar_step(tag) \in Pos  BY Steps
  <2>2. cursor' = cursor + scalar_step(tag) /\ objsArray' = Append(objsArray, cursor)
        /\ ckpts' = record(ckpts, count, cursor) /\ count' = count + 1
        /\ pc' = pc /\ scan' = scan /\ pc = "walk"
    BY <1>1 DEF WalkObject, Consume, Walking
  <2>3. ckpts' \in Table /\ Covers(ckpts', objsArray')
    BY <1>t, <2>2, RecordCovers DEF OInv, OTypes
  <2>4. cursor' \in Nat  BY <1>t, <2>1, <2>2 DEF Pos
  <2>5. objsArray' \in Seq(Nat) /\ count' = Len(objsArray')  BY <1>t, <2>2
  <2>6. OTypes'  BY <1>t, <2>2, <2>3, <2>4, <2>5 DEF OTypes
  <2>7. Tiled'  BY <1>1, ConsumeFollows, ObjectNumbered DEF Tiled, WalkObject
  <2>8. ScanOK'  BY <2>2 DEF ScanOK
  <2> QED  BY <2>3, <2>6, <2>7, <2>8 DEF OInv
<1>2. ASSUME NEW tag \in Fitting, WalkRef(tag) PROVE OInv'
  <2>1. scalar_step(tag) \in Pos  BY Steps
  <2>2. cursor' = cursor + scalar_step(tag) /\ objsArray' = objsArray
        /\ ckpts' = ckpts /\ count' = count /\ pc' = pc /\ scan' = scan /\ pc = "walk"
    BY <1>2 DEF WalkRef, Consume, Walking
  <2>3. cursor' \in Nat  BY <1>t, <2>1, <2>2 DEF Pos
  <2>4. OTypes'  BY <1>t, <2>2, <2>3 DEF OTypes
  <2>5. Tiled'  BY <1>2, ConsumeFollows, RefNumbered DEF Tiled, WalkRef
  <2>6. ScanOK'  BY <2>2 DEF ScanOK
  <2>7. Covers(ckpts', objsArray')  BY <2>2 DEF OInv
  <2> QED  BY <2>4, <2>5, <2>6, <2>7 DEF OInv
<1>3. ASSUME UNCHANGED walking, ScanOK', scan' \in [idx : Nat, offset : Nat, i : Nat] PROVE OInv'
  <2>1. /\ blob' = blob /\ objsArray' = objsArray /\ cursor' = cursor
        /\ count' = count /\ ckpts' = ckpts
    BY <1>3 DEF walking
  <2>2. Follow' /\ Numbered'  BY <2>1 DEF OInv, Tiled, Follow, Numbered
  <2>3. OTypes' /\ Covers(ckpts', objsArray')  BY <1>3, <2>1 DEF OInv, OTypes
  <2> QED  BY <1>3, <2>2, <2>3 DEF OInv, Tiled
<1>4. CASE Malformed \/ Parsed
  <2>1. UNCHANGED walking /\ scan' = scan /\ pc' \notin {"seek", "found"}
    BY <1>4 DEF Malformed, Parsed
  <2>2. ScanOK' /\ scan' \in [idx : Nat, offset : Nat, i : Nat]
    BY <1>t, <2>1 DEF ScanOK, OTypes
  <2> QED  BY <1>3, <2>1, <2>2
<1>5. ASSUME NEW idx \in 0 .. count - 1, Seek(idx) PROVE OInv'
  BY <1>3, <1>5, SeekScan DEF Seek
<1>6. CASE SkipRef  BY <1>3, <1>6, SkipRefScan DEF SkipRef
<1>7. CASE PassObject  BY <1>3, <1>7, PassScan DEF PassObject
<1>8. CASE Arrive
  <2>1. pc = "seek" /\ ~IsRef(Here) /\ scan.i = scan.idx /\ pc' = "found"
        /\ UNCHANGED walking /\ scan' = scan /\ blob' = blob /\ objsArray' = objsArray
    BY <1>8 DEF Arrive, walking
  <2>2. scan.offset = objsArray[scan.idx + 1]  BY <2>1, AtObject
  <2>3. ScanOK' /\ scan' \in [idx : Nat, offset : Nat, i : Nat]
    BY <1>t, <2>1, <2>2 DEF OInv, ScanOK, OTypes
  <2> QED  BY <1>3, <2>1, <2>3
<1>9. CASE Return
  <2>1. UNCHANGED walking /\ scan' = NoScan /\ pc' = "parsed"  BY <1>9 DEF Return
  <2>2. ScanOK' /\ scan' \in [idx : Nat, offset : Nat, i : Nat]  BY <2>1 DEF ScanOK, NoScan
  <2> QED  BY <1>3, <2>1, <2>2
<1>10. CASE UNCHANGED ovars
  <2>1. UNCHANGED walking /\ scan' = scan /\ pc' = pc /\ blob' = blob /\ objsArray' = objsArray
    BY <1>10 DEF ovars, walking
  <2>2. ScanOK' /\ scan' \in [idx : Nat, offset : Nat, i : Nat]
    BY <1>t, <2>1 DEF OInv, ScanOK, OTypes
  <2> QED  BY <1>3, <2>1, <2>2
<1> QED  BY <1>1, <1>2, <1>4, <1>5, <1>6, <1>7, <1>8, <1>9, <1>10 DEF ONext

(* The decoder's invariant: the table, the tiling and the running scan.    *)
THEOREM DecoderInductive == OSpec => []OInv
<1>1. OInit("walk") => OInv  BY OInitInv
<1>2. OInv /\ [ONext]_ovars => OInv'  BY ONextInv
<1> QED  BY <1>1, <1>2, PTL DEF OSpec

(* The comment at Ckpts: through any number of doublings the table holds   *)
(* the offset of every stride-th object, and no multiple is missing.       *)
THEOREM DecoderCkptsExact == OSpec => []CkptsExact
<1>1. OInv => CkptsExact  BY DEF OInv, OTypes, Covers, CkptsExact
<1> QED  BY <1>1, DecoderInductive, PTL

(* nth_object finds the object of that number, in any blob.                *)
THEOREM DecoderSeekExact == OSpec => []SeekExact
<1>1. OInv => SeekExact  BY DEF OInv, ScanOK, SeekExact
<1> QED  BY <1>1, DecoderInductive, PTL

----------------------------------------------------------------------------
(* Induction on a set, and iteration                                       *)

LEMMA LeastNumber ==
  ASSUME NEW T \in SUBSET Nat, T # {}
  PROVE  \E x \in T : \A y \in T : x <= y
<1> DEFINE R == OpToRel(<, Nat)
<1>1. IsWellFoundedOn(R, Nat)
  BY NatLessThanWellFounded
<1>2. \A x, y \in Nat : x < y => <<x, y>> \in R
  BY DEF OpToRel
<1> HIDE DEF R
<1>3. \E x \in T : \A y \in T : ~(<<y, x>> \in R)
  BY ONLY <1>1, T \in SUBSET Nat, T # {}, WFMin
<1>4. \A x, y \in Nat : ~(y < x) => x <= y
  OBVIOUS
<1> QED
  BY <1>2, <1>3, <1>4

LEMMA Induct ==
  ASSUME NEW S \in SUBSET Nat, 0 \in S, \A n \in S : n + 1 \in S
  PROVE  S = Nat
<1> SUFFICES ASSUME NEW n \in Nat \ S PROVE FALSE
  OBVIOUS
<1>1. PICK x \in Nat \ S : \A y \in Nat \ S : x <= y
  <2>1. Nat \ S \in SUBSET Nat /\ Nat \ S # {}
    OBVIOUS
  <2> QED
    BY <2>1, LeastNumber
<1>2. x # 0
  OBVIOUS
<1>3. x - 1 \in Nat /\ ~(x <= x - 1)
  BY <1>2
<1>4. x - 1 \in S
  BY <1>1, <1>3
<1> QED
  BY <1>3, <1>4

(* A function that is iterated.                                            *)
Iterates(f, x, g, n) == f[0] = x /\ \A m \in 1 .. n : f[m] = g[f[m - 1]]

LEMMA Iterate ==
  ASSUME NEW S, NEW x \in S, NEW g \in [S -> S], NEW n \in Nat
  PROVE  \E f \in [0 .. n -> S] : Iterates(f, x, g, n)
<1> USE DEF Iterates
<1> DEFINE T == {m \in Nat : \E f \in [0 .. m -> S] : Iterates(f, x, g, m)}
<1>1. 0 \in T
  <2>1. [j \in 0 .. 0 |-> x] \in [0 .. 0 -> S] /\ Iterates([j \in 0 .. 0 |-> x], x, g, 0)
    OBVIOUS
  <2> QED
    BY <2>1
<1>2. ASSUME NEW m \in T PROVE m + 1 \in T
  <2>1. PICK f \in [0 .. m -> S] : Iterates(f, x, g, m)
    OBVIOUS
  <2> DEFINE h == [j \in 0 .. m + 1 |-> IF j = m + 1 THEN g[f[m]] ELSE f[j]]
  <2>2. m \in 0 .. m /\ f[m] \in S /\ g[f[m]] \in S
    OBVIOUS
  <2>3. h \in [0 .. m + 1 -> S]
    BY <2>2
  <2>4. h[0] = x
    BY <2>1
  <2>5. ASSUME NEW j \in 1 .. m + 1 PROVE h[j] = g[h[j - 1]]
    <3>1. CASE j = m + 1
      BY <3>1, <2>2
    <3>2. CASE j \in 1 .. m
      BY <3>2, <2>1
    <3> QED
      BY <3>1, <3>2
  <2> HIDE DEF h
  <2> QED
    BY <2>3, <2>4, <2>5
<1>3. T = Nat
  <2> HIDE DEF T
  <2> QED
    BY <1>1, <1>2, Induct DEF T
<1> QED
  BY <1>3

----------------------------------------------------------------------------
(* The tree.  A walk owes items: bal is what a walk from the root owes     *)
(* when it gets to an offset.  The items of a container are the first      *)
(* offsets behind it at which the walk owes one less each time (ItemsAt),  *)
(* which is also where a walk that starts at the item before has nothing   *)
(* left to read; the containers still open expect theirs at the cursor, or *)
(* behind the one inside them (Nested).                                    *)

Debts == [DOMAIN blob \cup {cursor} -> Nat]

Owing(bal) ==
  /\ bal[cursor] = remaining
  /\ \A o \in DOMAIN blob :
       /\ 4 <= o /\ 4 <= scalar_step(blob[o]) /\ Kids(blob[o]) \in Nat
       /\ Kids(blob[o]) > 0 => scalar_step(blob[o]) = 4
       /\ bal[o] > 0 /\ bal[o + scalar_step(blob[o])] = bal[o] - 1 + Kids(blob[o])

(* The n-th item of the container at o.                                    *)
ItemAt(bal, tags, o, n, item) ==
  /\ item \in DOMAIN tags /\ o < item /\ bal[item] = bal[o] + Kids(tags[o]) - n
  /\ \A q \in DOMAIN tags : o < q /\ q < item => bal[item] < bal[q]

ItemsAt(bal) ==
  /\ DOMAIN tree.items = DOMAIN blob
  /\ \A o \in DOMAIN blob :
       /\ tree.items[o] \in Seq(Nat)
       /\ \A n \in 1 .. Len(tree.items[o]) : ItemAt(bal, blob, o, n, tree.items[o][n])

Level(bal, s, j) == bal[s[j].at] + s[j].wants

(* A stack s over the items of D, of which the innermost one wants its     *)
(* next item where the walk owes level.                                    *)
Nested(bal, s, D, level) ==
  /\ s \in Seq([at : D, wants : Pos])
  /\ \A j \in 1 .. Len(s) :
       /\ Level(bal, s, j) = IF j = 1 THEN level + 1 ELSE bal[s[j - 1].at]
       /\ \A q \in D : s[j].at < q => Level(bal, s, j) <= bal[q]
       /\ \A z \in 1 .. Len(s) : z < j => s[j].at < s[z].at
       /\ j = Len(s) => bal[s[j].at] = 1
  /\ s = <<>> => level = 0

Lacks(s, o) == {j \in 1 .. Len(s) : s[j].at = o}

Counted(s) ==
  \A o \in DOMAIN blob :
    /\ \A j \in Lacks(s, o) : Len(tree.items[o]) + s[j].wants = Kids(blob[o])
    /\ Lacks(s, o) = {} => Len(tree.items[o]) = Kids(blob[o])

Planted(bal) ==
  /\ Owing(bal) /\ ItemsAt(bal) /\ Counted(tree.open)
  /\ IF DOMAIN blob = {} THEN cursor = 4 /\ remaining = 1 /\ tree.open = <<>>
     ELSE Nested(bal, tree.open, DOMAIN blob, remaining)

TInv ==
  /\ remaining \in Nat
  /\ \E bal \in Debts : Planted(bal)
  /\ \A o \in DOMAIN blob :
       blob[o].operand \in Nat /\ (IsRef(blob[o]) => blob[o].operand < Len(objsArray))
  /\ pc \in {"parsed", "seek", "found"} => remaining = 0

(* The stack                                                               *)

Unfilled(s) ==
  IF s = <<>> THEN <<>>
  ELSE IF Head(s).wants = 1 THEN Tail(s)
  ELSE <<[Head(s) EXCEPT !.wants = @ - 1]>> \o Tail(s)

LEMMA Members ==
  ASSUME NEW R, NEW s \in Seq(R)
  PROVE  Len(s) \in Nat /\ (s # <<>> => Len(s) > 0) /\ \A j \in 1 .. Len(s) : s[j] \in R
OBVIOUS

LEMMA Widened ==
  ASSUME NEW R, NEW s \in Seq(R), NEW Q, \A j \in 1 .. Len(s) : s[j] \in Q
  PROVE  s \in Seq(Q)
OBVIOUS

LEMMA NestedSame ==
  ASSUME NEW D, NEW s, NEW level, NEW a, NEW b, \A q \in D : a[q] = b[q], Nested(a, s, D, level)
  PROVE  Nested(b, s, D, level)
<1>1. s \in Seq([at : D, wants : Pos])  BY DEF Nested
<1>2. \A j \in 1 .. Len(s) : s[j].at \in D
  <2>1. \A j \in 1 .. Len(s) : s[j] \in [at : D, wants : Pos]  BY ONLY <1>1, Members
  <2> QED  BY <2>1
<1>3. \A j \in 1 .. Len(s) : a[s[j].at] = b[s[j].at] /\ Level(a, s, j) = Level(b, s, j)
  BY <1>2 DEF Level
<1>4. ASSUME NEW j \in 1 .. Len(s), j # 1 PROVE a[s[j - 1].at] = b[s[j - 1].at]
  <2>1. Len(s) \in Nat  BY <1>1
  <2>2. j - 1 \in 1 .. Len(s)  BY <1>4, <2>1
  <2> QED  BY <1>3, <2>2
<1> QED  BY <1>1, <1>2, <1>3, <1>4 DEF Nested

(* An item at c is the next of the innermost container.                    *)
LEMMA RestNested ==
  ASSUME NEW D \in SUBSET Nat, NEW c \in Nat, \A q \in D : q < c,
         NEW bal, \A q \in D \cup {c} : bal[q] \in Nat,
         NEW s, Nested(bal, s, D, bal[c]), s # <<>>
  PROVE  Nested(bal, Unfilled(s), D \cup {c}, bal[c] - 1) /\ Unfilled(s) \in Seq([at : D, wants : Pos])
<1> DEFINE R == [at : D, wants : Pos]
           t == Unfilled(s)
<1>1. s \in Seq(R) /\ Len(s) \in Nat /\ Len(s) > 0
  <2>1. s \in Seq(R)  BY DEF Nested
  <2> HIDE DEF R
  <2> QED  BY <2>1
<1>2. /\ Tail(s) \in Seq(R) /\ Len(Tail(s)) = Len(s) - 1
      /\ \A j \in 1 .. Len(s) - 1 : Tail(s)[j] = s[j + 1]
      /\ Head(s) = s[1]
  <2> HIDE DEF R
  <2> QED  BY <1>1
<1>r. \A j \in 1 .. Len(s) : s[j] \in R  BY ONLY <1>1, Members
<1>3. Head(s) = s[1] /\ s[1] \in R  BY <1>1, <1>2, <1>r
<1>4. \A j \in 1 .. Len(s) : s[j].at \in D /\ s[j].at \in Nat /\ s[j].wants \in Pos /\ bal[s[j].at] \in Nat
                             /\ s[j].at < c
  BY <1>r
<1>5. \A j \in 1 .. Len(s) : Level(bal, s, j) \in Nat  BY <1>4 DEF Level, Pos
<1>6. \A j \in 1 .. Len(s) :
       /\ Level(bal, s, j) = IF j = 1 THEN bal[c] + 1 ELSE bal[s[j - 1].at]
       /\ \A q \in D : s[j].at < q => Level(bal, s, j) <= bal[q]
       /\ \A z \in 1 .. Len(s) : z < j => s[j].at < s[z].at
       /\ j = Len(s) => bal[s[j].at] = 1
  BY DEF Nested
<1>7. Level(bal, s, 1) = bal[c] + 1 /\ Level(bal, s, 1) = bal[s[1].at] + s[1].wants /\ bal[c] \in Nat
  <2>1. 1 \in 1 .. Len(s)  BY <1>1
  <2> QED  BY <1>6, <2>1 DEF Level
(* Behind the first, no container is above what the first one owes.        *)
<1>8. \A j \in 1 .. Len(s) : j # 1 => Level(bal, s, j) <= bal[s[1].at]
  <2>1. SUFFICES ASSUME NEW j \in 1 .. Len(s), j # 1 PROVE Level(bal, s, j) <= bal[s[1].at]  OBVIOUS
  <2>2. 1 \in 1 .. Len(s) /\ 1 < j  BY <1>1, <2>1
  <2>3. s[j].at < s[1].at /\ s[1].at \in D  BY <1>4, <1>6, <2>2
  <2> QED  BY <1>6, <2>3
<1> HIDE DEF R
<1>9. CASE s[1].wants = 1
  <2>1. t = Tail(s)  BY <1>3, <1>9 DEF Unfilled
  <2>2. t \in Seq(R) /\ Len(t) = Len(s) - 1 /\ \A j \in 1 .. Len(t) : j + 1 \in 1 .. Len(s) /\ t[j] = s[j + 1]
    BY <1>1, <1>2, <2>1
  <2>3. bal[s[1].at] = bal[c]
    <3>1. 1 \in 1 .. Len(s)  BY <1>1
    <3> QED  BY <1>4, <1>7, <1>9, <3>1
  <2> HIDE DEF t
  <2>4. ASSUME NEW j \in 1 .. Len(t)
        PROVE  /\ Level(bal, t, j) = IF j = 1 THEN bal[c] - 1 + 1 ELSE bal[t[j - 1].at]
               /\ \A q \in D \cup {c} : t[j].at < q => Level(bal, t, j) <= bal[q]
               /\ \A z \in 1 .. Len(t) : z < j => t[j].at < t[z].at
               /\ j = Len(t) => bal[t[j].at] = 1
    <3>1. j + 1 \in 1 .. Len(s) /\ t[j] = s[j + 1] /\ j \in Nat /\ j + 1 # 1 /\ j + 1 - 1 = j
      BY <2>2
    <3>2. Level(bal, t, j) = Level(bal, s, j + 1)  BY <3>1 DEF Level
    <3>3. Level(bal, t, j) = bal[s[j].at]  BY <1>6, <3>1, <3>2
    <3>4. j = 1 => Level(bal, t, j) = bal[c] - 1 + 1  BY <1>7, <2>3, <3>3
    <3>5. j # 1 => t[j - 1] = s[j]
      <4>1. j # 1 => j - 1 \in 1 .. Len(t) /\ j - 1 + 1 = j  BY <1>1, <2>2, <3>1
      <4> QED  BY <2>2, <4>1
    <3>6. Level(bal, t, j) <= bal[c]  BY <1>8, <2>3, <3>1, <3>2
    <3>7. \A q \in D \cup {c} : t[j].at < q => Level(bal, t, j) <= bal[q]  BY <1>6, <3>1, <3>2, <3>6
    <3>8. \A z \in 1 .. Len(t) : z < j => t[j].at < t[z].at
      <4>1. SUFFICES ASSUME NEW z \in 1 .. Len(t), z < j PROVE t[j].at < t[z].at  OBVIOUS
      <4>2. z + 1 \in 1 .. Len(s) /\ t[z] = s[z + 1] /\ z + 1 < j + 1  BY <2>2, <3>1, <4>1
      <4> QED  BY <1>6, <3>1, <4>2
    <3>9. j = Len(t) => bal[t[j].at] = 1
      <4>1. j = Len(t) => j + 1 = Len(s)  BY <1>1, <2>2, <3>1
      <4> QED  BY <1>6, <3>1, <4>1
    <3> QED  BY <3>3, <3>4, <3>5, <3>7, <3>8, <3>9
  <2>5. t = <<>> => bal[c] - 1 = 0
    <3>1. SUFFICES ASSUME t = <<>> PROVE bal[c] - 1 = 0  OBVIOUS
    <3>2. 1 \in 1 .. Len(s) /\ 1 = Len(s)  BY <1>1, <2>2, <3>1
    <3>3. bal[s[1].at] = 1  BY <1>6, <3>2
    <3> QED  BY <2>3, <3>3
  <2>6. t \in Seq([at : D \cup {c}, wants : Pos])
    <3>1. \A j \in 1 .. Len(t) : t[j] \in [at : D \cup {c}, wants : Pos]
      <4>1. \A j \in 1 .. Len(t) : t[j] \in R  BY ONLY <2>2, Members
      <4> QED  BY <4>1 DEF R
    <3> QED  BY ONLY <2>2, <3>1, Widened
  <2>7. Nested(bal, t, D \cup {c}, bal[c] - 1)  BY ONLY <2>4, <2>5, <2>6 DEF Nested
  <2> QED  BY <2>2, <2>7 DEF R, t
<1>10. CASE s[1].wants # 1
  <2> DEFINE h == [s[1] EXCEPT !.wants = s[1].wants - 1]
  <2>1. t = <<h>> \o Tail(s)  BY <1>3, <1>10 DEF Unfilled
  <2>2. s[1].wants - 1 \in Pos /\ h \in R /\ h.at = s[1].at /\ h.wants = s[1].wants - 1
    BY <1>3, <1>10 DEF Pos, R
  <2> HIDE DEF h, t
  <2>3. /\ t \in Seq(R) /\ Len(t) = Len(s) /\ t[1] = h
        /\ \A j \in 2 .. Len(s) : t[j] = s[j]
    <3>1. /\ <<h>> \o Tail(s) \in Seq(R) /\ Len(<<h>> \o Tail(s)) = 1 + Len(Tail(s))
          /\ (<<h>> \o Tail(s))[1] = h
          /\ \A j \in 2 .. 1 + Len(Tail(s)) : (<<h>> \o Tail(s))[j] = Tail(s)[j - 1]
      BY <1>2, <2>2
    <3>2. \A j \in 2 .. Len(s) : j - 1 \in 1 .. Len(s) - 1 /\ j - 1 + 1 = j  BY <1>1
    <3> QED  BY <1>1, <1>2, <2>1, <3>1, <3>2
  <2>4. \A j \in 1 .. Len(s) : t[j].at = s[j].at
    BY <1>1, <2>2, <2>3
  <2>5. \A j \in 1 .. Len(s) : Level(bal, t, j) = IF j = 1 THEN Level(bal, s, j) - 1 ELSE Level(bal, s, j)
    <3>1. SUFFICES ASSUME NEW j \in 1 .. Len(s)
                   PROVE  Level(bal, t, j) = IF j = 1 THEN Level(bal, s, j) - 1 ELSE Level(bal, s, j)  OBVIOUS
    <3>2. CASE j = 1  BY <1>4, <2>2, <2>3, <3>2 DEF Level, Pos
    <3>3. CASE j # 1
      <4>1. t[j] = s[j]  BY <1>1, <2>3, <3>3
      <4> QED  BY <3>3, <4>1 DEF Level
    <3> QED  BY <3>2, <3>3
  <2>6. ASSUME NEW j \in 1 .. Len(t)
        PROVE  /\ Level(bal, t, j) = IF j = 1 THEN bal[c] - 1 + 1 ELSE bal[t[j - 1].at]
               /\ \A q \in D \cup {c} : t[j].at < q => Level(bal, t, j) <= bal[q]
               /\ \A z \in 1 .. Len(t) : z < j => t[j].at < t[z].at
               /\ j = Len(t) => bal[t[j].at] = 1
    <3>1. j \in 1 .. Len(s) /\ j \in Nat /\ Level(bal, s, j) \in Nat /\ t[j].at = s[j].at
      BY <1>1, <1>5, <2>3, <2>4
    <3>2. CASE j = 1
      <4>1. Level(bal, t, j) = bal[c]  BY <1>7, <2>5, <3>1, <3>2
      <4>2. \A q \in D : s[j].at < q => Level(bal, s, j) <= bal[q]  BY <1>6, <3>1
      <4>3. \A q \in D \cup {c} : t[j].at < q => Level(bal, t, j) <= bal[q]
        <5>1. bal[c] <= bal[c]  BY <1>7
        <5>2. \A q \in D : s[j].at < q => bal[c] <= bal[q]
          <6>1. SUFFICES ASSUME NEW q \in D, s[j].at < q PROVE bal[c] <= bal[q]  OBVIOUS
          <6>2. bal[c] + 1 <= bal[q] /\ bal[q] \in Nat  BY <1>7, <3>2, <4>2, <6>1
          <6> QED  BY <1>7, <6>2
        <5> QED  BY <3>1, <4>1, <5>1, <5>2
      <4>4. \A z \in 1 .. Len(t) : ~(z < j)  BY <3>2
      <4>5. j = Len(t) => bal[t[j].at] = 1  BY <1>6, <2>3, <3>1
      <4> QED  BY <1>7, <3>2, <4>1, <4>3, <4>4, <4>5
    <3>3. CASE j # 1
      <4>1. Level(bal, t, j) = Level(bal, s, j)  BY <2>5, <3>1, <3>3
      <4>2. j - 1 \in 1 .. Len(s)  BY <1>1, <3>1, <3>3
      <4>3. Level(bal, s, j) = bal[t[j - 1].at]  BY <1>6, <2>4, <3>1, <3>3, <4>2
      <4>4. Level(bal, s, j) <= bal[c]
        <5>1. Level(bal, s, j) <= bal[s[1].at]  BY <1>8, <3>1, <3>3
        <5>2. 1 \in 1 .. Len(s)  BY <1>1
        <5>3. bal[s[1].at] \in Nat /\ s[1].wants \in Pos  BY <1>4, <5>2
        <5>4. bal[s[1].at] + s[1].wants = bal[c] + 1  BY <1>7
        <5>5. \A x, b, w, l \in Int : l <= b /\ b + w = x + 1 /\ w > 0 => l <= x  OBVIOUS
        <5>6. s[1].wants \in Int /\ s[1].wants > 0  BY <5>3 DEF Pos
        <5>7. bal[c] \in Int /\ bal[s[1].at] \in Int /\ Level(bal, s, j) \in Int  BY <1>7, <3>1, <5>3
        <5> QED  BY ONLY <5>1, <5>4, <5>5, <5>6, <5>7
      <4>5. \A z \in 1 .. Len(t) : z < j => t[j].at < t[z].at  BY <1>6, <2>3, <2>4, <3>1
      <4>6. j = Len(t) => bal[t[j].at] = 1  BY <1>6, <2>3, <3>1
      <4>7. \A q \in D \cup {c} : t[j].at < q => Level(bal, t, j) <= bal[q]
        BY <1>6, <3>1, <4>1, <4>4
      <4> QED  BY <3>3, <4>1, <4>3, <4>5, <4>6, <4>7
    <3> QED  BY <3>2, <3>3
  <2>7. t # <<>>  BY <1>1, <2>3
  <2>8. t \in Seq([at : D \cup {c}, wants : Pos])
    <3>1. \A j \in 1 .. Len(t) : t[j] \in [at : D \cup {c}, wants : Pos]
      <4>1. \A j \in 1 .. Len(t) : t[j] \in R  BY ONLY <2>3, Members
      <4> QED  BY <4>1 DEF R
    <3> QED  BY ONLY <2>3, <3>1, Widened
  <2>9. Nested(bal, t, D \cup {c}, bal[c] - 1)  BY ONLY <2>6, <2>7, <2>8 DEF Nested
  <2> QED  BY <2>3, <2>9 DEF R, t
<1> QED  BY <1>9, <1>10

(* A container at c, the last offset, expects its items before the others. *)
LEMMA PushNested ==
  ASSUME NEW D \in SUBSET Nat, NEW c \in D, \A q \in D : q <= c,
         NEW bal, \A q \in D : bal[q] \in Nat, bal[c] > 0,
         NEW s, Nested(bal, s, D, bal[c] - 1), \A j \in 1 .. Len(s) : s[j].at # c,
         NEW K \in Pos
  PROVE  Nested(bal, <<[at |-> c, wants |-> K]>> \o s, D, bal[c] - 1 + K)
<1> DEFINE R == [at : D, wants : Pos]
           h == [at |-> c, wants |-> K]
           t == <<h>> \o s
<1>1. s \in Seq(R) /\ Len(s) \in Nat /\ h \in R
  <2>1. s \in Seq(R) /\ h \in R  BY DEF Nested
  <2> HIDE DEF R, h
  <2> QED  BY <2>1
<1>2. \A j \in 1 .. Len(s) :
       /\ Level(bal, s, j) = IF j = 1 THEN bal[c] - 1 + 1 ELSE bal[s[j - 1].at]
       /\ \A q \in D : s[j].at < q => Level(bal, s, j) <= bal[q]
       /\ \A z \in 1 .. Len(s) : z < j => s[j].at < s[z].at
       /\ j = Len(s) => bal[s[j].at] = 1
  BY DEF Nested
<1>3. s = <<>> => bal[c] - 1 = 0  BY DEF Nested
<1>4. \A j \in 1 .. Len(s) : s[j].at < c
  <2>1. SUFFICES ASSUME NEW j \in 1 .. Len(s) PROVE s[j].at < c  OBVIOUS
  <2>0. s[j] \in R  BY ONLY <1>1, Members, j \in 1 .. Len(s)
  <2>2. s[j].at \in D /\ s[j].at # c  BY <2>0, <2>1
  <2>3. \A x \in D : x # c => x < c
    <3>1. \A x, y \in Nat : x <= y /\ x # y => x < y  OBVIOUS
    <3>2. \A x \in D : x \in Nat /\ x <= c  OBVIOUS
    <3> QED  BY ONLY <3>1, <3>2, c \in D
  <2> QED  BY ONLY <2>2, <2>3
<1> HIDE DEF R
<1>5. h.at = c /\ h.wants = K  OBVIOUS
<1> HIDE DEF h
<1>6. t \in Seq(R) /\ Len(t) = Len(s) + 1 /\ t[1] = h /\ \A j \in 2 .. Len(s) + 1 : t[j] = s[j - 1]
  BY <1>1
<1> HIDE DEF t
<1>7. ASSUME NEW j \in 1 .. Len(t)
      PROVE  /\ Level(bal, t, j) = IF j = 1 THEN bal[c] - 1 + K + 1 ELSE bal[t[j - 1].at]
             /\ \A q \in D : t[j].at < q => Level(bal, t, j) <= bal[q]
             /\ \A z \in 1 .. Len(t) : z < j => t[j].at < t[z].at
             /\ j = Len(t) => bal[t[j].at] = 1
  <2>1. CASE j = 1
    <3>1. Level(bal, t, j) = bal[c] + K /\ t[j].at = c  BY <1>5, <1>6, <2>1 DEF Level
    <3>2. bal[c] \in Nat /\ K \in Nat  BY DEF Pos
    <3>3. \A q \in D : ~(c < q)
      <4>1. \A x, y \in Nat : x <= y => ~(y < x)  OBVIOUS
      <4> QED  BY <4>1
    <3>4. j = Len(t) => s = <<>>  BY <1>1, <1>6, <2>1
    <3>5. j = Len(t) => bal[t[j].at] = 1  BY <1>3, <3>1, <3>2, <3>4
    <3>6. bal[c] + K = bal[c] - 1 + K + 1  BY <3>2
    <3>7. \A z \in 1 .. Len(t) : ~(z < j)  BY <2>1
    <3> QED  BY <2>1, <3>1, <3>3, <3>5, <3>6, <3>7
  <2>2. CASE j # 1
    <3>1. j \in 2 .. Len(s) + 1 /\ j - 1 \in 1 .. Len(s) /\ j \in Nat  BY <1>1, <1>6, <2>2
    <3>2. t[j] = s[j - 1]  BY <1>6, <3>1
    <3>3. Level(bal, t, j) = Level(bal, s, j - 1)  BY <3>2 DEF Level
    <3>4. Level(bal, s, j - 1) = bal[t[j - 1].at]
      <4>1. CASE j = 2
        <5>1. Level(bal, s, j - 1) = bal[c] - 1 + 1  BY <1>2, <3>1, <4>1
        <5>2. bal[c] \in Nat  OBVIOUS
        <5> QED  BY <1>5, <1>6, <4>1, <5>1, <5>2
      <4>2. CASE j # 2
        <5>1. j - 1 \in 2 .. Len(s) + 1 /\ j - 1 # 1  BY <1>1, <2>2, <3>1, <4>2
        <5>2. t[j - 1] = s[j - 1 - 1]  BY <1>6, <5>1
        <5> QED  BY <1>2, <3>1, <5>1, <5>2
      <4> QED  BY <4>1, <4>2
    <3>5. \A z \in 1 .. Len(t) : z < j => t[j].at < t[z].at
      <4>1. SUFFICES ASSUME NEW z \in 1 .. Len(t), z < j PROVE t[j].at < t[z].at  OBVIOUS
      <4>2. CASE z = 1  BY <1>4, <1>5, <1>6, <3>1, <3>2, <4>2
      <4>3. CASE z # 1
        <5>1. z \in 2 .. Len(s) + 1 /\ z - 1 \in 1 .. Len(s) /\ z - 1 < j - 1
          BY <1>1, <1>6, <3>1, <4>1, <4>3
        <5> QED  BY <1>2, <1>6, <3>1, <3>2, <5>1
      <4> QED  BY <4>2, <4>3
    <3>6. j = Len(t) => bal[t[j].at] = 1
      <4>1. j = Len(t) => j - 1 = Len(s)  BY <1>1, <1>6, <3>1
      <4> QED  BY <1>2, <3>1, <3>2, <4>1
    <3>7. \A q \in D : t[j].at < q => Level(bal, t, j) <= bal[q]  BY <1>2, <3>1, <3>2, <3>3
    <3> QED  BY <2>2, <3>3, <3>4, <3>5, <3>6, <3>7
  <2> QED  BY <2>1, <2>2
<1>8. t # <<>>  BY <1>1, <1>6
<1>9. Nested(bal, t, D, bal[c] - 1 + K)  BY ONLY <1>6, <1>7, <1>8 DEF Nested, R
<1> QED  BY <1>9 DEF t, h

LEMMA RestCounts ==
  ASSUME NEW R, NEW s \in Seq(R), s # <<>>
  PROVE  /\ \A j \in 1 .. Len(Unfilled(s)) : \E z \in 1 .. Len(s) :
              Unfilled(s)[j].at = s[z].at /\ Unfilled(s)[j] = IF z = 1 THEN [s[1] EXCEPT !.wants = @ - 1] ELSE s[z]
         /\ \A z \in 1 .. Len(s) : z # 1 \/ s[1].wants # 1 => \E j \in 1 .. Len(Unfilled(s)) : Unfilled(s)[j].at = s[z].at
<1> DEFINE t == Unfilled(s)
           h == [s[1] EXCEPT !.wants = @ - 1]
<1>1. /\ Len(s) \in Nat /\ Len(s) > 0 /\ Tail(s) \in Seq(R) /\ Len(Tail(s)) = Len(s) - 1
      /\ \A j \in 1 .. Len(s) - 1 : Tail(s)[j] = s[j + 1]
      /\ Head(s) = s[1]
  OBVIOUS
<1>0. h.at = s[1].at  OBVIOUS
<1> HIDE DEF h
<1>2. CASE s[1].wants = 1
  <2>1. t = Tail(s)
    <3>1. Head(s).wants = 1  BY <1>1, <1>2
    <3> QED  BY ONLY s # <<>>, <3>1, Zenon DEF Unfilled, t
  <2> HIDE DEF t
  <2>2. ASSUME NEW j \in 1 .. Len(t) PROVE j + 1 \in 1 .. Len(s) /\ j + 1 # 1 /\ t[j] = s[j + 1]
    BY <1>1, <2>1
  <2>3. ASSUME NEW z \in 1 .. Len(s), z # 1 PROVE z - 1 \in 1 .. Len(t) /\ t[z - 1] = s[z]
    <3>1. z - 1 \in 1 .. Len(s) - 1 /\ z - 1 + 1 = z  BY <1>1, <2>3
    <3> QED  BY <1>1, <2>1, <3>1
  <2>4. \A j \in 1 .. Len(t) : \E z \in 1 .. Len(s) : t[j].at = s[z].at /\ t[j] = IF z = 1 THEN h ELSE s[z]
    BY <2>2
  <2>5. \A z \in 1 .. Len(s) : z # 1 => \E j \in 1 .. Len(t) : t[j].at = s[z].at
    BY <2>3
  <2> QED  BY <1>2, <2>4, <2>5 DEF t, h
<1>3. CASE s[1].wants # 1
  <2>1. t = <<h>> \o Tail(s)  BY <1>1, <1>3 DEF Unfilled, h
  <2> HIDE DEF t
  <2>2. Len(t) = Len(s) /\ t[1] = h /\ \A j \in 2 .. Len(s) : t[j] = s[j]
    <3>1. /\ Len(<<h>> \o Tail(s)) = 1 + Len(Tail(s)) /\ (<<h>> \o Tail(s))[1] = h
          /\ \A j \in 2 .. 1 + Len(Tail(s)) : (<<h>> \o Tail(s))[j] = Tail(s)[j - 1]
      BY <1>1
    <3>2. \A j \in 2 .. Len(s) : j - 1 \in 1 .. Len(s) - 1 /\ j - 1 + 1 = j  BY <1>1
    <3> QED  BY <1>1, <2>1, <3>1, <3>2
  <2>3. ASSUME NEW j \in 1 .. Len(s) PROVE t[j].at = s[j].at /\ t[j] = IF j = 1 THEN h ELSE s[j]
    <3>1. CASE j = 1  BY <1>0, <2>2, <3>1
    <3>2. CASE j # 1
      <4>1. j \in 2 .. Len(s)  BY <1>1, <3>2
      <4> QED  BY <2>2, <3>2, <4>1
    <3> QED  BY <3>1, <3>2
  <2> QED  BY <2>2, <2>3 DEF t, h
<1> QED  BY <1>2, <1>3

LEMMA FittingTag ==
  ASSUME NEW tag \in Fitting
  PROVE  /\ 4 <= scalar_step(tag) /\ scalar_step(tag) \in Nat /\ Kids(tag) \in Nat
         /\ Kids(tag) > 0 => scalar_step(tag) = 4
         /\ tag.operand \in Nat
<1>0. MaxKids \in Nat  BY OsBinaryAssumption DEF OsBinaryAssumption
<1>1. CASE \E ty \in {"dict", "array"}, n \in 0 .. MaxKids : tag = Tag(ty, n, NoKey)
  <2>1. PICK ty \in {"dict", "array"}, n \in 0 .. MaxKids : tag = Tag(ty, n, NoKey)  BY <1>1
  <2>2. tag.ty = ty /\ tag.operand = n  BY <2>1 DEF Tag
  <2>3. scalar_step(tag) = 4 /\ tag.ty # "object"  BY <2>2 DEF scalar_step
  <2>4. n \in Nat /\ Kids(tag) = (IF ty = "dict" THEN 2 ELSE 1) * n  BY <1>0, <2>2 DEF Kids, Pairs
  <2> QED  BY <2>2, <2>3, <2>4
<1>2. CASE \E n \in Nat : tag = Tag("object", n, NoKey)
  BY <1>2 DEF Tag, scalar_step, Kids
<1>3. CASE tag = Tag("number", 64, NoKey)
  BY <1>3 DEF Tag, scalar_step, Kids
<1>4. CASE \E k \in Keys : tag = Tag("symbol", 2, k)
  <2>1. tag.ty = "symbol" /\ tag.operand = 2  BY <1>4 DEF Tag
  <2>2. Padded(2) = 4  BY DEF Padded
  <2> QED  BY <2>1, <2>2 DEF scalar_step, Kids
<1>5. /\ \/ \E ty \in {"dict", "array"}, n \in 0 .. MaxKids : tag = Tag(ty, n, NoKey)
         \/ \E n \in 0 .. count : tag = Tag("object", n, NoKey)
         \/ tag = Tag("number", 64, NoKey)
         \/ \E k \in Keys : tag = Tag("symbol", 2, k)
      /\ \A n \in 0 .. count : n \in Nat
  <2>1. \A n \in 0 .. count : n \in Nat  OBVIOUS
  <2> QED  BY <2>1 DEF Fitting
<1> QED  BY <1>1, <1>2, <1>3, <1>4, <1>5

(* What an item at the cursor leaves behind.                               *)
LEMMA Planting ==
  ASSUME OInv, TInv, remaining > 0, NEW tag \in Fitting, Consume(tag)
  PROVE  remaining' \in Nat /\ \E bal \in Debts' : Planted(bal)'
<1> DEFINE D == DOMAIN blob
           c == cursor
           K == Kids(tag)
           e == cursor + scalar_step(tag)
           s == tree.open
<1>1. PICK bal \in Debts : Planted(bal)  BY DEF TInv
<1>2. /\ 4 <= scalar_step(tag) /\ scalar_step(tag) \in Nat /\ K \in Nat
      /\ K > 0 => scalar_step(tag) = 4
  BY FittingTag
<1>3. remaining \in Nat /\ c \in Nat /\ Follow  BY DEF TInv, OInv, OTypes, Tiled
<1>4. D \in SUBSET Nat /\ (\A q \in D : q < c) /\ c \notin D /\ e \notin D \cup {c} /\ e \in Nat
  <2>1. D \in SUBSET Nat /\ \A q \in D : q < c  BY <1>3 DEF Follow
  <2>2. c < e /\ e \in Nat  BY <1>2, <1>3
  <2>3. \A q \in D : q # e /\ q # c
    <3>1. SUFFICES ASSUME NEW q \in D PROVE q # e /\ q # c  OBVIOUS
    <3>2. q \in Nat /\ q < c  BY <2>1
    <3> HIDE DEF e
    <3> QED  BY <1>3, <2>2, <3>2
  <2> QED  BY <1>3, <2>1, <2>2, <2>3
<1>5. /\ DOMAIN blob' = D \cup {c} /\ blob'[c] = tag /\ (\A o \in D : blob'[o] = blob[o])
      /\ cursor' = e /\ remaining' = remaining - 1 + K /\ tree' = Plant(tag)
  BY <1>4 DEF Consume, Extend
<1>6. remaining' \in Nat  BY <1>2, <1>3, <1>5
<1>7. bal \in [D \cup {c} -> Nat]  BY DEF Debts
<1>8. PICK b \in Debts' : b[e] = remaining - 1 + K /\ \A q \in D \cup {c} : b[q] = bal[q]
  <2> DEFINE f == [q \in D \cup {c} \cup {e} |-> IF q = e THEN remaining - 1 + K ELSE bal[q]]
  <2>1. \A q \in D \cup {c} \cup {e} : (IF q = e THEN remaining - 1 + K ELSE bal[q]) \in Nat
    BY <1>5, <1>6, <1>7
  <2>2. f \in [D \cup {c} \cup {e} -> Nat]  BY <2>1
  <2>3. f[e] = remaining - 1 + K /\ \A q \in D \cup {c} : f[q] = bal[q]  BY <1>4
  <2> HIDE DEF f
  <2>4. f \in Debts'  BY <1>5, <2>2 DEF Debts
  <2> QED  BY <2>3, <2>4
<1>9. b[e] = remaining - 1 + K /\ \A q \in D \cup {c} : b[q] = bal[q]
  BY <1>8
<1>10. /\ bal[c] = remaining /\ \A q \in D \cup {c} : bal[q] \in Nat
       /\ \A o \in D : /\ 4 <= o /\ 4 <= scalar_step(blob[o]) /\ Kids(blob[o]) \in Nat
                       /\ Kids(blob[o]) > 0 => scalar_step(blob[o]) = 4
                       /\ bal[o] > 0 /\ bal[o + scalar_step(blob[o])] = bal[o] - 1 + Kids(blob[o])
                       /\ o + scalar_step(blob[o]) \in D \cup {c}
  BY <1>1, <1>3, <1>7 DEF Planted, Owing, Follow
<1>11. Owing(b)'
  <2>1. b[cursor'] = remaining'  BY <1>5, <1>9
  <2>2. ASSUME NEW o \in D
        PROVE  /\ 4 <= o /\ 4 <= scalar_step(blob'[o]) /\ Kids(blob'[o]) \in Nat
               /\ Kids(blob'[o]) > 0 => scalar_step(blob'[o]) = 4
               /\ b[o] > 0 /\ b[o + scalar_step(blob'[o])] = b[o] - 1 + Kids(blob'[o])
    BY <1>5, <1>9, <1>10
  <2>3. b[c] > 0 /\ b[c + scalar_step(tag)] = b[c] - 1 + K  BY <1>9, <1>10
  <2>4. 4 <= c
    <3>1. CASE D = {}  BY <1>1, <3>1 DEF Planted
    <3>2. CASE D # {}
      <4>1. PICK o \in D : TRUE  BY <3>2
      <4>2. 4 <= o /\ o < c /\ o \in Nat  BY <1>4, <1>10
      <4> QED  BY ONLY <1>3, <4>2
    <3> QED  BY <3>1, <3>2
  <2> QED  BY <1>2, <1>5, <2>1, <2>2, <2>3, <2>4 DEF Owing
<1> HIDE DEF e
<1>12. /\ DOMAIN tree.items = D
       /\ \A o \in D :
            /\ tree.items[o] \in Seq(Nat)
            /\ \A n \in 1 .. Len(tree.items[o]) : ItemAt(bal, blob, o, n, tree.items[o][n])
  BY <1>1 DEF Planted, ItemsAt
<1>13. /\ tree'.open = IF K = 0 THEN Unfilled(s) ELSE <<[at |-> c, wants |-> K]>> \o Unfilled(s)
       /\ DOMAIN tree'.items = D \cup {c}
       /\ tree'.items[c] = <<>>
       /\ \A o \in D : tree'.items[o] = IF s # <<>> /\ Head(s).at = o THEN Append(tree.items[o], c)
                                       ELSE tree.items[o]
  BY <1>4, <1>5, <1>12 DEF Plant, Unfilled
(* The stack is empty before the first item only.                          *)
<1>14. D = {} => c = 4 /\ remaining = 1 /\ s = <<>>
  BY <1>1 DEF Planted
<1>15. D # {} => Nested(bal, s, D, bal[c]) /\ s # <<>>
  <2>1. D # {} => Nested(bal, s, D, bal[c])  BY <1>1, <1>10 DEF Planted
  <2>2. Nested(bal, s, D, bal[c]) => s # <<>>  BY <1>10 DEF Nested
  <2> QED  BY <2>1, <2>2
<1>16. s \in Seq([at : D, wants : Pos])
  <2>1. D # {} => s \in Seq([at : D, wants : Pos])  BY <1>15 DEF Nested
  <2>2. D = {} => s \in Seq([at : D, wants : Pos])
    <3>1. \A R : <<>> \in Seq(R)  OBVIOUS
    <3> QED  BY ONLY <1>14, <3>1
  <2> QED  BY <2>1, <2>2
<1>17. Nested(bal, Unfilled(s), D \cup {c}, bal[c] - 1) /\ Unfilled(s) \in Seq([at : D, wants : Pos])
  <2>1. CASE D = {}
    <3>1. Unfilled(s) = <<>> /\ bal[c] - 1 = 0  BY <1>10, <1>14, <2>1 DEF Unfilled
    <3>2. \A R : <<>> \in Seq(R)  OBVIOUS
    <3>3. Nested(bal, <<>>, D \cup {c}, 0)  BY <3>2 DEF Nested
    <3> QED  BY <3>1, <3>2, <3>3
  <2>2. CASE D # {}
    BY ONLY <1>3, <1>4, <1>10, <1>15, <2>2, RestNested
  <2> QED  BY <2>1, <2>2
<1>18. \A j \in 1 .. Len(Unfilled(s)) : Unfilled(s)[j].at \in D /\ Unfilled(s)[j].at # c
  <2>1. \A j \in 1 .. Len(Unfilled(s)) : Unfilled(s)[j] \in [at : D, wants : Pos]  BY ONLY <1>17, Members
  <2> QED  BY <1>4, <2>1
<1>19. Nested(b, tree'.open, D \cup {c}, remaining')
  <2>1. CASE K = 0
    <3>1. tree'.open = Unfilled(s) /\ remaining' = bal[c] - 1  BY <1>3, <1>5, <1>10, <1>13, <2>1
    <3> QED  BY ONLY <1>9, <1>17, <3>1, NestedSame
  <2>2. CASE K # 0
    <3>1. tree'.open = <<[at |-> c, wants |-> K]>> \o Unfilled(s) /\ remaining' = bal[c] - 1 + K
      BY <1>5, <1>10, <1>13, <2>2
    <3>2. K \in Pos /\ bal[c] > 0  BY <1>2, <1>10, <2>2 DEF Pos
    <3>3. D \cup {c} \in SUBSET Nat /\ c \in D \cup {c} /\ \A q \in D \cup {c} : q <= c
      BY <1>3, <1>4
    <3> HIDE DEF K
    <3>4. Nested(bal, tree'.open, D \cup {c}, remaining')
      BY ONLY <1>10, <1>17, <1>18, <3>1, <3>2, <3>3, PushNested
    <3> QED  BY ONLY <1>9, <3>4, NestedSame
  <2> QED  BY <2>1, <2>2
(* The new item is the next of the innermost container.                    *)
<1>20. ASSUME s # <<>>
       PROVE  /\ s[1].at \in D /\ Head(s) = s[1] /\ 1 \in 1 .. Len(s) /\ s[1].wants \in Nat
              /\ Len(tree.items[s[1].at]) + s[1].wants = Kids(blob[s[1].at])
              /\ bal[c] = bal[s[1].at] + s[1].wants - 1
              /\ \A q \in D : s[1].at < q => bal[c] < bal[q]
  <2>1. Len(s) \in Nat /\ Len(s) > 0 /\ s[1] \in [at : D, wants : Pos] /\ Head(s) = s[1]
    <3> DEFINE R == [at : D, wants : Pos]
    <3>1. s \in Seq(R)  BY <1>16
    <3> HIDE DEF R, s
    <3>2. Len(s) \in Nat /\ Len(s) > 0 /\ s[1] \in R /\ Head(s) = s[1]  BY <1>20, <3>1
    <3> QED  BY <3>2 DEF R
  <2>2. s[1].at \in D /\ s[1].wants \in Nat /\ 1 \in 1 .. Len(s)  BY <2>1 DEF Pos
  <2>3. Nested(bal, s, D, bal[c])  BY <1>14, <1>15, <1>20
  <2>4. Level(bal, s, 1) = bal[c] + 1 /\ \A q \in D : s[1].at < q => Level(bal, s, 1) <= bal[q]
    BY <2>2, <2>3 DEF Nested
  <2>5. bal[c] = bal[s[1].at] + s[1].wants - 1
    <3>1. bal[s[1].at] + s[1].wants = bal[c] + 1  BY <2>4 DEF Level
    <3>2. bal[s[1].at] \in Nat /\ bal[c] \in Nat  BY <1>10, <2>2
    <3>3. \A x, a, w \in Nat : a + w = x + 1 => x = a + w - 1  OBVIOUS
    <3> QED  BY ONLY <2>2, <3>1, <3>2, <3>3, Zenon
  <2>6. \A q \in D : s[1].at < q => bal[c] < bal[q]
    <3>1. SUFFICES ASSUME NEW q \in D, s[1].at < q PROVE bal[c] < bal[q]  OBVIOUS
    <3>2. bal[c] + 1 <= bal[q] /\ bal[c] \in Nat /\ bal[q] \in Nat  BY <1>10, <2>4, <3>1
    <3> QED  BY ONLY <3>2
  <2>7. 1 \in Lacks(s, s[1].at)  BY <2>2 DEF Lacks
  <2>8. Len(tree.items[s[1].at]) + s[1].wants = Kids(blob[s[1].at])
    BY <1>1, <2>2, <2>7 DEF Planted, Counted
  <2> QED  BY <2>1, <2>2, <2>5, <2>6, <2>8
<1>21. ASSUME NEW o \in D, NEW n, NEW z, ItemAt(bal, blob, o, n, z)
       PROVE  ItemAt(b, blob', o, n, z)
  <2>1. z \in D /\ o < z /\ bal[z] = bal[o] + Kids(blob[o]) - n
        /\ \A q \in D : o < q /\ q < z => bal[z] < bal[q]
    BY <1>21 DEF ItemAt
  <2>2. ~(c < z)
    <3>1. z \in Nat /\ z < c  BY <1>4, <2>1
    <3> QED  BY ONLY <3>1, <1>3
  <2> QED  BY <1>5, <1>9, <2>1, <2>2 DEF ItemAt
<1>22. ItemsAt(b)'
  <2>1. ASSUME NEW o \in D \cup {c}
        PROVE  /\ tree'.items[o] \in Seq(Nat)
               /\ \A n \in 1 .. Len(tree'.items[o]) : ItemAt(b, blob', o, n, tree'.items[o][n])
    <3>1. CASE o = c
      <4>1. tree'.items[o] = <<>>  BY <1>13, <3>1
      <4> QED  BY <4>1
    <3>2. CASE o \in D /\ ~(s # <<>> /\ Head(s).at = o)
      <4>1. tree'.items[o] = tree.items[o]  BY <1>13, <3>2
      <4> QED  BY <1>12, <1>21, <3>2, <4>1
    <3>3. CASE s # <<>> /\ Head(s).at = o
      <4>0. o \in D /\ o = s[1].at  BY <1>20, <3>3
      <4> DEFINE t == tree.items[o]
      <4>1. tree'.items[o] = Append(t, c)  BY <1>13, <3>3, <4>0
      <4>2. t \in Seq(Nat)  BY <1>12, <4>0
      <4>3. Append(t, c) \in Seq(Nat) /\ Len(Append(t, c)) = Len(t) + 1 /\ Append(t, c)[Len(t) + 1] = c
            /\ (\A n \in 1 .. Len(t) : Append(t, c)[n] = t[n]) /\ Len(t) \in Nat
        <5> HIDE DEF t, c
        <5> QED  BY <1>3, <4>2 DEF c
      <4>4. ItemAt(b, blob', o, Len(t) + 1, c)
        <5>1. bal[c] = bal[o] + Kids(blob[o]) - (Len(t) + 1)
          <6>1. Len(t) + s[1].wants = Kids(blob[o]) /\ bal[c] = bal[o] + s[1].wants - 1 /\ s[1].wants \in Nat
            BY <1>20, <3>3, <4>0
          <6>2. bal[o] \in Nat /\ Len(t) \in Nat  BY <1>10, <4>0, <4>3
          <6> HIDE DEF t, s, c
          <6> QED  BY ONLY <6>1, <6>2
        <5>2. o < c /\ \A q \in D \cup {c} : o < q /\ q < c => bal[c] < bal[q]
          <6>1. ~(c < c)  BY <1>3
          <6> QED  BY <1>4, <1>20, <3>3, <4>0, <6>1
        <5> HIDE DEF t, s
        <5> QED  BY <1>5, <1>9, <4>0, <5>1, <5>2 DEF ItemAt
      <4>5. \A n \in 1 .. Len(t) + 1 : n \in 1 .. Len(t) \/ n = Len(t) + 1
        <5> HIDE DEF t
        <5> QED  BY <4>3
      <4>6. \A n \in 1 .. Len(t) : ItemAt(b, blob', o, n, t[n])  BY <1>12, <1>21, <4>0
      <4> HIDE DEF t
      <4> QED  BY <4>1, <4>3, <4>4, <4>5, <4>6
    <3> QED  BY <3>1, <3>2, <3>3
  <2> QED  BY <1>5, <1>13, <2>1 DEF ItemsAt
<1>23. Counted(tree.open)'
  <2> DEFINE t == tree'.open
             r == Unfilled(s)
  <2>1. ASSUME NEW j \in 1 .. Len(t)
        PROVE  (K # 0 /\ t[j] = [at |-> c, wants |-> K]) \/ (\E z \in 1 .. Len(r) : t[j] = r[z])
    <3> HIDE DEF r, t
    <3>1. r \in Seq([at : D, wants : Pos]) /\ Len(r) \in Nat  BY <1>17 DEF r
    <3>2. CASE K = 0  BY <1>13, <2>1, <3>2 DEF r, t
    <3>3. CASE K # 0
      <4> DEFINE m == [at |-> c, wants |-> K]
      <4>1. t = <<m>> \o r  BY <1>13, <3>3 DEF r, t
      <4> HIDE DEF m
      <4>2. Len(t) = Len(r) + 1 /\ t[1] = m /\ \A n \in 2 .. Len(r) + 1 : t[n] = r[n - 1]  BY <3>1, <4>1
      <4>3. j = 1 \/ (j \in 2 .. Len(r) + 1 /\ j - 1 \in 1 .. Len(r))  BY <3>1, <4>2
      <4> QED  BY <3>3, <4>2, <4>3 DEF m
    <3> QED  BY <3>2, <3>3
  <2>2. /\ K # 0 => \E j \in 1 .. Len(t) : t[j].at = c
        /\ \A z \in 1 .. Len(r) : \E j \in 1 .. Len(t) : t[j] = r[z]
    <3> HIDE DEF r, t
    <3>1. r \in Seq([at : D, wants : Pos]) /\ Len(r) \in Nat  BY <1>17 DEF r
    <3>2. CASE K = 0  BY <1>13, <3>2 DEF r, t
    <3>3. CASE K # 0
      <4> DEFINE m == [at |-> c, wants |-> K]
      <4>1. t = <<m>> \o r /\ m.at = c  BY <1>13, <3>3 DEF r, t
      <4> HIDE DEF m
      <4>2. Len(t) = Len(r) + 1 /\ t[1] = m /\ \A n \in 2 .. Len(r) + 1 : t[n] = r[n - 1]  BY <3>1, <4>1
      <4>3. 1 \in 1 .. Len(t)  BY <3>1, <4>2
      <4>4. \A z \in 1 .. Len(r) : z + 1 \in 1 .. Len(t) /\ z + 1 \in 2 .. Len(r) + 1 /\ z + 1 - 1 = z
        BY <3>1, <4>2
      <4> QED  BY <4>1, <4>2, <4>3, <4>4
    <3> QED  BY <3>2, <3>3
  <2>3. ASSUME s # <<>>
        PROVE  /\ \A j \in 1 .. Len(r) : \E z \in 1 .. Len(s) :
                     r[j].at = s[z].at /\ r[j] = IF z = 1 THEN [s[1] EXCEPT !.wants = @ - 1] ELSE s[z]
               /\ \A z \in 1 .. Len(s) : z # 1 \/ s[1].wants # 1 => \E j \in 1 .. Len(r) : r[j].at = s[z].at
    BY ONLY <1>16, <2>3, RestCounts
  <2>4. s = <<>> => Len(r) = 0  BY DEF Unfilled
  <2>5. \A z \in 1 .. Len(s) : z # 1 => s[z].at # s[1].at
    <3>1. SUFFICES ASSUME NEW z \in 1 .. Len(s), z # 1 PROVE s[z].at # s[1].at  OBVIOUS
    <3>2. D # {} /\ s # <<>>
      <4>1. \A u : u = <<>> => 1 .. Len(u) = {}  OBVIOUS
      <4> QED  BY ONLY <1>14, <3>1, <4>1
    <3>3. s[z].at < s[1].at
      <4>1. 1 \in 1 .. Len(s) /\ 1 < z  BY <3>1
      <4> QED  BY <1>15, <3>2, <4>1 DEF Nested
    <3>4. s[1].at \in Nat  BY <1>4, <1>20, <3>2
    <3> QED  BY <3>3, <3>4
  <2>6. \A o \in D : /\ \A j \in 1 .. Len(s) : s[j].at = o => Len(tree.items[o]) + s[j].wants = Kids(blob[o])
                     /\ (\A j \in 1 .. Len(s) : s[j].at # o) => Len(tree.items[o]) = Kids(blob[o])
                     /\ tree.items[o] \in Seq(Nat) /\ Len(tree.items[o]) \in Nat
    <3>1. \A o \in D : Len(tree.items[o]) \in Nat  BY <1>12
    <3> QED  BY <1>1, <1>12, <3>1 DEF Planted, Counted, Lacks
  <2>7. ASSUME NEW o \in D
        PROVE  Len(tree'.items[o]) = IF s # <<>> /\ s[1].at = o THEN Len(tree.items[o]) + 1 ELSE Len(tree.items[o])
    <3>1. CASE s # <<>> /\ s[1].at = o
      <4>1. tree'.items[o] = Append(tree.items[o], c)  BY <1>13, <1>20, <3>1
      <4>2. \A x : \A u \in Seq(Nat) : Len(Append(u, x)) = Len(u) + 1  OBVIOUS
      <4> QED  BY <2>6, <3>1, <4>1, <4>2
    <3>2. CASE ~(s # <<>> /\ s[1].at = o)
      <4>1. tree'.items[o] = tree.items[o]  BY <1>13, <1>20, <3>2
      <4> QED  BY <3>2, <4>1
    <3> QED  BY <3>1, <3>2
  <2> HIDE DEF t, r, s, D
  <2>8. ASSUME NEW o \in D, NEW j \in 1 .. Len(t), t[j].at = o
        PROVE  Len(tree'.items[o]) + t[j].wants = Kids(blob[o])
    <3>1. o # c  BY <1>4 DEF D
    <3>2. PICK z \in 1 .. Len(r) : t[j] = r[z]  BY <2>1, <2>8, <3>1
    <3>3. s # <<>>  BY <2>4, <3>2
    <3>4. PICK k \in 1 .. Len(s) : r[z].at = s[k].at
                                   /\ r[z] = IF k = 1 THEN [s[1] EXCEPT !.wants = @ - 1] ELSE s[k]
      BY <2>3, <3>3
    <3>5. s[k].at = o  BY <2>8, <3>2, <3>4
    <3>6. Len(tree.items[o]) + s[k].wants = Kids(blob[o]) /\ Len(tree.items[o]) \in Nat  BY <2>6, <3>5
    <3>7. CASE k = 1
      <4>1. s[1] \in [at : D, wants : Pos]
        BY ONLY <1>16, Members, k \in 1 .. Len(s), <3>7
      <4>2. t[j].wants = s[1].wants - 1 /\ s[1].wants \in Nat  BY <3>2, <3>4, <3>7, <4>1 DEF Pos
      <4>3. Len(tree'.items[o]) = Len(tree.items[o]) + 1  BY <2>7, <3>3, <3>5, <3>7
      <4>5. Len(tree.items[o]) + s[1].wants = Kids(blob[o])  BY <3>6, <3>7
      <4>6. Kids(blob[o]) \in Int  BY <1>10 DEF D
      <4>7. Len(tree.items[o]) \in Int /\ s[1].wants \in Int  BY <3>6, <4>2
      <4>8. (Len(tree.items[o]) + 1) + (s[1].wants - 1) = Kids(blob[o])
        <5>1. PICK l \in Int : l = Len(tree.items[o])  BY ONLY <4>7, Zenon
        <5>2. PICK w \in Int : w = s[1].wants  BY ONLY <4>7, Zenon
        <5>3. PICK x \in Int : x = Kids(blob[o])  BY ONLY <4>6, Zenon
        <5>4. l + w = x  BY ONLY <4>5, <5>1, <5>2, <5>3, Zenon
        <5>5. (l + 1) + (w - 1) = x  BY ONLY <5>4, l \in Int, w \in Int, x \in Int
        <5> QED  BY ONLY <5>1, <5>2, <5>3, <5>5, Zenon
      <4> QED  BY ONLY <4>2, <4>3, <4>8, Zenon
    <3>8. CASE k # 1
      <4>1. t[j] = s[k] /\ s[1].at # o  BY <2>5, <3>2, <3>4, <3>5, <3>8
      <4>2. Len(tree'.items[o]) = Len(tree.items[o])  BY <2>7, <4>1
      <4> QED  BY <3>6, <4>1, <4>2
    <3> QED  BY <3>7, <3>8
  <2>9. ASSUME NEW o \in D, \A j \in 1 .. Len(t) : t[j].at # o
        PROVE  Len(tree'.items[o]) = Kids(blob[o])
    <3>1. \A z \in 1 .. Len(r) : r[z].at # o  BY <2>2, <2>9
    <3>2. CASE \E k \in 1 .. Len(s) : s[k].at = o
      <4>1. PICK k \in 1 .. Len(s) : s[k].at = o  BY <3>2
      <4>2. s # <<>>  BY <4>1
      <4>3. k = 1 /\ s[1].wants = 1  BY <2>3, <3>1, <4>1, <4>2
      <4>4. Len(tree.items[o]) + 1 = Kids(blob[o])  BY <2>6, <4>1, <4>3
      <4> QED  BY <2>7, <4>1, <4>2, <4>3, <4>4
    <3>3. CASE \A k \in 1 .. Len(s) : s[k].at # o
      <4>1. Len(tree.items[o]) = Kids(blob[o])  BY <2>6, <3>3
      <4>2. s # <<>> => s[1].at # o
        <5>1. s # <<>> => 1 \in 1 .. Len(s)  BY <1>20
        <5> QED  BY <3>3, <5>1
      <4> QED  BY <2>7, <4>1, <4>2
    <3> QED  BY <3>2, <3>3
  <2>10. ASSUME NEW j \in 1 .. Len(t), t[j].at = c PROVE t[j].wants = K
    <3>1. \A z \in 1 .. Len(r) : r[z].at # c  BY <1>18 DEF r
    <3> QED  BY <2>1, <2>10, <3>1
  <2>11. (\A j \in 1 .. Len(t) : t[j].at # c) => K = 0  BY <2>2
  <2>12. Len(tree'.items[c]) = 0  BY <1>13
  <2>13. \A o \in D \cup {c} :
           /\ \A j \in 1 .. Len(t) : t[j].at = o => Len(tree'.items[o]) + t[j].wants = Kids(blob'[o])
           /\ (\A j \in 1 .. Len(t) : t[j].at # o) => Len(tree'.items[o]) = Kids(blob'[o])
    <3>1. \A o \in D : Kids(blob'[o]) = Kids(blob[o])  BY <1>5 DEF D
    <3>2. Kids(blob'[c]) = K /\ 0 + K = K  BY <1>2, <1>5
    <3> QED  BY <2>8, <2>9, <2>10, <2>11, <2>12, <3>1, <3>2
  <2>14. DOMAIN blob' = D \cup {c}  BY <1>5 DEF D
  <2> QED  BY <2>13, <2>14 DEF Counted, Lacks, t
<1>24. DOMAIN blob' # {} /\ Nested(b, tree.open, DOMAIN blob, remaining)'
  BY <1>5, <1>19
<1>25. Planted(b)'  BY <1>11, <1>22, <1>23, <1>24 DEF Planted
<1> QED  BY <1>6, <1>8, <1>25

LEMMA TreeInit == OInit("walk") => TInv
<1> SUFFICES ASSUME OInit("walk") PROVE TInv  OBVIOUS
<1>1. blob = <<>> /\ tree = [open |-> <<>>, items |-> <<>>] /\ cursor = 4 /\ remaining = 1 /\ pc = "walk"
  BY DEF OInit
<1>2. DOMAIN blob = {} /\ DOMAIN tree.items = {} /\ tree.open = <<>>
  BY <1>1
<1>3. PICK bal \in [DOMAIN blob \cup {cursor} -> Nat] : bal[cursor] = 1
  <2>1. [q \in DOMAIN blob \cup {cursor} |-> 1] \in [DOMAIN blob \cup {cursor} -> Nat]  OBVIOUS
  <2> QED  BY <2>1
<1>4. Planted(bal) /\ bal \in Debts
  BY <1>1, <1>2, <1>3 DEF Planted, Owing, ItemsAt, Counted, Debts
<1> QED  BY <1>1, <1>2, <1>4 DEF TInv

LEMMA TreeNext == OInv /\ TInv /\ [ONext]_ovars => TInv'
<1> SUFFICES ASSUME OInv, TInv, [ONext]_ovars PROVE TInv'  OBVIOUS
<1>t. objsArray \in Seq(Nat) /\ count = Len(objsArray) /\ Len(objsArray) \in Nat /\ cursor \in Nat /\ Follow
  BY DEF OInv, OTypes, Tiled
<1>r. \A o \in DOMAIN blob :
        blob[o].operand \in Nat /\ (IsRef(blob[o]) => blob[o].operand < Len(objsArray))
  BY DEF TInv
<1>c. cursor \notin DOMAIN blob
  <2>1. cursor \in Nat /\ \A o \in DOMAIN blob : o < cursor  BY <1>t DEF Follow
  <2> QED  BY ONLY <2>1
<1>1. ASSUME NEW tag \in Fitting, Consume(tag), Walking, Len(objsArray) <= Len(objsArray'), Len(objsArray') \in Nat,
             IsRef(tag) => tag.operand < Len(objsArray)
      PROVE  TInv'
  <2>1. remaining' \in Nat /\ \E bal \in Debts' : Planted(bal)'  BY <1>1, Planting DEF Walking
  <2>2. pc' = "walk"  BY <1>1 DEF Consume, Walking
  <2>3. /\ DOMAIN blob' = DOMAIN blob \cup {cursor} /\ blob'[cursor] = tag
        /\ \A o \in DOMAIN blob : blob'[o] = blob[o]
    BY <1>1, <1>c DEF Consume, Extend
  <2>4. \A n \in Nat : n < Len(objsArray) => n < Len(objsArray')  BY <1>t, <1>1
  <2>5. \A o \in DOMAIN blob' :
          blob'[o].operand \in Nat /\ (IsRef(blob'[o]) => blob'[o].operand < Len(objsArray'))
    BY <1>1, <1>r, <2>3, <2>4, FittingTag
  <2> QED  BY <2>1, <2>2, <2>5 DEF TInv
<1>2. ASSUME NEW tag \in Fitting, WalkObject(tag) PROVE TInv'
  <2>1. Len(objsArray') = Len(objsArray) + 1  BY <1>2, <1>t DEF WalkObject
  <2> QED  BY <1>1, <1>2, <1>t, <2>1 DEF WalkObject
<1>3. ASSUME NEW tag \in Fitting, WalkRef(tag) PROVE TInv'
  <2>1. objsArray' = objsArray  BY <1>3 DEF WalkRef
  <2> QED  BY <1>1, <1>3, <1>t, <2>1 DEF WalkRef
<1>4. ASSUME UNCHANGED walking, pc' \in {"parsed", "seek", "found"} => remaining = 0 PROVE TInv'
  <2>1. /\ blob' = blob /\ objsArray' = objsArray /\ tree' = tree /\ cursor' = cursor
        /\ remaining' = remaining
    BY <1>4 DEF walking
  <2>2. \A bal : Planted(bal) => Planted(bal)'
    BY <2>1 DEF Planted, Owing, ItemsAt, Counted
  <2>3. Debts' = Debts  BY <2>1 DEF Debts
  <2> QED  BY <1>4, <2>1, <2>2, <2>3 DEF TInv
<1>5. CASE Malformed \/ Parsed  BY <1>4, <1>5 DEF Malformed, Parsed
<1>6. CASE (\E idx \in 0 .. count - 1 : Seek(idx)) \/ SkipRef \/ PassObject \/ Arrive \/ Return
  <2>1. UNCHANGED walking /\ pc \in {"parsed", "seek", "found"}
    BY <1>6 DEF Seek, SkipRef, PassObject, Arrive, Return
  <2> QED  BY <1>4, <2>1 DEF TInv
<1>7. CASE UNCHANGED ovars
  <2>1. UNCHANGED walking /\ pc' = pc  BY <1>7 DEF ovars
  <2> QED  BY <1>4, <2>1 DEF TInv
<1> QED  BY <1>2, <1>3, <1>5, <1>6, <1>7 DEF ONext

----------------------------------------------------------------------------
(* Lookups                                                                 *)

(* A walk from an item ends where it first owes one less than there.       *)
LEMMA WalkEnds ==
  ASSUME OInv, NEW bal \in Debts, Owing(bal), remaining = 0,
         NEW o \in DOMAIN blob, NEW e \in DOMAIN blob \cup {cursor}, o < e, bal[o] = bal[e] + 1,
         \A q \in DOMAIN blob : o < q /\ q < e => bal[e] < bal[q]
  PROVE  ItemEnd(o) = e
<1> DEFINE D == DOMAIN blob
           Step(w) == IF w.owed = 0 THEN w
                      ELSE [at   |-> w.at + scalar_step(blob[w.at]),
                            owed |-> w.owed - 1 + Kids(blob[w.at])]
           S == {w \in [at : D \cup {cursor}, owed : Nat] :
                   /\ o <= w.at /\ w.at <= e /\ bal[w.at] = bal[e] + w.owed}
           K == cursor \div 4
           x == [at |-> o, owed |-> 1]
<1>1. cursor \in Nat /\ Follow  BY DEF OInv, OTypes, Tiled
<1>2. /\ \A q \in D :
           /\ q \in Nat /\ q < cursor /\ 4 <= scalar_step(blob[q]) /\ scalar_step(blob[q]) \in Nat
           /\ q + scalar_step(blob[q]) \in D \cup {cursor}
           /\ \A r \in D : r <= q \/ q + scalar_step(blob[q]) <= r
           /\ Kids(blob[q]) \in Nat /\ bal[q + scalar_step(blob[q])] = bal[q] - 1 + Kids(blob[q])
      /\ \A q \in D \cup {cursor} : q \in Nat /\ q <= cursor /\ bal[q] \in Nat
      /\ 4 <= o
  BY <1>1 DEF Follow, Owing, Debts, Pos
<1>3. o \in Nat /\ e \in Nat /\ bal[o] \in Nat /\ bal[e] \in Nat /\ K \in Nat /\ cursor < 4 * K + 4
  <2>1. \A c \in Nat : c \div 4 \in Nat /\ c < 4 * (c \div 4) + 4  OBVIOUS
  <2> QED  BY <1>1, <1>2, <2>1
<1>4. ASSUME NEW w \in S
      PROVE  /\ w.at \in D \cup {cursor} /\ w.owed \in Nat /\ w.at \in Nat
             /\ o <= w.at /\ w.at <= e /\ bal[w.at] = bal[e] + w.owed
             /\ w.owed = 0 => w.at = e
             /\ w.owed # 0 => w.at \in D /\ w.at < e
  <2>1. w.at \in D \cup {cursor} /\ w.owed \in Nat /\ o <= w.at /\ w.at <= e /\ bal[w.at] = bal[e] + w.owed
    BY <1>4
  <2>2. w.at \in Nat  BY <1>2, <2>1
  <2>3. w.at = e => w.owed = 0  BY <1>3, <2>1
  <2>4. w.at # e => w.at \in D /\ w.at < e
    <3>1. SUFFICES ASSUME w.at # e PROVE w.at \in D /\ w.at < e  OBVIOUS
    <3>2. w.at < e
      <4>1. \A a, b \in Nat : a <= b /\ a # b => a < b  OBVIOUS
      <4> QED  BY ONLY <1>3, <2>1, <2>2, <3>1, <4>1, Zenon
    <3>3. e <= cursor  BY <1>2
    <3> QED  BY <1>1, <1>3, <2>1, <2>2, <3>2, <3>3
  <2>5. w.at # e => w.owed # 0
    <3>1. SUFFICES ASSUME w.at # e, w.owed = 0 PROVE FALSE  OBVIOUS
    <3>2. w.at \in D /\ w.at < e /\ bal[w.at] = bal[e]  BY <1>3, <2>1, <2>4, <3>1
    <3>3. w.at # o  BY <1>3, <3>2
    <3>4. o < w.at  BY <1>3, <2>1, <2>2, <3>3
    <3> QED  BY <1>3, <3>2, <3>4
  <2> QED  BY <2>1, <2>2, <2>3, <2>4, <2>5
<1>5. ASSUME NEW w \in S PROVE Step(w) \in S
  <2>1. CASE w.owed = 0  BY <2>1
  <2>2. CASE w.owed # 0
    <3> DEFINE u == w.at
               r == u + scalar_step(blob[u])
               y == w.owed - 1 + Kids(blob[u])
    <3>1. u \in D /\ u < e /\ o <= u /\ u \in Nat /\ w.owed \in Nat /\ bal[u] = bal[e] + w.owed  BY <1>4, <2>2
    <3>2. /\ r \in D \cup {cursor} /\ r \in Nat /\ Kids(blob[u]) \in Nat /\ scalar_step(blob[u]) \in Nat
          /\ bal[r] = bal[u] - 1 + Kids(blob[u]) /\ (\A q \in D : q <= u \/ r <= q) /\ r <= cursor
      BY <1>2, <3>1
    <3>3. y \in Nat  BY <2>2, <3>1, <3>2
    <3>4. o <= r  BY <1>3, <3>1, <3>2
    <3>5. r <= e
      <4>1. e = cursor \/ e \in D  OBVIOUS
      <4> HIDE DEF u, r
      <4> QED  BY <1>3, <3>1, <3>2, <4>1
    <3>6. bal[r] = bal[e] + y  BY <1>3, <3>1, <3>2
    <3>7. Step(w) = [at |-> r, owed |-> y]  BY <2>2
    <3> HIDE DEF Step, r, y, u
    <3> QED  BY <3>2, <3>3, <3>4, <3>5, <3>6, <3>7
  <2> QED  BY <2>1, <2>2
<1>6. x \in S  BY <1>3
<1> DEFINE h == [w \in S |-> Step(w)]
<1>7. h \in [S -> S]
  <2> HIDE DEF Step, S
  <2> QED  BY <1>5
<1>8. PICK f \in [0 .. K -> S] : Iterates(f, x, h, K)
  <2> HIDE DEF h, S, x
  <2> QED  BY ONLY <1>3, <1>6, <1>7, Iterate
<1> DEFINE Rule(g) == [tags \in 0 .. K |-> IF tags = 0 THEN x
                         ELSE LET w == g[tags - 1]
                              IN IF w.owed = 0 THEN w
                                 ELSE [at   |-> w.at + scalar_step(blob[w.at]),
                                       owed |-> w.owed - 1 + Kids(blob[w.at])]]
           after == CHOOSE g : g = Rule(g)
<1>9. ItemEnd(o) = after[K].at  BY DEF ItemEnd
<1>10. \A n \in 1 .. K : n - 1 \in 0 .. K /\ n \in 0 .. K /\ f[n] = Step(f[n - 1])
  <2>1. \A n \in 1 .. K : n - 1 \in 0 .. K /\ n \in 0 .. K  BY <1>3
  <2> HIDE DEF Step, K
  <2>2. \A n \in 1 .. K : f[n - 1] \in S  BY <2>1
  <2> HIDE DEF S
  <2> QED  BY <1>8, <2>1, <2>2 DEF Iterates
<1>11. f[0] = x  BY <1>8 DEF Iterates
<1>12. f = Rule(f)
  <2>1. \A n \in 0 .. K : f[n] = IF n = 0 THEN x ELSE Step(f[n - 1])
    <3> HIDE DEF Step, x
    <3> QED  BY <1>3, <1>10, <1>11
  <2>2. f = [n \in 0 .. K |-> IF n = 0 THEN x ELSE Step(f[n - 1])]
    <3> HIDE DEF Step, x, S
    <3> QED  BY <2>1
  <2>3. Rule(f) = [n \in 0 .. K |-> IF n = 0 THEN x ELSE Step(f[n - 1])]
    <3> HIDE DEF x, S
    <3> QED  OBVIOUS
  <2> HIDE DEF Rule, Step, x
  <2> QED  BY ONLY <2>2, <2>3
<1>13. after = Rule(after)
  <2> HIDE DEF x, S
  <2> QED  BY ONLY <1>12
<1>14. \A n \in 0 .. K : after[n] = IF n = 0 THEN x ELSE Step(after[n - 1])
  <2> HIDE DEF after, x
  <2> QED  BY <1>13
<1> HIDE DEF after, Rule, h
<1> DEFINE T == {n \in Nat : n <= K => after[n] = f[n] /\ (f[n].owed = 0 \/ o + 4 * n <= f[n].at)}
<1>15. 0 \in T
  <2>1. 0 \in 0 .. K /\ after[0] = x
    <3> HIDE DEF x, Step, S
    <3> QED  BY <1>3, <1>14
  <2>2. o + 4 * 0 <= f[0].at  BY <1>3, <1>11
  <2> HIDE DEF x
  <2> QED  BY <1>11, <2>1, <2>2
<1>16. ASSUME NEW n \in T PROVE n + 1 \in T
  <2> SUFFICES ASSUME n + 1 <= K
               PROVE after[n + 1] = f[n + 1] /\ (f[n + 1].owed = 0 \/ o + 4 * (n + 1) <= f[n + 1].at)
    OBVIOUS
  <2>1. n \in Nat /\ n <= K /\ n \in 0 .. K /\ n + 1 \in 1 .. K /\ n + 1 \in 0 .. K /\ n + 1 - 1 = n /\ n + 1 # 0
    BY <1>3
  <2>2. after[n] = f[n] /\ (f[n].owed = 0 \/ o + 4 * n <= f[n].at)  BY <2>1
  <2>3. f[n + 1] = Step(f[n]) /\ after[n + 1] = Step(after[n])
    <3> HIDE DEF Step
    <3> QED  BY <1>10, <1>14, <2>1
  <2>4. after[n + 1] = f[n + 1]
    <3> HIDE DEF Step
    <3> QED  BY <2>2, <2>3
  <2>5. f[n] \in S  BY <1>8, <2>1
  <2>6. CASE f[n].owed = 0  BY <2>3, <2>4, <2>6
  <2>7. CASE f[n].owed # 0
    <3>1. f[n].at \in D /\ f[n].at \in Nat  BY <1>4, <2>5, <2>7
    <3>2. f[n + 1].at = f[n].at + scalar_step(blob[f[n].at])  BY <2>3, <2>7
    <3>3. scalar_step(blob[f[n].at]) \in Nat /\ 4 <= scalar_step(blob[f[n].at])  BY <1>2, <3>1
    <3>4. o + 4 * n <= f[n].at  BY <2>2, <2>7
    <3>5. \A a, b, m, s \in Nat : a + 4 * m <= b /\ 4 <= s => a + 4 * (m + 1) <= b + s  OBVIOUS
    <3>6. o + 4 * (n + 1) <= f[n + 1].at  BY ONLY <1>3, <2>1, <3>1, <3>2, <3>3, <3>4, <3>5
    <3> QED  BY <2>4, <3>6
  <2> QED  BY <2>6, <2>7
<1>17. T = Nat
  <2> HIDE DEF T
  <2> QED  BY <1>15, <1>16, Induct DEF T
<1>18. K \in 0 .. K /\ K <= K  BY <1>3
<1>19. after[K] = f[K] /\ (f[K].owed = 0 \/ o + 4 * K <= f[K].at) /\ f[K] \in S
  <2> HIDE DEF S, K
  <2> QED  BY <1>3, <1>8, <1>17, <1>18
<1>20. f[K].owed = 0
  <2>1. f[K].at <= e /\ e <= cursor /\ f[K].at \in Nat  BY <1>2, <1>4, <1>19
  <2>2. ~(o + 4 * K <= f[K].at)
    <3> HIDE DEF K
    <3> QED  BY ONLY <1>1, <1>2, <1>3, <2>1
  <2> QED  BY <1>19, <2>2
<1>21. f[K].at = e
  <2> HIDE DEF S, K
  <2> QED  BY <1>4, <1>19, <1>20
<1> QED  BY <1>9, <1>19, <1>21

LEMMA Resolved ==
  ASSUME OInv, TInv, NEW o \in DOMAIN blob
  PROVE  resolve(o) \in DOMAIN blob
<1>1. CASE IsRef(blob[o])
  <2>1. objsArray \in Seq(Nat)  BY DEF OInv, OTypes
  <2>2. blob[o].operand \in Nat /\ blob[o].operand < Len(objsArray)  BY <1>1 DEF TInv
  <2>3. blob[o].operand + 1 \in 1 .. Len(objsArray)  BY <2>1, <2>2
  <2> QED  BY <1>1, <2>3 DEF resolve, OInv, Tiled, Numbered
<1>2. CASE ~IsRef(blob[o])  BY <1>2 DEF resolve
<1> QED  BY <1>1, <1>2

(* A complete tree.                                                        *)
Grown(bal) ==
  /\ Owing(bal) /\ ItemsAt(bal) /\ remaining = 0
  /\ \A o \in DOMAIN blob : Len(tree.items[o]) = Kids(blob[o])

LEMMA Complete ==
  ASSUME TInv, pc = "parsed"
  PROVE  \E bal \in Debts : Grown(bal)
<1>1. PICK bal \in Debts : Planted(bal)  BY DEF TInv
<1>2. remaining = 0  BY DEF TInv
<1> DEFINE D == DOMAIN blob
           s == tree.open
<1>3. Nested(bal, s, D, 0)  BY <1>1, <1>2 DEF Planted
<1>4. s = <<>>
  <2>1. SUFFICES ASSUME s # <<>> PROVE FALSE  OBVIOUS
  <2> DEFINE R == [at : D, wants : Pos]
  <2>2. s \in Seq(R)  BY <1>3 DEF Nested
  <2>3. 1 \in 1 .. Len(s) /\ s[1] \in R
    <3> HIDE DEF R, s
    <3> QED  BY <2>1, <2>2
  <2>4. Level(bal, s, 1) = 1  BY <1>3, <2>3 DEF Nested
  <2>5. s[1].at \in D /\ s[1].wants \in Pos  BY <2>3
  <2>6. bal[s[1].at] \in Nat /\ bal[s[1].at] > 0  BY <1>1, <2>5 DEF Planted, Owing, Debts
  <2>7. bal[s[1].at] + s[1].wants = 1  BY <2>4 DEF Level
  <2>8. PICK w \in Pos : w = s[1].wants  BY ONLY <2>5, Zenon
  <2>9. PICK x \in Nat : x = bal[s[1].at] /\ x > 0  BY ONLY <2>6, Zenon
  <2>10. x + w = 1  BY ONLY <2>7, <2>8, <2>9, Zenon
  <2> QED  BY ONLY <2>9, <2>10, w \in Pos, x \in Nat DEF Pos
<1>5. \A o \in D : Lacks(s, o) = {}
  <2>1. \A u : u = <<>> => 1 .. Len(u) = {}  OBVIOUS
  <2>2. 1 .. Len(s) = {}  BY ONLY <1>4, <2>1
  <2> QED  BY <2>2 DEF Lacks
<1> QED  BY <1>1, <1>2, <1>5 DEF Planted, Counted, Grown

LEMMA Items ==
  ASSUME OInv, NEW bal \in Debts, Grown(bal), NEW o \in DOMAIN blob
  PROVE  /\ \A n \in 1 .. Len(tree.items[o]) : n + 1 \in 1 .. Len(tree.items[o]) =>
              ItemEnd(tree.items[o][n]) = tree.items[o][n + 1]
         /\ Len(tree.items[o]) > 0 => tree.items[o][1] = o + 4
<1> DEFINE D == DOMAIN blob
           K == Kids(blob[o])
           t == tree.items[o]
<1>1. cursor \in Nat /\ Follow  BY DEF OInv, OTypes, Tiled
<1>2. /\ \A q \in D : q \in Nat /\ q < cursor /\ bal[q] \in Nat
      /\ o \in Nat /\ bal[o] \in Nat /\ K \in Nat /\ t \in Seq(Nat) /\ Len(t) = K
      /\ \A n \in 1 .. K : ItemAt(bal, blob, o, n, t[n])
  BY <1>1 DEF Follow, Debts, Grown, Owing, ItemsAt
<1> HIDE DEF K, t
<1>3. ASSUME NEW n \in 1 .. K, n + 1 \in 1 .. K PROVE ItemEnd(t[n]) = t[n + 1]
  <2> DEFINE a == t[n]
             e == t[n + 1]
  <2>1. /\ a \in D /\ o < a /\ bal[a] = bal[o] + K - n
        /\ \A q \in D : o < q /\ q < a => bal[a] < bal[q]
    BY <1>2 DEF ItemAt, K
  <2>2. /\ e \in D /\ o < e /\ bal[e] = bal[o] + K - (n + 1)
        /\ \A q \in D : o < q /\ q < e => bal[e] < bal[q]
    BY <1>2, <1>3 DEF ItemAt, K
  <2> HIDE DEF a, e
  <2>3. bal[a] = bal[e] + 1 /\ a \in Nat /\ e \in Nat /\ bal[a] \in Nat /\ bal[e] \in Nat
    BY <1>2, <2>1, <2>2
  <2>4. a < e
    <3>1. a # e  BY <2>3
    <3>2. ~(e < a)
      <4>1. SUFFICES ASSUME e < a PROVE FALSE  OBVIOUS
      <4>2. bal[a] < bal[e]  BY <2>1, <2>2, <4>1
      <4> QED  BY <2>3, <4>2
    <3> QED  BY <2>3, <3>1, <3>2
  <2>5. \A q \in D : a < q /\ q < e => bal[e] < bal[q]
    <3>1. \A q \in D : a < q => o < q
      <4>1. SUFFICES ASSUME NEW q \in D, a < q PROVE o < q  OBVIOUS
      <4>2. q \in Nat  BY <1>2
      <4> QED  BY ONLY <1>2, <2>1, <2>3, <4>1, <4>2
    <3> QED  BY <2>2, <3>1
  <2>6. Owing(bal) /\ remaining = 0  BY DEF Grown
  <2>7. ItemEnd(a) = e  BY ONLY OInv, bal \in Debts, <2>1, <2>2, <2>3, <2>4, <2>5, <2>6, WalkEnds
  <2> QED  BY <2>7 DEF a, e
<1>4. ASSUME K > 0 PROVE t[1] = o + 4
  <2> DEFINE z == t[1]
             r == o + 4
  <2>1. 1 \in 1 .. K  BY <1>2, <1>4
  <2>2. /\ z \in D /\ o < z /\ bal[z] = bal[o] + K - 1
        /\ \A q \in D : o < q /\ q < z => bal[z] < bal[q]
    BY <1>2, <2>1 DEF ItemAt, K
  <2>3. scalar_step(blob[o]) = 4  BY <1>4 DEF Grown, Owing, K
  <2>4. r \in D \cup {cursor} /\ bal[r] = bal[o] - 1 + K /\ (\A q \in D : q <= o \/ r <= q)
    BY <1>1, <2>3 DEF Follow, Grown, Owing, K
  <2>5. r \in Nat /\ o < r  BY <1>2
  <2> HIDE DEF z, r
  <2>6. z \in Nat /\ z < cursor /\ bal[z] = bal[r]  BY <1>2, <2>2, <2>4
  <2>7. r <= z
    <3>1. z <= o \/ r <= z  BY <2>2, <2>4
    <3> QED  BY ONLY <1>2, <2>2, <2>6, <3>1
  <2>8. ~(r < z)
    <3>1. SUFFICES ASSUME r < z PROVE FALSE  OBVIOUS
    <3>2. r # cursor  BY ONLY <1>1, <2>5, <2>6, <3>1
    <3>3. r \in D /\ bal[r] \in Nat  BY <1>2, <2>4, <3>2
    <3>4. bal[z] < bal[r]  BY <2>2, <2>5, <3>1, <3>3
    <3> QED  BY ONLY <2>6, <3>3, <3>4
  <2>9. z = r  BY ONLY <2>5, <2>6, <2>7, <2>8
  <2> QED  BY <2>9 DEF z, r
<1> QED  BY <1>2, <1>3, <1>4 DEF t

(* Where a lookup is that has skipped n items of a container.              *)
LEMMA Skipped ==
  ASSUME OInv, NEW bal \in Debts, Grown(bal), NEW o \in DOMAIN blob,
         NEW n \in Nat, n + 1 \in 1 .. Len(tree.items[o])
  PROVE  ItemAfter(o + 4, n) = tree.items[o][n + 1]
<1> DEFINE t == tree.items[o]
           first == o + 4
           Rule(g) == [k \in 0 .. n |-> IF k = 0 THEN first ELSE ItemEnd(g[k - 1])]
           box == CHOOSE g : g = Rule(g)
           f == [k \in 0 .. n |-> t[k + 1]]
<1>1. t \in Seq(Nat) /\ Len(t) \in Nat  BY DEF Grown, ItemsAt
<1>2. t[1] = first /\ \A k \in 1 .. Len(t) : k + 1 \in 1 .. Len(t) => ItemEnd(t[k]) = t[k + 1]
  BY Items, <1>1
<1>3. \A k \in 0 .. n : k \in Nat /\ k + 1 \in 1 .. Len(t) /\ (k # 0 => k - 1 \in 0 .. n /\ k \in 1 .. Len(t) /\ (k - 1) + 1 = k)
  BY <1>1
<1> HIDE DEF t, first
<1>4. f = Rule(f)
  <2>1. \A k \in 0 .. n : t[k + 1] = IF k = 0 THEN first ELSE ItemEnd(f[k - 1])
    <3>1. SUFFICES ASSUME NEW k \in 0 .. n PROVE t[k + 1] = IF k = 0 THEN first ELSE ItemEnd(f[k - 1])  OBVIOUS
    <3>2. CASE k = 0  BY <1>2, <3>2
    <3>3. CASE k # 0
      <4>1. f[k - 1] = t[k]  BY <1>3, <3>3
      <4> HIDE DEF f
      <4>2. ItemEnd(f[k - 1]) = t[k + 1]  BY <1>2, <1>3, <3>3, <4>1
      <4> QED  BY <3>3, <4>2
    <3> QED  BY <3>2, <3>3
  <2> QED  BY <2>1
<1>5. box = Rule(box)
  <2> HIDE DEF f
  <2> QED  BY ONLY <1>4
<1>6. \A k \in 0 .. n : box[k] = IF k = 0 THEN first ELSE ItemEnd(box[k - 1])
  <2> HIDE DEF box
  <2> QED  BY <1>5
<1>7. \A k \in 0 .. n : f[k] = t[k + 1]  OBVIOUS
<1>8. ItemAfter(o + 4, n) = box[n]  BY DEF ItemAfter, first
<1> HIDE DEF box, f, Rule
<1> DEFINE T == {k \in Nat : k <= n => box[k] = t[k + 1]}
<1>9. 0 \in T
  <2>1. 0 \in 0 .. n  OBVIOUS
  <2> QED  BY <1>2, <1>6, <2>1
<1>10. ASSUME NEW k \in T PROVE k + 1 \in T
  <2> SUFFICES ASSUME k + 1 <= n PROVE box[k + 1] = t[(k + 1) + 1]  OBVIOUS
  <2>1. k \in Nat /\ k <= n /\ k + 1 \in 0 .. n /\ k + 1 # 0 /\ k + 1 - 1 = k  OBVIOUS
  <2>2. box[k] = t[k + 1]  BY <2>1
  <2>3. box[k + 1] = ItemEnd(box[k])  BY <1>6, <2>1
  <2>4. k + 1 \in 1 .. Len(t) /\ (k + 1) + 1 \in 1 .. Len(t)  BY <1>3, <2>1
  <2> QED  BY <1>2, <2>2, <2>3, <2>4
<1>11. T = Nat
  <2> HIDE DEF T
  <2> QED  BY <1>9, <1>10, Induct DEF T
<1>12. box[n] = t[n + 1]
  <2>1. n \in T /\ n <= n  BY <1>11
  <2> HIDE DEF box
  <2> QED  BY <2>1
<1> QED  BY <1>8, <1>12 DEF t

Foremost(T) == CHOOSE n \in T : \A m \in T : n <= m

LEMMA ForemostIs ==
  ASSUME NEW T \in SUBSET Nat, NEW n \in T, \A m \in T : n <= m
  PROVE  Foremost(T) = n
<1>1. \A m \in T : (\A k \in T : m <= k) => m = n
  <2>1. SUFFICES ASSUME NEW m \in T, \A k \in T : m <= k PROVE m = n  OBVIOUS
  <2>2. m <= n /\ n <= m /\ m \in Nat /\ n \in Nat  BY <2>1
  <2> QED  BY ONLY <2>2
<1> QED  BY <1>1 DEF Foremost

(* find_dict tries the pairs in order.                                     *)
LEMMA FoundFirst ==
  ASSUME OInv, NEW bal \in Debts, Grown(bal), NEW box \in DOMAIN blob, blob[box].ty = "dict",
         blob[box].operand \in Nat, NEW key, NEW dict, box = resolve(dict)
  PROVE  LET items == tree.items[box]
             Hits == {n \in 1 .. blob[box].operand : KeyAt(items[2 * n - 1]) = key}
         IN find_dict(dict, key) = IF Hits = {} THEN 0 ELSE items[2 * Foremost(Hits)]
<1> DEFINE t == tree.items[box]
           P == blob[box].operand
           Hit(n) == KeyAt(t[2 * n - 1]) = key
           Late(left) == {n \in 1 .. P : n > P - left /\ Hit(n)}
           From(left) == IF Late(left) = {} THEN 0 ELSE t[2 * Foremost(Late(left))]
           Rule(g) == [left \in 0 .. P |->
                         IF left = 0 THEN 0
                         ELSE LET o == ItemAfter(box + 4, 2 * (P - left))
                              IN IF KeyAt(o) = key THEN ItemEnd(o) ELSE g[left - 1]]
           search == CHOOSE g : g = Rule(g)
           f == [left \in 0 .. P |-> From(left)]
<1>0. find_dict(dict, key) = search[P]
  <2> DEFINE a == resolve(dict)
             u == blob[a].operand
             Law(g) == [left \in 0 .. u |->
                         IF left = 0 THEN 0
                         ELSE LET o == ItemAfter(a + 4, 2 * (u - left))
                              IN IF KeyAt(o) = key THEN ItemEnd(o) ELSE g[left - 1]]
  <2>1. find_dict(dict, key) = IF blob[a].ty = "dict" THEN (CHOOSE g : g = Law(g))[u] ELSE 0
    BY DEF find_dict
  <2>2. a = box  OBVIOUS
  <2> QED  BY ONLY <2>1, <2>2, blob[box].ty = "dict"
<1>1. Len(t) = 2 * P /\ P \in Nat
  BY DEF Grown, Kids, Pairs
<1> HIDE DEF P, t
<1>2. ASSUME NEW left \in 0 .. P, left # 0
      PROVE  /\ P - left + 1 \in 1 .. P /\ left - 1 \in 0 .. P
             /\ ItemAfter(box + 4, 2 * (P - left)) = t[2 * (P - left + 1) - 1]
             /\ ItemEnd(t[2 * (P - left + 1) - 1]) = t[2 * (P - left + 1)]
  <2>1. /\ P - left + 1 \in 1 .. P /\ left - 1 \in 0 .. P /\ 2 * (P - left) \in Nat
        /\ 2 * (P - left) + 1 = 2 * (P - left + 1) - 1
        /\ 2 * (P - left + 1) - 1 \in 1 .. 2 * P
        /\ (2 * (P - left + 1) - 1) + 1 = 2 * (P - left + 1)
        /\ 2 * (P - left + 1) \in 1 .. 2 * P
    BY <1>1, <1>2
  <2>2. ItemAfter(box + 4, 2 * (P - left)) = t[2 * (P - left) + 1]
    <3> DEFINE n == 2 * (P - left)
    <3>1. n \in Nat /\ n + 1 \in 1 .. Len(t)  BY <1>1, <2>1
    <3> HIDE DEF n
    <3>2. ItemAfter(box + 4, n) = t[n + 1]  BY <3>1, Skipped DEF t
    <3> QED  BY <3>2 DEF n
  <2>3. ItemEnd(t[2 * (P - left + 1) - 1]) = t[(2 * (P - left + 1) - 1) + 1]
    <3> DEFINE n == 2 * (P - left + 1) - 1
    <3>1. n \in 1 .. Len(t) /\ n + 1 \in 1 .. Len(t)  BY <1>1, <2>1
    <3> HIDE DEF n
    <3>2. ItemEnd(t[n]) = t[n + 1]  BY <3>1, Items DEF t
    <3> QED  BY <3>2 DEF n
  <2> QED  BY <2>1, <2>2, <2>3
<1> HIDE DEF Hit
<1>3. Late(0) = {}
  <2>1. \A n \in 1 .. P : ~(n > P - 0)  BY <1>1
  <2> QED  BY <2>1
<1>4. ASSUME NEW left \in 0 .. P, left # 0
      PROVE  From(left) = IF Hit(P - left + 1) THEN t[2 * (P - left + 1)] ELSE From(left - 1)
  <2> DEFINE m == P - left + 1
  <2>1. m \in 1 .. P  BY <1>2, <1>4
  <2>2. \A n \in 1 .. P : (n > P - left <=> (n = m \/ n > P - (left - 1))) /\ (n > P - left => m <= n)
    BY <1>1, <1>4
  <2>3. m > P - left  BY <1>1, <1>4
  <2>4. CASE Hit(m)
    <3>1. m \in Late(left) /\ Late(left) \in SUBSET Nat  BY <1>1, <2>1, <2>3, <2>4
    <3>2. \A n \in Late(left) : m <= n  BY <2>2
    <3> HIDE DEF Late, m
    <3>3. Foremost(Late(left)) = m  BY ONLY <3>1, <3>2, ForemostIs
    <3>4. From(left) = t[2 * m]  BY <3>1, <3>3
    <3> QED  BY <2>4, <3>4 DEF m
  <2>5. CASE ~Hit(m)
    <3>1. Late(left) = Late(left - 1)  BY <2>2, <2>5
    <3> HIDE DEF Late
    <3>2. From(left) = From(left - 1)  BY <3>1
    <3> QED  BY <2>5, <3>2
  <2> QED  BY <2>4, <2>5
<1>5. ASSUME NEW left \in 0 .. P, left # 0
      PROVE  LET o == ItemAfter(box + 4, 2 * (P - left))
             IN /\ KeyAt(o) = key <=> Hit(P - left + 1)
                /\ ItemEnd(o) = t[2 * (P - left + 1)]
  BY <1>2, <1>5 DEF Hit
<1>6. f = Rule(f)
  <2>1. ASSUME NEW left \in 0 .. P
        PROVE  From(left) = IF left = 0 THEN 0
                            ELSE LET o == ItemAfter(box + 4, 2 * (P - left))
                                 IN IF KeyAt(o) = key THEN ItemEnd(o) ELSE f[left - 1]
    <3>1. CASE left = 0  BY <1>3, <3>1
    <3>2. CASE left # 0
      <4>1. f[left - 1] = From(left - 1)  BY <1>2, <3>2
      <4> HIDE DEF From, f
      <4> QED  BY <1>4, <1>5, <3>2, <4>1
    <3> QED  BY <3>1, <3>2
  <2> HIDE DEF From
  <2> QED  BY <2>1
<1>7. search = Rule(search)
  <2> HIDE DEF f
  <2> QED  BY ONLY <1>6
<1>8. \A left \in 0 .. P :
        search[left] = IF left = 0 THEN 0
                       ELSE LET o == ItemAfter(box + 4, 2 * (P - left))
                            IN IF KeyAt(o) = key THEN ItemEnd(o) ELSE search[left - 1]
  <2> HIDE DEF search
  <2> QED  BY <1>7
<1> HIDE DEF search, f, Rule, From
<1> DEFINE T == {left \in Nat : left <= P => search[left] = From(left)}
<1>9. 0 \in T
  <2>1. 0 \in 0 .. P  BY <1>1
  <2>2. From(0) = 0  BY <1>3 DEF From
  <2> QED  BY <1>8, <2>1, <2>2
<1>10. ASSUME NEW k \in T PROVE k + 1 \in T
  <2> SUFFICES ASSUME k + 1 <= P PROVE search[k + 1] = From(k + 1)  OBVIOUS
  <2>1. k \in Nat /\ k <= P /\ k + 1 \in 0 .. P /\ k + 1 # 0 /\ k + 1 - 1 = k  BY <1>1
  <2>2. search[k] = From(k)  BY <2>1
  <2> DEFINE left == k + 1
  <2>3. left \in 0 .. P /\ left # 0 /\ left - 1 = k  BY <2>1
  <2> HIDE DEF left
  <2>4. search[left] = From(left)  BY <1>4, <1>5, <1>8, <2>2, <2>3
  <2> QED  BY <2>4 DEF left
<1>11. T = Nat
  <2> HIDE DEF T
  <2> QED  BY <1>9, <1>10, Induct DEF T
<1>12. search[P] = From(P)
  <2>1. P \in T /\ P <= P  BY <1>1, <1>11
  <2> HIDE DEF search
  <2> QED  BY <2>1
<1>13. Late(P) = {n \in 1 .. P : Hit(n)}
  <2>1. \A n \in 1 .. P : n > P - P  BY <1>1
  <2> QED  BY <2>1
<1> HIDE DEF Late
<1>14. find_dict(dict, key) = IF Late(P) = {} THEN 0 ELSE t[2 * Foremost(Late(P))]
  BY <1>0, <1>12 DEF From
<1> QED  BY <1>13, <1>14 DEF P, t, Hit

(* The lookups, by index and by key, find what the kernel's tree holds, in *)
(* every stream and through references: a walk that counts the items it    *)
(* owes down to zero stands at the end of the item it began with.          *)
THEOREM DecoderLookupExact == OSpec => []LookupExact
<1>1. OInit("walk") => OInv /\ TInv  BY OInitInv, TreeInit
<1>2. OInv /\ TInv /\ [ONext]_ovars => (OInv /\ TInv)'  BY ONextInv, TreeNext
<1>3. OInv /\ TInv => LookupExact
  <2>1. SUFFICES ASSUME OInv, TInv, pc = "parsed", NEW o \in DOMAIN blob
                 PROVE  LET box == resolve(o)
                            items == tree.items[box]
                            KeyHits(key) == {n \in 1 .. blob[box].operand : KeyAt(items[2 * n - 1]) = key}
                        IN /\ blob[box].ty = "array" => for_each_array(o) = items
                           /\ blob[box].ty = "dict" => \A key \in Keys :
                                find_dict(o, key) =
                                  IF KeyHits(key) = {} THEN 0 ELSE items[2 * Foremost(KeyHits(key))]
    BY DEF LookupExact, Foremost
  <2>2. PICK bal \in Debts : Grown(bal)  BY <2>1, Complete
  <2> DEFINE box == resolve(o)
             t == tree.items[box]
             P == blob[box].operand
  <2>3. box \in DOMAIN blob  BY <2>1, Resolved
  <2>4. P \in Nat /\ t \in Seq(Nat) /\ Len(t) = Kids(blob[box])
    BY <2>1, <2>2, <2>3 DEF TInv, Grown, ItemsAt
  <2>5. ASSUME blob[box].ty = "array" PROVE for_each_array(o) = t
    <3>1. Len(t) = P  BY <2>4, <2>5 DEF Kids, Pairs
    <3>2. \A n \in 1 .. P : ItemAfter(box + 4, n - 1) = t[n]
      <4>1. SUFFICES ASSUME NEW n \in 1 .. P PROVE ItemAfter(box + 4, n - 1) = t[n]  OBVIOUS
      <4> DEFINE m == n - 1
      <4>2. m \in Nat /\ m + 1 = n /\ m + 1 \in 1 .. Len(t)  BY <2>4, <3>1, <4>1
      <4> HIDE DEF m, box
      <4>3. ItemAfter(box + 4, m) = t[m + 1]  BY <2>1, <2>2, <2>3, <4>2, Skipped
      <4> QED  BY <4>2, <4>3 DEF m
    <3>3. for_each_array(o) = [n \in 1 .. P |-> ItemAfter(box + 4, n - 1)]  BY <2>5 DEF for_each_array
    <3> HIDE DEF t, P, box
    <3>4. t = [n \in 1 .. P |-> t[n]]  BY <2>4, <3>1
    <3>5. [n \in 1 .. P |-> ItemAfter(box + 4, n - 1)] = [n \in 1 .. P |-> t[n]]  BY <3>2
    <3> QED  BY <3>3, <3>4, <3>5
  <2>6. ASSUME blob[box].ty = "dict", NEW key \in Keys
        PROVE  LET KeyHits == {n \in 1 .. P : KeyAt(t[2 * n - 1]) = key}
               IN find_dict(o, key) = IF KeyHits = {} THEN 0 ELSE t[2 * Foremost(KeyHits)]
    <3> HIDE DEF box
    <3>1. box = resolve(o)  BY DEF box
    <3> QED  BY ONLY OInv, bal \in Debts, <2>2, <2>3, <2>4, <2>6, <3>1, FoundFirst
  <2> QED  BY <2>5, <2>6
<1> QED  BY <1>1, <1>2, <1>3, PTL DEF OSpec

----------------------------------------------------------------------------
(* Reclaim at start-up                                                     *)

Stack == Named("stack")

MTypes ==
  /\ given \in Spaces /\ regions \subseteq given
  /\ os = IF Kind(given, "text") = {} THEN "linux" ELSE "macos"
  /\ at \in {"entry", "up", "down", "sweep", "run"}
  /\ sp \in Stack
  /\ p \in Nat /\ last_mapped \in Nat /\ moved \in BOOLEAN
  /\ at = "sweep" => os = "macos"
  /\ at \in {"entry", "up", "down"} => regions = given

(* What stays: everything but zones; and what is dropped: nothing beside   *)
(* the stack, and never the page of the frame.                             *)
Stays == \A r \in given : r.what # "zone" => r \in regions
Contents == (Mapped \ Stack) \cup {sp} \subseteq dirty

(* On the way up everything from the frame to the last page dropped is     *)
(* stack; on the way down everything above the walk is, and only the new   *)
(* page has contents.                                                      *)
OnWay ==
  /\ at = "entry" => ~moved
  /\ at = "up" => /\ os = "linux" /\ ~moved
                  /\ p = last_mapped + 1 /\ sp <= last_mapped /\ last_mapped \in Stack
  /\ at = "down" => /\ moved /\ p < sp /\ p + 1 .. sp \subseteq Stack
                    /\ \A k \in Stack : p < k /\ k # sp => k \notin dirty
  /\ at \in {"sweep", "run"} /\ moved => dirty \cap Stack = {sp}

Swept(r) == r.what = "zone" /\ r.hi <= p => r \in refused
SweptSoFar == os = "macos" /\ at \in {"sweep", "run"} => \A r \in regions : Swept(r)

MInv == MTypes /\ Stays /\ Contents /\ OnWay /\ SweptSoFar

(* The stack's pages are those of one region, fenced on both sides.        *)
LEMMA StackRegion ==
  ASSUME MTypes
  PROVE  \E R \in given :
           /\ R.what = "stack" /\ Stack = Pages(R)
           /\ R.lo \in Nat \ {0} /\ R.hi \in Nat /\ R.lo < R.hi
           /\ \A q \in given : q = R \/ Apart(q, R)
           /\ \A q \in given : Adjoin(q, R) => q.what = "guard"
           /\ \A q \in given : Adjoin(R, q) => q.what = "guard" \/ os = "macos"
<1>1. given \in Spaces /\ Distinct(given) /\ Fenced(given)
  BY ReclaimAssumption DEF MTypes, ReclaimAssumption
<1>2. PICK R \in Kind(given, "stack") : sp \in Pages(R)
  BY DEF MTypes, Stack, Named
<1>3. R \in given /\ R.what = "stack"
  BY <1>2 DEF Kind
<1>4. Stack = Pages(R)
  <2>1. Kind(given, "stack") = {R}
    BY <1>1, <1>2 DEF Distinct
  <2> QED
    BY <2>1 DEF Stack, Named
<1>5. \A q \in given : q = R \/ Apart(q, R)
  BY <1>1, <1>3 DEF Distinct
<1>6. R.lo \in Nat \ {0} /\ R.hi \in Nat /\ R.lo < R.hi
  BY <1>1, <1>3 DEF Distinct
<1>7. /\ \A q \in given : Adjoin(q, R) => q.what = "guard"
      /\ \A q \in given : Adjoin(R, q) => q.what = "guard" \/ os = "macos"
  BY <1>1, <1>2 DEF Fenced, MTypes
<1> QED
  BY <1>3, <1>4, <1>5, <1>6, <1>7

LEMMA RegionBounds ==
  ASSUME MTypes, NEW r \in given
  PROVE  /\ r.lo \in Nat \ {0} /\ r.hi \in Nat /\ r.lo < r.hi
         /\ \A s \in given : r = s \/ Apart(r, s)
BY ReclaimAssumption DEF MTypes, ReclaimAssumption, Distinct

(* Pages of different regions are different.                               *)
LEMMA PagesApart ==
  ASSUME MTypes, NEW r \in given, NEW s \in given, r # s, NEW k \in Pages(r)
  PROVE  k \notin Pages(s)
<1>1. Apart(r, s) /\ r.lo \in Nat /\ r.hi \in Nat /\ s.lo \in Nat /\ s.hi \in Nat
  BY RegionBounds
<1>2. k \in r.lo .. r.hi - 1
  BY DEF Pages
<1>3. k \notin s.lo .. s.hi - 1
  BY <1>1, <1>2 DEF Apart
<1> QED
  BY <1>3 DEF Pages

(* The arena's ends are those of its first and its last region.            *)
LEMMA ArenaEnds ==
  ASSUME MTypes, os = "macos"
  PROVE  \E first, last \in Kind(given, "arena") :
           /\ ArenaLo = first.lo /\ ArenaHi = last.hi
           /\ \A r \in Kind(given, "arena") : first.lo <= r.lo /\ r.hi <= last.hi
<1>1. PICK first, last \in Kind(given, "arena") :
        \A r \in Kind(given, "arena") : first.lo <= r.lo /\ r.hi <= last.hi
  BY ReclaimAssumption DEF MTypes, ReclaimAssumption, Furnished
<1> DEFINE A == Named("arena")
<1>2. \A k \in A : \E r \in Kind(given, "arena") : k \in r.lo .. r.hi - 1
  BY DEF Named, Pages
<1>3. \A r \in Kind(given, "arena") : r.lo \in Nat /\ r.hi \in Nat /\ r.lo < r.hi
  BY RegionBounds DEF Kind
<1>4. first.lo \in A /\ last.hi - 1 \in A
  <2>1. first.lo \in Pages(first) /\ last.hi - 1 \in Pages(last)
    BY <1>3 DEF Pages
  <2> QED
    BY <2>1 DEF Named
<1>5. \A k \in A : k \in Nat /\ first.lo <= k /\ k < last.hi
  <2> SUFFICES ASSUME NEW k \in A PROVE k \in Nat /\ first.lo <= k /\ k < last.hi
    OBVIOUS
  <2>1. PICK r \in Kind(given, "arena") : k \in r.lo .. r.hi - 1
    BY <1>2
  <2> HIDE DEF A
  <2> QED
    BY <2>1, <1>1, <1>3
<1> HIDE DEF A
<1>6. ArenaLo = first.lo
  <2>1. ArenaLo \in A /\ \A k \in A : ArenaLo <= k
    BY <1>4, <1>5 DEF ArenaLo, A
  <2> QED
    BY <2>1, <1>3, <1>4, <1>5
<1>7. ArenaHi = last.hi
  <2>1. last.hi = (last.hi - 1) + 1
    BY <1>3
  <2>2. last.hi \in {k + 1 : k \in A}
    BY <2>1, <1>4
  <2>3. ArenaHi \in {k + 1 : k \in A} /\ \A k \in A : k < ArenaHi
    BY <2>2, <1>5 DEF ArenaHi, A
  <2> QED
    BY <2>3, <1>3, <1>4, <1>5
<1> QED
  BY <1>1, <1>6, <1>7

(* The keep filter tells what is in use from the zones.                    *)
LEMMA KeepExact ==
  ASSUME MTypes, os = "macos", NEW r \in given
  PROVE  Keep(r) <=> r.what # "zone"
<1>1. Furnished(given) /\ Kind(given, "text") # {}
  BY ReclaimAssumption DEF MTypes, ReclaimAssumption
<1>2. PICK first, last \in Kind(given, "arena") :
           /\ ArenaLo = first.lo /\ ArenaHi = last.hi
           /\ \A a \in Kind(given, "arena") : first.lo <= a.lo /\ a.hi <= last.hi
  BY ArenaEnds
<1>3. first \in given /\ last \in given /\ first.what = "arena" /\ last.what = "arena"
  BY DEF Kind
<1>4. \A s \in given : s.lo \in Nat \ {0} /\ s.hi \in Nat /\ s.lo < s.hi
  BY RegionBounds
<1>5. PICK text \in given : text.what = "text" /\ code_anchor \in Pages(text)
                            /\ \A s \in given : s.what = "text" => s = text
  <2>1. PICK text \in Kind(given, "text") : TRUE
    BY <1>1
  <2>2. text.lo \in Pages(text)
    BY <1>4, <2>1 DEF Kind, Pages
  <2>3. Named("text") # {}
    BY <2>1, <2>2 DEF Named
  <2>4. code_anchor \in Named("text")
    BY <2>3 DEF code_anchor
  <2>5. Kind(given, "text") = {text}
    BY <2>1, ReclaimAssumption DEF MTypes, ReclaimAssumption, Distinct
  <2> QED
    BY <2>4, <2>5 DEF Named, Kind
<1>6. PICK R \in given : R.what = "stack" /\ Stack = Pages(R) /\ \A q \in given : q = R \/ Apart(q, R)
  BY StackRegion
<1>7. sp \in Pages(R)
  BY <1>6 DEF MTypes
<1>8. Huge \in Nat
  BY ReclaimAssumption DEF ReclaimAssumption
<1>9. ASSUME r.what = "zone" PROVE ~Keep(r)
  <2>1. ~Overlaps(r)
    <3>1. Apart(r, first) /\ Apart(r, last)
      BY <1>3, <1>9, RegionBounds
    <3>2. ~(first.hi <= r.lo /\ r.hi <= last.lo)
      BY <1>1, <1>9 DEF Furnished, Kind
    <3>3. r.lo \in Nat /\ r.hi \in Nat /\ first.lo \in Nat /\ first.hi \in Nat
          /\ last.lo \in Nat /\ last.hi \in Nat
      BY <1>3, <1>4
    <3> QED
      BY <1>2, <3>1, <3>2, <3>3 DEF Overlaps, Apart
  <2>2. code_anchor \notin Pages(r)
    BY <1>5, <1>9, PagesApart
  <2>3. sp \notin Pages(r)
    BY <1>6, <1>7, <1>9, PagesApart
  <2>4. ~(r.hi - r.lo >= Huge)
    BY <1>1, <1>4, <1>8, <1>9 DEF Furnished
  <2> QED
    BY <2>1, <2>2, <2>3, <2>4 DEF Keep
<1>10. ASSUME r.what # "zone" PROVE Keep(r)
  <2>1. r.what \in {"stack", "text", "arena", "pool", "guard"}
    BY <1>1, <1>10 DEF Furnished
  <2>2. CASE r.what = "stack"
    <3>1. r = R
      BY <1>6, <2>2, ReclaimAssumption DEF MTypes, ReclaimAssumption, Distinct, Kind
    <3> QED
      BY <3>1, <1>7 DEF Keep
  <2>3. CASE r.what = "text"
    BY <2>3, <1>5 DEF Keep
  <2>4. CASE r.what = "arena"
    <3>1. first.lo <= r.lo /\ r.hi <= last.hi
      BY <1>2, <2>4 DEF Kind
    <3>2. Overlaps(r)
      BY <3>1, <1>2, <1>3, <1>4 DEF Overlaps
    <3> QED
      BY <3>2 DEF Keep
  <2>5. CASE r.what \in {"pool", "guard"}
    BY <2>5, <1>1, <1>4, <1>8 DEF Keep, Furnished
  <2> QED
    BY <2>1, <2>2, <2>3, <2>4, <2>5
<1> QED
  BY <1>9, <1>10

LEMMA MInitInv == MInit("entry") => MInv
<1> SUFFICES ASSUME MInit("entry") PROVE MInv
  OBVIOUS
<1>1. given \in Spaces /\ regions = given /\ at = "entry" /\ sp \in Stack /\ ~moved
  BY DEF MInit, Stack
<1>2. \A r \in given : r.lo \in Nat /\ r.hi \in Nat /\ r.lo < r.hi
  BY <1>1, ReclaimAssumption DEF ReclaimAssumption, Distinct
<1>3. Named("text") = {} <=> Kind(given, "text") = {}
  <2>1. ASSUME NEW r \in Kind(given, "text") PROVE r.lo \in Named("text")
    <3>1. r.lo \in Pages(r)
      BY <1>2 DEF Pages, Kind
    <3> QED
      BY <3>1 DEF Named
  <2>2. Kind(given, "text") = {} => Named("text") = {}
    BY DEF Named
  <2> QED
    BY <2>1, <2>2
<1>4. sp \in Nat
  BY <1>1, <1>2 DEF Stack, Named, Kind, Pages
<1>5. MTypes
  BY <1>1, <1>3 DEF MInit, MTypes
<1>6. Contents
  BY DEF MInit, Contents, Stack
<1> QED
  BY <1>1, <1>5, <1>6 DEF MInv, Stays, OnWay, SweptSoFar

LEMMA StackPage ==
  ASSUME MTypes, NEW k \in Stack
  PROVE  k \in Nat \ {0} /\ (k \in Mapped \/ at \in {"sweep", "run"})
<1>1. PICK R \in given : Stack = Pages(R) /\ R.lo \in Nat \ {0} /\ R.hi \in Nat
  BY StackRegion
<1>2. k \in R.lo .. R.hi - 1
  BY <1>1 DEF Pages
<1>3. at \in {"entry", "up", "down"} => R \in regions
  BY DEF MTypes
<1> QED
  BY <1>1, <1>2, <1>3 DEF Mapped, MTypes

(* A page next to the stack that madvise drops is the stack's.             *)
LEMMA NextIsStack ==
  ASSUME MTypes, at \in {"up", "down"}, NEW k \in Stack, NEW n \in Nat,
         (n = k + 1 /\ os = "linux") \/ n = k - 1,
         Droppable(n)
  PROVE  n \in Stack
<1>1. PICK R \in given :
           /\ R.what = "stack" /\ Stack = Pages(R)
           /\ R.lo \in Nat \ {0} /\ R.hi \in Nat /\ R.lo < R.hi
           /\ \A q \in given : q = R \/ Apart(q, R)
           /\ \A q \in given : Adjoin(q, R) => q.what = "guard"
           /\ \A q \in given : Adjoin(R, q) => q.what = "guard" \/ os = "macos"
  BY StackRegion
<1>2. PICK q \in given : n \in Pages(q)
  BY DEF Droppable, Mapped, MTypes
<1>3. q.lo \in Nat /\ q.hi \in Nat /\ n \in q.lo .. q.hi - 1 /\ k \in R.lo .. R.hi - 1
  BY <1>1, <1>2, RegionBounds DEF Pages
<1>4. q.what # "guard"
  BY <1>2 DEF Droppable, Named, Kind
<1>5. CASE q = R
  BY <1>5, <1>1, <1>2
<1>6. CASE q # R
  <2>1. ~Adjoin(q, R) /\ (os = "linux" => ~Adjoin(R, q)) /\ Apart(q, R)
    BY <1>1, <1>4, <1>6
  <2> QED
    BY <1>1, <1>3, <2>1 DEF Adjoin, Apart
<1> QED
  BY <1>5, <1>6

(* A page of the stack is droppable.                                       *)
LEMMA StackDroppable ==
  ASSUME MTypes, at \in {"up", "down"}, NEW k \in Stack
  PROVE  Droppable(k)
<1>1. PICK R \in given : R.what = "stack" /\ Stack = Pages(R)
  BY StackRegion
<1>2. ASSUME NEW q \in given, q.what = "guard" PROVE k \notin Pages(q)
  BY <1>1, <1>2, PagesApart
<1>3. k \in Mapped
  BY <1>1 DEF Mapped, MTypes
<1> QED
  BY <1>2, <1>3 DEF Droppable, Named, Kind

(* The jump to the top page of the stack.                                  *)
LEMMA Moved ==
  ASSUME MInv, at \in {"entry", "up"}, NEW top \in Stack, MoveTo(top),
         \A k \in Stack : k <= top, UNCHANGED <<regions, os, given, last_mapped, looked, refused>>
  PROVE  MInv'
<1>1. UNCHANGED <<Stack, Mapped>> /\ regions = given
  BY DEF MInv, MTypes, Stack, Mapped, Named
<1>2. top \in Nat \ {0} /\ top \in Mapped
  BY StackPage DEF MInv, MTypes
<1>3. p' = top - 1 /\ sp' = top /\ at' = "down" /\ moved' = TRUE /\ dirty' = dirty \cup {top}
  BY DEF MoveTo, Below
<1>4. MTypes'
  BY <1>1, <1>2, <1>3 DEF MInv, MTypes
<1>5. Contents'
  BY <1>1, <1>3 DEF MInv, Contents
<1>6. OnWay'
  <2>1. p' < sp' /\ p' + 1 .. sp' \subseteq Stack
    BY <1>2, <1>3
  <2>2. \A k \in Stack : p' < k /\ k # sp' => FALSE
    <3>1. \A k \in Stack : k \in Nat
      BY StackPage DEF MInv
    <3> QED
      BY <1>2, <1>3, <3>1
  <2> QED
    BY <1>1, <1>3, <2>1, <2>2 DEF OnWay
<1> QED
  BY <1>1, <1>3, <1>4, <1>5, <1>6 DEF MInv, Stays, SweptSoFar

LEMMA EntryInv == ASSUME MInv, Entry PROVE MInv'
<1>1. UNCHANGED <<Stack, Mapped>>
  BY DEF Entry, Stack, Mapped, Named
<1>2. sp \in Stack /\ sp \in Nat
  BY StackPage DEF MInv, MTypes, Entry
<1>3. MTypes'
  BY <1>1, <1>2 DEF MInv, MTypes, Entry
<1>4. OnWay'
  BY <1>1, <1>2 DEF MInv, OnWay, Entry
<1> QED
  BY <1>1, <1>3, <1>4 DEF MInv, Stays, Contents, SweptSoFar, Entry

LEMMA DropUpInv == ASSUME MInv, DropUp PROVE MInv'
<1>1. UNCHANGED <<Stack, Mapped, sp, at, os, moved>>
  BY DEF DropUp, Stack, Mapped, Named
<1>2. at = "up" /\ os = "linux" /\ p = last_mapped + 1 /\ sp <= last_mapped /\ last_mapped \in Stack
      /\ ~moved /\ p \in Nat /\ last_mapped \in Nat
  BY DEF MInv, OnWay, DropUp, MTypes
<1>3. p \in Stack
  BY <1>2, NextIsStack DEF MInv, DropUp
<1>4. sp \in Nat /\ p # sp
  BY <1>2, StackPage DEF MInv, MTypes
<1>5. MTypes'
  BY <1>1, <1>2 DEF MInv, MTypes, DropUp
<1>6. Contents'
  BY <1>1, <1>3, <1>4 DEF MInv, Contents, DropUp
<1>7. OnWay'
  BY <1>1, <1>2, <1>3, <1>4 DEF OnWay, DropUp
<1> QED
  BY <1>1, <1>2, <1>5, <1>6, <1>7 DEF MInv, Stays, SweptSoFar, DropUp

LEMMA JumpInv == ASSUME MInv, Jump PROVE MInv'
<1>1. at = "up" /\ p = last_mapped + 1 /\ last_mapped \in Stack /\ ~Droppable(p) /\ MTypes
  BY DEF MInv, OnWay, Jump
<1>2. p \notin Stack
  BY <1>1, StackDroppable
<1>3. PICK R \in given : Stack = Pages(R) /\ R.lo \in Nat /\ R.hi \in Nat
  BY <1>1, StackRegion
<1>4. \A k \in Stack : k <= last_mapped
  <2>1. \A k : k \in Stack <=> k \in R.lo .. R.hi - 1
    BY <1>3 DEF Pages
  <2>2. last_mapped \in R.lo .. R.hi - 1 /\ ~(last_mapped + 1 \in R.lo .. R.hi - 1)
    BY <1>1, <1>2, <2>1
  <2>3. last_mapped = R.hi - 1
    BY <1>3, <2>2
  <2> QED
    BY <1>3, <2>1, <2>3
<1> QED
  BY <1>1, <1>4, Moved DEF Jump

LEMMA RelocateInv == ASSUME MInv, Relocate PROVE MInv'
<1>1. PICK r \in region_containing(sp) : MoveTo(r.hi - 1)
  BY DEF Relocate
<1>2. MTypes /\ at = "entry" /\ regions = given
  BY DEF MInv, MTypes, Relocate
<1>3. PICK R \in given : /\ Stack = Pages(R) /\ R.lo \in Nat /\ R.hi \in Nat /\ R.lo < R.hi
                         /\ \A q \in given : q = R \/ Apart(q, R)
  BY <1>2, StackRegion
<1>4. r \in given /\ sp \in Pages(r) /\ sp \in Pages(R)
  BY <1>2, <1>3 DEF region_containing, RegionInfo, MTypes
<1>5. r = R
  BY <1>2, <1>3, <1>4, PagesApart
<1>6. r.hi - 1 \in Stack /\ \A k \in Stack : k <= r.hi - 1
  BY <1>3, <1>5 DEF Pages
<1> QED
  BY <1>1, <1>2, <1>6, Moved DEF Relocate

LEMMA StayInv == ASSUME MInv, StayHere PROVE MInv'
<1>1. UNCHANGED <<Stack, Mapped>>
  BY DEF StayHere, Stack, Mapped, Named
<1>2. MTypes'
  BY <1>1 DEF MInv, MTypes, StayHere
<1>3. SweptSoFar'
  <2> SUFFICES ASSUME NEW r \in regions' PROVE Swept(r)'
    BY DEF SweptSoFar
  <2>1. r.lo \in Nat /\ r.hi \in Nat /\ r.lo < r.hi
    BY RegionBounds DEF MInv, MTypes, StayHere
  <2> QED
    BY <2>1 DEF Swept, StayHere
<1> QED
  BY <1>1, <1>2, <1>3 DEF MInv, Stays, Contents, OnWay, StayHere

LEMMA DropDownInv == ASSUME MInv, DropDown PROVE MInv'
<1>1. UNCHANGED <<Stack, Mapped, sp, at, os, moved>>
  BY DEF DropDown, Stack, Mapped, Named
<1>2. at = "down" /\ moved /\ p < sp /\ p + 1 .. sp \subseteq Stack /\ p \in Nat /\ p # 0 /\ MTypes
  BY DEF MInv, OnWay, DropDown, MTypes
<1>3. sp \in Nat
  BY <1>2, StackPage DEF MTypes
<1>4. p + 1 \in Stack
  BY <1>2, <1>3
<1>5. p \in Stack
  BY <1>2, <1>4, NextIsStack DEF DropDown
<1>6. MTypes'
  BY <1>1, <1>2 DEF MTypes, DropDown
<1>7. Contents'
  BY <1>1, <1>2, <1>3, <1>5 DEF MInv, Contents, DropDown
<1>8. p' = p - 1 /\ dirty' = dirty \ {p}
  BY DEF DropDown
<1>9. p' + 1 .. sp \subseteq Stack
  BY <1>2, <1>3, <1>5, <1>8
<1>10. \A k \in Stack : p' < k /\ k # sp => k \notin dirty'
  <2> SUFFICES ASSUME NEW k \in Stack, p' < k, k # sp PROVE k \notin dirty'
    OBVIOUS
  <2>1. k \in Nat
    BY <1>2, StackPage
  <2>2. k = p \/ p < k
    BY <1>2, <1>8, <2>1
  <2> QED
    BY <1>2, <1>8, <2>2 DEF MInv, OnWay
<1>11. OnWay'
  BY <1>1, <1>2, <1>3, <1>8, <1>9, <1>10 DEF OnWay
<1> QED
  BY <1>1, <1>2, <1>6, <1>7, <1>11 DEF MInv, Stays, SweptSoFar, DropDown

LEMMA EndDownInv == ASSUME MInv, EndDown PROVE MInv'
<1>1. UNCHANGED <<Stack, Mapped, sp, os, moved, dirty, given, regions>> /\ p' = 0
      /\ at' = IF os = "linux" THEN "run" ELSE "sweep"
  BY DEF EndDown, Stack, Mapped, Named
<1>2. at = "down" /\ moved /\ p < sp /\ p + 1 .. sp \subseteq Stack /\ p \in Nat /\ MTypes
      /\ \A k \in Stack : p < k /\ k # sp => k \notin dirty
  BY DEF MInv, OnWay, EndDown, MTypes
<1>3. sp \in Nat /\ sp \in Stack
  BY <1>2, StackPage DEF MTypes
<1>4. p + 1 \in Stack
  BY <1>2, <1>3
<1>5. p \notin Stack
  BY <1>2, StackDroppable, StackPage DEF EndDown
<1>6. PICK R \in given : Stack = Pages(R) /\ R.lo \in Nat \ {0} /\ R.hi \in Nat
  BY <1>2, StackRegion
<1>7. \A k \in Stack : p < k
  <2>1. \A k : k \in Stack <=> k \in R.lo .. R.hi - 1
    BY <1>6 DEF Pages
  <2>2. p + 1 \in R.lo .. R.hi - 1 /\ ~(p \in R.lo .. R.hi - 1)
    BY <1>4, <1>5, <2>1
  <2>3. p + 1 = R.lo
    BY <1>2, <1>6, <2>2
  <2> QED
    BY <1>2, <1>6, <2>1, <2>3
<1>8. dirty \cap Stack = {sp}
  BY <1>2, <1>3, <1>7 DEF MInv, Contents
<1>9. MTypes'
  BY <1>1, <1>2 DEF MTypes, EndDown
<1>10. SweptSoFar'
  <2> SUFFICES ASSUME NEW r \in regions' PROVE Swept(r)'
    BY DEF SweptSoFar
  <2>1. r.lo \in Nat /\ r.hi \in Nat /\ r.lo < r.hi
    BY <1>1, <1>2, RegionBounds DEF MTypes
  <2> QED
    BY <1>1, <2>1 DEF Swept
<1>11. OnWay'
  BY <1>1, <1>8 DEF OnWay
<1> QED
  BY <1>1, <1>9, <1>10, <1>11 DEF MInv, Stays, Contents

(* One look of the sweep, at a region that is kept, refused, or goes.      *)
LEMMA LookInv ==
  ASSUME MInv, Looking, NEW r \in RegionInfo(p), NEW gone, Look(r, gone),
         refused \subseteq refused',
         \/ Keep(r) /\ gone = {}
         \/ ~Keep(r) /\ gone = {r}
         \/ ~Keep(r) /\ gone = {} /\ r \in refused'
  PROVE  MInv'
<1>1. UNCHANGED <<Stack, sp, at, os, given, last_mapped, moved>> /\ p' = r.hi /\ regions' = regions \ gone
      /\ dirty' = dirty \ UNION {Pages(q) : q \in gone}
  BY DEF Look, Stack, Named
<1>2. MTypes /\ at = "sweep" /\ os = "macos" /\ r \in given /\ r \in regions
  BY DEF MInv, MTypes, Looking, RegionInfo
<1>3. r.lo \in Nat /\ r.hi \in Nat /\ r.lo < r.hi
  BY <1>2, RegionBounds
<1>4. Keep(r) <=> r.what # "zone"
  BY <1>2, KeepExact
<1>5. gone = {} \/ (gone = {r} /\ r.what = "zone")
  BY <1>4
<1>6. MTypes'
  BY <1>1, <1>2, <1>3 DEF MTypes
<1>7. Stays'
  BY <1>1, <1>5 DEF MInv, Stays
<1>8. \A k \in Pages(r) : r.what = "zone" => k \notin Stack
  <2>1. PICK R \in given : R.what = "stack" /\ Stack = Pages(R)
    BY <1>2, StackRegion
  <2> QED
    BY <1>2, <2>1, PagesApart
<1>9. dirty' \cap Stack = dirty \cap Stack
  BY <1>1, <1>5, <1>8
<1>10. Contents'
  <2>1. ASSUME NEW k \in (Mapped' \ Stack) \cup {sp} PROVE k \in dirty'
    <3>1. k \in dirty
      BY <1>1, <2>1 DEF MInv, Contents, Mapped
    <3>2. CASE k = sp
      BY <3>1, <3>2, <1>1, <1>2, <1>5, <1>8 DEF MTypes
    <3>3. CASE k # sp
      <4>1. PICK q \in regions' : k \in Pages(q)
        BY <2>1, <3>3 DEF Mapped
      <4>2. gone = {r} => q # r /\ q \in given
        BY <1>1, <1>2, <4>1 DEF MTypes
      <4>3. gone = {r} => k \notin Pages(r)
        BY <1>2, <4>1, <4>2, PagesApart
      <4> QED
        BY <1>1, <1>5, <3>1, <4>3
    <3> QED
      BY <3>2, <3>3
  <2> QED
    BY <1>1, <2>1 DEF Contents
<1>11. OnWay'
  BY <1>1, <1>2, <1>9 DEF MInv, OnWay
<1>12. SweptSoFar'
  <2> SUFFICES ASSUME NEW s \in regions', s.what = "zone", s.hi <= r.hi PROVE s \in refused'
    BY <1>1 DEF SweptSoFar, Swept
  <2>1. s \in regions /\ s \in given
    BY <1>1, <1>2 DEF MTypes
  <2>2. CASE s.hi <= p
    BY <1>2, <2>1, <2>2 DEF MInv, SweptSoFar, Swept
  <2>3. CASE s = r
    <3>1. gone = {}
      BY <1>1, <1>5, <2>3
    <3> QED
      BY <1>4, <2>3, <3>1
  <2>4. CASE s # r /\ ~(s.hi <= p)
    <3>1. s.lo \in Nat /\ s.hi \in Nat /\ s.lo < s.hi /\ Apart(s, r) /\ p \in Nat
      BY <1>2, <2>1, <2>4, RegionBounds DEF MTypes
    <3>2. p < s.hi
      BY <2>4, <3>1
    <3>3. r.lo <= s.lo
      BY <2>1, <3>2 DEF RegionInfo
    <3> QED
      BY <1>3, <3>1, <3>3 DEF Apart
  <2> QED
    BY <2>2, <2>3, <2>4
<1> QED
  BY <1>6, <1>7, <1>10, <1>11, <1>12 DEF MInv

LEMMA EndSweepInv == ASSUME MInv, EndSweep PROVE MInv'
<1>1. UNCHANGED <<Stack, Mapped>>
  BY DEF EndSweep, Stack, Mapped, Named, places
<1>2. MTypes'
  BY <1>1 DEF MInv, MTypes, EndSweep, places
<1> QED
  BY <1>1, <1>2 DEF MInv, Stays, Contents, OnWay, SweptSoFar, Swept, EndSweep, places

LEMMA MNextInv == MInv /\ [MNext]_mvars => MInv'
<1> SUFFICES ASSUME MInv, [MNext]_mvars PROVE MInv'
  OBVIOUS
<1>1. CASE KeepRegion
  BY <1>1, LookInv DEF KeepRegion
<1>2. CASE Unmap
  BY <1>2, LookInv DEF Unmap
<1>3. CASE Refuse
  <2>1. PICK r \in RegionInfo(p) : ~Keep(r) /\ Look(r, {}) /\ refused' = refused \cup {r}
    BY <1>3 DEF Refuse
  <2> QED
    BY <1>3, <2>1, LookInv DEF Refuse
<1>4. CASE UNCHANGED mvars
  <2>1. UNCHANGED <<Stack, Mapped>>
    BY <1>4 DEF Stack, Mapped, Named, mvars, places
  <2>2. MTypes'
    BY <1>4, <2>1 DEF MInv, MTypes, mvars, places
  <2> QED
    BY <1>4, <2>1, <2>2 DEF MInv, Stays, Contents, OnWay, SweptSoFar, Swept, mvars, places
<1> QED
  BY <1>1, <1>2, <1>3, <1>4, EntryInv, DropUpInv, JumpInv, DropDownInv, EndDownInv, RelocateInv,
     StayInv, EndSweepInv DEF MNext

(* The invariant of the page walk and of the sweep, in every address space *)
(* that ReclaimAssumption allows.                                          *)
THEOREM ReclaimInductive == MSpec => []MInv
<1>1. MInit("entry") => MInv
  BY MInitInv
<1>2. MInv /\ [MNext]_mvars => MInv'
  BY MNextInv
<1> QED
  BY <1>1, <1>2, PTL DEF MSpec

(* ltop_entry, ltop_main, mac_run_then_exit: whatever the size of the      *)
(* stack and wherever the entry frame was, the frame's page keeps its      *)
(* contents, nothing beside the stack is dropped, and the tick loop runs   *)
(* on one page.                                                            *)
THEOREM StackLeftOnOnePage == MSpec => []OneStackPage
<1>1. MInv => OneStackPage
  BY DEF MInv, Contents, OnWay, OneStackPage, Stack
<1> QED
  BY <1>1, ReclaimInductive, PTL

(* unmap_idle_state: everything that is in use stays mapped, and every     *)
(* zone that was looked at is gone or was refused by the kernel.           *)
THEOREM AlwaysKeptInUse == MSpec => []KeptInUse
<1>1. MInv => KeptInUse
  BY DEF MInv, Stays, SweptSoFar, Swept, KeptInUse
<1> QED
  BY <1>1, ReclaimInductive, PTL

----------------------------------------------------------------------------
(* The heapsort and the maps of src/sort.rs and src/map.rs.  A loop of any *)
(* number of rounds computes a value (LoopExists), a round that swaps two  *)
(* entries leaves the same entries (Moves), and a sift-down settles a heap *)
(* from one place more (Settled).                                          *)

LEMMA VectorOf ==
  ASSUME NEW S, NEW L \in Nat, NEW f \in [1 .. L -> S]
  PROVE  f \in Seq(S) /\ Len(f) = L
OBVIOUS

(* What a loop of L rounds computes that makes g[n][x] of x in round n.   *)
Rounds(f, x, g, L) == f[0] = x /\ \A n \in 1 .. L : f[n] = g[n][f[n - 1]]

LEMMA LoopExists ==
  ASSUME NEW L \in Nat, NEW S, NEW x \in S, NEW g, g \in [1 .. L -> [S -> S]]
  PROVE  \E f \in [0 .. L -> S] : Rounds(f, x, g, L)
<1> USE DEF Rounds
<1> DEFINE Goes(m, f) == Rounds(f, x, g, m)
           T == {m \in Nat : m <= L => \E f \in [0 .. m -> S] : Goes(m, f)}
<1>1. 0 \in T
  <2>1. [n \in 0 .. 0 |-> x] \in [0 .. 0 -> S] /\ Goes(0, [n \in 0 .. 0 |-> x])
    OBVIOUS
  <2> QED
    BY <2>1
<1>2. ASSUME NEW m \in T PROVE m + 1 \in T
  <2> SUFFICES ASSUME m + 1 <= L PROVE \E f \in [0 .. m + 1 -> S] : Goes(m + 1, f)
    OBVIOUS
  <2>1. PICK f \in [0 .. m -> S] : Goes(m, f)
    OBVIOUS
  <2> DEFINE h == [n \in 0 .. m + 1 |-> IF n = m + 1 THEN g[n][f[m]] ELSE f[n]]
  <2>2. f[m] \in S /\ g[m + 1][f[m]] \in S
    <3>1. m \in 0 .. m /\ m + 1 \in 1 .. L
      OBVIOUS
    <3>2. f[m] \in S
      BY <3>1
    <3>3. g[m + 1] \in [S -> S]
      BY <3>1
    <3> QED
      BY <3>2, <3>3
  <2>3. h \in [0 .. m + 1 -> S]
    BY <2>2
  <2>4. h[0] = x
    BY <2>1
  <2>5. ASSUME NEW n \in 1 .. m + 1 PROVE h[n] = g[n][h[n - 1]]
    <3>1. CASE n = m + 1
      <4>1. h[n] = g[m + 1][f[m]] /\ h[n - 1] = f[m]
        BY <3>1
      <4> QED
        BY <3>1, <4>1
    <3>2. CASE n \in 1 .. m
      <4>1. h[n] = f[n] /\ h[n - 1] = f[n - 1]
        BY <3>2
      <4> QED
        BY <2>1, <3>2, <4>1
    <3> QED
      BY <3>1, <3>2
  <2> HIDE DEF h
  <2> QED
    BY <2>3, <2>4, <2>5
<1>3. T = Nat
  <2> HIDE DEF T
  <2> QED
    BY <1>1, <1>2, Induct DEF T
<1>4. PICK f \in [0 .. L -> S] : Goes(L, f)
  <2>1. L \in T
    BY <1>3
  <2> QED
    BY <2>1
<1> QED
  BY <1>4

(* A loop that goes on from next[d] while its state d is in Busy, and gets *)
(* closer to its end each time.                                            *)
Turns(f, next, out, Busy) ==
  \A d \in DOMAIN out : f[d] = IF d \in Busy THEN f[next[d]] ELSE out[d]

LEMMA WhileExists ==
  ASSUME NEW D, NEW V, NEW out, out \in [D -> V], NEW next, next \in [D -> D],
         NEW Busy \in SUBSET D, NEW M \in Nat, NEW size, size \in [D -> 0 .. M],
         \A d \in Busy : size[next[d]] < size[d]
  PROVE  \E f \in [D -> V] : Turns(f, next, out, Busy)
<1> DEFINE F == [D -> V]
           Step(h) == [d \in D |-> IF d \in Busy THEN h[next[d]] ELSE out[d]]
           Upto(h, m) == \A d \in D : size[d] <= m => h[d] = Step(h)[d]
           T == {m \in Nat : \E h \in F : Upto(h, m)}
<1>1. \A h \in F : Step(h) \in F
  OBVIOUS
<1>2. \A d \in D : size[d] \in 0 .. M /\ next[d] \in D /\ size[next[d]] \in 0 .. M
  OBVIOUS
<1>3. 0 \in T
  <2>1. ASSUME NEW d \in D, size[d] <= 0 PROVE out[d] = Step(out)[d]
    <3>1. d \notin Busy
      BY <1>2, <2>1
    <3> QED
      BY <3>1
  <2> HIDE DEF Step
  <2> QED
    BY <2>1
<1>4. ASSUME NEW m \in T PROVE m + 1 \in T
  <2>1. PICK h \in F : Upto(h, m)
    OBVIOUS
  <2> DEFINE k == Step(h)
  <2>2. k \in F
    BY <1>1
  <2>3. ASSUME NEW d \in D, size[d] <= m + 1 PROVE k[d] = Step(k)[d]
    <3>1. CASE d \in Busy
      <4>1. next[d] \in D /\ size[next[d]] <= m
        BY <1>2, <2>3, <3>1
      <4>2. h[next[d]] = Step(h)[next[d]]
        BY <2>1, <4>1
      <4>3. k[d] = h[next[d]] /\ Step(k)[d] = k[next[d]]
        BY <3>1
      <4> QED
        BY <4>2, <4>3
    <3>2. CASE d \notin Busy
      BY <3>2
    <3> QED
      BY <3>1, <3>2
  <2> HIDE DEF k, Step
  <2> QED
    BY <2>2, <2>3
<1>5. T = Nat
  <2> HIDE DEF T
  <2> QED
    BY <1>3, <1>4, Induct DEF T
<1>6. PICK h \in F : Upto(h, M)
  <2>1. M \in T
    BY <1>5
  <2> QED
    BY <2>1
<1>7. \A d \in D : h[d] = Step(h)[d]
  BY <1>2, <1>6
<1> QED
  BY <1>7 DEF Turns

(* Totals *)

Adding(c, f) == f[0] = 0 /\ \A n \in 1 .. Len(c) : f[n] = f[n - 1] + c[n]

LEMMA TotalSums ==
  ASSUME NEW c \in Seq(Nat)
  PROVE  \E f \in [0 .. Len(c) -> Nat] : Adding(c, f) /\ Total(c) = f[Len(c)]
<1> DEFINE L == Len(c)
           Rule(f) == [n \in 0 .. L |-> IF n = 0 THEN 0 ELSE f[n - 1] + c[n]]
           sum == CHOOSE f : f = Rule(f)
           g == [n \in 1 .. L |-> [x \in Nat |-> x + c[n]]]
<1>1. L \in Nat /\ \A n \in 1 .. L : c[n] \in Nat
  OBVIOUS
<1>2. g \in [1 .. L -> [Nat -> Nat]] /\ \A n \in 1 .. L, x \in Nat : g[n][x] = x + c[n]
  BY <1>1
<1>3. PICK h \in [0 .. L -> Nat] : h[0] = 0 /\ \A n \in 1 .. L : h[n] = g[n][h[n - 1]]
  <2> HIDE DEF g, L
  <2>1. \E h \in [0 .. L -> Nat] : Rounds(h, 0, g, L)
    BY <1>1, <1>2, LoopExists
  <2> QED
    BY <2>1 DEF Rounds
<1>4. h = Rule(h)
  <2> HIDE DEF g
  <2>1. \A n \in 1 .. L : n - 1 \in 0 .. L /\ n # 0
    BY <1>1
  <2>2. \A n \in 1 .. L : h[n - 1] \in Nat
    BY <2>1
  <2>5. \A n \in 1 .. L : g[n][h[n - 1]] = h[n - 1] + c[n]
    BY <1>2, <2>2
  <2>6. \A n \in 0 .. L : n = 0 \/ n \in 1 .. L
    BY <1>1
  <2>3. \A n \in 0 .. L : h[n] = Rule(h)[n]
    BY <1>3, <2>5, <2>6
  <2>4. DOMAIN Rule(h) = 0 .. L /\ h = [n \in 0 .. L |-> h[n]] /\ Rule(h) = [n \in 0 .. L |-> Rule(h)[n]]
    OBVIOUS
  <2> HIDE DEF Rule, L
  <2> QED
    BY <2>3, <2>4
<1>5. sum = Rule(sum)
  BY <1>4
<1>6. Total(c) = sum[L]
  BY DEF Total
<1> HIDE DEF sum
<1>7. sum[0] = 0 /\ \A n \in 1 .. L : sum[n] = sum[n - 1] + c[n]
  BY <1>1, <1>5
<1> DEFINE T == {n \in Nat : n <= L => sum[n] \in Nat}
<1>8. 0 \in T
  BY <1>7
<1>9. ASSUME NEW n \in T PROVE n + 1 \in T
  <2> SUFFICES ASSUME n + 1 <= L PROVE sum[n + 1] \in Nat
    OBVIOUS
  <2>1. n + 1 \in 1 .. L /\ (n + 1) - 1 = n /\ sum[n] \in Nat /\ c[n + 1] \in Nat
    BY <1>1
  <2> QED
    BY <1>7, <2>1
<1>10. T = Nat
  <2> HIDE DEF T
  <2> QED
    BY <1>8, <1>9, Induct DEF T
<1>11. sum \in [0 .. L -> Nat]
  <2>1. \A n \in 0 .. L : n \in T /\ n <= L
    BY <1>1, <1>10
  <2>2. \A n \in 0 .. L : sum[n] \in Nat
    BY <2>1
  <2>3. sum = [n \in 0 .. L |-> sum[n]]
    BY <1>5
  <2> QED
    BY <2>2, <2>3
<1> QED
  BY <1>6, <1>7, <1>11 DEF Adding

LEMMA TotalOf ==
  ASSUME NEW c \in Seq(Nat), NEW f, Adding(c, f)
  PROVE  Total(c) = f[Len(c)]
<1>1. PICK h \in [0 .. Len(c) -> Nat] : Adding(c, h) /\ Total(c) = h[Len(c)]
  BY TotalSums
<1> DEFINE T == {n \in Nat : n <= Len(c) => f[n] = h[n]}
<1>2. 0 \in T
  BY <1>1 DEF Adding
<1>3. ASSUME NEW n \in T PROVE n + 1 \in T
  <2> SUFFICES ASSUME n + 1 <= Len(c) PROVE f[n + 1] = h[n + 1]
    OBVIOUS
  <2>1. n + 1 \in 1 .. Len(c) /\ (n + 1) - 1 = n /\ f[n] = h[n]
    OBVIOUS
  <2> QED
    BY <1>1, <2>1 DEF Adding
<1>4. T = Nat
  <2> HIDE DEF T
  <2> QED
    BY <1>2, <1>3, Induct DEF T
<1>5. Len(c) \in T
  BY <1>4
<1> QED
  BY <1>1, <1>5

LEMMA TotalNat == \A c \in Seq(Nat) : Total(c) \in Nat
<1> SUFFICES ASSUME NEW c \in Seq(Nat) PROVE Total(c) \in Nat
  OBVIOUS
<1>1. PICK h \in [0 .. Len(c) -> Nat] : Total(c) = h[Len(c)]
  BY TotalSums
<1>2. Len(c) \in 0 .. Len(c)
  OBVIOUS
<1> QED
  BY <1>1, <1>2

LEMMA TotalEmpty == Total(<<>>) = 0
<1>1. <<>> \in Seq(Nat) /\ Len(<<>>) = 0
  OBVIOUS
<1>2. Adding(<<>>, [n \in 0 .. 0 |-> 0]) /\ [n \in 0 .. 0 |-> 0][0] = 0
  BY <1>1 DEF Adding
<1> QED
  BY <1>1, <1>2, TotalOf

(* One number more, and one number changed.                                *)
LEMMA TotalAppend ==
  ASSUME NEW c \in Seq(Nat), NEW v \in Nat
  PROVE  Total(Append(c, v)) = Total(c) + v
<1> DEFINE L == Len(c)
           e == Append(c, v)
<1>1. PICK f \in [0 .. L -> Nat] : Adding(c, f) /\ Total(c) = f[L]
  BY TotalSums
<1>2. L \in Nat /\ e \in Seq(Nat) /\ Len(e) = L + 1 /\ e[L + 1] = v /\ \A n \in 1 .. L : e[n] = c[n]
  OBVIOUS
<1> DEFINE h == [n \in 0 .. L + 1 |-> IF n = L + 1 THEN f[L] + v ELSE f[n]]
<1>3. h[0] = 0 /\ h[L + 1] = f[L] + v
  BY <1>1, <1>2 DEF Adding
<1>4. ASSUME NEW n \in 1 .. L + 1 PROVE h[n] = h[n - 1] + e[n]
  <2>1. CASE n = L + 1
    BY <1>2, <2>1
  <2>2. CASE n \in 1 .. L
    <3>1. h[n] = f[n] /\ h[n - 1] = f[n - 1] /\ e[n] = c[n]
      BY <1>2, <2>2
    <3> QED
      BY <1>1, <2>2, <3>1 DEF Adding
  <2> QED
    BY <1>2, <2>1, <2>2
<1> HIDE DEF h, e
<1>5. Adding(e, h)
  BY <1>2, <1>3, <1>4 DEF Adding
<1>6. Total(e) = h[L + 1]
  BY <1>2, <1>5, TotalOf
<1> QED
  BY <1>1, <1>3, <1>6 DEF e

LEMMA TotalChange ==
  ASSUME NEW c \in Seq(Nat), NEW k \in 1 .. Len(c), NEW v \in Nat
  PROVE  Total([c EXCEPT ![k] = v]) = Total(c) - c[k] + v
<1> DEFINE L == Len(c)
           e == [c EXCEPT ![k] = v]
<1>1. PICK f \in [0 .. L -> Nat] : Adding(c, f) /\ Total(c) = f[L]
  BY TotalSums
<1>2. /\ L \in Nat /\ e \in Seq(Nat) /\ Len(e) = L /\ c[k] \in Nat /\ k \in Nat /\ 1 <= k /\ k <= L
      /\ \A n \in 1 .. L : e[n] = (IF n = k THEN v ELSE c[n]) /\ c[n] \in Nat
  OBVIOUS
<1> DEFINE h == [n \in 0 .. L |-> IF n < k THEN f[n] ELSE f[n] - c[k] + v]
<1>3. h[0] = 0 /\ h[L] = f[L] - c[k] + v
  <2>1. 0 \in 0 .. L /\ L \in 0 .. L /\ 0 < k /\ ~(L < k)
    BY <1>2
  <2>2. h[0] = f[0] /\ h[L] = f[L] - c[k] + v
    BY <2>1
  <2> QED
    BY <1>1, <2>2 DEF Adding
<1>4. ASSUME NEW n \in 1 .. L PROVE h[n] = h[n - 1] + e[n]
  <2>6. n - 1 \in 0 .. L /\ n \in 0 .. L
    BY <1>2
  <2>1. f[n] = f[n - 1] + c[n] /\ f[n - 1] \in Nat /\ f[n] \in Nat
    BY <1>1, <2>6 DEF Adding
  <2>2. h[n] = (IF n < k THEN f[n] ELSE f[n] - c[k] + v)
        /\ h[n - 1] = (IF n - 1 < k THEN f[n - 1] ELSE f[n - 1] - c[k] + v)
        /\ e[n] = (IF n = k THEN v ELSE c[n])
    BY <1>2, <2>6
  <2> HIDE DEF h, e
  <2>3. CASE n < k
    BY <1>2, <2>1, <2>2, <2>3
  <2>4. CASE n = k
    BY <1>2, <2>1, <2>2, <2>4
  <2>5. CASE n > k
    <3>1. ~(n < k) /\ ~(n - 1 < k) /\ n # k
      BY <1>2, <2>5
    <3>2. h[n] = f[n] - c[k] + v /\ h[n - 1] = f[n - 1] - c[k] + v /\ e[n] = c[n] /\ c[n] \in Nat
      BY <1>2, <2>2, <3>1
    <3> DEFINE a == f[n]
               b == f[n - 1]
               d == c[n]
               y == c[k]
    <3>3. a \in Nat /\ b \in Nat /\ d \in Nat /\ y \in Nat /\ a = b + d
      BY <1>2, <2>1, <3>2
    <3> HIDE DEF a, b, d, y
    <3>4. a - y + v = b - y + v + d
      BY <3>3
    <3> QED
      BY ONLY <3>2, <3>4 DEF a, b, d, y
  <2> QED
    BY <1>2, <2>3, <2>4, <2>5
<1> HIDE DEF h, e
<1>5. Adding(e, h)
  BY <1>2, <1>3, <1>4 DEF Adding
<1>6. Total(e) = h[L]
  BY <1>2, <1>5, TotalOf
<1> QED
  BY <1>1, <1>3, <1>6 DEF e

LEMMA TotalZero ==
  ASSUME NEW c \in Seq(Nat), \A n \in 1 .. Len(c) : c[n] = 0
  PROVE  Total(c) = 0
<1>1. Adding(c, [n \in 0 .. Len(c) |-> 0]) /\ Len(c) \in 0 .. Len(c)
  BY DEF Adding
<1>2. Total(c) = [n \in 0 .. Len(c) |-> 0][Len(c)]
  BY <1>1, TotalOf
<1> QED
  BY <1>1, <1>2

(* All numbers but one are 0.                                              *)
LEMMA TotalOne ==
  ASSUME NEW c \in Seq(Nat), NEW k \in 1 .. Len(c), \A n \in 1 .. Len(c) : n # k => c[n] = 0
  PROVE  Total(c) = c[k]
<1> DEFINE e == [c EXCEPT ![k] = 0]
<1>1. e \in Seq(Nat) /\ Len(e) = Len(c) /\ \A n \in 1 .. Len(c) : e[n] = 0
  OBVIOUS
<1>2. Total(e) = Total(c) - c[k] + 0
  BY TotalChange
<1>3. Total(e) = 0
  BY <1>1, TotalZero
<1>4. Total(c) \in Nat /\ c[k] \in Nat
  BY TotalNat
<1> QED
  BY <1>2, <1>3, <1>4

(* No number is greater than the total.                                    *)
LEMMA TotalLeast ==
  ASSUME NEW c \in Seq(Nat), NEW k \in 1 .. Len(c)
  PROVE  c[k] <= Total(c)
<1> DEFINE e == [c EXCEPT ![k] = 0]
<1>1. e \in Seq(Nat)
  OBVIOUS
<1>2. Total(e) = Total(c) - c[k] + 0
  BY TotalChange
<1>3. Total(e) \in Nat /\ Total(c) \in Nat /\ c[k] \in Nat
  BY <1>1, TotalNat
<1> QED
  BY <1>2, <1>3

(* The sort only moves entries: u is t with its first n entries in another *)
(* order, so that whatever is added up over the entries stays the same.    *)
Weigh(s, w) == Total([k \in DOMAIN s |-> w[s[k]]])

Moves(E, n, t, u) ==
  /\ u \in Seq(E) /\ Len(u) = Len(t)
  /\ \A k \in 1 .. Len(t) : IF k > n THEN u[k] = t[k] ELSE \E m \in 1 .. n : u[k] = t[m]
  /\ \A w \in [E -> Nat] : Weigh(u, w) = Weigh(t, w)

LEMMA WeighNat ==
  ASSUME NEW E, NEW s \in Seq(E), NEW w, w \in [E -> Nat]
  PROVE  /\ [k \in DOMAIN s |-> w[s[k]]] \in Seq(Nat) /\ Len([k \in DOMAIN s |-> w[s[k]]]) = Len(s)
         /\ Weigh(s, w) \in Nat
<1>1. \A k \in DOMAIN s : w[s[k]] \in Nat
  OBVIOUS
<1>2. DOMAIN s = 1 .. Len(s) /\ Len(s) \in Nat
  OBVIOUS
<1>3. [k \in DOMAIN s |-> w[s[k]]] \in Seq(Nat) /\ Len([k \in DOMAIN s |-> w[s[k]]]) = Len(s)
  BY ONLY <1>1, <1>2
<1> QED
  BY <1>3, TotalNat DEF Weigh

LEMMA MovesNot ==
  ASSUME NEW E, NEW t \in Seq(E), NEW n \in 0 .. Len(t)
  PROVE  Moves(E, n, t, t)
<1>1. \A k \in 1 .. Len(t) : k > n \/ k \in 1 .. n
  OBVIOUS
<1> QED
  BY <1>1 DEF Moves

LEMMA MovesOn ==
  ASSUME NEW E, NEW t \in Seq(E), NEW n \in 0 .. Len(t), NEW u, NEW v,
         Moves(E, n, t, u), Moves(E, n, u, v)
  PROVE  Moves(E, n, t, v)
<1>1. u \in Seq(E) /\ v \in Seq(E) /\ Len(u) = Len(t) /\ Len(v) = Len(t) /\ Len(t) \in Nat
  BY DEF Moves
<1>2. ASSUME NEW k \in 1 .. Len(t)
      PROVE  IF k > n THEN v[k] = t[k] ELSE \E m \in 1 .. n : v[k] = t[m]
  <2>1. CASE k > n
    BY <1>1, <2>1 DEF Moves
  <2>2. CASE ~(k > n)
    <3>1. PICK m \in 1 .. n : v[k] = u[m]
      BY <1>1, <2>2 DEF Moves
    <3>2. m \in 1 .. Len(t) /\ ~(m > n)
      BY <1>1
    <3>3. PICK l \in 1 .. n : u[m] = t[l]
      BY <3>2 DEF Moves
    <3> QED
      BY <2>2, <3>1, <3>3
  <2> QED
    BY <2>1, <2>2
<1>3. \A w \in [E -> Nat] : Weigh(v, w) = Weigh(t, w)
  BY DEF Moves
<1> QED
  BY <1>1, <1>2, <1>3 DEF Moves

LEMMA MovesMore ==
  ASSUME NEW E, NEW t \in Seq(E), NEW m \in 0 .. Len(t), NEW n \in 0 .. m, NEW u,
         Moves(E, n, t, u)
  PROVE  Moves(E, m, t, u)
<1>1. ASSUME NEW k \in 1 .. Len(t)
      PROVE  IF k > m THEN u[k] = t[k] ELSE \E l \in 1 .. m : u[k] = t[l]
  <2>1. CASE k > m
    BY <2>1 DEF Moves
  <2>2. CASE k \in 1 .. m /\ k > n
    BY <2>2 DEF Moves
  <2>3. CASE ~(k > n)
    <3>1. PICK l \in 1 .. n : u[k] = t[l]
      BY <2>3 DEF Moves
    <3>2. l \in 1 .. m /\ ~(k > m)
      BY <2>3
    <3> QED
      BY <3>1, <3>2
  <2> QED
    BY <2>1, <2>2, <2>3
<1> QED
  BY <1>1 DEF Moves

LEMMA SwapMoves ==
  ASSUME NEW E, NEW t \in Seq(E), NEW n \in 0 .. Len(t), NEW j \in 0 .. n - 1, NEW c \in 0 .. n - 1,
         j < c
  PROVE  /\ Moves(E, n, t, SwapItems(t, j, c))
         /\ \A k \in 0 .. Len(t) - 1 :
              SwapItems(t, j, c)[k + 1] = IF k = j THEN t[c + 1] ELSE IF k = c THEN t[j + 1] ELSE t[k + 1]
<1> DEFINE L == Len(t)
           J == j + 1
           C == c + 1
           u == SwapItems(t, j, c)
<1>1. J \in 1 .. n /\ C \in 1 .. n /\ J # C /\ n \in 0 .. L /\ L \in Nat /\ t \in [1 .. L -> E]
      /\ J \in 1 .. L /\ C \in 1 .. L
  OBVIOUS
<1>2. u = [t EXCEPT ![J] = t[C], ![C] = t[J]]
  BY DEF SwapItems
<1> HIDE DEF u, J, C
<1>3. /\ u \in Seq(E) /\ Len(u) = L
      /\ \A k \in 1 .. L : u[k] = IF k = J THEN t[C] ELSE IF k = C THEN t[J] ELSE t[k]
  BY <1>1, <1>2
<1>4. ASSUME NEW k \in 1 .. L PROVE IF k > n THEN u[k] = t[k] ELSE \E m \in 1 .. n : u[k] = t[m]
  <2>1. k > n => k # J /\ k # C
    BY <1>1
  <2>2. ~(k > n) => k \in 1 .. n
    BY <1>1
  <2> QED
    BY <1>1, <1>3, <2>1, <2>2
<1>5. ASSUME NEW w \in [E -> Nat] PROVE Weigh(u, w) = Weigh(t, w)
  <2> DEFINE a == [k \in DOMAIN t |-> w[t[k]]]
             b == [a EXCEPT ![J] = a[C]]
             d == [b EXCEPT ![C] = a[J]]
             e == [k \in DOMAIN u |-> w[u[k]]]
  <2>1. a \in Seq(Nat) /\ Len(a) = L /\ e \in Seq(Nat) /\ Len(e) = L
    BY <1>3, WeighNat
  <2>2. \A k \in 1 .. L : a[k] = w[t[k]] /\ e[k] = w[u[k]]
    BY <1>1, <1>3
  <2> HIDE DEF a, e
  <2>13. a \in [1 .. L -> Nat]
    BY ONLY <2>1
  <2>3. a \in [1 .. L -> Nat] /\ a[J] \in Nat /\ a[C] \in Nat
    BY ONLY <1>1, <2>13
  <2>11. b \in [1 .. L -> Nat] /\ \A k \in 1 .. L : b[k] = IF k = J THEN a[C] ELSE a[k]
    BY <1>1, <2>3
  <2>14. b[C] = a[C]
    BY ONLY <1>1, <2>11
  <2>15. L \in Nat
    OBVIOUS
  <2>12. b \in Seq(Nat) /\ Len(b) = L /\ b[C] = a[C]
    BY ONLY <2>11, <2>14, <2>15, VectorOf
  <2> HIDE DEF b
  <2>4. d \in [1 .. L -> Nat] /\ \A k \in 1 .. L : d[k] = IF k = C THEN a[J] ELSE b[k]
    BY <1>1, <2>3, <2>11
  <2> HIDE DEF d
  <2>5. \A k \in 1 .. L : e[k] = d[k]
    <3> SUFFICES ASSUME NEW k \in 1 .. L PROVE e[k] = d[k]
      OBVIOUS
    <3>1. e[k] = w[u[k]] /\ a[k] = w[t[k]] /\ a[J] = w[t[J]] /\ a[C] = w[t[C]]
      BY <1>1, <2>2
    <3>2. d[k] = IF k = J THEN a[C] ELSE IF k = C THEN a[J] ELSE a[k]
      BY <1>1, <2>4, <2>11
    <3> QED
      BY <1>3, <3>1, <3>2
  <2>6. e = d
    <3>1. e = [k \in 1 .. L |-> e[k]] /\ d = [k \in 1 .. L |-> d[k]]
      BY <2>1, <2>4
    <3> QED
      BY <2>5, <3>1
  <2>7. Total(b) = Total(a) - a[J] + a[C]
    BY <1>1, <2>1, <2>3, TotalChange DEF b
  <2>8. Total(d) = Total(b) - b[C] + a[J]
    BY <1>1, <2>3, <2>12, TotalChange DEF d
  <2>9. Total(a) \in Nat /\ Total(b) \in Nat
    BY <2>1, <2>12, TotalNat
  <2>10. Total(d) = Total(a)
    BY <2>3, <2>7, <2>8, <2>9, <2>12
  <2> QED
    BY <2>6, <2>10 DEF Weigh, a, e
<1>6. ASSUME NEW k \in 0 .. L - 1
      PROVE  u[k + 1] = IF k = j THEN t[c + 1] ELSE IF k = c THEN t[j + 1] ELSE t[k + 1]
  <2>1. k + 1 \in 1 .. L /\ (k + 1 = j + 1 <=> k = j) /\ (k + 1 = c + 1 <=> k = c)
    OBVIOUS
  <2> QED
    BY <1>3, <2>1 DEF J, C
<1> QED
  BY <1>3, <1>4, <1>5, <1>6 DEF Moves, u

(* Entries: records of numbers with a pid.                                 *)
Entries(D) == [D -> Nat]

Heaped(t, a, n) ==
  \A j \in a .. n - 1 : \A c \in {2 * j + 1, 2 * j + 2} : c < n => KeyOf(t, j) >= KeyOf(t, c)

(* A heap but for the entry at h, above whose kids its parent is.          *)
Holed(t, a, h, n) ==
  \A j \in a .. n - 1 : \A c \in {2 * j + 1, 2 * j + 2} :
    /\ j # h /\ c < n => KeyOf(t, j) >= KeyOf(t, c)
    /\ c = h => \A e \in {2 * h + 1, 2 * h + 2} : e < n => KeyOf(t, j) >= KeyOf(t, e)

LEMMA Keys1 ==
  ASSUME NEW D, "pid" \in D, NEW t \in Seq(Entries(D))
  PROVE  \A k \in 0 .. Len(t) - 1 : k + 1 \in 1 .. Len(t) /\ t[k + 1] \in Entries(D) /\ KeyOf(t, k) \in Nat
<1> SUFFICES ASSUME NEW k \in 0 .. Len(t) - 1
             PROVE  k + 1 \in 1 .. Len(t) /\ t[k + 1] \in Entries(D) /\ KeyOf(t, k) \in Nat
  OBVIOUS
<1>1. k + 1 \in 1 .. Len(t)
  OBVIOUS
<1>2. t[k + 1] \in Entries(D)
  BY <1>1
<1> QED
  BY <1>1, <1>2 DEF KeyOf, Entries

LEMMA LargerIs ==
  ASSUME NEW D, "pid" \in D, NEW t \in Seq(Entries(D)), NEW n \in 0 .. Len(t), NEW h \in Nat,
         2 * h + 1 < n
  PROVE  /\ LargerChild(t, h, n) \in {2 * h + 1, 2 * h + 2}
         /\ LargerChild(t, h, n) \in 0 .. n - 1 /\ h < LargerChild(t, h, n)
         /\ \A c \in {2 * h + 1, 2 * h + 2} : c < n => KeyOf(t, LargerChild(t, h, n)) >= KeyOf(t, c)
<1> DEFINE l == 2 * h + 1
           r == 2 * h + 2
<1>1. l \in Nat /\ r = l + 1 /\ l \in 0 .. n - 1 /\ l < n /\ h < l
  OBVIOUS
<1>2. LargerChild(t, h, n) = IF r < n /\ KeyOf(t, r) > KeyOf(t, l) THEN r ELSE l
  BY <1>1 DEF LargerChild
<1> HIDE DEF l, r
<1>3. KeyOf(t, l) \in Nat /\ (r < n => r \in 0 .. n - 1 /\ KeyOf(t, r) \in Nat)
  BY <1>1, Keys1
<1>4. CASE r < n /\ KeyOf(t, r) > KeyOf(t, l)
  <2>1. LargerChild(t, h, n) = r
    BY <1>2, <1>4
  <2>2. h < r
    BY <1>1
  <2>3. \A c \in {l, r} : KeyOf(t, r) >= KeyOf(t, c)
    BY <1>3, <1>4
  <2> QED
    BY <1>3, <1>4, <2>1, <2>2, <2>3 DEF l, r
<1>5. CASE ~(r < n /\ KeyOf(t, r) > KeyOf(t, l))
  <2>1. LargerChild(t, h, n) = l
    BY <1>2, <1>5
  <2>3. \A c \in {l, r} : c < n => KeyOf(t, l) >= KeyOf(t, c)
    BY <1>3, <1>5
  <2> QED
    BY <1>1, <2>1, <2>3 DEF l, r
<1> QED
  BY <1>4, <1>5

LEMMA SiftStop ==
  ASSUME NEW D, "pid" \in D, NEW t \in Seq(Entries(D)), NEW n \in 0 .. Len(t), NEW a \in Nat,
         NEW h \in Nat, Holed(t, a, h, n),
         2 * h + 1 >= n \/ KeyOf(t, h) >= KeyOf(t, LargerChild(t, h, n))
  PROVE  Heaped(t, a, n)
<1> SUFFICES ASSUME NEW j \in a .. n - 1, NEW c \in {2 * j + 1, 2 * j + 2}, c < n
             PROVE  KeyOf(t, j) >= KeyOf(t, c)
  BY DEF Heaped
<1>1. CASE j # h
  BY <1>1 DEF Holed
<1>2. CASE j = h
  <2>1. 2 * h + 1 < n /\ h \in 0 .. Len(t) - 1 /\ c \in 0 .. Len(t) - 1
    BY <1>2
  <2> DEFINE g == LargerChild(t, h, n)
  <2>2. KeyOf(t, h) >= KeyOf(t, g) /\ KeyOf(t, g) >= KeyOf(t, c) /\ g \in 0 .. Len(t) - 1
    <3>1. c \in {2 * h + 1, 2 * h + 2} /\ g \in 0 .. n - 1
      BY <1>2, <2>1, LargerIs
    <3>2. KeyOf(t, h) >= KeyOf(t, g)
      BY <2>1
    <3>3. KeyOf(t, g) >= KeyOf(t, c)
      BY <2>1, <3>1, LargerIs
    <3> HIDE DEF g
    <3> QED
      BY <3>1, <3>2, <3>3
  <2> HIDE DEF g
  <2>3. KeyOf(t, h) \in Nat /\ KeyOf(t, g) \in Nat /\ KeyOf(t, c) \in Nat
    BY <2>1, <2>2, Keys1
  <2> QED
    BY <1>2, <2>2, <2>3
<1> QED
  BY <1>1, <1>2

LEMMA SiftStep ==
  ASSUME NEW D, "pid" \in D, NEW t \in Seq(Entries(D)), NEW n \in 0 .. Len(t), NEW a \in Nat,
         NEW h \in Nat, a <= h, 2 * h + 1 < n,
         ~(KeyOf(t, h) >= KeyOf(t, LargerChild(t, h, n)))
  PROVE  LET g == LargerChild(t, h, n)
             u == SwapItems(t, h, g)
         IN /\ g \in h + 1 .. n - 1 /\ Moves(Entries(D), n, t, u)
            /\ Holed(t, a, h, n) => Holed(u, a, g, n)
<1> DEFINE g == LargerChild(t, h, n)
           u == SwapItems(t, h, g)
<1>1. /\ g \in {2 * h + 1, 2 * h + 2} /\ g \in 0 .. n - 1 /\ h < g /\ h \in 0 .. n - 1
      /\ \A c \in {2 * h + 1, 2 * h + 2} : c < n => KeyOf(t, g) >= KeyOf(t, c)
  BY LargerIs
<1> HIDE DEF g
<1>2. /\ Moves(Entries(D), n, t, u)
      /\ \A k \in 0 .. Len(t) - 1 :
           u[k + 1] = IF k = h THEN t[g + 1] ELSE IF k = g THEN t[h + 1] ELSE t[k + 1]
  BY <1>1, SwapMoves
<1> HIDE DEF u
<1>3. \A k \in 0 .. n - 1 :
        /\ KeyOf(t, k) \in Nat
        /\ KeyOf(u, k) = IF k = h THEN KeyOf(t, g) ELSE IF k = g THEN KeyOf(t, h) ELSE KeyOf(t, k)
  <2>1. \A k \in 0 .. n - 1 : k \in 0 .. Len(t) - 1
    OBVIOUS
  <2> QED
    BY <1>2, <2>1, Keys1 DEF KeyOf
<1>4. KeyOf(t, h) < KeyOf(t, g)
  BY <1>1, <1>3 DEF g
<1>5. ASSUME Holed(t, a, h, n), NEW j \in a .. n - 1, NEW c \in {2 * j + 1, 2 * j + 2}, j # g, c < n
      PROVE  KeyOf(u, j) >= KeyOf(u, c)
  <2>0. j \in 0 .. n - 1 /\ c \in 0 .. n - 1 /\ j < c
    BY <1>5
  <2>1. CASE j = h
    <3>1. KeyOf(u, j) = KeyOf(t, g) /\ c # h
      BY <1>3, <2>0, <2>1
    <3>2. KeyOf(t, g) >= KeyOf(t, c)
      BY <1>1, <1>5, <2>1
    <3>3. KeyOf(u, c) = IF c = g THEN KeyOf(t, h) ELSE KeyOf(t, c)
      BY <1>3, <2>0, <3>1
    <3> QED
      BY <1>1, <1>3, <1>4, <2>0, <3>1, <3>2, <3>3
  <2>2. CASE j # h /\ c = h
    <3>1. KeyOf(u, j) = KeyOf(t, j) /\ KeyOf(u, c) = KeyOf(t, g)
      BY <1>3, <1>5, <2>0, <2>2
    <3>2. KeyOf(t, j) >= KeyOf(t, g)
      <4>1. h \in {2 * j + 1, 2 * j + 2} /\ g < n
        BY <1>1, <1>5, <2>2
      <4>2. \A e \in {2 * h + 1, 2 * h + 2} : e < n => KeyOf(t, j) >= KeyOf(t, e)
        BY <1>5, <4>1 DEF Holed
      <4> QED
        BY <1>1, <4>1, <4>2
    <3> QED
      BY <3>1, <3>2
  <2>3. CASE j # h /\ c # h
    <3>1. c # g
      BY <1>1, <2>0, <2>3
    <3>2. KeyOf(u, j) = KeyOf(t, j) /\ KeyOf(u, c) = KeyOf(t, c)
      BY <1>3, <1>5, <2>0, <2>3, <3>1
    <3> QED
      BY <1>5, <2>3, <3>2 DEF Holed
  <2> QED
    BY <2>1, <2>2, <2>3
<1>6. ASSUME Holed(t, a, h, n), NEW j \in a .. n - 1, NEW c \in {2 * j + 1, 2 * j + 2}, c = g,
             NEW e \in {2 * g + 1, 2 * g + 2}, e < n
      PROVE  KeyOf(u, j) >= KeyOf(u, e)
  <2>1. j = h
    BY <1>1, <1>6
  <2>2. e \in 0 .. n - 1 /\ e # g /\ e # h /\ g \in a .. n - 1 /\ g # h
    BY <1>1, <1>6
  <2>3. KeyOf(u, j) = KeyOf(t, g) /\ KeyOf(u, e) = KeyOf(t, e)
    BY <1>1, <1>3, <2>1, <2>2
  <2>4. KeyOf(t, g) >= KeyOf(t, e)
    BY <1>6, <2>2 DEF Holed
  <2> QED
    BY <2>3, <2>4
<1>7. Holed(t, a, h, n) => Holed(u, a, g, n)
  BY <1>5, <1>6 DEF Holed
<1>8. g \in h + 1 .. n - 1
  BY <1>1
<1> QED
  BY <1>2, <1>7, <1>8 DEF g, u

(* sift_down only moves entries, and repairs a heap whose root may be out  *)
(* of place.                                                               *)
LEMMA SiftDown ==
  ASSUME NEW D, "pid" \in D, NEW s \in Seq(Entries(D)), NEW n \in 0 .. Len(s), NEW a \in 0 .. n - 1
  PROVE  /\ Moves(Entries(D), n, s, sift_down(s, a, n))
         /\ Heaped(s, a + 1, n) => Heaped(sift_down(s, a, n), a, n)
<1> DEFINE E == Entries(D)
           R == Range(s)
           L == Len(s)
           F == [1 .. L -> R]
           W == [at : Nat, s : F]
           Child(w) == LargerChild(w.s, w.at, n)
           Goes(w) == 2 * w.at + 1 < n /\ ~(KeyOf(w.s, w.at) >= KeyOf(w.s, Child(w)))
           Lower(w) == [at |-> Child(w), s |-> SwapItems(w.s, w.at, Child(w))]
           Rule(f) == [w \in W |-> IF 2 * w.at + 1 >= n THEN w.s
                                   ELSE IF KeyOf(w.s, w.at) >= KeyOf(w.s, Child(w)) THEN w.s
                                   ELSE f[Lower(w)]]
           sift == CHOOSE f : f = Rule(f)
           first == [at |-> a, s |-> s]
<1>1. sift_down(s, a, n) = sift[first]
  <2>1. DOMAIN s = 1 .. L
    OBVIOUS
  <2> QED
    BY <2>1 DEF sift_down
<1>2. s \in F /\ R \subseteq E /\ L \in Nat
  <2>1. DOMAIN s = 1 .. L /\ \A k \in 1 .. L : s[k] \in E
    OBVIOUS
  <2> QED
    BY <2>1 DEF Range
<1>3. \A t \in F : t \in Seq(R) /\ t \in Seq(E) /\ Len(t) = L
  <2> SUFFICES ASSUME NEW t \in F PROVE t \in Seq(R) /\ t \in Seq(E) /\ Len(t) = L
    OBVIOUS
  <2> HIDE DEF L, R, E
  <2>1. t \in [1 .. L -> E]
    BY <1>2
  <2> QED
    BY <1>2, <2>1, VectorOf
<1> HIDE DEF F, R
<1>4. ASSUME NEW w \in W
      PROVE  /\ w.at \in Nat /\ w.s \in F /\ w.s \in Seq(R) /\ w.s \in Seq(E) /\ Len(w.s) = L
             /\ Goes(w) => /\ Lower(w) \in W /\ Child(w) \in w.at + 1 .. n - 1
  <2>1. w.at \in Nat /\ w.s \in F
    OBVIOUS
  <2>2. w.s \in Seq(R) /\ w.s \in Seq(E) /\ Len(w.s) = L
    BY <1>3, <2>1
  <2>3. ASSUME Goes(w) PROVE Lower(w) \in W /\ Child(w) \in w.at + 1 .. n - 1
    <3> DEFINE g == Child(w)
               j == w.at
               t == w.s
    <3>1. g \in 0 .. n - 1 /\ j < g /\ j \in 0 .. n - 1 /\ n \in 0 .. L /\ n \in 0 .. Len(t)
      BY <2>1, <2>2, <2>3, LargerIs
    <3> HIDE DEF g, E
    <3>2. Moves(R, n, t, SwapItems(t, j, g))
      BY <2>2, <3>1, SwapMoves
    <3>3. SwapItems(t, j, g) \in F
      <4>1. SwapItems(t, j, g) \in Seq(R) /\ Len(SwapItems(t, j, g)) = L
        BY <2>2, <3>2 DEF Moves
      <4> QED
        BY <4>1 DEF F
    <3>4. g \in j + 1 .. n - 1 /\ g \in Nat
      BY <2>1, <3>1
    <3> QED
      BY <3>3, <3>4 DEF g
  <2> QED
    BY <2>1, <2>2, <2>3
<1>5. sift = Rule(sift)
  <2> DEFINE Busy == {w \in W : Goes(w)}
             next == [w \in W |-> IF Goes(w) THEN Lower(w) ELSE w]
             out == [w \in W |-> w.s]
             size == [w \in W |-> IF w.at < n THEN n - w.at ELSE 0]
  <2>1. /\ out \in [W -> F] /\ next \in [W -> W] /\ Busy \in SUBSET W
        /\ size \in [W -> 0 .. n] /\ n \in Nat
    <3> HIDE DEF W, Goes, Lower, Child
    <3>1. \A w \in W : w.at \in Nat /\ w.s \in F
      BY <1>4
    <3>2. \A w \in W : Goes(w) => Lower(w) \in W
      BY <1>4
    <3>3. n \in Nat
      OBVIOUS
    <3>4. \A j \in Nat : j < n => n - j \in 0 .. n
      BY <3>3
    <3> QED
      BY <3>1, <3>2, <3>3, <3>4
  <2>2. \A w \in Busy : size[next[w]] < size[w]
    <3> SUFFICES ASSUME NEW w \in W, Goes(w) PROVE size[next[w]] < size[w]
      OBVIOUS
    <3>1. next[w] = Lower(w) /\ Lower(w) \in W /\ Child(w) \in w.at + 1 .. n - 1 /\ w.at \in Nat
      BY <1>4
    <3>2. Lower(w).at = Child(w)
      OBVIOUS
    <3> HIDE DEF W, Goes, Lower, Child, next
    <3>3. size[Lower(w)] = n - Child(w) /\ size[w] = n - w.at
      BY <3>1, <3>2
    <3> QED
      BY <3>1, <3>3
  <2>3. \E f \in [W -> F] : Turns(f, next, out, Busy)
    <3> HIDE DEF W, Busy, next, out, size
    <3> QED
      BY ONLY <2>1, <2>2, WhileExists
  <2>4. PICK f \in [W -> F] : Turns(f, next, out, Busy)
    BY <2>3
  <2>5. \A w \in W : f[w] = IF Goes(w) THEN f[Lower(w)] ELSE w.s
    <3> HIDE DEF W, Goes, Lower
    <3>1. DOMAIN out = W
      OBVIOUS
    <3> QED
      BY <2>4, <3>1 DEF Turns
  <2>6. \A w \in W : Goes(w) <=> ~(2 * w.at + 1 >= n) /\ ~(KeyOf(w.s, w.at) >= KeyOf(w.s, Child(w)))
    <3>1. \A j \in Nat : 2 * j + 1 < n <=> ~(2 * j + 1 >= n)
      OBVIOUS
    <3> HIDE DEF Child
    <3>2. \A w \in W : w.at \in Nat
      OBVIOUS
    <3> HIDE DEF W
    <3> QED
      BY <3>1, <3>2
  <2>7. f = Rule(f)
    <3> HIDE DEF W, Goes, Lower, Child
    <3>1. \A w \in W : f[w] = Rule(f)[w]
      BY <2>5, <2>6
    <3>2. f = [w \in W |-> f[w]] /\ Rule(f) = [w \in W |-> Rule(f)[w]]
      OBVIOUS
    <3> HIDE DEF Rule
    <3> QED
      BY <3>1, <3>2
  <2> QED
    BY <2>7
<1>6. \A w \in W : sift[w] = IF Goes(w) THEN sift[Lower(w)] ELSE w.s
  <2> HIDE DEF sift, Lower, Child
  <2>1. \A w \in W : w.at \in Nat
    OBVIOUS
  <2>2. \A j \in Nat : 2 * j + 1 < n <=> ~(2 * j + 1 >= n)
    OBVIOUS
  <2> HIDE DEF W
  <2> QED
    BY <1>5, <2>1, <2>2
<1> HIDE DEF sift
<1> DEFINE Good(w) == /\ Moves(E, n, w.s, sift[w])
                      /\ Holed(w.s, a, w.at, n) => Heaped(sift[w], a, n)
           Left(w) == IF w.at < n THEN n - w.at ELSE 0
           T == {m \in Nat : \A w \in W : a <= w.at /\ Left(w) <= m => Good(w)}
<1>7. ASSUME NEW w \in W, a <= w.at, ~Goes(w) PROVE Good(w)
  <2>1. sift[w] = w.s
    BY <1>6, <1>7
  <2>2. w.at \in Nat /\ w.s \in Seq(E) /\ n \in 0 .. Len(w.s) /\ a \in Nat
    BY <1>4
  <2>3. Holed(w.s, a, w.at, n) => Heaped(w.s, a, n)
    <3>1. 2 * w.at + 1 >= n \/ KeyOf(w.s, w.at) >= KeyOf(w.s, Child(w))
      BY <1>7, <2>2
    <3> QED
      BY <1>7, <2>2, <3>1, SiftStop
  <2>4. Moves(E, n, w.s, w.s)
    BY <2>2, MovesNot
  <2> QED
    BY <2>1, <2>3, <2>4
<1>8. ASSUME NEW w \in W, a <= w.at, Goes(w)
      PROVE  /\ Lower(w) \in W /\ a <= Lower(w).at /\ Left(Lower(w)) < Left(w)
             /\ Good(Lower(w)) => Good(w)
  <2> DEFINE v == Lower(w)
  <2>1. v \in W /\ v.at \in w.at + 1 .. n - 1 /\ w.at \in Nat /\ w.s \in Seq(E) /\ n \in 0 .. Len(w.s)
        /\ a \in Nat
    BY <1>4, <1>8
  <2>2. a <= v.at /\ Left(v) < Left(w)
    <3> HIDE DEF W, v
    <3> QED
      BY <1>8, <2>1
  <2>3. Moves(E, n, w.s, v.s) /\ (Holed(w.s, a, w.at, n) => Holed(v.s, a, v.at, n))
    BY <1>8, <2>1, SiftStep
  <2>4. sift[w] = sift[v]
    BY <1>6, <1>8
  <2> HIDE DEF v, E, W
  <2>5. Good(v) => Good(w)
    BY <2>1, <2>3, <2>4, MovesOn
  <2> QED
    BY <2>1, <2>2, <2>3, <2>5 DEF v
<1>9. 0 \in T
  <2> SUFFICES ASSUME NEW w \in W, a <= w.at, Left(w) <= 0 PROVE Good(w)
    OBVIOUS
  <2>1. w.at \in Nat
    OBVIOUS
  <2>2. ~Goes(w)
    BY <2>1
  <2> HIDE DEF Good, Goes, W
  <2> QED
    BY <1>7, <2>2
<1>10. ASSUME NEW m \in T PROVE m + 1 \in T
  <2> SUFFICES ASSUME NEW w \in W, a <= w.at, Left(w) <= m + 1 PROVE Good(w)
    OBVIOUS
  <2>1. CASE ~Goes(w)
    <3> HIDE DEF Good, Goes, W
    <3> QED
      BY <1>7, <2>1
  <2>2. CASE Goes(w)
    <3> DEFINE v == Lower(w)
    <3>1. v \in W /\ a <= v.at /\ Left(v) < Left(w) /\ (Good(v) => Good(w))
      <4> HIDE DEF Good, Goes, W, Left
      <4> QED
        BY <1>8, <2>2
    <3>2. w.at \in Nat /\ v.at \in Nat
      BY <3>1
    <3> HIDE DEF v, Good, W
    <3>3. Left(v) <= m
      BY <3>1, <3>2
    <3>4. Good(v)
      BY <3>1, <3>3
    <3> QED
      BY <3>1, <3>4
  <2> QED
    BY <2>1, <2>2
<1>11. T = Nat
  <2> HIDE DEF T
  <2> QED
    BY <1>9, <1>10, Induct DEF T
<1>12. first \in W /\ first.at = a /\ first.s = s
  BY <1>2
<1>13. Heaped(s, a + 1, n) => Holed(s, a, a, n)
  <2> SUFFICES ASSUME Heaped(s, a + 1, n), NEW j \in a .. n - 1, NEW c \in {2 * j + 1, 2 * j + 2}
               PROVE  (j # a /\ c < n => KeyOf(s, j) >= KeyOf(s, c)) /\ c # a
    BY DEF Holed
  <2> QED
    BY DEF Heaped
<1>14. Good(first)
  <2>1. Left(first) \in Nat
    BY <1>12
  <2>2. Left(first) \in T
    BY <1>11, <2>1
  <2> HIDE DEF Good, W, first
  <2> QED
    BY <1>12, <2>1, <2>2
<1> QED
  BY <1>1, <1>12, <1>13, <1>14

LEMMA HeapifyHeaps ==
  ASSUME NEW D, "pid" \in D, NEW s \in Seq(Entries(D))
  PROVE  Moves(Entries(D), Len(s), s, Heapify(s)) /\ Heaped(Heapify(s), 0, Len(s))
<1> DEFINE E == Entries(D)
           L == Len(s)
           half == L \div 2
           S == {t \in Seq(E) : Len(t) = L}
           Rule(f) == [k \in 0 .. half |-> IF k = 0 THEN s ELSE sift_down(f[k - 1], half - k, L)]
           heap == CHOOSE f : f = Rule(f)
           g == [k \in 1 .. half |-> [t \in S |-> sift_down(t, half - k, L)]]
<1>1. Heapify(s) = heap[half]
  BY DEF Heapify
<1>2. L \in Nat /\ half \in Nat /\ L <= 2 * half + 1 /\ 2 * half <= L
  OBVIOUS
<1> HIDE DEF E, L, half
<1>3. ASSUME NEW t \in S, NEW k \in 1 .. half
      PROVE  LET u == sift_down(t, half - k, L)
             IN u \in S /\ Moves(E, L, t, u) /\ (Heaped(t, (half - k) + 1, L) => Heaped(u, half - k, L))
  <2>1. t \in Seq(E) /\ Len(t) = L /\ L \in 0 .. Len(t) /\ half - k \in 0 .. L - 1
    BY <1>2
  <2>2. /\ Moves(E, L, t, sift_down(t, half - k, L))
        /\ Heaped(t, (half - k) + 1, L) => Heaped(sift_down(t, half - k, L), half - k, L)
    BY <2>1, SiftDown DEF E
  <2> QED
    BY <2>1, <2>2 DEF Moves
<1>4. heap = Rule(heap)
  <2>1. s \in S
    BY DEF E, L
  <2>2. g \in [1 .. half -> [S -> S]]
    <3> HIDE DEF S
    <3> QED
      BY <1>3
  <2>3. PICK f \in [0 .. half -> S] : Rounds(f, s, g, half)
    <3> HIDE DEF S, g
    <3> QED
      BY <1>2, <2>1, <2>2, LoopExists
  <2>4. \A k \in 0 .. half : f[k] = Rule(f)[k]
    <3>2. 0 \in 0 .. half /\ \A k \in 0 .. half : k = 0 \/ k \in 1 .. half
      BY <1>2
    <3>3. f[0] = Rule(f)[0]
      BY <2>3, <3>2 DEF Rounds
    <3> HIDE DEF S
    <3> SUFFICES ASSUME NEW k \in 1 .. half PROVE f[k] = Rule(f)[k]
      <4> HIDE DEF Rule
      <4> QED
        BY <3>2, <3>3
    <3>1. k - 1 \in 0 .. half /\ k \in 0 .. half /\ k # 0 /\ f[k - 1] \in S
      BY <1>2
    <3> QED
      BY <2>3, <3>1 DEF Rounds
  <2>5. f = [k \in 0 .. half |-> f[k]] /\ Rule(f) = [k \in 0 .. half |-> Rule(f)[k]]
    OBVIOUS
  <2>6. f = Rule(f)
    <3> HIDE DEF Rule, S
    <3> QED
      BY <2>4, <2>5
  <2> QED
    BY <2>6
<1>5. heap[0] = s /\ \A k \in 1 .. half : heap[k] = sift_down(heap[k - 1], half - k, L)
  <2>1. 0 \in 0 .. half /\ \A k \in 1 .. half : k \in 0 .. half /\ k # 0
    BY <1>2
  <2> HIDE DEF heap
  <2> QED
    BY <1>4, <2>1
<1> HIDE DEF heap
<1> DEFINE Good(k) == heap[k] \in S /\ Moves(E, L, s, heap[k]) /\ Heaped(heap[k], half - k, L)
           T == {k \in Nat : k <= half => Good(k)}
<1>6. 0 \in T
  <2>1. s \in S /\ Moves(E, L, s, s)
    BY <1>2, MovesNot DEF E, L
  <2>2. Heaped(s, half - 0, L)
    <3> SUFFICES ASSUME NEW j \in half - 0 .. L - 1, NEW c \in {2 * j + 1, 2 * j + 2}, c < L
                 PROVE FALSE
      BY DEF Heaped
    <3> QED
      BY <1>2
  <2> HIDE DEF S
  <2> QED
    BY <1>5, <2>1, <2>2
<1>7. ASSUME NEW k \in T PROVE k + 1 \in T
  <2> SUFFICES ASSUME k + 1 <= half PROVE Good(k + 1)
    OBVIOUS
  <2>1. k + 1 \in 1 .. half /\ k \in 0 .. half /\ (k + 1) - 1 = k /\ (half - (k + 1)) + 1 = half - k /\ Good(k)
    BY <1>2
  <2> DEFINE t == heap[k]
             u == heap[k + 1]
  <2>2. u = sift_down(t, half - (k + 1), L)
    BY <1>5, <2>1
  <2>3. u \in S /\ Moves(E, L, t, u) /\ Heaped(u, half - (k + 1), L)
    <3> HIDE DEF S
    <3> QED
      BY <1>3, <2>1, <2>2
  <2>4. Moves(E, L, s, u)
    <3>1. s \in Seq(E) /\ L \in 0 .. Len(s)
      BY <1>2 DEF E, L
    <3> HIDE DEF t, u, S
    <3> QED
      BY <2>1, <2>3, <3>1, MovesOn DEF t
  <2> QED
    BY <2>3, <2>4
<1>8. T = Nat
  <2> HIDE DEF T
  <2> QED
    BY <1>6, <1>7, Induct DEF T
<1>9. Good(half) /\ half - half = 0
  <2>1. half \in T
    BY <1>2, <1>8
  <2> HIDE DEF Good
  <2> QED
    BY <1>2, <2>1
<1> QED
  BY <1>1, <1>9 DEF E, L

(* The root of a heap has the greatest key.                                *)
LEMMA RootGreatest ==
  ASSUME NEW D, "pid" \in D, NEW t \in Seq(Entries(D)), NEW n \in 1 .. Len(t), Heaped(t, 0, n)
  PROVE  \A k \in 0 .. n - 1 : KeyOf(t, k) <= KeyOf(t, 0)
<1> DEFINE T == {m \in Nat : \A k \in 0 .. n - 1 : k <= m => KeyOf(t, k) <= KeyOf(t, 0)}
<1>1. \A k \in 0 .. n - 1 : KeyOf(t, k) \in Nat
  <2>1. \A k \in 0 .. n - 1 : k \in 0 .. Len(t) - 1
    OBVIOUS
  <2> QED
    BY <2>1, Keys1
<1>2. 0 \in T
  <2>1. KeyOf(t, 0) \in Nat
    BY <1>1
  <2>2. \A k \in 0 .. n - 1 : k <= 0 => k = 0
    OBVIOUS
  <2> QED
    BY <2>1, <2>2
<1>3. ASSUME NEW m \in T PROVE m + 1 \in T
  <2> SUFFICES ASSUME NEW k \in 0 .. n - 1, k <= m + 1 PROVE KeyOf(t, k) <= KeyOf(t, 0)
    OBVIOUS
  <2>1. CASE k <= m
    BY <2>1
  <2>2. CASE k = m + 1
    <3> DEFINE j == (k - 1) \div 2
    <3>1. j \in 0 .. n - 1 /\ k \in {2 * j + 1, 2 * j + 2} /\ j <= m
      BY <2>2
    <3> HIDE DEF j
    <3>4. j \in 0 .. n - 1 /\ k < n
      BY <3>1
    <3>2. KeyOf(t, j) >= KeyOf(t, k) /\ KeyOf(t, j) <= KeyOf(t, 0)
      <4>1. \A a \in 0 .. n - 1 : \A c \in {2 * a + 1, 2 * a + 2} : c < n => KeyOf(t, a) >= KeyOf(t, c)
        BY DEF Heaped
      <4>2. KeyOf(t, j) >= KeyOf(t, k)
        BY <3>1, <3>4, <4>1
      <4>3. KeyOf(t, j) <= KeyOf(t, 0)
        BY <3>1, <3>4
      <4> QED
        BY <4>2, <4>3
    <3>3. KeyOf(t, j) \in Nat /\ KeyOf(t, k) \in Nat /\ KeyOf(t, 0) \in Nat
      BY <1>1, <3>1
    <3> QED
      BY <3>2, <3>3
  <2> QED
    BY <2>1, <2>2
<1>4. T = Nat
  <2> HIDE DEF T
  <2> QED
    BY <1>2, <1>3, Induct DEF T
<1> SUFFICES ASSUME NEW k \in 0 .. n - 1 PROVE KeyOf(t, k) <= KeyOf(t, 0)
  OBVIOUS
<1>5. k \in Nat /\ k <= k
  OBVIOUS
<1>6. k \in T
  <2> HIDE DEF T
  <2> QED
    BY <1>4, <1>5
<1> QED
  BY <1>5, <1>6

(* From the m-th on the entries are in order, and nothing before is greater.*)
Settled(t, m) == \A a, b \in 1 .. Len(t) : m <= a /\ b <= a => t[b].pid <= t[a].pid

(* A round of sort_raw: the root goes behind a heap that is one shorter.   *)
LEMMA SortRound ==
  ASSUME NEW D, "pid" \in D, NEW t \in Seq(Entries(D)), NEW n \in 1 .. Len(t) - 1
  PROVE  LET u == sift_down(SwapItems(t, 0, n), 0, n)
         IN /\ Moves(Entries(D), Len(t), t, u)
            /\ Heaped(t, 0, n + 1) /\ Settled(t, n + 2) => Heaped(u, 0, n) /\ Settled(u, n + 1)
<1> DEFINE E == Entries(D)
           L == Len(t)
           x == SwapItems(t, 0, n)
           u == sift_down(x, 0, n)
<1>1. L \in Nat /\ n \in Nat /\ 1 <= n /\ n + 1 <= L /\ t \in Seq(E)
  OBVIOUS
<1> HIDE DEF E, L
<1>2. /\ Moves(E, n + 1, t, x)
      /\ \A k \in 0 .. L - 1 : x[k + 1] = IF k = 0 THEN t[n + 1] ELSE IF k = n THEN t[0 + 1] ELSE t[k + 1]
  <2>1. n + 1 \in 0 .. Len(t) /\ 0 \in 0 .. (n + 1) - 1 /\ n \in 0 .. (n + 1) - 1 /\ 0 < n
    BY <1>1 DEF L
  <2> QED
    BY <1>1, <2>1, SwapMoves DEF L
<1>3. x \in Seq(E) /\ Len(x) = L
  BY <1>2 DEF Moves, L
<1> HIDE DEF x
<1>4. Moves(E, n, x, u) /\ (Heaped(x, 1, n) => Heaped(u, 0, n)) /\ u \in Seq(E) /\ Len(u) = L
  <2>1. n \in 0 .. Len(x) /\ 0 \in 0 .. n - 1 /\ 0 + 1 = 1
    BY <1>1, <1>3
  <2>2. Moves(E, n, x, u) /\ (Heaped(x, 1, n) => Heaped(u, 0, n))
    BY <1>3, <2>1, SiftDown DEF E
  <2> QED
    BY <1>3, <2>2 DEF Moves
<1> HIDE DEF u
<1>5. Moves(E, L, t, u)
  <2>1. Moves(E, L, t, x)
    <3>1. L \in 0 .. Len(t) /\ n + 1 \in 0 .. L
      BY <1>1 DEF L
    <3> QED
      BY <1>1, <1>2, <3>1, MovesMore
  <2>2. Moves(E, L, x, u)
    <3>1. L \in 0 .. Len(x) /\ n \in 0 .. L
      BY <1>1, <1>3
    <3> QED
      BY <1>3, <1>4, <3>1, MovesMore
  <2>3. L \in 0 .. Len(t)
    BY <1>1 DEF L
  <2> QED
    BY <1>1, <2>1, <2>2, <2>3, MovesOn
<1>6. /\ \A k \in 1 .. L : t[k] \in E /\ x[k] \in E /\ u[k] \in E
      /\ \A e \in E : e.pid \in Nat
  <2>1. \A k \in 1 .. L : t[k] \in E /\ x[k] \in E /\ u[k] \in E
    BY <1>1, <1>3, <1>4 DEF L
  <2> QED
    BY <2>1 DEF E, Entries
<1>7. \A k \in 1 .. L : x[k] = IF k = 1 THEN t[n + 1] ELSE IF k = n + 1 THEN t[1] ELSE t[k]
  <2> SUFFICES ASSUME NEW k \in 1 .. L
               PROVE  x[k] = IF k = 1 THEN t[n + 1] ELSE IF k = n + 1 THEN t[1] ELSE t[k]
    OBVIOUS
  <2>1. k - 1 \in 0 .. L - 1 /\ (k - 1) + 1 = k /\ (k - 1 = 0 <=> k = 1) /\ (k - 1 = n <=> k = n + 1)
    BY <1>1
  <2> QED
    BY <1>2, <2>1
<1>8. ASSUME Heaped(t, 0, n + 1) PROVE Heaped(x, 1, n)
  <2> SUFFICES ASSUME NEW j \in 1 .. n - 1, NEW c \in {2 * j + 1, 2 * j + 2}, c < n
               PROVE  KeyOf(x, j) >= KeyOf(x, c)
    BY DEF Heaped
  <2>4. j \in 0 .. (n + 1) - 1 /\ c < n + 1
    BY <1>1
  <2>1. KeyOf(t, j) >= KeyOf(t, c)
    BY <1>8, <2>4 DEF Heaped
  <2>2. j \in 0 .. L - 1 /\ c \in 0 .. L - 1 /\ j # 0 /\ j # n /\ c # 0 /\ c # n
    BY <1>1
  <2>3. KeyOf(x, j) = KeyOf(t, j) /\ KeyOf(x, c) = KeyOf(t, c)
    BY <1>2, <2>2 DEF KeyOf
  <2> QED
    BY <2>1, <2>3
<1>9. ASSUME Heaped(t, 0, n + 1), Settled(t, n + 2) PROVE Settled(u, n + 1)
  <2>1. \A k \in 1 .. n + 1 : t[k].pid <= t[1].pid
    <3> SUFFICES ASSUME NEW k \in 1 .. n + 1 PROVE t[k].pid <= t[1].pid
      OBVIOUS
    <3>1. k - 1 \in 0 .. (n + 1) - 1 /\ (k - 1) + 1 = k /\ n + 1 \in 1 .. Len(t) /\ 0 + 1 = 1
      BY <1>1 DEF L
    <3>2. KeyOf(t, k - 1) <= KeyOf(t, 0)
      BY <1>1, <1>9, <3>1, RootGreatest DEF E
    <3> QED
      BY <3>1, <3>2 DEF KeyOf
  <2>2. \A k \in 1 .. L : \E m \in 1 .. L :
           u[k] = t[m] /\ (k > n + 1 => m = k) /\ (k = n + 1 => m = 1) /\ (k <= n => m <= n + 1)
    <3> SUFFICES ASSUME NEW k \in 1 .. L
                 PROVE  \E m \in 1 .. L : /\ u[k] = t[m] /\ (k > n + 1 => m = k)
                                          /\ (k = n + 1 => m = 1) /\ (k <= n => m <= n + 1)
      OBVIOUS
    <3>1. CASE k > n + 1
      <4>1. u[k] = x[k] /\ x[k] = t[k]
        BY <1>1, <1>3, <1>4, <1>7, <3>1 DEF Moves
      <4> QED
        BY <1>1, <3>1, <4>1
    <3>2. CASE k = n + 1
      <4>1. u[k] = x[k] /\ x[k] = t[1] /\ 1 \in 1 .. L
        BY <1>1, <1>3, <1>4, <1>7, <3>2 DEF Moves
      <4> QED
        BY <1>1, <3>2, <4>1
    <3>3. CASE k <= n
      <4>1. PICK m \in 1 .. n : u[k] = x[m]
        BY <1>1, <1>3, <1>4, <3>3 DEF Moves
      <4>2. m \in 1 .. L /\ m # n + 1 /\ n + 1 \in 1 .. L /\ m <= n + 1
        BY <1>1
      <4>3. x[m] = IF m = 1 THEN t[n + 1] ELSE t[m]
        BY <1>7, <4>2
      <4> QED
        BY <1>1, <3>3, <4>1, <4>2, <4>3
    <3> QED
      BY <1>1, <3>1, <3>2, <3>3
  <2> SUFFICES ASSUME NEW a \in 1 .. L, NEW b \in 1 .. L, n + 1 <= a, b <= a
               PROVE  u[b].pid <= u[a].pid
    BY <1>4 DEF Settled
  <2>3. PICK k \in 1 .. L : u[a] = t[k] /\ (a > n + 1 => k = a) /\ (a = n + 1 => k = 1)
    BY <2>2
  <2>4. PICK m \in 1 .. L : u[b] = t[m] /\ (b > n + 1 => m = b) /\ (b = n + 1 => m = 1)
                            /\ (b <= n => m <= n + 1)
    BY <2>2
  <2>5. CASE a = n + 1
    <3>1. k = 1 /\ m \in 1 .. n + 1
      BY <1>1, <2>3, <2>4, <2>5
    <3> QED
      BY <2>1, <2>3, <2>4, <3>1
  <2>6. CASE a > n + 1
    <3>1. k = a /\ n + 2 <= a /\ m <= a
      BY <1>1, <2>3, <2>4, <2>6
    <3>2. t[m].pid <= t[a].pid
      BY <1>9, <3>1 DEF Settled, L
    <3> QED
      BY <2>3, <2>4, <3>1, <3>2
  <2> QED
    BY <1>1, <2>5, <2>6
<1> QED
  BY <1>4, <1>5, <1>8, <1>9 DEF E, L, u, x

(* The same entries, in the order of their keys.                           *)
Sorts(E, s, t) == Moves(E, Len(s), s, t) /\ Settled(t, 1)

(* sort_by_u32_key sorts the entries by key, and changes nothing else: the *)
(* same entries are there, so that whatever is added up over them is the   *)
(* same.                                                                   *)
THEOREM HeapsortSorts ==
  ASSUME NEW D, "pid" \in D, NEW s \in Seq(Entries(D))
  PROVE  Sorts(Entries(D), s, sort_by_u32_key(s))
<1> DEFINE E == Entries(D)
           L == Len(s)
           S == {t \in Seq(E) : Len(t) = L}
           Rule(f) == [k \in 0 .. L - 1 |->
                         IF k = 0 THEN Heapify(s)
                         ELSE sift_down(SwapItems(f[k - 1], 0, L - k), 0, L - k)]
           sorted == CHOOSE f : f = Rule(f)
           g == [k \in 1 .. L - 1 |-> [t \in S |-> sift_down(SwapItems(t, 0, L - k), 0, L - k)]]
<1>1. sort_by_u32_key(s) = IF L < 2 THEN s ELSE sorted[L - 1]
  BY DEF sort_by_u32_key
<1>2. L \in Nat /\ s \in Seq(E)
  OBVIOUS
<1> HIDE DEF E, L
<1>3. CASE L < 2
  <2>1. Moves(E, L, s, s)
    <3>1. L \in 0 .. Len(s)
      BY <1>2 DEF L
    <3> QED
      BY <1>2, <3>1, MovesNot
  <2>2. Settled(s, 1)
    <3> SUFFICES ASSUME NEW a \in 1 .. L, NEW b \in 1 .. L PROVE s[b].pid <= s[a].pid
      BY DEF Settled, L
    <3>1. a = b /\ s[a] \in E
      BY <1>2, <1>3 DEF L
    <3> QED
      BY <3>1 DEF E, Entries
  <2> QED
    BY <1>1, <1>3, <2>1, <2>2 DEF Sorts, E, L
<1>4. CASE ~(L < 2)
  <2>1. ASSUME NEW t \in S, NEW k \in 1 .. L - 1
        PROVE  LET n == L - k
                   u == sift_down(SwapItems(t, 0, n), 0, n)
               IN /\ u \in S /\ Moves(E, L, t, u)
                  /\ Heaped(t, 0, n + 1) /\ Settled(t, n + 2) => Heaped(u, 0, n) /\ Settled(u, n + 1)
    <3> DEFINE n == L - k
               u == sift_down(SwapItems(t, 0, n), 0, n)
    <3>1. t \in Seq(E) /\ Len(t) = L /\ n \in 1 .. Len(t) - 1
      BY <1>2
    <3> HIDE DEF n
    <3>2. /\ Moves(E, Len(t), t, u)
          /\ Heaped(t, 0, n + 1) /\ Settled(t, n + 2) => Heaped(u, 0, n) /\ Settled(u, n + 1)
      BY <3>1, SortRound DEF E
    <3> HIDE DEF u
    <3>3. u \in S
      BY <3>1, <3>2 DEF Moves
    <3> HIDE DEF S
    <3> QED
      BY <3>1, <3>2, <3>3 DEF u, n
  <2>2. Heapify(s) \in S /\ Moves(E, L, s, Heapify(s)) /\ Heaped(Heapify(s), 0, L)
    <3>1. Moves(E, L, s, Heapify(s)) /\ Heaped(Heapify(s), 0, L)
      BY HeapifyHeaps DEF E, L
    <3> QED
      BY <3>1 DEF Moves, L
  <2>3. sorted = Rule(sorted)
    <3>1. g \in [1 .. L - 1 -> [S -> S]]
      <4> HIDE DEF S
      <4> QED
        BY <2>1
    <3>2. L - 1 \in Nat
      BY <1>2, <1>4
    <3>3. PICK f \in [0 .. L - 1 -> S] : Rounds(f, Heapify(s), g, L - 1)
      <4> HIDE DEF S, g
      <4> QED
        BY <2>2, <3>1, <3>2, LoopExists
    <3>4. \A k \in 0 .. L - 1 : f[k] = Rule(f)[k]
      <4>2. 0 \in 0 .. L - 1 /\ \A k \in 0 .. L - 1 : k = 0 \/ k \in 1 .. L - 1
        BY <1>2, <3>2
      <4>3. f[0] = Rule(f)[0]
        BY <3>3, <4>2 DEF Rounds
      <4> HIDE DEF S
      <4> SUFFICES ASSUME NEW k \in 1 .. L - 1 PROVE f[k] = Rule(f)[k]
        <5> HIDE DEF Rule
        <5> QED
          BY <4>2, <4>3
      <4>1. k - 1 \in 0 .. L - 1 /\ k \in 0 .. L - 1 /\ k # 0 /\ f[k - 1] \in S
        BY <1>2
      <4> QED
        BY <3>3, <4>1 DEF Rounds
    <3>5. f = [k \in 0 .. L - 1 |-> f[k]] /\ Rule(f) = [k \in 0 .. L - 1 |-> Rule(f)[k]]
      OBVIOUS
    <3>6. f = Rule(f)
      <4> HIDE DEF Rule, S
      <4> QED
        BY <3>4, <3>5
    <3> QED
      BY <3>6
  <2>4. /\ sorted[0] = Heapify(s)
        /\ \A k \in 1 .. L - 1 : sorted[k] = sift_down(SwapItems(sorted[k - 1], 0, L - k), 0, L - k)
    <3>1. 0 \in 0 .. L - 1 /\ \A k \in 1 .. L - 1 : k \in 0 .. L - 1 /\ k # 0
      BY <1>2, <1>4
    <3> HIDE DEF sorted
    <3> QED
      BY <2>3, <3>1
  <2> HIDE DEF sorted
  <2> DEFINE Good(k) == /\ sorted[k] \in S /\ Moves(E, L, s, sorted[k])
                        /\ Heaped(sorted[k], 0, L - k) /\ Settled(sorted[k], (L - k) + 1)
             T == {k \in Nat : k <= L - 1 => Good(k)}
  <2>5. 0 \in T
    <3>1. Settled(Heapify(s), (L - 0) + 1)
      <4>1. Len(Heapify(s)) = L
        BY <2>2
      <4> QED
        BY <1>2, <4>1 DEF Settled
    <3>2. L - 0 = L
      BY <1>2
    <3> HIDE DEF S
    <3> QED
      BY <2>2, <2>4, <3>1, <3>2
  <2>6. ASSUME NEW k \in T PROVE k + 1 \in T
    <3> SUFFICES ASSUME k + 1 <= L - 1 PROVE Good(k + 1)
      OBVIOUS
    <3> DEFINE n == L - (k + 1)
               t == sorted[k]
               u == sorted[k + 1]
    <3>1. k + 1 \in 1 .. L - 1 /\ (k + 1) - 1 = k /\ n + 1 = L - k /\ n + 2 = (L - k) + 1 /\ Good(k)
      BY <1>2
    <3>2. u = sift_down(SwapItems(t, 0, n), 0, n)
      BY <2>4, <3>1
    <3>3. t \in S /\ Moves(E, L, s, t) /\ Heaped(t, 0, n + 1) /\ Settled(t, n + 2)
      <4> HIDE DEF S, n
      <4> QED
        BY <3>1
    <3>4. u \in S /\ Moves(E, L, t, u) /\ Heaped(u, 0, n) /\ Settled(u, n + 1)
      <4> HIDE DEF S, t, u
      <4> QED
        BY <2>1, <3>1, <3>2, <3>3
    <3>5. Moves(E, L, s, u)
      <4>1. L \in 0 .. Len(s)
        BY <1>2 DEF L
      <4> HIDE DEF t, u, S
      <4> QED
        BY <1>2, <3>3, <3>4, <4>1, MovesOn
    <3> HIDE DEF S, t, n
    <3> QED
      BY <3>4, <3>5 DEF n
  <2>7. T = Nat
    <3> HIDE DEF T
    <3> QED
      BY <2>5, <2>6, Induct DEF T
  <2> DEFINE t == sorted[L - 1]
  <2>8. t \in S /\ Moves(E, L, s, t) /\ Settled(t, 2)
    <3>1. L - 1 \in Nat /\ L - 1 <= L - 1 /\ (L - (L - 1)) + 1 = 2
      BY <1>2, <1>4
    <3>2. L - 1 \in T
      BY <2>7, <3>1
    <3>3. Good(L - 1)
      BY <3>1, <3>2
    <3> HIDE DEF S
    <3> QED
      BY <3>1, <3>3
  <2>9. Settled(t, 1)
    <3> HIDE DEF t
    <3> SUFFICES ASSUME NEW a \in 1 .. Len(t), NEW b \in 1 .. Len(t), b <= a PROVE t[b].pid <= t[a].pid
      BY DEF Settled
    <3>1. CASE 2 <= a
      BY <2>8, <3>1 DEF Settled
    <3>2. CASE ~(2 <= a)
      <4>1. a = b /\ t[a] \in E
        BY <2>8, <3>2
      <4> QED
        BY <4>1 DEF E, Entries
    <3> QED
      BY <3>1, <3>2
  <2> QED
    BY <1>1, <1>4, <2>8, <2>9 DEF Sorts, E, L
<1> QED
  BY <1>3, <1>4

LEMMA SeqVector == ASSUME NEW S, NEW s \in Seq(S) PROVE s \in [1 .. Len(s) -> S]
OBVIOUS

(* What one entry adds to the sum of a pid's entries in a field.           *)
Part(e, pid, field) == IF e.pid = pid THEN e[field] ELSE 0

Parts(E, pid, field) == [e \in E |-> Part(e, pid, field)]

LEMMA SumIsWeight ==
  ASSUME NEW D, "pid" \in D, NEW c \in Seq(Entries(D)), NEW pid, NEW field \in D
  PROVE  /\ Parts(Entries(D), pid, field) \in [Entries(D) -> Nat]
         /\ SumFor(c, pid, field) = Weigh(c, Parts(Entries(D), pid, field))
         /\ SumFor(c, pid, field) \in Nat
<1> DEFINE E == Entries(D)
           w == [e \in E |-> Part(e, pid, field)]
<1>1. w \in [E -> Nat]
  BY DEF Entries, Part
<1>2. [k \in DOMAIN c |-> IF c[k].pid = pid THEN c[k][field] ELSE 0] = [k \in DOMAIN c |-> w[c[k]]]
  <2>1. \A k \in DOMAIN c : c[k] \in E
    OBVIOUS
  <2>2. \A k \in DOMAIN c : w[c[k]] = IF c[k].pid = pid THEN c[k][field] ELSE 0
    BY <2>1 DEF Part
  <2> HIDE DEF w
  <2> QED
    BY <2>2
<1> HIDE DEF w
<1>3. SumFor(c, pid, field) = Weigh(c, w)
  BY <1>2 DEF SumFor, Weigh
<1>4. Weigh(c, w) \in Nat
  BY <1>1, WeighNat
<1> QED
  BY <1>1, <1>3, <1>4 DEF w, Parts

LEMMA SumMoves ==
  ASSUME NEW D, "pid" \in D, NEW c \in Seq(Entries(D)), NEW n, NEW u, Moves(Entries(D), n, c, u),
         NEW pid, NEW field \in D
  PROVE  SumFor(u, pid, field) = SumFor(c, pid, field)
<1> DEFINE w == Parts(Entries(D), pid, field)
<1>1. u \in Seq(Entries(D)) /\ \A v \in [Entries(D) -> Nat] : Weigh(u, v) = Weigh(c, v)
  BY DEF Moves
<1>2. w \in [Entries(D) -> Nat] /\ SumFor(c, pid, field) = Weigh(c, w)
  BY SumIsWeight
<1>3. SumFor(u, pid, field) = Weigh(u, w)
  BY <1>1, SumIsWeight
<1> QED
  BY <1>1, <1>2, <1>3

LEMMA PartNat ==
  ASSUME NEW D, "pid" \in D, NEW e \in Entries(D), NEW pid, NEW field \in D
  PROVE  Part(e, pid, field) \in Nat
BY DEF Part, Entries

LEMMA SumAppend ==
  ASSUME NEW D, "pid" \in D, NEW c \in Seq(Entries(D)), NEW e \in Entries(D), NEW pid, NEW field \in D
  PROVE  SumFor(Append(c, e), pid, field) = SumFor(c, pid, field) + Part(e, pid, field)
<1> DEFINE P(s) == [k \in DOMAIN s |-> IF s[k].pid = pid THEN s[k][field] ELSE 0]
           u == Append(c, e)
           L == Len(c)
<1>1. L \in Nat /\ u \in Seq(Entries(D)) /\ Len(u) = L + 1 /\ u[L + 1] = e /\ \A k \in 1 .. L : u[k] = c[k]
  OBVIOUS
<1>2. P(c) \in Seq(Nat) /\ Len(P(c)) = L
  <2>1. \A k \in 1 .. L : c[k] \in Entries(D)
    OBVIOUS
  <2>2. P(c) \in [1 .. L -> Nat]
    BY <2>1 DEF Entries
  <2> HIDE DEF P, L
  <2> QED
    BY ONLY <1>1, <2>2, VectorOf
<1>3. Part(e, pid, field) \in Nat
  BY PartNat
<1>4. P(u) = Append(P(c), Part(e, pid, field))
  <2> DEFINE q == Append(P(c), Part(e, pid, field))
  <2>1. q \in [1 .. L + 1 -> Nat] /\ q[L + 1] = Part(e, pid, field) /\ \A k \in 1 .. L : q[k] = P(c)[k]
    <3> DEFINE a == P(c)
               x == Part(e, pid, field)
    <3>1. a \in Seq(Nat) /\ Len(a) = L /\ x \in Nat
      BY <1>2, <1>3
    <3> HIDE DEF a, x, P, L
    <3>3. /\ Append(a, x) \in Seq(Nat) /\ Len(Append(a, x)) = Len(a) + 1 /\ Append(a, x)[Len(a) + 1] = x
          /\ \A k \in 1 .. Len(a) : Append(a, x)[k] = a[k]
      BY ONLY <3>1
    <3>4. Append(a, x) \in [1 .. Len(Append(a, x)) -> Nat]
      BY ONLY <3>3, SeqVector
    <3>2. Append(a, x) \in [1 .. L + 1 -> Nat] /\ Append(a, x)[L + 1] = x /\ \A k \in 1 .. L : Append(a, x)[k] = a[k]
      BY ONLY <3>1, <3>3, <3>4
    <3> QED
      BY <3>2 DEF a, x
  <2> HIDE DEF q, u
  <2>2. DOMAIN u = 1 .. L + 1
    BY <1>1
  <2>3. \A k \in 1 .. L + 1 : P(u)[k] = q[k]
    <3> SUFFICES ASSUME NEW k \in 1 .. L + 1 PROVE P(u)[k] = q[k]
      OBVIOUS
    <3>1. CASE k = L + 1
      BY <1>1, <2>1, <2>2, <3>1 DEF Part
    <3>2. CASE k \in 1 .. L
      <4>1. P(u)[k] = IF u[k].pid = pid THEN u[k][field] ELSE 0
        BY <2>2
      <4>2. P(c)[k] = IF c[k].pid = pid THEN c[k][field] ELSE 0
        BY <3>2
      <4>3. u[k] = c[k] /\ q[k] = P(c)[k]
        BY <1>1, <2>1, <3>2
      <4> HIDE DEF P
      <4> QED
        BY <4>1, <4>2, <4>3
    <3> QED
      BY <1>1, <3>1, <3>2
  <2>4. P(u) = [k \in 1 .. L + 1 |-> P(u)[k]] /\ q = [k \in 1 .. L + 1 |-> q[k]]
    BY <2>1, <2>2
  <2> HIDE DEF P, L
  <2> QED
    BY <2>3, <2>4 DEF q
<1>5. SumFor(c, pid, field) = Total(P(c)) /\ SumFor(u, pid, field) = Total(P(u))
  BY DEF SumFor
<1> HIDE DEF P, u
<1>6. Total(P(u)) = Total(P(c)) + Part(e, pid, field)
  BY <1>2, <1>3, <1>4, TotalAppend
<1> QED
  BY <1>5, <1>6 DEF u

LEMMA SumChange ==
  ASSUME NEW D, "pid" \in D, NEW c \in Seq(Entries(D)), NEW k \in 1 .. Len(c), NEW e \in Entries(D),
         NEW pid, NEW field \in D
  PROVE  SumFor([c EXCEPT ![k] = e], pid, field)
           = SumFor(c, pid, field) - Part(c[k], pid, field) + Part(e, pid, field)
<1> DEFINE P(s) == [j \in DOMAIN s |-> IF s[j].pid = pid THEN s[j][field] ELSE 0]
           u == [c EXCEPT ![k] = e]
           L == Len(c)
           q == [P(c) EXCEPT ![k] = Part(e, pid, field)]
<1>1. L \in Nat /\ DOMAIN u = 1 .. L /\ DOMAIN c = 1 .. L /\ \A j \in 1 .. L : u[j] = IF j = k THEN e ELSE c[j]
  OBVIOUS
<1>2. P(c) \in Seq(Nat) /\ Len(P(c)) = L
  <2>1. \A j \in 1 .. L : c[j] \in Entries(D)
    OBVIOUS
  <2>2. P(c) \in [1 .. L -> Nat]
    BY <2>1 DEF Entries
  <2> HIDE DEF P, L
  <2> QED
    BY ONLY <1>1, <2>2, VectorOf
<1>3. Part(e, pid, field) \in Nat
  BY PartNat
<1>4. P(u) = q
  <2>1. DOMAIN q = 1 .. L
    BY <1>1
  <2>2. \A j \in 1 .. L : P(u)[j] = q[j]
    <3> SUFFICES ASSUME NEW j \in 1 .. L PROVE P(u)[j] = q[j]
      OBVIOUS
    <3> HIDE DEF u, L
    <3>1. P(u)[j] = IF u[j].pid = pid THEN u[j][field] ELSE 0
      BY <1>1
    <3>2. q[j] = IF j = k THEN Part(e, pid, field) ELSE IF c[j].pid = pid THEN c[j][field] ELSE 0
      BY <1>1
    <3> HIDE DEF P, q
    <3> QED
      BY <1>1, <3>1, <3>2 DEF Part
  <2>3. P(u) = [j \in 1 .. L |-> P(u)[j]] /\ q = [j \in 1 .. L |-> q[j]]
    BY <1>1
  <2> HIDE DEF P, q, u, L
  <2> QED
    BY <2>2, <2>3
<1>5. /\ SumFor(c, pid, field) = Total(P(c)) /\ SumFor(u, pid, field) = Total(P(u))
      /\ P(c)[k] = Part(c[k], pid, field)
  BY DEF SumFor, Part
<1>6. Total(q) = Total(P(c)) - P(c)[k] + Part(e, pid, field)
  <2> HIDE DEF P, L
  <2> QED
    BY <1>2, <1>3, TotalChange DEF L
<1> HIDE DEF P, q, u
<1> QED
  BY <1>4, <1>5, <1>6 DEF u

(* A map is sorted throughout, so a key has one entry at most.             *)
LEMMA MapOrdered ==
  ASSUME NEW D, "pid" \in D, NEW c \in Seq(Entries(D)), IsMap(c)
  PROVE  \A a, b \in 1 .. Len(c) : a < b => c[a].pid < c[b].pid
<1> DEFINE L == Len(c)
<1>1. L \in Nat /\ \A k \in 1 .. L : c[k].pid \in Nat
  <2>1. \A k \in 1 .. L : c[k] \in Entries(D)
    OBVIOUS
  <2> QED
    BY <2>1 DEF Entries
<1> SUFFICES ASSUME NEW a \in 1 .. L PROVE \A b \in 1 .. L : a < b => c[a].pid < c[b].pid
  OBVIOUS
<1>2. \A k \in 1 .. L - 1 : c[k].pid < c[k + 1].pid
  BY DEF IsMap
<1> HIDE DEF L
<1> DEFINE T == {m \in Nat : a < m /\ m <= L => c[a].pid < c[m].pid}
<1>3. 0 \in T
  OBVIOUS
<1>4. ASSUME NEW m \in T PROVE m + 1 \in T
  <2> SUFFICES ASSUME a < m + 1, m + 1 <= L PROVE c[a].pid < c[m + 1].pid
    OBVIOUS
  <2>1. m \in 1 .. L - 1 /\ m \in 1 .. L /\ m + 1 \in 1 .. L
    BY <1>1
  <2>2. c[m].pid < c[m + 1].pid /\ c[a].pid \in Nat /\ c[m].pid \in Nat /\ c[m + 1].pid \in Nat
    BY <1>1, <1>2, <2>1
  <2>3. CASE a = m
    BY <2>2, <2>3
  <2>4. CASE a < m
    <3>1. c[a].pid < c[m].pid
      BY <2>1, <2>4
    <3> QED
      BY <2>2, <3>1
  <2> QED
    BY <2>1, <2>3, <2>4
<1>5. T = Nat
  <2> HIDE DEF T
  <2> QED
    BY <1>3, <1>4, Induct DEF T
<1> SUFFICES ASSUME NEW b \in 1 .. L, a < b PROVE c[a].pid < c[b].pid
  OBVIOUS
<1>6. b \in Nat /\ b <= L
  BY <1>1
<1>7. b \in T
  <2> HIDE DEF T
  <2> QED
    BY <1>5, <1>6
<1> QED
  BY <1>6, <1>7

LEMMA SumOnly ==
  ASSUME NEW D, "pid" \in D, NEW c \in Seq(Entries(D)), IsMap(c), NEW k \in 1 .. Len(c), NEW field \in D
  PROVE  SumFor(c, c[k].pid, field) = c[k][field]
<1> DEFINE L == Len(c)
           P == [j \in DOMAIN c |-> IF c[j].pid = c[k].pid THEN c[j][field] ELSE 0]
<1>1. \A j \in 1 .. L : c[j] \in Entries(D) /\ c[j].pid \in Nat
  <2>1. \A j \in 1 .. L : c[j] \in Entries(D)
    OBVIOUS
  <2> QED
    BY <2>1 DEF Entries
<1>2. P \in [1 .. L -> Nat] /\ L \in Nat /\ P[k] = c[k][field]
  BY <1>1 DEF Entries
<1>3. \A j \in 1 .. L : j # k => P[j] = 0
  <2> SUFFICES ASSUME NEW j \in 1 .. L, j # k PROVE P[j] = 0
    OBVIOUS
  <2>1. c[j].pid # c[k].pid
    <3>1. j < k \/ k < j
      OBVIOUS
    <3>2. c[j].pid < c[k].pid \/ c[k].pid < c[j].pid
      BY <3>1, MapOrdered
    <3> QED
      BY <1>1, <3>2
  <2> QED
    BY <2>1
<1>4. SumFor(c, c[k].pid, field) = Total(P)
  BY DEF SumFor
<1> HIDE DEF P, L
<1>5. P \in Seq(Nat) /\ Len(P) = L
  BY ONLY <1>2, VectorOf
<1>6. Total(P) = P[k]
  <2>1. k \in 1 .. Len(P) /\ \A j \in 1 .. Len(P) : j # k => P[j] = 0
    BY <1>3, <1>5 DEF L
  <2> QED
    BY <1>5, <2>1, TotalOne
<1> QED
  BY <1>2, <1>4, <1>6

LEMMA SumNone ==
  ASSUME NEW D, "pid" \in D, NEW c \in Seq(Entries(D)), NEW pid, NEW field \in D,
         \A k \in 1 .. Len(c) : Part(c[k], pid, field) = 0
  PROVE  SumFor(c, pid, field) = 0
<1> DEFINE L == Len(c)
           P == [j \in DOMAIN c |-> IF c[j].pid = pid THEN c[j][field] ELSE 0]
<1>2. P \in [1 .. L -> Nat] /\ L \in Nat /\ \A k \in 1 .. L : P[k] = 0
  BY DEF Part
<1>4. SumFor(c, pid, field) = Total(P)
  BY DEF SumFor
<1> HIDE DEF P, L
<1>5. P \in Seq(Nat) /\ Len(P) = L
  BY ONLY <1>2, VectorOf
<1> QED
  BY <1>2, <1>4, <1>5, TotalZero

(* The map so far, with one more entry kept or merged.                     *)
Keeps(D, kept, e, r, added) ==
  /\ r \in Seq(Entries(D)) /\ IsMap(r) /\ r # <<>> /\ r[Len(r)].pid = e.pid
  /\ \A pid \in Nat, field \in added :
       SumFor(r, pid, field) = SumFor(kept, pid, field) + Part(e, pid, field)

LEMMA KeepOrMergeKeeps ==
  ASSUME NEW D, "pid" \in D, NEW added \in SUBSET (D \ {"pid"}), NEW kept \in Seq(Entries(D)),
         NEW e \in Entries(D), IsMap(kept), kept # <<>> => kept[Len(kept)].pid <= e.pid
  PROVE  Keeps(D, kept, e, KeepOrMerge(kept, e, added), added)
<1> DEFINE E == Entries(D)
           L == Len(kept)
           r == KeepOrMerge(kept, e, added)
<1>1. L \in Nat /\ (kept # <<>> => L \in 1 .. L) /\ (kept = <<>> => L = 0) /\ \A k \in 1 .. L : kept[k] \in E
  OBVIOUS
<1>2. e.pid \in Nat /\ \A k \in 1 .. L : kept[k].pid \in Nat
  BY <1>1 DEF Entries
<1>3. \A k \in 1 .. L - 1 : kept[k].pid < kept[k + 1].pid
  BY DEF IsMap
<1>4. CASE kept # <<>> /\ kept[L].pid = e.pid
  <2> DEFINE x == Merged(kept[L], e, added)
  <2>1. r = [kept EXCEPT ![L] = x]
    BY <1>4 DEF KeepOrMerge
  <2>2. x \in E /\ x.pid = e.pid /\ \A field \in added : x[field] = kept[L][field] + e[field]
    <3>1. kept[L] \in [D -> Nat] /\ e \in [D -> Nat] /\ "pid" \notin added
      BY <1>1, <1>4 DEF Entries
    <3>2. x = [f \in D |-> IF f \in added THEN kept[L][f] + e[f] ELSE kept[L][f]]
      BY <3>1 DEF Merged
    <3> HIDE DEF x, L
    <3>3. x.pid = kept[L].pid /\ \A field \in added : x[field] = kept[L][field] + e[field]
      BY <3>1, <3>2
    <3>4. x \in [D -> Nat]
      BY <3>1, <3>2
    <3> QED
      BY <1>4, <3>3, <3>4 DEF Entries
  <2> HIDE DEF x, r
  <2>3. r \in Seq(E) /\ Len(r) = L /\ \A k \in 1 .. L : r[k] = IF k = L THEN x ELSE kept[k]
    <3> HIDE DEF E
    <3>1. kept \in Seq(E) /\ L \in 1 .. Len(kept) /\ x \in E
      BY <1>1, <1>4, <2>2 DEF E
    <3> QED
      BY <2>1, <3>1
  <2>4. \A k \in 1 .. L : r[k].pid = kept[k].pid
    BY <1>4, <2>2, <2>3
  <2>5. IsMap(r)
    <3> SUFFICES ASSUME NEW k \in 1 .. L - 1 PROVE r[k].pid < r[k + 1].pid
      BY <2>3 DEF IsMap
    <3>1. k \in 1 .. L /\ k + 1 \in 1 .. L
      BY <1>1
    <3> QED
      BY <1>3, <2>4, <3>1
  <2>6. r # <<>> /\ r[Len(r)].pid = e.pid
    BY <1>1, <1>4, <2>2, <2>3
  <2>7. ASSUME NEW pid \in Nat, NEW field \in added
        PROVE  SumFor(r, pid, field) = SumFor(kept, pid, field) + Part(e, pid, field)
    <3>1. L \in 1 .. Len(kept) /\ field \in D /\ kept[L] \in E
      BY <1>1, <1>4
    <3>2. SumFor(r, pid, field) = SumFor(kept, pid, field) - Part(kept[L], pid, field) + Part(x, pid, field)
      <4> HIDE DEF L, E
      <4>1. L \in 1 .. Len(kept) /\ x \in Entries(D)
        BY <2>2, <3>1 DEF E
      <4>2. SumFor([kept EXCEPT ![L] = x], pid, field)
              = SumFor(kept, pid, field) - Part(kept[L], pid, field) + Part(x, pid, field)
        BY <3>1, <4>1, SumChange
      <4> QED
        BY <2>1, <4>2
    <3>3. Part(x, pid, field) = Part(kept[L], pid, field) + Part(e, pid, field)
      <4> HIDE DEF L, E
      <4>1. x.pid = e.pid /\ kept[L].pid = e.pid /\ x[field] = kept[L][field] + e[field]
        BY <1>4, <2>2
      <4> QED
        BY <4>1 DEF Part
    <3>4. SumFor(kept, pid, field) \in Nat /\ Part(kept[L], pid, field) \in Nat /\ Part(e, pid, field) \in Nat
      BY <3>1, SumIsWeight, PartNat
    <3> QED
      BY <3>2, <3>3, <3>4
  <2> QED
    BY <2>3, <2>5, <2>6, <2>7 DEF Keeps, E, r
<1>5. CASE ~(kept # <<>> /\ kept[L].pid = e.pid)
  <2>1. r = Append(kept, e)
    BY <1>5 DEF KeepOrMerge
  <2> HIDE DEF r
  <2>2. r \in Seq(E) /\ Len(r) = L + 1 /\ r[L + 1] = e /\ \A k \in 1 .. L : r[k] = kept[k]
    <3> HIDE DEF E
    <3>1. kept \in Seq(E) /\ e \in E
      BY DEF E
    <3> QED
      BY <2>1, <3>1
  <2>3. IsMap(r)
    <3> SUFFICES ASSUME NEW k \in 1 .. L PROVE r[k].pid < r[k + 1].pid
      BY <1>1, <2>2 DEF IsMap
    <3>1. CASE k = L
      <4>1. kept # <<>> /\ kept[L].pid <= e.pid
        BY <1>1, <3>1
      <4> QED
        BY <1>1, <1>2, <1>5, <2>2, <3>1, <4>1
    <3>2. CASE k \in 1 .. L - 1
      <4>1. k + 1 \in 1 .. L
        BY <1>1, <3>2
      <4> QED
        BY <1>3, <2>2, <3>2, <4>1
    <3> QED
      BY <1>1, <3>1, <3>2
  <2>4. r # <<>> /\ r[Len(r)].pid = e.pid
    BY <1>1, <2>2
  <2>5. ASSUME NEW pid \in Nat, NEW field \in added
        PROVE  SumFor(r, pid, field) = SumFor(kept, pid, field) + Part(e, pid, field)
    BY <2>1, SumAppend
  <2> QED
    BY <2>2, <2>3, <2>4, <2>5 DEF Keeps, E, r
<1> QED
  BY <1>4, <1>5

(* The first n entries.                                                    *)
Cut(s, n) == [k \in 1 .. n |-> s[k]]

LEMMA CutGrows ==
  ASSUME NEW S, NEW s \in Seq(S)
  PROVE  /\ Cut(s, 0) = <<>> /\ Cut(s, Len(s)) = s
         /\ \A n \in 0 .. Len(s) : Cut(s, n) \in Seq(S) /\ Len(Cut(s, n)) = n
         /\ \A n \in 0 .. Len(s) - 1 : Cut(s, n + 1) = Append(Cut(s, n), s[n + 1])
<1> DEFINE L == Len(s)
<1>1. L \in Nat /\ s \in [1 .. L -> S]
  OBVIOUS
<1> HIDE DEF L
<1>2. ASSUME NEW n \in 0 .. L PROVE Cut(s, n) \in [1 .. n -> S] /\ Cut(s, n) \in Seq(S) /\ Len(Cut(s, n)) = n
  <2>1. n \in Nat /\ \A k \in 1 .. n : s[k] \in S
    BY <1>1
  <2>2. Cut(s, n) \in [1 .. n -> S]
    BY <2>1 DEF Cut
  <2> QED
    BY ONLY <2>1, <2>2, VectorOf
<1>3. ASSUME NEW n \in 0 .. L - 1 PROVE Cut(s, n + 1) = Append(Cut(s, n), s[n + 1])
  <2> DEFINE a == Cut(s, n)
             x == s[n + 1]
             b == Cut(s, n + 1)
             c == Append(a, x)
  <2>1. n \in 0 .. L /\ n + 1 \in 0 .. L /\ n + 1 \in 1 .. L
    BY <1>1
  <2>2. a \in Seq(S) /\ Len(a) = n /\ x \in S /\ b \in [1 .. n + 1 -> S]
    BY <1>1, <1>2, <2>1
  <2>3. (\A k \in 1 .. n : a[k] = s[k]) /\ \A k \in 1 .. n + 1 : b[k] = s[k]
    BY DEF Cut
  <2> HIDE DEF a, b, x
  <2>4. c \in Seq(S) /\ Len(c) = n + 1 /\ c[n + 1] = x /\ \A k \in 1 .. n : c[k] = a[k]
    BY <2>2
  <2> HIDE DEF c
  <2>5. c \in [1 .. n + 1 -> S]
    BY <2>4, SeqVector
  <2>6. \A k \in 1 .. n + 1 : c[k] = b[k]
    <3> SUFFICES ASSUME NEW k \in 1 .. n + 1 PROVE c[k] = b[k]
      OBVIOUS
    <3>1. k = n + 1 \/ k \in 1 .. n
      BY <2>1
    <3> QED
      BY <2>3, <2>4, <3>1 DEF x
  <2>7. b = c
    BY <2>2, <2>5, <2>6
  <2> QED
    BY <2>7 DEF a, b, c, x
<1>4. Cut(s, 0) = <<>>
  <2>1. 0 \in 0 .. L
    BY <1>1
  <2>2. Cut(s, 0) \in Seq(S) /\ Len(Cut(s, 0)) = 0
    BY <1>2, <2>1
  <2> QED
    BY <2>2
<1>5. Cut(s, L) = s
  BY <1>1 DEF Cut
<1> QED
  BY <1>2, <1>3, <1>4, <1>5 DEF L

(* A map of the same sums.                                                 *)
Freezes(D, s, r, added) ==
  /\ r \in Seq(Entries(D)) /\ IsMap(r)
  /\ \A pid \in Nat, field \in added : SumFor(r, pid, field) = SumFor(s, pid, field)

LEMMA DedupFreezes ==
  ASSUME NEW D, "pid" \in D, NEW added \in SUBSET (D \ {"pid"}), NEW s \in Seq(Entries(D)), Settled(s, 1)
  PROVE  Freezes(D, s, dedup_in_place(s, added), added)
<1> DEFINE E == Entries(D)
           S == Seq(E)
           L == Len(s)
           Rule(f) == [n \in 0 .. L |-> IF n = 0 THEN <<>> ELSE KeepOrMerge(f[n - 1], s[n], added)]
           kept == CHOOSE f : f = Rule(f)
           g == [n \in 1 .. L |-> [t \in S |-> KeepOrMerge(t, s[n], added)]]
<1>1. dedup_in_place(s, added) = kept[L]
  BY DEF dedup_in_place
<1>2. L \in Nat /\ s \in Seq(E) /\ <<>> \in S /\ \A n \in 1 .. L : s[n] \in E
  OBVIOUS
<1>3. ASSUME NEW t \in S, NEW e \in E PROVE KeepOrMerge(t, e, added) \in S
  <2>1. CASE t # <<>> /\ t[Len(t)].pid = e.pid
    <3> DEFINE x == Merged(t[Len(t)], e, added)
    <3>1. t[Len(t)] \in [D -> Nat] /\ e \in [D -> Nat]
      <4>1. Len(t) \in 1 .. Len(t)
        BY <2>1
      <4> QED
        BY <4>1 DEF Entries
    <3>2. x \in E
      BY <3>1 DEF Merged, Entries
    <3> HIDE DEF x, E
    <3>3. KeepOrMerge(t, e, added) = [t EXCEPT ![Len(t)] = x]
      BY <2>1 DEF KeepOrMerge, x
    <3>4. Len(t) \in 1 .. Len(t)
      BY <2>1
    <3> QED
      BY <3>2, <3>3, <3>4
  <2>2. CASE ~(t # <<>> /\ t[Len(t)].pid = e.pid)
    <3> HIDE DEF E
    <3>1. KeepOrMerge(t, e, added) = Append(t, e)
      BY <2>2 DEF KeepOrMerge
    <3> QED
      BY <3>1
  <2> QED
    BY <2>1, <2>2
<1> HIDE DEF E, L
<1>4. kept = Rule(kept)
  <2>1. g \in [1 .. L -> [S -> S]]
    <3> HIDE DEF S
    <3> QED
      BY <1>2, <1>3
  <2>2. PICK f \in [0 .. L -> S] : Rounds(f, <<>>, g, L)
    <3> HIDE DEF S, g
    <3> QED
      BY <1>2, <2>1, LoopExists
  <2>3. \A n \in 0 .. L : f[n] = Rule(f)[n]
    <3>1. 0 \in 0 .. L /\ \A n \in 0 .. L : n = 0 \/ n \in 1 .. L
      BY <1>2
    <3>2. f[0] = Rule(f)[0]
      BY <2>2, <3>1 DEF Rounds
    <3> HIDE DEF S
    <3> SUFFICES ASSUME NEW n \in 1 .. L PROVE f[n] = Rule(f)[n]
      <4> HIDE DEF Rule
      <4> QED
        BY <3>1, <3>2
    <3>3. n - 1 \in 0 .. L /\ n \in 0 .. L /\ n # 0 /\ f[n - 1] \in S
      BY <1>2
    <3> QED
      BY <2>2, <3>3 DEF Rounds
  <2>4. f = [n \in 0 .. L |-> f[n]] /\ Rule(f) = [n \in 0 .. L |-> Rule(f)[n]]
    OBVIOUS
  <2>5. f = Rule(f)
    <3> HIDE DEF Rule, S
    <3> QED
      BY <2>3, <2>4
  <2> QED
    BY <2>5
<1>5. kept[0] = <<>> /\ \A n \in 1 .. L : kept[n] = KeepOrMerge(kept[n - 1], s[n], added)
  <2>1. 0 \in 0 .. L /\ \A n \in 1 .. L : n \in 0 .. L /\ n # 0
    BY <1>2
  <2> HIDE DEF kept
  <2> QED
    BY <1>4, <2>1
<1> HIDE DEF kept
<1> DEFINE Good(n) == /\ kept[n] \in S /\ IsMap(kept[n])
                      /\ kept[n] # <<>> => n > 0 /\ kept[n][Len(kept[n])].pid = s[n].pid
                      /\ \A pid \in Nat, field \in added :
                           SumFor(kept[n], pid, field) = SumFor(Cut(s, n), pid, field)
           T == {n \in Nat : n <= L => Good(n)}
<1>6. 0 \in T
  <2>1. kept[0] = <<>> /\ Cut(s, 0) = <<>>
    BY <1>2, <1>5, CutGrows
  <2>2. IsMap(<<>>)
    BY DEF IsMap
  <2> HIDE DEF S
  <2> QED
    BY <1>2, <2>1, <2>2
<1>7. ASSUME NEW n \in T PROVE n + 1 \in T
  <2> SUFFICES ASSUME n + 1 <= L PROVE Good(n + 1)
    OBVIOUS
  <2>1. n + 1 \in 1 .. L /\ (n + 1) - 1 = n /\ n \in 0 .. L - 1 /\ n \in 0 .. L /\ (n > 0 => n \in 1 .. L)
        /\ Good(n) /\ n + 1 \in Nat /\ n + 1 > 0
    BY <1>2
  <2> DEFINE t == kept[n]
             r == kept[n + 1]
             e == s[n + 1]
  <2>2. r = KeepOrMerge(t, e, added) /\ t \in S /\ e \in E
    BY <1>2, <1>5, <2>1
  <2>3. t # <<>> => t[Len(t)].pid <= e.pid
    <3> SUFFICES ASSUME t # <<>> PROVE s[n].pid <= s[n + 1].pid
      BY <2>1
    <3>1. n \in 1 .. L
      BY <2>1
    <3> QED
      BY <1>2, <2>1, <3>1 DEF Settled, L
  <2>4. Keeps(D, t, e, r, added)
    <3>1. t \in Seq(Entries(D)) /\ e \in Entries(D) /\ IsMap(t)
      BY <2>1, <2>2 DEF E
    <3> HIDE DEF t, e, r
    <3> QED
      BY <2>2, <2>3, <3>1, KeepOrMergeKeeps
  <2>5. ASSUME NEW pid \in Nat, NEW field \in added
        PROVE  SumFor(r, pid, field) = SumFor(Cut(s, n + 1), pid, field)
    <3>1. SumFor(r, pid, field) = SumFor(t, pid, field) + Part(e, pid, field)
      BY <2>4 DEF Keeps
    <3>2. SumFor(t, pid, field) = SumFor(Cut(s, n), pid, field)
      BY <2>1
    <3>3. Cut(s, n + 1) = Append(Cut(s, n), e) /\ Cut(s, n) \in Seq(Entries(D))
      BY <1>2, <2>1, CutGrows DEF E, L
    <3> HIDE DEF e
    <3>4. SumFor(Append(Cut(s, n), e), pid, field) = SumFor(Cut(s, n), pid, field) + Part(e, pid, field)
      BY <2>2, <3>3, SumAppend DEF E
    <3> QED
      BY <3>1, <3>2, <3>3, <3>4
  <2>6. r \in S /\ IsMap(r) /\ r[Len(r)].pid = e.pid
    BY <2>4 DEF Keeps, E
  <2> HIDE DEF S
  <2> QED
    BY <2>1, <2>5, <2>6
<1>8. T = Nat
  <2> HIDE DEF T
  <2> QED
    BY <1>6, <1>7, Induct DEF T
<1>9. Good(L) /\ Cut(s, L) = s
  <2>1. L \in T /\ L <= L
    BY <1>2, <1>8
  <2> HIDE DEF S
  <2>2. Good(L)
    BY <2>1
  <2> QED
    BY <1>2, <2>2, CutGrows DEF L
<1> QED
  BY <1>1, <1>9 DEF Freezes, E

(* freeze_map of src/map.rs: whatever was pushed, in whatever order and    *)
(* with however many duplicates, the map has its keys in ascending order,  *)
(* each once, and what was added up of a key is the sum of its entries.    *)
THEOREM FreezeMapFreezes ==
  ASSUME NEW D, "pid" \in D, NEW added \in SUBSET (D \ {"pid"}), NEW s \in Seq(Entries(D))
  PROVE  Freezes(D, s, freeze_map(s, added), added)
<1> DEFINE t == sort_by_u32_key(s)
<1>1. freeze_map(s, added) = dedup_in_place(t, added)
  BY DEF freeze_map
<1>2. Moves(Entries(D), Len(s), s, t) /\ Settled(t, 1)
  BY HeapsortSorts DEF Sorts
<1> HIDE DEF t
<1>3. t \in Seq(Entries(D))
  BY <1>2 DEF Moves
<1>4. Freezes(D, t, dedup_in_place(t, added), added)
  BY <1>2, <1>3, DedupFreezes
<1>5. \A pid \in Nat, field \in added : SumFor(t, pid, field) = SumFor(s, pid, field)
  BY <1>2, SumMoves
<1> QED
  BY <1>1, <1>4, <1>5 DEF Freezes

(* The place of an entry with this key, or 0 where there is none.          *)
Finds(s, pid, at1) ==
  /\ at1 \in 0 .. Len(s)
  /\ at1 # 0 => s[at1].pid = pid
  /\ at1 = 0 => \A k \in 1 .. Len(s) : s[k].pid # pid

(* Map::get: the bisection finds the entry with this key in a map of any   *)
(* length, and finds none only where there is none.                        *)
THEOREM IndexOfFinds ==
  ASSUME NEW D, "pid" \in D, NEW s \in Seq(Entries(D)), IsMap(s), NEW pid \in Nat
  PROVE  Finds(s, pid, IndexOf(s, pid))
<1> DEFINE L == Len(s)
           R == [lo : 0 .. L, hi : 0 .. L]
           Mid(r) == (r.lo + r.hi) \div 2
           Body(f, r) ==
             IF r.lo >= r.hi THEN 0
             ELSE LET mid == (r.lo + r.hi) \div 2
                  IN CASE KeyOf(s, mid) = pid -> mid + 1
                       [] KeyOf(s, mid) < pid -> f[[r EXCEPT !.lo = mid + 1]]
                       [] OTHER -> f[[r EXCEPT !.hi = mid]]
           Rule(f) == [r \in R |-> Body(f, r)]
           find == CHOOSE f : f = Rule(f)
           Busy == {r \in R : r.lo < r.hi /\ KeyOf(s, Mid(r)) # pid}
           next == [r \in R |-> IF r \notin Busy THEN r
                                ELSE IF KeyOf(s, Mid(r)) < pid THEN [r EXCEPT !.lo = Mid(r) + 1]
                                ELSE [r EXCEPT !.hi = Mid(r)]]
           res == [r \in R |-> IF r.lo >= r.hi THEN 0 ELSE Mid(r) + 1]
           size == [r \in R |-> IF r.lo >= r.hi THEN 0 ELSE r.hi - r.lo]
           from == [lo |-> 0, hi |-> L]
<1>1. IndexOf(s, pid) = find[from]
  BY DEF IndexOf
<1>2. L \in Nat /\ from \in R /\ \A r \in R : r.lo \in 0 .. L /\ r.hi \in 0 .. L
  OBVIOUS
<1>3. \A k \in 0 .. L - 1 : KeyOf(s, k) \in Nat /\ k + 1 \in 1 .. L /\ KeyOf(s, k) = s[k + 1].pid
  BY Keys1 DEF KeyOf
<1>4. \A r \in R : r.lo < r.hi => Mid(r) \in 0 .. L - 1 /\ r.lo <= Mid(r) /\ Mid(r) < r.hi /\ Mid(r) + 1 \in 1 .. L
  <2> SUFFICES ASSUME NEW r \in R, r.lo < r.hi
               PROVE  Mid(r) \in 0 .. L - 1 /\ r.lo <= Mid(r) /\ Mid(r) < r.hi /\ Mid(r) + 1 \in 1 .. L
    OBVIOUS
  <2> DEFINE a == r.lo
             b == r.hi
  <2>1. a \in Nat /\ b \in Nat /\ a < b /\ b <= L
    BY <1>2
  <2> HIDE DEF a, b, L
  <2>2. (a + b) \div 2 \in Nat /\ a <= (a + b) \div 2 /\ (a + b) \div 2 < b
    BY <2>1
  <2>3. (a + b) \div 2 \in 0 .. L - 1 /\ (a + b) \div 2 + 1 \in 1 .. L
    BY <1>2, <2>1, <2>2
  <2> QED
    BY <2>2, <2>3 DEF a, b
<1> HIDE DEF L, Mid, Rule, Body
<1>5. \A r \in R : [r EXCEPT !.lo = Mid(r) + 1].lo = Mid(r) + 1 /\ [r EXCEPT !.lo = Mid(r) + 1].hi = r.hi
                   /\ [r EXCEPT !.hi = Mid(r)].lo = r.lo /\ [r EXCEPT !.hi = Mid(r)].hi = Mid(r)
                   /\ (r.lo < r.hi => [r EXCEPT !.lo = Mid(r) + 1] \in R /\ [r EXCEPT !.hi = Mid(r)] \in R)
  <2> SUFFICES ASSUME NEW r \in R
               PROVE  /\ [r EXCEPT !.lo = Mid(r) + 1].lo = Mid(r) + 1 /\ [r EXCEPT !.lo = Mid(r) + 1].hi = r.hi
                      /\ [r EXCEPT !.hi = Mid(r)].lo = r.lo /\ [r EXCEPT !.hi = Mid(r)].hi = Mid(r)
                      /\ r.lo < r.hi => [r EXCEPT !.lo = Mid(r) + 1] \in R /\ [r EXCEPT !.hi = Mid(r)] \in R
    OBVIOUS
  <2>1. r.lo < r.hi => Mid(r) + 1 \in 0 .. L /\ Mid(r) \in 0 .. L
    BY <1>2, <1>4
  <2> QED
    BY <2>1
<1>6. Busy \in SUBSET R /\ next \in [R -> R]
      /\ \A r \in Busy : r \in R /\ r.lo < r.hi /\ next[r] \in R /\ size[next[r]] < size[r]
  <2>1. \A r \in R : next[r] \in R
    BY <1>5
  <2>2. ASSUME NEW r \in Busy PROVE r \in R /\ r.lo < r.hi /\ next[r] \in R /\ size[next[r]] < size[r]
    <3>1. r \in R /\ r.lo < r.hi /\ next[r] \in R
      BY <2>1
    <3>2. Mid(r) \in 0 .. L - 1 /\ r.lo <= Mid(r) /\ Mid(r) < r.hi /\ r.lo \in Nat /\ r.hi \in Nat
      BY <1>2, <1>4, <3>1
    <3>3. \/ next[r].lo = Mid(r) + 1 /\ next[r].hi = r.hi
          \/ next[r].lo = r.lo /\ next[r].hi = Mid(r)
      BY <1>5, <3>1
    <3>4. size[r] = r.hi - r.lo
      BY <3>1, <3>2
    <3> DEFINE q == next[r]
    <3> HIDE DEF next, Busy
    <3>5. q \in R
      BY <3>1
    <3> HIDE DEF q
    <3>6. size[q] = IF q.lo >= q.hi THEN 0 ELSE q.hi - q.lo
      BY <3>5
    <3> HIDE DEF size
    <3>7. q.lo \in Nat /\ q.hi \in Nat
      BY <1>2, <3>5
    <3>8. size[q] < size[r]
      BY <1>2, <3>2, <3>3, <3>4, <3>6, <3>7 DEF q
    <3> QED
      BY <3>1, <3>8 DEF q
  <2>3. next \in [R -> R]
    <3>1. next = [r \in R |-> next[r]]
      OBVIOUS
    <3> HIDE DEF next, R
    <3> QED
      BY <2>1, <3>1
  <2> HIDE DEF next, R, size
  <2> QED
    BY <2>2, <2>3
<1>7. size \in [R -> 0 .. L] /\ res \in [R -> 0 .. L]
  <2>1. \A r \in R : size[r] \in 0 .. L
    BY <1>2
  <2>2. \A r \in R : res[r] \in 0 .. L
    BY <1>2, <1>4
  <2>3. size = [r \in R |-> size[r]] /\ res = [r \in R |-> res[r]]
    OBVIOUS
  <2> HIDE DEF size, res, R
  <2> QED
    BY <2>1, <2>2, <2>3
<1>8. find = Rule(find)
  <2>1. PICK f \in [R -> 0 .. L] : Turns(f, next, res, Busy)
    <3> HIDE DEF R, next, res, size, Busy
    <3> QED
      BY <1>2, <1>6, <1>7, WhileExists
  <2>2. \A r \in R : f[r] = Rule(f)[r]
    <3> SUFFICES ASSUME NEW r \in R PROVE f[r] = Rule(f)[r]
      OBVIOUS
    <3>1. f[r] = IF r \in Busy THEN f[next[r]] ELSE res[r]
      <4>1. DOMAIN res = R
        OBVIOUS
      <4> HIDE DEF R, next, res, Busy
      <4> QED
        BY <2>1, <4>1 DEF Turns
    <3>2. Rule(f)[r] = IF r.lo >= r.hi THEN 0
                       ELSE CASE KeyOf(s, Mid(r)) = pid -> Mid(r) + 1
                              [] KeyOf(s, Mid(r)) < pid -> f[[r EXCEPT !.lo = Mid(r) + 1]]
                              [] OTHER -> f[[r EXCEPT !.hi = Mid(r)]]
      BY DEF Rule, Body, Mid
    <3>3. r.lo \in Nat /\ r.hi \in Nat
      BY <1>2
    <3>4. CASE r.lo >= r.hi
      <4>1. r \notin Busy /\ res[r] = 0
        BY <3>3, <3>4
      <4> QED
        BY <3>1, <3>2, <3>4, <4>1
    <3>5. CASE r.lo < r.hi /\ KeyOf(s, Mid(r)) = pid
      <4>1. r \notin Busy /\ res[r] = Mid(r) + 1 /\ ~(r.lo >= r.hi)
        BY <3>3, <3>5
      <4> QED
        BY <3>1, <3>2, <3>5, <4>1
    <3>6. CASE r.lo < r.hi /\ KeyOf(s, Mid(r)) # pid
      <4>1. r \in Busy /\ ~(r.lo >= r.hi)
        BY <3>3, <3>6
      <4>2. next[r] = IF KeyOf(s, Mid(r)) < pid THEN [r EXCEPT !.lo = Mid(r) + 1] ELSE [r EXCEPT !.hi = Mid(r)]
        BY <4>1
      <4> HIDE DEF next, Busy, R
      <4> QED
        BY <3>1, <3>2, <3>6, <4>1, <4>2
    <3> QED
      BY <3>3, <3>4, <3>5, <3>6
  <2>3. f = [r \in R |-> f[r]] /\ Rule(f) = [r \in R |-> Rule(f)[r]]
    <3> HIDE DEF R
    <3>1. f = [r \in R |-> f[r]]
      OBVIOUS
    <3>2. Rule(f) = [r \in R |-> Rule(f)[r]]
      <4> HIDE DEF Body
      <4> QED
        BY DEF Rule
    <3> QED
      BY <3>1, <3>2
  <2>4. f = Rule(f)
    <3> HIDE DEF R
    <3> QED
      BY <2>2, <2>3
  <2> QED
    BY <2>4
<1>9. \A r \in R : find[r] = IF r.lo >= r.hi THEN 0
                             ELSE CASE KeyOf(s, Mid(r)) = pid -> Mid(r) + 1
                                    [] KeyOf(s, Mid(r)) < pid -> find[[r EXCEPT !.lo = Mid(r) + 1]]
                                    [] OTHER -> find[[r EXCEPT !.hi = Mid(r)]]
  <2> HIDE DEF find
  <2> SUFFICES ASSUME NEW r \in R
               PROVE  find[r] = IF r.lo >= r.hi THEN 0
                                ELSE CASE KeyOf(s, Mid(r)) = pid -> Mid(r) + 1
                                       [] KeyOf(s, Mid(r)) < pid -> find[[r EXCEPT !.lo = Mid(r) + 1]]
                                       [] OTHER -> find[[r EXCEPT !.hi = Mid(r)]]
    OBVIOUS
  <2>1. find[r] = Rule(find)[r]
    BY <1>8
  <2> QED
    BY <2>1 DEF Rule, Body, Mid
<1> HIDE DEF find
(* Whatever has the key is between lo and hi.                              *)
<1> DEFINE Within(r) == r.lo <= r.hi => \A k \in 1 .. L : s[k].pid = pid => r.lo < k /\ k <= r.hi
           T == {m \in Nat : \A r \in R : Within(r) /\ r.lo <= r.hi /\ r.hi - r.lo <= m => Finds(s, pid, find[r])}
<1>10. ASSUME NEW r \in R, r.lo >= r.hi, r.lo <= r.hi, Within(r) PROVE Finds(s, pid, find[r])
  <2>3. r.lo \in Nat /\ r.hi \in Nat
    BY <1>2, <1>10
  <2>4. r.lo = r.hi
    BY <1>10, <2>3
  <2>5. find[r] = 0
    <3> HIDE DEF R
    <3> QED
      BY <1>9, <1>10, Zenon
  <2>1. find[r] = 0 /\ r.lo = r.hi
    BY <2>4, <2>5
  <2>2. \A k \in 1 .. L : s[k].pid # pid
    BY <1>2, <1>10, <2>1
  <2> QED
    BY <1>2, <2>1, <2>2 DEF Finds, L
<1>11. 0 \in T
  <2> SUFFICES ASSUME NEW r \in R, Within(r), r.lo <= r.hi, r.hi - r.lo <= 0 PROVE Finds(s, pid, find[r])
    OBVIOUS
  <2>1. r.lo >= r.hi
    BY <1>2
  <2> HIDE DEF R
  <2> QED
    BY <1>10, <2>1
<1>12. ASSUME NEW m \in T PROVE m + 1 \in T
  <2> SUFFICES ASSUME NEW r \in R, Within(r), r.lo <= r.hi, r.hi - r.lo <= m + 1
               PROVE  Finds(s, pid, find[r])
    OBVIOUS
  <2>0. r.lo \in Nat /\ r.hi \in Nat /\ r.hi <= L
    BY <1>2
  <2>1. CASE r.lo >= r.hi
    <3> HIDE DEF R, Within
    <3> QED
      BY <1>10, <2>1
  <2>2. CASE r.lo < r.hi
    <3> DEFINE h == Mid(r)
               a == [r EXCEPT !.lo = h + 1]
               b == [r EXCEPT !.hi = h]
    <3>1. h \in 0 .. L - 1 /\ r.lo <= h /\ h < r.hi /\ h + 1 \in 1 .. L
      BY <1>4, <2>2
    <3>2. a \in R /\ a.lo = h + 1 /\ a.hi = r.hi /\ b \in R /\ b.lo = r.lo /\ b.hi = h
      BY <1>5, <2>2
    <3>3. find[r] = CASE KeyOf(s, h) = pid -> h + 1
                      [] KeyOf(s, h) < pid -> find[a]
                      [] OTHER -> find[b]
      <4>1. ~(r.lo >= r.hi)
        BY <2>0, <2>2
      <4> HIDE DEF R
      <4> QED
        BY <1>9, <4>1
    <3> HIDE DEF h, a, b
    <3>4. KeyOf(s, h) \in Nat /\ KeyOf(s, h) = s[h + 1].pid
      BY <1>3, <3>1
    <3>5. \A k \in 1 .. L : s[k].pid \in Nat /\ (k < h + 1 => s[k].pid < s[h + 1].pid)
                            /\ (h + 1 < k => s[h + 1].pid < s[k].pid)
      <4>1. \A k \in 1 .. L : s[k].pid \in Nat
        <5>1. \A k \in 1 .. L : s[k] \in Entries(D)
          BY DEF L
        <5> QED
          BY <5>1 DEF Entries
      <4>2. \A j, k \in 1 .. L : j < k => s[j].pid < s[k].pid
        BY MapOrdered DEF L
      <4> QED
        BY <3>1, <4>1, <4>2
    <3>6. CASE KeyOf(s, h) = pid
      <4>1. find[r] = h + 1 /\ h + 1 # 0 /\ h + 1 \in 0 .. L
        BY <1>2, <3>1, <3>3, <3>6
      <4> QED
        BY <3>4, <3>6, <4>1 DEF Finds, L
    <3>7. CASE KeyOf(s, h) # pid /\ KeyOf(s, h) < pid
      <4>1. find[r] = find[a]
        BY <3>3, <3>7
      <4>2. Within(a)
        <5> SUFFICES ASSUME NEW k \in 1 .. L, s[k].pid = pid PROVE h + 1 < k /\ k <= r.hi
          BY <3>2
        <5>1. k <= r.hi
          OBVIOUS
        <5>2. ~(k < h + 1) /\ k # h + 1
          BY <3>4, <3>5, <3>7
        <5> QED
          BY <3>1, <5>1, <5>2
      <4>3. a.lo <= a.hi /\ a.hi - a.lo <= m
        BY <2>0, <3>1, <3>2
      <4> HIDE DEF R, Within
      <4> QED
        BY <3>2, <4>1, <4>2, <4>3
    <3>8. CASE KeyOf(s, h) # pid /\ ~(KeyOf(s, h) < pid)
      <4>1. find[r] = find[b]
        BY <3>3, <3>8
      <4>2. Within(b)
        <5> SUFFICES ASSUME NEW k \in 1 .. L, s[k].pid = pid PROVE r.lo < k /\ k <= h
          BY <3>2
        <5>1. r.lo < k
          OBVIOUS
        <5>2. ~(h + 1 < k) /\ k # h + 1
          BY <3>4, <3>5, <3>8
        <5> QED
          BY <3>1, <5>1, <5>2
      <4>3. b.lo <= b.hi /\ b.hi - b.lo <= m
        BY <2>0, <3>1, <3>2
      <4> HIDE DEF R, Within
      <4> QED
        BY <3>2, <4>1, <4>2, <4>3
    <3> QED
      BY <3>6, <3>7, <3>8
  <2> QED
    BY <2>0, <2>1, <2>2
<1>13. T = Nat
  <2> HIDE DEF T
  <2> QED
    BY <1>11, <1>12, Induct DEF T
<1>14. Finds(s, pid, find[from])
  <2>1. from.lo = 0 /\ from.hi = L /\ from.lo <= from.hi /\ from.hi - from.lo <= L
    BY <1>2
  <2>2. Within(from)
    BY <1>2, <2>1
  <2>3. L \in T
    <3> HIDE DEF T
    <3> QED
      BY <1>2, <1>13
  <2> HIDE DEF from, Within, R
  <2> QED
    BY <1>2, <2>1, <2>2, <2>3
<1> QED
  BY <1>1, <1>14

(* The entries that are pushed, in the order of s.                         *)
Picks(D, s, indices, v) ==
  /\ v \in Seq(Entries(D)) /\ Len(v) <= Len(s) /\ (IsMap(s) => IsMap(v))
  /\ \A j \in 1 .. Len(v) : \E k \in 1 .. Len(s) : k \in indices /\ v[j] = s[k]
  /\ \A pid \in Nat, field \in D :
       (\A k \in 1 .. Len(s) : k \notin indices => s[k][field] = 0)
         => SumFor(v, pid, field) = SumFor(s, pid, field)

LEMMA PushedPicks ==
  ASSUME NEW D, "pid" \in D, NEW s \in Seq(Entries(D)), NEW indices
  PROVE  Picks(D, s, indices, Pushed(s, indices))
<1> DEFINE E == Entries(D)
           S == Seq(E)
           L == Len(s)
           More(t, n) == IF n \in indices THEN Append(t, s[n]) ELSE t
           Rule(f) == [n \in 0 .. L |-> IF n = 0 THEN <<>>
                                        ELSE IF n \in indices THEN Append(f[n - 1], s[n]) ELSE f[n - 1]]
           v == CHOOSE f : f = Rule(f)
           g == [n \in 1 .. L |-> [t \in S |-> More(t, n)]]
<1>1. Pushed(s, indices) = v[L]
  BY DEF Pushed
<1>2. L \in Nat /\ s \in Seq(E) /\ <<>> \in S /\ \A n \in 1 .. L : s[n] \in E
  OBVIOUS
<1> HIDE DEF E, L
<1>3. ASSUME NEW t \in S, NEW n \in 1 .. L PROVE More(t, n) \in S
  <2>1. Append(t, s[n]) \in S
    BY <1>2
  <2> QED
    BY <2>1
<1>4. v = Rule(v)
  <2>1. g \in [1 .. L -> [S -> S]]
    <3> HIDE DEF S, More
    <3> QED
      BY <1>2, <1>3
  <2>2. PICK f \in [0 .. L -> S] : Rounds(f, <<>>, g, L)
    <3> HIDE DEF S, g
    <3> QED
      BY <1>2, <2>1, LoopExists
  <2>3. \A n \in 0 .. L : f[n] = Rule(f)[n]
    <3>1. 0 \in 0 .. L /\ \A n \in 0 .. L : n = 0 \/ n \in 1 .. L
      BY <1>2
    <3>2. f[0] = Rule(f)[0]
      BY <2>2, <3>1 DEF Rounds
    <3> HIDE DEF S
    <3> SUFFICES ASSUME NEW n \in 1 .. L PROVE f[n] = Rule(f)[n]
      <4> HIDE DEF Rule
      <4> QED
        BY <3>1, <3>2
    <3>3. n - 1 \in 0 .. L /\ n \in 0 .. L /\ n # 0 /\ f[n - 1] \in S
      BY <1>2
    <3>4. f[n] = More(f[n - 1], n)
      <4> HIDE DEF More
      <4> QED
        BY <2>2, <3>3 DEF Rounds
    <3> QED
      BY <3>3, <3>4
  <2>4. f = [n \in 0 .. L |-> f[n]] /\ Rule(f) = [n \in 0 .. L |-> Rule(f)[n]]
    OBVIOUS
  <2>5. f = Rule(f)
    <3> HIDE DEF Rule, S
    <3> QED
      BY <2>3, <2>4
  <2> QED
    BY <2>5
<1>5. v[0] = <<>> /\ \A n \in 1 .. L : v[n] = IF n \in indices THEN Append(v[n - 1], s[n]) ELSE v[n - 1]
  <2>1. 0 \in 0 .. L /\ \A n \in 1 .. L : n \in 0 .. L /\ n # 0
    BY <1>2
  <2> HIDE DEF v
  <2> QED
    BY <1>4, <2>1
<1> HIDE DEF v
<1> DEFINE Zero(field, n) == \A k \in 1 .. n : k \notin indices => s[k][field] = 0
           Good(n) == /\ v[n] \in S /\ Len(v[n]) <= n
                      /\ IsMap(s) => IsMap(v[n])
                      /\ \A j \in 1 .. Len(v[n]) : \E k \in 1 .. n : k \in indices /\ v[n][j] = s[k]
                      /\ \A pid \in Nat, field \in D :
                           Zero(field, n) => SumFor(v[n], pid, field) = SumFor(Cut(s, n), pid, field)
           T == {n \in Nat : n <= L => Good(n)}
<1>6. 0 \in T
  <2>1. v[0] = <<>> /\ Cut(s, 0) = <<>>
    BY <1>2, <1>5, CutGrows
  <2>2. IsMap(<<>>) /\ Len(<<>>) = 0
    BY DEF IsMap
  <2> HIDE DEF S, Zero
  <2> QED
    BY <1>2, <2>1, <2>2
<1>7. ASSUME NEW n \in T PROVE n + 1 \in T
  <2> SUFFICES ASSUME n + 1 <= L PROVE Good(n + 1)
    OBVIOUS
  <2> DEFINE t == v[n]
             u == v[n + 1]
             e == s[n + 1]
             m == n + 1
  <2>1. m \in 1 .. L /\ m - 1 = n /\ n \in 0 .. L - 1 /\ n \in 0 .. L /\ Good(n) /\ m \in Nat /\ n \in Nat
    BY <1>2
  <2>2. u = (IF m \in indices THEN Append(t, e) ELSE t) /\ t \in S /\ e \in E
    BY <1>2, <1>5, <2>1
  <2>3. Cut(s, m) = Append(Cut(s, n), e) /\ Cut(s, n) \in Seq(Entries(D))
    BY <1>2, <2>1, CutGrows DEF E, L
  <2>4. /\ Len(t) <= n /\ (IsMap(s) => IsMap(t))
        /\ \A j \in 1 .. Len(t) : \E k \in 1 .. n : k \in indices /\ t[j] = s[k]
    BY <2>1
  <2>5. \A pid \in Nat, field \in D : Zero(field, m) => SumFor(t, pid, field) = SumFor(Cut(s, n), pid, field)
    <3> SUFFICES ASSUME NEW pid \in Nat, NEW field \in D, Zero(field, m)
                 PROVE  SumFor(t, pid, field) = SumFor(Cut(s, n), pid, field)
      OBVIOUS
    <3>1. Zero(field, n)
      BY <2>1
    <3> HIDE DEF Zero
    <3> QED
      BY <2>1, <3>1
  <2>6. \A k \in 1 .. n : k \in 1 .. m
    BY <2>1
  <2>7. ASSUME NEW pid \in Nat, NEW field \in D
        PROVE  SumFor(Cut(s, m), pid, field) = SumFor(Cut(s, n), pid, field) + Part(e, pid, field)
    <3> HIDE DEF e, m
    <3> QED
      BY <2>2, <2>3, SumAppend DEF E
  <2>8. CASE m \in indices
    <3>1. u = Append(t, e)
      BY <2>2, <2>8
    <3>2. u \in S /\ Len(u) = Len(t) + 1 /\ u[Len(t) + 1] = e /\ (\A j \in 1 .. Len(t) : u[j] = t[j]) /\ Len(t) \in Nat
      <4> HIDE DEF t, e, u
      <4> QED
        BY <2>2, <3>1
    <3>3. ASSUME NEW j \in 1 .. Len(u) PROVE \E k \in 1 .. m : k \in indices /\ u[j] = s[k]
      <4>1. j = Len(t) + 1 \/ j \in 1 .. Len(t)
        BY <3>2
      <4>2. m \in 1 .. m
        BY <2>1
      <4> HIDE DEF t, u
      <4> QED
        BY <2>4, <2>6, <2>8, <3>2, <4>1, <4>2
    <3>4. ASSUME IsMap(s) PROVE IsMap(u)
      <4> SUFFICES ASSUME NEW j \in 1 .. Len(t) PROVE u[j].pid < u[j + 1].pid
        BY <3>2 DEF IsMap
      <4>1. CASE j = Len(t)
        <5>1. PICK k \in 1 .. n : t[j] = s[k]
          BY <2>4
        <5>2. k \in 1 .. L /\ k < m
          <6> HIDE DEF Good, T
          <6> QED
            BY <1>2, <2>1
        <5>3. s[k].pid < s[m].pid
          BY <1>2, <2>1, <3>4, <5>2, MapOrdered DEF E, L
        <5> HIDE DEF t, u
        <5> QED
          BY <3>2, <4>1, <5>1, <5>3
      <4>2. CASE j \in 1 .. Len(t) - 1
        <5>1. j + 1 \in 1 .. Len(t)
          BY <3>2, <4>2
        <5>2. t[j].pid < t[j + 1].pid
          BY <2>4, <3>4, <4>2 DEF IsMap
        <5> HIDE DEF t, u
        <5> QED
          BY <3>2, <5>1, <5>2
      <4> QED
        BY <3>2, <4>1, <4>2
    <3>5. ASSUME NEW pid \in Nat, NEW field \in D, Zero(field, m)
          PROVE  SumFor(u, pid, field) = SumFor(Cut(s, m), pid, field)
      <4>1. SumFor(Append(t, e), pid, field) = SumFor(t, pid, field) + Part(e, pid, field)
        <5> HIDE DEF t, e
        <5> QED
          BY <2>2, SumAppend DEF E
      <4> QED
        BY <2>5, <2>7, <3>1, <3>5, <4>1
    <3>6. Len(u) <= m
      BY <2>1, <2>4, <3>2
    <3> HIDE DEF S, Zero, u
    <3> QED
      BY <3>2, <3>3, <3>4, <3>5, <3>6 DEF u
  <2>9. CASE m \notin indices
    <3>1. u = t
      BY <2>2, <2>9
    <3>2. ASSUME NEW pid \in Nat, NEW field \in D, Zero(field, m)
          PROVE  SumFor(u, pid, field) = SumFor(Cut(s, m), pid, field)
      <4>1. m \in 1 .. m
        BY <2>1
      <4>2. Part(e, pid, field) = 0
        BY <2>9, <3>2, <4>1 DEF Part
      <4>3. SumFor(Cut(s, n), pid, field) \in Nat
        BY <2>3, SumIsWeight
      <4> HIDE DEF Zero, t, u, e
      <4> QED
        BY <2>5, <2>7, <3>1, <3>2, <4>2, <4>3
    <3>3. Len(u) <= m
      <4>1. Len(t) \in Nat
        BY <2>2
      <4> QED
        BY <2>1, <2>4, <3>1, <4>1
    <3>4. \A j \in 1 .. Len(u) : \E k \in 1 .. m : k \in indices /\ u[j] = s[k]
      BY <2>4, <2>6, <3>1
    <3>5. u \in S /\ (IsMap(s) => IsMap(u))
      BY <2>2, <2>4, <3>1
    <3> HIDE DEF S, Zero, u
    <3> QED
      BY <3>2, <3>3, <3>4, <3>5 DEF u
  <2> QED
    BY <2>8, <2>9
<1>8. T = Nat
  <2> HIDE DEF T
  <2> QED
    BY <1>6, <1>7, Induct DEF T
<1>9. Good(L) /\ Cut(s, L) = s
  <2>1. L \in T /\ L <= L
    <3> HIDE DEF T
    <3> QED
      BY <1>2, <1>8
  <2> HIDE DEF S, Zero
  <2>2. Good(L)
    BY <2>1
  <2> QED
    BY <1>2, <2>2, CutGrows DEF L
<1> HIDE DEF S
<1> QED
  BY <1>1, <1>9 DEF Picks, E, L, S

----------------------------------------------------------------------------
(* The descriptors of the NVIDIA backend                                   *)

AtTick == {"idle", "memory", "pids", "done"}

(* While the cards are opened, State holds the first ones of the reply.    *)
RTypes ==
  /\ rpc \in {"ctl", "cards", "open"} \cup AtTick
  /\ attached \in Seq(Int) /\ gpus \in Seq(Int)

RInv ==
  /\ RTypes
  /\ rpc \in {"ctl", "cards"} => gpus = <<>>
  /\ rpc = "open" => /\ Len(gpus) <= Len(attached)
                     /\ \A n \in 1 .. Len(gpus) : gpus[n] = attached[n]
                     /\ fds = {Ctl} \cup Range(gpus)
  /\ rpc = "cards" => fds = {Ctl}
  /\ rpc \in AtTick => (fds = {} \/ fds = {Ctl} \cup Range(attached))

LEMMA RInitInv == RInit("ctl") => RInv
BY DEF RInit, RInv, RTypes, AtTick

LEMMA CardInfoInv == ASSUME RInv, CardInfo PROVE RInv'
<1>1. PICK n \in 0 .. Cards : attached' \in [1 .. n -> 0 .. Cards - 1]
  BY DEF CardInfo
<1>2. attached' \in Seq(Int)
  <2>1. n \in Nat /\ 0 .. Cards - 1 \subseteq Int
    BY <1>1, RmAssumption DEF RmAssumption
  <2> QED
    BY <1>1, <2>1
<1>3. rpc = "cards" /\ rpc' = "open" /\ gpus = <<>> /\ gpus' = <<>> /\ fds = {Ctl} /\ fds' = {Ctl}
  BY DEF CardInfo, RGoto, RInv
<1>4. Len(gpus') = 0 /\ Range(gpus') = {}
  BY <1>3 DEF Range
<1> QED
  BY <1>2, <1>3, <1>4 DEF RInv, RTypes, AtTick

LEMMA OpenCardInv == ASSUME RInv, OpenCard PROVE RInv'
<1> DEFINE n == Len(gpus) + 1
<1>1. rpc = "open" /\ rpc' = "open" /\ n <= Len(attached) /\ attached' = attached
      /\ fds' = fds \cup {attached[n]} /\ gpus' = Append(gpus, attached[n])
  BY DEF OpenCard, Minor
<1>2. gpus \in Seq(Int) /\ attached \in Seq(Int) /\ fds = {Ctl} \cup Range(gpus)
      /\ \A k \in 1 .. Len(gpus) : gpus[k] = attached[k]
  BY <1>1 DEF RInv, RTypes
<1>3. attached[n] \in Int /\ Len(gpus) \in Nat /\ Len(attached) \in Nat
  BY <1>1, <1>2
<1>4. gpus' \in Seq(Int) /\ Len(gpus') = n
      /\ \A k \in 1 .. n : gpus'[k] = IF k = n THEN attached[n] ELSE gpus[k]
  BY <1>1, <1>2, <1>3
<1>5. \A k \in 1 .. n : gpus'[k] = attached[k]
  <2>1. n \in Nat /\ \A k \in 1 .. n : k = n \/ k \in 1 .. Len(gpus)
    BY <1>3
  <2> HIDE DEF n
  <2> QED
    BY <1>2, <1>4, <2>1
<1>6. Range(gpus') = Range(gpus) \cup {attached[n]}
  <2>1. DOMAIN gpus = 1 .. Len(gpus) /\ DOMAIN gpus' = 1 .. n
    BY <1>2, <1>4
  <2>2. 1 .. n = (1 .. Len(gpus)) \cup {n} /\ ~(n \in 1 .. Len(gpus))
    BY <1>3
  <2> QED
    BY <1>4, <2>1, <2>2 DEF Range
<1> HIDE DEF n
<1> QED
  BY <1>1, <1>2, <1>4, <1>5, <1>6 DEF RInv, RTypes, AtTick

LEMMA OpenedInv == ASSUME RInv, Opened PROVE RInv'
<1>1. rpc = "open" /\ Len(gpus) = Len(attached) /\ rpc' = "idle" /\ UNCHANGED dvars
  BY DEF Opened, RGoto
<1>2. Range(gpus) = Range(attached)
  BY <1>1 DEF RInv, RTypes, Range
<1> QED
  BY <1>1, <1>2 DEF RInv, RTypes, AtTick, dvars

LEMMA RNextInv == RInv /\ [RNext]_rvars => RInv'
<1> SUFFICES ASSUME RInv, [RNext]_rvars PROVE RInv'
  OBVIOUS
<1>1. CASE OpenCtl
  BY <1>1 DEF RInv, RTypes, AtTick, OpenCtl, RGoto
<1>2. CASE GiveUp
  BY <1>2 DEF RInv, RTypes, AtTick, GiveUp, RGoto
<1>3. ASSUME rpc \in AtTick, rpc' \in AtTick, UNCHANGED dvars PROVE RInv'
  BY <1>3 DEF RInv, RTypes, AtTick, dvars
<1>4. CASE RBegin \/ NoMemory \/ Stage \/ NoProcesses \/ RFreeze \/ REnd
  BY <1>3, <1>4 DEF RBegin, NoMemory, Stage, NoProcesses, RFreeze, REnd, AtTick, RGoto
<1>5. CASE \E rows \in Samples : Sampled(rows)
  BY <1>3, <1>5 DEF Sampled, AtTick
<1>6. CASE \E rows \in Lists : Processes(rows)
  BY <1>3, <1>6 DEF Processes, AtTick
<1>7. CASE UNCHANGED rvars
  BY <1>7 DEF RInv, RTypes, rvars, dvars
<1> QED
  BY <1>1, <1>2, <1>4, <1>5, <1>6, <1>7, CardInfoInv, OpenCardInv, OpenedInv DEF RNext

(* Of the NVIDIA backend: whichever open or ioctl fails, and whatever      *)
(* holes the driver's table of cards has, between ticks it holds the       *)
(* control node and the attached cards' own nodes, or nothing.             *)
THEOREM FdsAlwaysOwned == RSpec => []FdsOwned
<1>1. RInit("ctl") => RInv
  BY RInitInv
<1>2. RInv /\ [RNext]_rvars => RInv'
  BY RNextInv
<1>3. RInv => FdsOwned
  BY DEF RInv, FdsOwned, AtTick
<1> QED
  BY <1>1, <1>2, <1>3, PTL DEF RSpec

----------------------------------------------------------------------------
(* The table of the NVIDIA backend.  What the cards told of memory and     *)
(* load is what has been pushed (TableInv), and there is always room.      *)

(* Sums over one sequence after another.                                   *)
LEMMA SumConcat ==
  ASSUME NEW D, "pid" \in D, NEW s \in Seq(Entries(D)), NEW t \in Seq(Entries(D))
  PROVE  \A pid \in Nat, field \in D :
           SumFor(s \o t, pid, field) = SumFor(s, pid, field) + SumFor(t, pid, field)
<1> SUFFICES ASSUME NEW pid \in Nat, NEW field \in D
             PROVE  SumFor(s \o t, pid, field) = SumFor(s, pid, field) + SumFor(t, pid, field)
  OBVIOUS
<1> DEFINE E == Entries(D)
           S(x) == SumFor(x, pid, field)
           L == Len(t)
           T == {n \in Nat : n <= L => S(s \o Cut(t, n)) = S(s) + S(Cut(t, n))}
<1>1. L \in Nat /\ s \in Seq(E) /\ t \in Seq(E) /\ \A n \in 1 .. L : t[n] \in E
  OBVIOUS
<1>2. S(<<>>) = 0 /\ \A x \in Seq(E) : S(x) \in Nat
  <2>1. \A x \in Seq(E) : S(x) \in Nat
    BY SumIsWeight
  <2>2. <<>> \in Seq(E) /\ \A k \in 1 .. Len(<<>>) : Part(<<>>[k], pid, field) = 0
    OBVIOUS
  <2>3. S(<<>>) = 0
    BY ONLY "pid" \in D, field \in D, <2>2, SumNone DEF E, S
  <2> QED
    BY <2>1, <2>3
<1> HIDE DEF E, L
<1>3. 0 \in T
  <2>1. Cut(t, 0) = <<>> /\ s \o <<>> = s
    BY <1>1, CutGrows
  <2>2. S(s \o Cut(t, 0)) = S(s)
    BY ONLY <2>1
  <2>3. S(s) \in Nat /\ S(Cut(t, 0)) = 0
    BY ONLY <1>1, <1>2, <2>1
  <2> HIDE DEF S
  <2>4. S(s \o Cut(t, 0)) = S(s) + S(Cut(t, 0))
    BY ONLY <2>2, <2>3
  <2> QED
    BY ONLY <2>4
<1>4. ASSUME NEW n \in T PROVE n + 1 \in T
  <2> SUFFICES ASSUME n + 1 <= L PROVE S(s \o Cut(t, n + 1)) = S(s) + S(Cut(t, n + 1))
    OBVIOUS
  <2> DEFINE a == Cut(t, n)
             b == Cut(t, n + 1)
             e == t[n + 1]
  <2>1. n \in 0 .. L - 1 /\ n \in 0 .. L /\ n + 1 \in 1 .. L /\ S(s \o a) = S(s) + S(a)
    BY <1>1
  <2>2. b = Append(a, e) /\ a \in Seq(E) /\ e \in E
    BY <1>1, <2>1, CutGrows DEF L
  <2> HIDE DEF a, b, e, T
  <2>3. s \o Append(a, e) = Append(s \o a, e) /\ s \o a \in Seq(E)
    BY <1>1, <2>2
  <2>4. S(Append(a, e)) = S(a) + Part(e, pid, field)
    BY <2>2, SumAppend DEF E
  <2> DEFINE x == s \o a
  <2>7. x \in Seq(E) /\ s \o b = Append(x, e)
    BY <2>2, <2>3
  <2> HIDE DEF x
  <2>5. S(Append(x, e)) = S(x) + Part(e, pid, field)
    BY <2>2, <2>7, SumAppend DEF E
  <2>6. S(s) \in Nat /\ S(a) \in Nat /\ Part(e, pid, field) \in Nat
    BY <1>1, <1>2, <2>2, PartNat DEF E
  <2>8. S(s \o b) = S(x) + Part(e, pid, field) /\ S(b) = S(a) + Part(e, pid, field)
    BY ONLY <2>2, <2>4, <2>5, <2>7
  <2>9. S(x) = S(s) + S(a)
    BY ONLY <2>1 DEF x
  <2> HIDE DEF S
  <2>10. S(s \o b) = S(s) + S(b)
    BY ONLY <2>6, <2>8, <2>9
  <2> QED
    BY ONLY <2>10 DEF b
<1>5. T = Nat
  <2> HIDE DEF T
  <2> QED
    BY <1>3, <1>4, Induct DEF T
<1>6. Cut(t, L) = t /\ L \in T /\ L <= L
  <2>1. Cut(t, L) = t
    BY <1>1, CutGrows DEF L
  <2> HIDE DEF T
  <2> QED
    BY <1>1, <1>5, <2>1
<1> QED
  BY <1>6

(* The table of the NVIDIA backend.                                        *)
Fields == {"pid", "sm_pct", "mem_mib"}
Loads == {"sm_pct", "mem_mib"}
Told == Entries(Fields)

LEMMA RowTold ==
  \A pid, pct, mib \in Nat :
    /\ Row(pid, pct, mib) \in Told /\ Row(pid, pct, mib).pid = pid
    /\ Row(pid, pct, mib).sm_pct = pct /\ Row(pid, pct, mib).mem_mib = mib
BY DEF Row, Told, Entries, Fields

LEMMA RowOf ==
  ASSUME NEW e \in Told
  PROVE  e = Row(e.pid, e.sm_pct, e.mem_mib) /\ e.pid \in Nat /\ e.sm_pct \in Nat /\ e.mem_mib \in Nat
<1>1. e \in [Fields -> Nat]
  BY DEF Told, Entries
<1>2. DOMAIN Row(e.pid, e.sm_pct, e.mem_mib) = Fields
  BY DEF Row, Fields
<1> QED
  BY <1>1, <1>2 DEF Row, Fields

LEMMA SampleTold ==
  ASSUME NEW rows \in Samples PROVE rows \in Seq(Told) /\ Len(rows) <= 1
<1>1. CASE rows = <<>>
  BY <1>1
<1>2. CASE \E pid \in RmPids, pct \in 0 .. MaxPct : rows = <<Row(pid, pct, 0)>>
  <2>1. PICK pid \in RmPids, pct \in 0 .. MaxPct : rows = <<Row(pid, pct, 0)>>
    BY <1>2
  <2>2. pid \in Nat /\ pct \in Nat
    BY <2>1, RmAssumption DEF RmAssumption
  <2>3. Row(pid, pct, 0) \in Told
    BY <2>2, RowTold
  <2> QED
    BY <2>1, <2>3
<1> QED
  BY <1>1, <1>2 DEF Samples

(* What a card tells of its processes is memory only; the rows without are *)
(* left out, and nothing is lost with them.                                *)
LEMMA ReportedTold ==
  ASSUME NEW rows \in Lists
  PROVE  /\ rows \in Seq(Told) /\ Reported(rows) \in Seq(Told) /\ Len(Reported(rows)) <= MaxPids
         /\ \A pid \in Nat, field \in Loads :
              SumFor(Reported(rows), pid, field) = SumFor(rows, pid, field)
<1> DEFINE V(n, o, m) == [k \in 1 .. n |-> Row(o[k], 0, m[k])]
           O(n) == {o \in [1 .. n -> RmPids] : \A a, b \in 1 .. n : a # b => o[a] # o[b]}
           B(n) == [1 .. n -> 0 .. MaxMib]
           F(n) == {V(n, order, mib) : order \in O(n), mib \in B(n)}
<1>0. Lists = UNION {F(n) : n \in 0 .. MaxPids}
  BY DEF Lists
<1>1. PICK n \in 0 .. MaxPids : rows \in F(n)
  <2> HIDE DEF F
  <2> QED
    BY <1>0
<1>2. PICK order \in [1 .. n -> RmPids], mib \in [1 .. n -> 0 .. MaxMib] :
        rows = [k \in 1 .. n |-> Row(order[k], 0, mib[k])]
  <2>1. PICK order \in O(n), mib \in B(n) : rows = V(n, order, mib)
    <3> HIDE DEF V, O, B
    <3> QED
      BY <1>1
  <2> QED
    BY <2>1
<1> HIDE DEF F, V, O, B
<1>3. RmPids \subseteq Nat /\ MaxPids \in Nat /\ MaxMib \in Nat /\ n \in Nat /\ n <= MaxPids
  BY <1>1, RmAssumption DEF RmAssumption
<1>4. \A k \in 1 .. n : order[k] \in Nat /\ mib[k] \in Nat
  <2>1. order \in [1 .. n -> RmPids] /\ mib \in [1 .. n -> 0 .. MaxMib]
    BY <1>2
  <2>2. \A k \in 1 .. n : order[k] \in RmPids /\ mib[k] \in 0 .. MaxMib
    BY ONLY <2>1
  <2>3. \A m \in 0 .. MaxMib : m \in Nat
    BY ONLY <1>3
  <2>4. \A k \in 1 .. n : order[k] \in Nat
    BY ONLY <1>3, <2>2
  <2>5. \A k \in 1 .. n : mib[k] \in Nat
    BY ONLY <2>2, <2>3
  <2> QED
    BY <2>4, <2>5
<1>5. \A k \in 1 .. n : rows[k] \in Told /\ rows[k].sm_pct = 0
  <2> SUFFICES ASSUME NEW k \in 1 .. n PROVE rows[k] \in Told /\ rows[k].sm_pct = 0
    OBVIOUS
  <2>1. rows[k] = Row(order[k], 0, mib[k])
    BY ONLY k \in 1 .. n, <1>2
  <2>2. order[k] \in Nat /\ mib[k] \in Nat /\ 0 \in Nat
    BY <1>4
  <2> DEFINE a == order[k]
             b == mib[k]
  <2>3. a \in Nat /\ b \in Nat /\ 0 \in Nat
    BY ONLY <2>2
  <2> HIDE DEF a, b
  <2>4. Row(a, 0, b) \in Told /\ Row(a, 0, b).sm_pct = 0
    BY ONLY <2>3, RowTold
  <2>5. rows[k] = Row(a, 0, b)
    BY ONLY <2>1 DEF a, b
  <2> QED
    BY ONLY <2>4, <2>5
<1>6. rows \in [1 .. n -> Told]
  BY <1>2, <1>5
<1>7. rows \in Seq(Told) /\ Len(rows) = n /\ DOMAIN rows = 1 .. n
  BY <1>3, <1>6, VectorOf
<1> DEFINE I == {k \in DOMAIN rows : rows[k].mem_mib > 0}
           v == Reported(rows)
<1>8. v = Pushed(rows, I)
  BY DEF Reported
<1>9. "pid" \in Fields /\ Loads \subseteq Fields
  BY DEF Fields, Loads
<1>10. ASSUME NEW field \in Loads, NEW k \in 1 .. Len(rows), k \notin I PROVE rows[k][field] = 0
  <2>1. rows[k].mem_mib = 0
    <3>1. rows[k].mem_mib \in Nat /\ k \in DOMAIN rows
      BY <1>5, <1>7, RowOf
    <3> QED
      BY <1>10, <3>1
  <2> QED
    BY <1>5, <1>7, <2>1 DEF Loads
<1> HIDE DEF I, v
<1>11. Picks(Fields, rows, I, v)
  BY <1>7, <1>8, <1>9, PushedPicks DEF Told
<1>12. v \in Seq(Told) /\ Len(v) <= Len(rows) /\ Len(v) \in Nat
  BY <1>11 DEF Picks, Told
<1>13. \A pid \in Nat, field \in Loads : SumFor(v, pid, field) = SumFor(rows, pid, field)
  <2> SUFFICES ASSUME NEW pid \in Nat, NEW field \in Loads
               PROVE  SumFor(v, pid, field) = SumFor(rows, pid, field)
    OBVIOUS
  <2>1. \A k \in 1 .. Len(rows) : k \notin I => rows[k][field] = 0
    BY <1>10
  <2>2. field \in Fields
    BY <1>9
  <2> QED
    BY <1>11, <2>1, <2>2 DEF Picks
<1> QED
  BY <1>3, <1>7, <1>12, <1>13 DEF v

(* What fits is pushed whole.                                              *)
LEMMA PushesAll ==
  ASSUME NEW S, NEW s \in Seq(S), NEW t \in Seq(S), Room \in Nat, Len(s) + Len(t) <= Room
  PROVE  PushAll(s, t) = s \o t /\ s \o t \in Seq(S) /\ Len(s \o t) = Len(s) + Len(t)
<1> DEFINE u == s \o t
<1>1. u \in Seq(S) /\ Len(u) = Len(s) + Len(t)
  OBVIOUS
<1> HIDE DEF u
<1>2. Len(u) <= Room /\ Len(u) \in Nat
  BY <1>1
<1>3. (IF Len(u) < Room THEN Len(u) ELSE Room) = Len(u)
  BY <1>2
<1>4. PushAll(s, t) = SubSeq(u, 1, IF Len(u) < Room THEN Len(u) ELSE Room)
  BY DEF PushAll, u
<1>5. SubSeq(u, 1, Len(u)) = u
  BY <1>1
<1> QED
  BY <1>1, <1>3, <1>4, <1>5 DEF u

SameLoads(s, t) ==
  \A pid \in Nat, field \in Loads : SumFor(s, pid, field) = SumFor(t, pid, field)

(* The valid cards that phase 2 has asked.                                 *)
Asked == valid \cap (1 .. i - 1)

TTypes ==
  /\ valid \in SUBSET (1 .. N) /\ N \in Nat /\ i \in 1 .. N + 1
  /\ told \in Seq(Told) /\ samples \in Seq(Told) /\ buf \in Seq(Told)

TableInv ==
  /\ rpc = "memory" => /\ TTypes /\ valid \subseteq 1 .. i - 1
                       /\ Len(samples) <= Cardinality(valid) /\ told = samples
  /\ rpc = "pids" => /\ TTypes /\ SameLoads(buf, told)
                     /\ Len(buf) <= Cardinality(valid) + MaxPids * Cardinality(Asked)
  /\ rpc = "done" => procs \in Seq(Told) /\ IsMap(procs) /\ SameLoads(procs, told)

LEMMA SameConcat ==
  ASSUME NEW s \in Seq(Told), NEW t \in Seq(Told), NEW u \in Seq(Told), NEW v \in Seq(Told),
         SameLoads(s, t), SameLoads(u, v)
  PROVE  SameLoads(s \o u, t \o v)
<1> SUFFICES ASSUME NEW pid \in Nat, NEW field \in Loads
             PROVE  SumFor(s \o u, pid, field) = SumFor(t \o v, pid, field)
  BY DEF SameLoads
<1>1. "pid" \in Fields /\ field \in Fields
  BY DEF Fields, Loads
<1>2. SumFor(s \o u, pid, field) = SumFor(s, pid, field) + SumFor(u, pid, field)
  BY <1>1, SumConcat DEF Told
<1>3. SumFor(t \o v, pid, field) = SumFor(t, pid, field) + SumFor(v, pid, field)
  BY <1>1, SumConcat DEF Told
<1> QED
  BY <1>2, <1>3 DEF SameLoads

LEMMA CardSets ==
  ASSUME NEW n \in Nat, NEW V \in SUBSET (1 .. n)
  PROVE  IsFiniteSet(V) /\ Cardinality(V) \in Nat
<1>1. IsFiniteSet(1 .. n)
  BY FS_Interval
<1> QED
  BY <1>1, FS_Subset, FS_CardinalityType

LEMMA RoomNat == TTypes => /\ Cardinality(valid) \in Nat /\ Cardinality(Asked) \in Nat /\ MaxPids \in Nat
                           /\ Cardinality(Asked) <= Cardinality(valid)
                           /\ Room = Cardinality(valid) + MaxPids * Cardinality(valid) /\ Room \in Nat
<1> SUFFICES ASSUME TTypes
             PROVE  /\ Cardinality(valid) \in Nat /\ Cardinality(Asked) \in Nat /\ MaxPids \in Nat
                    /\ Cardinality(Asked) <= Cardinality(valid)
                    /\ Room = Cardinality(valid) + MaxPids * Cardinality(valid) /\ Room \in Nat
  OBVIOUS
<1>1. N \in Nat /\ valid \in SUBSET (1 .. N) /\ Asked \in SUBSET valid /\ MaxPids \in Nat
  BY RmAssumption DEF TTypes, Asked, RmAssumption
<1>2. IsFiniteSet(valid) /\ Cardinality(valid) \in Nat
  BY <1>1, CardSets
<1>3. Cardinality(Asked) \in Nat /\ Cardinality(Asked) <= Cardinality(valid)
  BY <1>1, <1>2, FS_Subset, FS_CardinalityType
<1> DEFINE c == Cardinality(valid)
<1>4. Room = c * (1 + MaxPids)
  BY DEF Room
<1> HIDE DEF c
<1>5. c * (1 + MaxPids) = c + MaxPids * c /\ c + MaxPids * c \in Nat
  BY <1>1, <1>2 DEF c
<1> QED
  BY <1>1, <1>2, <1>3, <1>4, <1>5 DEF c

LEMMA BeginTable == ASSUME RInv, RBegin PROVE TableInv'
<1>1. rpc' = "memory" /\ i' = 1 /\ valid' = {} /\ samples' = <<>> /\ buf' = <<>> /\ told' = <<>> /\ gpus' = gpus
  BY DEF RBegin, RGoto, dvars
<1>2. N' \in Nat
  BY <1>1 DEF N, RInv, RTypes
<1>3. TTypes'
  <2>3. \A n \in Nat : {} \in SUBSET (1 .. n) /\ 1 \in 1 .. n + 1
    OBVIOUS
  <2>4. <<>> \in Seq(Told)
    OBVIOUS
  <2>1. {} \in SUBSET (1 .. N') /\ 1 \in 1 .. N' + 1 /\ <<>> \in Seq(Told)
    BY ONLY <1>2, <2>3, <2>4
  <2> QED
    BY <1>1, <1>2, <2>1 DEF TTypes
<1>4. Len(<<>>) = 0 /\ Cardinality({}) = 0
  BY FS_EmptySet
<1> QED
  BY <1>1, <1>3, <1>4 DEF TableInv

LEMMA SampledTable == ASSUME TableInv, NEW rows \in Samples, Sampled(rows) PROVE TableInv'
<1>1. /\ rpc = "memory" /\ rpc' = "memory" /\ i <= N /\ valid' = valid \cup {i} /\ i' = i + 1
      /\ samples' = samples \o rows /\ told' = told \o rows /\ gpus' = gpus /\ buf' = buf
  BY DEF Sampled, dvars
<1>2. TTypes /\ valid \subseteq 1 .. i - 1 /\ Len(samples) <= Cardinality(valid) /\ told = samples
  BY <1>1 DEF TableInv
<1>3. N' = N /\ N \in Nat /\ i \in 1 .. N /\ valid \in SUBSET (1 .. N) /\ samples \in Seq(Told)
  BY <1>1, <1>2 DEF TTypes, N
<1>4. rows \in Seq(Told) /\ Len(rows) <= 1
  BY SampleTold
<1>5. i' \in 1 .. N + 1 /\ valid' \in SUBSET (1 .. N) /\ valid' \subseteq 1 .. i' - 1 /\ i \notin valid
  BY <1>1, <1>2, <1>3
<1>6. Cardinality(valid') = Cardinality(valid) + 1 /\ Cardinality(valid) \in Nat
  BY <1>1, <1>3, <1>5, CardSets, FS_AddElement
<1>7. samples' \in Seq(Told) /\ Len(samples') = Len(samples) + Len(rows) /\ told' = samples'
  BY <1>1, <1>2, <1>3, <1>4
<1>8. Len(samples') <= Cardinality(valid')
  <2>1. Len(samples) \in Nat /\ Len(rows) \in Nat
    BY <1>3, <1>4
  <2> QED
    BY <1>2, <1>4, <1>6, <1>7, <2>1
<1>9. TTypes'
  BY <1>1, <1>2, <1>3, <1>5, <1>7 DEF TTypes
<1> QED
  BY <1>1, <1>5, <1>7, <1>8, <1>9 DEF TableInv

LEMMA NoMemoryTable == ASSUME TableInv, NoMemory PROVE TableInv'
<1>1. /\ rpc = "memory" /\ rpc' = "memory" /\ i <= N /\ valid' = valid /\ i' = i + 1
      /\ samples' = samples /\ told' = told /\ gpus' = gpus /\ buf' = buf
  BY DEF NoMemory, dvars
<1>2. TTypes /\ valid \subseteq 1 .. i - 1 /\ Len(samples) <= Cardinality(valid) /\ told = samples
  BY <1>1 DEF TableInv
<1>3. N' = N /\ i' \in 1 .. N + 1 /\ valid' \subseteq 1 .. i' - 1
  BY <1>1, <1>2 DEF TTypes, N
<1>4. TTypes'
  BY <1>1, <1>2, <1>3 DEF TTypes
<1> QED
  BY <1>1, <1>2, <1>3, <1>4 DEF TableInv

LEMMA StageTable == ASSUME TableInv, Stage PROVE TableInv'
<1>1. /\ rpc = "memory" /\ rpc' = "pids" /\ valid' = valid /\ i' = 1 /\ buf' = PushAll(<<>>, samples)
      /\ samples' = samples /\ told' = told /\ gpus' = gpus
  BY DEF Stage, RGoto, dvars
<1>2. TTypes /\ Len(samples) <= Cardinality(valid) /\ told = samples
  BY <1>1 DEF TableInv
<1>3. N' = N /\ N \in Nat /\ samples \in Seq(Told)
  BY <1>1, <1>2 DEF TTypes, N
<1>4. /\ Cardinality(valid) \in Nat /\ Room = Cardinality(valid) + MaxPids * Cardinality(valid)
      /\ Room \in Nat /\ MaxPids \in Nat
  BY <1>2, RoomNat
<1>5. buf' = samples
  <2>1. <<>> \in Seq(Told) /\ Len(<<>>) + Len(samples) <= Room
    <3>1. MaxPids * Cardinality(valid) \in Nat /\ Len(samples) \in Nat
      BY <1>3, <1>4
    <3> QED
      BY <1>2, <1>4, <3>1
  <2>2. PushAll(<<>>, samples) = <<>> \o samples
    BY <1>3, <1>4, <2>1, PushesAll
  <2> QED
    BY <1>1, <1>3, <2>2
<1>6. Asked' = {} /\ Cardinality({}) = 0
  BY <1>1, FS_EmptySet DEF Asked
<1>7. TTypes'
  BY <1>1, <1>2, <1>3, <1>5 DEF TTypes
<1>8. SameLoads(buf', told')
  BY <1>1, <1>2, <1>5 DEF SameLoads
<1>9. Len(buf') <= Cardinality(valid') + MaxPids * Cardinality(Asked')
  BY <1>1, <1>2, <1>4, <1>5, <1>6
<1> QED
  BY <1>1, <1>7, <1>8, <1>9 DEF TableInv

LEMMA ProcessesTable == ASSUME TableInv, NEW rows \in Lists, Processes(rows) PROVE TableInv'
<1> DEFINE r == Reported(rows)
<1>1. /\ rpc = "pids" /\ rpc' = "pids" /\ i \in valid /\ buf' = PushAll(buf, r) /\ told' = told \o rows
      /\ i' = i + 1 /\ valid' = valid /\ samples' = samples /\ gpus' = gpus
  BY DEF Processes, dvars
<1>2. TTypes /\ SameLoads(buf, told) /\ Len(buf) <= Cardinality(valid) + MaxPids * Cardinality(Asked)
  BY <1>1 DEF TableInv
<1>3. /\ N' = N /\ N \in Nat /\ i \in 1 .. N /\ buf \in Seq(Told) /\ told \in Seq(Told)
      /\ valid \in SUBSET (1 .. N)
  BY <1>1, <1>2 DEF TTypes, N
<1>4. /\ rows \in Seq(Told) /\ r \in Seq(Told) /\ Len(r) <= MaxPids
      /\ \A pid \in Nat, field \in Loads : SumFor(r, pid, field) = SumFor(rows, pid, field)
  BY ReportedTold
<1>5. Asked' = Asked \cup {i} /\ i \notin Asked /\ Asked \in SUBSET (1 .. N)
  BY <1>1, <1>3 DEF Asked
<1>6. Cardinality(Asked') = Cardinality(Asked) + 1
  BY <1>3, <1>5, CardSets, FS_AddElement
<1> HIDE DEF r
<1>7. Len(buf) + Len(r) <= Room /\ Len(buf) + Len(r) <= Cardinality(valid') + MaxPids * Cardinality(Asked')
      /\ Room \in Nat
  <2> DEFINE c == Cardinality(valid)
             a == Cardinality(Asked)
  <2>1. c \in Nat /\ a \in Nat /\ MaxPids \in Nat /\ Room = c + MaxPids * c /\ Room \in Nat
    BY <1>2, RoomNat
  <2>2. a + 1 <= c
    <3>1. Asked' \in SUBSET valid /\ IsFiniteSet(valid)
      BY <1>1, <1>3, <1>5, CardSets DEF Asked
    <3>2. Cardinality(Asked') <= Cardinality(valid)
      BY <3>1, FS_Subset
    <3> QED
      BY <1>6, <3>2
  <2>3. Len(buf) \in Nat /\ Len(r) \in Nat /\ Len(buf) <= c + MaxPids * a /\ Len(r) <= MaxPids
    BY <1>2, <1>3, <1>4
  <2>4. Cardinality(Asked') = a + 1 /\ Cardinality(valid') = c
    BY <1>1, <1>6
  <2> HIDE DEF c, a
  <2>5. MaxPids * (a + 1) = MaxPids * a + MaxPids /\ MaxPids * a \in Nat
    BY <2>1
  <2>6. MaxPids * (a + 1) <= MaxPids * c /\ MaxPids * c \in Nat /\ MaxPids * (a + 1) \in Nat
    BY <2>1, <2>2
  <2> QED
    BY <2>1, <2>3, <2>4, <2>5, <2>6
<1>8. buf' = buf \o r /\ buf' \in Seq(Told) /\ Len(buf') = Len(buf) + Len(r)
  BY <1>1, <1>3, <1>4, <1>7, PushesAll
<1>9. told' \in Seq(Told) /\ i' \in 1 .. N + 1
  BY <1>1, <1>3, <1>4
<1>10. TTypes'
  BY <1>1, <1>2, <1>3, <1>8, <1>9 DEF TTypes
<1>11. SameLoads(buf', told')
  <2>1. SameLoads(r, rows)
    BY <1>4 DEF SameLoads
  <2>2. SameLoads(buf \o r, told \o rows)
    BY <1>2, <1>3, <1>4, <2>1, SameConcat
  <2> QED
    BY <1>1, <1>8, <2>2
<1> QED
  BY <1>1, <1>7, <1>8, <1>10, <1>11 DEF TableInv

LEMMA NoProcessesTable == ASSUME TableInv, NoProcesses PROVE TableInv'
<1>1. /\ rpc = "pids" /\ rpc' = "pids" /\ i <= N /\ buf' = buf /\ told' = told
      /\ i' = i + 1 /\ valid' = valid /\ samples' = samples /\ gpus' = gpus
  BY DEF NoProcesses, dvars
<1>2. TTypes /\ SameLoads(buf, told) /\ Len(buf) <= Cardinality(valid) + MaxPids * Cardinality(Asked)
  BY <1>1 DEF TableInv
<1>3. N' = N /\ N \in Nat /\ i \in 1 .. N /\ valid \in SUBSET (1 .. N)
  BY <1>1, <1>2 DEF TTypes, N
<1>4. TTypes'
  BY <1>1, <1>2, <1>3 DEF TTypes
<1>5. Cardinality(Asked) <= Cardinality(Asked') /\ Cardinality(Asked') \in Nat
  <2>1. Asked \subseteq Asked' /\ Asked' \in SUBSET (1 .. N)
    BY <1>1, <1>3 DEF Asked
  <2> QED
    BY <1>3, <2>1, CardSets, FS_Subset
<1>6. Len(buf) <= Cardinality(valid) + MaxPids * Cardinality(Asked')
  <2> DEFINE c == Cardinality(valid)
             a == Cardinality(Asked)
             b == Cardinality(Asked')
  <2>1. c \in Nat /\ a \in Nat /\ b \in Nat /\ a <= b /\ MaxPids \in Nat /\ Len(buf) \in Nat
        /\ Len(buf) <= c + MaxPids * a
    BY <1>2, <1>5, RoomNat DEF TTypes
  <2> HIDE DEF c, a, b
  <2>2. MaxPids * a <= MaxPids * b /\ MaxPids * a \in Nat /\ MaxPids * b \in Nat
    BY <2>1
  <2>3. Len(buf) <= c + MaxPids * b
    BY <2>1, <2>2
  <2> QED
    BY <2>3 DEF b, c
<1> QED
  BY <1>1, <1>2, <1>4, <1>6 DEF TableInv

LEMMA RFreezeTable == ASSUME TableInv, RFreeze PROVE TableInv'
<1>1. rpc = "pids" /\ rpc' = "done" /\ procs' = freeze_map(buf, {"mem_mib", "sm_pct"}) /\ told' = told
  BY DEF RFreeze, RGoto
<1>2. buf \in Seq(Told) /\ SameLoads(buf, told)
  BY <1>1 DEF TableInv, TTypes
<1>3. "pid" \in Fields /\ {"mem_mib", "sm_pct"} \in SUBSET (Fields \ {"pid"}) /\ {"mem_mib", "sm_pct"} = Loads
  BY DEF Fields, Loads
<1>4. Freezes(Fields, buf, procs', {"mem_mib", "sm_pct"})
  BY <1>1, <1>2, <1>3, FreezeMapFreezes DEF Told
<1>5. procs' \in Seq(Told) /\ IsMap(procs') /\ SameLoads(procs', told')
  BY <1>1, <1>2, <1>3, <1>4 DEF Freezes, SameLoads, Told
<1> QED
  BY <1>1, <1>5 DEF TableInv

LEMMA RNextTable == RInv /\ TableInv /\ [RNext]_rvars => TableInv'
<1> SUFFICES ASSUME RInv, TableInv, [RNext]_rvars PROVE TableInv'
  OBVIOUS
<1>1. ASSUME rpc' \notin {"memory", "pids", "done"} PROVE TableInv'
  BY <1>1 DEF TableInv
<1>2. CASE OpenCtl \/ GiveUp \/ CardInfo \/ OpenCard \/ Opened \/ REnd
  BY <1>1, <1>2 DEF OpenCtl, GiveUp, CardInfo, OpenCard, Opened, REnd, RGoto
<1>3. CASE UNCHANGED rvars
  BY <1>3 DEF rvars, dvars, tvars, TableInv, TTypes, Asked, N
<1> QED
  BY <1>2, <1>3, BeginTable, SampledTable, NoMemoryTable, StageTable, ProcessesTable, NoProcessesTable,
     RFreezeTable DEF RNext

LEMMA TableTold == TableInv => TableExact
<1> SUFFICES ASSUME TableInv, rpc = "done", NEW pid \in RmPids
             PROVE  /\ IsMap(procs)
                    /\ usage(pid) = IF SumFor(told, pid, "mem_mib") = 0 THEN <<>>
                                    ELSE <<Row(pid, SumFor(told, pid, "sm_pct"), SumFor(told, pid, "mem_mib"))>>
  BY DEF TableExact, TableInv
<1> DEFINE n == IndexOf(procs, pid)
           mem == SumFor(told, pid, "mem_mib")
           pct == SumFor(told, pid, "sm_pct")
<1>1. pid \in Nat /\ "pid" \in Fields /\ "mem_mib" \in Fields /\ "sm_pct" \in Fields
  BY RmAssumption DEF RmAssumption, Fields
<1>2. procs \in Seq(Told) /\ IsMap(procs) /\ SameLoads(procs, told)
  BY DEF TableInv
<1>3. SumFor(procs, pid, "mem_mib") = mem /\ SumFor(procs, pid, "sm_pct") = pct
  BY <1>1, <1>2 DEF SameLoads, Loads
<1>4. Finds(procs, pid, n)
  BY <1>1, <1>2, IndexOfFinds DEF Told
<1>5. usage(pid) = IF n = 0 \/ procs[n].mem_mib = 0 THEN <<>> ELSE <<procs[n]>>
  BY DEF usage
<1> HIDE DEF n, mem, pct
<1>6. CASE n = 0
  <2>1. \A k \in 1 .. Len(procs) : Part(procs[k], pid, "mem_mib") = 0
    BY <1>4, <1>6 DEF Finds, Part
  <2>2. mem = 0
    BY <1>1, <1>2, <1>3, <2>1, SumNone DEF Told
  <2> QED
    BY <1>2, <1>5, <1>6, <2>2 DEF mem
<1>7. CASE n # 0
  <2>1. n \in 1 .. Len(procs) /\ procs[n].pid = pid
    BY <1>4, <1>7 DEF Finds
  <2>2. procs[n].mem_mib = mem
    BY <1>1, <1>2, <1>3, <2>1, SumOnly DEF Told
  <2>3. procs[n].sm_pct = pct
    BY <1>1, <1>2, <1>3, <2>1, SumOnly DEF Told
  <2>4. procs[n] = Row(pid, pct, mem)
    <3>1. procs[n] \in Told
      BY <1>2, <2>1
    <3> QED
      BY <2>1, <2>2, <2>3, <3>1, RowOf
  <2> QED
    BY <1>2, <1>5, <1>7, <2>2, <2>4 DEF mem, pct
<1> QED
  BY <1>6, <1>7

(* Of the NVIDIA backend: whichever cards fail, the row of a process shows *)
(* the memory and the load that all cards told of it, added up: nothing is *)
(* lost to the capacity of the buffer, the heapsort, the merge or the      *)
(* bisection, and no process comes twice.                                  *)
THEOREM TableAlwaysExact == RSpec => []TableExact
<1>1. RInit("ctl") => RInv /\ TableInv
  BY RInitInv DEF RInit, TableInv
<1>2. RInv /\ TableInv /\ [RNext]_rvars => RInv' /\ TableInv'
  BY RNextInv, RNextTable
<1>3. TableInv => TableExact
  BY TableTold
<1> QED
  BY <1>1, <1>2, <1>3, PTL DEF RSpec

----------------------------------------------------------------------------
(* The rights of the Apple backend                                         *)

(* What the walk holds at each place.                                      *)
Carries(place) ==
  CASE place = "next_agx" -> {"iter"}
    [] place = "count" -> {"iter"}
    [] place \in {"counted", "stats", "children"} -> {"iter", "agx"}
    [] place = "next_child" -> {"iter", "agx", "child_iter"}
    [] place = "props" -> {"iter", "agx", "child_iter", "child"}
    [] OTHER -> {}

(* A cached port is held once; of anything else the process holds what the *)
(* walk carries, and what the kernel refused to take back.                 *)
Accounted(k, place) ==
  /\ held[k] \in Nat /\ leaked[k] \in Nat
  /\ IF k \in Ports THEN held[k] <= 1 ELSE held[k] = leaked[k] + One(k \in Carries(place))

AInv ==
  /\ DOMAIN walk = DOMAIN NoWalk
  /\ DOMAIN held = Kinds /\ DOMAIN leaked = Kinds
  /\ \A k \in Kinds : Accounted(k, walk.pc)

LEMMA WalkFields == "pc" \in DOMAIN NoWalk /\ "n_gpus" \in DOMAIN NoWalk
BY DEF NoWalk

(* A step sets some fields of the walk, its place among them.              *)
LEMMA AfreshWalk == DOMAIN Afresh = DOMAIN NoWalk /\ Afresh.pc = "idle"
BY DEF Afresh, NoWalk

(* What is gained is new to the walk, or a port not asked for before; what *)
(* is lost was carried, or has just come.                                  *)
LEMMA ExchangeKeeps ==
  ASSUME AInv, NEW gained \in SUBSET Kinds, NEW lost \in SUBSET (Kinds \ Ports),
         Exchange(gained, lost), DOMAIN walk' = DOMAIN NoWalk,
         gained \cap Ports \subseteq Missing,
         gained \cap Carries(walk.pc) = {}, lost \subseteq gained \cup Carries(walk.pc),
         \A k \in Kinds \ Ports :
           k \in Carries(walk'.pc) <=> k \in (gained \cup Carries(walk.pc)) \ lost
  PROVE  AInv'
<1>1. PICK left \in SUBSET lost :
        /\ held' = [k \in Kinds |-> held[k] + One(k \in gained) - One(k \in lost \ left)]
        /\ leaked' = [k \in Kinds |-> leaked[k] + One(k \in left)]
  BY DEF Exchange
<1>2. ASSUME NEW k \in Kinds PROVE Accounted(k, walk.pc)'
  <2>1. /\ held'[k] = held[k] + One(k \in gained) - One(k \in lost \ left)
        /\ leaked'[k] = leaked[k] + One(k \in left)
    BY <1>1
  <2>2. held[k] \in Nat /\ leaked[k] \in Nat /\ Accounted(k, walk.pc)
    BY DEF AInv, Accounted
  <2>3. CASE k \in Ports
    <3>1. k \notin lost /\ k \notin left /\ held[k] <= 1 /\ (k \in gained => held[k] = 0)
      BY <2>2, <2>3 DEF Accounted, Missing
    <3> QED
      BY <2>1, <2>2, <2>3, <3>1 DEF Accounted, One
  <2>4. CASE k \notin Ports
    <3>1. held[k] = leaked[k] + One(k \in Carries(walk.pc))
      BY <2>2, <2>4 DEF Accounted
    <3>2. /\ k \in left => k \in lost
          /\ k \in gained => k \notin Carries(walk.pc)
          /\ k \in lost => k \in gained \/ k \in Carries(walk.pc)
          /\ k \in Carries(walk'.pc) <=> (k \in gained \/ k \in Carries(walk.pc)) /\ k \notin lost
      BY <2>4
    <3>3. held'[k] \in Nat /\ leaked'[k] \in Nat /\ held'[k] = leaked'[k] + One(k \in Carries(walk'.pc))
      BY <2>1, <2>2, <3>1, <3>2 DEF One
    <3> QED
      BY <2>4, <3>3 DEF Accounted, Carries
  <2> QED
    BY <2>3, <2>4
<1>3. DOMAIN held' = Kinds /\ DOMAIN leaked' = Kinds
  BY <1>1
<1> QED
  BY <1>2, <1>3 DEF AInv

(* A step that neither gains nor gives.                                    *)
LEMMA RightsStay ==
  ASSUME AInv, UNCHANGED rights, DOMAIN walk' = DOMAIN NoWalk, Carries(walk'.pc) = Carries(walk.pc)
  PROVE  AInv'
<1>1. held' = held /\ leaked' = leaked
  BY DEF rights
<1>2. ASSUME NEW k \in Kinds PROVE Accounted(k, walk.pc)'
  BY <1>1 DEF AInv, Accounted, Carries
<1> QED
  BY <1>1, <1>2 DEF AInv

LEMMA SomePortsKeep ==
  ASSUME AInv, SomePorts, DOMAIN walk' = DOMAIN NoWalk, Carries(walk.pc) = {}, Carries(walk'.pc) = {}
  PROVE  AInv'
<1>1. PICK got \in {{}, {"reply"}, Ports} : Exchange(got \cap Missing, {})
  BY DEF SomePorts, Gain
<1>2. got \cap Missing \in SUBSET Ports /\ Ports \in SUBSET Kinds
  BY DEF Missing, Ports, Kinds
<1> DEFINE gained == got \cap Missing
<1>3. gained \in SUBSET Kinds /\ gained \subseteq Missing /\ gained \subseteq Ports
  BY <1>2
<1> HIDE DEF gained
<1>4. Exchange(gained, {})
  BY <1>1 DEF gained
<1> QED
  BY <1>3, <1>4, ExchangeKeeps

LEMMA AInitInv == AInit("init") => AInv
<1> SUFFICES ASSUME AInit("init") PROVE AInv
  OBVIOUS
<1>1. PICK cap \in Rooms : walk = [NoWalk EXCEPT !.pc = "init", !.room = cap]
  BY DEF AInit
<1>2. DOMAIN walk = DOMAIN NoWalk /\ walk.pc = "init"
  BY <1>1 DEF NoWalk
<1>3. held = [k \in Kinds |-> 0] /\ leaked = [k \in Kinds |-> 0]
  BY DEF AInit
<1>4. ASSUME NEW k \in Kinds PROVE Accounted(k, "init")
  BY <1>3 DEF Accounted, One, Carries
<1> QED
  BY <1>2, <1>3, <1>4 DEF AInv

LEMMA MachineInv == ASSUME AInv, Machine PROVE AInv'
<1>1. walk' = walk /\ UNCHANGED rights
  BY DEF Machine, Compute, OpenClient, CloseClient
<1>2. DOMAIN walk' = DOMAIN NoWalk /\ Carries(walk'.pc) = Carries(walk.pc)
  BY <1>1 DEF AInv, Carries
<1> QED
  BY <1>1, <1>2, RightsStay

(* The kinds that come and go, and the ports that may still be missing.    *)
LEMMA KindFacts ==
  /\ {"iter", "agx", "child_iter", "child", "buf"} \subseteq Kinds \ Ports
  /\ Missing \subseteq Ports /\ Ports \subseteq Kinds
  /\ "iter" \notin Missing
BY DEF Kinds, Ports, Missing

LEMMA CountInv == ASSUME AInv, Count PROVE AInv'
<1>1. DOMAIN walk = DOMAIN NoWalk
  BY DEF AInv
<1> USE WalkFields, KindFacts, ExchangeKeeps DEF At, Goto, Gain, Lose, Carries
<1>2. CASE CountBegin
  <2>1. walk.pc = "init" /\ walk'.pc = "count" /\ DOMAIN walk' = DOMAIN NoWalk
    BY <1>1, <1>2 DEF CountBegin
  <2>2. Exchange(Missing \cup {"iter"}, {})
    BY <1>2 DEF CountBegin
  <2> QED
    BY <2>1, <2>2
<1>3. CASE CountFails
  <2>1. walk.pc = "init" /\ walk'.pc = "idle" /\ DOMAIN walk' = DOMAIN NoWalk
    BY <1>1, <1>3 DEF CountFails
  <2> QED
    BY <1>3, <2>1, SomePortsKeep DEF CountFails
<1>4. CASE CountNext
  <2>1. walk.pc = "count" /\ walk'.pc = "counted" /\ DOMAIN walk' = DOMAIN NoWalk
    BY <1>1, <1>4 DEF CountNext
  <2>2. Exchange({"agx"}, {})
    BY <1>4 DEF CountNext
  <2> QED
    BY <2>1, <2>2
<1>5. CASE CountOne
  <2>1. walk.pc = "counted" /\ walk'.pc = "count" /\ DOMAIN walk' = DOMAIN NoWalk
    BY <1>1, <1>5 DEF CountOne
  <2>2. Exchange({}, {"agx"})
    BY <1>5 DEF CountOne
  <2> QED
    BY <2>1, <2>2
<1>6. CASE CountEnd
  <2>1. walk.pc = "count" /\ walk'.pc = "idle" /\ DOMAIN walk' = DOMAIN NoWalk
    BY <1>1, <1>6 DEF CountEnd
  <2>2. Exchange({}, {"iter"})
    BY <1>6 DEF CountEnd
  <2> QED
    BY <2>1, <2>2
<1> QED
  BY <1>2, <1>3, <1>4, <1>5, <1>6 DEF Count

LEMMA PopulateInv == ASSUME AInv, Populate PROVE AInv'
<1>1. DOMAIN walk = DOMAIN NoWalk
  BY DEF AInv
<1> USE WalkFields, KindFacts, ExchangeKeeps DEF At, Goto, Gain, Lose, Carries
<1>2. CASE EmptyTick
  <2>1. walk.pc = "idle" /\ walk'.pc = "idle" /\ DOMAIN walk' = DOMAIN NoWalk /\ UNCHANGED rights
    BY <1>1, <1>2 DEF EmptyTick
  <2> QED
    BY <2>1, RightsStay
<1>3. CASE Begin
  <2>1. walk.pc = "idle" /\ walk'.pc = "next_agx" /\ DOMAIN walk' = DOMAIN NoWalk
    BY <1>1, <1>3 DEF Begin
  <2>2. Exchange(Missing \cup {"iter"}, {})
    BY <1>3 DEF Begin
  <2> QED
    BY <2>1, <2>2
<1>4. CASE BeginFails
  <2>1. walk.pc = "idle" /\ walk'.pc = "idle" /\ DOMAIN walk' = DOMAIN NoWalk
    BY <1>1, <1>4 DEF BeginFails
  <2> QED
    BY <1>4, <2>1, SomePortsKeep DEF BeginFails
<1>5. CASE NextAgx
  <2>1. walk.pc = "next_agx" /\ walk'.pc = "stats" /\ DOMAIN walk' = DOMAIN NoWalk
    BY <1>1, <1>5 DEF NextAgx
  <2>2. Exchange({"agx"}, {})
    BY <1>5 DEF NextAgx
  <2> QED
    BY <2>1, <2>2
<1>6. CASE LastAgx
  <2>1. walk.pc = "next_agx" /\ walk'.pc = "freeze" /\ DOMAIN walk' = DOMAIN NoWalk
    BY <1>1, <1>6 DEF LastAgx
  <2>2. Exchange({}, {"iter"})
    BY <1>6 DEF LastAgx
  <2> QED
    BY <2>1, <2>2
<1>7. CASE Stats
  <2>1. walk.pc = "stats" /\ walk'.pc = "children" /\ DOMAIN walk' = DOMAIN NoWalk
    BY <1>1, <1>7 DEF Stats
  <2>2. Exchange({"buf"}, {"buf"}) \/ UNCHANGED rights
    BY <1>7 DEF Stats
  <2> QED
    BY <2>1, <2>2, RightsStay
<1>8. CASE Children
  <2>1. walk.pc = "children" /\ walk'.pc = "next_child" /\ DOMAIN walk' = DOMAIN NoWalk
    BY <1>1, <1>8 DEF Children
  <2>2. Exchange({"child_iter"}, {})
    BY <1>8 DEF Children
  <2> QED
    BY <2>1, <2>2
<1>9. CASE NoChildren
  <2>1. walk.pc = "children" /\ walk'.pc = "next_agx" /\ DOMAIN walk' = DOMAIN NoWalk
    BY <1>1, <1>9 DEF NoChildren, DropEntry
  <2>2. Exchange({}, {"agx"})
    BY <1>9 DEF NoChildren, DropEntry
  <2> QED
    BY <2>1, <2>2
<1>10. CASE NextChild
  <2>1. walk.pc = "next_child" /\ walk'.pc = "props" /\ DOMAIN walk' = DOMAIN NoWalk
    BY <1>1, <1>10 DEF NextChild
  <2>2. Exchange({"child"}, {})
    BY <1>10 DEF NextChild
  <2> QED
    BY <2>1, <2>2
<1>11. CASE LastChild
  <2>1. walk.pc = "next_child" /\ walk'.pc = "next_agx" /\ DOMAIN walk' = DOMAIN NoWalk
    BY <1>1, <1>11 DEF LastChild
  <2>2. Exchange({}, {"child_iter", "agx"})
    BY <1>11 DEF LastChild
  <2> QED
    BY <2>1, <2>2
<1>12. CASE ReadChild
  <2>1. walk.pc = "props" /\ walk'.pc = "next_child" /\ DOMAIN walk' = DOMAIN NoWalk
    BY <1>1, <1>12 DEF ReadChild, NextToRead
  <2>2. Exchange({"buf"}, {"buf", "child"})
    BY <1>12 DEF ReadChild, NextToRead
  <2> QED
    BY <2>1, <2>2
<1>13. CASE SkipChild
  <2>1. walk.pc = "props" /\ walk'.pc = "next_child" /\ DOMAIN walk' = DOMAIN NoWalk
    BY <1>1, <1>13 DEF SkipChild, NextToRead
  <2>2. Exchange({"buf"}, {"buf", "child"}) \/ Exchange({}, {"child"})
    BY <1>13 DEF SkipChild, NextToRead
  <2> QED
    BY <2>1, <2>2
<1>14. CASE Freeze
  <2>1. walk.pc = "freeze" /\ walk'.pc = "done" /\ DOMAIN walk' = DOMAIN NoWalk /\ UNCHANGED rights
    BY <1>1, <1>14 DEF Freeze
  <2> QED
    BY <2>1, RightsStay
<1>15. CASE Rotate
  <2>1. walk.pc = "done" /\ walk'.pc = "idle" /\ DOMAIN walk' = DOMAIN NoWalk /\ UNCHANGED rights
    BY <1>1, <1>15, AfreshWalk DEF Rotate
  <2> QED
    BY <2>1, RightsStay
<1> QED
  BY <1>2, <1>3, <1>4, <1>5, <1>6, <1>7, <1>8, <1>9, <1>10, <1>11, <1>12, <1>13, <1>14, <1>15
     DEF Populate

LEMMA ANextInv == AInv /\ [ANext]_avars => AInv'
<1> SUFFICES ASSUME AInv, [ANext]_avars PROVE AInv'
  OBVIOUS
<1>1. CASE UNCHANGED avars
  <2>1. UNCHANGED rights /\ walk' = walk
    BY <1>1 DEF avars
  <2>2. DOMAIN walk' = DOMAIN NoWalk /\ Carries(walk'.pc) = Carries(walk.pc)
    BY <2>1 DEF AInv, Carries
  <2> QED
    BY <2>1, <2>2, RightsStay
<1> QED
  BY <1>1, CountInv, MachineInv, PopulateInv DEF ANext

(* Of populate and count_agx_devices in src/gpu/agx.rs: whichever of their *)
(* remote calls fail, and whatever the kernel refuses to take back, what   *)
(* is held between ticks is the cached ports, once, and what was refused.  *)
THEOREM RightsAlwaysBalanced == ASpec => []RightsBalanced
<1>1. AInit("init") => AInv
  BY AInitInv
<1>2. AInv /\ [ANext]_avars => AInv'
  BY ANextInv
<1>3. AInv => RightsBalanced
  <2> SUFFICES ASSUME AInv, walk.pc = "idle" \/ walk.pc = "freeze" PROVE RightsBalanced
    BY DEF RightsBalanced, At
  <2>1. ASSUME NEW k \in Kinds
        PROVE  IF k \in Ports THEN held[k] <= 1 ELSE held[k] = leaked[k]
    BY DEF AInv, Accounted, One, Carries
  <2> QED
    BY <2>1, KindFacts DEF RightsBalanced
<1> QED
  BY <1>1, <1>2, <1>3, PTL DEF ASpec

----------------------------------------------------------------------------
(* The percentages of the Apple backend.  Each client is read at most once *)
(* in a tick, and a client read in two ticks is of the same process and    *)
(* has used no less (UInv), so that the sums of a process compare.         *)

(* Numbers none of which is greater than its fellow.                       *)
LEMMA TotalLess ==
  ASSUME NEW c \in Seq(Nat), NEW d \in Seq(Nat), Len(c) = Len(d),
         \A k \in 1 .. Len(c) : c[k] <= d[k]
  PROVE  Total(c) <= Total(d)
<1>1. PICK f \in [0 .. Len(c) -> Nat] : Adding(c, f) /\ Total(c) = f[Len(c)]
  BY TotalSums
<1>2. PICK h \in [0 .. Len(d) -> Nat] : Adding(d, h) /\ Total(d) = h[Len(d)]
  BY TotalSums
<1> DEFINE L == Len(c)
           T == {m \in Nat : m <= L => f[m] <= h[m]}
<1>3. L \in Nat /\ L = Len(d) /\ (\A k \in 1 .. L : c[k] \in Nat /\ d[k] \in Nat /\ c[k] <= d[k])
      /\ \A k \in 0 .. L : f[k] \in Nat /\ h[k] \in Nat
  <2>1. L \in Nat /\ L = Len(d)
    OBVIOUS
  <2>2. \A k \in 1 .. L : c[k] \in Nat /\ c[k] <= d[k]
    OBVIOUS
  <2>3. \A k \in 1 .. L : d[k] \in Nat
    BY <2>1
  <2>4. f \in [0 .. L -> Nat] /\ h \in [0 .. L -> Nat]
    BY <2>1
  <2>5. \A k \in 0 .. L : f[k] \in Nat /\ h[k] \in Nat
    BY ONLY <2>4
  <2> QED
    BY ONLY <2>1, <2>2, <2>3, <2>5
<1>4. f[0] = 0 /\ h[0] = 0 /\ \A k \in 1 .. L : f[k] = f[k - 1] + c[k] /\ h[k] = h[k - 1] + d[k]
  BY <1>1, <1>2, <1>3 DEF Adding
<1> HIDE DEF L
<1>5. 0 \in T
  BY <1>4
<1>6. ASSUME NEW m \in T PROVE m + 1 \in T
  <2> SUFFICES ASSUME m + 1 <= L PROVE f[m + 1] <= h[m + 1]
    OBVIOUS
  <2>1. m + 1 \in 1 .. L /\ (m + 1) - 1 = m /\ m \in 0 .. L /\ f[m] <= h[m]
    BY <1>3
  <2>2. f[m + 1] = f[m] + c[m + 1] /\ h[m + 1] = h[m] + d[m + 1]
    BY <1>4, <2>1
  <2>3. f[m] \in Nat /\ h[m] \in Nat /\ c[m + 1] \in Nat /\ d[m + 1] \in Nat /\ c[m + 1] <= d[m + 1]
    BY <1>3, <2>1
  <2> QED
    BY <2>1, <2>2, <2>3
<1>7. T = Nat
  <2> HIDE DEF T
  <2> QED
    BY <1>5, <1>6, Induct DEF T
<1>8. L \in T /\ L <= L
  <2> HIDE DEF T
  <2> QED
    BY <1>3, <1>7
<1> QED
  BY <1>1, <1>2, <1>3, <1>8 DEF L

(* Entries whose parts are nowhere greater, and the same.                  *)
LEMMA SumLess ==
  ASSUME NEW D, "pid" \in D, NEW s \in Seq(Entries(D)), NEW t \in Seq(Entries(D)), Len(s) = Len(t),
         NEW pid, NEW field \in D
  PROVE  /\ (\A k \in 1 .. Len(s) : Part(s[k], pid, field) <= Part(t[k], pid, field))
              => SumFor(s, pid, field) <= SumFor(t, pid, field)
         /\ (\A k \in 1 .. Len(s) : Part(s[k], pid, field) = Part(t[k], pid, field))
              => SumFor(s, pid, field) = SumFor(t, pid, field)
<1> DEFINE L == Len(s)
           c == [k \in DOMAIN s |-> IF s[k].pid = pid THEN s[k][field] ELSE 0]
           d == [k \in DOMAIN t |-> IF t[k].pid = pid THEN t[k][field] ELSE 0]
<1>1. L \in Nat /\ DOMAIN s = 1 .. L /\ DOMAIN t = 1 .. L
      /\ \A k \in 1 .. L : Part(s[k], pid, field) \in Nat /\ Part(t[k], pid, field) \in Nat
  <2>1. \A k \in 1 .. L : s[k] \in Entries(D) /\ t[k] \in Entries(D)
    OBVIOUS
  <2> QED
    BY <2>1, PartNat
<1>2. SumFor(s, pid, field) = Total(c) /\ SumFor(t, pid, field) = Total(d)
  BY DEF SumFor
<1>3. \A k \in 1 .. L : c[k] = Part(s[k], pid, field) /\ d[k] = Part(t[k], pid, field)
  BY <1>1 DEF Part
<1>4. c = [k \in 1 .. L |-> c[k]] /\ d = [k \in 1 .. L |-> d[k]]
  BY <1>1
<1> HIDE DEF c, d, L
<1>5. c \in [1 .. L -> Nat] /\ d \in [1 .. L -> Nat]
  BY <1>1, <1>3, <1>4
<1>6. c \in Seq(Nat) /\ Len(c) = L /\ d \in Seq(Nat) /\ Len(d) = L
  BY ONLY <1>1, <1>5, VectorOf
<1>7. ASSUME \A k \in 1 .. L : Part(s[k], pid, field) <= Part(t[k], pid, field)
      PROVE  Total(c) <= Total(d)
  BY <1>3, <1>6, <1>7, TotalLess
<1>8. ASSUME \A k \in 1 .. L : Part(s[k], pid, field) = Part(t[k], pid, field)
      PROVE  Total(c) = Total(d)
  <2>1. \A k \in 1 .. L : c[k] = d[k]
    BY <1>3, <1>8
  <2>2. c = d
    BY <1>4, <2>1
  <2> QED
    BY <2>2
<1> QED
  BY <1>2, <1>7, <1>8 DEF L

(* The clients of the Apple backend: what was read of one is found again   *)
(* in a later reading, of the same process and no less.                    *)
Facts == {"pid", "ns", "id", "since"}
Readings == Entries(Facts)

Once(r) == \A a, b \in 1 .. Len(r) : r[a].id = r[b].id => a = b
GoesOn(s, t) ==
  \A k \in 1 .. Len(s), j \in 1 .. Len(t) : s[k].id = t[j].id => s[k].pid = t[j].pid /\ s[k].ns <= t[j].ns

(* Of earlier readings those of these ids; the others used nothing.        *)
Kept(s, ids) ==
  [k \in DOMAIN s |-> IF s[k].id \in ids THEN s[k] ELSE [s[k] EXCEPT !.ns = 0]]

LEMMA KeptReadings ==
  ASSUME NEW s \in Seq(Readings), NEW ids
  PROVE  /\ Kept(s, ids) \in Seq(Readings) /\ Len(Kept(s, ids)) = Len(s)
         /\ \A k \in 1 .. Len(s) : /\ Kept(s, ids)[k].pid = s[k].pid
                                   /\ s[k].id \in ids => Kept(s, ids)[k] = s[k]
                                   /\ s[k].id \notin ids => Kept(s, ids)[k].ns = 0
<1> DEFINE b == Kept(s, ids)
           Zeroed(e) == [e EXCEPT !.ns = 0]
<1>1. Len(s) \in Nat /\ DOMAIN s = 1 .. Len(s) /\ \A k \in 1 .. Len(s) : s[k] \in [Facts -> Nat] /\ s[k] \in Readings
  BY DEF Readings, Entries
<1>2. b = [k \in 1 .. Len(s) |-> IF s[k].id \in ids THEN s[k] ELSE Zeroed(s[k])]
  BY <1>1 DEF Kept
<1>3. \A e \in [Facts -> Nat] : Zeroed(e) \in [Facts -> Nat] /\ Zeroed(e).pid = e.pid /\ Zeroed(e).ns = 0
  BY DEF Facts
<1> HIDE DEF b, Zeroed
<1>4. ASSUME NEW k \in 1 .. Len(s)
      PROVE  /\ b[k] \in Readings /\ b[k].pid = s[k].pid
             /\ s[k].id \in ids => b[k] = s[k]
             /\ s[k].id \notin ids => b[k].ns = 0
  <2>1. b[k] = IF s[k].id \in ids THEN s[k] ELSE Zeroed(s[k])
    BY <1>2
  <2>2. s[k] \in [Facts -> Nat]
    BY <1>1
  <2>3. Zeroed(s[k]) \in [Facts -> Nat] /\ Zeroed(s[k]).pid = s[k].pid /\ Zeroed(s[k]).ns = 0
    BY <1>3, <2>2
  <2> QED
    BY ONLY <2>1, <2>2, <2>3 DEF Readings, Entries
<1>5. b \in [1 .. Len(s) -> Readings]
  BY <1>2, <1>4
<1>6. b \in Seq(Readings) /\ Len(b) = Len(s)
  BY ONLY <1>1, <1>5, VectorOf
<1> QED
  BY <1>4, <1>6 DEF b

LEMMA KeptLess ==
  ASSUME NEW s \in Seq(Readings), NEW ids, NEW pid
  PROVE  /\ SumFor(Kept(s, ids), pid, "ns") <= SumFor(s, pid, "ns")
         /\ (\A k \in 1 .. Len(s) : s[k].pid = pid => s[k].id \in ids)
              => SumFor(Kept(s, ids), pid, "ns") = SumFor(s, pid, "ns")
<1> DEFINE b == Kept(s, ids)
<1>1. /\ b \in Seq(Readings) /\ Len(b) = Len(s)
      /\ \A k \in 1 .. Len(s) : /\ b[k].pid = s[k].pid /\ (s[k].id \in ids => b[k] = s[k])
                                /\ s[k].id \notin ids => b[k].ns = 0
  BY KeptReadings
<1> HIDE DEF b
<1>2. "pid" \in Facts /\ "ns" \in Facts
  BY DEF Facts
<1>3. \A k \in 1 .. Len(s) : s[k].ns \in Nat
  <2>1. \A k \in 1 .. Len(s) : s[k] \in Readings
    OBVIOUS
  <2> QED
    BY <1>2, <2>1 DEF Readings, Entries
<1>4. \A k \in 1 .. Len(b) : Part(b[k], pid, "ns") <= Part(s[k], pid, "ns")
  BY <1>1, <1>3 DEF Part
<1>5. ASSUME \A k \in 1 .. Len(s) : s[k].pid = pid => s[k].id \in ids
      PROVE  \A k \in 1 .. Len(b) : Part(b[k], pid, "ns") = Part(s[k], pid, "ns")
  BY <1>1, <1>5 DEF Part
<1>6. SumFor(b, pid, "ns") <= SumFor(s, pid, "ns")
  BY <1>1, <1>2, <1>4, SumLess DEF Readings
<1>7. ASSUME \A k \in 1 .. Len(s) : s[k].pid = pid => s[k].id \in ids
      PROVE  SumFor(b, pid, "ns") = SumFor(s, pid, "ns")
  BY <1>1, <1>2, <1>5, <1>7, SumLess DEF Readings
<1> QED
  BY <1>6, <1>7 DEF b

(* What was read before of the clients that are read now is no more than   *)
(* what is read now.                                                       *)
LEMMA KeptCovered ==
  ASSUME NEW s \in Seq(Readings), NEW t \in Seq(Readings), Once(s), GoesOn(s, t), NEW pid \in Nat
  PROVE  SumFor(Kept(s, Ids(t)), pid, "ns") <= SumFor(t, pid, "ns")
<1> DEFINE L == Len(t)
           M == Len(s)
           S(x) == SumFor(x, pid, "ns")
           Some(n) == {t[j].id : j \in 1 .. n}
           T == {n \in Nat : n <= L => S(Kept(s, Some(n))) <= S(Cut(t, n))}
<1>1. L \in Nat /\ M \in Nat /\ \A j \in 1 .. L : t[j] \in Readings
  OBVIOUS
<1>2. "pid" \in Facts /\ "ns" \in Facts
  BY DEF Facts
<1>3. \A x \in Seq(Readings) : S(x) \in Nat
  BY <1>2, SumIsWeight DEF Readings
<1> HIDE DEF L, M
<1>4. ASSUME NEW n \in 0 .. L PROVE Kept(s, Some(n)) \in Seq(Readings) /\ Cut(t, n) \in Seq(Readings)
  BY <1>4, KeptReadings, CutGrows DEF L
<1>5. 0 \in T
  <2> DEFINE b == Kept(s, Some(0))
  <2>1. Some(0) = {}
    OBVIOUS
  <2>2. b \in Seq(Readings) /\ Len(b) = M /\ \A k \in 1 .. M : b[k].ns = 0
    <3>1. \A k \in 1 .. M : s[k].id \notin Some(0)
      BY <2>1
    <3> HIDE DEF Some
    <3> QED
      BY <3>1, KeptReadings DEF M
  <2> HIDE DEF b, Some
  <2>3. \A k \in 1 .. Len(b) : Part(b[k], pid, "ns") = 0
    BY <2>2 DEF Part
  <2>4. S(b) = 0
    BY <1>2, <2>2, <2>3, SumNone DEF Readings
  <2>5. S(Cut(t, 0)) \in Nat
    BY <1>1, <1>3, <1>4
  <2> HIDE DEF S
  <2>6. S(b) <= S(Cut(t, 0))
    BY <2>4, <2>5
  <2> QED
    BY <2>6 DEF b
<1>6. ASSUME NEW n \in T PROVE n + 1 \in T
  <2> SUFFICES ASSUME n + 1 <= L PROVE S(Kept(s, Some(n + 1))) <= S(Cut(t, n + 1))
    OBVIOUS
  <2> DEFINE e == t[n + 1]
             a == Kept(s, Some(n))
             b == Kept(s, Some(n + 1))
             c == Cut(t, n)
  <2>1. n \in 0 .. L - 1 /\ n \in 0 .. L /\ n + 1 \in 0 .. L /\ n + 1 \in 1 .. L /\ S(a) <= S(c)
    BY <1>1
  <2>2. Cut(t, n + 1) = Append(c, e) /\ c \in Seq(Readings) /\ e \in Readings /\ a \in Seq(Readings) /\ b \in Seq(Readings)
    BY <1>1, <1>4, <2>1, CutGrows DEF L
  <2>3. S(Append(c, e)) = S(c) + Part(e, pid, "ns") /\ Part(e, pid, "ns") \in Nat
    <3> HIDE DEF c, e
    <3> QED
      BY <1>2, <2>2, SumAppend, PartNat DEF Readings
  <2>4. Some(n + 1) = Some(n) \cup {e.id}
    <3>1. 1 .. n + 1 = (1 .. n) \cup {n + 1}
      BY <2>1
    <3> QED
      BY <3>1
  <2> DEFINE Zeroed(x) == [x EXCEPT !.ns = 0]
  <2>5. \A k \in 1 .. M : a[k] = (IF s[k].id \in Some(n) THEN s[k] ELSE Zeroed(s[k]))
                          /\ b[k] = (IF s[k].id \in Some(n + 1) THEN s[k] ELSE Zeroed(s[k]))
    <3>1. DOMAIN s = 1 .. M
      BY DEF M
    <3> HIDE DEF Some
    <3> QED
      BY <3>1 DEF Kept
  <2> HIDE DEF Zeroed
  <2>6. Len(a) = M /\ Len(b) = M
    <3> HIDE DEF Some
    <3> QED
      BY KeptReadings DEF M
  <2>7. S(a) \in Nat /\ S(b) \in Nat /\ S(c) \in Nat
    BY <1>3, <2>2
  <2>8. S(b) <= S(a) + Part(e, pid, "ns")
    <3> HIDE DEF S
    <3>1. CASE \A k \in 1 .. M : s[k].id = e.id => e.id \in Some(n)
      <4>1. \A k \in 1 .. M : a[k] = b[k]
        <5> HIDE DEF a, b, Some
        <5> QED
          BY <2>4, <2>5, <3>1
      <4>2. a = b
        <5> HIDE DEF a, b
        <5>1. a \in [1 .. M -> Readings] /\ b \in [1 .. M -> Readings]
          BY <2>2, <2>6, SeqVector
        <5>2. a = [k \in 1 .. M |-> a[k]] /\ b = [k \in 1 .. M |-> b[k]]
          BY <5>1
        <5> QED
          BY ONLY <4>1, <5>2
      <4> HIDE DEF a, b, e
      <4> QED
        BY <2>3, <2>7, <4>2
    <3>2. CASE \E k \in 1 .. M : s[k].id = e.id /\ e.id \notin Some(n)
      <4>1. PICK k \in 1 .. M : s[k].id = e.id /\ e.id \notin Some(n)
        BY <3>2
      <4>2. \A j \in 1 .. M : s[j].id = e.id => j = k
        BY <4>1 DEF Once, M
      <4>3. s[k].pid = e.pid /\ s[k].ns <= e.ns
        BY <2>1, <4>1 DEF GoesOn, L, M
      <4>4. s[k] \in Readings
        BY DEF M
      <4>5. b = [a EXCEPT ![k] = s[k]]
        <5> HIDE DEF a, b, e, Some
        <5>1. a \in [1 .. M -> Readings] /\ b \in [1 .. M -> Readings]
          BY <2>2, <2>6, SeqVector
        <5>2. \A j \in 1 .. M : b[j] = IF j = k THEN s[k] ELSE a[j]
          BY <2>4, <2>5, <4>1, <4>2
        <5> QED
          BY <4>4, <5>1, <5>2
      <4>6. a[k].ns = 0 /\ a[k] \in Readings
        <5>1. a[k] = Zeroed(s[k])
          <6> HIDE DEF a, b, Some
          <6> QED
            BY <2>5, <4>1
        <5>2. s[k] \in [Facts -> Nat]
          BY <4>4 DEF Readings, Entries
        <5>3. Zeroed(s[k]).ns = 0
          BY <1>2, <5>2 DEF Zeroed
        <5>4. a[k] \in Readings
          <6> HIDE DEF a
          <6> QED
            BY <2>2, <2>6
        <5> QED
          BY <5>1, <5>3, <5>4
      <4> HIDE DEF a, b, e, Some, c
      <4>7. S(b) = S(a) - Part(a[k], pid, "ns") + Part(s[k], pid, "ns")
        <5>1. k \in 1 .. Len(a)
          BY <2>6
        <5>2. SumFor([a EXCEPT ![k] = s[k]], pid, "ns")
                = SumFor(a, pid, "ns") - Part(a[k], pid, "ns") + Part(s[k], pid, "ns")
          <6> DEFINE x == s[k]
          <6>1. x \in Readings
            BY <4>4
          <6> HIDE DEF x
          <6>2. SumFor([a EXCEPT ![k] = x], pid, "ns")
                  = SumFor(a, pid, "ns") - Part(a[k], pid, "ns") + Part(x, pid, "ns")
            <7>1. a \in Seq(Entries(Facts)) /\ x \in Entries(Facts)
              BY <2>2, <6>1 DEF Readings
            <7> QED
              BY ONLY <1>2, <5>1, <7>1, SumChange
          <6> QED
            BY <6>2 DEF x
        <5> QED
          BY ONLY <4>5, <5>2 DEF S
      <4>8. Part(a[k], pid, "ns") = 0 /\ Part(s[k], pid, "ns") \in Nat
        BY <1>2, <4>4, <4>6, PartNat DEF Part, Readings
      <4>9. Part(s[k], pid, "ns") <= Part(e, pid, "ns")
        BY <4>3 DEF Part
      <4> QED
        BY <2>3, <2>7, <4>7, <4>8, <4>9
    <3> QED
      BY <3>1, <3>2
  <2> HIDE DEF S, a, b, c, e, Some
  <2>9. S(b) <= S(Append(c, e))
    BY <2>1, <2>3, <2>7, <2>8
  <2> QED
    BY <2>2, <2>9 DEF b
<1>7. T = Nat
  <2> HIDE DEF T
  <2> QED
    BY <1>5, <1>6, Induct DEF T
<1>8. L \in T /\ L <= L
  <2> HIDE DEF T
  <2> QED
    BY <1>1, <1>7
<1>9. Cut(t, L) = t /\ Some(L) = Ids(t)
  <2>1. Cut(t, L) = t
    BY CutGrows DEF L
  <2>2. DOMAIN t = 1 .. L
    BY DEF L
  <2> QED
    BY <2>1, <2>2 DEF Ids
<1> HIDE DEF Some, S
<1>10. S(Kept(s, Some(L))) <= S(Cut(t, L))
  BY <1>8
<1> QED
  BY <1>9, <1>10 DEF S

Quotient(a, d) == a \div d

LEMMA Quotients ==
  ASSUME NEW d \in Nat \ {0}, NEW a \in Nat, NEW b \in Nat, a <= b
  PROVE  Quotient(a, d) \in Nat /\ Quotient(b, d) \in Nat /\ Quotient(a, d) <= Quotient(b, d)
<1> DEFINE q == a \div d
           r == b \div d
<1>1. q \in Nat /\ q * d <= a /\ a < q * d + d
  BY SMTT(60)
<1>2. r \in Nat /\ r * d <= b /\ b < r * d + d
  BY SMTT(60)
<1> HIDE DEF q, r
<1>3. q <= r
  <2>1. SUFFICES ASSUME r + 1 <= q PROVE FALSE
    BY <1>1, <1>2
  <2>2. (r + 1) * d <= q * d
    BY <1>1, <1>2, <2>1
  <2>3. (r + 1) * d = r * d + d /\ r * d \in Nat /\ q * d \in Nat
    BY <1>1, <1>2
  <2> QED
    BY <1>1, <1>2, <2>2, <2>3
<1> QED
  BY <1>1, <1>2, <1>3 DEF Quotient, q, r

(* What Freeze makes of this tick's readings.                              *)
PercentRows ==
  LET new_prev == freeze_map(reads, {"ns"})
  IN [k \in DOMAIN new_prev |->
        [pid |-> new_prev[k].pid,
         pct |-> compute_pct(PrevNs(new_prev[k].pid), new_prev[k].ns, walk.dt)]]
Results == Pushed(PercentRows, {k \in DOMAIN PercentRows : PercentRows[k].pct # 0})

Percents == Entries({"pid", "pct"})

LEMMA ReadingIs ==
  ASSUME NEW e \in Readings
  PROVE  e.pid \in Nat /\ e.ns \in Nat /\ e.id \in Nat /\ e.since \in Nat
BY DEF Readings, Entries, Facts

LEMMA ReadingOf ==
  ASSUME NEW pid \in Nat, NEW ns \in Nat, NEW id \in Nat, NEW since \in Nat
  PROVE  [pid |-> pid, ns |-> ns, id |-> id, since |-> since] \in Readings
BY DEF Readings, Entries, Facts

(* A map's entry of a pid holds the sum of it.                             *)
LEMMA FrozenSum ==
  ASSUME NEW s \in Seq(Readings), NEW r, Freezes(Facts, s, r, {"ns"}), NEW pid \in Nat
  PROVE  /\ r \in Seq(Readings) /\ IsMap(r) /\ Finds(r, pid, IndexOf(r, pid)) /\ SumFor(s, pid, "ns") \in Nat
         /\ IndexOf(r, pid) = 0 => SumFor(s, pid, "ns") = 0
         /\ \A k \in 1 .. Len(r) : r[k].pid = pid => r[k].ns = SumFor(s, pid, "ns")
<1>1. "pid" \in Facts /\ "ns" \in Facts
  BY DEF Facts
<1>2. r \in Seq(Readings) /\ IsMap(r) /\ SumFor(r, pid, "ns") = SumFor(s, pid, "ns")
  BY DEF Freezes, Readings
<1>3. Finds(r, pid, IndexOf(r, pid))
  BY <1>1, <1>2, IndexOfFinds DEF Readings
<1>4. SumFor(s, pid, "ns") \in Nat
  BY <1>1, SumIsWeight DEF Readings
<1>5. ASSUME IndexOf(r, pid) = 0 PROVE SumFor(s, pid, "ns") = 0
  <2>1. \A k \in 1 .. Len(r) : Part(r[k], pid, "ns") = 0
    BY <1>3, <1>5 DEF Finds, Part
  <2> QED
    BY <1>1, <1>2, <2>1, SumNone DEF Readings
<1>6. ASSUME NEW k \in 1 .. Len(r), r[k].pid = pid PROVE r[k].ns = SumFor(s, pid, "ns")
  BY <1>1, <1>2, <1>6, SumOnly DEF Readings
<1> QED
  BY <1>2, <1>3, <1>4, <1>5, <1>6

LEMMA Honest ==
  ASSUME reads \in Seq(Readings), prev_reads \in Seq(Readings), Freezes(Facts, prev_reads, prev, {"ns"}),
         Once(prev_reads), GoesOn(prev_reads, reads), walk.dt \in Nat \ {0}, entries = Results
  PROVE  /\ IsMap(entries)
         /\ \A pid \in Nat :
              LET used == Least(100, (Used(pid) * 100) \div walk.dt)
              IN /\ Shown(pid) <= used
                 /\ PrevNs(pid) > 0 /\ IdsOf(pid, prev_reads) \subseteq Ids(reads) => Shown(pid) = used
<1> DEFINE np == freeze_map(reads, {"ns"})
           rows == PercentRows
           Some == {k \in DOMAIN PercentRows : PercentRows[k].pct # 0}
           dt == walk.dt
<1>1. dt \in Nat \ {0}
  OBVIOUS
<1>2. Freezes(Facts, reads, np, {"ns"})
  <2>1. "pid" \in Facts /\ {"ns"} \in SUBSET (Facts \ {"pid"})
    BY DEF Facts
  <2> QED
    BY <2>1, FreezeMapFreezes DEF Readings
<1>3. rows = [k \in DOMAIN np |-> [pid |-> np[k].pid, pct |-> compute_pct(PrevNs(np[k].pid), np[k].ns, dt)]]
  BY DEF PercentRows
<1>4. entries = Pushed(rows, Some)
  BY DEF Results
<1> HIDE DEF np, dt, rows, Some
<1>5. np \in Seq(Readings) /\ IsMap(np) /\ DOMAIN np = 1 .. Len(np)
  BY <1>2 DEF Freezes, Readings
<1>6. \A k \in 1 .. Len(np) : np[k].pid \in Nat /\ np[k].ns \in Nat
  <2>1. \A k \in 1 .. Len(np) : np[k] \in Readings
    BY <1>5
  <2> QED
    BY <2>1, ReadingIs
<1>7. ASSUME NEW pid \in Nat PROVE PrevNs(pid) = SumFor(prev_reads, pid, "ns") /\ PrevNs(pid) \in Nat
  <2> DEFINE x == IndexOf(prev, pid)
  <2>1. PrevNs(pid) = IF x = 0 THEN 0 ELSE prev[x].ns
    BY DEF PrevNs
  <2>2. /\ Finds(prev, pid, x) /\ SumFor(prev_reads, pid, "ns") \in Nat
        /\ x = 0 => SumFor(prev_reads, pid, "ns") = 0
        /\ \A k \in 1 .. Len(prev) : prev[k].pid = pid => prev[k].ns = SumFor(prev_reads, pid, "ns")
    BY FrozenSum
  <2> HIDE DEF x
  <2>3. x # 0 => x \in 1 .. Len(prev) /\ prev[x].pid = pid
    BY <2>2 DEF Finds
  <2> QED
    BY <2>1, <2>2, <2>3
<1>8. ASSUME NEW a \in Nat, NEW b \in Nat
      PROVE  /\ compute_pct(a, b, dt) \in Nat
             /\ compute_pct(a, b, dt) = IF a = 0 \/ b <= a THEN 0 ELSE Least(100, Quotient((b - a) * 100, dt))
  <2>1. compute_pct(a, b, dt) = IF a = 0 \/ b <= a THEN 0 ELSE Least(100, Quotient((b - a) * 100, dt))
    BY <1>1 DEF compute_pct, Quotient
  <2>2. b > a => (b - a) * 100 \in Nat
    OBVIOUS
  <2>3. b > a => Quotient((b - a) * 100, dt) \in Nat
    <3> DEFINE z == (b - a) * 100
    <3>1. b > a => z \in Nat /\ z <= z
      BY <2>2
    <3> HIDE DEF z
    <3> QED
      BY <1>1, <3>1, Quotients DEF z
  <2> QED
    BY <2>1, <2>3 DEF Least
<1>9. \A k \in 1 .. Len(np) : /\ rows[k] \in Percents /\ rows[k].pid = np[k].pid
                              /\ rows[k].pct = compute_pct(PrevNs(np[k].pid), np[k].ns, dt)
  <2> SUFFICES ASSUME NEW k \in 1 .. Len(np)
               PROVE  /\ rows[k] \in Percents /\ rows[k].pid = np[k].pid
                      /\ rows[k].pct = compute_pct(PrevNs(np[k].pid), np[k].ns, dt)
    OBVIOUS
  <2> DEFINE x == np[k].pid
             y == compute_pct(PrevNs(np[k].pid), np[k].ns, dt)
  <2>1. rows[k] = [pid |-> x, pct |-> y]
    BY <1>3, <1>5
  <2>2. x \in Nat /\ y \in Nat
    BY <1>6, <1>7, <1>8
  <2> HIDE DEF x, y
  <2>3. rows[k] \in Percents
    BY <2>1, <2>2 DEF Percents, Entries
  <2> QED
    BY <2>1, <2>3 DEF x, y
<1>10. rows \in Seq(Percents) /\ Len(rows) = Len(np) /\ DOMAIN rows = 1 .. Len(np)
  <2>1. rows \in [1 .. Len(np) -> Percents]
    BY <1>3, <1>5, <1>9
  <2>2. Len(np) \in Nat
    BY <1>5
  <2> QED
    BY ONLY <2>1, <2>2, VectorOf
<1>11. IsMap(rows)
  <2> SUFFICES ASSUME NEW k \in 1 .. Len(np) - 1 PROVE rows[k].pid < rows[k + 1].pid
    BY <1>10 DEF IsMap
  <2>1. k \in 1 .. Len(np) /\ k + 1 \in 1 .. Len(np)
    BY <1>5
  <2>2. np[k].pid < np[k + 1].pid
    BY <1>5 DEF IsMap
  <2> QED
    BY <1>9, <2>1, <2>2
<1>12. Picks({"pid", "pct"}, rows, Some, entries)
  BY <1>4, <1>10, PushedPicks DEF Percents
<1>13. IsMap(entries)
  BY <1>11, <1>12 DEF Picks
<1>14. ASSUME NEW pid \in Nat PROVE Shown(pid) = SumFor(rows, pid, "pct")
  <2>1. \A k \in 1 .. Len(rows) : k \notin Some => rows[k]["pct"] = 0
    BY <1>10 DEF Some, rows
  <2>2. SumFor(entries, pid, "pct") = SumFor(rows, pid, "pct")
    BY <1>12, <2>1 DEF Picks
  <2> QED
    BY <2>2 DEF Shown
<1>15. ASSUME NEW pid \in Nat
       PROVE  LET used == Least(100, (Used(pid) * 100) \div walk.dt)
              IN /\ Shown(pid) <= used
                 /\ PrevNs(pid) > 0 /\ IdsOf(pid, prev_reads) \subseteq Ids(reads) => Shown(pid) = used
  <2> DEFINE now == SumFor(reads, pid, "ns")
             was == PrevNs(pid)
             base == SumFor(Before, pid, "ns")
             used == Least(100, (Used(pid) * 100) \div walk.dt)
             All == IdsOf(pid, prev_reads) \subseteq Ids(reads)
  <2>1. /\ Finds(np, pid, IndexOf(np, pid)) /\ now \in Nat
        /\ IndexOf(np, pid) = 0 => now = 0
        /\ \A k \in 1 .. Len(np) : np[k].pid = pid => np[k].ns = now
    BY <1>2, FrozenSum
  <2>2. was \in Nat /\ was = SumFor(prev_reads, pid, "ns")
    BY <1>7
  <2>3. Before = Kept(prev_reads, Ids(reads))
    BY DEF Before, Kept
  <2>4. base <= now /\ base <= was /\ (All => base = was) /\ base \in Nat
    <3>1. base <= now
      BY <2>3, KeptCovered
    <3>2. base <= was
      BY <2>2, <2>3, KeptLess
    <3>3. ASSUME All PROVE base = was
      <4>1. \A k \in 1 .. Len(prev_reads) : prev_reads[k].pid = pid => prev_reads[k].id \in Ids(reads)
        BY <3>3 DEF IdsOf
      <4> QED
        BY <2>2, <2>3, <4>1, KeptLess
    <3>4. base \in Nat
      <4>1. Before \in Seq(Readings) /\ "pid" \in Facts /\ "ns" \in Facts
        BY <2>3, KeptReadings DEF Facts
      <4> QED
        BY <4>1, SumIsWeight DEF Readings
    <3> QED
      BY <3>1, <3>2, <3>3, <3>4
  <2>5. used = Least(100, Quotient((now - base) * 100, dt))
    BY DEF Used, Quotient, dt
  <2>6. Shown(pid) = IF was = 0 \/ now <= was THEN 0 ELSE Least(100, Quotient((now - was) * 100, dt))
    <3> DEFINE x == IndexOf(np, pid)
    <3>1. CASE x = 0
      <4>1. \A k \in 1 .. Len(rows) : Part(rows[k], pid, "pct") = 0
        BY <1>9, <1>10, <2>1, <3>1 DEF Finds, Part
      <4>2. SumFor(rows, pid, "pct") = 0
        BY <1>10, <4>1, SumNone DEF Percents
      <4>3. now = 0 /\ now <= was
        BY <2>1, <2>2, <3>1
      <4> QED
        BY <1>14, <4>2, <4>3
    <3>2. CASE x # 0
      <4>1. x \in 1 .. Len(np) /\ np[x].pid = pid
        BY <2>1, <3>2 DEF Finds
      <4> HIDE DEF x
      <4>2. np[x].ns = now /\ x \in 1 .. Len(rows) /\ rows[x].pid = pid
        BY <1>9, <1>10, <2>1, <4>1
      <4>3. rows[x].pct = compute_pct(was, now, dt)
        BY <1>9, <4>1, <4>2
      <4>4. SumFor(rows, rows[x].pid, "pct") = rows[x]["pct"]
        BY <1>10, <1>11, <4>2, SumOnly DEF Percents
      <4>5. compute_pct(was, now, dt) = IF was = 0 \/ now <= was THEN 0 ELSE Least(100, Quotient((now - was) * 100, dt))
        BY <1>8, <2>1, <2>2
      <4> QED
        BY <1>14, <4>2, <4>3, <4>4, <4>5
    <3> QED
      BY <3>1, <3>2
  <2> HIDE DEF now, was, base, used, All
  <2> DEFINE b == (now - base) * 100
             a == (now - was) * 100
  <2>7. b \in Nat /\ (now > was => a \in Nat /\ a <= b)
    BY <2>1, <2>2, <2>4
  <2>8. base = was => a = b
    OBVIOUS
  <2>9. Quotient(b, dt) \in Nat /\ (b = 0 => Quotient(b, dt) = 0)
    <3>1. b <= b
      BY <2>7
    <3> HIDE DEF a, b
    <3>2. Quotient(b, dt) \in Nat
      BY <1>1, <2>7, <3>1, Quotients
    <3>3. 0 \div dt = 0
      BY <1>1
    <3> QED
      BY <3>2, <3>3 DEF Quotient
  <2>10. now > was => Quotient(a, dt) \in Nat /\ Quotient(a, dt) <= Quotient(b, dt)
    <3> HIDE DEF a, b
    <3> QED
      BY <1>1, <2>7, Quotients
  <2>11. now <= was /\ base = was => b = 0
    BY <2>1, <2>2, <2>4
  <2> HIDE DEF a, b
  <2>12. used = Least(100, Quotient(b, dt))
    BY <2>5 DEF b
  <2>13. Shown(pid) = IF was = 0 \/ now <= was THEN 0 ELSE Least(100, Quotient(a, dt))
    BY <2>6 DEF a
  <2>14. Shown(pid) <= used
    BY <2>1, <2>2, <2>9, <2>10, <2>12, <2>13 DEF Least
  <2>15. ASSUME was > 0, All PROVE Shown(pid) = used
    <3>1. base = was
      BY <2>4, <2>15
    <3> QED
      BY <2>1, <2>2, <2>8, <2>9, <2>11, <2>12, <2>13, <2>15, <3>1 DEF Least
  <2> QED
    BY <2>14, <2>15 DEF used, was, All
<1> QED
  BY <1>13, <1>15

(* Clients are numbered as they are opened, one number to a client.        *)
ClientRecs == [id : Nat, pid : Nat, since : Nat, ns : Nat]

Numbers ==
  /\ clock \in Nat /\ opened \in Nat /\ clients \in [Slots -> ClientRecs]
  /\ \A s \in Slots : clients[s].id <= opened /\ (clients[s] # Free => clients[s].id > 0)
  /\ \A s, t \in Slots : clients[s].id = clients[t].id /\ clients[s].id > 0 => s = t

(* The slots that the walk has still to read.                              *)
Left == walk.todo \cup (IF walk.pc = "props" THEN {walk.slot} ELSE {})

WalkOK ==
  /\ walk.agx \in Nat /\ walk.todo \in SUBSET Slots /\ walk.at \in Nat /\ walk.dt \in Nat
  /\ walk.pc = "props" => walk.slot \in Slots /\ walk.slot \notin walk.todo
  /\ walk.pc \notin {"init", "count", "counted", "idle"} => walk.dt > 0
  /\ walk.pc \in {"stats", "children", "next_child", "props"} => walk.agx > 0
  /\ walk.pc = "next_agx" /\ walk.agx = 0 => reads = <<>>
  /\ walk.pc \in {"stats", "children"} /\ walk.agx = 1 => reads = <<>>

(* Readings of clients, once of each; a client still open goes on.         *)
GoodReads(r) ==
  /\ r \in Seq(Readings) /\ Once(r)
  /\ \A k \in 1 .. Len(r) : 0 < r[k].id /\ r[k].id <= opened
  /\ \A k \in 1 .. Len(r), s \in Slots :
       clients[s].id = r[k].id => clients[s].pid = r[k].pid /\ r[k].ns <= clients[s].ns

ReadOnce == \A k \in 1 .. Len(reads), s \in Left : clients[s].id # reads[k].id

UInv ==
  /\ DOMAIN walk = DOMAIN NoWalk /\ Numbers /\ WalkOK
  /\ GoodReads(reads) /\ GoodReads(prev_reads) /\ GoesOn(prev_reads, reads) /\ ReadOnce
  /\ Freezes(Facts, prev_reads, prev, {"ns"})
  /\ walk.pc = "done" => entries = Results

LEMMA Fields8 == DOMAIN NoWalk = {"pc", "agx", "todo", "slot", "at", "dt", "n_gpus", "room"}
BY DEF NoWalk

LEMMA FreeClient == Free \in ClientRecs /\ Free.id = 0 /\ Free.pid = 0 /\ Free.ns = 0
BY DEF Free, ClientRecs

(* A step of the walk that reads nothing.                                  *)
LEMMA OnlyWalk ==
  ASSUME UInv, UNCHANGED Rest, DOMAIN walk' = DOMAIN NoWalk, WalkOK', ReadOnce', walk'.pc # "done"
  PROVE  UInv'
<1>1. UNCHANGED <<clock, clients, opened, reads, prev, prev_reads, entries>>
  BY DEF Rest, kernel
<1>2. Numbers' /\ GoodReads(reads)' /\ GoodReads(prev_reads)' /\ GoesOn(prev_reads, reads)'
  BY <1>1 DEF UInv, Numbers, GoodReads, GoesOn
<1>3. Freezes(Facts, prev_reads, prev, {"ns"})'
  BY <1>1 DEF UInv
<1> QED
  BY <1>2, <1>3 DEF UInv

(* What the machine does changes no reading.                               *)
LEMMA OnlyKernel ==
  ASSUME UInv, UNCHANGED <<rights, walk, reads, prev, prev_reads, entries>>, Numbers',
         opened <= opened',
         \A s \in Slots : \/ /\ clients'[s].id = clients[s].id /\ clients'[s].pid = clients[s].pid
                             /\ clients[s].ns <= clients'[s].ns
                          \/ clients'[s].id = 0 \/ clients'[s].id > opened
  PROVE  UInv'
<1>1. Numbers /\ Numbers' /\ GoodReads(reads) /\ GoodReads(prev_reads) /\ ReadOnce /\ WalkOK
  BY DEF UInv
<1>2. \A s \in Slots : /\ clients[s] \in ClientRecs /\ clients'[s] \in ClientRecs
                       /\ clients[s].ns \in Nat /\ clients'[s].ns \in Nat
                       /\ clients[s].id \in Nat /\ clients'[s].id \in Nat
  BY <1>1 DEF Numbers, ClientRecs
<1>3. opened \in Nat /\ opened' \in Nat
  BY <1>1 DEF Numbers
<1>4. ASSUME NEW r, GoodReads(r)
      PROVE  /\ \A k \in 1 .. Len(r) : 0 < r[k].id /\ r[k].id <= opened'
             /\ \A k \in 1 .. Len(r), s \in Slots :
                  clients'[s].id = r[k].id => clients'[s].pid = r[k].pid /\ r[k].ns <= clients'[s].ns
  <2>1. \A k \in 1 .. Len(r) : r[k] \in Readings
    BY <1>4 DEF GoodReads
  <2>2. \A k \in 1 .. Len(r) : r[k].id \in Nat /\ r[k].ns \in Nat /\ 0 < r[k].id /\ r[k].id <= opened
    BY <1>4, <2>1, ReadingIs DEF GoodReads
  <2>3. ASSUME NEW k \in 1 .. Len(r), NEW s \in Slots, clients'[s].id = r[k].id
        PROVE  clients'[s].pid = r[k].pid /\ r[k].ns <= clients'[s].ns
    <3>1. clients'[s].id = clients[s].id /\ clients'[s].pid = clients[s].pid /\ clients[s].ns <= clients'[s].ns
      BY <1>2, <1>3, <2>2, <2>3
    <3>2. clients[s].pid = r[k].pid /\ r[k].ns <= clients[s].ns
      BY <1>4, <2>3, <3>1 DEF GoodReads
    <3> QED
      BY <1>2, <2>2, <3>1, <3>2
  <2> QED
    BY <1>3, <2>2, <2>3
<1>5. GoodReads(reads)' /\ GoodReads(prev_reads)'
  <2>1. /\ \A k \in 1 .. Len(reads) : 0 < reads[k].id /\ reads[k].id <= opened'
        /\ \A k \in 1 .. Len(reads), s \in Slots :
             clients'[s].id = reads[k].id => clients'[s].pid = reads[k].pid /\ reads[k].ns <= clients'[s].ns
    BY <1>1, <1>4
  <2>2. /\ \A k \in 1 .. Len(prev_reads) : 0 < prev_reads[k].id /\ prev_reads[k].id <= opened'
        /\ \A k \in 1 .. Len(prev_reads), s \in Slots :
             clients'[s].id = prev_reads[k].id
               => clients'[s].pid = prev_reads[k].pid /\ prev_reads[k].ns <= clients'[s].ns
    BY <1>1, <1>4
  <2>3. /\ reads \in Seq(Readings) /\ Once(reads) /\ prev_reads \in Seq(Readings) /\ Once(prev_reads)
        /\ reads' = reads /\ prev_reads' = prev_reads
    BY <1>1 DEF GoodReads
  <2> QED
    BY <2>1, <2>2, <2>3 DEF GoodReads
<1>6. ReadOnce'
  <2>1. Left' = Left /\ Left \subseteq Slots
    BY <1>1 DEF Left, WalkOK
  <2>2. ASSUME NEW k \in 1 .. Len(reads), NEW s \in Left PROVE clients'[s].id # reads[k].id
    <3>1. clients[s].id # reads[k].id
      BY <1>1 DEF ReadOnce
    <3>2. reads[k] \in Readings
      BY <1>1 DEF GoodReads
    <3>3. reads[k].id \in Nat /\ 0 < reads[k].id /\ reads[k].id <= opened
      BY <1>1, <3>2, ReadingIs DEF GoodReads
    <3> QED
      BY <1>2, <1>3, <2>1, <3>1, <3>3
  <2> QED
    BY <2>1, <2>2 DEF ReadOnce
<1>7. WalkOK' /\ DOMAIN walk' = DOMAIN NoWalk
  BY <1>1 DEF UInv, WalkOK
<1>8. GoesOn(prev_reads, reads)' /\ Freezes(Facts, prev_reads, prev, {"ns"})'
  BY DEF UInv, GoesOn
<1>9. walk'.pc = "done" => entries' = Results'
  BY DEF UInv, Results, PercentRows, PrevNs
<1> QED
  BY <1>1, <1>5, <1>6, <1>7, <1>8, <1>9 DEF UInv

LEMMA ComputeUsage == ASSUME UInv, Compute PROVE UInv'
<1>1. PICK busy \in SUBSET {s \in Slots : clients[s] # Free} :
        clients' = [s \in Slots |-> IF s \in busy THEN [clients[s] EXCEPT !.ns = @ + 1] ELSE clients[s]]
  BY DEF Compute
<1>2. clock' = clock + 1 /\ opened' = opened /\ UNCHANGED <<rights, walk, reads, prev, prev_reads, entries>>
  BY DEF Compute
<1>3. Numbers
  BY DEF UInv
<1>4. ASSUME NEW c \in ClientRecs
      PROVE  LET e == [c EXCEPT !.ns = c.ns + 1]
             IN e \in ClientRecs /\ e.id = c.id /\ e.pid = c.pid /\ e.ns = c.ns + 1 /\ c.ns <= e.ns /\ c.ns <= c.ns
  BY DEF ClientRecs
<1>5. \A s \in Slots : /\ clients'[s] \in ClientRecs /\ clients'[s].id = clients[s].id
                       /\ clients'[s].pid = clients[s].pid /\ clients[s].ns <= clients'[s].ns
                       /\ clients'[s] # Free => (clients'[s] = clients[s] \/ s \in busy)
  <2> SUFFICES ASSUME NEW s \in Slots
               PROVE  /\ clients'[s] \in ClientRecs /\ clients'[s].id = clients[s].id
                      /\ clients'[s].pid = clients[s].pid /\ clients[s].ns <= clients'[s].ns
                      /\ clients'[s] # Free => (clients'[s] = clients[s] \/ s \in busy)
    OBVIOUS
  <2>1. clients[s] \in ClientRecs
    BY <1>3 DEF Numbers
  <2>2. clients'[s] = IF s \in busy THEN [clients[s] EXCEPT !.ns = clients[s].ns + 1] ELSE clients[s]
    BY <1>1
  <2> QED
    BY <1>4, <2>1, <2>2
<1>6. Numbers'
  <2>1. clients' \in [Slots -> ClientRecs]
    BY <1>1, <1>5
  <2>2. \A s \in Slots : clients'[s].id <= opened' /\ (clients'[s] # Free => clients'[s].id > 0)
    BY <1>1, <1>2, <1>3, <1>5 DEF Numbers
  <2>3. clock' \in Nat /\ opened' \in Nat
    BY <1>2, <1>3 DEF Numbers
  <2>4. \A s, t \in Slots : clients'[s].id = clients'[t].id /\ clients'[s].id > 0 => s = t
    BY <1>3, <1>5 DEF Numbers
  <2> QED
    BY <2>1, <2>2, <2>3, <2>4 DEF Numbers
<1>7. opened <= opened'
  BY <1>2, <1>3 DEF Numbers
<1> QED
  BY <1>2, <1>5, <1>6, <1>7, OnlyKernel

LEMMA OpenUsage == ASSUME UInv, NEW s \in Slots, NEW pid \in GpuPids, OpenClient(s, pid) PROVE UInv'
<1> DEFINE c == [id |-> opened + 1, pid |-> pid, since |-> clock, ns |-> 0]
<1>1. /\ opened' = opened + 1 /\ clients' = [clients EXCEPT ![s] = c] /\ clock' = clock
      /\ UNCHANGED <<rights, walk, reads, prev, prev_reads, entries>>
  BY DEF OpenClient
<1>2. Numbers
  BY DEF UInv
<1>3. clock \in Nat /\ opened \in Nat /\ clients \in [Slots -> ClientRecs] /\ pid \in Nat
  BY <1>2, AgxAssumption DEF Numbers, AgxAssumption
<1>4. c \in ClientRecs /\ c.id = opened + 1 /\ c.id \in Nat /\ c.id > opened
  BY <1>3 DEF ClientRecs
<1> HIDE DEF c
<1>5. clients' \in [Slots -> ClientRecs] /\ \A t \in Slots : clients'[t] = IF t = s THEN c ELSE clients[t]
  BY <1>1, <1>3, <1>4
<1>6. \A t \in Slots : clients[t].id \in Nat /\ clients[t].id <= opened /\ clients[t].ns \in Nat
  BY <1>2, <1>3 DEF Numbers, ClientRecs
<1>7. Numbers'
  <2>1. opened' \in Nat /\ clock' \in Nat
    BY <1>1, <1>3
  <2>2. \A t \in Slots : clients'[t].id <= opened' /\ (clients'[t] # Free => clients'[t].id > 0)
    BY <1>1, <1>2, <1>3, <1>4, <1>5, <1>6 DEF Numbers
  <2>3. \A t, u \in Slots : clients'[t].id = clients'[u].id /\ clients'[t].id > 0 => t = u
    BY <1>2, <1>3, <1>4, <1>5, <1>6 DEF Numbers
  <2> QED
    BY <1>5, <2>1, <2>2, <2>3 DEF Numbers
<1>8. opened <= opened'
  BY <1>1, <1>3
<1>9. \A t \in Slots : \/ /\ clients'[t].id = clients[t].id /\ clients'[t].pid = clients[t].pid
                          /\ clients[t].ns <= clients'[t].ns
                       \/ clients'[t].id = 0 \/ clients'[t].id > opened
  BY <1>4, <1>5, <1>6
<1> QED
  BY <1>1, <1>7, <1>8, <1>9, OnlyKernel

LEMMA CloseUsage == ASSUME UInv, NEW s \in Slots, CloseClient(s) PROVE UInv'
<1>1. /\ opened' = opened /\ clients' = [clients EXCEPT ![s] = Free] /\ clock' = clock
      /\ UNCHANGED <<rights, walk, reads, prev, prev_reads, entries>>
  BY DEF CloseClient
<1>2. Numbers
  BY DEF UInv
<1>3. clock \in Nat /\ opened \in Nat /\ clients \in [Slots -> ClientRecs]
  BY <1>2 DEF Numbers
<1>5. clients' \in [Slots -> ClientRecs] /\ \A t \in Slots : clients'[t] = IF t = s THEN Free ELSE clients[t]
  BY <1>1, <1>3, FreeClient
<1>6. \A t \in Slots : clients[t].id \in Nat /\ clients[t].id <= opened /\ clients[t].ns \in Nat
  BY <1>2, <1>3 DEF Numbers, ClientRecs
<1>7. Numbers'
  <2>1. \A t \in Slots : clients'[t].id <= opened' /\ (clients'[t] # Free => clients'[t].id > 0)
    BY <1>1, <1>2, <1>3, <1>5, <1>6, FreeClient DEF Numbers
  <2>2. \A t, u \in Slots : clients'[t].id = clients'[u].id /\ clients'[t].id > 0 => t = u
    BY <1>2, <1>3, <1>5, <1>6, FreeClient DEF Numbers
  <2> QED
    BY <1>1, <1>3, <1>5, <2>1, <2>2 DEF Numbers
<1>8. opened <= opened'
  BY <1>1, <1>3
<1>9. \A t \in Slots : \/ /\ clients'[t].id = clients[t].id /\ clients'[t].pid = clients[t].pid
                          /\ clients[t].ns <= clients'[t].ns
                       \/ clients'[t].id = 0 \/ clients'[t].id > opened
  BY <1>5, <1>6, FreeClient
<1> QED
  BY <1>1, <1>7, <1>8, <1>9, OnlyKernel

(* The steps of the walk that read no client.                              *)
LEMMA WalkUsage ==
  ASSUME UInv, NextAgx \/ LastAgx \/ Stats \/ Children \/ NoChildren \/ NextChild \/ LastChild \/ SkipChild
  PROVE  UInv'
<1>1. UNCHANGED Rest /\ DOMAIN walk = DOMAIN NoWalk /\ WalkOK /\ ReadOnce
      /\ UNCHANGED <<clock, clients, opened, reads>>
  BY DEF UInv, NextAgx, LastAgx, Stats, Children, NoChildren, NextChild, LastChild, SkipChild, Rest, kernel
<1>2. /\ "pc" \in DOMAIN walk /\ "agx" \in DOMAIN walk /\ "todo" \in DOMAIN walk /\ "slot" \in DOMAIN walk
      /\ "at" \in DOMAIN walk /\ "dt" \in DOMAIN walk
  BY <1>1, Fields8
<1>3. walk.agx \in Nat
  BY <1>1 DEF WalkOK
<1> SUFFICES DOMAIN walk' = DOMAIN NoWalk /\ WalkOK' /\ ReadOnce' /\ walk'.pc # "done"
  BY <1>1, OnlyWalk
<1>4. CASE NextAgx
  <2>1. walk.pc = "next_agx" /\ walk' = [walk EXCEPT !.pc = "stats", !.agx = walk.agx + 1]
    BY <1>4 DEF NextAgx, At
  <2>2. /\ DOMAIN walk' = DOMAIN walk /\ walk'.pc = "stats" /\ walk'.agx = walk.agx + 1
        /\ walk'.todo = walk.todo /\ walk'.at = walk.at /\ walk'.dt = walk.dt
    BY <1>2, <2>1
  <2> QED
    BY <1>1, <1>3, <2>1, <2>2 DEF WalkOK, ReadOnce, Left
<1>5. CASE LastAgx \/ Stats \/ NoChildren
  <2>1. \/ walk.pc = "next_agx" /\ walk' = [walk EXCEPT !.pc = "freeze"]
        \/ walk.pc = "stats" /\ walk' = [walk EXCEPT !.pc = "children"]
        \/ walk.pc = "children" /\ walk' = [walk EXCEPT !.pc = "next_agx"]
    BY <1>5 DEF LastAgx, Stats, NoChildren, At, Goto
  <2>2. /\ DOMAIN walk' = DOMAIN walk /\ walk'.agx = walk.agx
        /\ walk'.todo = walk.todo /\ walk'.at = walk.at /\ walk'.dt = walk.dt
        /\ \/ walk.pc = "next_agx" /\ walk'.pc = "freeze"
           \/ walk.pc = "stats" /\ walk'.pc = "children"
           \/ walk.pc = "children" /\ walk'.pc = "next_agx"
    BY <1>2, <2>1
  <2> QED
    BY <1>1, <1>3, <2>2 DEF WalkOK, ReadOnce, Left
<1>6. CASE Children
  <2> DEFINE todo == IF walk.agx = 1 THEN {s \in Slots : clients[s] # Free} ELSE {}
  <2>1. walk.pc = "children" /\ walk' = [walk EXCEPT !.pc = "next_child", !.todo = todo]
    BY <1>6 DEF Children, At
  <2>2. todo \in SUBSET Slots /\ (todo # {} => reads = <<>>)
    BY <1>1, <2>1 DEF WalkOK
  <2> HIDE DEF todo
  <2>3. /\ DOMAIN walk' = DOMAIN walk /\ walk'.pc = "next_child" /\ walk'.agx = walk.agx
        /\ walk'.todo = todo /\ walk'.at = walk.at /\ walk'.dt = walk.dt
    BY <1>2, <2>1
  <2>4. WalkOK'
    BY <1>1, <1>3, <2>1, <2>2, <2>3 DEF WalkOK
  <2>5. Left' = todo
    BY <2>3 DEF Left
  <2>6. ReadOnce'
    <3>1. Len(<<>>) = 0
      OBVIOUS
    <3> QED
      BY <1>1, <2>2, <2>5, <3>1 DEF ReadOnce
  <2> QED
    BY <1>1, <2>3, <2>4, <2>6
<1>7. CASE NextChild
  <2>1. PICK s \in walk.todo :
          walk' = [walk EXCEPT !.pc = "props", !.slot = s, !.todo = walk.todo \ {s}]
    BY <1>7 DEF NextChild
  <2>2. /\ DOMAIN walk' = DOMAIN walk /\ walk'.pc = "props" /\ walk'.agx = walk.agx /\ walk'.slot = s
        /\ walk'.todo = walk.todo \ {s} /\ walk'.at = walk.at /\ walk'.dt = walk.dt
    BY <1>2, <2>1
  <2>3. walk.pc = "next_child"
    BY <1>7 DEF NextChild, At
  <2>4. WalkOK'
    BY <1>1, <1>3, <2>2, <2>3 DEF WalkOK
  <2>5. Left' = Left
    BY <2>2, <2>3 DEF Left
  <2> QED
    BY <1>1, <2>2, <2>4, <2>5 DEF ReadOnce
<1>8. CASE LastChild
  <2>1. walk.pc = "next_child" /\ walk' = [walk EXCEPT !.pc = "next_agx", !.todo = {}]
    BY <1>8 DEF LastChild, At
  <2>2. /\ DOMAIN walk' = DOMAIN walk /\ walk'.pc = "next_agx" /\ walk'.agx = walk.agx
        /\ walk'.todo = {} /\ walk'.at = walk.at /\ walk'.dt = walk.dt
    BY <1>2, <2>1
  <2> QED
    BY <1>1, <1>3, <2>1, <2>2 DEF WalkOK, ReadOnce, Left
<1>9. CASE SkipChild
  <2>1. walk.pc = "props" /\ walk' = [walk EXCEPT !.pc = "next_child", !.slot = 0]
    BY <1>9 DEF SkipChild, NextToRead, At
  <2>2. /\ DOMAIN walk' = DOMAIN walk /\ walk'.pc = "next_child" /\ walk'.agx = walk.agx
        /\ walk'.todo = walk.todo /\ walk'.at = walk.at /\ walk'.dt = walk.dt
    BY <1>2, <2>1
  <2> QED
    BY <1>1, <1>3, <2>1, <2>2 DEF WalkOK, ReadOnce, Left
<1> QED
  BY <1>4, <1>5, <1>6, <1>7, <1>8, <1>9

LEMMA ReadUsage == ASSUME UInv, ReadChild PROVE UInv'
<1> DEFINE c == clients[walk.slot]
           e == [pid |-> c.pid, ns |-> c.ns, id |-> c.id, since |-> c.since]
           L == Len(reads)
<1>1. /\ walk.pc = "props" /\ c # Free /\ walk' = [walk EXCEPT !.pc = "next_child", !.slot = 0]
      /\ reads' = (IF Len(reads) < walk.room THEN Append(reads, e) ELSE reads)
      /\ UNCHANGED <<clock, clients, opened, prev, prev_reads, entries>>
  BY DEF ReadChild, NextToRead, At, kernel
<1>2. Numbers /\ WalkOK /\ GoodReads(reads) /\ GoodReads(prev_reads) /\ GoesOn(prev_reads, reads) /\ ReadOnce
      /\ DOMAIN walk = DOMAIN NoWalk
  BY DEF UInv
<1>3. walk.slot \in Slots /\ walk.slot \notin walk.todo /\ c \in ClientRecs /\ opened \in Nat
      /\ walk.todo \in SUBSET Slots
  BY <1>1, <1>2 DEF WalkOK, Numbers
<1>4. c.id \in Nat /\ c.pid \in Nat /\ c.ns \in Nat /\ c.since \in Nat /\ 0 < c.id /\ c.id <= opened
  BY <1>1, <1>2, <1>3 DEF Numbers, ClientRecs
<1>5. e \in Readings /\ e.pid = c.pid /\ e.ns = c.ns /\ e.id = c.id
  BY <1>4, ReadingOf
<1> HIDE DEF e
<1>6. /\ DOMAIN walk' = DOMAIN walk /\ walk'.pc = "next_child" /\ walk'.agx = walk.agx
      /\ walk'.todo = walk.todo /\ walk'.at = walk.at /\ walk'.dt = walk.dt
  <2>1. /\ "pc" \in DOMAIN walk /\ "agx" \in DOMAIN walk /\ "todo" \in DOMAIN walk /\ "slot" \in DOMAIN walk
        /\ "at" \in DOMAIN walk /\ "dt" \in DOMAIN walk
    BY <1>2, Fields8
  <2> QED
    BY <1>1, <2>1
<1>7. WalkOK' /\ Left' = walk.todo /\ Left = walk.todo \cup {walk.slot}
  BY <1>1, <1>2, <1>6 DEF WalkOK, Left
<1>8. reads \in Seq(Readings) /\ L \in Nat
  BY <1>2 DEF GoodReads
<1> HIDE DEF L
<1>9. \A k \in 1 .. L : reads[k].id # c.id
  BY <1>2, <1>7 DEF ReadOnce, L
<1>10. \A s \in walk.todo : clients[s].id # c.id
  BY <1>2, <1>3, <1>4 DEF Numbers
<1> HIDE DEF c
<1>11. reads' \in Seq(Readings)
       /\ \A k \in 1 .. Len(reads') : (k \in 1 .. L /\ reads'[k] = reads[k]) \/ (k = L + 1 /\ reads'[k] = e)
  <2>1. CASE Len(reads) < walk.room
    <3>1. reads' = Append(reads, e)
      BY <1>1, <2>1
    <3>2. /\ Append(reads, e) \in Seq(Readings) /\ Len(Append(reads, e)) = L + 1
          /\ Append(reads, e)[L + 1] = e /\ \A k \in 1 .. L : Append(reads, e)[k] = reads[k]
      BY <1>5, <1>8 DEF L
    <3>3. \A k \in 1 .. L + 1 : k \in 1 .. L \/ k = L + 1
      BY <1>8
    <3>4. reads' \in Seq(Readings) /\ Len(reads') = L + 1 /\ reads'[L + 1] = e
          /\ \A k \in 1 .. L : reads'[k] = reads[k]
      BY <3>1, <3>2
    <3>5. ASSUME NEW k \in 1 .. Len(reads')
          PROVE  (k \in 1 .. L /\ reads'[k] = reads[k]) \/ (k = L + 1 /\ reads'[k] = e)
      <4>1. k \in 1 .. L \/ k = L + 1
        BY <3>3, <3>4
      <4> QED
        BY <3>4, <4>1
    <3> QED
      BY <3>4, <3>5
  <2>2. CASE ~(Len(reads) < walk.room)
    <3>1. reads' = reads /\ Len(reads) = L
      BY <1>1, <2>2 DEF L
    <3>2. ASSUME NEW k \in 1 .. Len(reads') PROVE k \in 1 .. L /\ reads'[k] = reads[k]
      BY <3>1
    <3> QED
      BY <1>8, <3>1, <3>2
  <2> QED
    BY <2>1, <2>2
<1>12. GoodReads(reads)'
  <2>1. Once(reads')
    <3> SUFFICES ASSUME NEW a \in 1 .. Len(reads'), NEW b \in 1 .. Len(reads'), reads'[a].id = reads'[b].id
                 PROVE  a = b
      BY DEF Once
    <3>1. \A j, k \in 1 .. L : reads[j].id = reads[k].id => j = k
      BY <1>2 DEF GoodReads, Once, L
    <3> QED
      BY <1>5, <1>9, <1>11, <3>1
  <2>2. \A k \in 1 .. Len(reads') : 0 < reads'[k].id /\ reads'[k].id <= opened'
    BY <1>1, <1>2, <1>4, <1>5, <1>11 DEF GoodReads, L
  <2>3. ASSUME NEW k \in 1 .. Len(reads'), NEW s \in Slots, clients[s].id = reads'[k].id
        PROVE  clients[s].pid = reads'[k].pid /\ reads'[k].ns <= clients[s].ns
    <3>1. CASE k \in 1 .. L /\ reads'[k] = reads[k]
      BY <1>2, <2>3, <3>1 DEF GoodReads, L
    <3>2. CASE reads'[k] = e
      <4>1. s = walk.slot
        BY <1>2, <1>3, <1>4, <1>5, <2>3, <3>2 DEF Numbers, c
      <4> QED
        BY <1>4, <1>5, <3>2, <4>1 DEF c
    <3> QED
      BY <1>11, <3>1, <3>2
  <2> QED
    BY <1>1, <1>11, <2>1, <2>2, <2>3 DEF GoodReads
<1>13. GoodReads(prev_reads)' /\ Numbers' /\ Freezes(Facts, prev_reads, prev, {"ns"})'
  BY <1>1, <1>2 DEF GoodReads, Numbers, UInv
<1>14. GoesOn(prev_reads, reads)'
  <2> SUFFICES ASSUME NEW k \in 1 .. Len(prev_reads), NEW j \in 1 .. Len(reads'), prev_reads[k].id = reads'[j].id
               PROVE  prev_reads[k].pid = reads'[j].pid /\ prev_reads[k].ns <= reads'[j].ns
    BY <1>1 DEF GoesOn
  <2>1. CASE j \in 1 .. L /\ reads'[j] = reads[j]
    BY <1>2, <2>1 DEF GoesOn, L
  <2>2. CASE reads'[j] = e
    <3>1. clients[walk.slot].id = prev_reads[k].id
      BY <1>5, <2>2 DEF c
    <3>2. clients[walk.slot].pid = prev_reads[k].pid /\ prev_reads[k].ns <= clients[walk.slot].ns
      BY <1>2, <1>3, <3>1 DEF GoodReads
    <3> QED
      BY <1>5, <2>2, <3>2 DEF c
  <2> QED
    BY <1>11, <2>1, <2>2
<1>15. ReadOnce'
  <2> SUFFICES ASSUME NEW k \in 1 .. Len(reads'), NEW s \in walk.todo PROVE clients[s].id # reads'[k].id
    BY <1>1, <1>7 DEF ReadOnce
  <2>1. CASE k \in 1 .. L /\ reads'[k] = reads[k]
    BY <1>2, <1>7, <2>1 DEF ReadOnce, L
  <2>2. CASE reads'[k] = e
    BY <1>5, <1>10, <2>2
  <2> QED
    BY <1>11, <2>1, <2>2
<1> QED
  BY <1>2, <1>6, <1>7, <1>12, <1>13, <1>14, <1>15 DEF UInv

LEMMA NothingRead ==
  /\ <<>> \in Seq(Readings) /\ Once(<<>>) /\ Len(<<>>) = 0
  /\ Freezes(Facts, <<>>, <<>>, {"ns"})
  /\ \A t : GoesOn(t, <<>>) /\ GoesOn(<<>>, t)
<1>1. <<>> \in Seq(Readings) /\ Len(<<>>) = 0 /\ <<>> \in Seq(Entries(Facts))
  OBVIOUS
<1>2. \A k \in 1 .. Len(<<>>) : FALSE
  BY <1>1
<1>3. IsMap(<<>>)
  BY <1>1 DEF IsMap
<1> QED
  BY <1>1, <1>2, <1>3 DEF Once, GoesOn, Freezes

LEMMA AfreshUsage ==
  /\ DOMAIN Afresh = DOMAIN NoWalk /\ Afresh.pc = "idle" /\ Afresh.agx = 0
  /\ Afresh.todo = {} /\ Afresh.at = walk.at /\ Afresh.dt = 0
BY DEF Afresh, NoWalk

LEMMA CountUsage == ASSUME UInv, Count PROVE UInv'
<1>1. DOMAIN walk = DOMAIN NoWalk /\ WalkOK /\ ReadOnce
  BY DEF UInv
<1>2. /\ walk' = [walk EXCEPT !.pc = walk'.pc] \/ walk' = [walk EXCEPT !.pc = "count", !.n_gpus = walk.n_gpus + 1]
      /\ walk.pc \in {"init", "count", "counted"} /\ walk'.pc \in {"count", "counted", "idle"}
      /\ UNCHANGED Rest
  BY <1>1, Fields8 DEF Count, CountBegin, CountFails, CountNext, CountOne, CountEnd, At, Goto
<1>3. /\ DOMAIN walk' = DOMAIN NoWalk /\ walk'.agx = walk.agx /\ walk'.todo = walk.todo
      /\ walk'.at = walk.at /\ walk'.dt = walk.dt
  BY <1>1, <1>2, Fields8
<1>4. WalkOK'
  BY <1>1, <1>2, <1>3 DEF WalkOK
<1>5. Left' = Left
  BY <1>2, <1>3 DEF Left
<1>6. ReadOnce'
  BY <1>1, <1>2, <1>5 DEF ReadOnce, Rest, kernel
<1> QED
  BY <1>2, <1>3, <1>4, <1>6, OnlyWalk

(* The tick begins, or ends at once, and nothing is read of a client yet.  *)
LEMMA BeginUsage == ASSUME UInv, EmptyTick \/ Begin \/ BeginFails PROVE UInv'
<1>1. Numbers /\ WalkOK /\ GoodReads(reads) /\ GoodReads(prev_reads) /\ ReadOnce
      /\ DOMAIN walk = DOMAIN NoWalk
  BY DEF UInv
<1>2. UNCHANGED <<clock, clients, opened>> /\ clock \in Nat /\ walk.at \in Nat /\ walk.pc = "idle"
  BY <1>1 DEF EmptyTick, Begin, BeginFails, At, kernel, Numbers, WalkOK
<1>3. /\ "pc" \in DOMAIN walk /\ "agx" \in DOMAIN walk /\ "todo" \in DOMAIN walk /\ "slot" \in DOMAIN walk
      /\ "at" \in DOMAIN walk /\ "dt" \in DOMAIN walk
  BY <1>1, Fields8
<1>4. Numbers' /\ \A r : GoodReads(r) => GoodReads(r)'
  BY <1>1, <1>2 DEF Numbers, GoodReads
<1>5. GoodReads(<<>>)' /\ (\A t : GoesOn(t, <<>>) /\ GoesOn(<<>>, t)) /\ Freezes(Facts, <<>>, <<>>, {"ns"})
  BY NothingRead DEF GoodReads
<1>6. CASE Begin
  <2>1. /\ walk' = [walk EXCEPT !.pc = "next_agx", !.agx = 0, !.at = clock, !.dt = clock - walk.at]
        /\ clock - walk.at > 0 /\ reads' = <<>> /\ prev' = prev /\ prev_reads' = prev_reads
    BY <1>6 DEF Begin, Elapsed
  <2>2. /\ DOMAIN walk' = DOMAIN walk /\ walk'.pc = "next_agx" /\ walk'.agx = 0
        /\ walk'.todo = walk.todo /\ walk'.at = clock /\ walk'.dt = clock - walk.at
    BY <1>3, <2>1
  <2>3. clock - walk.at \in Nat
    BY <1>2, <2>1
  <2>4. WalkOK'
    BY <1>1, <1>2, <2>1, <2>2, <2>3 DEF WalkOK
  <2>5. ReadOnce'
    BY <2>1, NothingRead DEF ReadOnce
  <2>6. GoodReads(reads)' /\ GoodReads(prev_reads)'
    BY <1>1, <1>2, <1>5, <2>1 DEF GoodReads
  <2>7. GoesOn(prev_reads, reads)' /\ Freezes(Facts, prev_reads, prev, {"ns"})'
    BY <1>5, <2>1 DEF UInv
  <2> QED
    BY <1>1, <1>4, <2>2, <2>4, <2>5, <2>6, <2>7 DEF UInv
<1>7. CASE EmptyTick \/ BeginFails
  <2>1. /\ walk' = [walk EXCEPT !.at = clock] /\ prev' = <<>> /\ prev_reads' = <<>>
        /\ reads' = reads \/ reads' = <<>>
    BY <1>7 DEF EmptyTick, BeginFails
  <2>2. /\ DOMAIN walk' = DOMAIN walk /\ walk'.pc = walk.pc /\ walk'.agx = walk.agx /\ walk'.slot = walk.slot
        /\ walk'.todo = walk.todo /\ walk'.at = clock /\ walk'.dt = walk.dt
    BY <1>3, <2>1
  <2>3. WalkOK'
    BY <1>1, <1>2, <2>1, <2>2 DEF WalkOK
  <2>4. ReadOnce'
    <3>1. Left' = Left
      BY <2>2 DEF Left
    <3>2. \A k \in 1 .. Len(reads') : k \in 1 .. Len(reads) /\ reads'[k] = reads[k]
      BY <2>1, NothingRead
    <3> QED
      BY <1>1, <1>2, <3>1, <3>2 DEF ReadOnce
  <2>5. GoodReads(reads)' /\ GoodReads(prev_reads)'
    <3>1. ASSUME reads' = reads PROVE GoodReads(reads)'
      BY <1>1, <1>2, <3>1 DEF GoodReads
    <3>2. ASSUME reads' = <<>> PROVE GoodReads(reads)'
      BY <3>2, NothingRead DEF GoodReads
    <3>3. GoodReads(prev_reads)'
      BY <2>1, NothingRead DEF GoodReads
    <3> QED
      BY <2>1, <3>1, <3>2, <3>3
  <2>6. GoesOn(prev_reads, reads)' /\ Freezes(Facts, prev_reads, prev, {"ns"})'
    <3>1. GoesOn(<<>>, reads')
      BY <1>5
    <3> QED
      BY <1>5, <2>1, <3>1
  <2>7. walk'.pc # "done"
    BY <1>2, <2>2
  <2> QED
    BY <1>1, <1>4, <2>2, <2>3, <2>4, <2>5, <2>6, <2>7 DEF UInv
<1> QED
  BY <1>6, <1>7

(* The results of the tick, and its readings become the last ones.         *)
LEMMA FreezeUsage == ASSUME UInv, Freeze PROVE UInv'
<1>1. Numbers /\ WalkOK /\ GoodReads(reads) /\ GoodReads(prev_reads) /\ ReadOnce
      /\ DOMAIN walk = DOMAIN NoWalk
  BY DEF UInv
<1>2. /\ walk.pc = "freeze" /\ walk' = [walk EXCEPT !.pc = "done"]
      /\ UNCHANGED <<clock, clients, opened, reads, prev, prev_reads>>
  BY DEF Freeze, At, Goto, kernel
<1>3. /\ "pc" \in DOMAIN walk /\ "agx" \in DOMAIN walk /\ "todo" \in DOMAIN walk /\ "slot" \in DOMAIN walk
      /\ "at" \in DOMAIN walk /\ "dt" \in DOMAIN walk
  BY <1>1, Fields8
<1>4. /\ DOMAIN walk' = DOMAIN walk /\ walk'.pc = "done" /\ walk'.agx = walk.agx
      /\ walk'.todo = walk.todo /\ walk'.at = walk.at /\ walk'.dt = walk.dt
  BY <1>2, <1>3
<1>5. WalkOK' /\ ReadOnce'
  BY <1>1, <1>2, <1>4 DEF WalkOK, ReadOnce, Left
<1>6. entries' = Results
  BY DEF Freeze, Results, PercentRows
<1>7. Results' = Results
  BY <1>2, <1>4 DEF Results, PercentRows, PrevNs
<1>8. Numbers' /\ GoodReads(reads)' /\ GoodReads(prev_reads)' /\ GoesOn(prev_reads, reads)'
      /\ Freezes(Facts, prev_reads, prev, {"ns"})'
  BY <1>2 DEF UInv, Numbers, GoodReads, GoesOn
<1> QED
  BY <1>1, <1>4, <1>5, <1>6, <1>7, <1>8 DEF UInv

LEMMA RotateUsage == ASSUME UInv, Rotate PROVE UInv'
<1> DEFINE w == Afresh
<1>1. Numbers /\ WalkOK /\ GoodReads(reads)
  BY DEF UInv
<1>2. /\ walk' = w /\ reads' = <<>> /\ prev' = freeze_map(reads, {"ns"}) /\ prev_reads' = reads
      /\ UNCHANGED <<clock, clients, opened>>
  BY DEF Rotate, kernel
<1>3. DOMAIN w = DOMAIN NoWalk /\ w.pc = "idle" /\ w.agx = 0 /\ w.todo = {} /\ w.at = walk.at /\ w.dt = 0
  BY AfreshUsage
<1> HIDE DEF w
<1>4. WalkOK' /\ DOMAIN walk' = DOMAIN NoWalk /\ walk'.pc # "done"
  BY <1>1, <1>2, <1>3 DEF WalkOK
<1>5. ReadOnce'
  BY <1>2, NothingRead DEF ReadOnce
<1>6. GoodReads(reads)'
  BY <1>2, NothingRead DEF GoodReads
<1>7. Numbers' /\ GoodReads(prev_reads)'
  BY <1>1, <1>2 DEF Numbers, GoodReads
<1>8. GoesOn(prev_reads, reads)'
  <2>1. GoesOn(reads, <<>>)
    BY NothingRead
  <2> QED
    BY <1>2, <2>1
<1>9. Freezes(Facts, prev_reads, prev, {"ns"})'
  <2>1. "pid" \in Facts /\ {"ns"} \in SUBSET (Facts \ {"pid"}) /\ reads \in Seq(Entries(Facts))
    BY <1>1 DEF Facts, GoodReads, Readings
  <2>2. Freezes(Facts, reads, freeze_map(reads, {"ns"}), {"ns"})
    BY <2>1, FreezeMapFreezes
  <2> QED
    BY <1>2, <2>2
<1> QED
  BY <1>4, <1>5, <1>6, <1>7, <1>8, <1>9 DEF UInv

LEMMA UInitInv == AInit("init") => UInv
<1> SUFFICES ASSUME AInit("init") PROVE UInv
  OBVIOUS
<1>1. PICK cap \in Rooms : walk = [NoWalk EXCEPT !.pc = "init", !.room = cap]
  BY DEF AInit
<1>2. /\ DOMAIN walk = DOMAIN NoWalk /\ walk.pc = "init" /\ walk.agx = 0 /\ walk.todo = {}
      /\ walk.at = 0 /\ walk.dt = 0
  BY <1>1 DEF NoWalk
<1>3. /\ clock = 0 /\ clients = [s \in Slots |-> Free] /\ opened = 0
      /\ reads = <<>> /\ prev = <<>> /\ prev_reads = <<>>
  BY DEF AInit
<1>4. Numbers
  <2>1. clients \in [Slots -> ClientRecs] /\ \A s \in Slots : clients[s] = Free
    BY <1>3, FreeClient
  <2> QED
    BY <1>3, <2>1, FreeClient DEF Numbers
<1>5. WalkOK /\ Left = {}
  BY <1>2 DEF WalkOK, Left
<1>6. ReadOnce
  BY <1>5 DEF ReadOnce
<1>7. GoodReads(<<>>)
  BY NothingRead DEF GoodReads
<1> QED
  BY <1>2, <1>3, <1>4, <1>5, <1>6, <1>7, NothingRead DEF UInv

LEMMA UNextInv == UInv /\ [ANext]_avars => UInv'
<1> SUFFICES ASSUME UInv, [ANext]_avars PROVE UInv'
  OBVIOUS
<1>1. CASE Machine
  BY <1>1, ComputeUsage, OpenUsage, CloseUsage DEF Machine
<1>2. CASE Populate
  BY <1>2, BeginUsage, WalkUsage, ReadUsage, FreezeUsage, RotateUsage DEF Populate
<1>3. CASE UNCHANGED avars
  <2>1. UNCHANGED <<clock, clients, opened, walk, reads, prev, prev_reads, entries>>
    BY <1>3 DEF avars, kernel
  <2>2. Numbers' /\ WalkOK' /\ ReadOnce' /\ GoodReads(reads)' /\ GoodReads(prev_reads)'
        /\ GoesOn(prev_reads, reads)' /\ Freezes(Facts, prev_reads, prev, {"ns"})' /\ Results' = Results
    BY <2>1 DEF UInv, Numbers, WalkOK, ReadOnce, Left, GoodReads, GoesOn, Results, PercentRows, PrevNs
  <2> QED
    BY <2>1, <2>2 DEF UInv
<1> QED
  BY <1>1, <1>2, <1>3, CountUsage DEF ANext

LEMMA UInvHonest == UInv => UsageHonest
<1> SUFFICES ASSUME UInv PROVE UsageHonest
  OBVIOUS
<1>1. IsMap(prev)
  BY DEF UInv, Freezes
<1>2. ASSUME At("done")
      PROVE  /\ IsMap(entries)
             /\ \A pid \in Nat :
                  LET used == Least(100, (Used(pid) * 100) \div walk.dt)
                  IN /\ Shown(pid) <= used
                     /\ PrevNs(pid) > 0 /\ IdsOf(pid, prev_reads) \subseteq Ids(reads) => Shown(pid) = used
  <2>1. walk.pc = "done" /\ walk.dt \in Nat \ {0} /\ entries = Results
    BY <1>2 DEF At, UInv, WalkOK
  <2>2. /\ reads \in Seq(Readings) /\ prev_reads \in Seq(Readings) /\ Once(prev_reads)
        /\ Freezes(Facts, prev_reads, prev, {"ns"}) /\ GoesOn(prev_reads, reads)
    BY DEF UInv, GoodReads
  <2> QED
    BY <2>1, <2>2, Honest
<1>3. GpuPids \subseteq Nat
  BY AgxAssumption DEF AgxAssumption
<1> QED
  BY <1>1, <1>2, <1>3 DEF UsageHonest

(* Where the last tick missed none of its clients (Followed), a percentage *)
(* of the Apple backend is never more than what the process used between   *)
(* the two readings, and it is less only where a client was closed or      *)
(* could not be read.  populate of src/gpu/agx.rs reads each client once,  *)
(* and freeze_map sums and sorts the readings, so that the maps of two     *)
(* ticks can be compared pid by pid.                                       *)
THEOREM UsageAlwaysHonest == ASpec => []UsageHonest
<1>1. UInv /\ [ANext]_avars => UInv'
  BY UNextInv
<1> QED
  BY UInitInv, <1>1, UInvHonest, PTL DEF ASpec
----------------------------------------------------------------------------
(* The arguments.  The strings of a program lie end to end with a NUL      *)
(* behind each (Lays), so after any number of cells the runs of cells are  *)
(* the strings that have ended, but for empty ones, and at most the        *)
(* beginning of the next (Stands): what is cut off is in the last run, and *)
(* dropped, and the whole region has the path first, then the arguments    *)
(* and the environment.                                                    *)

(* A sequence that begins with another one.                                *)
Begins(s, t) == Len(s) <= Len(t) /\ \A n \in 1 .. Len(s) : t[n] = s[n]

Strings == Seq(Nat)

(* What the loops of Joined, Filled and Runs compute, round by round.      *)
Joining(X, f) ==
  f[0] = <<>> /\ \A n \in 1 .. Len(X) : f[n] = Append(f[n - 1] \o X[n], 0)
Taking(list, s) == IF s = <<>> THEN list ELSE Append(list, s)
Filling(X, f) ==
  f[0] = <<>> /\ \A n \in 1 .. Len(X) : f[n] = Taking(f[n - 1], X[n])
Prior(c, n) == IF n = 1 THEN 0 ELSE c[n - 1]
Running(c, f) ==
  f[0] = <<>> /\ \A n \in 1 .. Len(c) : f[n] = Extended(f[n - 1], Prior(c, n), c[n])

LEMMA JoinedIs ==
  ASSUME NEW X \in Seq(Strings)
  PROVE  \E f \in [0 .. Len(X) -> Strings] : Joining(X, f) /\ Joined(X) = f[Len(X)]
<1> DEFINE L == Len(X)
           S == Strings
           Rule(f) == [n \in 0 .. L |-> IF n = 0 THEN <<>> ELSE Append(f[n - 1] \o X[n], 0)]
           v == CHOOSE f : f = Rule(f)
           g == [n \in 1 .. L |-> [t \in S |-> Append(t \o X[n], 0)]]
<1>1. Joined(X) = v[L]
  BY DEF Joined
<1>2. L \in Nat /\ <<>> \in S /\ \A n \in 1 .. L : X[n] \in S
  BY DEF Strings
<1> HIDE DEF L
<1>3. ASSUME NEW t \in S, NEW n \in 1 .. L PROVE Append(t \o X[n], 0) \in S
  <2>1. X[n] \in Seq(Nat) /\ t \in Seq(Nat) /\ 0 \in Nat
    BY <1>2 DEF Strings
  <2>2. t \o X[n] \in Seq(Nat)
    BY <2>1
  <2> QED
    BY <2>1, <2>2 DEF Strings
<1>4. PICK f \in [0 .. L -> S] : Rounds(f, <<>>, g, L)
  <2>1. g \in [1 .. L -> [S -> S]]
    <3> HIDE DEF S
    <3> QED
      BY <1>3
  <2> HIDE DEF S, g
  <2> QED
    BY <1>2, <2>1, LoopExists
<1>5. f[0] = <<>> /\ \A n \in 1 .. L : n # 0 /\ n \in 0 .. L /\ n - 1 \in 0 .. L /\ f[n] = Append(f[n - 1] \o X[n], 0)
  <2>1. \A n \in 1 .. L : n # 0 /\ n \in 0 .. L /\ n - 1 \in 0 .. L /\ f[n - 1] \in S
    BY <1>2
  <2> HIDE DEF S
  <2> QED
    BY <1>4, <2>1 DEF Rounds
<1>6. f = Rule(f)
  <2>1. \A n \in 0 .. L : f[n] = Rule(f)[n]
    <3>1. 0 \in 0 .. L /\ \A n \in 0 .. L : n = 0 \/ n \in 1 .. L
      BY <1>2
    <3> HIDE DEF S
    <3> QED
      BY <1>5, <3>1
  <2>2. f = [n \in 0 .. L |-> f[n]] /\ Rule(f) = [n \in 0 .. L |-> Rule(f)[n]]
    OBVIOUS
  <2> HIDE DEF Rule, S
  <2> QED
    BY <2>1, <2>2
<1>7. v = Rule(v)
  BY <1>6
<1>8. v[0] = <<>> /\ \A n \in 1 .. L : v[n] = Append(v[n - 1] \o X[n], 0)
  <2>1. 0 \in 0 .. L
    BY <1>2
  <2> HIDE DEF v
  <2> QED
    BY <1>5, <1>7, <2>1
<1> HIDE DEF v, S
<1> DEFINE T == {n \in Nat : n <= L => v[n] \in S}
<1>9. T = Nat
  <2>1. 0 \in T
    BY <1>2, <1>8
  <2>2. ASSUME NEW n \in T PROVE n + 1 \in T
    <3> SUFFICES ASSUME n + 1 <= L PROVE v[n + 1] \in S
      OBVIOUS
    <3>1. n \in Nat /\ n <= L /\ n + 1 \in 1 .. L /\ (n + 1) - 1 = n
      BY <1>2
    <3>2. v[n] \in S
      BY <3>1
    <3> QED
      BY <1>3, <1>8, <3>1, <3>2
  <2> HIDE DEF T
  <2> QED
    BY <2>1, <2>2, Induct DEF T
<1>10. \A n \in 0 .. L : v[n] \in S
  <2>1. \A n \in 0 .. L : n \in T /\ n <= L
    BY <1>2, <1>9
  <2> QED
    BY <2>1
<1>11. v \in [0 .. L -> S]
  <2>1. v = [n \in 0 .. L |-> v[n]]
    <3>1. \A w : Rule(w) = [n \in 0 .. L |-> Rule(w)[n]]
      OBVIOUS
    <3> HIDE DEF Rule
    <3> QED
      BY <1>7, <3>1
  <2> QED
    BY <1>10, <2>1
<1> QED
  BY <1>1, <1>8, <1>11 DEF Joining, L, S

LEMMA FilledIs ==
  ASSUME NEW X \in Seq(Strings)
  PROVE  \E f \in [0 .. Len(X) -> Seq(Strings)] : Filling(X, f) /\ Filled(X) = f[Len(X)]
<1> DEFINE L == Len(X)
           S == Seq(Strings)
           Rule(f) == [n \in 0 .. L |-> IF n = 0 THEN <<>> ELSE IF X[n] = <<>> THEN f[n - 1]
                                        ELSE Append(f[n - 1], X[n])]
           v == CHOOSE f : f = Rule(f)
           g == [n \in 1 .. L |-> [t \in S |-> Taking(t, X[n])]]
<1>1. Filled(X) = v[L]
  BY DEF Filled
<1>2. L \in Nat /\ <<>> \in S /\ \A n \in 1 .. L : X[n] \in Strings
  OBVIOUS
<1> HIDE DEF L
<1>3. ASSUME NEW t \in S, NEW n \in 1 .. L PROVE Taking(t, X[n]) \in S
  <2>1. Append(t, X[n]) \in S
    BY <1>2
  <2> QED
    BY <2>1 DEF Taking
<1> HIDE DEF S
<1>4. PICK f \in [0 .. L -> S] : Rounds(f, <<>>, g, L)
  <2>1. g \in [1 .. L -> [S -> S]]
    BY <1>3
  <2> HIDE DEF g
  <2> QED
    BY <1>2, <2>1, LoopExists
<1>5. f[0] = <<>> /\ \A n \in 1 .. L : n # 0 /\ n \in 0 .. L /\ n - 1 \in 0 .. L /\ f[n] = Taking(f[n - 1], X[n])
  <2>1. \A n \in 1 .. L : n # 0 /\ n \in 0 .. L /\ n - 1 \in 0 .. L /\ f[n - 1] \in S
    BY <1>2
  <2> QED
    BY <1>4, <2>1 DEF Rounds
<1>6. f = Rule(f)
  <2>1. \A n \in 0 .. L : f[n] = Rule(f)[n]
    <3>1. 0 \in 0 .. L /\ \A n \in 0 .. L : n = 0 \/ n \in 1 .. L
      BY <1>2
    <3> QED
      BY <1>5, <3>1 DEF Taking
  <2>2. f = [n \in 0 .. L |-> f[n]] /\ Rule(f) = [n \in 0 .. L |-> Rule(f)[n]]
    OBVIOUS
  <2> HIDE DEF Rule
  <2> QED
    BY <2>1, <2>2
<1>7. v = Rule(v)
  BY <1>6
<1>8. v[0] = <<>> /\ \A n \in 1 .. L : v[n] = Taking(v[n - 1], X[n])
  <2>1. 0 \in 0 .. L
    BY <1>2
  <2> HIDE DEF v
  <2> QED
    BY <1>5, <1>7, <2>1 DEF Taking
<1> HIDE DEF v
<1> DEFINE T == {n \in Nat : n <= L => v[n] \in S}
<1>9. T = Nat
  <2>1. 0 \in T
    BY <1>2, <1>8
  <2>2. ASSUME NEW n \in T PROVE n + 1 \in T
    <3> SUFFICES ASSUME n + 1 <= L PROVE v[n + 1] \in S
      OBVIOUS
    <3>1. n \in Nat /\ n <= L /\ n + 1 \in 1 .. L /\ (n + 1) - 1 = n
      BY <1>2
    <3>2. v[n] \in S
      BY <3>1
    <3> QED
      BY <1>3, <1>8, <3>1, <3>2
  <2> HIDE DEF T
  <2> QED
    BY <2>1, <2>2, Induct DEF T
<1>10. \A n \in 0 .. L : v[n] \in S
  <2>1. \A n \in 0 .. L : n \in T /\ n <= L
    BY <1>2, <1>9
  <2> QED
    BY <2>1
<1>11. v \in [0 .. L -> S]
  <2>1. v = [n \in 0 .. L |-> v[n]]
    <3>1. \A w : Rule(w) = [n \in 0 .. L |-> Rule(w)[n]]
      OBVIOUS
    <3> HIDE DEF Rule
    <3> QED
      BY <1>7, <3>1
  <2> QED
    BY <1>10, <2>1
<1> QED
  BY <1>1, <1>8, <1>11 DEF Filling, L, S

LEMMA ExtendedType ==
  ASSUME NEW runs \in Seq(Strings), NEW before \in Nat, NEW cell \in Nat
  PROVE  Extended(runs, before, cell) \in Seq(Strings)
<1>1. <<cell>> \in Strings
  BY DEF Strings
<1>2. Append(runs, <<cell>>) \in Seq(Strings)
  BY <1>1
<1>3. [runs EXCEPT ![Len(runs)] = Append(runs[Len(runs)], cell)] \in Seq(Strings)
  <2>1. Len(runs) \in 1 .. Len(runs) => Append(runs[Len(runs)], cell) \in Strings
    <3> SUFFICES ASSUME Len(runs) \in 1 .. Len(runs) PROVE Append(runs[Len(runs)], cell) \in Strings
      OBVIOUS
    <3>1. runs[Len(runs)] \in Strings
      OBVIOUS
    <3>2. runs[Len(runs)] \in Seq(Nat)
      BY <3>1 DEF Strings
    <3>3. Append(runs[Len(runs)], cell) \in Seq(Nat)
      BY <3>2
    <3> QED
      BY <3>3 DEF Strings
  <2> DEFINE x == Append(runs[Len(runs)], cell)
  <2> HIDE DEF x
  <2>2. ASSUME Len(runs) \in 1 .. Len(runs) PROVE [runs EXCEPT ![Len(runs)] = x] \in Seq(Strings)
    BY <2>1, <2>2 DEF x
  <2>3. ASSUME Len(runs) \notin 1 .. Len(runs) PROVE [runs EXCEPT ![Len(runs)] = x] = runs
    <3>1. runs = [k \in DOMAIN runs |-> runs[k]] /\ Len(runs) \notin DOMAIN runs
      BY <2>3
    <3> QED
      BY <3>1
  <2> QED
    BY <2>2, <2>3 DEF x
<1> QED
  BY <1>2, <1>3 DEF Extended

LEMMA RunsIs ==
  ASSUME NEW c \in Strings
  PROVE  \E f \in [0 .. Len(c) -> Seq(Strings)] : Running(c, f) /\ Runs(c) = f[Len(c)]
<1> DEFINE L == Len(c)
           S == Seq(Strings)
           Rule(f) == [n \in 0 .. L |-> IF n = 0 THEN <<>>
                                        ELSE Extended(f[n - 1], IF n = 1 THEN 0 ELSE c[n - 1], c[n])]
           v == CHOOSE f : f = Rule(f)
           g == [n \in 1 .. L |-> [t \in S |-> Extended(t, Prior(c, n), c[n])]]
<1>1. Runs(c) = v[L]
  BY DEF Runs
<1>2. L \in Nat /\ <<>> \in S /\ \A n \in 1 .. L : c[n] \in Nat /\ Prior(c, n) \in Nat
  BY DEF Strings, Prior
<1> HIDE DEF L
<1>3. ASSUME NEW t \in S, NEW n \in 1 .. L PROVE Extended(t, Prior(c, n), c[n]) \in S
  BY <1>2, ExtendedType
<1> HIDE DEF S
<1>4. PICK f \in [0 .. L -> S] : Rounds(f, <<>>, g, L)
  <2>1. g \in [1 .. L -> [S -> S]]
    BY <1>3
  <2> HIDE DEF g
  <2> QED
    BY <1>2, <2>1, LoopExists
<1>5. f[0] = <<>> /\ \A n \in 1 .. L : n # 0 /\ n \in 0 .. L /\ n - 1 \in 0 .. L
                                        /\ f[n] = Extended(f[n - 1], Prior(c, n), c[n])
  <2>1. \A n \in 1 .. L : n # 0 /\ n \in 0 .. L /\ n - 1 \in 0 .. L /\ f[n - 1] \in S
    BY <1>2
  <2> QED
    BY <1>4, <2>1 DEF Rounds
<1>6. f = Rule(f)
  <2>1. \A n \in 0 .. L : f[n] = Rule(f)[n]
    <3>1. 0 \in 0 .. L /\ \A n \in 0 .. L : n = 0 \/ n \in 1 .. L
      BY <1>2
    <3> QED
      BY <1>5, <3>1 DEF Prior
  <2>2. f = [n \in 0 .. L |-> f[n]] /\ Rule(f) = [n \in 0 .. L |-> Rule(f)[n]]
    OBVIOUS
  <2> HIDE DEF Rule
  <2> QED
    BY <2>1, <2>2
<1>7. v = Rule(v)
  BY <1>6
<1>8. v[0] = <<>> /\ \A n \in 1 .. L : v[n] = Extended(v[n - 1], Prior(c, n), c[n])
  <2>1. 0 \in 0 .. L
    BY <1>2
  <2> HIDE DEF v
  <2> QED
    BY <1>5, <1>7, <2>1 DEF Prior
<1> HIDE DEF v
<1> DEFINE T == {n \in Nat : n <= L => v[n] \in S}
<1>9. T = Nat
  <2>1. 0 \in T
    BY <1>2, <1>8
  <2>2. ASSUME NEW n \in T PROVE n + 1 \in T
    <3> SUFFICES ASSUME n + 1 <= L PROVE v[n + 1] \in S
      OBVIOUS
    <3>1. n \in Nat /\ n <= L /\ n + 1 \in 1 .. L /\ (n + 1) - 1 = n
      BY <1>2
    <3>2. v[n] \in S
      BY <3>1
    <3> QED
      BY <1>3, <1>8, <3>1, <3>2
  <2> HIDE DEF T
  <2> QED
    BY <2>1, <2>2, Induct DEF T
<1>10. \A n \in 0 .. L : v[n] \in S
  <2>1. \A n \in 0 .. L : n \in T /\ n <= L
    BY <1>2, <1>9
  <2> QED
    BY <2>1
<1>11. v \in [0 .. L -> S]
  <2>1. v = [n \in 0 .. L |-> v[n]]
    <3>1. \A w : Rule(w) = [n \in 0 .. L |-> Rule(w)[n]]
      OBVIOUS
    <3> HIDE DEF Rule
    <3> QED
      BY <1>7, <3>1
  <2> QED
    BY <1>10, <2>1
<1> QED
  BY <1>1, <1>8, <1>11 DEF Running, L, S

(* The strings of X lie end to end in c, the k-th up to o[k].              *)
Lays(X, c, o) ==
  /\ c \in Strings /\ o \in [0 .. Len(X) -> Nat] /\ o[0] = 0 /\ o[Len(X)] = Len(c)
  /\ \A k \in 1 .. Len(X) :
       /\ o[k] = o[k - 1] + Len(X[k]) + 1 /\ o[k] <= Len(c) /\ c[o[k]] = 0
       /\ \A m \in 1 .. Len(X[k]) : c[o[k - 1] + m] = X[k][m]

LEMMA StringIs == ASSUME NEW s \in Strings PROVE s \in Seq(Nat) /\ Len(s) \in Nat /\ \A n \in 1 .. Len(s) : s[n] \in Nat
BY DEF Strings

(* t, then s, then a NUL.                                                  *)
EndsWith(t, s, u) ==
  /\ u \in Strings /\ Len(u) = Len(t) + Len(s) + 1 /\ u[Len(u)] = 0 /\ Begins(t, u)
  /\ \A n \in 1 .. Len(s) : u[Len(t) + n] = s[n]

LEMMA ConcatNul ==
  ASSUME NEW t \in Strings, NEW s \in Strings
  PROVE  EndsWith(t, s, Append(t \o s, 0))
<1>1. t \in Seq(Nat) /\ s \in Seq(Nat) /\ Len(t) \in Nat /\ Len(s) \in Nat
  BY DEF Strings
<1> DEFINE w == t \o s
<1>2. w \in Seq(Nat) /\ Len(w) = Len(t) + Len(s)
      /\ (\A n \in 1 .. Len(t) : w[n] = t[n])
      /\ \A n \in 1 .. Len(s) : w[Len(t) + n] = s[n]
  BY <1>1
<1> HIDE DEF w
<1>3. Append(w, 0) \in Seq(Nat) /\ Len(Append(w, 0)) = Len(w) + 1 /\ Append(w, 0)[Len(w) + 1] = 0
      /\ \A n \in 1 .. Len(w) : Append(w, 0)[n] = w[n]
  BY <1>2
<1> DEFINE u == Append(w, 0)
<1> HIDE DEF u
<1>4. \A n \in 1 .. Len(t) : u[n] = t[n]
  BY <1>1, <1>2, <1>3 DEF u
<1>5. \A n \in 1 .. Len(s) : u[Len(t) + n] = s[n]
  BY <1>1, <1>2, <1>3 DEF u
<1>6. u \in Seq(Nat) /\ Len(u) = Len(t) + Len(s) + 1 /\ u[Len(u)] = 0
  BY <1>1, <1>2, <1>3 DEF u
<1>7. u = Append(t \o s, 0)
  BY DEF u, w
<1> QED
  BY <1>1, <1>4, <1>5, <1>6, <1>7 DEF EndsWith, Begins, Strings

LEMMA JoinedLays ==
  ASSUME NEW X \in Seq(Strings)
  PROVE  \E o : Lays(X, Joined(X), o)
<1> DEFINE L == Len(X)
           c == Joined(X)
<1>1. PICK f \in [0 .. L -> Strings] : Joining(X, f) /\ c = f[L]
  BY JoinedIs
<1>2. L \in Nat /\ (\A k \in 1 .. L : X[k] \in Strings) /\ (\A k \in 0 .. L : f[k] \in Strings)
  BY <1>1
<1>3. f[0] = <<>> /\ \A k \in 1 .. L : f[k] = Append(f[k - 1] \o X[k], 0)
  BY <1>1 DEF Joining
<1> HIDE DEF L, c
<1> DEFINE o == [k \in 0 .. L |-> Len(f[k])]
<1>4. ASSUME NEW k \in 1 .. L
      PROVE  /\ k - 1 \in 0 .. L /\ k \in 0 .. L
             /\ Len(f[k]) = Len(f[k - 1]) + Len(X[k]) + 1 /\ f[k][Len(f[k])] = 0
             /\ Begins(f[k - 1], f[k])
             /\ \A m \in 1 .. Len(X[k]) : f[k][Len(f[k - 1]) + m] = X[k][m]
  <2>1. k - 1 \in 0 .. L /\ k \in 0 .. L /\ f[k - 1] \in Strings /\ X[k] \in Strings
    BY <1>2
  <2>2. f[k] = Append(f[k - 1] \o X[k], 0)
    BY <1>3
  <2>3. EndsWith(f[k - 1], X[k], f[k])
    BY <2>1, <2>2, ConcatNul
  <2> QED
    BY <2>1, <2>3 DEF EndsWith
<1>5. \A k \in 0 .. L : Len(f[k]) \in Nat
  BY <1>2, StringIs
<1> DEFINE T == {k \in Nat : k <= L => \A j \in 0 .. k : Begins(f[j], f[k])}
<1>6. T = Nat
  <2>1. 0 \in T
    <3>1. \A j \in 0 .. 0 : j = 0 /\ j \in 0 .. L
      BY <1>2
    <3>2. Begins(f[0], f[0])
      BY <1>5, <3>1 DEF Begins
    <3> QED
      BY <3>1, <3>2
  <2>2. ASSUME NEW k \in T PROVE k + 1 \in T
    <3> SUFFICES ASSUME k + 1 <= L, NEW j \in 0 .. k + 1 PROVE Begins(f[j], f[k + 1])
      OBVIOUS
    <3>1. k \in Nat /\ k <= L /\ k + 1 \in 1 .. L /\ (k + 1) - 1 = k /\ j \in 0 .. L /\ k \in 0 .. L /\ k + 1 \in 0 .. L
      BY <1>2
    <3>2. Begins(f[k], f[k + 1])
      BY <1>4, <3>1
    <3>3. CASE j = k + 1
      BY <1>5, <3>1, <3>3 DEF Begins
    <3>4. CASE j \in 0 .. k
      <4>1. Begins(f[j], f[k])
        BY <3>1, <3>4
      <4>2. Len(f[j]) \in Nat /\ Len(f[k]) \in Nat /\ Len(f[k + 1]) \in Nat
        BY <1>5, <3>1
      <4> QED
        BY <3>2, <4>1, <4>2 DEF Begins
    <3> QED
      BY <3>1, <3>3, <3>4
  <2> HIDE DEF T
  <2> QED
    BY <2>1, <2>2, Induct DEF T
<1>7. \A k \in 0 .. L : Begins(f[k], c)
  <2>1. L \in T /\ L <= L
    BY <1>2, <1>6
  <2> QED
    BY <1>1, <2>1
<1>8. o \in [0 .. L -> Nat] /\ o[0] = 0 /\ o[L] = Len(c)
  <2>1. 0 \in 0 .. L /\ L \in 0 .. L /\ Len(f[0]) = 0
    BY <1>2, <1>3
  <2> QED
    BY <1>1, <1>5, <2>1
<1>9. ASSUME NEW k \in 1 .. L
      PROVE  /\ o[k] = o[k - 1] + Len(X[k]) + 1 /\ o[k] <= Len(c) /\ c[o[k]] = 0
             /\ \A m \in 1 .. Len(X[k]) : c[o[k - 1] + m] = X[k][m]
  <2>1. k - 1 \in 0 .. L /\ k \in 0 .. L /\ o[k] = Len(f[k]) /\ o[k - 1] = Len(f[k - 1])
    BY <1>4
  <2>2. Len(X[k]) \in Nat /\ Len(f[k]) \in Nat /\ Len(f[k - 1]) \in Nat
    BY <1>2, <1>5, <2>1, StringIs
  <2>3. Begins(f[k], c)
    BY <1>7, <2>1
  <2>4. /\ Len(f[k]) = Len(f[k - 1]) + Len(X[k]) + 1 /\ f[k][Len(f[k])] = 0
        /\ \A m \in 1 .. Len(X[k]) : f[k][Len(f[k - 1]) + m] = X[k][m]
    BY <1>4
  <2> HIDE DEF o
  <2> DEFINE a == Len(f[k - 1])
             b == Len(X[k])
             d == Len(f[k])
  <2>5. a \in Nat /\ b \in Nat /\ d \in Nat /\ d = a + b + 1 /\ f[k][d] = 0
    BY <2>2, <2>4
  <2>6. d <= Len(c) /\ \A n \in 1 .. d : c[n] = f[k][n]
    BY <2>3 DEF Begins
  <2>7. \A m \in 1 .. b : f[k][a + m] = X[k][m]
    BY <2>4
  <2>8. o[k] = d /\ o[k - 1] = a
    BY <2>1
  <2> HIDE DEF a, b, d
  <2>9. c[d] = 0
    BY <2>5, <2>6
  <2>10. ASSUME NEW m \in 1 .. b PROVE c[a + m] = X[k][m]
    <3>1. a + m \in 1 .. d
      BY <2>5
    <3> QED
      BY <2>6, <2>7, <3>1
  <2>11. o[k] = o[k - 1] + b + 1 /\ o[k] <= Len(c) /\ c[o[k]] = 0 /\ \A m \in 1 .. b : c[o[k - 1] + m] = X[k][m]
    BY <2>5, <2>6, <2>8, <2>9, <2>10
  <2> QED
    BY <2>11 DEF b
<1>10. c \in Strings
  <2>1. L \in 0 .. L
    BY <1>2
  <2> QED
    BY <1>1, <1>2, <2>1
<1> HIDE DEF o
<1>11. Lays(X, c, o)
  BY <1>8, <1>9, <1>10 DEF Lays, L
<1> QED
  BY <1>11 DEF c

(* What is filled later begins with what was filled before.                *)
LEMMA FilledBegins ==
  ASSUME NEW X \in Seq(Strings), NEW h \in [0 .. Len(X) -> Seq(Strings)], Filling(X, h)
  PROVE  \A k \in 0 .. Len(X) : Begins(h[k], h[Len(X)])
<1> DEFINE L == Len(X)
<1>1. L \in Nat /\ (\A k \in 0 .. L : h[k] \in Seq(Strings)) /\ (\A k \in 1 .. L : X[k] \in Strings)
  OBVIOUS
<1>2. \A k \in 1 .. L : h[k] = Taking(h[k - 1], X[k])
  BY DEF Filling
<1> HIDE DEF L
<1>3. ASSUME NEW k \in 1 .. L PROVE Begins(h[k - 1], h[k])
  <2>1. k - 1 \in 0 .. L /\ h[k - 1] \in Seq(Strings) /\ X[k] \in Strings
    BY <1>1
  <2>2. h[k] = h[k - 1] \/ h[k] = Append(h[k - 1], X[k])
    BY <1>2 DEF Taking
  <2> DEFINE t == h[k - 1]
  <2> HIDE DEF t
  <2>3. Begins(t, t) /\ Begins(t, Append(t, X[k]))
    BY <2>1 DEF Begins, t
  <2> QED
    BY <2>2, <2>3 DEF t
<1>4. \A k \in 0 .. L : Len(h[k]) \in Nat
  BY <1>1
<1> DEFINE T == {k \in Nat : k <= L => \A j \in 0 .. k : Begins(h[j], h[k])}
<1>5. T = Nat
  <2>1. 0 \in T
    <3>1. \A j \in 0 .. 0 : j = 0 /\ j \in 0 .. L
      BY <1>1
    <3>2. Begins(h[0], h[0])
      BY <1>4, <3>1 DEF Begins
    <3> QED
      BY <3>1, <3>2
  <2>2. ASSUME NEW k \in T PROVE k + 1 \in T
    <3> SUFFICES ASSUME k + 1 <= L, NEW j \in 0 .. k + 1 PROVE Begins(h[j], h[k + 1])
      OBVIOUS
    <3>1. k \in Nat /\ k <= L /\ k + 1 \in 1 .. L /\ (k + 1) - 1 = k /\ j \in 0 .. L /\ k \in 0 .. L /\ k + 1 \in 0 .. L
      BY <1>1
    <3>2. Begins(h[k], h[k + 1])
      BY <1>3, <3>1
    <3>3. CASE j = k + 1
      BY <1>4, <3>1, <3>3 DEF Begins
    <3>4. CASE j \in 0 .. k
      <4>1. Begins(h[j], h[k])
        BY <3>1, <3>4
      <4>2. Len(h[j]) \in Nat /\ Len(h[k]) \in Nat /\ Len(h[k + 1]) \in Nat
        BY <1>4, <3>1
      <4> QED
        BY <3>2, <4>1, <4>2 DEF Begins
    <3> QED
      BY <3>1, <3>3, <3>4
  <2> HIDE DEF T
  <2> QED
    BY <2>1, <2>2, Induct DEF T
<1>6. L \in T /\ L <= L
  BY <1>1, <1>5
<1> QED
  BY <1>6 DEF L

LEMMA CutString ==
  ASSUME NEW s \in Strings, NEW m \in 1 .. Len(s)
  PROVE  /\ SubSeq(s, 1, m) \in Strings /\ Len(SubSeq(s, 1, m)) = m
         /\ (m = Len(s) => SubSeq(s, 1, m) = s)
         /\ (m = 1 => SubSeq(s, 1, m) = <<s[1]>>)
         /\ (m < Len(s) => SubSeq(s, 1, m + 1) = Append(SubSeq(s, 1, m), s[m + 1]))
<1>1. s \in Seq(Nat) /\ Len(s) \in Nat
  BY DEF Strings
<1> DEFINE t == SubSeq(s, 1, m)
<1>2. t \in Seq(Nat) /\ Len(t) = m /\ \A n \in 1 .. m : t[n] = s[n]
  BY <1>1
<1>3. m = Len(s) => t = s
  BY <1>1, <1>2
<1>4. m = 1 => t = <<s[1]>>
  <2> HIDE DEF t
  <2> QED
    BY <1>1, <1>2
<1>5. ASSUME m < Len(s) PROVE SubSeq(s, 1, m + 1) = Append(t, s[m + 1])
  <2> DEFINE u == SubSeq(s, 1, m + 1)
             v == Append(t, s[m + 1])
  <2>1. u \in Seq(Nat) /\ Len(u) = m + 1 /\ \A n \in 1 .. m + 1 : u[n] = s[n]
    BY <1>1, <1>5
  <2>2. s[m + 1] \in Nat
    BY <1>1, <1>5
  <2> HIDE DEF t, u
  <2>3. v \in Seq(Nat) /\ Len(v) = m + 1 /\ v[m + 1] = s[m + 1] /\ \A n \in 1 .. m : v[n] = t[n]
    BY <1>2, <2>2
  <2> HIDE DEF v
  <2>4. \A n \in 1 .. m + 1 : u[n] = v[n]
    BY <1>2, <2>1, <2>3
  <2>5. u = v
    BY <2>1, <2>3, <2>4
  <2> QED
    BY <2>5 DEF u, v
<1> HIDE DEF t
<1> QED
  BY <1>2, <1>3, <1>4, <1>5 DEF Strings, t

LEMMA LastGrows ==
  ASSUME NEW list \in Seq(Strings), NEW t \in Strings, NEW before \in Nat \ {0}, NEW cell \in Nat \ {0}
  PROVE  Extended(Append(list, t), before, cell) = Append(list, Append(t, cell))
<1> DEFINE u == Append(list, t)
           x == Append(t, cell)
           v == Append(list, x)
           w == [u EXCEPT ![Len(u)] = Append(u[Len(u)], cell)]
<1>1. x \in Strings
  BY DEF Strings
<1>2. Len(list) \in Nat
  OBVIOUS
<1>3. u \in Seq(Strings) /\ Len(u) = Len(list) + 1 /\ u[Len(list) + 1] = t /\ \A n \in 1 .. Len(list) : u[n] = list[n]
  OBVIOUS
<1> HIDE DEF u, x
<1>4. v \in Seq(Strings) /\ Len(v) = Len(list) + 1 /\ v[Len(list) + 1] = x /\ \A n \in 1 .. Len(list) : v[n] = list[n]
  BY <1>1
<1> HIDE DEF v
<1>5. w = [u EXCEPT ![Len(list) + 1] = x]
  BY <1>3 DEF x
<1>10. Extended(u, before, cell) = w
  BY DEF Extended
<1> HIDE DEF w
<1>6. w \in Seq(Strings) /\ Len(w) = Len(list) + 1 /\ w[Len(list) + 1] = x /\ \A n \in 1 .. Len(list) : w[n] = list[n]
  <2>1. Len(list) + 1 \in 1 .. Len(u)
    BY <1>2, <1>3
  <2>2. w \in Seq(Strings) /\ Len(w) = Len(u)
    BY <1>1, <1>3, <1>5, <2>1
  <2>3. \A n \in 1 .. Len(u) : w[n] = IF n = Len(list) + 1 THEN x ELSE u[n]
    BY <1>3, <1>5
  <2> QED
    BY <1>2, <1>3, <2>1, <2>2, <2>3
<1>7. \A n \in 1 .. Len(list) + 1 : w[n] = v[n]
  BY <1>2, <1>4, <1>6
<1>8. w = v
  BY <1>4, <1>6, <1>7
<1> QED
  BY <1>8, <1>10 DEF u, v, x

NoNul(X) == \A k \in 1 .. Len(X) : \A m \in 1 .. Len(X[k]) : X[k][m] # 0

(* After n cells the strings up to the k-th are done, and m cells of the   *)
(* next.                                                                   *)
Stands(X, o, h, r, n, k, m) ==
  /\ n = o[k] + m
  /\ m = 0 => r[n] = h[k]
  /\ m > 0 => k < Len(X) /\ m <= Len(X[k + 1]) /\ r[n] = Append(h[k], SubSeq(X[k + 1], 1, m))

LEMMA RunsStand ==
  ASSUME NEW X \in Seq(Strings), NoNul(X), NEW c, NEW o, Lays(X, c, o),
         NEW h \in [0 .. Len(X) -> Seq(Strings)], Filling(X, h),
         NEW d \in Strings, Begins(d, c),
         NEW r \in [0 .. Len(d) -> Seq(Strings)], Running(d, r)
  PROVE  \A n \in 0 .. Len(d) : \E k \in 0 .. Len(X), m \in Nat : Stands(X, o, h, r, n, k, m)
<1> DEFINE L == Len(X)
           W == Len(d)
           Stand(n) == \E k \in 0 .. L, m \in Nat : Stands(X, o, h, r, n, k, m)
           T == {n \in Nat : n <= W => Stand(n)}
<1>1. /\ L \in Nat /\ W \in Nat /\ Len(c) \in Nat /\ W <= Len(c)
      /\ (\A k \in 1 .. L : X[k] \in Strings) /\ (\A k \in 0 .. L : o[k] \in Nat /\ h[k] \in Seq(Strings))
      /\ \A n \in 1 .. W : d[n] = c[n] /\ d[n] \in Nat
  <2>1. d \in Seq(Nat) /\ c \in Seq(Nat) /\ Len(d) <= Len(c) /\ \A n \in 1 .. Len(d) : c[n] = d[n]
    BY DEF Lays, Strings, Begins
  <2>2. o \in [0 .. L -> Nat] /\ h \in [0 .. L -> Seq(Strings)]
    BY DEF Lays
  <2>3. \A k \in 0 .. L : o[k] \in Nat /\ h[k] \in Seq(Strings)
    BY ONLY <2>2
  <2>4. L \in Nat /\ \A k \in 1 .. L : X[k] \in Strings
    OBVIOUS
  <2>5. W \in Nat /\ Len(c) \in Nat /\ \A n \in 1 .. W : d[n] \in Nat
    BY ONLY <2>1
  <2> QED
    BY <2>1, <2>3, <2>4, <2>5
<1>2. o[0] = 0 /\ o[L] = Len(c)
      /\ \A k \in 1 .. L : o[k] = o[k - 1] + Len(X[k]) + 1 /\ c[o[k]] = 0
  BY DEF Lays
<1>3. \A k \in 1 .. L : \A m \in 1 .. Len(X[k]) : c[o[k - 1] + m] = X[k][m] /\ X[k][m] # 0
  BY DEF Lays, NoNul
<1>4. h[0] = <<>> /\ \A k \in 1 .. L : h[k] = Taking(h[k - 1], X[k])
  BY DEF Filling
<1>5. r[0] = <<>> /\ \A n \in 1 .. W : r[n] = Extended(r[n - 1], Prior(d, n), d[n])
  BY DEF Running
<1> HIDE DEF L, W, Stand
<1>6. 0 \in T
  <2>1. Stands(X, o, h, r, 0, 0, 0)
    BY <1>2, <1>4, <1>5 DEF Stands
  <2>2. Stand(0)
    BY <1>1, <2>1 DEF Stand, L
  <2> QED
    BY <2>2
<1>7. ASSUME NEW n \in T PROVE n + 1 \in T
  <2> SUFFICES ASSUME n + 1 <= W PROVE Stand(n + 1)
    OBVIOUS
  <2>1. n \in Nat /\ n <= W /\ n + 1 \in 1 .. W /\ (n + 1) - 1 = n
    BY <1>1
  <2>2. PICK k \in 0 .. L, m \in Nat : Stands(X, o, h, r, n, k, m)
    BY <2>1 DEF Stand
  <2>3. n = o[k] + m /\ (m = 0 => r[n] = h[k])
        /\ (m > 0 => k < L /\ m <= Len(X[k + 1]) /\ r[n] = Append(h[k], SubSeq(X[k + 1], 1, m)))
    BY <2>2 DEF Stands, L
  <2>4. k < L
    <3>1. ASSUME k = L PROVE FALSE
      BY <1>1, <1>2, <2>1, <2>3, <3>1
    <3> QED
      BY <1>1, <3>1
  <2> DEFINE s == X[k + 1]
             cell == d[n + 1]
             a == Len(s)
  <2>5. k + 1 \in 1 .. L /\ (k + 1) - 1 = k /\ k \in 0 .. L /\ k + 1 \in 0 .. L /\ k \in Nat
    BY <1>1, <2>4
  <2>6. s \in Strings /\ a \in Nat /\ o[k] \in Nat /\ o[k + 1] = o[k] + a + 1 /\ c[o[k + 1]] = 0
        /\ h[k] \in Seq(Strings) /\ h[k + 1] = Taking(h[k], s)
    <3>1. s \in Strings /\ a \in Nat
      BY <1>1, <2>5, StringIs
    <3> QED
      BY <1>1, <1>2, <1>4, <2>5, <3>1
  <2>7. \A j \in 1 .. a : c[o[k] + j] = s[j] /\ s[j] # 0 /\ s[j] \in Nat
    BY <1>3, <2>5, <2>6, StringIs
  <2>8. m <= a
    BY <2>3, <2>6
  <2>12. /\ n \in Nat /\ m \in Nat /\ a \in Nat /\ o[k] \in Nat /\ k \in Nat /\ L \in Nat /\ W \in Nat
         /\ n = o[k] + m /\ o[k + 1] = o[k] + a + 1 /\ n + 1 <= W /\ k + 1 <= L
    BY <1>1, <2>1, <2>3, <2>5, <2>6
  <2>9. r[n + 1] = Extended(r[n], Prior(d, n + 1), cell) /\ cell = c[n + 1] /\ cell \in Nat
    BY <1>1, <1>5, <2>1
  <2> HIDE DEF s, cell, a
  <2>10. CASE m = a
    <3>1. n + 1 = o[k + 1] /\ cell = 0
      BY <2>3, <2>6, <2>9, <2>10
    <3>2. r[n + 1] = r[n]
      BY <2>9, <3>1 DEF Extended
    <3>3. r[n] = h[k + 1]
      <4>1. CASE m = 0
        <5>1. s = <<>>
          <6>1. s \in Seq(Nat) /\ Len(s) = 0
            BY <2>6, <2>10, <4>1 DEF a, Strings
          <6> QED
            BY ONLY <6>1
        <5> QED
          BY <2>3, <2>6, <4>1, <5>1 DEF Taking
      <4>2. CASE m > 0
        <5>1. m \in 1 .. Len(s) /\ m = Len(s)
          BY <2>10, <4>2 DEF a
        <5>2. SubSeq(s, 1, m) = s
          BY <2>6, <5>1, CutString
        <5>3. s # <<>>
          BY <2>6, <5>1 DEF Strings
        <5> QED
          BY <2>3, <2>6, <4>2, <5>2, <5>3 DEF Taking, s
      <4> QED
        BY <4>1, <4>2
    <3>4. Stands(X, o, h, r, n + 1, k + 1, 0)
      BY <2>6, <3>1, <3>2, <3>3 DEF Stands
    <3> QED
      BY <2>5, <3>4 DEF Stand
  <2>11. CASE m < a
    <3>1. m + 1 \in 1 .. a /\ n + 1 = o[k] + (m + 1)
      <4>1. m + 1 \in 1 .. a
        BY ONLY <2>11, <2>12
      <4>2. n + 1 = o[k] + (m + 1)
        <5> DEFINE from == o[k]
        <5>1. n \in Nat /\ m \in Nat /\ from \in Nat /\ n = from + m
          BY ONLY <2>12
        <5> HIDE DEF from
        <5>2. n + 1 = from + (m + 1)
          BY ONLY <5>1
        <5> QED
          BY ONLY <5>2 DEF from
      <4> QED
        BY ONLY <4>1, <4>2
    <3>2. cell = s[m + 1] /\ cell # 0
      BY <2>7, <2>9, <3>1
    <3>3. r[n + 1] = Append(h[k], SubSeq(s, 1, m + 1))
      <4>1. CASE m = 0
        <5>1. Prior(d, n + 1) = 0
          <6>1. CASE k = 0
            BY <1>2, <2>3, <4>1, <6>1 DEF Prior
          <6>2. CASE k > 0
            <7>1. k \in 1 .. L /\ c[o[k]] = 0 /\ n = o[k]
              <8>1. k \in 1 .. L /\ n = o[k]
                BY ONLY <2>12, <4>1, <6>2
              <8> QED
                BY <1>2, <8>1
            <7>2. n \in 1 .. W \/ n = 0
              BY <2>1
            <7> QED
              BY <1>1, <2>1, <7>1, <7>2 DEF Prior
          <6> QED
            BY <2>5, <6>1, <6>2
        <5>2. r[n + 1] = Append(h[k], <<cell>>)
          BY <2>3, <2>9, <3>2, <4>1, <5>1 DEF Extended
        <5>3. 1 \in 1 .. Len(s) /\ 0 + 1 = 1
          BY <3>1, <4>1 DEF a
        <5>4. SubSeq(s, 1, 1) = <<s[1]>>
          BY <2>6, <5>3, CutString
        <5> QED
          BY <3>2, <4>1, <5>2, <5>3, <5>4
      <4>2. CASE m > 0
        <5>1. n \in 1 .. W /\ n + 1 # 1 /\ m \in 1 .. a
          BY ONLY <2>11, <2>12, <4>2
        <5>2. Prior(d, n + 1) = s[m] /\ s[m] \in Nat \ {0}
          BY <1>1, <2>1, <2>3, <2>7, <5>1 DEF Prior
        <5>3. SubSeq(s, 1, m) \in Strings /\ SubSeq(s, 1, m + 1) = Append(SubSeq(s, 1, m), s[m + 1])
          BY <2>6, <2>11, <5>1, CutString DEF a
        <5>4. r[n] = Append(h[k], SubSeq(s, 1, m))
          BY <2>3, <4>2 DEF s
        <5>5. Extended(Append(h[k], SubSeq(s, 1, m)), s[m], cell) = Append(h[k], Append(SubSeq(s, 1, m), cell))
          <6> DEFINE t == SubSeq(s, 1, m)
                     x == h[k]
                     y == s[m]
          <6>1. t \in Strings /\ x \in Seq(Strings) /\ y \in Nat \ {0} /\ cell \in Nat \ {0}
            BY <2>6, <2>9, <3>2, <5>2, <5>3
          <6> HIDE DEF t, x, y
          <6>2. Extended(Append(x, t), y, cell) = Append(x, Append(t, cell))
            BY ONLY <6>1, LastGrows
          <6> QED
            BY <6>2 DEF t, x, y
        <5> QED
          BY <2>9, <3>2, <5>2, <5>3, <5>4, <5>5
      <4> QED
        BY <4>1, <4>2
    <3>4. Stands(X, o, h, r, n + 1, k, m + 1)
      BY <2>4, <3>1, <3>3 DEF Stands, s, a, L
    <3>5. m + 1 \in Nat
      OBVIOUS
    <3> QED
      BY <2>5, <3>4, <3>5 DEF Stand
  <2> QED
    BY <2>6, <2>8, <2>10, <2>11
<1>8. T = Nat
  <2> HIDE DEF T
  <2> QED
    BY <1>6, <1>7, Induct DEF T
<1>9. \A n \in 0 .. W : Stand(n)
  <2>1. \A n \in 0 .. W : n \in T /\ n <= W
    BY <1>1, <1>8
  <2> QED
    BY <2>1
<1> QED
  BY <1>9 DEF L, W, Stand

(* What has been read of the strings ends with one of them, or in one.     *)
Broken(X, d) ==
  \E list \in Seq(Strings) :
    /\ Begins(list, Filled(X))
    /\ \/ Runs(d) = list /\ (Len(d) = 0 \/ d[Len(d)] = 0)
       \/ /\ Len(d) > 0 /\ d[Len(d)] # 0
          /\ \E part \in Strings : Runs(d) = Append(list, part)

LEMMA RunsBroken ==
  ASSUME NEW X \in Seq(Strings), NoNul(X), NEW d \in Strings, Begins(d, Joined(X))
  PROVE  /\ Broken(X, d)
         /\ Len(d) = Len(Joined(X)) => Runs(d) = Filled(X) /\ (Len(d) = 0 \/ d[Len(d)] = 0)
         /\ Filled(X) \in Seq(Strings) /\ Joined(X) \in Strings
<1> DEFINE L == Len(X)
           W == Len(d)
           c == Joined(X)
<1>1. PICK o : Lays(X, c, o)
  BY JoinedLays
<1>2. PICK h \in [0 .. L -> Seq(Strings)] : Filling(X, h) /\ Filled(X) = h[L]
  BY FilledIs
<1>3. PICK r \in [0 .. W -> Seq(Strings)] : Running(d, r) /\ Runs(d) = r[W]
  BY RunsIs
<1>4. L \in Nat /\ W \in Nat /\ (\A k \in 1 .. L : X[k] \in Strings) /\ (\A k \in 0 .. L : h[k] \in Seq(Strings))
      /\ Len(c) \in Nat /\ c \in Strings /\ L \in 0 .. L
  <2>1. c \in Strings
    BY <1>1 DEF Lays
  <2>2. L \in Nat /\ W \in Nat /\ Len(c) \in Nat /\ (\A k \in 1 .. L : X[k] \in Strings) /\ L \in 0 .. L
    BY <2>1, StringIs
  <2>3. \A k \in 0 .. L : h[k] \in Seq(Strings)
    BY <1>2
  <2> QED
    BY <2>1, <2>2, <2>3
<1>5. PICK k \in 0 .. L, m \in Nat : Stands(X, o, h, r, W, k, m)
  <2>1. W \in 0 .. W
    BY <1>4
  <2> QED
    BY <1>1, <1>2, <1>3, <2>1, RunsStand
<1>6. /\ W = o[k] + m /\ (m = 0 => r[W] = h[k])
      /\ (m > 0 => k < L /\ m <= Len(X[k + 1]) /\ r[W] = Append(h[k], SubSeq(X[k + 1], 1, m)))
  BY <1>5 DEF Stands
<1>7. /\ o[0] = 0 /\ o[L] = Len(c) /\ (\A j \in 0 .. L : o[j] \in Nat)
      /\ \A j \in 1 .. L : o[j] = o[j - 1] + Len(X[j]) + 1 /\ o[j] <= Len(c) /\ c[o[j]] = 0
  <2>1. o \in [0 .. L -> Nat]
    BY <1>1 DEF Lays
  <2>2. \A j \in 0 .. L : o[j] \in Nat
    BY ONLY <2>1
  <2> QED
    BY <1>1, <2>2 DEF Lays
<1>8. \A j \in 1 .. L : \A n \in 1 .. Len(X[j]) : c[o[j - 1] + n] = X[j][n] /\ X[j][n] # 0
  BY <1>1 DEF Lays, NoNul
<1>9. W <= Len(c) /\ \A n \in 1 .. W : d[n] = c[n]
  BY DEF Begins
<1>10. Begins(h[k], Filled(X)) /\ h[k] \in Seq(Strings)
  BY <1>2, <1>4, FilledBegins
<1> HIDE DEF L, W, c
<1>11. k \in Nat /\ m \in Nat /\ k <= L /\ o[k] \in Nat
  BY <1>4, <1>7
<1>12. k < L => /\ k + 1 \in 1 .. L /\ (k + 1) - 1 = k /\ X[k + 1] \in Strings /\ Len(X[k + 1]) \in Nat
                /\ o[k + 1] = o[k] + Len(X[k + 1]) + 1 /\ o[k + 1] <= Len(c) /\ o[k + 1] \in Nat
  <2> SUFFICES ASSUME k < L
               PROVE  /\ k + 1 \in 1 .. L /\ (k + 1) - 1 = k /\ X[k + 1] \in Strings /\ Len(X[k + 1]) \in Nat
                      /\ o[k + 1] = o[k] + Len(X[k + 1]) + 1 /\ o[k + 1] <= Len(c) /\ o[k + 1] \in Nat
    OBVIOUS
  <2>1. k + 1 \in 1 .. L /\ (k + 1) - 1 = k /\ k + 1 \in 0 .. L
    BY <1>4, <1>11
  <2>2. X[k + 1] \in Strings /\ Len(X[k + 1]) \in Nat
    BY <1>4, <2>1, StringIs
  <2> QED
    BY <1>7, <2>1, <2>2
<1>13. CASE m = 0
  <2>1. r[W] = h[k] /\ W = o[k]
    BY <1>6, <1>11, <1>13
  <2>2. W = 0 \/ d[W] = 0
    <3>1. CASE k = 0
      BY <1>7, <2>1, <3>1
    <3>2. CASE k # 0
      <4>1. k \in 1 .. L
        BY <1>4, <1>11, <3>2
      <4>2. c[W] = 0
        BY <1>7, <2>1, <4>1
      <4>3. W = 0 \/ W \in 1 .. W
        BY <1>4
      <4> QED
        BY <1>9, <4>2, <4>3
    <3> QED
      BY <3>1, <3>2
  <2>3. Broken(X, d)
    BY <1>3, <1>10, <2>1, <2>2 DEF Broken, W
  <2>4. ASSUME W = Len(c) PROVE Runs(d) = Filled(X)
    <3>1. ~(k < L)
      <4> SUFFICES ASSUME k < L PROVE FALSE
        OBVIOUS
      <4> DEFINE a == Len(X[k + 1])
                 from == o[k]
                 q == o[k + 1]
      <4>1. a \in Nat /\ from \in Nat /\ q \in Nat /\ q = from + a + 1 /\ q <= from
        BY <1>11, <1>12, <2>1, <2>4
      <4> HIDE DEF a, from, q
      <4> QED
        BY <4>1
    <3>2. k = L
      BY <1>4, <1>11, <3>1
    <3> QED
      BY <1>2, <1>3, <2>1, <3>2 DEF L, W
  <2> QED
    BY <1>2, <1>4, <2>2, <2>3, <2>4 DEF L, W, c
<1>14. CASE m > 0
  <2>1. k < L /\ m <= Len(X[k + 1]) /\ r[W] = Append(h[k], SubSeq(X[k + 1], 1, m))
    BY <1>6, <1>14
  <2> DEFINE a == Len(X[k + 1])
             from == o[k]
             q == o[k + 1]
             s == X[k + 1]
  <2>2. /\ a \in Nat /\ from \in Nat /\ q \in Nat /\ q = from + a + 1 /\ q <= Len(c) /\ m <= a /\ W = from + m
        /\ m \in Nat /\ W \in Nat /\ s \in Strings
    BY <1>4, <1>6, <1>11, <1>12, <2>1
  <2>3. \A n \in 1 .. a : c[from + n] = s[n] /\ s[n] # 0
    BY <1>8, <1>12, <2>1
  <2>4. a = Len(s)
    OBVIOUS
  <2> HIDE DEF a, from, q, s
  <2>5. m \in 1 .. a /\ W \in 1 .. W /\ W # Len(c) /\ W > 0
    BY <1>4, <1>14, <2>2
  <2>6. d[W] # 0
    BY <1>9, <2>2, <2>3, <2>5
  <2>7. SubSeq(s, 1, m) \in Strings
    BY <2>2, <2>4, <2>5, CutString
  <2>8. Runs(d) = Append(h[k], SubSeq(s, 1, m))
    BY <1>3, <2>1 DEF W, s
  <2>9. Broken(X, d)
    BY <1>10, <2>5, <2>6, <2>7, <2>8 DEF Broken, W
  <2> QED
    BY <1>2, <1>4, <2>5, <2>9 DEF L, W, c
<1> QED
  BY <1>11, <1>13, <1>14

LEMMA FirstIs ==
  ASSUME NEW S, NEW s \in Seq(S), NEW n \in Nat
  PROVE  /\ First(s, n) \in Seq(S) /\ Begins(First(s, n), s)
         /\ Len(First(s, n)) = IF n < Len(s) THEN n ELSE Len(s)
<1> DEFINE m == IF n < Len(s) THEN n ELSE Len(s)
<1>1. m \in 0 .. Len(s) /\ Len(s) \in Nat /\ First(s, n) = SubSeq(s, 1, m)
  BY DEF First
<1> HIDE DEF m
<1>2. SubSeq(s, 1, m) \in Seq(S) /\ Len(SubSeq(s, 1, m)) = m /\ \A k \in 1 .. m : SubSeq(s, 1, m)[k] = s[k]
  BY <1>1
<1>3. m <= Len(s)
  BY <1>1
<1> QED
  BY <1>1, <1>2, <1>3 DEF Begins, m

LEMMA BeginsPrefix ==
  ASSUME NEW S, NEW s \in Seq(S), NEW t \in Seq(S), Begins(s, t)
  PROVE  IsPrefix(s, t) /\ (Len(s) = Len(t) => s = t)
<1>1. Len(s) \in Nat /\ Len(t) \in Nat /\ Len(s) <= Len(t) /\ \A k \in 1 .. Len(s) : t[k] = s[k]
  BY DEF Begins
<1> DEFINE u == SubSeq(s, 1, Len(s))
           v == SubSeq(t, 1, Len(s))
<1>2. u \in Seq(S) /\ Len(u) = Len(s) /\ \A k \in 1 .. Len(s) : u[k] = s[k]
  BY <1>1
<1>3. v \in Seq(S) /\ Len(v) = Len(s) /\ \A k \in 1 .. Len(s) : v[k] = t[k]
  BY <1>1
<1> HIDE DEF u, v
<1>4. \A k \in 1 .. Len(s) : u[k] = v[k]
  BY <1>1, <1>2, <1>3
<1>5. u = v
  BY <1>2, <1>3, <1>4
<1>6. Len(s) = Len(t) => s = t
  BY <1>1
<1> QED
  BY <1>1, <1>5, <1>6 DEF IsPrefix, u, v

LEMMA ListedIs ==
  ASSUME NEW X \in Seq(Strings), NoNul(X), NEW d \in Strings, Begins(d, Joined(X)),
         Len(d) >= CMDLINE_MAX \/ Len(d) = Len(Joined(X))
  PROVE  /\ IsPrefix(Listed(d), First(Filled(X), MAX_ARGS))
         /\ Len(d) = Len(Joined(X)) => Listed(d) = First(Filled(X), MAX_ARGS)
<1> DEFINE F == Filled(X)
           G == First(F, MAX_ARGS)
           W == Len(d)
           M == MAX_ARGS
           E == Strings
<1>1. Broken(X, d) /\ (W = Len(Joined(X)) => Runs(d) = F /\ (W = 0 \/ d[W] = 0)) /\ F \in Seq(E)
  BY RunsBroken
<1>2. W \in Nat /\ M \in Nat \ {0} /\ CMDLINE_MAX \in Nat \ {0}
  BY ArgsAssumption, StringIs DEF ArgsAssumption
<1>3. G \in Seq(E) /\ Begins(G, F) /\ Len(G) = IF M < Len(F) THEN M ELSE Len(F)
  BY <1>1, <1>2, FirstIs
<1>4. PICK list \in Seq(E) :
        /\ Begins(list, F)
        /\ \/ Runs(d) = list /\ (W = 0 \/ d[W] = 0)
           \/ W > 0 /\ d[W] # 0 /\ \E part \in E : Runs(d) = Append(list, part)
  BY <1>1 DEF Broken
<1>5. Listed(d) = LET l == First(Runs(d), M)
                  IN IF W >= CMDLINE_MAX /\ d[W] # 0 /\ l # <<>> THEN SubSeq(l, 1, Len(l) - 1) ELSE l
  BY DEF Listed, DropCut, Last, Front
<1> HIDE DEF F, G, W, M, E
<1>6. CASE Runs(d) = list /\ (W = 0 \/ d[W] = 0)
  <2> DEFINE l == First(list, M)
  <2>1. l \in Seq(E) /\ Begins(l, list) /\ Len(l) = IF M < Len(list) THEN M ELSE Len(list)
    BY <1>2, FirstIs
  <2>2. Listed(d) = l
    BY <1>2, <1>5, <1>6
  <2> HIDE DEF l
  <2>3. Len(list) \in Nat /\ Len(F) \in Nat /\ Len(l) \in Nat /\ Len(G) \in Nat
    BY <1>1, <1>3, <2>1
  <2>4. Begins(l, G)
    BY <1>2, <1>3, <1>4, <2>1, <2>3 DEF Begins
  <2>5. IsPrefix(l, G)
    BY <1>3, <2>1, <2>4, BeginsPrefix
  <2>6. W = Len(Joined(X)) => l = G
    BY <1>1, <1>6 DEF l, G, F, M, W
  <2> QED
    BY <2>2, <2>5, <2>6 DEF G, F, M, W
<1>7. CASE W > 0 /\ d[W] # 0 /\ \E part \in E : Runs(d) = Append(list, part)
  <2>1. PICK part \in E : Runs(d) = Append(list, part)
    BY <1>7
  <2>2. W # Len(Joined(X)) /\ W >= CMDLINE_MAX
    BY <1>1, <1>2, <1>7 DEF W
  <2> DEFINE w == Append(list, part)
             l == First(w, M)
             u == SubSeq(l, 1, Len(l) - 1)
  <2>3. w \in Seq(E) /\ Len(w) = Len(list) + 1 /\ Begins(list, w) /\ Len(list) \in Nat
    BY <2>1 DEF Begins
  <2>4. l \in Seq(E) /\ Begins(l, w) /\ Len(l) = IF M < Len(w) THEN M ELSE Len(w)
    <3> HIDE DEF w
    <3> QED
      BY <1>2, <2>3, FirstIs
  <2>5. Len(l) > 0 /\ Len(l) \in Nat /\ Len(l) - 1 \in Nat /\ Len(l) - 1 <= Len(list) /\ Len(l) - 1 < M
    <3> HIDE DEF w, l
    <3> QED
      BY <1>2, <2>3, <2>4
  <2>6. l # <<>>
    BY <2>5
  <2>7. Listed(d) = u
    <3>1. First(Runs(d), M) = l
      BY <2>1
    <3> HIDE DEF l
    <3> QED
      BY <1>5, <1>7, <2>2, <2>6, <3>1
  <2> HIDE DEF w, l
  <2>8. u \in Seq(E) /\ Len(u) = Len(l) - 1 /\ \A k \in 1 .. Len(l) - 1 : u[k] = l[k]
    BY <2>4, <2>5
  <2> HIDE DEF u
  <2>9. Begins(u, list)
    <3>1. ASSUME NEW k \in 1 .. Len(u) PROVE list[k] = u[k]
      <4>1. k \in 1 .. Len(l) - 1 /\ k \in 1 .. Len(l) /\ k \in 1 .. Len(list)
        BY <2>3, <2>5, <2>8
      <4> QED
        BY <2>3, <2>4, <2>8, <4>1 DEF Begins
    <3> QED
      BY <2>5, <2>8, <3>1 DEF Begins
  <2>10. Begins(u, G)
    <3>1. Len(F) \in Nat /\ Len(G) \in Nat /\ Len(list) <= Len(F)
      BY <1>1, <1>3, <1>4 DEF Begins
    <3>2. Len(u) <= Len(G) /\ Len(u) <= Len(list) /\ Len(u) \in Nat
      BY <1>2, <1>3, <2>3, <2>5, <2>8, <3>1
    <3>3. ASSUME NEW k \in 1 .. Len(u) PROVE G[k] = u[k]
      <4>1. k \in 1 .. Len(G) /\ k \in 1 .. Len(list)
        BY <2>3, <3>1, <3>2
      <4> QED
        BY <1>3, <1>4, <2>9, <4>1 DEF Begins
    <3> QED
      BY <3>2, <3>3 DEF Begins
  <2>11. IsPrefix(u, G)
    BY <1>3, <2>8, <2>10, BeginsPrefix
  <2> QED
    BY <2>2, <2>7, <2>11 DEF G, F, M, W
<1> QED
  BY <1>4, <1>6, <1>7

LEMMA AppendConcat ==
  ASSUME NEW S, NEW s \in Seq(S), NEW t \in Seq(S), NEW x \in S
  PROVE  s \o Append(t, x) = Append(s \o t, x)
<1> DEFINE u == s \o Append(t, x)
           w == s \o t
           v == Append(w, x)
<1>1. Len(s) \in Nat /\ Len(t) \in Nat /\ Append(t, x) \in Seq(S) /\ Len(Append(t, x)) = Len(t) + 1
      /\ Append(t, x)[Len(t) + 1] = x /\ \A n \in 1 .. Len(t) : Append(t, x)[n] = t[n]
  OBVIOUS
<1>2. u \in Seq(S) /\ Len(u) = Len(s) + Len(t) + 1
      /\ (\A n \in 1 .. Len(s) : u[n] = s[n]) /\ \A n \in 1 .. Len(t) + 1 : u[Len(s) + n] = Append(t, x)[n]
  <2> DEFINE y == Append(t, x)
  <2>1. y \in Seq(S) /\ Len(y) = Len(t) + 1
    BY <1>1
  <2> HIDE DEF y
  <2>2. s \o y \in Seq(S) /\ Len(s \o y) = Len(s) + Len(y) /\ (\A n \in 1 .. Len(s) : (s \o y)[n] = s[n])
        /\ \A n \in 1 .. Len(y) : (s \o y)[Len(s) + n] = y[n]
    BY <2>1
  <2> QED
    BY <1>1, <2>1, <2>2 DEF y
<1>3. w \in Seq(S) /\ Len(w) = Len(s) + Len(t)
      /\ (\A n \in 1 .. Len(s) : w[n] = s[n]) /\ \A n \in 1 .. Len(t) : w[Len(s) + n] = t[n]
  OBVIOUS
<1> HIDE DEF u, w
<1>4. v \in Seq(S) /\ Len(v) = Len(w) + 1 /\ v[Len(w) + 1] = x /\ \A n \in 1 .. Len(w) : v[n] = w[n]
  BY <1>3
<1> HIDE DEF v
<1>5. ASSUME NEW n \in 1 .. Len(u) PROVE u[n] = v[n]
  <2>1. CASE n \in 1 .. Len(s)
    BY <1>1, <1>2, <1>3, <1>4, <2>1
  <2>2. CASE n = Len(s) + Len(t) + 1
    <3>1. n = Len(s) + (Len(t) + 1) /\ Len(t) + 1 \in 1 .. Len(t) + 1
      BY <1>1, <2>2
    <3>2. u[n] = x
      BY <1>1, <1>2, <3>1
    <3>3. v[n] = x
      BY <1>1, <1>3, <1>4, <2>2
    <3> QED
      BY <3>2, <3>3
  <2>3. CASE n - Len(s) \in 1 .. Len(t)
    <3> DEFINE m == n - Len(s)
    <3>1. n = Len(s) + m /\ m \in 1 .. Len(t) /\ m \in 1 .. Len(t) + 1 /\ n \in 1 .. Len(w)
      BY <1>1, <1>3, <2>3
    <3> HIDE DEF m
    <3>2. u[n] = t[m]
      BY <1>1, <1>2, <3>1
    <3>3. v[n] = t[m]
      BY <1>3, <1>4, <3>1
    <3> QED
      BY <3>2, <3>3
  <2>4. n \in 1 .. Len(s) \/ n = Len(s) + Len(t) + 1 \/ n - Len(s) \in 1 .. Len(t)
    <3> DEFINE a == Len(s)
               b == Len(t)
    <3>1. a \in Nat /\ b \in Nat /\ n \in 1 .. a + b + 1
      BY <1>1, <1>2
    <3> HIDE DEF a, b
    <3>2. n \in 1 .. a \/ n = a + b + 1 \/ n - a \in 1 .. b
      BY ONLY <3>1
    <3> QED
      BY <3>2 DEF a, b
  <2> QED
    BY <2>1, <2>2, <2>3, <2>4
<1>6. u = v
  BY <1>1, <1>2, <1>3, <1>4, <1>5
<1> QED
  BY <1>6 DEF u, v, w

LEMMA ConcatEmpty ==
  ASSUME NEW S, NEW s \in Seq(S)
  PROVE  s \o <<>> = s
OBVIOUS

(* Strings filled one list after the other.                                *)
LEMMA FilledConcat ==
  ASSUME NEW X \in Seq(Strings), NEW Y \in Seq(Strings)
  PROVE  Filled(X \o Y) = Filled(X) \o Filled(Y)
<1> DEFINE Z == X \o Y
           K == Len(X)
           L == Len(Y)
           E == Strings
<1>1. K \in Nat /\ L \in Nat /\ Z \in Seq(E) /\ Len(Z) = K + L
      /\ (\A n \in 1 .. K : Z[n] = X[n]) /\ \A n \in 1 .. L : Z[K + n] = Y[n]
  <2> HIDE DEF E
  <2> QED
    BY DEF E
<1>7. (\A n \in 1 .. L : Y[n] \in E)
  OBVIOUS
<1> HIDE DEF Z
<1>2. PICK fx \in [0 .. Len(X) -> Seq(Strings)] : Filling(X, fx) /\ Filled(X) = fx[Len(X)]
  BY FilledIs
<1>3. PICK fy \in [0 .. Len(Y) -> Seq(Strings)] : Filling(Y, fy) /\ Filled(Y) = fy[Len(Y)]
  BY FilledIs
<1>4. PICK fz \in [0 .. Len(Z) -> Seq(Strings)] : Filling(Z, fz) /\ Filled(Z) = fz[Len(Z)]
  BY <1>1, FilledIs
<1>5. /\ fx[0] = <<>> /\ fy[0] = <<>> /\ fz[0] = <<>>
      /\ (\A n \in 1 .. K : fx[n] = Taking(fx[n - 1], X[n]))
      /\ (\A n \in 1 .. L : fy[n] = Taking(fy[n - 1], Y[n]))
      /\ (\A n \in 1 .. K + L : fz[n] = Taking(fz[n - 1], Z[n]))
  BY <1>1, <1>2, <1>3, <1>4 DEF Filling
<1>6. fx[K] \in Seq(E) /\ \A n \in 0 .. L : fy[n] \in Seq(E)
  <2>1. K \in 0 .. K
    BY <1>1
  <2> HIDE DEF E
  <2>2. fx \in [0 .. K -> Seq(E)] /\ fy \in [0 .. L -> Seq(E)]
    BY DEF E
  <2> HIDE DEF K, L
  <2> QED
    BY ONLY <2>1, <2>2
<1>12. K \in Nat /\ L \in Nat
  BY <1>1
<1> HIDE DEF K, L, E
<1> DEFINE T == {n \in Nat : n <= K => fz[n] = fx[n]}
           U == {n \in Nat : n <= L => fz[K + n] = fx[K] \o fy[n]}
<1>8. T = Nat
  <2>1. 0 \in T
    BY <1>5
  <2>2. ASSUME NEW n \in T PROVE n + 1 \in T
    <3> SUFFICES ASSUME n + 1 <= K PROVE fz[n + 1] = fx[n + 1]
      OBVIOUS
    <3>1. n \in Nat /\ n <= K /\ n + 1 \in 1 .. K /\ n + 1 \in 1 .. K + L /\ (n + 1) - 1 = n
      BY <1>12
    <3>2. fz[n] = fx[n]
      BY <3>1
    <3>3. fz[n + 1] = Taking(fz[n], Z[n + 1])
      BY <1>5, <3>1
    <3>4. fx[n + 1] = Taking(fx[n], X[n + 1]) /\ Z[n + 1] = X[n + 1]
      BY <1>1, <1>5, <3>1
    <3> QED
      BY <3>2, <3>3, <3>4
  <2> HIDE DEF T
  <2> QED
    BY <2>1, <2>2, Induct DEF T
<1>9. fz[K] = fx[K]
  <2>1. K \in T /\ K <= K
    <3> HIDE DEF T
    <3> QED
      BY <1>8, <1>12
  <2> QED
    BY <2>1
<1>10. U = Nat
  <2>1. 0 \in U
    <3>1. K + 0 = K /\ 0 \in Nat
      BY <1>12
    <3>2. fx[K] \o <<>> = fx[K]
      BY <1>6, ConcatEmpty
    <3> QED
      BY <1>5, <1>9, <3>1, <3>2
  <2>2. ASSUME NEW n \in U PROVE n + 1 \in U
    <3> SUFFICES ASSUME n + 1 <= L PROVE fz[K + (n + 1)] = fx[K] \o fy[n + 1]
      <4>1. n \in Nat /\ n + 1 \in Nat
        OBVIOUS
      <4> QED
        BY <4>1
    <3>1. n \in Nat /\ n <= L /\ n \in 0 .. L /\ n + 1 \in 1 .. L /\ (n + 1) - 1 = n
          /\ K + (n + 1) \in 1 .. K + L /\ (K + (n + 1)) - 1 = K + n
      BY <1>12
    <3>2. fz[K + n] = fx[K] \o fy[n]
      BY <3>1
    <3>6. fz[K + (n + 1)] = Taking(fz[K + n], Z[K + (n + 1)]) /\ Z[K + (n + 1)] = Y[n + 1]
      BY <1>1, <1>5, <3>1
    <3>3. fz[K + (n + 1)] = Taking(fx[K] \o fy[n], Y[n + 1])
      BY <3>2, <3>6
    <3>4. fy[n + 1] = Taking(fy[n], Y[n + 1])
      BY <1>5, <3>1
    <3>5. fx[K] \o Append(fy[n], Y[n + 1]) = Append(fx[K] \o fy[n], Y[n + 1])
      <4> DEFINE x == fx[K]
                 y == fy[n]
                 e == Y[n + 1]
      <4>1. x \in Seq(E) /\ y \in Seq(E) /\ e \in E
        BY <1>6, <1>7, <3>1
      <4> HIDE DEF x, y, e
      <4>2. x \o Append(y, e) = Append(x \o y, e)
        BY ONLY <4>1, AppendConcat
      <4> QED
        BY ONLY <4>2 DEF x, y, e
    <3> QED
      BY <3>3, <3>4, <3>5 DEF Taking
  <2> HIDE DEF U
  <2> QED
    BY <2>1, <2>2, Induct DEF U
<1>11. fz[K + L] = fx[K] \o fy[L]
  <2>1. L \in U /\ L <= L
    <3> HIDE DEF U
    <3> QED
      BY <1>10, <1>12
  <2> QED
    BY <2>1
<1> QED
  BY <1>1, <1>2, <1>3, <1>4, <1>11 DEF K, L, Z

LEMMA FilledPath ==
  ASSUME NEW path \in Strings, path # <<>>
  PROVE  Filled(<<path, <<>>>>) = <<path>>
<1> DEFINE X == <<path, <<>>>>
<1>1. X \in Seq(Strings) /\ Len(X) = 2 /\ X[1] = path /\ X[2] = <<>>
  BY DEF Strings
<1> HIDE DEF X
<1>2. PICK f \in [0 .. Len(X) -> Seq(Strings)] : Filling(X, f) /\ Filled(X) = f[Len(X)]
  BY <1>1, FilledIs
<1>3. f[0] = <<>> /\ f[1] = Taking(f[0], X[1]) /\ f[2] = Taking(f[1], X[2])
  BY <1>1, <1>2 DEF Filling
<1>4. Append(<<>>, path) = <<path>>
  OBVIOUS
<1> QED
  BY <1>1, <1>2, <1>3, <1>4 DEF Taking, X

LEMMA FirstFirst ==
  ASSUME NEW S, NEW s \in Seq(S), NEW a \in Nat, NEW b \in Nat
  PROVE  First(s, IF a < b THEN a ELSE b) = First(First(s, a), b)
<1> DEFINE m == IF a < b THEN a ELSE b
           t == First(s, a)
           u == First(t, b)
           v == First(s, m)
<1>1. m \in Nat /\ Len(s) \in Nat /\ m <= a /\ m <= b /\ (m = a \/ m = b)
  OBVIOUS
<1>2. t \in Seq(S) /\ Begins(t, s) /\ Len(t) = IF a < Len(s) THEN a ELSE Len(s)
  BY FirstIs
<1> HIDE DEF m, t
<1>3. v \in Seq(S) /\ Begins(v, s) /\ Len(v) = IF m < Len(s) THEN m ELSE Len(s)
  BY <1>1, FirstIs
<1>4. u \in Seq(S) /\ Begins(u, t) /\ Len(u) = IF b < Len(t) THEN b ELSE Len(t)
  BY <1>2, FirstIs
<1> HIDE DEF u, v
<1>5. Len(t) \in Nat /\ Len(u) \in Nat /\ Len(v) \in Nat /\ Len(u) <= Len(t)
  BY <1>2, <1>3, <1>4 DEF Begins
<1>6. Len(u) = Len(v)
  BY <1>1, <1>2, <1>3, <1>4, <1>5 DEF m
<1>7. \A k \in 1 .. Len(u) : u[k] = s[k] /\ v[k] = s[k]
  BY <1>2, <1>3, <1>4, <1>5, <1>6 DEF Begins
<1>8. u = v
  BY <1>3, <1>4, <1>6, <1>7
<1> QED
  BY <1>8 DEF m, t, u, v

(* The strings of a program are not broken by a NUL in one of them.        *)
LEMMA ProgramStrings ==
  ASSUME NEW prog \in Programs
  PROVE  /\ prog.path \in Strings /\ prog.path # <<>> /\ prog.path[1] # 0
         /\ prog.argv \in Seq(Strings) /\ NoNul(prog.argv)
         /\ prog.env \in Seq(Strings) /\ NoNul(prog.env)
         /\ <<prog.path, <<>>>> \in Seq(Strings) /\ NoNul(<<prog.path, <<>>>>)
<1> DEFINE P == Nat \ {0}
<1>1. prog.path \in Seq(P) /\ prog.path # <<>> /\ prog.argv \in Seq(Seq(P)) /\ prog.env \in Seq(Seq(P))
  BY ArgsAssumption DEF ArgsAssumption
<1>2. ASSUME NEW s \in Seq(P) PROVE s \in Strings /\ \A m \in 1 .. Len(s) : s[m] # 0
  <2>1. Len(s) \in Nat /\ \A m \in 1 .. Len(s) : s[m] \in Nat /\ s[m] # 0
    OBVIOUS
  <2>2. s \in Seq(Nat)
    BY <2>1
  <2> QED
    BY <2>1, <2>2 DEF Strings
<1>3. ASSUME NEW X \in Seq(Seq(P)) PROVE X \in Seq(Strings) /\ NoNul(X)
  <2>1. Len(X) \in Nat /\ \A k \in 1 .. Len(X) : X[k] \in Seq(P)
    OBVIOUS
  <2>2. \A k \in 1 .. Len(X) : X[k] \in Strings /\ \A m \in 1 .. Len(X[k]) : X[k][m] # 0
    BY <1>2, <2>1
  <2>3. X \in Seq(Strings)
    <3> DEFINE Q == Seq(P)
    <3>1. X \in Seq(Q) /\ \A k \in 1 .. Len(X) : X[k] \in Strings
      BY <2>2
    <3> HIDE DEF Q
    <3> QED
      BY ONLY <3>1
  <2> QED
    BY <2>2, <2>3 DEF NoNul
<1>4. prog.path[1] # 0
  <2>1. 1 \in 1 .. Len(prog.path)
    BY <1>1
  <2> QED
    BY <1>1, <1>2, <2>1
<1>5. <<prog.path, <<>>>> \in Seq(Seq(P))
  <2>1. <<>> \in Seq(P)
    OBVIOUS
  <2> QED
    BY <1>1, <2>1
<1> HIDE DEF P
<1> QED
  BY <1>1, <1>2, <1>3, <1>4, <1>5

LEMMA NoNulConcat ==
  ASSUME NEW X \in Seq(Strings), NEW Y \in Seq(Strings), NoNul(X), NoNul(Y)
  PROVE  X \o Y \in Seq(Strings) /\ NoNul(X \o Y)
<1> DEFINE Z == X \o Y
<1>1. Len(X) \in Nat /\ Len(Y) \in Nat /\ Z \in Seq(Strings) /\ Len(Z) = Len(X) + Len(Y)
      /\ (\A n \in 1 .. Len(X) : Z[n] = X[n]) /\ \A n \in 1 .. Len(Y) : Z[Len(X) + n] = Y[n]
  OBVIOUS
<1> HIDE DEF Z
<1>2. ASSUME NEW k \in 1 .. Len(Z) PROVE \A m \in 1 .. Len(Z[k]) : Z[k][m] # 0
  <2>1. k \in 1 .. Len(X) \/ k - Len(X) \in 1 .. Len(Y)
    BY <1>1
  <2>2. CASE k \in 1 .. Len(X)
    BY <1>1, <2>2 DEF NoNul
  <2>3. CASE k - Len(X) \in 1 .. Len(Y)
    <3> DEFINE j == k - Len(X)
    <3>1. k = Len(X) + j /\ j \in 1 .. Len(Y)
      BY <1>1, <2>3
    <3> HIDE DEF j
    <3> QED
      BY <1>1, <3>1 DEF NoNul
  <2> QED
    BY <2>1, <2>2, <2>3
<1>3. NoNul(Z)
  BY <1>2 DEF NoNul
<1> QED
  BY <1>1, <1>3 DEF Z

LEMMA ConcatFirst ==
  ASSUME NEW S, NEW s \in Seq(S), NEW t \in Seq(S), 1 \in 1 .. Len(s)
  PROVE  Len(s \o t) = Len(s) + Len(t) /\ (s \o t)[1] = s[1]
<1> DEFINE w == s \o t
<1>1. Len(w) = Len(s) + Len(t) /\ \A n \in 1 .. Len(s) : w[n] = s[n]
  OBVIOUS
<1> HIDE DEF w
<1>2. w[1] = s[1]
  BY <1>1
<1> QED
  BY <1>1, <1>2 DEF w

(* The runs of cells in what macOS has of a program: its path, and then    *)
(* the arguments and the environment.                                      *)
LEMMA RegionRuns ==
  ASSUME NEW prog \in Programs, image = prog
  PROVE  /\ region \in Strings /\ region # <<>> /\ region[1] # 0
         /\ Filled(prog.argv) \o Filled(prog.env) \in Seq(Strings)
         /\ Tail(Runs(region)) = Filled(prog.argv) \o Filled(prog.env)
<1> DEFINE A == <<prog.path, <<>>>>
           B == prog.argv
           C == prog.env
           X == (A \o B) \o C
           R == Joined(X)
           E == Strings
           exe == prog.path
<1>1. /\ exe \in E /\ exe # <<>> /\ exe[1] # 0 /\ A \in Seq(E) /\ NoNul(A) /\ B \in Seq(E) /\ NoNul(B)
      /\ C \in Seq(E) /\ NoNul(C)
  BY ProgramStrings
<1>2. region = R
  BY DEF region
<1>3. Filled(A) = <<exe>>
  BY <1>1, FilledPath
<1>4. Len(A) = 2 /\ A[1] = exe
  OBVIOUS
<1> HIDE DEF A, B, C, exe, E
<1>5. A \o B \in Seq(E) /\ NoNul(A \o B)
  BY <1>1, NoNulConcat DEF E
<1>6. X \in Seq(E) /\ NoNul(X)
  <2> DEFINE D == A \o B
  <2> HIDE DEF D
  <2>1. D \o C \in Seq(E) /\ NoNul(D \o C)
    BY <1>1, <1>5, NoNulConcat DEF D, E
  <2> QED
    BY <2>1 DEF D
<1>7. Len(X) >= 1 /\ X[1] = exe
  <2> DEFINE D == A \o B
  <2>3. D \in Seq(E) /\ A \in Seq(E) /\ B \in Seq(E) /\ Len(A) = 2 /\ 1 \in 1 .. Len(A)
    BY <1>1, <1>4, <1>5
  <2>1. D \in Seq(E) /\ Len(D) >= 1 /\ D[1] = exe
    <3>1. Len(D) = Len(A) + Len(B) /\ D[1] = A[1]
      BY ONLY <2>3, ConcatFirst
    <3>2. Len(B) \in Nat
      BY ONLY <2>3
    <3> HIDE DEF D
    <3> QED
      BY ONLY <1>4, <2>3, <3>1, <3>2
  <2> HIDE DEF D
  <2>2. Len(D \o C) >= 1 /\ (D \o C)[1] = exe
    BY <1>1, <2>1
  <2> QED
    BY <2>2 DEF D
<1>8. Filled(X) = (<<exe>> \o Filled(B)) \o Filled(C)
  <2>1. Filled(A \o B) = Filled(A) \o Filled(B)
    BY <1>1, FilledConcat DEF E
  <2>2. Filled(X) = Filled(A \o B) \o Filled(C)
    <3> DEFINE D == A \o B
    <3> HIDE DEF D
    <3>1. Filled(D \o C) = Filled(D) \o Filled(C)
      BY <1>1, <1>5, FilledConcat DEF D, E
    <3> QED
      BY <3>1 DEF D
  <2> QED
    BY <1>3, <2>1, <2>2
<1>9. Filled(B) \in Seq(E) /\ Filled(C) \in Seq(E)
  <2>1. ASSUME NEW Y \in Seq(Strings) PROVE Filled(Y) \in Seq(Strings)
    <3>1. PICK f \in [0 .. Len(Y) -> Seq(Strings)] : Filled(Y) = f[Len(Y)]
      BY FilledIs
    <3>2. Len(Y) \in 0 .. Len(Y)
      OBVIOUS
    <3> QED
      BY <3>1, <3>2
  <2> QED
    BY <1>1, <2>1 DEF E
<1> HIDE DEF X
<1>10. PICK o : Lays(X, R, o)
  BY <1>6, JoinedLays DEF E
<1>11. R \in Strings /\ R # <<>> /\ R[1] # 0
  <2>1. R \in Seq(Nat)
    BY <1>10 DEF Lays, Strings
  <2>2. exe \in Seq(Nat) /\ 1 \in 1 .. Len(exe)
    BY <1>1 DEF E, Strings
  <2>3. 1 \in 1 .. Len(X) /\ 1 - 1 = 0 /\ 0 + 1 = 1
    BY <1>6, <1>7
  <2>4. o[0] = 0 /\ o[1] = o[0] + Len(X[1]) + 1 /\ o[1] <= Len(R) /\ R[o[0] + 1] = X[1][1]
    BY <1>7, <1>10, <2>2, <2>3 DEF Lays
  <2>5. R[1] = exe[1] /\ Len(R) > 0
    BY <1>7, <2>1, <2>2, <2>3, <2>4
  <2> QED
    BY <1>1, <2>1, <2>5 DEF Strings
<1>12. Runs(R) = Filled(X)
  <2>1. Begins(R, Joined(X)) /\ Len(R) \in Nat
    BY <1>11 DEF Begins, Strings
  <2> QED
    BY <1>6, <1>11, <2>1, RunsBroken DEF E
<1>13. Filled(B) \o Filled(C) \in Seq(E) /\ Tail((<<exe>> \o Filled(B)) \o Filled(C)) = Filled(B) \o Filled(C)
  <2> DEFINE u == Filled(B)
             v == Filled(C)
             w == (<<exe>> \o u) \o v
             t == Tail(w)
             x == u \o v
             e == <<exe>> \o u
  <2> HIDE DEF u, v
  <2>1. u \in Seq(E) /\ v \in Seq(E) /\ exe \in E /\ Len(u) \in Nat /\ Len(v) \in Nat
    BY <1>1, <1>9 DEF u, v
  <2>2. x \in Seq(E) /\ Len(x) = Len(u) + Len(v) /\ (\A n \in 1 .. Len(u) : x[n] = u[n])
        /\ \A n \in 1 .. Len(v) : x[Len(u) + n] = v[n]
    BY <2>1
  <2>3. e \in Seq(E) /\ Len(e) = 1 + Len(u) /\ \A n \in 1 .. Len(u) : e[1 + n] = u[n]
    BY <2>1
  <2> HIDE DEF x, e
  <2>4. w \in Seq(E) /\ Len(w) = Len(e) + Len(v) /\ (\A n \in 1 .. Len(e) : w[n] = e[n])
        /\ \A n \in 1 .. Len(v) : w[Len(e) + n] = v[n]
    BY <2>1, <2>3 DEF e
  <2> HIDE DEF w
  <2>5. t \in Seq(E) /\ Len(t) = Len(w) - 1 /\ \A n \in 1 .. Len(w) - 1 : t[n] = w[n + 1]
    <3>1. w \in Seq(E) /\ Len(w) \in Nat /\ Len(w) > 0
      BY <2>1, <2>3, <2>4
    <3> QED
      BY ONLY <3>1
  <2> HIDE DEF t
  <2>6. ASSUME NEW n \in 1 .. Len(x) PROVE t[n] = x[n]
    <3>1. n \in 1 .. Len(w) - 1 /\ n + 1 = 1 + n
      BY <2>1, <2>2, <2>3, <2>4
    <3>2. CASE n \in 1 .. Len(u)
      <4>1. 1 + n \in 1 .. Len(e)
        BY <2>1, <2>3, <3>2
      <4> QED
        BY <2>2, <2>3, <2>4, <2>5, <3>1, <3>2, <4>1
    <3>3. CASE n - Len(u) \in 1 .. Len(v)
      <4> DEFINE j == n - Len(u)
      <4>1. j \in 1 .. Len(v) /\ n = Len(u) + j /\ n + 1 = Len(e) + j
        BY <2>1, <2>3, <3>3
      <4> HIDE DEF j
      <4> QED
        BY <2>2, <2>4, <2>5, <3>1, <4>1
    <3>4. n \in 1 .. Len(u) \/ n - Len(u) \in 1 .. Len(v)
      BY <2>1, <2>2
    <3> QED
      BY <3>2, <3>3, <3>4
  <2>7. Len(t) = Len(x)
    BY <2>1, <2>2, <2>3, <2>4, <2>5
  <2>8. t = x
    BY <2>2, <2>5, <2>6, <2>7
  <2> QED
    BY <2>2, <2>8 DEF t, w, x, u, v
<1> QED
  BY <1>2, <1>8, <1>11, <1>12, <1>13 DEF X, A, B, C, E, exe

LEMMA ReadBegins ==
  ASSUME NEW f \in Strings, NEW b \in Strings, Begins(b, f),
         NEW chunk, chunk = First(SubSeq(f, Len(b) + 1, Len(f)), Chunk)
  PROVE  /\ b \o chunk \in Strings /\ Begins(b \o chunk, f)
         /\ Len(chunk) < Chunk => Len(b \o chunk) = Len(f)
<1> DEFINE rest == SubSeq(f, Len(b) + 1, Len(f))
           w == b \o chunk
<1>1. f \in Seq(Nat) /\ b \in Seq(Nat) /\ Len(f) \in Nat /\ Len(b) \in Nat /\ Len(b) <= Len(f)
      /\ \A n \in 1 .. Len(b) : f[n] = b[n]
  BY DEF Begins, Strings
<1>2. Chunk \in Nat \ {0}
  BY ArgsAssumption DEF ArgsAssumption
<1>3. rest \in Seq(Nat) /\ Len(rest) = Len(f) - Len(b) /\ \A n \in 1 .. Len(f) - Len(b) : rest[n] = f[Len(b) + n]
  BY <1>1
<1> HIDE DEF rest
<1>4. chunk \in Seq(Nat) /\ Begins(chunk, rest) /\ Len(chunk) = IF Chunk < Len(rest) THEN Chunk ELSE Len(rest)
  BY <1>2, <1>3, FirstIs DEF rest
<1>5. w \in Seq(Nat) /\ Len(w) = Len(b) + Len(chunk)
      /\ (\A n \in 1 .. Len(b) : w[n] = b[n]) /\ \A n \in 1 .. Len(chunk) : w[Len(b) + n] = chunk[n]
  BY <1>1, <1>4
<1> HIDE DEF w
<1>6. Len(w) <= Len(f) /\ (Len(chunk) < Chunk => Len(w) = Len(f)) /\ Len(chunk) \in Nat
  <2> DEFINE a == Len(b)
             d == Len(chunk)
             e == Len(f)
             g == Len(rest)
             h == Len(w)
  <2>1. a \in Nat /\ e \in Nat /\ a <= e /\ Chunk \in Nat /\ g = e - a /\ h = a + d
        /\ d = IF Chunk < g THEN Chunk ELSE g
    BY <1>1, <1>2, <1>3, <1>4, <1>5
  <2> HIDE DEF a, d, e, g, h
  <2>2. h <= e /\ (d < Chunk => h = e) /\ d \in Nat
    BY ONLY <2>1
  <2> QED
    BY <2>2 DEF a, d, e, g, h
<1>7. ASSUME NEW n \in 1 .. Len(w) PROVE f[n] = w[n]
  <2>1. n \in 1 .. Len(b) \/ n - Len(b) \in 1 .. Len(chunk)
    BY <1>1, <1>5, <1>6
  <2>2. CASE n \in 1 .. Len(b)
    BY <1>1, <1>5, <2>2
  <2>3. CASE n - Len(b) \in 1 .. Len(chunk)
    <3> DEFINE j == n - Len(b)
    <3>1. n = Len(b) + j /\ j \in 1 .. Len(chunk) /\ j \in 1 .. Len(f) - Len(b)
      BY <1>1, <1>3, <1>4, <1>6, <2>3
    <3> HIDE DEF j
    <3>2. w[n] = chunk[j] /\ chunk[j] = rest[j] /\ rest[j] = f[n]
      BY <1>3, <1>4, <1>5, <3>1 DEF Begins
    <3> QED
      BY <3>2
  <2> QED
    BY <2>1, <2>2, <2>3
<1> QED
  BY <1>5, <1>6, <1>7 DEF Begins, Strings, w

(* Of a process that has not changed: what has been read is the beginning  *)
(* of its arguments, or the buffer has the size of all there is.           *)
GInv ==
  /\ unix \in {"linux", "macos"}
  /\ ~torn => image \in Programs
  /\ call = "first" => cmdline = <<>>
  /\ ~torn /\ call = "next" /\ unix = "linux" => cmdline \in Strings /\ Begins(cmdline, file)
  /\ ~torn /\ call = "next" /\ unix = "macos" => room = 1 + Len(region)
  /\ ArgsWhole

(* For all programs, chunks, limits and numbers of slots.                  *)
THEOREM ArgsAlwaysWhole == GSpec => []ArgsWhole
<1>1. GInit("first") => GInv
  BY DEF GInit, GInv, ArgsWhole
<1>2. GInv /\ [GNext]_gvars => GInv'
  <2> SUFFICES ASSUME GInv, [GNext]_gvars PROVE GInv'
    OBVIOUS
  <2> USE DEF GInv
  <2>1. ASSUME Exec \/ Exit PROVE GInv'
    BY <2>1 DEF Exec, Exit, Become, ArgsWhole
  <2>2. CASE Open
    <3>1. torn \/ (Begins(cmdline, file) /\ cmdline \in Strings)
      <4> SUFFICES ASSUME ~torn PROVE Begins(cmdline, file) /\ cmdline \in Strings
        OBVIOUS
      <4>1. cmdline = <<>> /\ file \in Strings
        <5>1. PICK o : Lays(image.argv, file, o)
          BY ProgramStrings, JoinedLays DEF file
        <5> QED
          BY <2>2, <5>1 DEF Open, Lays
      <4> QED
        BY <4>1 DEF Begins, Strings
    <3> QED
      BY <2>2, <3>1 DEF Open, ArgsWhole, file
  <2>3. ASSUME OpenFails \/ TooLong \/ SysctlFails PROVE GInv'
    BY <2>3 DEF OpenFails, TooLong, SysctlFails, List, ArgsWhole
  <2>4. CASE ReadChunk
    <3> DEFINE chunk == First(SubSeq(file, Len(cmdline) + 1, Len(file)), Chunk)
               read == cmdline \o chunk
               ends == Len(chunk) < Chunk \/ Len(read) >= CMDLINE_MAX
               X == image.argv
    <3>1. /\ unix = "linux" /\ call = "next" /\ cmdline' = read /\ UNCHANGED <<torn, room, unix, image>>
          /\ ends => args' = Listed(read) /\ call' = "done"
          /\ ~ends => UNCHANGED <<args, call>>
      BY <2>4 DEF ReadChunk, List
    <3>2. ASSUME ~torn
          PROVE  /\ X \in Seq(Strings) /\ NoNul(X) /\ file = Joined(X) /\ file \in Strings
                 /\ read \in Strings /\ Begins(read, file) /\ (Len(chunk) < Chunk => Len(read) = Len(file))
                 /\ Len(read) <= Len(file) /\ Len(read) \in Nat /\ Len(file) \in Nat
      <4>1. X \in Seq(Strings) /\ NoNul(X) /\ cmdline \in Strings /\ Begins(cmdline, file) /\ file = Joined(X)
        BY <3>1, <3>2, ProgramStrings DEF file
      <4>2. file \in Strings
        <5>1. PICK o : Lays(X, file, o)
          BY <4>1, JoinedLays
        <5> QED
          BY <5>1 DEF Lays
      <4>3. chunk = First(SubSeq(file, Len(cmdline) + 1, Len(file)), Chunk)
        OBVIOUS
      <4> HIDE DEF chunk
      <4>4. read \in Strings /\ Begins(read, file) /\ (Len(chunk) < Chunk => Len(read) = Len(file))
        BY <4>1, <4>2, <4>3, ReadBegins
      <4> HIDE DEF read
      <4> QED
        BY <4>1, <4>2, <4>4, StringIs DEF Begins
    <3>3. ASSUME ~torn, ends
          PROVE  /\ IsPrefix(Listed(read), First(Filled(X), MAX_ARGS))
                 /\ Len(file) <= CMDLINE_MAX => Listed(read) = First(Filled(X), MAX_ARGS)
      <4>1. CMDLINE_MAX \in Nat
        BY ArgsAssumption DEF ArgsAssumption
      <4> HIDE DEF read, chunk, X
      <4>2. Len(read) >= CMDLINE_MAX \/ Len(read) = Len(file)
        BY <3>2, <3>3
      <4>3. /\ IsPrefix(Listed(read), First(Filled(X), MAX_ARGS))
            /\ Len(read) = Len(file) => Listed(read) = First(Filled(X), MAX_ARGS)
        BY <3>2, <3>3, <4>2, ListedIs
      <4>4. Len(file) <= CMDLINE_MAX => Len(read) = Len(file)
        BY <3>2, <3>3, <4>1, <4>2
      <4> QED
        BY <4>3, <4>4
    <3> HIDE DEF ends, read
    <3>4. ArgsWhole'
      <4>1. CASE ends
        BY <3>1, <3>3, <4>1 DEF ArgsWhole, file
      <4>2. CASE ~ends
        BY <3>1, <4>2 DEF ArgsWhole
      <4> QED
        BY <4>1, <4>2
    <3> QED
      BY <3>1, <3>2, <3>4 DEF file
  <2>5. CASE ReadFails
    BY <2>5 DEF ReadFails, List, ArgsWhole
  <2>6. CASE Ask
    BY <2>6 DEF Ask, ArgsWhole, region
  <2>7. CASE ReadBlob
    <3> DEFINE most == IF Len(image.argv) < MAX_ARGS THEN Len(image.argv) ELSE MAX_ARGS
               left == Len(region) - (room - 1)
               got == SubSeq(region, IF left > 0 THEN left + 1 ELSE 1, Len(region))
               strings == IF got # <<>> /\ got[1] # 0 THEN Tail(Runs(got)) ELSE Runs(got)
               X == Filled(image.argv) \o Filled(image.env)
    <3>1. unix = "macos" /\ call = "next" /\ args' = First(strings, most) /\ call' = "done"
          /\ UNCHANGED <<unix, image, torn, cmdline, room>>
      BY <2>7 DEF ReadBlob, List
    <3>2. ASSUME ~torn
          PROVE  /\ First(strings, most) = First(First(X, Len(image.argv)), MAX_ARGS)
                 /\ IsPrefix(First(strings, most), First(strings, most))
      <4>1. room = 1 + Len(region) /\ image \in Programs
        BY <3>1, <3>2
      <4>2. region \in Strings /\ region # <<>> /\ region[1] # 0 /\ X \in Seq(Strings) /\ Tail(Runs(region)) = X
        BY <4>1, RegionRuns
      <4>3. Len(region) \in Nat /\ region \in Seq(Nat)
        BY <4>2, StringIs
      <4>4. left = 0
        BY <4>1, <4>3
      <4>5. got = region
        <5> HIDE DEF left
        <5>1. got = SubSeq(region, 1, Len(region))
          BY <4>4
        <5>2. SubSeq(region, 1, Len(region)) = region
          BY <4>3
        <5> QED
          BY <5>1, <5>2
      <4> HIDE DEF got
      <4>6. strings = X
        BY <4>2, <4>5
      <4>7. Len(image.argv) \in Nat /\ MAX_ARGS \in Nat
        BY <4>1, ProgramStrings, ArgsAssumption DEF ArgsAssumption
      <4> HIDE DEF strings, X
      <4>8. First(X, most) = First(First(X, Len(image.argv)), MAX_ARGS)
        BY <4>2, <4>7, FirstFirst
      <4>9. IsPrefix(First(X, most), First(X, most))
        <5> HIDE DEF most
        <5>1. most \in Nat
          BY <4>7 DEF most
        <5>2. First(X, most) \in Seq(Strings)
          BY <4>2, <5>1, FirstIs
        <5>3. Begins(First(X, most), First(X, most))
          BY <5>2 DEF Begins
        <5> QED
          BY <5>2, <5>3, BeginsPrefix
      <4> QED
        BY <4>6, <4>8, <4>9
    <3> HIDE DEF strings, most
    <3> QED
      BY <3>1, <3>2 DEF ArgsWhole
  <2>8. CASE UNCHANGED gvars
    BY <2>8 DEF gvars, ArgsWhole, file, region
  <2> QED
    BY <2>1, <2>2, <2>3, <2>4, <2>5, <2>6, <2>7, <2>8 DEF GNext
<1>3. GInv => ArgsWhole
  BY DEF GInv
<1> QED
  BY <1>1, <1>2, <1>3, PTL DEF GSpec

============================================================================
