------------------------ MODULE CircularBufferProofs ------------------------
(***************************************************************************)
(* For every block size, every set of byte values and every bound on the   *)
(* length of a call: CircularBuffer keeps its regions in bounds, loses no  *)
(* capacity once drained, and implements the bounded queue of ByteQueue.   *)
(***************************************************************************)
EXTENDS CircularBuffer, SequenceTheorems, TLAPS

-----------------------------------------------------------------------------
(* What the operators of BipBuffer do, for every block size and every set  *)
(* of byte values: they keep the regions in bounds, and on the bytes held  *)
(* a write appends and a removal cuts a prefix, whatever the regions.      *)

(* The regions of a buffer, as arithmetic on its pointers and sizes. *)
Fits(a, s, b, t) ==
  /\ a \in 0 .. Size /\ s \in 0 .. Size /\ t \in 0 .. Size
  /\ b = -1 \/ b = 0
  /\ a + s <= Size
  /\ b = -1 => t = 0
  /\ b = 0 => t <= a /\ s > 0 /\ Size - a - s < a
  /\ s + t = 0 => a = 0

Good(c) == c \in Buffer /\ Fits(c.a, c.aSize, c.b, c.bSize)

USE SizeAssumption

(* Arithmetic of the regions: more bytes in A, more bytes in B, bytes cut  *)
(* from A, and what is left of B made the new A.                           *)
LEMMA FitsMoreA ==
  ASSUME NEW a, NEW s, NEW t, NEW n \in Nat, Fits(a, s, -1, t), n <= Size - a - s
  PROVE  Fits(a, s + n, -1, t)
  BY DEF Fits

LEMMA FitsMoreB ==
  ASSUME NEW a, NEW s, NEW t, NEW n \in Nat, Fits(a, s, 0, t), n <= a - t
  PROVE  Fits(a, s, 0, t + n)
  BY DEF Fits

LEMMA FitsCutA ==
  ASSUME NEW a, NEW s, NEW b, NEW t, NEW x \in Nat, Fits(a, s, b, t), s - x > 0
  PROVE  Fits(a + x, s - x, b, t)
  BY DEF Fits

LEMMA FitsPromote ==
  ASSUME NEW a, NEW s, NEW b, NEW t, NEW y \in Nat, Fits(a, s, b, t), y <= t
  PROVE  Fits(0, t - y, -1, 0)
  BY DEF Fits

(* A record made of fitting pointers and a block of bytes is good. *)
LEMMA MakeGood ==
  ASSUME NEW m \in [Cells -> Byte], NEW a, NEW s, NEW b, NEW t, Fits(a, s, b, t)
  PROVE  Good([mem |-> m, a |-> a, aSize |-> s, b |-> b, bSize |-> t])
<1>1. a \in 0 .. Size /\ s \in 0 .. Size /\ t \in 0 .. Size /\ b \in {-1, 0}
  BY DEF Fits
<1> QED
  BY <1>1 DEF Good, Buffer, NULL

(* A buffer is the record of its five fields. *)
LEMMA BufferFields ==
  ASSUME NEW c \in Buffer
  PROVE  c = [mem |-> c.mem, a |-> c.a, aSize |-> c.aSize, b |-> c.b, bSize |-> c.bSize]
         /\ c.mem \in [Cells -> Byte]
  BY DEF Buffer

(* Creating region B, as Write and GetSpace do, keeps the regions good,    *)
(* touches nothing but B's pointer, and Space is the room of the chosen    *)
(* region.                                                                 *)
LEMMA ChooseGood ==
  ASSUME NEW c, Good(c)
  PROVE  /\ Good(ChooseRegion(c))
         /\ ChooseRegion(c).mem = c.mem /\ ChooseRegion(c).a = c.a
         /\ ChooseRegion(c).aSize = c.aSize /\ ChooseRegion(c).bSize = c.bSize
         /\ Space(c) \in Nat
         /\ ChooseRegion(c).b = -1 => Space(c) = Size - c.a - c.aSize
         /\ ChooseRegion(c).b = 0 => Space(c) = c.a - c.bSize
<1>1. CASE c.b = -1 /\ Size - c.a - c.aSize < c.a
  <2> DEFINE e == [mem |-> c.mem, a |-> c.a, aSize |-> c.aSize, b |-> 0, bSize |-> c.bSize]
  <2>1. ChooseRegion(c) = [c EXCEPT !.b = 0]
    BY <1>1 DEF ChooseRegion, AllocateB, GetAFreeSpace, GetSpaceBeforeA, NULL
  <2>2. ChooseRegion(c) = e
    BY <2>1 DEF Good, Buffer
  <2>3. Fits(c.a, c.aSize, 0, c.bSize)
    BY <1>1 DEF Good, Fits
  <2>4. Good(e)
    BY <2>3, BufferFields, MakeGood DEF Good
  <2>5. Space(c) = c.a - c.bSize
    BY <2>2 DEF Space, GetBFreeSpace, NULL, Good, Fits
  <2> QED
    BY <2>2, <2>3, <2>4, <2>5 DEF Fits
<1>2. CASE ~(c.b = -1 /\ Size - c.a - c.aSize < c.a)
  <2>1. ChooseRegion(c) = c
    BY <1>2 DEF ChooseRegion, GetAFreeSpace, GetSpaceBeforeA, NULL
  <2>2. Space(c) = IF c.b = -1 THEN Size - c.a - c.aSize ELSE c.a - c.b - c.bSize
    BY <2>1 DEF Space, GetBFreeSpace, GetAFreeSpace, NULL
  <2> QED
    BY <1>2, <2>1, <2>2 DEF Good, Fits
<1> QED
  BY <1>1, <1>2

(* Storing a run that fits, as Write and the recv path do: the fields of   *)
(* the buffer that results, with the run put behind the last region.       *)
LEMMA AppendFields ==
  ASSUME NEW c, Good(c), NEW data \in Seq(Byte), Len(data) <= Space(c),
         NEW d, d = ChooseRegion(c), NEW e, e = Append_(d, data)
  PROVE  /\ e.mem = Store(c.mem, GetBuffer(d), data) /\ e.mem \in [Cells -> Byte]
         /\ e.a = c.a /\ e.b = d.b
         /\ \/ /\ d.b = -1 /\ GetBuffer(d) = c.a + c.aSize
               /\ e.aSize = c.aSize + Len(data) /\ e.bSize = c.bSize
            \/ /\ d.b = 0 /\ GetBuffer(d) = c.bSize
               /\ e.aSize = c.aSize /\ e.bSize = c.bSize + Len(data)
         /\ Good(e)
<1> DEFINE n == Len(data)
           m == Store(c.mem, GetBuffer(d), data)
<1>1. /\ Good(c) /\ Good(d)
      /\ d.bSize = c.bSize /\ d.a = c.a /\ d.aSize = c.aSize /\ d.mem = c.mem
      /\ d.b = -1 => n <= Size - d.a - d.aSize
      /\ d.b = 0 => n <= d.a - d.bSize
  BY ChooseGood
<1>2. n \in Nat
  OBVIOUS
<1>3. m \in [Cells -> Byte]
  <2>1. \A i \in Cells, p \in Int : i \in p .. p + Len(data) - 1 => data[i - p + 1] \in Byte
    BY DEF Cells
  <2>2. GetBuffer(d) \in Int
    BY <1>1 DEF Good, Fits, GetBuffer, NULL
  <2> QED
    BY <2>1, <2>2, <1>1 DEF Store, Good, Buffer
<1> HIDE DEF n, m
<1> DEFINE f == [d EXCEPT !.mem = m]
<1>4. f = [mem |-> m, a |-> d.a, aSize |-> d.aSize, b |-> d.b, bSize |-> d.bSize]
  BY <1>1 DEF Good, Buffer
<1>5. e = IncrementWritten(f, n)
  BY <1>1 DEF Append_, n, m
<1> HIDE DEF f
<1>6. CASE d.b = -1
  <2>1. e = [mem |-> m, a |-> d.a, aSize |-> d.aSize + n, b |-> d.b, bSize |-> d.bSize]
    BY <1>4, <1>5, <1>6 DEF IncrementWritten, NULL
  <2>2. Fits(d.a, d.aSize + n, d.b, d.bSize)
    BY <1>1, <1>2, <1>6, FitsMoreA DEF Good
  <2>3. Good(e)
    BY <1>3, <2>1, <2>2, MakeGood
  <2>4. GetBuffer(d) = c.a + c.aSize
    BY <1>1, <1>6 DEF GetBuffer, NULL
  <2> QED
    BY <1>1, <1>3, <1>6, <2>1, <2>3, <2>4 DEF n, m
<1>7. CASE d.b = 0
  <2>1. e = [mem |-> m, a |-> d.a, aSize |-> d.aSize, b |-> d.b, bSize |-> d.bSize + n]
    BY <1>4, <1>5, <1>7 DEF IncrementWritten, NULL
  <2>2. Fits(d.a, d.aSize, d.b, d.bSize + n)
    BY <1>1, <1>2, <1>7, FitsMoreB DEF Good
  <2>3. Good(e)
    BY <1>3, <2>1, <2>2, MakeGood
  <2>4. GetBuffer(d) = c.bSize
    BY <1>1, <1>7 DEF GetBuffer, NULL, Good, Fits
  <2> QED
    BY <1>1, <1>3, <1>7, <2>1, <2>3, <2>4 DEF n, m
<1> QED
  BY <1>1, <1>6, <1>7 DEF Good, Fits

(* Cutting bytes from the front, as Read and Remove do: either A keeps     *)
(* some of its bytes, or what is left of B has become A.                   *)
LEMMA RemoveFields ==
  ASSUME NEW c, Good(c), NEW n \in Nat, NEW e, e = Remove(c, n)
  PROVE  /\ Good(e)
         /\ \/ /\ n < c.aSize /\ e.mem = c.mem
               /\ e.a = c.a + n /\ e.aSize = c.aSize - n
               /\ e.b = c.b /\ e.bSize = c.bSize
            \/ \E y \in 0 .. c.bSize :
               /\ n >= c.aSize /\ y = Least(n - c.aSize, c.bSize)
               /\ e.a = 0 /\ e.aSize = c.bSize - y /\ e.b = -1 /\ e.bSize = 0
               /\ e.mem = [i \in Cells |-> IF i < c.bSize - y THEN c.mem[c.b + y + i]
                                                             ELSE c.mem[i]]
<1> DEFINE x == Least(n, c.aSize)
           y == Least(n - x, c.bSize)
           d == [mem |-> c.mem, a |-> c.a + x, aSize |-> c.aSize - x,
                 b |-> c.b + y, bSize |-> c.bSize - y]
<1>1. e = PromoteB(d)
  BY DEF Remove
<1>2. /\ x \in Nat /\ y \in Nat /\ x <= c.aSize /\ y <= c.bSize
      /\ x < c.aSize => y = 0 /\ x = n /\ n < c.aSize
      /\ x >= c.aSize => x = c.aSize /\ n >= c.aSize
      /\ c.aSize \in Nat /\ c.bSize \in Nat /\ c.a \in Nat /\ c.b \in Int
  BY DEF Least, Good, Fits
<1>3. c.mem \in [Cells -> Byte]
  BY DEF Good, Buffer
<1>4. CASE c.aSize - x > 0
  <2> HIDE DEF x, y
  <2>1. PromoteB(d) = d
    BY <1>4 DEF PromoteB
  <2>2. Fits(c.a + x, c.aSize - x, c.b, c.bSize)
    BY <1>2, <1>4, FitsCutA DEF Good
  <2>3. c.b + y = c.b /\ c.bSize - y = c.bSize /\ x = n /\ n < c.aSize
    BY <1>2, <1>4 DEF Good, Fits
  <2>4. e = [mem |-> c.mem, a |-> c.a + n, aSize |-> c.aSize - n, b |-> c.b, bSize |-> c.bSize]
    BY <1>1, <2>1, <2>3
  <2>5. Good(e)
    BY <1>3, <2>2, <2>3, <2>4, MakeGood
  <2> QED
    BY <2>3, <2>4, <2>5
<1>5. CASE ~(c.aSize - x > 0)
  <2> DEFINE m == [i \in Cells |-> IF i < c.bSize - y THEN c.mem[c.b + y + i] ELSE c.mem[i]]
  <2>0. x = c.aSize /\ n >= c.aSize
    BY <1>2, <1>5
  <2>a. y = Least(n - c.aSize, c.bSize) /\ y \in 0 .. c.bSize
    BY <2>0, <1>2
  <2> HIDE DEF x, y
  <2>1. PromoteB(d) = [mem |-> m, a |-> 0, aSize |-> c.bSize - y, b |-> -1, bSize |-> 0]
    BY <1>5 DEF PromoteB, NULL
  <2>2. \A i \in Cells : i < c.bSize - y => c.b + y + i \in Cells
    BY <1>2 DEF Good, Fits, Cells
  <2>3. m \in [Cells -> Byte]
    BY <1>3, <2>2
  <2>4. Fits(0, c.bSize - y, -1, 0)
    BY <1>2, FitsPromote DEF Good
  <2>5. Good(e)
    <3> HIDE DEF m
    <3> QED
      BY <1>1, <2>1, <2>3, <2>4, MakeGood
  <2>6. e.a = 0 /\ e.aSize = c.bSize - y /\ e.b = -1 /\ e.bSize = 0 /\ e.mem = m
    <3> HIDE DEF m
    <3> QED
      BY <1>1, <2>1
  <2> QED
    BY <2>0, <2>a, <2>5, <2>6
<1> QED
  BY <1>4, <1>5

(* Removing nothing from a buffer that holds bytes changes nothing: what   *)
(* send does when the kernel takes none.                                   *)
LEMMA RemoveNone ==
  ASSUME NEW c, Good(c), GetSize(c) > 0
  PROVE  Remove(c, 0) = c
<1> DEFINE e == Remove(c, 0)
<1> HIDE DEF e
<1>1. c.aSize \in Nat /\ 0 < c.aSize /\ c.a \in Nat
  BY DEF Good, Fits, GetSize
<1>2. /\ Good(e) /\ e.mem = c.mem /\ e.a = c.a + 0 /\ e.aSize = c.aSize - 0
      /\ e.b = c.b /\ e.bSize = c.bSize
  <2>1. \A n \in Nat : n < c.aSize /\ e = Remove(c, n) =>
          /\ Good(e) /\ e.mem = c.mem /\ e.a = c.a + n /\ e.aSize = c.aSize - n
          /\ e.b = c.b /\ e.bSize = c.bSize
    <3> SUFFICES ASSUME NEW n \in Nat, n < c.aSize, e = Remove(c, n)
                 PROVE  /\ Good(e) /\ e.mem = c.mem /\ e.a = c.a + n /\ e.aSize = c.aSize - n
                        /\ e.b = c.b /\ e.bSize = c.bSize
      OBVIOUS
    <3>1. ~(n >= c.aSize)
      BY <1>1
    <3> QED
      BY <3>1, RemoveFields
  <2> QED
    BY <1>1, <2>1 DEF e
<1>3. e = c
  BY <1>1, <1>2, BufferFields DEF Good
<1> QED
  BY <1>3 DEF e

(* The bytes held are a sequence of GetSize bytes (what Read copies). *)
LEMMA ContentsSeq ==
  ASSUME NEW c, Good(c)
  PROVE  /\ Contents(c) \in Seq(Byte)
         /\ GetSize(c) \in Nat
         /\ Len(Contents(c)) = GetSize(c)
<1>1. GetSize(c) \in Nat
  BY DEF Good, Fits, GetSize
<1>2. \A i \in 1 .. GetSize(c) : Contents(c)[i] \in Byte
  <2> SUFFICES ASSUME NEW i \in 1 .. GetSize(c)
               PROVE  Contents(c)[i] \in Byte
    OBVIOUS
  <2>1. /\ i <= c.aSize => c.a + i - 1 \in Cells
        /\ ~(i <= c.aSize) => c.b + i - c.aSize - 1 \in Cells
    BY DEF Good, Fits, GetSize, Cells
  <2> QED
    BY <2>1, <1>1 DEF Contents, Good, Buffer
<1>3. Contents(c) \in [1 .. GetSize(c) -> Byte]
  BY <1>2 DEF Contents
<1> QED
  BY <1>1, <1>3

(* The byte at position i of the bytes held. *)
LEMMA ContentsAt ==
  ASSUME NEW c, Good(c), NEW i \in 1 .. GetSize(c)
  PROVE  Contents(c)[i] = IF i <= c.aSize THEN c.mem[c.a + i - 1]
                                          ELSE c.mem[c.b + i - c.aSize - 1]
  BY DEF Contents

(* Creating region B moves no byte. *)
LEMMA ChooseContents ==
  ASSUME NEW c, Good(c)
  PROVE  Contents(ChooseRegion(c)) = Contents(c) /\ GetSize(ChooseRegion(c)) = GetSize(c)
<1> DEFINE d == ChooseRegion(c)
<1> HIDE DEF d
<1>1. /\ Good(d) /\ d.mem = c.mem /\ d.a = c.a /\ d.aSize = c.aSize /\ d.bSize = c.bSize
  BY ChooseGood DEF d
<1>2. c.bSize > 0 => d.b = c.b
  BY <1>1 DEF Good, Fits
<1>3. GetSize(d) = GetSize(c)
  BY <1>1 DEF GetSize
<1>4. \A i \in 1 .. GetSize(c) : ~(i <= c.aSize) => d.b = c.b
  BY <1>2 DEF Good, Fits, GetSize
<1>5. Contents(d) = Contents(c)
  BY <1>1, <1>3, <1>4 DEF Contents
<1> QED
  BY <1>3, <1>5 DEF d

(* A run that fits goes behind the bytes held (Write, and recv into        *)
(* GetBuffer).                                                             *)
LEMMA AppendContents ==
  ASSUME NEW c, Good(c), NEW data \in Seq(Byte), Len(data) <= Space(c)
  PROVE  /\ Contents(Append_(ChooseRegion(c), data)) = Contents(c) \o data
         /\ GetSize(Append_(ChooseRegion(c), data)) = GetSize(c) + Len(data)
<1> DEFINE d == ChooseRegion(c)
           e == Append_(d, data)
           n == Len(data)
           q == Contents(c)
           r == Contents(e)
<1> HIDE DEF d, e
<1>1. /\ e.mem = Store(c.mem, GetBuffer(d), data)
      /\ e.a = c.a /\ e.b = d.b
      /\ \/ /\ d.b = -1 /\ GetBuffer(d) = c.a + c.aSize
            /\ e.aSize = c.aSize + n /\ e.bSize = c.bSize
         \/ /\ d.b = 0 /\ GetBuffer(d) = c.bSize
            /\ e.aSize = c.aSize /\ e.bSize = c.bSize + n
      /\ Good(e)
  BY AppendFields DEF d, e
<1>2. d.b = -1 => c.bSize = 0
  BY ChooseGood DEF d, Good, Fits
<1>3. n \in Nat /\ Good(c) /\ c.aSize \in Nat /\ c.bSize \in Nat /\ c.a \in Nat
  BY DEF Good, Fits
<1>4. GetSize(e) = GetSize(c) + n
  BY <1>1, <1>3 DEF GetSize
<1>5. /\ q \in Seq(Byte) /\ Len(q) = GetSize(c) /\ r \in Seq(Byte) /\ Len(r) = GetSize(e)
      /\ GetSize(c) \in Nat
  BY <1>1, ContentsSeq
<1>6. \A j \in Cells : e.mem[j] = IF j \in GetBuffer(d) .. GetBuffer(d) + n - 1
                                   THEN data[j - GetBuffer(d) + 1] ELSE c.mem[j]
  BY <1>1 DEF Store
<1>7. \A i \in 1 .. GetSize(e) : r[i] = IF i <= GetSize(c) THEN q[i] ELSE data[i - GetSize(c)]
  <2> SUFFICES ASSUME NEW i \in 1 .. GetSize(e)
               PROVE  r[i] = IF i <= GetSize(c) THEN q[i] ELSE data[i - GetSize(c)]
    OBVIOUS
  <2>1. r[i] = IF i <= e.aSize THEN e.mem[e.a + i - 1] ELSE e.mem[e.b + i - e.aSize - 1]
    BY <1>1, ContentsAt
  <2>2. i <= GetSize(c) =>
          q[i] = IF i <= c.aSize THEN c.mem[c.a + i - 1] ELSE c.mem[c.b + i - c.aSize - 1]
    <3>1. i <= GetSize(c) => i \in 1 .. GetSize(c)
      BY <1>3, <1>4, <1>5
    <3> QED
      BY <3>1, <1>3, ContentsAt
  <2> HIDE DEF n, q, r
  <2>3. CASE d.b = -1
    <3>1. /\ GetBuffer(d) = c.a + c.aSize /\ e.aSize = c.aSize + n /\ c.bSize = 0
          /\ GetSize(c) = c.aSize /\ GetSize(e) = c.aSize + n
      BY <1>1, <1>2, <1>3, <1>4, <2>3 DEF GetSize
    <3>2. r[i] = e.mem[c.a + i - 1] /\ c.a + i - 1 \in Cells
      <4>1. i \in Int /\ i >= 1 /\ i <= c.aSize + n
        BY <3>1, <1>3
      <4>2. r[i] = e.mem[c.a + i - 1]
        BY <4>1, <3>1, <2>1, <1>1
      <4>3. c.a + (c.aSize + n) <= Size
        BY <3>1, <1>1, <1>3 DEF Good, Fits
      <4>4. c.a + i - 1 \in Cells
        BY <4>1, <4>3, <1>3 DEF Cells
      <4> QED
        BY <4>2, <4>4
    <3>3. /\ i <= c.aSize => ~(c.a + i - 1 \in GetBuffer(d) .. GetBuffer(d) + n - 1)
          /\ ~(i <= c.aSize) => /\ c.a + i - 1 \in GetBuffer(d) .. GetBuffer(d) + n - 1
                                /\ (c.a + i - 1) - GetBuffer(d) + 1 = i - c.aSize
      BY <3>1, <1>3
    <3> QED
      BY <3>1, <3>2, <3>3, <1>6, <2>2
  <2>4. CASE d.b = 0
    <3>1. /\ GetBuffer(d) = c.bSize /\ e.aSize = c.aSize /\ e.bSize = c.bSize + n /\ e.b = 0
          /\ GetSize(c) = c.aSize + c.bSize /\ GetSize(e) = c.aSize + c.bSize + n
      BY <1>1, <1>3, <1>4, <2>4 DEF GetSize
    <3>2. c.bSize + n <= c.a /\ c.a + c.aSize <= Size
      BY <1>1, <1>3, <3>1 DEF Good, Fits
    <3>3. CASE i <= c.aSize
      <4>1. /\ c.a + i - 1 \in Cells /\ i <= GetSize(c)
            /\ ~(c.a + i - 1 \in GetBuffer(d) .. GetBuffer(d) + n - 1)
        <5>1. i \in Int /\ i >= 1 /\ Size \in Int
          BY <3>1, <1>3
        <5>2. c.a + i - 1 \in Cells
          BY <5>1, <3>2, <3>3, <1>3 DEF Cells
        <5>3. ~(c.a + i - 1 \in c.bSize .. c.bSize + n - 1)
          BY <5>1, <3>2, <1>3
        <5>4. i <= GetSize(c)
          BY <5>1, <3>1, <3>3, <1>3
        <5> QED
          BY <5>2, <5>3, <5>4, <3>1
      <4>2. r[i] = e.mem[c.a + i - 1]
        BY <3>1, <3>3, <2>1, <1>1
      <4> QED
        BY <4>1, <4>2, <3>3, <1>6, <2>2
    <3>4. CASE ~(i <= c.aSize)
      <4> DEFINE j == i - c.aSize - 1
      <4>1. /\ j \in Cells /\ e.b + i - e.aSize - 1 = j
            /\ i <= GetSize(c) => ~(j \in GetBuffer(d) .. GetBuffer(d) + n - 1)
            /\ ~(i <= GetSize(c)) => /\ j \in GetBuffer(d) .. GetBuffer(d) + n - 1
                                     /\ j - GetBuffer(d) + 1 = i - GetSize(c)
        <5>1. /\ i \in Int /\ i >= 1 /\ i <= c.aSize + c.bSize + n /\ ~(i <= c.aSize)
              /\ n \in Nat /\ c.aSize \in Nat /\ c.bSize \in Nat
          BY <3>1, <3>4, <1>3
        <5>2. c.bSize + n <= Size /\ Size \in Nat
          BY <3>2, <1>3 DEF Good, Fits
        <5>3. j \in Cells
          BY ONLY <5>1, <5>2 DEF Cells, j
        <5>4. e.b + i - e.aSize - 1 = j
          BY ONLY <5>1, <3>1 DEF j
        <5>5. i <= c.aSize + c.bSize => ~(j \in c.bSize .. c.bSize + n - 1)
          BY ONLY <5>1 DEF j
        <5>6. ~(i <= c.aSize + c.bSize) => /\ j \in c.bSize .. c.bSize + n - 1
                                           /\ j - c.bSize + 1 = i - (c.aSize + c.bSize)
          BY ONLY <5>1 DEF j
        <5> HIDE DEF j
        <5> QED
          BY <5>3, <5>4, <5>5, <5>6, <3>1
      <4>2. i <= GetSize(c) => c.b = 0 /\ c.b + i - c.aSize - 1 = j
        BY <3>1, <3>4, <1>3 DEF Good, Fits
      <4>3. r[i] = e.mem[j]
        BY <3>1, <3>4, <4>1, <2>1
      <4> HIDE DEF j
      <4> QED
        BY <4>1, <4>2, <4>3, <3>4, <1>6, <2>2
    <3> QED
      BY <3>3, <3>4
  <2> QED
    BY <1>1, <2>3, <2>4
<1> HIDE DEF q, r
<1>8. r = q \o data
  BY <1>3, <1>4, <1>5, <1>7, SMTT(20)
<1> QED
  BY <1>4, <1>8 DEF q, r, d, e

(* Removing n bytes leaves the bytes held without their first n (Read and  *)
(* Remove, the moving of B to the start of the block included).            *)
LEMMA RemoveContents ==
  ASSUME NEW c, Good(c), NEW n \in Nat, n <= GetSize(c)
  PROVE  /\ Contents(Remove(c, n)) = SubSeq(Contents(c), n + 1, Len(Contents(c)))
         /\ GetSize(Remove(c, n)) = GetSize(c) - n
<1> DEFINE e == Remove(c, n)
           q == Contents(c)
           r == Contents(e)
<1> HIDE DEF e
<1>1. /\ Good(c) /\ Good(e)
      /\ \/ /\ n < c.aSize /\ e.mem = c.mem
            /\ e.a = c.a + n /\ e.aSize = c.aSize - n
            /\ e.b = c.b /\ e.bSize = c.bSize
         \/ \E y \in 0 .. c.bSize :
            /\ n >= c.aSize /\ y = Least(n - c.aSize, c.bSize)
            /\ e.a = 0 /\ e.aSize = c.bSize - y /\ e.b = -1 /\ e.bSize = 0
            /\ e.mem = [i \in Cells |-> IF i < c.bSize - y THEN c.mem[c.b + y + i]
                                                          ELSE c.mem[i]]
  BY RemoveFields DEF e
<1>2. /\ c.aSize \in Nat /\ c.bSize \in Nat /\ c.a \in Nat /\ c.b \in Int
      /\ GetSize(c) = c.aSize + c.bSize
  BY DEF Good, Fits, GetSize
<1>3. /\ q \in Seq(Byte) /\ Len(q) = GetSize(c) /\ r \in Seq(Byte) /\ Len(r) = GetSize(e)
      /\ GetSize(c) \in Nat
  BY <1>1, ContentsSeq
<1>4. GetSize(e) = GetSize(c) - n /\ \A i \in 1 .. GetSize(e) : r[i] = q[n + i]
  <2>1. CASE n < c.aSize /\ e.mem = c.mem /\ e.a = c.a + n /\ e.aSize = c.aSize - n
             /\ e.b = c.b /\ e.bSize = c.bSize
    <3>1. GetSize(e) = GetSize(c) - n
      BY <2>1, <1>2 DEF GetSize
    <3>2. ASSUME NEW i \in 1 .. GetSize(e)
          PROVE  r[i] = q[n + i]
      <4>1. n + i \in 1 .. GetSize(c)
        BY <3>1, <1>2
      <4>2. r[i] = IF i <= e.aSize THEN e.mem[e.a + i - 1] ELSE e.mem[e.b + i - e.aSize - 1]
        BY <1>1, ContentsAt
      <4>3. q[n + i] = IF n + i <= c.aSize THEN c.mem[c.a + (n + i) - 1]
                                           ELSE c.mem[c.b + (n + i) - c.aSize - 1]
        BY <1>1, <4>1, ContentsAt
      <4> HIDE DEF q, r
      <4>4. /\ e.a + i - 1 = c.a + (n + i) - 1
            /\ e.b + i - e.aSize - 1 = c.b + (n + i) - c.aSize - 1
            /\ i <= e.aSize <=> n + i <= c.aSize
        BY <2>1, <1>2, <3>1
      <4> QED
        BY <2>1, <4>2, <4>3, <4>4
    <3> QED
      BY <3>1, <3>2
  <2>2. CASE \E y \in 0 .. c.bSize :
            /\ n >= c.aSize /\ y = Least(n - c.aSize, c.bSize)
            /\ e.a = 0 /\ e.aSize = c.bSize - y /\ e.b = -1 /\ e.bSize = 0
            /\ e.mem = [i \in Cells |-> IF i < c.bSize - y THEN c.mem[c.b + y + i]
                                                          ELSE c.mem[i]]
    <3>1. PICK y \in 0 .. c.bSize :
            /\ n >= c.aSize /\ y = Least(n - c.aSize, c.bSize)
            /\ e.a = 0 /\ e.aSize = c.bSize - y /\ e.b = -1 /\ e.bSize = 0
            /\ e.mem = [i \in Cells |-> IF i < c.bSize - y THEN c.mem[c.b + y + i]
                                                          ELSE c.mem[i]]
      BY <2>2
    <3>2. y = n - c.aSize /\ GetSize(e) = GetSize(c) - n /\ GetSize(e) = c.bSize - y
      BY <3>1, <1>2 DEF Least, GetSize
    <3>3. ASSUME NEW i \in 1 .. GetSize(e)
          PROVE  r[i] = q[n + i]
      <4>1. n + i \in 1 .. GetSize(c) /\ i <= e.aSize /\ ~(n + i <= c.aSize)
        BY <3>1, <3>2, <1>2
      <4>2. r[i] = e.mem[e.a + i - 1]
        BY <1>1, <4>1, ContentsAt
      <4>3. q[n + i] = c.mem[c.b + (n + i) - c.aSize - 1]
        BY <1>1, <4>1, ContentsAt
      <4> HIDE DEF q, r
      <4>4. /\ e.a + i - 1 = i - 1 /\ i - 1 \in Cells /\ i - 1 < c.bSize - y
            /\ c.b + y + (i - 1) = c.b + (n + i) - c.aSize - 1
        <5>1. c.bSize <= Size /\ i \in 1 .. c.bSize - y /\ y = n - c.aSize /\ e.a = 0
          BY <3>1, <3>2, <1>1 DEF Good, Fits
        <5> QED
          BY <5>1, <1>2 DEF Cells
      <4> QED
        BY <3>1, <4>2, <4>3, <4>4
    <3> QED
      BY <3>2, <3>3
  <2> QED
    BY <1>1, <2>1, <2>2
<1> HIDE DEF q, r
<1>5. r = SubSeq(q, n + 1, Len(q))
  <2>1. /\ SubSeq(q, n + 1, Len(q)) \in Seq(Byte)
        /\ Len(SubSeq(q, n + 1, Len(q))) = Len(q) - n
        /\ \A i \in 1 .. Len(q) - n : SubSeq(q, n + 1, Len(q))[i] = q[n + i]
    BY <1>3
  <2> QED
    BY <1>3, <1>4, <2>1, SeqEqual
<1> QED
  BY <1>4, <1>5 DEF q, r, e

(* The bytes held never exceed the block. *)
LEMMA SizeBound ==
  ASSUME NEW c, Good(c)
  PROVE  GetSize(c) <= Size
  BY DEF Good, Fits, GetSize

(* A fresh buffer is good and holds nothing. *)
LEMMA AllocateGood ==
  ASSUME NEW block \in [Cells -> Byte]
  PROVE  Good(Allocate(block)) /\ Contents(Allocate(block)) = << >>
<1>1. Fits(0, 0, -1, 0)
  BY DEF Fits
<1>2. Good(Allocate(block))
  BY <1>1, MakeGood DEF Allocate, NULL
<1>3. GetSize(Allocate(block)) = 0
  BY DEF Allocate, GetSize
<1>4. Contents(Allocate(block)) \in Seq(Byte) /\ Len(Contents(Allocate(block))) = 0
  BY <1>2, <1>3, ContentsSeq
<1> QED
  BY <1>2, <1>4, EmptySeq

(* Write: a run that fits is appended, one that does not changes nothing   *)
(* of what is held.                                                        *)
LEMMA WriteContents ==
  ASSUME NEW c, Good(c), NEW data \in Seq(Byte)
  PROVE  /\ Good(Write(c, data))
         /\ WriteOK(c, data) => /\ Contents(Write(c, data)) = Contents(c) \o data
                                /\ GetSize(Write(c, data)) = GetSize(c) + Len(data)
         /\ ~WriteOK(c, data) => /\ Contents(Write(c, data)) = Contents(c)
                                 /\ GetSize(Write(c, data)) = GetSize(c)
<1>1. CASE WriteOK(c, data)
  <2>1. Len(data) <= Space(c)
    BY <1>1, ChooseGood DEF WriteOK
  <2>2. Write(c, data) = Append_(ChooseRegion(c), data)
    BY <1>1 DEF Write
  <2>3. Good(Append_(ChooseRegion(c), data))
    BY <2>1, AppendFields
  <2> QED
    BY <1>1, <2>1, <2>2, <2>3, AppendContents
<1>2. CASE ~WriteOK(c, data)
  <2>1. Write(c, data) = ChooseRegion(c)
    BY <1>2 DEF Write
  <2> QED
    BY <1>2, <2>1, ChooseGood, ChooseContents
<1> QED
  BY <1>1, <1>2

(* A read returns a sequence of the bytes held. *)
LEMMA ReadBytesSeq ==
  ASSUME NEW c, Good(c), NEW n \in Nat
  PROVE  ReadBytes(c, n) \in Seq(Byte)
<1>1. Contents(c) \in Seq(Byte) /\ Len(Contents(c)) = GetSize(c) /\ GetSize(c) \in Nat
  BY ContentsSeq
<1>2. CASE ReadOK(c, n)
  <2>1. n <= GetSize(c)
    BY <1>1, <1>2 DEF ReadOK
  <2> DEFINE q == Contents(c)
  <2> HIDE DEF q
  <2>2. q \in Seq(Byte) /\ n <= Len(q)
    BY <1>1, <2>1 DEF q
  <2>3. SubSeq(q, 1, n) \in Seq(Byte)
    BY <2>2
  <2> QED
    BY <1>2, <2>3 DEF ReadBytes, q
<1>3. CASE ~ReadOK(c, n)
  BY <1>3 DEF ReadBytes
<1> QED
  BY <1>2, <1>3

-----------------------------------------------------------------------------
(* The component. *)

(* The inductive invariant: well-typed, in-bounds regions, with B only     *)
(* beside an A that has less room after it than before it, and A back at   *)
(* the start of the block when nothing is held.                            *)
IInv == TypeOK /\ RegionInv

(* IInv says of buf what Good says of a buffer. *)
LEMMA GoodIsInv == IInv <=> Good(buf) /\ taken \in Seq(Byte)
  BY DEF IInv, TypeOK, RegionInv, RegionsInBounds, BOnlyWhenLarger, Good, GetSize,
         GetAFreeSpace, GetSpaceBeforeA, Fits, Buffer, NULL

(* The runs of bytes the calls pass are sequences no longer than MaxRun. *)
LEMMA RunsAreSeqs ==
  ASSUME NEW data \in Runs
  PROVE  data \in Seq(Byte)
<1>1. PICK n \in 0 .. MaxRun : data \in [1 .. n -> Byte]
  BY DEF Runs
<1> QED
  BY <1>1, MaxRunAssumption

-----------------------------------------------------------------------------
(* The allocated, empty buffer satisfies the invariant (Allocate). *)
LEMMA InitInv == Init => IInv
<1> SUFFICES ASSUME NEW block \in [Cells -> Byte], buf = Allocate(block), taken = << >>
             PROVE  IInv
  BY DEF Init
<1> QED
  BY AllocateGood, GoodIsInv

(* Every call keeps the invariant. *)
LEMMA NextInv == IInv /\ [Next]_vars => IInv'
<1> SUFFICES ASSUME IInv, [Next]_vars
             PROVE  Good(buf') /\ taken' \in Seq(Byte)
  BY DEF IInv, TypeOK, RegionInv, RegionsInBounds, BOnlyWhenLarger, Good, GetSize,
         GetAFreeSpace, GetSpaceBeforeA, Fits, Buffer, NULL
<1>1. Good(buf) /\ taken \in Seq(Byte)
  BY GoodIsInv
<1>2. CASE DoWrite
  <2>1. PICK data \in Runs : buf' = Write(buf, data) /\ taken' = taken
    BY <1>2 DEF DoWrite
  <2>2. data \in Seq(Byte)
    BY RunsAreSeqs
  <2> QED
    BY <1>1, <2>1, <2>2, WriteContents
<1>3. CASE DoRecv
  <2>1. PICK data \in Runs : /\ Len(data) <= Space(buf)
                             /\ buf' = Append_(ChooseRegion(buf), data)
                             /\ taken' = taken
    BY <1>3 DEF DoRecv
  <2> QED
    BY <1>1, <2>1, RunsAreSeqs, AppendFields
<1>4. CASE DoRead
  <2>1. PICK n \in 0 .. MaxRun :
          /\ buf' = Read(buf, n)
          /\ taken' = IF ReadOK(buf, n) THEN ReadBytes(buf, n) ELSE taken
    BY <1>4 DEF DoRead
  <2>2. n \in Nat
    BY MaxRunAssumption
  <2>3. Good(buf')
    BY <1>1, <2>1, <2>2, RemoveFields DEF Read
  <2>4. taken' \in Seq(Byte)
    BY <1>1, <2>1, <2>2, ReadBytesSeq
  <2> QED
    BY <2>3, <2>4
<1>5. CASE DoRemove
  <2>1. GetContiguiousBytes(buf) \in Nat
    BY <1>1 DEF Good, Fits, GetContiguiousBytes
  <2>2. PICK n \in 1 .. GetContiguiousBytes(buf) : buf' = Remove(buf, n) /\ taken' = taken
    BY <1>5 DEF DoRemove
  <2> QED
    BY <1>1, <2>1, <2>2, RemoveFields
<1>6. CASE UNCHANGED vars
  BY <1>1, <1>6 DEF vars
<1> QED
  BY <1>2, <1>3, <1>4, <1>5, <1>6 DEF Next

(* The invariant holds of every reachable buffer. *)
THEOREM Invariant == Spec => []IInv
  BY InitInv, NextInv, PTL DEF Spec

(* The buffer stays well typed under every sequence of calls, whatever the *)
(* block size: no pointer or size leaves 0 .. Size.                        *)
THEOREM TypeCorrect == Spec => []TypeOK
<1>1. IInv => TypeOK
  BY DEF IInv
<1> QED
  BY <1>1, Invariant, PTL

(* No region leaves the block or runs into the other, so no subtraction of *)
(* CircularBuffer.h underflows and no memcpy writes outside the block.     *)
THEOREM Bounds == Spec => []RegionsInBounds
<1>1. IInv => RegionsInBounds
  BY DEF IInv, RegionInv
<1> QED
  BY <1>1, Invariant, PTL

(* A drained buffer offers its whole block to the next Write. *)
THEOREM Drained == Spec => []DrainedIsWhole
<1>1. IInv => DrainedIsWhole
  <2> SUFFICES ASSUME Good(buf), GetSize(buf) = 0
               PROVE  Space(buf) = Size
    BY GoodIsInv DEF DrainedIsWhole
  <2>1. buf.a = 0 /\ buf.aSize = 0 /\ buf.bSize = 0 /\ buf.b = -1
    BY DEF Good, Fits, GetSize
  <2>2. ChooseRegion(buf) = buf
    BY <2>1 DEF ChooseRegion, GetAFreeSpace, GetSpaceBeforeA
  <2> QED
    BY <2>1, <2>2 DEF Space, GetAFreeSpace, NULL
<1> QED
  BY <1>1, Invariant, PTL

(* Region B exists only beside a non-empty A with the smaller gap after it. *)
THEOREM LargerGap == Spec => []BOnlyWhenLarger
<1>1. IInv => BOnlyWhenLarger
  BY DEF IInv, RegionInv
<1> QED
  BY <1>1, Invariant, PTL
-----------------------------------------------------------------------------
(* A fresh buffer is the empty queue. *)
LEMMA InitRefines == Init => Fifo!Init
<1> SUFFICES ASSUME NEW block \in [Cells -> Byte], buf = Allocate(block), taken = << >>
             PROVE  Contents(buf) = << >> /\ taken = << >>
  BY DEF Init, Fifo!Init
<1> QED
  BY AllocateGood

(* A write that succeeds, and a recv, is a Put; one that fails is no step  *)
(* of the queue.                                                           *)
LEMMA PutFits ==
  ASSUME NEW c, Good(c), NEW data \in Seq(Byte), NEW e, Good(e),
         GetSize(e) = GetSize(c) + Len(data)
  PROVE  Len(data) \in 0 .. Size - Len(Contents(c)) /\ data \in [1 .. Len(data) -> Byte]
<1>1. GetSize(c) \in Nat /\ Len(Contents(c)) = GetSize(c) /\ GetSize(e) <= Size
  BY ContentsSeq, SizeBound
<1>2. Len(data) \in 0 .. Size - Len(Contents(c))
  BY <1>1
<1>3. data \in [1 .. Len(data) -> Byte]
  OBVIOUS
<1> QED
  BY <1>2, <1>3

(* Every call is one step of the queue or leaves it alone. *)
LEMMA NextRefines == IInv /\ [Next]_vars => [Fifo!Next]_<<Contents(buf), taken>>
<1> SUFFICES ASSUME IInv, [Next]_vars
             PROVE  Fifo!Next \/ (Contents(buf)' = Contents(buf) /\ taken' = taken)
  OBVIOUS
<1>1. Good(buf) /\ taken \in Seq(Byte)
  BY GoodIsInv
<1>2. Contents(buf) \in Seq(Byte) /\ GetSize(buf) \in Nat /\ Len(Contents(buf)) = GetSize(buf)
  BY <1>1, ContentsSeq
<1>3. Contents(buf)' = Contents(buf')
  BY DEF Contents, GetSize
<1>4. CASE DoWrite
  <2>1. PICK data \in Runs : buf' = Write(buf, data) /\ taken' = taken
    BY <1>4 DEF DoWrite
  <2>2. data \in Seq(Byte)
    BY RunsAreSeqs
  <2>3. CASE WriteOK(buf, data)
    <3>1. /\ Good(buf') /\ Contents(buf') = Contents(buf) \o data
          /\ GetSize(buf') = GetSize(buf) + Len(data)
      BY <1>1, <2>1, <2>2, <2>3, WriteContents
    <3>2. Len(data) \in 0 .. Size - Len(Contents(buf)) /\ data \in [1 .. Len(data) -> Byte]
      BY <1>1, <2>2, <3>1, PutFits
    <3> QED
      BY <1>3, <2>1, <3>1, <3>2 DEF Fifo!Next, Fifo!Put
  <2>4. CASE ~WriteOK(buf, data)
    BY <1>1, <1>3, <2>1, <2>2, <2>4, WriteContents
  <2> QED
    BY <2>3, <2>4
<1>5. CASE DoRecv
  <2>1. PICK data \in Runs : /\ Len(data) <= Space(buf)
                             /\ buf' = Append_(ChooseRegion(buf), data)
                             /\ taken' = taken
    BY <1>5 DEF DoRecv
  <2>2. data \in Seq(Byte)
    BY RunsAreSeqs
  <2>3. /\ Good(buf') /\ Contents(buf') = Contents(buf) \o data
        /\ GetSize(buf') = GetSize(buf) + Len(data)
    BY <1>1, <2>1, <2>2, AppendFields, AppendContents
  <2>4. Len(data) \in 0 .. Size - Len(Contents(buf)) /\ data \in [1 .. Len(data) -> Byte]
    BY <1>1, <2>2, <2>3, PutFits
  <2> QED
    BY <1>3, <2>1, <2>3, <2>4 DEF Fifo!Next, Fifo!Put
<1>6. CASE DoRead
  <2>1. PICK n \in 0 .. MaxRun :
          /\ buf' = Read(buf, n)
          /\ taken' = IF ReadOK(buf, n) THEN ReadBytes(buf, n) ELSE taken
    BY <1>6 DEF DoRead
  <2>2. n \in Nat
    BY MaxRunAssumption
  <2>3. CASE ReadOK(buf, n)
    <3>1. n \in 0 .. Len(Contents(buf)) /\ n <= GetSize(buf)
      BY <1>2, <2>2, <2>3 DEF ReadOK
    <3>2. buf' = Remove(buf, n) /\ taken' = SubSeq(Contents(buf), 1, n)
      BY <2>1, <2>3 DEF Read, ReadBytes
    <3>3. Contents(buf') = SubSeq(Contents(buf), n + 1, Len(Contents(buf)))
      BY <1>1, <2>2, <3>1, <3>2, RemoveContents
    <3> QED
      BY <1>3, <3>1, <3>2, <3>3 DEF Fifo!Next, Fifo!Get
  <2>4. CASE ~ReadOK(buf, n)
    BY <1>3, <2>1, <2>4 DEF Read
  <2> QED
    BY <2>3, <2>4
<1>7. CASE DoRemove
  <2>1. GetContiguiousBytes(buf) \in Nat /\ GetContiguiousBytes(buf) <= GetSize(buf)
    BY <1>1 DEF Good, Fits, GetContiguiousBytes, GetSize
  <2>2. PICK n \in 1 .. GetContiguiousBytes(buf) : buf' = Remove(buf, n) /\ taken' = taken
    BY <1>7 DEF DoRemove
  <2>3. n \in Nat /\ n \in 0 .. Len(Contents(buf)) /\ n <= GetSize(buf)
    BY <1>2, <2>1
  <2>4. Contents(buf') = SubSeq(Contents(buf), n + 1, Len(Contents(buf)))
    BY <1>1, <2>2, <2>3, RemoveContents
  <2> QED
    BY <1>3, <2>2, <2>3, <2>4 DEF Fifo!Next, Fifo!Cut
<1>8. CASE UNCHANGED vars
  BY <1>3, <1>8 DEF vars
<1> QED
  BY <1>4, <1>5, <1>6, <1>7, <1>8 DEF Next

(* CircularBuffer implements the bounded queue of bytes: whatever the      *)
(* block size and the calls, the bytes come out in the order they went in, *)
(* and none is lost, repeated or invented when a region is created, moved  *)
(* or dropped.                                                             *)
THEOREM Refinement == Spec => FifoSpec
  BY Invariant, InitRefines, NextRefines, PTL DEF Spec, FifoSpec, Fifo!Spec
=============================================================================
