------------------------------ MODULE BipBuffer ------------------------------
(***************************************************************************)
(* The operations of CircularBuffer (hearthstone-shared/Network), the two  *)
(* region "bip buffer" every socket keeps for its input and its output, as *)
(* operators on a record.  A buffer is                                     *)
(*     [mem, a, aSize, b, bSize]                                           *)
(* where mem is the allocated block, a and b are the region pointers as    *)
(* offsets from m_buffer (b = NULL when region B does not exist) and       *)
(* aSize, bSize the region sizes.  Region A holds the oldest bytes.        *)
(***************************************************************************)
EXTENDS Integers, Sequences

CONSTANTS Size,   \* the bytes given to Allocate
          Byte    \* the values a byte takes

ASSUME SizeAssumption == Size \in Nat \ {0}
ASSUME ByteAssumption == Byte # {}

NULL == -1
Cells == 0 .. Size - 1

Buffer == [mem : [Cells -> Byte], a : 0 .. Size, aSize : 0 .. Size,
           b : {NULL, 0}, bSize : 0 .. Size]

Least(x, y) == IF x < y THEN x ELSE y

(* Allocate: malloc leaves the block's contents unspecified. *)
Allocate(block) == [mem |-> block, a |-> 0, aSize |-> 0, b |-> NULL, bSize |-> 0]

GetAFreeSpace(c) == Size - c.a - c.aSize
GetSpaceBeforeA(c) == c.a
(* Mutant: the bytes already in B are forgotten. *)
BFreeIgnoringFill(c) == IF c.b = NULL THEN 0 ELSE c.a - c.b
GetBFreeSpace(c) == IF c.b = NULL THEN 0 ELSE c.a - c.b - c.bSize
GetSize(c) == c.aSize + c.bSize
GetContiguiousBytes(c) == IF c.aSize > 0 THEN c.aSize ELSE c.bSize

AllocateB(c) == [c EXCEPT !.b = 0]

(* The choice of region Write and GetSpace share: B is created when the    *)
(* space before A is larger than the space after it.                       *)
ChooseRegion(c) ==
  IF c.b = NULL /\ GetAFreeSpace(c) < GetSpaceBeforeA(c) THEN AllocateB(c) ELSE c

(* What GetSpace returns; its side effect is ChooseRegion. *)
Space(c) == LET d == ChooseRegion(c)
            IN  IF d.b = NULL THEN GetAFreeSpace(d) ELSE GetBFreeSpace(d)

(* GetBuffer: where the next byte goes. *)
GetBuffer(c) == IF c.b = NULL THEN c.a + c.aSize ELSE c.b + c.bSize

(* IncrementWritten: the commit of len bytes stored at GetBuffer. *)
IncrementWritten(c, len) ==
  IF c.b = NULL THEN [c EXCEPT !.aSize = @ + len] ELSE [c EXCEPT !.bSize = @ + len]

(* memcpy of a sequence of bytes to offset p of the block. *)
Store(mem, p, data) ==
  [i \in Cells |-> IF i \in p .. p + Len(data) - 1 THEN data[i - p + 1] ELSE mem[i]]

Append_(c, data) ==
  IncrementWritten([c EXCEPT !.mem = Store(c.mem, GetBuffer(c), data)], Len(data))

(* Write: when the chosen region has no room the call fails, but a region  *)
(* B created by it stays.                                                  *)
(* Mutant: room for one byte is taken for room for all. *)
WriteOKForOne(c, data) == Space(c) > 0
WriteOK(c, data) == Space(c) >= Len(data)
Write(c, data) == IF WriteOK(c, data) THEN Append_(ChooseRegion(c), data) ELSE ChooseRegion(c)

(* Mutants of PromoteB: B's bytes are not moved to the start of the block; *)
(* an emptied A keeps its pointer.                                         *)
PromoteBInPlace(c) ==
  IF c.aSize > 0 THEN c
  ELSE [mem |-> c.mem, a |-> 0, aSize |-> c.bSize, b |-> NULL, bSize |-> 0]
PromoteBKeepingA(c) ==
  IF c.aSize > 0 THEN c
  ELSE IF c.bSize = 0 THEN [c EXCEPT !.b = NULL]
  ELSE [mem |-> c.mem, a |-> 0, aSize |-> c.bSize, b |-> NULL, bSize |-> 0]

(* The block that ends Read and Remove: once A is empty the bytes of B are *)
(* moved to the start of the block and become A.                           *)
PromoteB(c) ==
  IF c.aSize > 0 THEN c
  ELSE [mem   |-> [i \in Cells |-> IF i < c.bSize THEN c.mem[c.b + i] ELSE c.mem[i]],
        a     |-> 0,
        aSize |-> c.bSize,
        b     |-> NULL,
        bSize |-> 0]

(* Remove: cut len bytes from the front, A before B. *)
Remove(c, len) ==
  LET aRem == Least(len, c.aSize)
      bRem == Least(len - aRem, c.bSize)
  IN  PromoteB([mem |-> c.mem, a |-> c.a + aRem, aSize |-> c.aSize - aRem,
                b |-> c.b + bRem, bSize |-> c.bSize - bRem])

(* The bytes held, oldest first: what Read copies out. *)
Contents(c) ==
  [i \in 1 .. GetSize(c) |->
     IF i <= c.aSize THEN c.mem[c.a + i - 1] ELSE c.mem[c.b + i - c.aSize - 1]]

ReadOK(c, bytes) == GetSize(c) >= bytes
Read(c, bytes) == IF ReadOK(c, bytes) THEN Remove(c, bytes) ELSE c
ReadBytes(c, bytes) == IF ReadOK(c, bytes) THEN SubSeq(Contents(c), 1, bytes) ELSE << >>
=============================================================================
