---------------------------- MODULE Buffer_proofs ----------------------------
(* The bytes of one connection.  First the safety of Buffer for every size   *)
(* of the buffer, any number of frames and any lengths, negative ones among  *)
(* them, provided that strncpy copies those that are not negative whole;     *)
(* then that of Transfer for every sequence of frames, every length of them, *)
(* and every way in which TCP cuts the streams.                              *)
EXTENDS Buffer, Transfer, FiniteSetTheorems, TLAPS

Record == [size : Nat, r : Nat, w : Nat]
Ordered(b) == K <= b.r /\ b.r <= b.w /\ b.w <= b.size

(* What ensureWritableBytes gives a buffer in order that holds at most a     *)
(* length: room for n bytes, the same readable bytes, no failed assert.      *)
LEMMA Ensured ==
    ASSUME NEW b \in Record, NEW n \in Nat, Ordered(b), b.size >= K + Initial
    PROVE  LET e == ensureWritableBytes(b, n)
           IN  /\ e \in Record /\ Ordered(e) /\ ~EnsureFails(b, n)
               /\ e.size - e.w >= n
               /\ e.w - e.r = b.w - b.r
               /\ e.size >= b.size
               /\ e.size = b.size \/ e.size <= 2 * n + K + (b.w - b.r)
               /\ b.r = b.w /\ n <= Initial => e.size = b.size
<1> USE SizesAssumption DEF Record, Ordered
<1>1. b.size \in Nat /\ b.r \in Nat /\ b.w \in Nat
  OBVIOUS
<1>2. CASE writableBytes(b) >= n
  <2>1. ensureWritableBytes(b, n) = b
    BY <1>1, <1>2 DEF ensureWritableBytes, writableBytes
  <2> QED
    BY <1>1, <1>2, <2>1 DEF EnsureFails, writableBytes
<1>3. CASE writableBytes(b) < n /\ Grows(b, n)
  <2>1. ensureWritableBytes(b, n) = [b EXCEPT !.size = b.w + n]
    BY <1>3 DEF ensureWritableBytes, makeSpace, Resized
  <2>2. b.size - b.w < n /\ b.size - b.w + b.r < n + K
    BY <1>3 DEF Grows, writableBytes
  <2>3. [b EXCEPT !.size = b.w + n] = [size |-> b.w + n, r |-> b.r, w |-> b.w]
    OBVIOUS
  <2> QED
    BY <1>1, <1>3, <2>1, <2>2, <2>3 DEF EnsureFails, writableBytes
<1>4. CASE writableBytes(b) < n /\ ~Grows(b, n)
  <2>1. ensureWritableBytes(b, n)
            = [size |-> b.size, r |-> K, w |-> K + (b.w - b.r)]
    BY <1>4 DEF ensureWritableBytes, makeSpace, Moved, readableBytes
  <2>2. b.size - b.w < n /\ b.size - b.w + b.r >= n + K
    BY <1>1, <1>4 DEF Grows, writableBytes
  <2> QED
    BY <1>1, <1>4, <2>1, <2>2 DEF EnsureFails, writableBytes
<1> QED
  BY <1>1, <1>2, <1>3, <1>4 DEF writableBytes

(* The bound on the vector.                                                  *)
Small(b) == b.size <= K + Initial \/ b.size <= 2 * MaxLen + K + IntBytes

(* A frame of n bytes appended to an empty buffer is all that it holds.      *)
LEMMA FrameAppended ==
    ASSUME NEW b \in Record, NEW n \in 0 .. MaxLen,
           Ordered(b), b.r = b.w, b.size >= K + Initial, Small(b)
    PROVE  LET e == AppendFrame(b, n)
           IN  /\ e \in Record /\ Ordered(e) /\ e.size >= K + Initial /\ Small(e)
               /\ e.w = e.r + IntBytes + n
               /\ AppendFails(b, n) = FALSE
<1> USE SizesAssumption, LensAssumption
<1> DEFINE b1 == ensureWritableBytes(b, IntBytes)
           b2 == [b1 EXCEPT !.w = @ + IntBytes]
           b3 == ensureWritableBytes(b2, n)
           b4 == [b3 EXCEPT !.w = @ + n]
<1>1. n \in Nat /\ n <= MaxLen /\ IntBytes \in Nat /\ IntBytes <= Initial
  OBVIOUS
<1>2. /\ b1 \in Record /\ Ordered(b1) /\ ~EnsureFails(b, IntBytes)
      /\ b1.size - b1.w >= IntBytes /\ b1.w = b1.r /\ b1.size = b.size
  <2>1. b.w - b.r = 0
    BY DEF Record
  <2>2. /\ b1 \in Record /\ Ordered(b1) /\ ~EnsureFails(b, IntBytes)
        /\ b1.size - b1.w >= IntBytes /\ b1.w - b1.r = 0 /\ b1.size = b.size
    BY <1>1, <2>1, Ensured
  <2> QED
    BY <2>2 DEF Record
<1>3. /\ b2 \in Record /\ Ordered(b2) /\ b2.w - b2.r = IntBytes /\ b2.size = b.size
  <2>1. b2 = [size |-> b1.size, r |-> b1.r, w |-> b1.w + IntBytes]
    BY <1>2 DEF Record
  <2> QED
    BY <1>1, <1>2, <2>1 DEF Record, Ordered
<1>4. /\ b3 \in Record /\ Ordered(b3) /\ ~EnsureFails(b2, n)
      /\ b3.size - b3.w >= n /\ b3.w - b3.r = IntBytes
      /\ b3.size >= b2.size
      /\ b3.size = b2.size \/ b3.size <= 2 * n + K + IntBytes
  <2> HIDE DEF b1, b2
  <2> QED
    BY <1>1, <1>3, Ensured
<1>5. /\ b4 = [size |-> b3.size, r |-> b3.r, w |-> b3.w + n]
      /\ b3.size \in Nat /\ b3.r \in Nat /\ b3.w \in Nat
  BY <1>4 DEF Record
<1>6. b4 \in Record /\ Ordered(b4) /\ b4.w = b4.r + IntBytes + n /\ b4.size = b3.size
  <2> HIDE DEF b3, b4
  <2> QED
    BY <1>1, <1>4, <1>5 DEF Record, Ordered
<1>7. b4.size >= K + Initial /\ Small(b4)
  <2> HIDE DEF b2, b3, b4
  <2>1. b.size \in Nat /\ b4.size \in Nat
    BY <1>6 DEF Record
  <2> QED
    BY <1>1, <1>3, <1>4, <1>6, <2>1 DEF Small
<1>8. AppendFrame(b, n) = b4 /\ AppendFails(b, n) = FALSE
  BY <1>2, <1>4 DEF AppendFrame, AppendFails, append
<1> HIDE DEF b4
<1> QED
  BY <1>6, <1>7, <1>8
-----------------------------------------------------------------------------
(* The inductive invariant: the buffer holds nothing when read() comes and   *)
(* exactly one frame when task() or write() comes, or it is out of use since *)
(* a negative length came.                                                   *)
InUse == /\ TypeOK /\ Ordered(buf) /\ buf.size >= K + Initial /\ Small(buf)
         /\ aborted = FALSE /\ overrun = FALSE /\ aligned = TRUE /\ len >= 0
         /\ phase = "read" => buf.r = buf.w
         /\ phase # "read" => len \in Lens /\ buf.w = buf.r + IntBytes + len

OutOfUse == /\ TypeOK /\ Small(buf) /\ ~Sound
            /\ len < 0 /\ aligned = TRUE /\ phase = "task"

IInv == InUse \/ OutOfUse

(* An empty buffer satisfies the inductive invariant.                        *)
LEMMA InitIInv == Init => InUse
<1> SUFFICES ASSUME Init PROVE InUse
  OBVIOUS
<1> USE SizesAssumption, LensAssumption
<1>1. buf = [size |-> K + Initial, r |-> K, w |-> K]
  BY DEF Init
<1>2. K \in Nat /\ K + Initial \in Nat /\ K <= K + Initial
  OBVIOUS
<1>3. phase = "read" /\ len = 0 /\ aligned = TRUE /\ overrun = FALSE /\ aborted = FALSE
  BY DEF Init
<1>4. TypeOK
  BY <1>1, <1>2, <1>3 DEF TypeOK
<1>5. Ordered(buf) /\ buf.size >= K + Initial /\ Small(buf) /\ buf.r = buf.w
  BY <1>1, <1>2 DEF Ordered, Small
<1> QED
  BY <1>3, <1>4, <1>5 DEF InUse

(* Taking the one frame out empties the buffer.                              *)
LEMMA FrameConsumed ==
    ASSUME InUse, phase # "read"
    PROVE  LET e == hasReaden(buf, Consumed(len))
           IN  /\ e \in Record /\ Ordered(e) /\ e.r = e.w /\ e.size = buf.size
               /\ (IntBytes + len > readableBytes(buf)) = FALSE
<1> USE SizesAssumption, LensAssumption
<1>1. /\ buf.size \in Nat /\ buf.r \in Nat /\ buf.w \in Nat /\ len \in Nat
      /\ buf.w = buf.r + IntBytes + len
  BY DEF InUse, TypeOK
<1>2. hasReaden(buf, Consumed(len))
        = [size |-> buf.size, r |-> buf.r + (IntBytes + len), w |-> buf.w]
  BY DEF hasReaden, Consumed, InUse, TypeOK
<1>3. Ordered(buf)
  BY DEF InUse
<1> QED
  BY <1>1, <1>2, <1>3 DEF Record, Ordered, readableBytes

(* Every step keeps the invariant when strncpy copies the lengths whole.     *)
LEMMA UseStep == ASSUME IntactLens, InUse, [Next]_vars PROVE IInv'
<1> USE SizesAssumption, LensAssumption
<1>1. ASSUME NEW n \in Lens, n >= 0, Read(n) PROVE InUse'
  <2>1. /\ phase = "read" /\ buf.r = buf.w /\ buf \in Record /\ n \in 0 .. MaxLen
        /\ Ordered(buf) /\ buf.size >= K + Initial /\ Small(buf)
    BY <1>1 DEF Read, InUse, TypeOK, Record
  <2>2. ~(n < 0)
    BY <1>1
  <2>3. /\ buf' = AppendFrame(buf, n) /\ aborted' = AppendFails(buf, n)
        /\ aligned' = (aligned /\ readableBytes(buf) = 0)
        /\ overrun' = overrun /\ len' = n /\ phase' = "task"
    BY <1>1, <2>2, Zenon DEF Read
  <2>4. /\ buf' \in Record /\ Ordered(buf') /\ buf'.size >= K + Initial
        /\ Small(buf') /\ buf'.w = buf'.r + IntBytes + n /\ AppendFails(buf, n) = FALSE
    BY <2>1, <2>3, FrameAppended
  <2>5. readableBytes(buf) = 0
    BY <2>1 DEF readableBytes, Record
  <2>6. /\ aborted' = FALSE /\ overrun' = FALSE /\ aligned' = TRUE
        /\ len' = n /\ phase' = "task"
    BY <2>3, <2>4, <2>5, Zenon DEF InUse
  <2>7. n \in Lens
    BY <1>1
  <2>8. TypeOK'
    BY <2>4, <2>6, <2>7 DEF TypeOK, Record
  <2> QED
    BY <1>1, <2>4, <2>6, <2>8 DEF InUse, Ordered, Small
<1>2. ASSUME phase # "read" PROVE HeadValues = {len} /\ len \in Nat
  <2>1. aligned = TRUE /\ len \in Lens \cap Nat
    <3>1. aligned = TRUE /\ len \in Lens /\ len >= 0
      BY <1>2, Zenon DEF InUse
    <3> QED
      BY <3>1
  <2>2. strncpyHead(len) = len
    BY <2>1, IntactLens, Zenon DEF IntactLens
  <2>3. HeadValues = {strncpyHead(len)}
    BY <2>1, Zenon DEF HeadValues
  <2> QED
    BY <2>1, <2>2, <2>3
<1>3. ASSUME NEW n \in HeadValues, Task(n) PROVE InUse'
  <2>1. phase # "read"
    BY <1>3 DEF Task
  <2>2. n = len
    BY <1>2, <1>3, <2>1
  <2>3. /\ buf' \in Record /\ Ordered(buf') /\ buf'.r = buf'.w
        /\ buf'.size = buf.size /\ overrun' = FALSE /\ aligned' = TRUE
    BY <1>3, <2>1, <2>2, FrameConsumed DEF Task, Consume, InUse
  <2>4. phase' = "read" /\ len' = len /\ aborted' = FALSE
    BY <1>3 DEF Task, InUse
  <2>5. TypeOK'
    BY <2>3, <2>4 DEF InUse, TypeOK, Record
  <2> QED
    BY <2>3, <2>4, <2>5 DEF InUse, Ordered, Small
<1>4. ASSUME NEW n \in HeadValues, Write(n) PROVE InUse'
  <2>1. phase # "read"
    BY <1>4 DEF Write
  <2>2. n = len
    BY <1>2, <1>4, <2>1
  <2>3. /\ ~(readableBytes(buf) - IntBytes < n)
    BY <2>1, <2>2 DEF readableBytes, InUse, TypeOK
  <2>4. /\ buf' \in Record /\ Ordered(buf') /\ buf'.r = buf'.w
        /\ buf'.size = buf.size /\ overrun' = FALSE /\ aligned' = TRUE
    BY <1>4, <2>1, <2>2, <2>3, FrameConsumed DEF Write, Consume, InUse
  <2>5. phase' = "read" /\ len' = len /\ aborted' = FALSE
    BY <1>4 DEF Write, InUse
  <2>6. TypeOK'
    BY <2>4, <2>5 DEF InUse, TypeOK, Record
  <2> QED
    BY <2>4, <2>5, <2>6 DEF InUse, Ordered, Small
<1>5. ASSUME NEW n \in HeadValues, NEW m \in Lens \cap Nat, TaskReplies(n, m) PROVE InUse'
  <2> DEFINE b == hasReaden(buf, Consumed(n))
  <2>1. phase # "read"
    BY <1>5 DEF TaskReplies
  <2>2. n = len
    BY <1>2, <1>5, <2>1
  <2>3. /\ b \in Record /\ Ordered(b) /\ b.r = b.w /\ b.size = buf.size
        /\ (IntBytes + n > readableBytes(buf)) = FALSE
    BY <2>1, <2>2, FrameConsumed
  <2>4. buf' = AppendFrame(b, m) /\ aborted' = AppendFails(b, m)
    BY <1>5 DEF TaskReplies
  <2>5. b.size >= K + Initial /\ Small(b) /\ m \in 0 .. MaxLen
    BY <2>3 DEF InUse, Small
  <2>6. readableBytes(b) = 0
    BY <2>3 DEF readableBytes, Record
  <2>7. overrun' = FALSE /\ aligned' = TRUE /\ len' = m /\ phase' = "write"
    BY <1>5, <2>2, <2>3, <2>6 DEF TaskReplies, InUse
  <2> HIDE DEF b
  <2>8. /\ buf' \in Record /\ Ordered(buf') /\ buf'.size >= K + Initial
        /\ Small(buf') /\ buf'.w = buf'.r + IntBytes + m /\ aborted' = FALSE
    BY <2>3, <2>4, <2>5, FrameAppended
  <2>9. TypeOK'
    BY <2>5, <2>7, <2>8 DEF TypeOK, Record
  <2> QED
    BY <2>7, <2>8, <2>9 DEF InUse, Ordered, Small
<1>6. ASSUME UNCHANGED vars PROVE InUse'
  BY <1>6 DEF vars, InUse, TypeOK, Ordered, Small
<1>7. ASSUME NEW n \in Lens, n < 0, Read(n) PROVE OutOfUse'
  <2> DEFINE b1 == ensureWritableBytes(buf, IntBytes)
             b == append(buf, IntBytes)
  <2>1. buf \in Record /\ Ordered(buf) /\ buf.r = buf.w /\ buf.size >= K + Initial
    <3>1. phase = "read"
      BY <1>7, Zenon DEF Read
    <3> QED
      BY <3>1, Zenon DEF InUse, TypeOK, Record
  <2>2. b1 \in Record /\ Ordered(b1) /\ b1.size - b1.w >= IntBytes /\ b1.size = buf.size
    <3>1. IntBytes \in Nat /\ IntBytes <= Initial /\ buf.w - buf.r = 0
      BY <2>1 DEF Record
    <3> QED
      BY <2>1, <3>1, Ensured
  <2>3. b = [size |-> b1.size, r |-> b1.r, w |-> b1.w + IntBytes]
    BY <2>2 DEF append, Record
  <2> HIDE DEF b1
  <2>4. b \in Record /\ b.w <= b.size /\ b.size = buf.size
    BY <2>2, <2>3 DEF Record, Ordered
  <2>5. n \in Int
    BY <1>7
  <2> HIDE DEF b
  <2>6. /\ buf' = IF Cuts(b, n) THEN Resized(b, n) ELSE b
        /\ overrun' = Cuts(b, n) /\ aborted' = ~Cuts(b, n)
        /\ aligned' = TRUE /\ len' = n /\ phase' = "task"
    <3>1. ~(n >= 0)
      BY <1>7, <2>5
    <3> QED
      BY <1>7, <3>1, Zenon DEF Read, InUse, b
  <2>7. buf' \in Record /\ buf'.size <= buf.size
    <3>1. CASE Cuts(b, n)
      <4>1. buf' = [size |-> b.w + n, r |-> b.r, w |-> b.w] /\ b.w + n >= 0
        BY <2>4, <2>6, <3>1 DEF Cuts, Resized, Record
      <4> QED
        BY <1>7, <2>4, <2>5, <4>1 DEF Record
    <3>2. CASE ~Cuts(b, n)
      BY <2>4, <2>6, <3>2 DEF Record
    <3> QED
      BY <3>1, <3>2
  <2>8. Small(buf')
    <3>1. Small(buf) /\ buf.size \in Nat /\ buf'.size \in Nat
      BY <2>1, <2>7, Zenon DEF InUse, Record
    <3> QED
      BY <2>7, <3>1 DEF Small
  <2>9. overrun' \in BOOLEAN /\ aborted' \in BOOLEAN /\ (aborted' \/ overrun')
    BY <2>6 DEF Cuts
  <2>10. TypeOK'
    BY <1>7, <2>6, <2>7, <2>9 DEF TypeOK, Record
  <2> QED
    BY <1>7, <2>6, <2>8, <2>9, <2>10 DEF OutOfUse, Sound, Small
<1> QED
  <2>1. ASSUME NEW n \in Lens, Read(n) PROVE IInv'
    <3>1. n >= 0 \/ n < 0
      OBVIOUS
    <3> QED
      BY <1>1, <1>7, <2>1, <3>1 DEF IInv
  <2> QED
    BY <1>3, <1>4, <1>5, <1>6, <2>1 DEF Next, IInv

(* A buffer that is out of use stays so.                                     *)
LEMMA NextIInv == ASSUME IntactLens, IInv, [Next]_vars PROVE IInv'
<1>1. CASE InUse
  BY <1>1, UseStep
<1>2. CASE OutOfUse
  <2>1. UNCHANGED vars
    BY <1>2 DEF OutOfUse, Next, Read, Task, TaskReplies, Write
  <2> QED
    BY <1>2, <2>1 DEF IInv, OutOfUse, vars, TypeOK, Small, Sound
<1> QED
  BY <1>1, <1>2 DEF IInv

LEMMA Always == ASSUME IntactLens PROVE Spec => []IInv
<1>1. Init => IInv
  BY InitIInv DEF IInv
<1> QED
  BY <1>1, NextIInv, PTL DEF Spec


(* Type correctness.                                                         *)
THEOREM BufferTypeOK == ASSUME IntactLens PROVE Spec => []TypeOK
<1>1. IInv => TypeOK
  BY DEF IInv, InUse, OutOfUse
<1> QED
  BY <1>1, Always, PTL

(* Until a client announces a negative length, readerIndex_ and writerIndex_ *)
(* stay in order and inside the vector.                                      *)
THEOREM BufferIndexOrder == ASSUME IntactLens PROVE Spec => []IndexOrder
<1>1. IInv => IndexOrder
  <2>1. ASSUME IInv PROVE len \in Int
    <3>1. len \in Lens \cup {0}
      BY <2>1, Zenon DEF IInv, InUse, OutOfUse, TypeOK
    <3> QED
      BY <3>1, LensAssumption
  <2>2. ASSUME IInv, len >= 0 PROVE InUse
    <3>1. OutOfUse => len < 0
      BY Zenon DEF OutOfUse
    <3> QED
      BY <2>1, <2>2, <3>1 DEF IInv
  <2> QED
    BY <2>2, Zenon DEF InUse, IndexOrder, Ordered
<1> QED
  BY <1>1, Always, PTL

(* No assert of Buffer.h fails, and no index leaves the vector, whatever     *)
(* lengths pass, unless one is negative.                                     *)
THEOREM BufferAbortsOnlyOnNegative == ASSUME IntactLens PROVE Spec => []AbortsOnlyOnNegative
<1>1. IInv => AbortsOnlyOnNegative
  BY DEF IInv, InUse, OutOfUse, AbortsOnlyOnNegative
<1> QED
  BY <1>1, Always, PTL

(* Frames do not leak into each other.                                       *)
THEOREM BufferFramesIntact == ASSUME IntactLens PROVE Spec => []FramesIntact
<1>1. IInv => FramesIntact
  BY DEF IInv, InUse, OutOfUse, FramesIntact
<1> QED
  BY <1>1, Always, PTL

(* The vector does not grow without bound.                                   *)
THEOREM BufferSizeBound == ASSUME IntactLens PROVE Spec => []SizeBound
<1>1. IInv => SizeBound
  BY DEF IInv, InUse, OutOfUse, SizeBound, Small
<1> QED
  BY <1>1, Always, PTL
-----------------------------------------------------------------------------
(* A set of natural numbers has a least element: induction in terms of sets. *)
LEMMA Least == ASSUME NEW S \in SUBSET Nat, S # {}
               PROVE  \E x \in S : \A y \in S : x <= y
<1> DEFINE Below(n) == 0 .. n - 1
           T == {Below(n) : n \in S}
<1>1. \A n \in Nat : Below(n) \in FiniteSubsetsOf(Nat)
  BY FS_Interval DEF FiniteSubsetsOf
<1>2. IsWellFoundedOn(StrictSubsetOrdering(Nat), FiniteSubsetsOf(Nat))
  BY FS_StrictSubsetOrderingWellFounded
<1>3. T \subseteq FiniteSubsetsOf(Nat) /\ T # {}
  BY <1>1
<1>4. PICK t \in T : \A u \in T : <<u, t>> \notin StrictSubsetOrdering(Nat)
  <2> HIDE DEF T
  <2> QED BY <1>2, <1>3, WFMin
<1>5. PICK x \in S : t = Below(x)
  OBVIOUS
<1>6. ASSUME NEW y \in S, y < x PROVE FALSE
  <2>1. Below(y) \in T /\ Below(y) \subseteq Below(x) /\ y \in Below(x) /\ y \notin Below(y)
    BY <1>6
  <2>2. <<Below(y), Below(x)>> \in StrictSubsetOrdering(Nat)
    BY <2>1 DEF StrictSubsetOrdering
  <2> QED BY <1>4, <1>5, <2>1, <2>2
<1> QED
  BY <1>6

N == Len(Frames)
Size == [i \in 1 .. N |-> FrameSize(Frames[i])]

LEMMA Sizes == /\ N \in Nat /\ Size \in [1 .. N -> Nat \ {0}]
               /\ \A i \in 1 .. N : Size[i] = FrameSize(Frames[i])
               /\ \A i \in 1 .. N : Frames[i] \in {"HYT", "TST"}
BY FramesAssumption DEF N, Size, FrameSize, ConfirmSize, IntSize

(* f is the table of the first n frame boundaries.                           *)
Table(f, n) == \A i \in 0 .. n : f[i] = IF i = 0 THEN 0 ELSE f[i - 1] + Size[i]

LEMMA TableExists == \A n \in 0 .. N : \E f \in [0 .. N -> Nat] : Table(f, n)
<1> DEFINE S == {n \in 0 .. N : ~\E f \in [0 .. N -> Nat] : Table(f, n)}
<1> SUFFICES ASSUME S # {} PROVE FALSE
  OBVIOUS
<1>1. S \in SUBSET Nat
  BY Sizes
<1>2. PICK m \in S : \A k \in S : m <= k
  BY <1>1, Least
<1>3. m \in 0 .. N /\ ~\E f \in [0 .. N -> Nat] : Table(f, m)
  OBVIOUS
<1>4. m # 0
  <2> DEFINE g == [i \in 0 .. N |-> 0]
  <2>1. g \in [0 .. N -> Nat] /\ g[0] = 0
    BY Sizes
  <2>2. Table(g, 0)
    BY <2>1 DEF Table
  <2> QED
    BY <1>3, <2>1, <2>2
<1>5. m \in 1 .. N /\ m - 1 \in 0 .. N /\ m - 1 \notin S
  <2>1. m \in 1 .. N /\ m - 1 \in 0 .. N
    BY <1>3, <1>4, Sizes
  <2> HIDE DEF S
  <2>2. m - 1 \notin S
    BY <1>2, <2>1, Sizes
  <2> QED
    BY <2>1, <2>2
<1>6. PICK f \in [0 .. N -> Nat] : Table(f, m - 1)
  BY <1>5
<1> DEFINE g == [i \in 0 .. N |-> IF i = m THEN f[m - 1] + Size[m] ELSE f[i]]
<1>7. g \in [0 .. N -> Nat]
  <2>1. f[m - 1] + Size[m] \in Nat
    BY <1>5, Sizes
  <2> QED
    BY <2>1
<1>8. Table(g, m)
  <2> SUFFICES ASSUME NEW i \in 0 .. m
               PROVE  g[i] = IF i = 0 THEN 0 ELSE g[i - 1] + Size[i]
    BY DEF Table
  <2>1. i \in 0 .. N /\ (i # 0 => i - 1 \in 0 .. N /\ i - 1 # m)
    BY <1>3, Sizes
  <2>2. CASE i = m
    BY <1>4, <2>1, <2>2
  <2>3. CASE i # m
    <3>1. i \in 0 .. m - 1
      BY <1>5, <2>3, Sizes
    <3> QED
      BY <1>6, <2>1, <2>3, <3>1 DEF Table
  <2> QED
    BY <2>2, <2>3
<1> QED
  BY <1>3, <1>7, <1>8

LEMMA TableUnique ==
    ASSUME NEW f \in [0 .. N -> Nat], NEW g \in [0 .. N -> Nat], NEW n \in 0 .. N,
           Table(f, n), Table(g, n)
    PROVE  \A i \in 0 .. n : f[i] = g[i]
<1> DEFINE S == {i \in 0 .. n : f[i] # g[i]}
<1> SUFFICES ASSUME S # {} PROVE FALSE
  OBVIOUS
<1>1. S \in SUBSET Nat
  BY Sizes
<1>2. PICK m \in S : \A k \in S : m <= k
  BY <1>1, Least
<1>3. CASE m = 0
  BY <1>2, <1>3 DEF Table
<1>4. CASE m # 0
  <2>1. m - 1 \in 0 .. n /\ m - 1 \notin S
    BY <1>2, <1>4, Sizes
  <2> QED
    BY <1>2, <1>4, <2>1 DEF Table
<1> QED
  BY <1>3, <1>4

(* Start is what its definition says.                                        *)
LEMMA StartTable == Start \in [0 .. N -> Nat] /\ Table(Start, N)
<1> DEFINE h == [n \in 0 .. N |-> CHOOSE f \in [0 .. N -> Nat] : Table(f, n)]
           f == [n \in 0 .. N |-> h[n][n]]
<1>1. \A n \in 0 .. N : h[n] \in [0 .. N -> Nat] /\ Table(h[n], n)
  BY TableExists
<1> HIDE DEF h
<1>2. \A n \in 0 .. N : f[n] = IF n = 0 THEN 0 ELSE f[n - 1] + FrameSize(Frames[n])
  <2> TAKE n \in 0 .. N
  <2>1. CASE n = 0
    BY <1>1, <2>1, Sizes DEF Table
  <2>2. CASE n # 0
    <3>1. n - 1 \in 0 .. N /\ Table(h[n], n - 1)
      <4>1. n - 1 \in 0 .. N /\ \A i \in 0 .. n - 1 : i \in 0 .. n
        BY <2>2, Sizes
      <4>2. Table(h[n], n)
        BY <1>1
      <4> QED
        BY <4>1, <4>2 DEF Table
    <3>2. \A i \in 0 .. n - 1 : h[n][i] = h[n - 1][i]
      BY <1>1, <3>1, TableUnique
    <3>3. h[n][n - 1] = h[n - 1][n - 1]
      BY <2>2, <3>2, Sizes
    <3> QED
      BY <1>1, <2>2, <3>1, <3>3, Sizes DEF Table
  <2> QED
    BY <2>1, <2>2
<1>3. f = [n \in 0 .. N |-> IF n = 0 THEN 0 ELSE f[n - 1] + FrameSize(Frames[n])]
  BY <1>2
<1>4. f \in [0 .. N -> Nat]
  BY <1>1, Sizes
<1> HIDE DEF f
<1>5. Start = [n \in 0 .. N |-> IF n = 0 THEN 0 ELSE Start[n - 1] + FrameSize(Frames[n])]
  BY <1>3 DEF Start, N
<1> DEFINE S == {n \in 0 .. N : Start[n] \notin Nat}
<1>6. S = {}
  <2> SUFFICES ASSUME S # {} PROVE FALSE
    OBVIOUS
  <2>1. S \in SUBSET Nat
    BY Sizes
  <2>2. PICK m \in S : \A k \in S : m <= k
    BY <2>1, Least
  <2>3. m \in 0 .. N /\ Start[m] \notin Nat
    OBVIOUS
  <2>4. Start[m] = IF m = 0 THEN 0 ELSE Start[m - 1] + FrameSize(Frames[m])
    BY <1>5, <2>3
  <2>5. m \in 1 .. N /\ m - 1 \in 0 .. N /\ m - 1 \notin S
    BY <2>2, <2>3, <2>4, Sizes
  <2>6. Start[m - 1] \in Nat /\ FrameSize(Frames[m]) \in Nat
    BY <2>5, Sizes
  <2> QED
    BY <2>3, <2>4, <2>5, <2>6
<1>7. Start \in [0 .. N -> Nat]
  <2>1. \A n \in 0 .. N : Start[n] \in Nat
    BY <1>6
  <2> QED
    BY <1>5, <2>1
<1>8. Table(Start, N)
  <2>1. \A n \in 0 .. N : n # 0 => FrameSize(Frames[n]) = Size[n]
    BY Sizes
  <2>2. \A n \in 0 .. N :
            Start[n] = IF n = 0 THEN 0 ELSE Start[n - 1] + FrameSize(Frames[n])
    BY <1>5
  <2> QED
    BY <2>1, <2>2 DEF Table
<1> QED
  BY <1>7, <1>8

(* Frames lie one behind the other.                                          *)
LEMMA StartStep == /\ Start[0] = 0
                   /\ \A i \in 1 .. N : Start[i] = Start[i - 1] + FrameSize(Frames[i])
<1>1. 0 \in 0 .. N /\ \A i \in 1 .. N : i \in 0 .. N /\ i # 0
  BY Sizes
<1> QED
  BY <1>1, StartTable, Sizes DEF Table

LEMMA NextStart == ASSUME NEW i \in Nat, i + 1 \in 1 .. N
                   PROVE  Start[i + 1] = Start[i] + FrameSize(Frames[i + 1])
<1> DEFINE j == i + 1
<1>1. j \in 1 .. N /\ j - 1 = i
  OBVIOUS
<1> HIDE DEF j
<1>2. Start[j] = Start[j - 1] + FrameSize(Frames[j])
  BY <1>1, StartStep
<1> QED
  BY <1>1, <1>2 DEF j

LEMMA StartGrows == \A i, j \in 0 .. N : i < j => Start[i] < Start[j]
<1> SUFFICES ASSUME NEW i \in 0 .. N PROVE \A j \in 0 .. N : i < j => Start[i] < Start[j]
  OBVIOUS
<1> DEFINE S == {j \in 0 .. N : i < j /\ ~(Start[i] < Start[j])}
<1> SUFFICES ASSUME S # {} PROVE FALSE
  OBVIOUS
<1>1. S \in SUBSET Nat
  BY Sizes
<1>2. PICK m \in S : \A k \in S : m <= k
  BY <1>1, Least
<1>3. m \in 1 .. N /\ m - 1 \in 0 .. N /\ m - 1 \notin S /\ i <= m - 1
  <2>1. m \in 0 .. N /\ i < m
    OBVIOUS
  <2>2. m \in 1 .. N /\ m - 1 \in 0 .. N /\ i <= m - 1
    BY <2>1, Sizes
  <2> HIDE DEF S
  <2>3. m - 1 \notin S
    BY <1>2, <2>2, Sizes
  <2> QED
    BY <2>2, <2>3
<1>4. Start[m - 1] < Start[m] /\ Start[m] \in Nat /\ Start[m - 1] \in Nat /\ Start[i] \in Nat
  <2>1. Start[m] \in Nat /\ Start[m - 1] \in Nat /\ Start[i] \in Nat
    BY <1>3, StartTable
  <2>2. Start[m] = Start[m - 1] + Size[m] /\ Size[m] \in Nat \ {0}
    BY <1>3, StartStep, Sizes
  <2> QED
    BY <2>1, <2>2
<1>5. i = m - 1 \/ Start[i] < Start[m - 1]
  BY <1>3
<1> QED
  BY <1>2, <1>4, <1>5

LEMMA MinOfTwo == ASSUME NEW a \in Int, NEW b \in Int
                  PROVE  LET m == Min({a, b}) IN m \in {a, b} /\ m <= a /\ m <= b
<1>1. \E x \in {a, b} : \A y \in {a, b} : x <= y
  OBVIOUS
<1> QED
  BY <1>1 DEF Min

LEMMA Parameters == /\ Body \in Nat \ {0} /\ TestLen \in Nat \ {0} /\ Reply \in Nat \ {0}
                    /\ CapIn \in Nat \ {0} /\ CapOut \in Nat \ {0} /\ Ahead \in Nat \ {0}
BY FramesAssumption

LEMMA ReplyType == ReplySize \in Nat \ {0}
BY FramesAssumption DEF ReplySize, IntSize

(* Products of a natural number and the size of a reply.                     *)
LEMMA Times == /\ \A a \in Nat : a * ReplySize \in Nat
               /\ \A a \in Nat : (a + 1) * ReplySize = a * ReplySize + ReplySize
               /\ \A a, b \in Nat : a <= b => a * ReplySize <= b * ReplySize
<1>1. \A r \in Nat : /\ \A a \in Nat : a * r \in Nat
                     /\ \A a \in Nat : (a + 1) * r = a * r + r
  OBVIOUS
<1>2. \A r, a, b \in Nat : a <= b => a * r <= b * r
  <2> SUFFICES ASSUME NEW r \in Nat, NEW a \in Nat, NEW b \in Nat, a <= b
               PROVE  a * r <= b * r
    OBVIOUS
  <2>1. PICK c \in Nat : b = a + c
    <3>1. b - a \in Nat /\ b = a + (b - a)
      OBVIOUS
    <3> QED
      BY <3>1
  <2>2. (a + c) * r = a * r + c * r /\ c * r \in Nat /\ a * r \in Nat
    OBVIOUS
  <2> QED
    BY <2>1, <2>2
<1> QED
  BY <1>1, <1>2, ReplyType

(* What is still to be sent of the replies that were given.                  *)
Owed == IF at = "send" THEN left ELSE 0
Replied == /\ out + Owed <= answers * ReplySize
           /\ ~hung => out + Owed = answers * ReplySize

(* Where the server is in the stream while no header was cut.                *)
Placed == /\ at \in {"epoll", "confirm", "send"} => InStep
          /\ at = "len" => /\ frames < N /\ Frames[frames + 1] = "HYT"
                          /\ read = Start[frames] + ConfirmSize
          /\ at = "body" => frames < N /\ read + left = Start[frames + 1]

TransferInv == TransferTypeOK /\ Replied /\ (~torn => Placed)

LEMMA TransferInitInv == TransferInit => TransferInv
<1> SUFFICES ASSUME TransferInit PROVE TransferInv
  OBVIOUS
<1>1. Total \in Nat /\ Start[0] = 0 /\ 0 * ReplySize = 0
  BY Sizes, StartTable, StartStep, ReplyType DEF Total, N
<1>2. TransferTypeOK
  <2>1. 0 - 0 <= CapOut /\ 0 - 0 <= CapIn
    BY Parameters
  <2>2. hung \in BOOLEAN /\ stale \in BOOLEAN /\ torn \in BOOLEAN
    BY DEF TransferInit
  <2>3. /\ sent = 0 /\ got = 0 /\ answers = 0 /\ read = 0 /\ out = 0 /\ frames = 0
        /\ at = "epoll" /\ left = 0
    BY DEF TransferInit
  <2>4. answers * ReplySize = 0
    BY <1>1, <2>3
  <2> QED
    BY <1>1, <2>1, <2>2, <2>3, <2>4 DEF TransferTypeOK
<1> QED
  BY <1>1, <1>2, Sizes DEF TransferInit, TransferInv, Replied, Owed, Placed, InStep, N

(* The client may send to the end of some frame.                             *)
LEMMA LimitAt == ASSUME TransferTypeOK
                 PROVE  \E m \in 0 .. N : Limit = Start[m] /\ m <= frames - Behind + Ahead
<1> DEFINE a == frames - Behind + Ahead
           m == Min({N, a})
<1>1. got \in Nat /\ frames \in Nat /\ answers \in 0 .. frames /\ out \in Int
  BY Times DEF TransferTypeOK
<1>2. got \div ReplySize \in Nat
  BY <1>1, ReplyType
<1>3. a \in Nat
  BY <1>1, <1>2, Parameters DEF Behind
<1> HIDE DEF a
<1>4. m \in 0 .. N /\ m <= a
  <2>1. N \in Int /\ a \in Int
    BY <1>3, Sizes
  <2>2. m \in {N, a} /\ m <= N /\ m <= a
    BY <2>1, MinOfTwo
  <2> QED
    BY <1>3, <2>2, Sizes
<1> QED
  BY <1>4 DEF Limit, N, a

LEMMA LimitTotal == ASSUME TransferTypeOK PROVE Limit \in 0 .. Total
<1>1. PICK m \in 0 .. N : Limit = Start[m]
  BY LimitAt
<1>2. Start[m] <= Start[N] /\ Start[m] \in Nat /\ Start[N] \in Nat
  <2>1. Start[m] \in Nat /\ Start[N] \in Nat /\ N \in 0 .. N
    BY Sizes, StartTable
  <2>2. m = N \/ m < N
    BY Sizes
  <2> QED
    BY <2>1, <2>2, StartGrows
<1> QED
  BY <1>1, <1>2 DEF Total, N

(* recv takes what is there, up to what was asked for.                       *)
LEMMA Received == ASSUME TransferTypeOK, NEW k \in Int, NEW want \in Nat, Recv(k, want)
                  PROVE  /\ k \in 1 .. want /\ read' = read + k /\ read' \in 0 .. sent
                         /\ sent - read' <= CapIn
<1>1. sent \in Nat /\ read \in 0 .. sent /\ Avail \in Nat /\ Avail = sent - read
  BY LimitTotal DEF TransferTypeOK, Avail
<1>2. k <= want /\ k <= Avail /\ k > 0
  <2>1. want \in Int /\ Avail \in Int
    BY <1>1
  <2>2. Min({want, Avail}) <= want /\ Min({want, Avail}) <= Avail
    BY <2>1, MinOfTwo
  <2> QED
    BY <2>2 DEF Recv
<1> QED
  BY <1>1, <1>2, Parameters DEF Recv, TransferTypeOK

LEMMA StepClient ==
    ASSUME TransferInv, ClientSends \/ ClientReads \/ ClientHangsUp
    PROVE  TransferInv'
<1> USE DEF TransferInv
<1>1. CASE ClientSends
  <2>1. PICK k \in 1 .. Limit - sent : sent + k - read <= CapIn /\ sent' = sent + k
    BY <1>1 DEF ClientSends
  <2>2. Limit \in 0 .. Total /\ Total \in Nat
    BY LimitTotal, Sizes, StartTable DEF Total, N
  <2>3. TransferTypeOK'
    BY <1>1, <2>1, <2>2, Parameters DEF ClientSends, TransferTypeOK
  <2> QED
    BY <1>1, <2>3 DEF ClientSends, Replied, Owed, Placed, InStep
<1>2. CASE ClientReads
  <2>1. PICK k \in 1 .. out - got : got' = got + k
    BY <1>2 DEF ClientReads
  <2>2. out \in Nat /\ got \in Nat
    BY Times DEF TransferTypeOK
  <2>3. TransferTypeOK'
    BY <1>2, <2>1, <2>2, Parameters DEF ClientReads, TransferTypeOK
  <2> QED
    BY <1>2, <2>3 DEF ClientReads, Replied, Owed, Placed, InStep
<1>3. CASE ClientHangsUp
  <2>1. TransferTypeOK'
    BY <1>3 DEF ClientHangsUp, TransferTypeOK
  <2> QED
    BY <1>3, <2>1 DEF ClientHangsUp, Replied, Owed, Placed, InStep
<1> QED
  BY <1>1, <1>2, <1>3

LEMMA StepConfirm ==
    ASSUME TransferInv, EpollWait \/ RecvConfirm PROVE TransferInv'
<1> USE DEF TransferInv
<1>1. CASE EpollWait
  <2>1. TransferTypeOK'
    BY <1>1 DEF EpollWait, client, TransferTypeOK
  <2> QED
    BY <1>1, <2>1 DEF EpollWait, client, Replied, Owed, Placed, InStep
<1>2. CASE RecvConfirm /\ at' = "closed"
  <2>1. UNCHANGED <<client, answers, out, frames, left, stale>> /\ torn' \in BOOLEAN
    <3>1. left' = left
      BY <1>2 DEF RecvConfirm, Close
    <3> QED
      BY <1>2, <3>1 DEF RecvConfirm, TransferTypeOK
  <2>2. read' \in 0 .. sent /\ sent - read' <= CapIn
    <3>1. CASE UNCHANGED read
      BY <3>1 DEF TransferTypeOK
    <3>2. CASE \E k \in 1 .. ConfirmSize : Recv(k, ConfirmSize)
      BY <3>2, Received DEF ConfirmSize
    <3> QED
      BY <1>2, <3>1, <3>2 DEF RecvConfirm
  <2>3. TransferTypeOK'
    BY <1>2, <2>1, <2>2 DEF client, TransferTypeOK
  <2> QED
    BY <1>2, <2>1, <2>3 DEF RecvConfirm, client, Replied, Owed, Placed
<1>3. CASE RecvConfirm /\ at' # "closed"
  <2>1. /\ at = "confirm" /\ Recv(ConfirmSize, ConfirmSize)
        /\ torn' = torn
        /\ \/ "TST" \in Kinds /\ at' = "body" /\ left' = TestLen
           \/ "HYT" \in Kinds /\ at' = "len" /\ UNCHANGED left
        /\ UNCHANGED <<client, answers, out, frames, stale>>
    BY <1>3 DEF RecvConfirm, Close, ConfirmSize, TransferTypeOK
  <2>2. read' = read + ConfirmSize /\ read' \in 0 .. sent /\ sent - read' <= CapIn
    BY <2>1, Received DEF ConfirmSize
  <2>3. TransferTypeOK'
    BY <2>1, <2>2, Parameters DEF client, TransferTypeOK
  <2>4. Replied'
    BY <2>1 DEF client, Replied, Owed
  <2>5. ASSUME ~torn PROVE Placed'
    <3>1. InStep
      BY <2>1, <2>5 DEF Placed
    <3>2. ASSUME NEW i \in 1 .. N, read = Start[i - 1] PROVE i = frames + 1
      <4>1. frames \in 0 .. N /\ i - 1 \in 0 .. N /\ read = Start[frames]
        BY <3>1, Sizes DEF InStep, TransferTypeOK, N
      <4>2. Start[frames] \in Nat /\ Start[i - 1] \in Nat
        BY <4>1, StartTable
      <4>3. ~(frames < i - 1) /\ ~(i - 1 < frames)
        <5> DEFINE j == i - 1
        <5>1. j \in 0 .. N /\ Start[j] = Start[frames] /\ frames \in 0 .. N
          BY <3>2, <4>1
        <5> HIDE DEF j
        <5>2. ~(frames < j) /\ ~(j < frames)
          BY <4>2, <5>1, StartGrows
        <5> QED
          BY <5>2 DEF j
      <4> QED
        BY <4>1, <4>3, Sizes
    <3>3. ASSUME NEW kind, kind \in Kinds
          PROVE  frames + 1 \in 1 .. N /\ Frames[frames + 1] = kind
      <4>1. PICK i \in DOMAIN Frames : read = Start[i - 1] /\ Frames[i] = kind
        BY <3>3 DEF Kinds
      <4>2. i \in 1 .. N
        BY FramesAssumption DEF N
      <4> QED
        BY <3>2, <4>1, <4>2
    <3>4. frames \in Nat
      BY DEF TransferTypeOK
    <3>5. CASE "TST" \in Kinds /\ at' = "body" /\ left' = TestLen
      <4>1. frames + 1 \in 1 .. N /\ FrameSize(Frames[frames + 1]) = ConfirmSize + TestLen
        BY <3>3, <3>5 DEF FrameSize
      <4>2. Start[frames + 1] = Start[frames] + ConfirmSize + TestLen
        <5>1. Start[frames + 1] = Start[frames] + FrameSize(Frames[frames + 1])
          BY <3>4, <4>1, NextStart
        <5>2. Start[frames] \in Nat
          BY <4>1, <3>4, StartTable, Sizes
        <5> QED
          BY <3>4, <4>1, <5>1, <5>2, Parameters DEF ConfirmSize
      <4> QED
        BY <2>1, <2>2, <3>1, <3>4, <3>5, <4>1, <4>2, Sizes DEF Placed, InStep
    <3>6. CASE "HYT" \in Kinds /\ at' = "len" /\ UNCHANGED left
      <4>1. frames + 1 \in 1 .. N /\ Frames[frames + 1] = "HYT"
        BY <3>3, <3>6
      <4> QED
        BY <2>1, <2>2, <3>1, <3>4, <3>6, <4>1, Sizes DEF Placed, InStep
    <3> QED
      BY <2>1, <3>5, <3>6
  <2> QED
    BY <2>1, <2>3, <2>4, <2>5
<1> QED
  BY <1>1, <1>2, <1>3

(* The length of a frame, or as much of it as there is.                      *)
LEMMA StepLen == ASSUME TransferInv, RecvLen PROVE TransferInv'
<1> USE DEF TransferInv
<1>1. at = "len" /\ UNCHANGED <<sent, hung, got, answers, out, frames>>
  BY DEF RecvLen, client
<1>2. CASE Again /\ UNCHANGED <<read, at, left, torn>>
  <2>1. stale' = TRUE
    BY <1>2 DEF Again
  <2>2. TransferTypeOK'
    BY <1>1, <1>2, <2>1 DEF TransferTypeOK
  <2> QED
    BY <1>1, <1>2, <2>2 DEF Replied, Owed, Placed, InStep
<1>3. CASE Empty /\ hung /\ Close /\ UNCHANGED <<read, stale, torn>>
  <2>1. TransferTypeOK'
    BY <1>1, <1>3 DEF Close, TransferTypeOK
  <2> QED
    BY <1>1, <1>3, <2>1 DEF Close, Replied, Owed, Placed, InStep
<1>4. CASE \E k \in 1 .. IntSize :
             /\ Recv(k, IntSize)
             /\ torn' = (torn \/ k < IntSize)
             /\ left' \in IF k < IntSize THEN Garbage ELSE {Body}
             /\ at' = "body" \/ (k < IntSize /\ at' = "crashed")
             /\ UNCHANGED stale
  <2>1. PICK k \in 1 .. IntSize :
             /\ Recv(k, IntSize)
             /\ torn' = (torn \/ k < IntSize)
             /\ left' \in IF k < IntSize THEN Garbage ELSE {Body}
             /\ at' = "body" \/ (k < IntSize /\ at' = "crashed")
             /\ UNCHANGED stale
    BY <1>4
  <2>2. /\ k \in 1 .. IntSize /\ read' = read + k
        /\ read' \in 0 .. sent /\ sent - read' <= CapIn
    BY <2>1, Received DEF IntSize
  <2>3. left' \in Nat
    BY <2>1, FramesAssumption, Parameters
  <2>4. torn' \in BOOLEAN
    BY <2>1
  <2>5. TransferTypeOK'
    BY <1>1, <2>1, <2>2, <2>3, <2>4 DEF TransferTypeOK
  <2>6. Replied'
    BY <1>1, <2>1 DEF Replied, Owed
  <2>7. ASSUME ~torn' PROVE Placed'
    <3>1. ~torn /\ k = IntSize /\ left' = Body /\ at' = "body"
      <4>1. ~torn /\ ~(k < IntSize)
        BY <2>1, <2>7, Zenon
      <4> QED
        BY <2>1, <2>2, <4>1 DEF IntSize
    <3>2. frames < N /\ Frames[frames + 1] = "HYT" /\ read = Start[frames] + ConfirmSize
      BY <1>1, <3>1 DEF Placed
    <3>3. frames \in Nat /\ frames + 1 \in 1 .. N /\ frames \in 0 .. N
      BY <3>2, Sizes DEF TransferTypeOK
    <3>4. Start[frames + 1] = Start[frames] + ConfirmSize + IntSize + Body
      <4>1. Start[frames] \in Nat
        BY <3>3, StartTable
      <4> QED
        BY <3>2, <3>3, <4>1, NextStart, Parameters DEF FrameSize, ConfirmSize, IntSize
    <3>5. read' + left' = Start[frames + 1]
      <4>1. Start[frames] \in Nat
        BY <3>3, StartTable
      <4> QED
        BY <2>2, <3>1, <3>2, <3>4, <4>1, Parameters DEF ConfirmSize, IntSize
    <3> QED
      BY <1>1, <3>1, <3>2, <3>5 DEF Placed
  <2> QED
    BY <2>5, <2>6, <2>7
<1> QED
  BY <1>2, <1>3, <1>4 DEF RecvLen

(* What is read of a body is no longer wanted.                               *)
LEMMA StepBody == ASSUME TransferInv, RecvBody PROVE TransferInv'
<1> USE DEF TransferInv
<1>1. at = "body" /\ left > 0 /\ UNCHANGED <<sent, hung, got, answers, out, frames, torn>>
  BY DEF RecvBody, client
<1>2. CASE Again /\ UNCHANGED <<read, at, left>>
  <2>1. stale' = TRUE
    BY <1>2 DEF Again
  <2>2. TransferTypeOK'
    BY <1>1, <1>2, <2>1 DEF TransferTypeOK
  <2> QED
    BY <1>1, <1>2, <2>2 DEF Replied, Owed, Placed, InStep
<1>3. CASE Empty /\ hung /\ ~stale /\ Close /\ UNCHANGED <<read, stale>>
  <2>1. TransferTypeOK'
    BY <1>1, <1>3 DEF Close, TransferTypeOK
  <2> QED
    BY <1>1, <1>3, <2>1 DEF Close, Replied, Owed, Placed, InStep
<1>4. CASE \E k \in 1 .. left : Recv(k, left) /\ left' = Left(k) /\ UNCHANGED <<at, stale>>
  <2>1. left \in Nat
    BY DEF TransferTypeOK
  <2>2. PICK k \in 1 .. left : Recv(k, left) /\ left' = Left(k) /\ UNCHANGED <<at, stale>>
    BY <1>4
  <2>3. /\ k \in 1 .. left /\ read' = read + k
        /\ read' \in 0 .. sent /\ sent - read' <= CapIn
    BY <2>1, <2>2, Received
  <2>4. left' = left - k /\ left' \in Nat
    BY <2>1, <2>2 DEF Left
  <2>5. TransferTypeOK'
    BY <1>1, <2>2, <2>3, <2>4 DEF TransferTypeOK
  <2>6. Replied'
    BY <1>1, <2>2 DEF Replied, Owed
  <2>7. ASSUME ~torn PROVE Placed'
    <3>1. frames < N /\ read + left = Start[frames + 1]
      BY <1>1, <2>7 DEF Placed
    <3>2. read \in Int
      BY DEF TransferTypeOK
    <3>3. read' + left' = Start[frames + 1]
      BY <2>1, <2>3, <2>4, <3>1, <3>2
    <3> QED
      BY <1>1, <2>2, <3>1, <3>3 DEF Placed
  <2> QED
    BY <1>1, <2>5, <2>6, <2>7
<1> QED
  BY <1>2, <1>3, <1>4 DEF RecvBody

(* A frame that was read whole is dealt with: the next one begins here.      *)
LEMMA StepDeal == ASSUME TransferInv, Deal PROVE TransferInv'
<1> USE DEF TransferInv
<1>1. /\ at = "body" /\ left = 0 /\ frames' = frames + 1
      /\ UNCHANGED <<sent, hung, got, read, out, stale, torn>>
  BY DEF Deal, client
<1>2. \/ at' = "epoll" /\ UNCHANGED <<answers, left>>
      \/ at' = "send" /\ left' = ReplySize /\ answers' = answers + 1
  BY DEF Deal, Answer
<1>3. answers \in 0 .. frames /\ frames \in Nat /\ answers \in Nat
  BY DEF TransferTypeOK
<1>4. /\ answers * ReplySize \in Nat /\ ReplySize \in Nat
      /\ (answers + 1) * ReplySize = answers * ReplySize + ReplySize
  BY <1>3, Times, ReplyType
<1>5. answers' * ReplySize \in Nat /\ answers' * ReplySize >= answers * ReplySize
  BY <1>2, <1>4
<1>6. TransferTypeOK'
  <2>1. out \in 0 .. answers' * ReplySize
    BY <1>4, <1>5 DEF TransferTypeOK
  <2>2. answers' \in 0 .. frames' /\ frames' \in Nat /\ left' \in Nat
    BY <1>1, <1>2, <1>3, <1>4
  <2>3. at' \in {"epoll", "send"}
    BY <1>2
  <2> QED
    BY <1>1, <2>1, <2>2, <2>3 DEF TransferTypeOK
<1>7. Replied'
  <2>1. out \in Int
    BY <1>4 DEF TransferTypeOK
  <2>2. out <= answers * ReplySize /\ (~hung => out = answers * ReplySize)
    BY <1>1, <2>1 DEF Replied, Owed
  <2>3. CASE at' = "epoll" /\ UNCHANGED <<answers, left>>
    BY <1>1, <2>1, <2>2, <2>3 DEF Replied, Owed
  <2>4. CASE at' = "send" /\ left' = ReplySize /\ answers' = answers + 1
    BY <1>1, <1>4, <2>1, <2>2, <2>4 DEF Replied, Owed
  <2> QED
    BY <1>2, <2>3, <2>4
<1>8. ASSUME ~torn PROVE Placed'
  <2>1. frames < N /\ read + 0 = Start[frames + 1] /\ read \in Int
    BY <1>1, <1>8 DEF Placed, TransferTypeOK
  <2>2. InStep'
    BY <1>1, <1>3, <2>1, Sizes DEF InStep, N
  <2> QED
    BY <1>1, <1>2, <2>2 DEF Placed
<1> QED
  BY <1>1, <1>6, <1>7, <1>8

LEMMA StepSend == ASSUME TransferInv, SendData \/ Readable PROVE TransferInv'
<1> USE DEF TransferInv
<1>1. /\ answers * ReplySize \in Nat /\ out \in Nat /\ got \in Nat /\ left \in Nat
      /\ got <= out /\ out <= answers * ReplySize
  <2>1. answers \in Nat
    BY DEF TransferTypeOK
  <2> QED
    BY <2>1, Times DEF TransferTypeOK
<1>2. CASE SendData
  <2>1. at = "send" /\ left > 0 /\ UNCHANGED <<sent, hung, got, answers, read, frames, at, stale, torn>>
    BY <1>2 DEF SendData, client
  <2>2. /\ out' \in Nat /\ left' \in Nat /\ out <= out' /\ out' - got <= CapOut
        /\ out' + left' <= out + left
        /\ ~hung => out' + left' = out + left
    <3>1. CASE \E k \in 1 .. Min({left, CapOut - (out - got)}) :
                    ~hung /\ out' = out + k /\ left' = Left(k)
      <4>1. PICK k \in 1 .. Min({left, CapOut - (out - got)}) :
                    out' = out + k /\ left' = left - k
        BY <3>1 DEF Left
      <4>2. left \in Int /\ CapOut - (out - got) \in Int
        BY <1>1, Parameters
      <4>3. /\ Min({left, CapOut - (out - got)}) <= left
            /\ Min({left, CapOut - (out - got)}) <= CapOut - (out - got)
            /\ Min({left, CapOut - (out - got)}) \in Int
        BY <4>2, MinOfTwo
      <4>4. k \in Nat /\ k <= left /\ k <= CapOut - (out - got)
        BY <4>1, <4>2, <4>3
      <4> QED
        BY <1>1, <4>1, <4>4, Parameters
    <3>2. CASE hung /\ left' = 0 /\ UNCHANGED out
      BY <1>1, <3>2 DEF TransferTypeOK
    <3> QED
      BY <1>2, <3>1, <3>2 DEF SendData
  <2> DEFINE due == answers * ReplySize
  <2>3. due \in Nat /\ due' = due /\ out + left <= due /\ (~hung => out + left = due)
    BY <1>1, <2>1 DEF Replied, Owed
  <2>4. (Replied <=> out + Owed <= due /\ (~hung => out + Owed = due))'
    BY DEF Replied
  <2>5. Owed' = left'
    BY <2>1 DEF Owed
  <2> HIDE DEF due
  <2>6. out' <= due /\ out' + left' <= due
    <3>1. out \in Nat /\ left \in Nat
      BY <1>1
    <3>2. out' \in Nat /\ left' \in Nat /\ out' + left' <= out + left
      BY <2>2
    <3>3. due \in Nat /\ out + left <= due
      BY <2>3
    <3>4. \A x, y, z, u \in Nat : \A d \in Nat :
            x + y <= z + u /\ z + u <= d => x <= d /\ x + y <= d
      OBVIOUS
    <3> QED
      BY <3>1, <3>2, <3>3, <3>4, Zenon
  <2>7. ASSUME ~hung PROVE out' + left' = due
    BY <2>2, <2>3, <2>7
  <2>8. Replied'
    BY <2>1, <2>3, <2>4, <2>5, <2>6, <2>7
  <2>9. TransferTypeOK'
    BY <1>1, <2>1, <2>2, <2>6 DEF TransferTypeOK, due
  <2>10. ASSUME ~torn PROVE Placed'
    BY <2>1, <2>10 DEF Placed, InStep
  <2> QED
    BY <2>1, <2>8, <2>9, <2>10
<1>3. CASE Readable
  <2>1. /\ at = "send" /\ left = 0 /\ at' = "epoll"
        /\ UNCHANGED <<sent, hung, got, answers, read, out, frames, left, stale, torn>>
    BY <1>3 DEF Readable, client
  <2>2. TransferTypeOK'
    BY <2>1 DEF TransferTypeOK
  <2>3. Replied'
    BY <1>1, <2>1 DEF Replied, Owed
  <2> QED
    BY <2>1, <2>2, <2>3 DEF Placed, InStep
<1> QED
  BY <1>2, <1>3

LEMMA TransferStep == TransferInv /\ [TransferNext]_transferVars => TransferInv'
<1> SUFFICES ASSUME TransferInv, [TransferNext]_transferVars PROVE TransferInv'
  OBVIOUS
<1>1. CASE UNCHANGED transferVars
  BY <1>1 DEF transferVars, client, TransferInv, TransferTypeOK, Replied, Owed, Placed, InStep
<1> QED
  BY <1>1, StepClient, StepConfirm, StepLen, StepBody, StepDeal, StepSend
     DEF TransferNext, Server

(* The first bytes of a frame that was not cut lie where the next one should *)
(* begin, and the replies have gone out whole.                               *)
LEMMA InvFramesInStep == TransferInv => FramesInStep
<1> SUFFICES ASSUME TransferInv, at \in {"epoll", "confirm"}
             PROVE  (torn \/ InStep) /\ (hung \/ out = answers * ReplySize)
  BY DEF FramesInStep
<1>1. torn \/ InStep
  BY DEF TransferInv, Placed
<1>2. hung \/ out + 0 = answers * ReplySize
  BY DEF TransferInv, Replied, Owed
<1>3. out \in Int
  BY Times DEF TransferInv, TransferTypeOK
<1> QED
  BY <1>1, <1>2, <1>3

(* A client that may still send has gone less than Ahead frames ahead: the   *)
(* replies it has not read are fewer than fill the socket.                   *)
LEMMA InvNoStandstill == TransferInv => NoStandstill
<1> SUFFICES ASSUME TransferInv, ServerWaits, ClientWaits, ~hung, ~torn
             PROVE  FALSE
  BY DEF NoStandstill
<1> DEFINE g == got \div ReplySize
<1>1. /\ frames \in Nat /\ answers \in Nat /\ answers <= frames
      /\ out \in Nat /\ got \in Nat /\ left \in Nat /\ got <= out
      /\ sent \in Nat /\ read \in Nat /\ read <= sent
  <2>1. answers \in Nat /\ frames \in Nat /\ answers <= frames
    BY DEF TransferInv, TransferTypeOK
  <2>2. answers * ReplySize \in Nat /\ Total \in Nat
    <3>1. Total \in Nat
      BY Sizes, StartTable DEF Total, N
    <3> QED
      BY <2>1, <3>1, Times
  <2>3. /\ sent \in 0 .. Total /\ read \in 0 .. sent /\ left \in Nat
        /\ out \in 0 .. answers * ReplySize /\ got \in 0 .. out
    BY DEF TransferInv, TransferTypeOK
  <2>4. \A n \in Nat : \A x \in 0 .. n : \A y \in 0 .. x : x \in Nat /\ y \in Nat /\ y <= x
    OBVIOUS
  <2>5. sent \in Nat /\ read \in Nat /\ read <= sent /\ out \in Nat /\ got \in Nat /\ got <= out
    BY <2>2, <2>3, <2>4, Zenon
  <2> QED
    BY <2>1, <2>3, <2>4, <2>5
<1>2. at = "send" /\ left > 0 /\ out - got = CapOut /\ sent < Limit
  BY DEF ServerWaits, ClientWaits
<1>3. frames \in 0 .. N /\ read = Start[frames]
  BY <1>1, <1>2, Sizes DEF TransferInv, Placed, InStep, N
<1>4. out + left = answers * ReplySize
  BY <1>2 DEF TransferInv, Replied, Owed
<1>5. g \in Nat /\ g * ReplySize <= got
  BY <1>1, ReplyType
<1> HIDE DEF g
<1>6. PICK m \in 0 .. N : Limit = Start[m] /\ m <= frames - (answers - g) + Ahead
  BY LimitAt DEF TransferInv, Behind, g
<1>7. frames < m
  <2>1. Start[frames] < Start[m] /\ Start[m] \in Nat /\ Start[frames] \in Nat
    BY <1>1, <1>2, <1>3, <1>6, StartTable
  <2>2. frames \in Nat /\ m \in Nat
    BY <1>1, <1>6, Sizes
  <2>3. ~(m < frames) /\ m # frames
    BY <1>3, <1>6, <2>1, StartGrows
  <2> QED
    BY <2>2, <2>3
<1>8. answers <= g + (Ahead - 1) /\ g + (Ahead - 1) \in Nat /\ Ahead - 1 \in Nat
  BY <1>1, <1>5, <1>6, <1>7, Parameters, Sizes
<1>9. answers * ReplySize <= g * ReplySize + (Ahead - 1) * ReplySize
  <2>1. answers * ReplySize <= (g + (Ahead - 1)) * ReplySize
    BY <1>1, <1>8, Times
  <2>2. \A a, b, r \in Nat : (a + b) * r = a * r + b * r
    OBVIOUS
  <2>3. (g + (Ahead - 1)) * ReplySize = g * ReplySize + (Ahead - 1) * ReplySize
    BY <1>5, <1>8, <2>2, ReplyType
  <2> QED
    BY <2>1, <2>3
<1>10. /\ answers * ReplySize \in Nat /\ g * ReplySize \in Nat
       /\ (Ahead - 1) * ReplySize \in Nat
  BY <1>1, <1>5, <1>8, Times
<1> QED
  BY <1>1, <1>2, <1>4, <1>5, <1>9, <1>10, RoomAssumption, Parameters

(* Type correctness: no index runs past what was sent, no socket holds more  *)
(* than it can.                                                              *)
THEOREM TransferTypeCorrect == TransferSpec => []TransferTypeOK
<1>1. TransferSpec => []TransferInv
  BY TransferInitInv, TransferStep, PTL DEF TransferSpec
<1>2. TransferInv => TransferTypeOK
  BY DEF TransferInv
<1> QED
  BY <1>1, <1>2, PTL

(* However the streams are cut, between two frames the server is at the      *)
(* beginning of a frame, or a header was read in part.                       *)
THEOREM TransferFramesInStep == TransferSpec => []FramesInStep
BY TransferInitInv, TransferStep, InvFramesInStep, PTL DEF TransferSpec

(* The worker in send_data and the client never wait for each other.         *)
THEOREM TransferNoStandstill == TransferSpec => []NoStandstill
BY TransferInitInv, TransferStep, InvNoStandstill, PTL DEF TransferSpec
=============================================================================
