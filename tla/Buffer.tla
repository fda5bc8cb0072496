------------------------------- MODULE Buffer -------------------------------
(* The buffer of one connection (include/LJob/Buffer.h) under the calls that *)
(* LJob makes: read() stores a frame, task() takes it out again and, with    *)
(* ENABLE_WRITE, stores the reply for write().  Of the contents only the     *)
(* lengths matter; the two indices and the size are the state.               *)
EXTENDS Integers

CONSTANTS K,            \* kCheapPrepend
          Initial,      \* the size that LJob asks for
          IntBytes,     \* sizeof(int): the bytes of a length
          Base,         \* the values of a byte
          Lens,         \* lengths that clients announce and replies have
          MaxLen,       \* the largest of them
          EnableWrite   \* the macro ENABLE_WRITE

ASSUME SizesAssumption == /\ K \in Nat /\ Initial \in Nat /\ IntBytes \in Nat \ {0}
                          /\ IntBytes <= Initial
                          /\ Base \in Nat \ {0, 1}
ASSUME LensAssumption == /\ MaxLen \in Nat /\ Lens \subseteq Int
                         /\ \A n \in Lens : n <= MaxLen
ASSUME EnableAssumption == EnableWrite \in BOOLEAN

VARIABLES buf,          \* buffer_.size(), readerIndex_, writerIndex_
          phase,        \* whose turn it is: read(), task() or write()
          len,          \* the length stored at readerIndex_
          aligned,      \* readerIndex_ is at the beginning of a frame
          overrun,      \* hasReaden was called with more than readableBytes()
          aborted       \* an assert failed

vars == <<buf, phase, len, aligned, overrun, aborted>>

TypeOK == /\ buf \in [size : Nat, r : Nat, w : Nat]
          /\ phase \in {"read", "task", "write"}
          /\ len \in Lens \cup {0}
          /\ aligned \in BOOLEAN /\ overrun \in BOOLEAN /\ aborted \in BOOLEAN

Init == /\ buf = [size |-> K + Initial, r |-> K, w |-> K]
        /\ phase = "read"
        /\ len = 0
        /\ aligned = TRUE
        /\ overrun = FALSE
        /\ aborted = FALSE
-----------------------------------------------------------------------------
readableBytes(b) == b.w - b.r
writableBytes(b) == b.size - b.w

(* makeSpace(n): grow when the free bytes on both sides do not hold n and    *)
(* the prepended K, otherwise move the readable bytes to the front.          *)
Grows_bug(b, n) == writableBytes(b) + b.r < n          \* K is forgotten
Grows_always(b, n) == TRUE                             \* never move the data
Grows(b, n) == writableBytes(b) + b.r < n + K

Resized(b, n) == [b EXCEPT !.size = b.w + n]

Moved(b) == [size |-> b.size, r |-> K, w |-> K + readableBytes(b)]

makeSpace(b, n) == IF Grows(b, n) THEN Resized(b, n) ELSE Moved(b)

(* ensureWritableBytes(n), and whether an assert of it or of makeSpace fails.*)
ensureWritableBytes(b, n) == IF writableBytes(b) < n THEN makeSpace(b, n) ELSE b

EnsureFails(b, n) == \/ writableBytes(b) < n /\ ~Grows(b, n) /\ ~(K < b.r)
                     \/ writableBytes(ensureWritableBytes(b, n)) < n

(* append(data, n), and recv_data behind ensureWritableBytes in readFd.      *)
append(b, n) == [ensureWritableBytes(b, n) EXCEPT !.w = @ + n]

(* A length and its bytes.                                                   *)
AppendFrame(b, n) == append(append(b, IntBytes), n)
AppendFails(b, n) == EnsureFails(b, IntBytes) \/ EnsureFails(append(b, IntBytes), n)

hasReaden(b, n) == [b EXCEPT !.r = @ + n]

(* readPackageHead copies the bytes of the length with strncpy, lowest byte  *)
(* first: a zero byte ends the copy, and the higher bytes are lost.          *)
ZeroBytes(n) == {k \in 0 .. IntBytes - 1 : (n \div Base ^ k) % Base = 0}
strncpyHead(n) == IF ZeroBytes(n) = {} THEN n
                  ELSE n % Base ^ (CHOOSE k \in ZeroBytes(n) :
                                      \A m \in ZeroBytes(n) : k <= m)

(* What readPackageHead can return: bytes that are not a length give any.    *)
HeadValues == IF aligned THEN {strncpyHead(len)} ELSE 0 .. MaxLen
-----------------------------------------------------------------------------
(* An index beyond the other has no defined effect: the model stops there.   *)
Sound == ~aborted /\ ~overrun

(* What ensureWritableBytes(n) does with a negative n, which size_t makes    *)
(* huge.  Above -K the sum n + K wraps to a small number, so that makeSpace  *)
(* does not grow and an assert fails; below it resize(writerIndex_ + n)      *)
(* throws or, when that is a size, cuts the vector, behind whose end         *)
(* recv_data then stores what comes.                                         *)
Cuts(b, n) == n + K < 0 /\ b.w + n >= 0

(* LJob::read() with a frame whose head announces n bytes, a signed int.     *)
Read(n) == /\ Sound /\ phase = "read"
           /\ \/ /\ n >= 0
                 /\ buf' = AppendFrame(buf, n)
                 /\ aborted' = AppendFails(buf, n)
                 /\ aligned' = (aligned /\ readableBytes(buf) = 0)
                 /\ UNCHANGED overrun
              \/ LET b == append(buf, IntBytes)
                 IN  /\ n < 0
                     /\ buf' = IF Cuts(b, n) THEN Resized(b, n) ELSE b
                     /\ overrun' = Cuts(b, n)
                     /\ aborted' = ~Cuts(b, n)
                     /\ UNCHANGED aligned
           /\ len' = n
           /\ phase' = "task"

(* readPackageHead and readPackageBody: n is the length that was understood. *)
Consumed_bug(n) == IntBytes     \* readPackageBody without hasReaden
Consumed(n) == IntBytes + n

Consume(n) == /\ buf' = hasReaden(buf, Consumed(n))
              /\ overrun' = (IntBytes + n > readableBytes(buf))
              /\ aligned' = (aligned /\ n = len)

(* task() without ENABLE_WRITE, or with an empty result.                     *)
Task(n) == /\ Sound /\ phase = "task"
           /\ Consume(n)
           /\ phase' = "read"
           /\ UNCHANGED <<len, aborted>>

(* task() with ENABLE_WRITE: a reply of m bytes is appended.                 *)
TaskReplies(n, m) ==
    /\ Sound /\ phase = "task" /\ EnableWrite
    /\ LET b == hasReaden(buf, Consumed(n))
       IN  /\ overrun' = (IntBytes + n > readableBytes(buf))
           /\ aligned' = (aligned /\ n = len /\ readableBytes(b) = 0)
           /\ buf' = AppendFrame(b, m)
           /\ aborted' = AppendFails(b, m)
    /\ len' = m
    /\ phase' = "write"

(* write(): writeFd sends the reply, or nothing when the buffer holds less   *)
(* than the length says.                                                     *)
Write(n) == /\ Sound /\ phase = "write"
            /\ IF readableBytes(buf) - IntBytes < n
               THEN /\ buf' = hasReaden(buf, IntBytes)
                    /\ aligned' = FALSE
                    /\ UNCHANGED overrun
               ELSE Consume(n)
            /\ phase' = "read"
            /\ UNCHANGED <<len, aborted>>

Next == \/ \E n \in Lens : Read(n)
        \/ \E n \in HeadValues : \/ Task(n) \/ Write(n)
                                 \/ \E m \in Lens \cap Nat : TaskReplies(n, m)

Spec == Init /\ [][Next]_vars
-----------------------------------------------------------------------------
(* The lengths that survive strncpy: no zero byte below a byte that is not   *)
(* zero.  12, the length of the reply, is one; 256 is not.                   *)
IntactLens == \A n \in Lens \cap Nat : strncpyHead(n) = n

(* Until a client announces a negative length, the indices stay in order and *)
(* inside the vector.                                                        *)
IndexOrder == len >= 0 => K <= buf.r /\ buf.r <= buf.w /\ buf.w <= buf.size

(* Nothing but a negative length makes an assert of Buffer.h end the process *)
(* or leads outside the vector; the assert in makeSpace says that data is    *)
(* moved only when that gains something.                                     *)
AbortsOnlyOnNegative == aborted \/ overrun => len < 0

(* Frames do not leak into each other: between two frames the buffer is      *)
(* empty, and whoever reads a length reads one that was stored.              *)
FramesIntact == aligned /\ (phase = "read" => buf.r = buf.w)

(* However many frames pass, the vector stays within twice the longest frame *)
(* or keeps its first size.                                                  *)
SizeBound == buf.size <= K + Initial \/ buf.size <= 2 * MaxLen + K + IntBytes
=============================================================================
