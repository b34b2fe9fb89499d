--------------------------- MODULE SafeStringBuffer ---------------------------
(***************************************************************************)
(* Bridge.cpp's SafeStringBuffer: a growing buffer with an upper limit and *)
(* a marker for text that was cut.  Contents are abstracted to lengths.    *)
(***************************************************************************)
EXTENDS Naturals

CONSTANTS INITIAL_SIZE, MAX_SIZE, truncLen,
          Lengths       \* bound: the lengths of the strings appended

ASSUME SizesAssumption ==
    /\ INITIAL_SIZE \in Nat \ {0} /\ MAX_SIZE \in Nat /\ truncLen \in Nat \ {0}
    /\ INITIAL_SIZE <= MAX_SIZE
    /\ Lengths \subseteq Nat

VARIABLES
    buffer,       \* is it allocated?
    capacity, size,
    pc,           \* "idle", or where append is: "fit", "double", "cap", "copy"
    len,          \* argument of the running append
    newCapacity,
    touched,      \* history: bytes of the buffer written by the last append, as <<from, to>>
    read,         \* history: bytes of str read by the last append
    marked,       \* history: the truncation marker is the end of the buffer
    lost          \* history: why text is missing since the last clear: "no", "memory", "limit"

vars == <<buffer, capacity, size, pc, len, newCapacity, touched, read, marked, lost>>

Need == size + len + 1

\* The constructor; malloc may fail.
Init ==
    /\ buffer \in BOOLEAN
    /\ capacity = IF buffer THEN INITIAL_SIZE ELSE 0
    /\ size = 0 /\ pc = "idle" /\ len = 0 /\ newCapacity = 0
    /\ touched = <<0, 0>> /\ read = 0 /\ marked = FALSE /\ lost = "no"

\* append(str, l): nothing is done without a buffer or for an empty string.
Append(l) ==
    /\ pc = "idle"
    /\ len' = l
    /\ pc' = IF buffer /\ l # 0 THEN "fit" ELSE "idle"
    /\ lost' = IF ~buffer /\ l # 0 THEN "memory" ELSE lost
    /\ touched' = <<0, 0>> /\ read' = 0
    /\ UNCHANGED <<buffer, capacity, size, newCapacity, marked>>

\* Mutant: no room is kept for the terminating zero.
FitsNoZero ==
    /\ pc = "fit"
    /\ IF size + len > capacity
       THEN pc' = "double" /\ newCapacity' = capacity * 2
       ELSE pc' = "copy" /\ UNCHANGED newCapacity
    /\ UNCHANGED <<buffer, capacity, size, len, touched, read, marked, lost>>

\* if (size + len + 1 > capacity)
Fits ==
    /\ pc = "fit"
    /\ IF Need > capacity
       THEN pc' = "double" /\ newCapacity' = capacity * 2
       ELSE pc' = "copy" /\ UNCHANGED newCapacity
    /\ UNCHANGED <<buffer, capacity, size, len, touched, read, marked, lost>>

\* Mutant: the loop does not grow the new capacity.
DoubleNot ==
    /\ pc = "double"
    /\ IF Need > newCapacity
       THEN UNCHANGED <<newCapacity, pc>>
       ELSE pc' = "cap" /\ UNCHANGED newCapacity
    /\ UNCHANGED <<buffer, capacity, size, len, touched, read, marked, lost>>

\* while (size + len + 1 > newCapacity) newCapacity *= 2;
Double ==
    /\ pc = "double"
    /\ IF Need > newCapacity
       THEN newCapacity' = newCapacity * 2 /\ UNCHANGED pc
       ELSE pc' = "cap" /\ UNCHANGED newCapacity
    /\ UNCHANGED <<buffer, capacity, size, len, touched, read, marked, lost>>

\* realloc to n bytes and go on, or fail and return false.
Realloc(n) ==
    \/ capacity' = n /\ pc' = "copy" /\ UNCHANGED lost
    \/ pc' = "idle" /\ lost' = "memory" /\ UNCHANGED capacity

\* Mutant: the capacity is not held at the limit.
GrowUnlimited ==
    /\ pc = "cap"
    /\ newCapacity <= MAX_SIZE \/ Need <= MAX_SIZE
    /\ Realloc(newCapacity)
    /\ UNCHANGED <<buffer, size, len, newCapacity, touched, read, marked>>

\* The string fits below the limit: grow to newCapacity, or to the limit.
Grow ==
    /\ pc = "cap"
    /\ newCapacity <= MAX_SIZE \/ Need <= MAX_SIZE
    /\ Realloc(IF newCapacity > MAX_SIZE THEN MAX_SIZE ELSE newCapacity)
    /\ UNCHANGED <<buffer, size, len, newCapacity, touched, read, marked>>

\* n bytes of the string and the marker fill the buffer up, or realloc fails.
CutTo(n) ==
    /\ pc = "cap" /\ newCapacity > MAX_SIZE /\ Need > MAX_SIZE
    /\ MAX_SIZE > size + truncLen + 1
    /\ \/ /\ capacity' = MAX_SIZE
          /\ size' = size + n + truncLen
          /\ read' = n
          /\ touched' = <<size, size + n + truncLen>>
          /\ marked' = TRUE
          /\ lost' = "limit"
       \/ lost' = "memory" /\ UNCHANGED <<capacity, size, read, touched, marked>>
    /\ pc' = "idle"
    /\ UNCHANGED <<buffer, len, newCapacity>>

\* Mutant: the copied part leaves no room for the marker.
TruncateLate == CutTo(MAX_SIZE - size - 1)

\* Mutant: the text is cut without a marker.
TruncateSilently ==
    /\ pc = "cap" /\ newCapacity > MAX_SIZE /\ Need > MAX_SIZE
    /\ pc' = "idle" /\ lost' = "limit"
    /\ UNCHANGED <<buffer, capacity, size, len, newCapacity, touched, read, marked>>

\* The string does not fit: copy what fits in front of the marker, return false.
Truncate == CutTo(MAX_SIZE - size - truncLen - 1)

\* No room for the marker and a byte of the text in front of it: return false.  The
\* test is strict: where the marker and the zero alone would fill the buffer to the
\* last byte, they are not written either.
Refuse ==
    /\ pc = "cap" /\ newCapacity > MAX_SIZE /\ Need > MAX_SIZE
    /\ MAX_SIZE <= size + truncLen + 1
    /\ pc' = "idle" /\ lost' = "limit"
    /\ UNCHANGED <<buffer, capacity, size, len, newCapacity, touched, read, marked>>

\* memcpy, the new size and the terminating zero; return true.
Copy ==
    /\ pc = "copy"
    /\ size' = size + len
    /\ touched' = <<size, size + len>>
    /\ read' = len
    /\ pc' = "idle"
    /\ UNCHANGED <<buffer, capacity, len, newCapacity, marked, lost>>

clear ==
    /\ pc = "idle" /\ buffer
    /\ size' = 0 /\ marked' = FALSE /\ lost' = "no" /\ touched' = <<0, 0>> /\ read' = 0
    /\ UNCHANGED <<buffer, capacity, pc, len, newCapacity>>

AppendStep == Fits \/ Double \/ Grow \/ Truncate \/ Refuse \/ Copy
Next == (\E l \in Lengths : Append(l)) \/ AppendStep \/ clear

Spec == Init /\ [][Next]_vars

\* append is sequential code: once called it runs on.
FairSpec == Spec /\ WF_vars(AppendStep)

-------------------------------------------------------------------------------

\* Types; realloc is never asked for more than MAX_SIZE.
TypeOK ==
    /\ buffer \in BOOLEAN /\ marked \in BOOLEAN /\ lost \in {"no", "memory", "limit"}
    /\ capacity \in 0..MAX_SIZE
    /\ size \in Nat /\ len \in Nat /\ newCapacity \in Nat /\ read \in Nat
    /\ pc \in {"idle", "fit", "double", "cap", "copy"}
    /\ touched \in Nat \X Nat

\* append leaves room for the terminating zero: buffer[size] is inside the buffer.
SizeBound == buffer => size < capacity

\* Every append writes inside the buffer, the zero included, and reads no more of
\* the caller's string than there is, also where it cuts the string.
AccessBound == buffer => touched[2] < capacity /\ read <= len

\* Text cut at the limit is visible: the marker ends a buffer that is full to the
\* last byte.  Text is lost without a marker only where the text, the marker and the
\* zero would not fit with even one byte of the new text; that is one size more than
\* where the marker itself has no room, as the test of the code is strict.
LossVisible ==
    /\ marked => size + 1 = MAX_SIZE
    /\ lost = "limit" /\ ~marked => size + 1 + truncLen + 1 > MAX_SIZE

\* The doubling loop ends: every append returns.
AppendReturns == (pc # "idle") ~> (pc = "idle")
===============================================================================
