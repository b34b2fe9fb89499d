------------------------ MODULE SafeStringBufferProofs ------------------------
(***************************************************************************)
(* For every initial size, limit and marker length: SafeStringBuffer stays *)
(* within its buffer, its limit and the caller's string.                   *)
(***************************************************************************)
EXTENDS SafeStringBuffer, TLAPS

\* What a running append knows at each of its steps.
AppendKnows ==
    /\ pc # "idle" => buffer /\ len > 0 /\ touched = <<0, 0>> /\ read = 0
    /\ pc = "cap"  => newCapacity >= Need
    /\ pc = "copy" => Need <= capacity

IndInv == TypeOK /\ SizeBound /\ AccessBound /\ LossVisible /\ AppendKnows

\* The constructor allocates INITIAL_SIZE bytes or nothing.
LEMMA InitInd == Init => IndInv
  <1> SUFFICES ASSUME Init PROVE IndInv
    OBVIOUS
  <1> USE SizesAssumption DEF Init
  <1>1. capacity \in 0..MAX_SIZE /\ (buffer => capacity > 0)
    OBVIOUS
  <1>2. TypeOK
    BY <1>1 DEF TypeOK
  <1>3. SizeBound /\ AccessBound
    BY <1>1 DEF SizeBound, AccessBound
  <1>4. LossVisible
    BY DEF LossVisible
  <1>5. AppendKnows
    BY DEF AppendKnows
  <1> QED
    BY <1>2, <1>3, <1>4, <1>5 DEF IndInv

\* Each step of append, and clear, keeps the bounds.
LEMMA NextInd == IndInv /\ [Next]_vars => IndInv'
  <1> SUFFICES ASSUME IndInv, [Next]_vars PROVE IndInv'
    OBVIOUS
  <1> USE SizesAssumption
      DEF IndInv, TypeOK, SizeBound, AccessBound, LossVisible, AppendKnows, Need
  <1>1. ASSUME NEW l \in Lengths, Append(l) PROVE IndInv'
    BY <1>1 DEF Append
  <1>2. CASE Fits
    BY <1>2 DEF Fits
  <1>3. CASE Double
    BY <1>3 DEF Double
  <1>4. CASE Grow
    BY <1>4 DEF Grow, Realloc
  <1>5. CASE Truncate
    <2>1. /\ pc = "cap" /\ MAX_SIZE > size + truncLen + 1 /\ size + len + 1 > MAX_SIZE
          /\ MAX_SIZE - size - truncLen - 1 \in Nat
          /\ MAX_SIZE - size - truncLen - 1 <= len
          /\ size + (MAX_SIZE - size - truncLen - 1) + truncLen = MAX_SIZE - 1
      BY <1>5 DEF Truncate, CutTo
    <2>2. CASE lost' = "memory" /\ UNCHANGED <<capacity, size, read, touched, marked>>
      BY <1>5, <2>1, <2>2 DEF Truncate, CutTo
    <2>3. CASE /\ capacity' = MAX_SIZE /\ size' = MAX_SIZE - 1
               /\ read' = MAX_SIZE - size - truncLen - 1
               /\ touched' = <<size, MAX_SIZE - 1>> /\ marked' = TRUE /\ lost' = "limit"
      <3>1. pc' = "idle" /\ UNCHANGED <<buffer, len, newCapacity>>
        BY <1>5 DEF Truncate, CutTo
      <3>2. TypeOK' /\ SizeBound' /\ AccessBound' /\ AppendKnows'
        BY <2>1, <2>3, <3>1
      <3>3. size' + 1 = MAX_SIZE /\ marked'
        BY <2>3
      <3> QED
        BY <3>2, <3>3
    <2> QED
      BY <1>5, <2>1, <2>2, <2>3 DEF Truncate, CutTo
  <1>6. CASE Refuse
    BY <1>6 DEF Refuse
  <1>7. CASE Copy
    BY <1>7 DEF Copy
  <1>8. CASE clear
    <2>1. /\ pc = "idle" /\ pc' = "idle" /\ buffer /\ size' = 0 /\ lost' = "no"
          /\ touched' = <<0, 0>> /\ read' = 0 /\ UNCHANGED <<buffer, capacity, len, newCapacity>>
      BY <1>8 DEF clear
    <2>2. marked' = FALSE
      BY <1>8 DEF clear
    <2>3. marked' \in BOOLEAN
      BY <2>2
    <2>4. capacity \in Nat /\ 0 < capacity
      BY <2>1
    <2>5. SizeBound' /\ AccessBound' /\ AppendKnows'
      BY <2>1, <2>4
    <2>6. TypeOK'
      BY <2>1, <2>3
    <2>7. LossVisible'
      BY <2>1, <2>2
    <2> QED
      BY <2>5, <2>6, <2>7
  <1>9. CASE UNCHANGED vars
    BY <1>9 DEF vars
  <1> QED
    BY <1>1, <1>2, <1>3, <1>4, <1>5, <1>6, <1>7, <1>8, <1>9 DEF Next, AppendStep

\* The inductive invariant of SafeStringBuffer.
LEMMA BufferInvariant == Spec => []IndInv
  BY InitInd, NextInd, PTL DEF Spec

\* The capacity never exceeds MAX_SIZE.
THEOREM BufferTypes == Spec => []TypeOK
  BY BufferInvariant, PTL DEF IndInv

\* SafeStringBuffer::append always leaves buffer[size] inside the buffer.
THEOREM BufferSize == Spec => []SizeBound
  BY BufferInvariant, PTL DEF IndInv

\* SafeStringBuffer::append writes inside the buffer and reads inside the string.
THEOREM BufferAccess == Spec => []AccessBound
  BY BufferInvariant, PTL DEF IndInv

\* What is cut at the limit is marked whenever the marker fits behind at least one byte
\* of the text that is cut.
THEOREM BufferLoss == Spec => []LossVisible
  BY BufferInvariant, PTL DEF IndInv
===============================================================================
