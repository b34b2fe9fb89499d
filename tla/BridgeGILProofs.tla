--------------------------- MODULE BridgeGILProofs ---------------------------
(***************************************************************************)
(* Proofs about the interpreter lock, for any threads, values and calls.   *)
(* The first half shows that the code of every function keeps a simple     *)
(* discipline (InCode, OutCode): it takes the lock before it uses Python   *)
(* and gives a handle back at most once.  The second half runs such code   *)
(* on the threads' stacks.                                                 *)
(***************************************************************************)
EXTENDS BridgeGIL, SequenceTheorems, WellFoundedInduction, TLAPS

Iterators == {"dict_next", "iter_next", "pairs_next"}
Quiet     == {"__gc", "PrintPythonError"}
Names     == Registered \cup {"LuaToPython", "PrintPythonError"}
Lost      == <<Release, Null>>

\* Where the second outcome of a step leads, by function.
Alternatives(fn) ==
    IF fn = "LuaToPython" THEN {Lost, <<Null>>, <<PythonOr(Lost)>> \o Done}
    ELSE IF fn \in Iterators THEN {Done, Exhausted, <<Return>>, <<Raise>>}
    ELSE IF fn \in Quiet THEN {}
    ELSE {Done, Fail, <<Report>> \o Fail, <<Python>> \o Fail}

AllAlternatives == UNION {Alternatives(fn) : fn \in Names}
SimpleOps == {"Ensure", "Release", "Return", "Null", "Raise", "Check", "Report", "Wrap"}
Final     == {"Return", "Null", "Raise"}

Steps ==
    [op : SimpleOps]
    \cup [op : {"Python"}, or : {<<>>} \cup AllAlternatives]
    \cup [op : {"Call"}, arg : Values]
    \cup [op : {"Convert", "PCall"}, arg : Values, or : AllAlternatives]

\* A step that function fn may contain, the type tests without the lock apart.
StepOf(fn, s) ==
    /\ s \in Steps /\ s.op # "Check"
    /\ s.op = "Null" => fn = "LuaToPython"
    /\ s.op = "Raise" => fn \notin {"LuaToPython"} \cup Quiet
    /\ s.op \in {"Call", "PCall"} => fn = "toPyAuto"
    /\ s.op = "Python" => s.or = <<>> \/ s.or \in Alternatives(fn)
    /\ s.op \in {"Convert", "PCall"} => s.or \in Alternatives(fn)

\* A stretch of code that is entered with the lock: Release is followed by the end, or
\* by an Ensure, and only there is an Ensure; only iterators and LuaToPython end
\* without a Release.
Stretch(fn, c) ==
    /\ c \in Seq(Steps)
    /\ \A i \in 1..Len(c) :
          /\ StepOf(fn, c[i])
          /\ c[i].op = "Ensure" => i > 1 /\ c[i - 1].op = "Release"
          /\ c[i].op = "Release" => i < Len(c) /\ c[i + 1].op \in Final \cup {"Ensure"}
          /\ c[i].op \in Final /\ fn \notin Iterators \cup {"LuaToPython"} => i > 1 /\ c[i - 1].op = "Release"

\* The code of a function that has a handle, and of one that has none.
InCode(fn, c)  == Stretch(fn, c) /\ c # <<>> /\ c[Len(c)].op \in Final
OutCode(fn, c) ==
    /\ c \in Seq(Steps) /\ c # <<>> /\ StepOf(fn, Head(c))
    /\ \/ Head(c).op \in Final
       \/ Head(c).op = "Ensure" /\ InCode(fn, Tail(c))

\* CallObject before a type test: after one test or two its code is as everyone's.
TestCode(c) ==
    /\ c \in Seq(Steps) /\ c # <<>> /\ Head(c).op = "Check"
    /\ \/ OutCode("callObject", Tail(c))
       \/ /\ Tail(c) # <<>> /\ Head(Tail(c)).op = "Check"
          /\ OutCode("callObject", Tail(Tail(c)))

Frames == [fn : Names, code : Seq(Steps), gstate : {"none", "LOCKED", "UNLOCKED"}]

Busy(f) == f.gstate # "none" /\ InCode(f.fn, f.code)
Idle(f) == f.gstate = "none" /\ OutCode(f.fn, f.code)
Testing(f) == f.gstate = "none" /\ f.fn = "callObject" /\ TestCode(f.code)

\* What the innermost frame is.
Ready(f) == Busy(f) \/ Idle(f) \/ Testing(f)

\* A frame below another one waits at the step that called it.
CallOps  == {"Convert", "Call", "PCall", "Report", "Wrap"}
Callee(op) ==
    IF op = "Convert" THEN "LuaToPython" ELSE IF op \in {"Call", "PCall"} THEN "toPyAuto"
    ELSE IF op = "Report" THEN "PrintPythonError" ELSE "__gc"
Waiting(f) == Busy(f) /\ Head(f.code).op \in CallOps

Nested(s) ==
    /\ s \in Seq(Frames)
    /\ Len(s) > 0 => s[1].fn \in Registered /\ Ready(s[Len(s)])
    /\ \A i \in 1..(Len(s) - 1) : Waiting(s[i]) /\ s[i + 1].fn = Callee(Head(s[i].code).op)
    /\ \A i \in 2..Len(s) :
          /\ s[i].gstate # "UNLOCKED"
          /\ s[i].fn = "toPyAuto" => s[1].fn = "toPyAuto"

Handles(s) == IF s = <<>> THEN 0 ELSE IF s[Len(s)].gstate = "none" THEN Len(s) - 1 ELSE Len(s)

\* The handle of the outermost function took the lock.
Took(s) == s # <<>> /\ s[1].gstate = "UNLOCKED"

KeepingFunctions == {"dict_next", "iter_next", "toPyAuto", "pairs_next"}

\* Thread t with counter n, stack s, yielding y and kept k, when h holds the lock.
LockOK(t, h, n, s, y, k) ==
    /\ (h = t \/ y) <=> (k # {} \/ Took(s))
    /\ Took(s) => k = {}
    /\ s # <<>> /\ s[1].gstate = "LOCKED" => k # {}
    /\ y => h # t /\ s # <<>> /\ Head(s[Len(s)].code).op = "Python"
    /\ n \in Nat /\ n >= Handles(s) + (IF k = {} THEN 0 ELSE 1)
    /\ k \subseteq KeepingFunctions

ThreadOK(t, h, n, s, y, k) == Nested(s) /\ LockOK(t, h, n, s, y, k)

LockInv ==
    /\ holder \in LuaThreads \cup {Game, Nobody}
    /\ counter \in [LuaThreads -> Nat] /\ yielding \in [LuaThreads -> BOOLEAN]
    /\ stack \in [LuaThreads -> Seq(Frames)] /\ kept \in [LuaThreads -> SUBSET KeepingFunctions]
    /\ \A t \in LuaThreads : ThreadOK(t, holder, counter[t], stack[t], yielding[t], kept[t])

------------------------------------------------------------------------------
(* Steps and stretches of code.                                              *)

Mid       == {"Python", "Convert", "Call", "PCall", "Report", "Wrap"}
MidOf(fn, s) == StepOf(fn, s) /\ s.op \in Mid
MayRaise  == Names \ ({"LuaToPython"} \cup Quiet)

\* The steps without parameters.
LEMMA SimpleSteps ==
    ASSUME NEW fn \in Names
    PROVE  /\ StepOf(fn, Ensure) /\ StepOf(fn, Release) /\ StepOf(fn, Return)
           /\ Ensure.op = "Ensure" /\ Release.op = "Release" /\ Return.op = "Return"
           /\ MidOf(fn, Report) /\ MidOf(fn, Wrap)
           /\ Raise.op = "Raise" /\ (fn \in MayRaise => StepOf(fn, Raise))
           /\ Null.op = "Null" /\ (fn = "LuaToPython" => StepOf(fn, Null))
  BY DEF StepOf, MidOf, Mid, Steps, SimpleOps, Ensure, Release, Return, Report, Wrap, Raise, Null, MayRaise

\* A call of the C API.
LEMMA PythonStep ==
    ASSUME NEW fn \in Names, NEW a \in Alternatives(fn)
    PROVE  MidOf(fn, PythonOr(a)) /\ MidOf(fn, Python)
  <1>1. a \in AllAlternatives
    BY DEF AllAlternatives
  <1> QED
    BY <1>1 DEF StepOf, MidOf, Mid, Steps, Python, PythonOr

\* One whose failure changes nothing.
LEMMA PlainPython ==
    ASSUME NEW fn \in Names
    PROVE  MidOf(fn, Python)
  BY DEF StepOf, MidOf, Mid, Steps, Python

\* A conversion.
LEMMA ConvertStep ==
    ASSUME NEW fn \in Names, NEW v \in Values, NEW a \in Alternatives(fn)
    PROVE  MidOf(fn, ConvertOr(v, a))
  <1>1. a \in AllAlternatives
    BY DEF AllAlternatives
  <1> QED
    BY <1>1 DEF StepOf, MidOf, Mid, Steps, ConvertOr

\* The calls of toPyAuto to itself.
LEMMA CallSteps ==
    ASSUME NEW v \in Values
    PROVE  MidOf("toPyAuto", CallAuto(v)) /\ MidOf("toPyAuto", PCallAuto(v, Fail))
  <1>1. Fail \in Alternatives("toPyAuto") /\ "toPyAuto" \in Names
    BY DEF Alternatives, Names, Iterators, Quiet, Registered, Unary
  <1>2. Fail \in AllAlternatives
    BY <1>1 DEF AllAlternatives
  <1> QED
    BY <1>1, <1>2 DEF StepOf, MidOf, Mid, Steps, CallAuto, PCallAuto

\* Steps in the middle of a function make a stretch.
LEMMA MidStretch ==
    ASSUME NEW fn, NEW c \in Seq(Steps), \A i \in 1..Len(c) : MidOf(fn, c[i])
    PROVE  Stretch(fn, c)
  <1>1. \A i \in 1..Len(c) : c[i].op \notin {"Ensure", "Release"} \cup Final
    BY DEF MidOf, Mid, Final
  <1> QED
    BY <1>1 DEF MidOf, Stretch, Final

\* One, two and three of them.
LEMMA MidTuples ==
    ASSUME NEW fn, NEW a, NEW b, NEW c, MidOf(fn, a)
    PROVE  /\ Stretch(fn, <<a>>)
           /\ MidOf(fn, b) => Stretch(fn, <<a, b>>)
           /\ MidOf(fn, b) /\ MidOf(fn, c) => Stretch(fn, <<a, b, c>>)
  <1>1. a \in Steps
    BY DEF MidOf, StepOf
  <1>2. Stretch(fn, <<a>>)
    <2>1. <<a>> \in Seq(Steps) /\ \A i \in 1..Len(<<a>>) : MidOf(fn, <<a>>[i])
      BY <1>1
    <2> QED
      BY <2>1, MidStretch
  <1>3. ASSUME MidOf(fn, b) PROVE Stretch(fn, <<a, b>>)
    <2>1. b \in Steps
      BY <1>3 DEF MidOf, StepOf
    <2>2. <<a, b>> \in Seq(Steps) /\ \A i \in 1..Len(<<a, b>>) : MidOf(fn, <<a, b>>[i])
      BY <1>1, <1>3, <2>1
    <2> QED
      BY <2>2, MidStretch
  <1>4. ASSUME MidOf(fn, b), MidOf(fn, c) PROVE Stretch(fn, <<a, b, c>>)
    <2>1. b \in Steps /\ c \in Steps
      BY <1>4 DEF MidOf, StepOf
    <2>2. <<a, b, c>> \in Seq(Steps) /\ \A i \in 1..Len(<<a, b, c>>) : MidOf(fn, <<a, b, c>>[i])
      BY <1>1, <1>4, <2>1
    <2> QED
      BY <2>2, MidStretch
  <1> QED
    BY <1>2, <1>3, <1>4

\* Nothing at all is a stretch.
LEMMA NoStretch == ASSUME NEW fn PROVE Stretch(fn, <<>>)
  BY DEF Stretch

\* Stretches one after the other.
LEMMA StretchConcat ==
    ASSUME NEW fn, NEW a, NEW b, Stretch(fn, a), Stretch(fn, b)
    PROVE  Stretch(fn, a \o b)
  <1> DEFINE c == a \o b
             n == Len(a)
  <1>1. /\ a \in Seq(Steps) /\ b \in Seq(Steps) /\ c \in Seq(Steps)
        /\ n \in Nat /\ Len(b) \in Nat /\ Len(c) = n + Len(b)
        /\ \A i \in 1..n : c[i] = a[i]
        /\ \A i \in (n + 1)..Len(c) : c[i] = b[i - n]
    BY DEF Stretch
  <1> HIDE DEF c, n
  <1>2. ASSUME NEW i \in 1..n
        PROVE  /\ StepOf(fn, c[i])
               /\ c[i].op = "Ensure" => i > 1 /\ c[i - 1].op = "Release"
               /\ c[i].op = "Release" => i < Len(c) /\ c[i + 1].op \in Final \cup {"Ensure"}
               /\ c[i].op \in Final /\ fn \notin Iterators \cup {"LuaToPython"} => i > 1 /\ c[i - 1].op = "Release"
    <2>1. c[i] = a[i] /\ i \in Nat /\ (i > 1 => c[i - 1] = a[i - 1]) /\ (i < n => c[i + 1] = a[i + 1])
      BY <1>1
    <2> QED
      BY <1>1, <2>1 DEF Stretch, n
  <1>3. ASSUME NEW i \in (n + 1)..Len(c)
        PROVE  /\ StepOf(fn, c[i])
               /\ c[i].op = "Ensure" => i > 1 /\ c[i - 1].op = "Release"
               /\ c[i].op = "Release" => i < Len(c) /\ c[i + 1].op \in Final \cup {"Ensure"}
               /\ c[i].op \in Final /\ fn \notin Iterators \cup {"LuaToPython"} => i > 1 /\ c[i - 1].op = "Release"
    <2>1. PICK j \in 1..Len(b) : j = i - n /\ i = j + n
      BY <1>1
    <2>2. c[i] = b[j] /\ (j > 1 => c[i - 1] = b[j - 1]) /\ (j < Len(b) => c[i + 1] = b[j + 1])
      <3>1. i \in Nat /\ j \in Nat /\ (i - 1) - n = j - 1 /\ (i + 1) - n = j + 1
        BY <1>1, <2>1
      <3>2. j > 1 => i - 1 \in (n + 1)..Len(c)
        BY <1>1, <2>1
      <3>3. j < Len(b) => i + 1 \in (n + 1)..Len(c)
        BY <1>1, <2>1
      <3> QED
        BY <1>1, <2>1, <3>1, <3>2, <3>3
    <2>3. j > 1 => i > 1
      BY <1>1, <2>1
    <2>4. j < Len(b) => i < Len(c)
      BY <1>1, <2>1
    <2> QED
      BY <2>2, <2>3, <2>4 DEF Stretch
  <1>4. \A i \in 1..Len(c) : i \in 1..n \/ i \in (n + 1)..Len(c)
    BY <1>1
  <1>5. Stretch(fn, c)
    BY <1>1, <1>2, <1>3, <1>4 DEF Stretch
  <1> QED
    BY <1>5 DEF c

\* Code that follows a stretch.
LEMMA StretchThen ==
    ASSUME NEW fn, NEW a, NEW b, Stretch(fn, a), InCode(fn, b)
    PROVE  InCode(fn, a \o b)
  <1>1. a \in Seq(Steps) /\ b \in Seq(Steps) /\ b # <<>>
    BY DEF Stretch, InCode
  <1>2. /\ Len(b) > 0 /\ Len(a \o b) = Len(a) + Len(b)
        /\ (a \o b)[Len(a \o b)] = b[Len(b)] /\ a \o b # <<>>
    BY <1>1
  <1> QED
    BY <1>2, StretchConcat DEF InCode

\* The ends of functions.
LEMMA Ends ==
    ASSUME NEW fn \in Names
    PROVE  InCode(fn, Done) /\ (fn \in MayRaise => InCode(fn, Fail))
  <1>1. Release \in Steps /\ Return \in Steps /\ Raise \in Steps
    BY DEF Steps, SimpleOps, Release, Return, Raise
  <1>2. Done \in Seq(Steps) /\ Fail \in Seq(Steps) /\ Len(Done) = 2 /\ Len(Fail) = 2
    BY <1>1 DEF Done, Fail
  <1>3. Done[1] = Release /\ Done[2] = Return /\ Fail[1] = Release /\ Fail[2] = Raise
    BY DEF Done, Fail
  <1>4. Release.op \notin {"Ensure"} \cup Final /\ Return.op \in Final /\ Raise.op \in Final
    BY DEF Release, Return, Raise, Final
  <1>5. \A i \in 1..2 : i = 1 \/ i = 2
    OBVIOUS
  <1>6. InCode(fn, Done)
    <2>1. \A i \in 1..2 : StepOf(fn, Done[i])
      BY <1>3, <1>5, SimpleSteps
    <2>2. Done # <<>>
      BY DEF Done
    <2> QED
      BY <1>2, <1>3, <1>4, <1>5, <2>1, <2>2, SimpleSteps DEF InCode, Stretch, Final
  <1>7. ASSUME fn \in MayRaise PROVE InCode(fn, Fail)
    <2>1. \A i \in 1..2 : StepOf(fn, Fail[i])
      BY <1>3, <1>5, <1>7, SimpleSteps
    <2>2. Fail # <<>>
      BY DEF Fail
    <2> QED
      BY <1>2, <1>3, <1>4, <1>5, <2>1, <2>2, SimpleSteps DEF InCode, Stretch, Final
  <1> QED
    BY <1>6, <1>7

\* A single step at the end, of a function that may forget its Release.
LEMMA BareEnd ==
    ASSUME NEW fn \in Iterators \cup {"LuaToPython"}, NEW s, StepOf(fn, s), s.op \in Final
    PROVE  InCode(fn, <<s>>)
  <1>1. s \in Steps
    BY DEF StepOf
  <1>2. <<s>> \in Seq(Steps) /\ Len(<<s>>) = 1 /\ <<s>>[1] = s /\ <<s>> # <<>>
    BY <1>1
  <1>3. s.op \notin {"Ensure", "Release"}
    BY DEF Final
  <1> QED
    BY <1>2, <1>3 DEF InCode, Stretch

\* LuaToPython's end after an error.
LEMMA LostEnds == InCode("LuaToPython", Lost)
  <1> DEFINE fn == "LuaToPython"
  <1>0. fn \in Names
    BY DEF Names
  <1>1. Release \in Steps /\ Null \in Steps
    BY DEF Steps, SimpleOps, Release, Null
  <1>2. Lost \in Seq(Steps) /\ Len(Lost) = 2 /\ Lost # <<>> /\ Lost[1] = Release /\ Lost[2] = Null
    BY <1>1 DEF Lost
  <1>4. Release.op \notin {"Ensure"} \cup Final /\ Null.op \in Final
    BY DEF Release, Null, Final
  <1>5. \A i \in 1..2 : i = 1 \/ i = 2
    OBVIOUS
  <1>6. \A i \in 1..2 : StepOf(fn, Lost[i])
    BY <1>0, <1>2, <1>5, SimpleSteps
  <1> QED
    BY <1>2, <1>4, <1>5, <1>6 DEF InCode, Stretch, Final

\* A function's second outcomes are code of that function.
LEMMA AlternativesEnd ==
    ASSUME NEW fn \in Names, NEW c \in Alternatives(fn)
    PROVE  InCode(fn, c)
  <1>1. CASE fn = "LuaToPython"
    <2>1. InCode(fn, Lost) /\ InCode(fn, <<Null>>)
      BY <1>1, LostEnds, BareEnd, SimpleSteps DEF Final
    <2>2. Stretch(fn, <<PythonOr(Lost)>>)
      BY <1>1, PythonStep, MidTuples DEF Alternatives
    <2>3. InCode(fn, <<PythonOr(Lost)>> \o Done)
      BY <2>2, Ends, StretchThen
    <2> QED
      BY <1>1, <2>1, <2>3 DEF Alternatives
  <1>2. CASE fn \in Iterators
    <2>1. fn \in MayRaise /\ fn # "LuaToPython"
      BY <1>2 DEF Iterators, MayRaise, Quiet
    <2>2. InCode(fn, <<Return>>) /\ InCode(fn, <<Raise>>) /\ InCode(fn, Done)
      BY <1>2, <2>1, Ends, BareEnd, SimpleSteps DEF Final
    <2>3. Stretch(fn, <<PythonOr(<<Return>>)>>)
      BY <1>2, <2>1, PythonStep, MidTuples DEF Alternatives
    <2>4. InCode(fn, <<PythonOr(<<Return>>)>> \o Done)
      BY <2>2, <2>3, StretchThen
    <2>5. Exhausted = <<PythonOr(<<Return>>)>> \o Done
      BY DEF Exhausted, Done
    <2> QED
      BY <1>2, <2>1, <2>2, <2>4, <2>5 DEF Alternatives
  <1>3. CASE fn \notin Iterators \cup {"LuaToPython"} \cup Quiet
    <2>1. InCode(fn, Done) /\ InCode(fn, Fail)
      BY <1>3, Ends DEF MayRaise
    <2>2. Stretch(fn, <<Report>>) /\ Stretch(fn, <<Python>>)
      BY SimpleSteps, PlainPython, MidTuples
    <2>3. InCode(fn, <<Report>> \o Fail) /\ InCode(fn, <<Python>> \o Fail)
      BY <2>1, <2>2, StretchThen
    <2> QED
      BY <1>3, <2>1, <2>3 DEF Alternatives
  <1> QED
    BY <1>1, <1>2, <1>3 DEF Alternatives

------------------------------------------------------------------------------
(* Loops.                                                                    *)

\* What holds of 0, and of n + 1 if of n, holds of every number.
LEMMA SetInduction ==
    ASSUME NEW T \in SUBSET Nat, 0 \in T, \A n \in T : n + 1 \in T
    PROVE  T = Nat
  <1> DEFINE R == OpToRel(<, Nat)
  <1>1. IsWellFoundedOn(R, Nat)
    BY NatLessThanWellFounded, Zenon
  <1>2. \A x, y \in Nat : x < y => <<x, y>> \in R
    BY DEF OpToRel
  <1> HIDE DEF R
  <1>3. SUFFICES ASSUME Nat \ T # {} PROVE FALSE
    OBVIOUS
  <1>4. PICK x \in Nat \ T : \A y \in Nat \ T : ~(<<y, x>> \in R)
    BY <1>1, <1>3, WFMin
  <1>5. x # 0 /\ x - 1 \in Nat /\ x - 1 < x
    OBVIOUS
  <1>6. x - 1 \in T
    BY <1>2, <1>4, <1>5
  <1> QED
    BY <1>4, <1>5, <1>6

\* The recursion of FlattenSeq, up to the n-th sequence.
Flattening(q, n, g) == g = [i \in 1..n |-> IF i = 1 THEN q[i] ELSE g[i - 1] \o q[i]]

\* It has a solution for every n.
LEMMA FlatteningExists ==
    ASSUME NEW q, NEW n \in Nat
    PROVE  \E g : Flattening(q, n, g)
  <1> DEFINE T == {m \in Nat : \E g : Flattening(q, m, g)}
  <1>1. 0 \in T
    <2>1. Flattening(q, 0, [i \in 1..0 |-> 0])
      BY DEF Flattening
    <2> QED
      BY <2>1
  <1>2. ASSUME NEW m \in T PROVE m + 1 \in T
    <2>1. PICK g : Flattening(q, m, g)
      OBVIOUS
    <2> DEFINE h == [i \in 1..(m + 1) |-> IF i <= m THEN g[i] ELSE IF i = 1 THEN q[i] ELSE g[i - 1] \o q[i]]
    <2>2. \A i \in 1..m : g[i] = IF i = 1 THEN q[i] ELSE g[i - 1] \o q[i]
      BY <2>1 DEF Flattening
    <2>3. \A i \in 1..(m + 1) : i # 1 => i - 1 \in 1..(m + 1) /\ i - 1 <= m
      OBVIOUS
    <2>4. ASSUME NEW i \in 1..(m + 1) PROVE h[i] = IF i = 1 THEN q[i] ELSE h[i - 1] \o q[i]
      <3>1. i # 1 => h[i - 1] = g[i - 1]
        BY <2>3
      <3> QED
        BY <2>2, <3>1
    <2>5. Flattening(q, m + 1, h)
      BY <2>4 DEF Flattening
    <2> QED
      BY <2>5
  <1>3. T = Nat
    <2> HIDE DEF T
    <2>1. T \in SUBSET Nat
      BY DEF T
    <2> QED
      BY <1>1, <1>2, <2>1, SetInduction
  <1> QED
    BY <1>3

\* Every beginning of the recursion is a stretch if the sequences are.
LEMMA FlatteningStretch ==
    ASSUME NEW fn, NEW q, NEW n \in Nat, NEW g, Flattening(q, n, g),
           \A i \in 1..n : Stretch(fn, q[i])
    PROVE  \A i \in 1..n : Stretch(fn, g[i])
  <1> DEFINE T == {m \in Nat : m + 1 \in 1..n => Stretch(fn, g[m + 1])}
  <1>0. \A i \in 1..n : g[i] = IF i = 1 THEN q[i] ELSE g[i - 1] \o q[i]
    BY DEF Flattening
  <1>1. 0 \in T
    BY <1>0
  <1>2. ASSUME NEW m \in T PROVE m + 1 \in T
    <2>1. ASSUME m + 2 \in 1..n PROVE Stretch(fn, g[m + 2])
      <3>1. m + 1 \in 1..n /\ m + 2 # 1 /\ (m + 2) - 1 = m + 1
        BY <2>1
      <3>2. g[m + 2] = g[m + 1] \o q[m + 2]
        BY <1>0, <2>1, <3>1
      <3> QED
        BY <2>1, <3>1, <3>2, StretchConcat
    <2> QED
      BY <2>1
  <1>3. T = Nat
    <2> HIDE DEF T
    <2>1. T \in SUBSET Nat
      BY DEF T
    <2> QED
      BY <1>1, <1>2, <2>1, SetInduction
  <1>4. \A i \in 1..n : i - 1 \in Nat /\ (i - 1) + 1 = i
    OBVIOUS
  <1> QED
    BY <1>3, <1>4

\* A loop whose rounds are stretches is a stretch.
LEMMA LoopStretch ==
    ASSUME NEW fn, NEW n \in Nat, NEW q, q = [i \in 1..n |-> q[i]], Len(q) = n,
           \A i \in 1..n : Stretch(fn, q[i])
    PROVE  Stretch(fn, Ext!FlattenSeq(q))
  <1>1. CASE n = 0
    <2>1. q = <<>>
      BY <1>1
    <2>2. Ext!FlattenSeq(q) = q
      BY <1>1, Zenon DEF Ext!FlattenSeq
    <2> QED
      BY <2>1, <2>2, NoStretch
  <1>2. CASE n # 0
    <2> DEFINE G == CHOOSE g : Flattening(q, n, g)
    <2>1. Flattening(q, n, G)
      BY FlatteningExists
    <2>2. Ext!FlattenSeq(q) = G[n]
      BY <1>2, Zenon DEF Ext!FlattenSeq, Flattening
    <2>3. n \in 1..n
      BY <1>2
    <2> HIDE DEF G
    <2> QED
      BY <2>1, <2>2, <2>3, FlatteningStretch
  <1> QED
    BY <1>1, <1>2

------------------------------------------------------------------------------
(* The functions.                                                            *)

\* The code of a function up to some point, from its Ensure on.
Opening(fn, c) == c \in Seq(Steps) /\ c # <<>> /\ Head(c) = Ensure /\ Stretch(fn, Tail(c))

\* The first steps of most functions.
LEMMA OpenTuples ==
    ASSUME NEW fn \in Names, NEW a, NEW b, NEW c
    PROVE  /\ Opening(fn, <<Ensure>>)
           /\ MidOf(fn, a) => Opening(fn, <<Ensure, a>>)
           /\ MidOf(fn, a) /\ MidOf(fn, b) => Opening(fn, <<Ensure, a, b>>)
           /\ MidOf(fn, a) /\ MidOf(fn, b) /\ MidOf(fn, c) => Opening(fn, <<Ensure, a, b, c>>)
  <1>1. Ensure \in Steps
    BY SimpleSteps DEF StepOf
  <1>2. \A x : MidOf(fn, x) => x \in Steps
    BY DEF MidOf, StepOf
  <1>3. Opening(fn, <<Ensure>>)
    BY <1>1, NoStretch DEF Opening
  <1>4. ASSUME MidOf(fn, a) PROVE Opening(fn, <<Ensure, a>>)
    <2>1. <<Ensure, a>> \in Seq(Steps) /\ Tail(<<Ensure, a>>) = <<a>> /\ Head(<<Ensure, a>>) = Ensure
      BY <1>1, <1>2, <1>4
    <2>2. Stretch(fn, <<a>>)
      BY <1>4, MidTuples
    <2> QED
      BY <2>1, <2>2 DEF Opening
  <1>5. ASSUME MidOf(fn, a), MidOf(fn, b) PROVE Opening(fn, <<Ensure, a, b>>)
    <2>1. <<Ensure, a, b>> \in Seq(Steps) /\ Tail(<<Ensure, a, b>>) = <<a, b>> /\ Head(<<Ensure, a, b>>) = Ensure
      BY <1>1, <1>2, <1>5
    <2>2. Stretch(fn, <<a, b>>)
      BY <1>5, MidTuples
    <2> QED
      BY <2>1, <2>2 DEF Opening
  <1>6. ASSUME MidOf(fn, a), MidOf(fn, b), MidOf(fn, c) PROVE Opening(fn, <<Ensure, a, b, c>>)
    <2>1. /\ <<Ensure, a, b, c>> \in Seq(Steps) /\ Tail(<<Ensure, a, b, c>>) = <<a, b, c>>
          /\ Head(<<Ensure, a, b, c>>) = Ensure
      BY <1>1, <1>2, <1>6
    <2>2. Stretch(fn, <<a, b, c>>)
      BY <1>6, MidTuples
    <2> QED
      BY <2>1, <2>2 DEF Opening
  <1> QED
    BY <1>3, <1>4, <1>5, <1>6

\* An opening is continued by a stretch, and closed by code that ends.
LEMMA OpenConcat ==
    ASSUME NEW fn \in Names, NEW a, NEW b, Opening(fn, a)
    PROVE  /\ Stretch(fn, b) => Opening(fn, a \o b)
           /\ InCode(fn, b) => OutCode(fn, a \o b)
  <1>0. a \in Seq(Steps) /\ a # <<>> /\ Head(a) = Ensure /\ Stretch(fn, Tail(a))
    BY DEF Opening
  <1>1. ASSUME b \in Seq(Steps)
        PROVE  a \o b \in Seq(Steps) /\ a \o b # <<>> /\ Head(a \o b) = Ensure /\ Tail(a \o b) = Tail(a) \o b
    <2>1. a \o b \in Seq(Steps)
      BY <1>0, <1>1
    <2>2. a \o b # <<>> /\ Head(a \o b) = Ensure
      BY <1>0, <1>1
    <2>3. Tail(a \o b) = Tail(a) \o b
      BY <1>0, <1>1
    <2> QED
      BY <2>1, <2>2, <2>3
  <1>2. ASSUME Stretch(fn, b) PROVE Opening(fn, a \o b)
    <2>1. b \in Seq(Steps)
      BY <1>2 DEF Stretch
    <2>2. Stretch(fn, Tail(a) \o b)
      BY <1>0, <1>2, StretchConcat
    <2> QED
      BY <1>1, <2>1, <2>2 DEF Opening
  <1>3. ASSUME InCode(fn, b) PROVE OutCode(fn, a \o b)
    <2>1. InCode(fn, Tail(a) \o b)
      BY <1>0, <1>3, StretchThen
    <2>2. b \in Seq(Steps)
      BY <1>3 DEF InCode, Stretch
    <2>3. StepOf(fn, Ensure) /\ Ensure.op = "Ensure"
      BY SimpleSteps
    <2> QED
      BY <1>1, <2>1, <2>2, <2>3 DEF OutCode
  <1> QED
    BY <1>2, <1>3

\* A function that returns or throws before it takes the lock.
LEMMA EndAtOnce ==
    ASSUME NEW fn \in Names
    PROVE  OutCode(fn, <<Return>>) /\ (fn \in MayRaise => OutCode(fn, <<Raise>>))
  <1>1. StepOf(fn, Return) /\ Return.op \in Final /\ Raise.op \in Final
    BY SimpleSteps DEF Final
  <1>2. Return \in Steps /\ <<Return>> \in Seq(Steps)
    BY <1>1 DEF StepOf
  <1>3. ASSUME fn \in MayRaise PROVE OutCode(fn, <<Raise>>)
    <2>1. StepOf(fn, Raise)
      BY <1>3, SimpleSteps
    <2>2. Raise \in Steps /\ <<Raise>> \in Seq(Steps)
      BY <2>1 DEF StepOf
    <2> QED
      BY <1>1, <2>1, <2>2 DEF OutCode
  <1> QED
    BY <1>1, <1>2, <1>3 DEF OutCode

\* Functions that give back every handle they can, and what they are made of.
Ordinary == MayRaise \ Iterators

LEMMA OrdinarySteps ==
    ASSUME NEW fn \in Ordinary
    PROVE  /\ fn \in Names
           /\ MidOf(fn, Python) /\ MidOf(fn, Wrap)
           /\ MidOf(fn, PythonOr(Fail)) /\ MidOf(fn, PythonOr(Done))
           /\ MidOf(fn, PythonOr(<<Report>> \o Fail)) /\ MidOf(fn, PythonOr(<<Python>> \o Fail))
           /\ \A v \in Values : MidOf(fn, ConvertOr(v, Fail))
           /\ InCode(fn, Done) /\ InCode(fn, Fail)
           /\ OutCode(fn, <<Raise>>) /\ OutCode(fn, <<Return>>)
  <1>1. fn \in Names /\ fn \in MayRaise /\ Alternatives(fn) = {Done, Fail, <<Report>> \o Fail, <<Python>> \o Fail}
    BY DEF Ordinary, MayRaise, Alternatives
  <1>2. \A a \in Alternatives(fn) : MidOf(fn, PythonOr(a)) /\ MidOf(fn, Python)
    BY <1>1, PythonStep
  <1>3. \A v \in Values : MidOf(fn, ConvertOr(v, Fail))
    BY <1>1, ConvertStep
  <1>4. InCode(fn, Done) /\ InCode(fn, Fail) /\ OutCode(fn, <<Raise>>) /\ OutCode(fn, <<Return>>)
    BY <1>1, Ends, EndAtOnce
  <1>5. MidOf(fn, Wrap)
    BY <1>1, SimpleSteps
  <1> QED
    BY <1>1, <1>2, <1>3, <1>4, <1>5

\* The functions without loops.
LEMMA StraightCode ==
    ASSUME NEW fn \in Ordinary, NEW x, NEW y
    PROVE  /\ OutCode(fn, py_object_index(x, y)) /\ OutCode(fn, GetAttr(x, y))
           /\ OutCode(fn, FromString(x)) /\ OutCode(fn, ImportModule(x)) /\ OutCode(fn, ToString(x))
           /\ OutCode(fn, py_object_len(x)) /\ OutCode(fn, toPyBytes(x))
  <1> USE OrdinarySteps
  <1>1. /\ Opening(fn, <<Ensure, PythonOr(Fail), PythonOr(<<Report>> \o Fail), Wrap>>)
        /\ Opening(fn, <<Ensure, PythonOr(Fail), PythonOr(<<Python>> \o Fail), Wrap>>)
        /\ Opening(fn, <<Ensure, PythonOr(Fail), PythonOr(Fail), Wrap>>)
    BY OpenTuples
  <1>2. Opening(fn, <<Ensure, PythonOr(Fail), Wrap>>) /\ Opening(fn, <<Ensure, PythonOr(Fail)>>) /\ Opening(fn, <<Ensure, Python>>)
    BY OpenTuples
  <1>3. <<Ensure, Python, Release, Return>> = <<Ensure, Python>> \o Done
    BY DEF Done
  <1>4. OutCode(fn, py_object_index(x, y)) /\ OutCode(fn, GetAttr(x, y))
    BY <1>1, <1>2, OpenConcat DEF py_object_index, GetAttr
  <1>5. OutCode(fn, FromString(x)) /\ OutCode(fn, ImportModule(x)) /\ OutCode(fn, toPyBytes(x))
    BY <1>1, <1>2, OpenConcat DEF FromString, ImportModule, toPyBytes
  <1>6. OutCode(fn, py_object_len(x)) /\ OutCode(fn, ToString(x))
    BY <1>2, <1>3, OpenConcat DEF py_object_len, ToString
  <1> QED
    BY <1>4, <1>5, <1>6

\* What a function starts with.
FirstCode(fn, c) == OutCode(fn, c) \/ (fn = "callObject" /\ TestCode(c))

\* CallObject: up to two type tests, then code like everyone's.
LEMMA CallObjectCode ==
    ASSUME NEW x, NEW y
    PROVE  FirstCode("callObject", CallObject(x, y))
  <1> DEFINE fn == "callObject"
             called == IF y.type # "tuple" THEN <<Raise>> ELSE <<Ensure, PythonOr(Fail), Wrap>> \o Done
             tested == IF x.type # "callable" \/ ~IsObject(y) THEN <<Raise>> ELSE <<Check>> \o called
  <1>1. fn \in Ordinary /\ fn \in Names
    BY DEF Ordinary, MayRaise, Names, Quiet, Iterators, Registered, Binary
  <1>2. OutCode(fn, <<Raise>>) /\ InCode(fn, Done) /\ MidOf(fn, PythonOr(Fail)) /\ MidOf(fn, Wrap)
    BY <1>1, OrdinarySteps
  <1>3. OutCode(fn, called)
    <2>1. Opening(fn, <<Ensure, PythonOr(Fail), Wrap>>)
      BY <1>1, <1>2, OpenTuples
    <2>2. OutCode(fn, <<Ensure, PythonOr(Fail), Wrap>> \o Done)
      BY <1>1, <1>2, <2>1, OpenConcat
    <2> QED
      BY <1>2, <2>2
  <1> HIDE DEF called
  <1>4. Check \in Steps /\ Check.op = "Check"
    BY DEF Check, Steps, SimpleOps
  <1>5. ASSUME NEW b \in Seq(Steps)
        PROVE  /\ <<Check>> \o b \in Seq(Steps) /\ <<Check>> \o b # <<>>
               /\ Head(<<Check>> \o b) = Check /\ Tail(<<Check>> \o b) = b
    BY <1>4
  <1>6. called \in Seq(Steps) /\ <<Raise>> \in Seq(Steps)
    BY <1>2, <1>3 DEF OutCode
  <1>7. TestCode(<<Check>> \o tested)
    <2>1. CASE tested = <<Raise>>
      BY <1>2, <1>4, <1>5, <1>6, <2>1 DEF TestCode
    <2>2. CASE tested = <<Check>> \o called
      <3>1. tested \in Seq(Steps) /\ tested # <<>> /\ Head(tested) = Check /\ Tail(tested) = called
        BY <1>5, <1>6, <2>2
      <3> HIDE DEF tested
      <3>2. <<Check>> \o tested # <<>> /\ Head(<<Check>> \o tested) = Check /\ Tail(<<Check>> \o tested) = tested
        BY <1>5, <3>1
      <3>3. <<Check>> \o tested \in Seq(Steps)
        BY <1>5, <3>1
      <3> QED
        BY <1>3, <1>4, <3>1, <3>2, <3>3 DEF TestCode
    <2> QED
      BY <2>1, <2>2
  <1>8. CallObject(x, y) = IF ~IsObject(x) THEN <<Raise>> ELSE <<Check>> \o tested
    BY DEF CallObject, called
  <1> HIDE DEF tested
  <1> QED
    BY <1>2, <1>7, <1>8 DEF FirstCode

\* __index with any key, and the functions for one object.
LEMMA ObjectCode ==
    ASSUME NEW fn \in Ordinary, NEW x \in Values, NEW key \in Values
    PROVE  /\ OutCode(fn, metaIndex(x, key)) /\ OutCode(fn, py_object_pairs(x)) /\ OutCode(fn, py_get_type(x))
           /\ OutCode(fn, py_dict_iterate(x)) /\ OutCode(fn, py_list_iterate(x)) /\ OutCode(fn, py_tuple_iterate(x))
  <1> USE OrdinarySteps
  <1>1. OutCode(fn, metaIndex(x, key))
    <2>1. Opening(fn, <<Ensure, ConvertOr(key, Fail), PythonOr(Done), Wrap>>)
      BY OpenTuples
    <2>2. OutCode(fn, py_object_getitem(x, key))
      BY <2>1, OpenConcat DEF py_object_getitem
    <2> QED
      BY <2>2, StraightCode DEF metaIndex
  <1>2. OutCode(fn, py_object_pairs(x))
    <2>1. Opening(fn, <<Ensure>>)
      BY OpenTuples
    <2>2. Stretch(fn, <<PythonOr(Fail)>>) /\ Stretch(fn, <<PythonOr(Fail), Wrap>>) /\ Stretch(fn, <<>>)
      BY MidTuples, NoStretch
    <2> DEFINE first == IF x.type = "dict" THEN <<PythonOr(Fail)>> ELSE <<>>
    <2>3. Opening(fn, <<Ensure>> \o first)
      BY <2>1, <2>2, OpenConcat
    <2> HIDE DEF first
    <2>4. Opening(fn, <<Ensure>> \o first \o <<PythonOr(Fail), Wrap>>)
      BY <2>2, <2>3, OpenConcat
    <2>5. OutCode(fn, <<Ensure>> \o first \o <<PythonOr(Fail), Wrap>> \o Done)
      BY <2>4, OpenConcat
    <2> QED
      BY <2>5 DEF py_object_pairs, first
  <1>3. OutCode(fn, py_get_type(x))
    <2>1. OutCode(fn, <<Ensure, Python>> \o Done)
      BY OpenTuples, OpenConcat
    <2>2. py_get_type(x) = <<Ensure, Python>> \o Done \/ py_get_type(x) = <<Return>> \/ py_get_type(x) = <<Raise>>
      BY Zenon DEF py_get_type, IsObject
    <2> QED
      BY <2>1, <2>2
  <1>4. OutCode(fn, py_dict_iterate(x)) /\ OutCode(fn, py_list_iterate(x)) /\ OutCode(fn, py_tuple_iterate(x))
    <2>1. Opening(fn, <<Ensure>>)
      BY OpenTuples
    <2>2. Stretch(fn, <<PythonOr(Fail), PythonOr(Fail), Wrap>>) /\ Stretch(fn, <<Python, Wrap>>)
      BY MidTuples
    <2>3. InCode(fn, <<PythonOr(Fail), PythonOr(Fail), Wrap>> \o Done) /\ InCode(fn, <<Python, Wrap>> \o Done)
      BY <2>2, StretchThen
    <2> QED
      BY <2>1, <2>3, OpenConcat DEF py_dict_iterate, py_list_iterate, py_tuple_iterate
  <1> QED
    BY <1>1, <1>2, <1>3, <1>4

\* A handle that is given back and taken again.
LEMMA TwiceCode ==
    ASSUME NEW fn \in Ordinary, NEW c, InCode(fn, c)
    PROVE  OutCode(fn, <<Ensure, Release>> \o (<<Ensure>> \o c))
  <1> DEFINE again == <<Release>> \o <<Ensure>>
             start == <<Ensure, Release>> \o <<Ensure>>
  <1>1. /\ StepOf(fn, Ensure) /\ StepOf(fn, Release) /\ Ensure.op = "Ensure" /\ Release.op = "Release"
    BY OrdinarySteps, SimpleSteps
  <1>2. c \in Seq(Steps) /\ Ensure \in Steps /\ Release \in Steps
    BY <1>1 DEF InCode, Stretch, StepOf
  <1>3. Stretch(fn, again)
    <2>1. again \in Seq(Steps) /\ Len(again) = 2 /\ again[1] = Release /\ again[2] = Ensure
      BY <1>2
    <2>2. \A i \in 1..2 : i = 1 \/ i = 2
      OBVIOUS
    <2> HIDE DEF again
    <2> QED
      BY <1>1, <2>1, <2>2 DEF Stretch, Final
  <1>4. Opening(fn, start)
    <2>1. start \in Seq(Steps) /\ start # <<>> /\ Head(start) = Ensure /\ Tail(start) = again
      BY <1>2
    <2> QED
      BY <1>3, <2>1 DEF Opening
  <1>5. <<Ensure, Release>> \o (<<Ensure>> \o c) = start \o c
    BY <1>2
  <1> HIDE DEF start
  <1> QED
    BY <1>4, <1>5, OrdinarySteps, OpenConcat

\* GMP.items: dictionaries, lists and tuples have functions of their own.
LEMMA ItemsCode ==
    ASSUME NEW fn \in Ordinary, NEW x \in Values
    PROVE  OutCode(fn, py_iterate(x))
  <1> USE OrdinarySteps
  <1>1. OutCode(fn, <<Ensure, PythonOr(Fail), Wrap>> \o Done)
    BY OpenTuples, OpenConcat
  <1>2. InCode(fn, <<PythonOr(Fail), PythonOr(Fail), Wrap>> \o Done) /\ InCode(fn, <<Python, Wrap>> \o Done)
    BY MidTuples, StretchThen
  <1>3. ASSUME IsObject(x), x.type = "dict" PROVE OutCode(fn, <<Ensure, Release>> \o py_dict_iterate(x))
    BY <1>2, <1>3, TwiceCode DEF py_dict_iterate
  <1>4. ASSUME IsObject(x), x.type = "list" PROVE OutCode(fn, <<Ensure, Release>> \o py_list_iterate(x))
    BY <1>2, <1>4, TwiceCode DEF py_list_iterate
  <1>5. ASSUME IsObject(x), x.type = "tuple" PROVE OutCode(fn, <<Ensure, Release>> \o py_tuple_iterate(x))
    BY <1>2, <1>5, TwiceCode DEF py_tuple_iterate
  <1>6. \/ py_iterate(x) = <<Raise>>
        \/ IsObject(x) /\ x.type = "dict" /\ py_iterate(x) = <<Ensure, Release>> \o py_dict_iterate(x)
        \/ IsObject(x) /\ x.type = "list" /\ py_iterate(x) = <<Ensure, Release>> \o py_list_iterate(x)
        \/ IsObject(x) /\ x.type = "tuple" /\ py_iterate(x) = <<Ensure, Release>> \o py_tuple_iterate(x)
        \/ py_iterate(x) = <<Ensure, PythonOr(Fail), Wrap>> \o Done
    BY Zenon DEF py_iterate
  <1> QED
    BY <1>1, <1>3, <1>4, <1>5, <1>6

\* The setters.
LEMMA SetterCode ==
    ASSUME NEW fn \in Ordinary, NEW x \in Values, NEW key \in Values, NEW v \in Values
    PROVE  OutCode(fn, py_object_newindex(x, key, v)) /\ OutCode(fn, py_object_set_attr(x, key, v))
  <1> USE OrdinarySteps
  <1>1. Stretch(fn, OwnValue(v))
    <2>1. \/ OwnValue(v) = <<>> \/ OwnValue(v) = <<PythonOr(Fail)>>
          \/ OwnValue(v) = <<Python>> \/ OwnValue(v) = <<ConvertOr(v, Fail)>>
      BY Zenon DEF OwnValue, IsObject
    <2> QED
      BY <2>1, MidTuples, NoStretch
  <1>2. Stretch(fn, Fail)
    BY DEF InCode
  <1>3. Opening(fn, <<Ensure, PythonOr(Fail)>>) /\ Opening(fn, <<Ensure, PythonOr(Fail), Python>>)
    BY OpenTuples
  <1>4. Stretch(fn, <<PythonOr(<<Report>> \o Fail)>>) /\ Stretch(fn, <<PythonOr(<<Python>> \o Fail)>>)
    BY MidTuples
  <1> DEFINE own == IF v.kind = "husk" THEN Fail ELSE OwnValue(v)
  <1>5. Opening(fn, <<Ensure, PythonOr(Fail)>> \o own) /\ Opening(fn, <<Ensure, PythonOr(Fail), Python>> \o OwnValue(v))
    BY <1>1, <1>2, <1>3, OpenConcat
  <1> HIDE DEF own
  <1>6. Opening(fn, <<Ensure, PythonOr(Fail)>> \o own \o <<PythonOr(<<Report>> \o Fail)>>)
    BY <1>4, <1>5, OpenConcat
  <1>7. Opening(fn, <<Ensure, PythonOr(Fail), Python>> \o OwnValue(v) \o <<PythonOr(<<Python>> \o Fail)>>)
    BY <1>4, <1>5, OpenConcat
  <1>8. OutCode(fn, <<Ensure, PythonOr(Fail)>> \o own \o <<PythonOr(<<Report>> \o Fail)>> \o Done)
    BY <1>6, OpenConcat
  <1>9. OutCode(fn, <<Ensure, PythonOr(Fail), Python>> \o OwnValue(v) \o <<PythonOr(<<Python>> \o Fail)>> \o Done)
    BY <1>7, OpenConcat
  <1>10. OutCode(fn, py_object_newindex(x, key, v))
    BY <1>8 DEF py_object_newindex, own
  <1> QED
    BY <1>9, <1>10 DEF py_object_set_attr

\* The iterators over lists and tuples, the finalizer and the error report.
LEMMA SmallCode ==
    ASSUME NEW more \in BOOLEAN
    PROVE  /\ \A fn \in Ordinary : OutCode(fn, list_next(more)) /\ OutCode(fn, tuple_next(more))
           /\ OutCode("__gc", py_object_gc) /\ OutCode("PrintPythonError", PrintPythonError)
  <1>1. ASSUME NEW fn \in Ordinary PROVE OutCode(fn, list_next(more)) /\ OutCode(fn, tuple_next(more))
    <2>1. OutCode(fn, <<Ensure, Python, Wrap>> \o Done)
      BY OrdinarySteps, OpenTuples, OpenConcat
    <2> QED
      BY <2>1, OrdinarySteps DEF list_next, tuple_next
  <1>2. "__gc" \in Names /\ "PrintPythonError" \in Names
    BY DEF Names, Registered, Nullary
  <1>3. OutCode("__gc", <<Ensure>> \o Done) /\ OutCode("PrintPythonError", <<Ensure, Python>> \o Done)
    BY <1>2, OpenTuples, OpenConcat, PlainPython, Ends
  <1>4. py_object_gc = <<Ensure>> \o Done /\ PrintPythonError = <<Ensure, Python>> \o Done
    BY DEF Done, py_object_gc, PrintPythonError
  <1> QED
    BY <1>1, <1>3, <1>4

\* The iterators that can end with their handle.
LEMMA IteratorCode ==
    ASSUME NEW fn \in Iterators, NEW x
    PROVE  OutCode(fn, dict_next) /\ OutCode(fn, iter_next) /\ OutCode(fn, py_object_next(x))
  <1>1. fn \in Names /\ Alternatives(fn) = {Done, Exhausted, <<Return>>, <<Raise>>}
    BY DEF Names, Registered, Nullary, Unary, Iterators, Alternatives
  <1>2. MidOf(fn, PythonOr(Exhausted)) /\ MidOf(fn, PythonOr(Done)) /\ MidOf(fn, PythonOr(<<Raise>>)) /\ MidOf(fn, Wrap)
    BY <1>1, PythonStep, SimpleSteps
  <1>3. InCode(fn, Done)
    BY <1>1, Ends
  <1>4. OutCode(fn, <<Ensure, PythonOr(Exhausted), Wrap>> \o Done)
    BY <1>1, <1>2, <1>3, OpenTuples, OpenConcat
  <1>5. OutCode(fn, py_object_next(x))
    <2> DEFINE pair == IF x.type = "dict" THEN <<>> ELSE <<PythonOr(<<Raise>>)>>
    <2>1. Opening(fn, <<Ensure, PythonOr(Done)>>)
      BY <1>1, <1>2, OpenTuples
    <2>2. Stretch(fn, pair) /\ Stretch(fn, <<Wrap>>)
      BY <1>2, MidTuples, NoStretch
    <2> HIDE DEF pair
    <2>3. Opening(fn, <<Ensure, PythonOr(Done)>> \o pair)
      BY <1>1, <2>1, <2>2, OpenConcat
    <2>4. Opening(fn, <<Ensure, PythonOr(Done)>> \o pair \o <<Wrap>>)
      BY <1>1, <2>2, <2>3, OpenConcat
    <2>5. OutCode(fn, <<Ensure, PythonOr(Done)>> \o pair \o <<Wrap>> \o Done)
      BY <1>1, <1>3, <2>4, OpenConcat
    <2> QED
      BY <2>5 DEF py_object_next, pair
  <1> QED
    BY <1>4, <1>5 DEF dict_next, iter_next

\* A loop that converts values.
LEMMA ConvertLoop ==
    ASSUME NEW fn \in Names, NEW s \in Seq(Values), NEW a \in Alternatives(fn)
    PROVE  Stretch(fn, ForEach(s, LAMBDA x : <<ConvertOr(x, a)>>))
  <1> DEFINE q == [i \in 1..Len(s) |-> <<ConvertOr(s[i], a)>>]
  <1>1. ForEach(s, LAMBDA x : <<ConvertOr(x, a)>>) = Ext!FlattenSeq(q)
    BY DEF ForEach
  <1>2. ASSUME NEW i \in 1..Len(s) PROVE Stretch(fn, q[i])
    <2>1. MidOf(fn, ConvertOr(s[i], a))
      BY ConvertStep
    <2>2. Stretch(fn, <<ConvertOr(s[i], a)>>)
      BY <2>1, MidTuples
    <2> QED
      BY <2>2
  <1>3. q = [i \in 1..Len(s) |-> q[i]] /\ Len(q) = Len(s) /\ Len(s) \in Nat
    OBVIOUS
  <1> HIDE DEF q
  <1>4. Stretch(fn, Ext!FlattenSeq(q))
    BY <1>2, <1>3, LoopStretch
  <1> QED
    BY <1>1, <1>4

\* Calls with any number of arguments, and GMP.buildValue.
LEMMA CallCode ==
    ASSUME NEW fn \in Ordinary, NEW x \in Values, NEW args \in Seq(Values)
    PROVE  OutCode(fn, py_object_call(x, args)) /\ OutCode(fn, BuildValue(args))
  <1> USE OrdinarySteps
  <1>0. Fail \in Alternatives(fn)
    BY DEF Ordinary, MayRaise, Alternatives
  <1> DEFINE L(s) == ForEach(s, LAMBDA y : <<ConvertOr(y, Fail)>>)
  <1>1. \A s \in Seq(Values) : Stretch(fn, L(s))
    BY <1>0, ConvertLoop
  <1>2. py_object_call(x, args) = IF ~IsObject(x) THEN <<Raise>>
                                  ELSE <<Ensure, Python>> \o L(args) \o <<PythonOr(<<Report>> \o Fail), Wrap>> \o Done
    BY DEF py_object_call
  <1>3. BuildValue(args) = IF args = <<>> \/ ~isString(args[1]) THEN <<Raise>>
                           ELSE <<Ensure>> \o L(Tail(args))
                                \o (IF Len(args) - 1 > MaxArgs THEN Fail ELSE <<PythonOr(Fail), Wrap>> \o Done)
    BY DEF BuildValue
  <1> HIDE DEF L
  <1>4. OutCode(fn, py_object_call(x, args))
    <2>1. Opening(fn, <<Ensure, Python>>) /\ Stretch(fn, <<PythonOr(<<Report>> \o Fail), Wrap>>)
      BY OpenTuples, MidTuples
    <2>2. Opening(fn, <<Ensure, Python>> \o L(args))
      BY <1>1, <2>1, OpenConcat
    <2>3. Opening(fn, <<Ensure, Python>> \o L(args) \o <<PythonOr(<<Report>> \o Fail), Wrap>>)
      BY <2>1, <2>2, OpenConcat
    <2> QED
      BY <1>2, <2>3, OpenConcat
  <1>5. OutCode(fn, BuildValue(args))
    <2>1. InCode(fn, IF Len(args) - 1 > MaxArgs THEN Fail ELSE <<PythonOr(Fail), Wrap>> \o Done)
      BY MidTuples, StretchThen
    <2>2. ASSUME args # <<>> PROVE Opening(fn, <<Ensure>> \o L(Tail(args)))
      <3>1. Tail(args) \in Seq(Values)
        BY <2>2
      <3> QED
        BY <1>1, <3>1, OpenTuples, OpenConcat
    <2> QED
      BY <1>3, <2>1, <2>2, OpenConcat
  <1> QED
    BY <1>4, <1>5

\* An argument of GMP.tuple, GMP.list and GMP.dict.
LEMMA ArgumentCode ==
    ASSUME NEW fn \in Ordinary, NEW v \in Values
    PROVE  Stretch(fn, Argument(v))
  BY OrdinarySteps, MidTuples, NoStretch DEF Argument

\* The functions that make containers.
LEMMA ContainerCode ==
    ASSUME NEW fn \in Ordinary, NEW args \in Seq(Values)
    PROVE  OutCode(fn, createPyTuple(args)) /\ OutCode(fn, createPyList(args)) /\ OutCode(fn, createPyDict(args))
  <1> USE OrdinarySteps
  <1>1. Opening(fn, <<Ensure, PythonOr(Fail)>>) /\ Stretch(fn, <<Wrap>>)
    BY OpenTuples, MidTuples
  <1>2. ASSUME NEW l, Stretch(fn, l)
        PROVE  OutCode(fn, <<Ensure, PythonOr(Fail)>> \o l \o <<Wrap>> \o Done)
    <2>1. Opening(fn, <<Ensure, PythonOr(Fail)>> \o l)
      BY <1>1, <1>2, OpenConcat
    <2>2. Opening(fn, <<Ensure, PythonOr(Fail)>> \o l \o <<Wrap>>)
      BY <1>1, <2>1, OpenConcat
    <2> QED
      BY <2>2, OpenConcat
  <1>3. Stretch(fn, ForEach(args, Argument))
    <2> DEFINE q == [i \in 1..Len(args) |-> Argument(args[i])]
    <2>1. ForEach(args, Argument) = Ext!FlattenSeq(q)
      BY DEF ForEach
    <2>2. \A i \in 1..Len(args) : Stretch(fn, q[i])
      BY ArgumentCode
    <2>3. q = [i \in 1..Len(args) |-> q[i]] /\ Len(q) = Len(args) /\ Len(args) \in Nat
      OBVIOUS
    <2> HIDE DEF q
    <2> QED
      BY <2>1, <2>2, <2>3, LoopStretch
  <1>4. OutCode(fn, createPyTuple(args)) /\ OutCode(fn, createPyList(args))
    <2> DEFINE l == ForEach(args, Argument)
    <2>1. /\ createPyTuple(args) = <<Ensure, PythonOr(Fail)>> \o l \o <<Wrap>> \o Done
          /\ createPyList(args) = <<Ensure, PythonOr(Fail)>> \o l \o <<Wrap>> \o Done
      BY DEF createPyTuple, createPyList
    <2>2. Stretch(fn, l)
      BY <1>3
    <2> HIDE DEF l
    <2> QED
      BY <1>2, <2>1, <2>2
  <1>5. OutCode(fn, createPyDict(args))
    <2> DEFINE n == Len(args) \div 2
               Pair(i) == Argument(args[2*i - 1]) \o Argument(args[2*i]) \o <<PythonOr(Fail)>>
               idx == [i \in 1..n |-> i]
               q == [i \in 1..Len(idx) |-> Pair(idx[i])]
               l == Ext!FlattenSeq(q)
    <2>1. Len(args) \in Nat /\ n \in Nat /\ 2 * n <= Len(args) /\ Len(idx) = n
      OBVIOUS
    <2>2. createPyDict(args) = IF Len(args) % 2 # 0 THEN <<Raise>>
                               ELSE <<Ensure, PythonOr(Fail)>> \o l \o <<Wrap>> \o Done
      BY DEF createPyDict, ForEach
    <2>3. ASSUME NEW i \in 1..n PROVE Stretch(fn, Pair(i))
      <3>1. 2*i - 1 \in 1..Len(args) /\ 2*i \in 1..Len(args)
        BY <2>1
      <3>2. Stretch(fn, Argument(args[2*i - 1])) /\ Stretch(fn, Argument(args[2*i]))
        BY <3>1, ArgumentCode
      <3>3. Stretch(fn, <<PythonOr(Fail)>>)
        BY MidTuples
      <3> QED
        BY <3>2, <3>3, StretchConcat
    <2>4. \A i \in 1..n : Stretch(fn, q[i])
      BY <2>1, <2>3
    <2>5. q = [i \in 1..n |-> q[i]] /\ Len(q) = n
      BY <2>1
    <2> HIDE DEF n, Pair, idx, q
    <2>6. Stretch(fn, l)
      BY <2>1, <2>4, <2>5, LoopStretch
    <2> HIDE DEF l
    <2> QED
      BY <1>2, <2>2, <2>6
  <1> QED
    BY <1>4, <1>5

\* LuaToPython, for every kind of value.
LEMMA ConversionCode ==
    ASSUME NEW v \in Values
    PROVE  OutCode("LuaToPython", LuaToPython(v))
  <1> DEFINE fn == "LuaToPython"
             Fields == ForEach(v.fields, LAMBDA p : <<ConvertOr(p[1], Lost), ConvertOr(p[2], Lost), PythonOr(Lost)>>)
             Array  == ForEach(v.array, LAMBDA x : <<ConvertOr(x, Lost)>>)
  <1>1. /\ fn \in Names /\ Lost \in Alternatives(fn) /\ <<Null>> \in Alternatives(fn)
        /\ <<PythonOr(Lost)>> \o Done \in Alternatives(fn)
    BY DEF Names, Alternatives
  <1>2. v.kind \in Kinds /\ v.array \in Seq(Values) /\ v.fields \in Seq(Values \X Values)
    BY ValuesAssumption
  <1>3. /\ MidOf(fn, PythonOr(Lost)) /\ MidOf(fn, PythonOr(<<Null>>)) /\ MidOf(fn, PythonOr(<<PythonOr(Lost)>> \o Done))
        /\ \A x \in Values : MidOf(fn, ConvertOr(x, Lost))
    BY <1>1, PythonStep, ConvertStep
  <1>4. InCode(fn, Done) /\ InCode(fn, <<Return>>) /\ InCode(fn, <<Null>>)
    BY <1>1, Ends, BareEnd, SimpleSteps DEF Final
  <1>5. Stretch(fn, Array)
    BY <1>1, <1>2, ConvertLoop
  <1>6. Stretch(fn, Fields)
    <2> DEFINE s == v.fields
               q == [i \in 1..Len(s) |-> <<ConvertOr(s[i][1], Lost), ConvertOr(s[i][2], Lost), PythonOr(Lost)>>]
    <2>1. Fields = Ext!FlattenSeq(q)
      BY DEF ForEach
    <2>2. ASSUME NEW i \in 1..Len(s) PROVE Stretch(fn, q[i])
      <3>1. s[i] \in Values \X Values
        BY <1>2
      <3>2. s[i][1] \in Values /\ s[i][2] \in Values
        BY <3>1
      <3>3. MidOf(fn, ConvertOr(s[i][1], Lost)) /\ MidOf(fn, ConvertOr(s[i][2], Lost))
        BY <1>3, <3>2
      <3>4. Stretch(fn, <<ConvertOr(s[i][1], Lost), ConvertOr(s[i][2], Lost), PythonOr(Lost)>>)
        BY <1>3, <3>3, MidTuples
      <3> QED
        BY <3>4
    <2>3. q = [i \in 1..Len(s) |-> q[i]] /\ Len(q) = Len(s) /\ Len(s) \in Nat
      BY <1>2
    <2> HIDE DEF q, Fields
    <2> QED
      BY <2>1, <2>2, <2>3, LoopStretch
  <1>7. \/ LuaToPython(v) = <<Ensure, Release, Return>>
        \/ LuaToPython(v) = <<Ensure, Return>>
        \/ LuaToPython(v) = <<Ensure, PythonOr(<<Null>>), Return>>
        \/ LuaToPython(v) = <<Ensure, PythonOr(<<PythonOr(Lost)>> \o Done)>> \o Done
        \/ LuaToPython(v) = <<Ensure, Null>>
        \/ LuaToPython(v) = <<Ensure, PythonOr(Lost)>> \o Array \o Done
        \/ LuaToPython(v) = <<Ensure, PythonOr(Lost)>> \o Fields \o Done
    <2>1. CASE v.kind \in {"object", "nil"}
      <3>1. IsObject(v) => LuaToPython(v) = <<Ensure, Release, Return>>
        BY Zenon DEF LuaToPython, IsObject
      <3>2. v.kind = "nil" => LuaToPython(v) = <<Ensure, Return>>
        BY Zenon DEF LuaToPython, IsObject
      <3> QED
        BY <2>1, <3>1, <3>2 DEF IsObject
    <2>2. CASE v.kind \in {"boolean", "number"}
      BY <2>2, Zenon DEF LuaToPython, IsObject
    <2>3. CASE v.kind = "string"
      BY <2>3, Zenon DEF LuaToPython, IsObject, Lost
    <2>4. CASE v.kind \in {"husk", "userdata", "function"}
      BY <2>4, Zenon DEF LuaToPython, IsObject
    <2>5. CASE v.kind = "table"
      <3>1. v.array # <<>> => LuaToPython(v) = <<Ensure, PythonOr(Lost)>> \o Array \o Done
        BY <2>5, Zenon DEF LuaToPython, IsObject, Lost
      <3>2. v.array = <<>> => LuaToPython(v) = <<Ensure, PythonOr(Lost)>> \o Fields \o Done
        BY <2>5, Zenon DEF LuaToPython, IsObject, Lost
      <3> QED
        BY <3>1, <3>2
    <2> QED
      BY <1>2, <2>1, <2>2, <2>3, <2>4, <2>5 DEF Kinds
  <1> HIDE DEF Array, Fields
  <1>8. /\ <<Ensure, Release, Return>> = <<Ensure>> \o Done /\ <<Ensure, Return>> = <<Ensure>> \o <<Return>>
        /\ <<Ensure, PythonOr(<<Null>>), Return>> = <<Ensure, PythonOr(<<Null>>)>> \o <<Return>>
        /\ <<Ensure, Null>> = <<Ensure>> \o <<Null>>
    <2>1. <<Ensure, Release, Return>> = <<Ensure>> \o Done
      BY DEF Done
    <2>2. \A s : <<Ensure, s>> = <<Ensure>> \o <<s>>
      OBVIOUS
    <2>3. \A s : <<Ensure, s, Return>> = <<Ensure, s>> \o <<Return>>
      OBVIOUS
    <2> QED
      BY <2>1, <2>2, <2>3
  <1>9. /\ Opening(fn, <<Ensure>>) /\ Opening(fn, <<Ensure, PythonOr(<<Null>>)>>)
        /\ Opening(fn, <<Ensure, PythonOr(<<PythonOr(Lost)>> \o Done)>>) /\ Opening(fn, <<Ensure, PythonOr(Lost)>>)
    BY <1>1, <1>3, OpenTuples
  <1>10. Opening(fn, <<Ensure, PythonOr(Lost)>> \o Array) /\ Opening(fn, <<Ensure, PythonOr(Lost)>> \o Fields)
    BY <1>1, <1>5, <1>6, <1>9, OpenConcat
  <1>11. /\ OutCode(fn, <<Ensure>> \o Done) /\ OutCode(fn, <<Ensure>> \o <<Return>>) /\ OutCode(fn, <<Ensure>> \o <<Null>>)
         /\ OutCode(fn, <<Ensure, PythonOr(<<Null>>)>> \o <<Return>>)
         /\ OutCode(fn, <<Ensure, PythonOr(<<PythonOr(Lost)>> \o Done)>> \o Done)
    BY <1>1, <1>4, <1>9, OpenConcat
  <1>12. OutCode(fn, <<Ensure, PythonOr(Lost)>> \o Array \o Done) /\ OutCode(fn, <<Ensure, PythonOr(Lost)>> \o Fields \o Done)
    BY <1>1, <1>4, <1>10, OpenConcat
  <1> QED
    BY <1>7, <1>8, <1>11, <1>12

\* toPyAuto, for tables of every shape.
LEMMA AutoCode ==
    ASSUME NEW v \in Values
    PROVE  OutCode("toPyAuto", toPyAuto(v))
  <1> DEFINE fn == "toPyAuto"
             Item(x)  == IF x.kind = "table" THEN <<CallAuto(x)>> ELSE <<ConvertOr(x, Fail)>>
             Value(x) == CASE isUserdata(x)     -> Fail
                           [] x.kind = "table"  -> <<PCallAuto(x, Fail)>>
                           [] OTHER             -> <<ConvertOr(x, Fail)>>
             Pair(p)  == <<ConvertOr(p[1], Fail)>> \o Value(p[2]) \o <<PythonOr(Fail)>>
             indexed  == [i \in 1..Len(v.array) |-> <<Plain("number"), v.array[i]>>]
             sequential == v.array = <<>> \/ v.fields = <<>>
             A == [i \in 1..Len(v.array) |-> Item(v.array[i])]
             r == indexed \o v.fields
             F == [i \in 1..Len(r) |-> Pair(r[i])]
  <1>0. fn \in Ordinary
    BY DEF Ordinary, MayRaise, Names, Registered, Unary, Iterators, Quiet
  <1> USE <1>0, OrdinarySteps
  <1>1. v.array \in Seq(Values) /\ v.fields \in Seq(Values \X Values)
    BY ValuesAssumption
  <1>2. toPyAuto(v) = IF v.kind # "table" THEN <<Raise>>
                      ELSE <<Ensure, PythonOr(Fail)>>
                           \o (IF sequential THEN Ext!FlattenSeq(A) ELSE Ext!FlattenSeq(F)) \o <<Wrap>> \o Done
    BY DEF toPyAuto, ForEach
  <1>3. Stretch(fn, Ext!FlattenSeq(A))
    <2>1. ASSUME NEW i \in 1..Len(v.array) PROVE Stretch(fn, A[i])
      <3>1. v.array[i] \in Values
        BY <1>1
      <3>2. Stretch(fn, <<CallAuto(v.array[i])>>) /\ Stretch(fn, <<ConvertOr(v.array[i], Fail)>>)
        BY <3>1, CallSteps, MidTuples
      <3> QED
        BY <3>2
    <2>2. A = [i \in 1..Len(v.array) |-> A[i]] /\ Len(A) = Len(v.array) /\ Len(v.array) \in Nat
      BY <1>1
    <2> HIDE DEF A
    <2> QED
      BY <2>1, <2>2, LoopStretch
  <1>4. Stretch(fn, Ext!FlattenSeq(F))
    <2>1. ASSUME NEW x \in Values PROVE Stretch(fn, Value(x))
      <3>1. Stretch(fn, Fail) /\ Stretch(fn, <<PCallAuto(x, Fail)>>) /\ Stretch(fn, <<ConvertOr(x, Fail)>>)
        BY CallSteps, MidTuples DEF InCode
      <3>2. CASE isUserdata(x)
        <4>1. x.kind # "table"
          BY <3>2 DEF isUserdata
        <4>2. Value(x) = Fail
          BY <3>2, <4>1, Zenon
        <4> QED
          BY <3>1, <4>2
      <3>3. CASE ~isUserdata(x) /\ x.kind = "table"
        <4>1. Value(x) = <<PCallAuto(x, Fail)>>
          BY <3>3, Zenon
        <4> QED
          BY <3>1, <4>1
      <3>4. CASE ~isUserdata(x) /\ x.kind # "table"
        <4>1. Value(x) = <<ConvertOr(x, Fail)>>
          BY <3>4, Zenon
        <4> QED
          BY <3>1, <4>1
      <3> QED
        BY <3>2, <3>3, <3>4
    <2>2. /\ indexed \in Seq(Values \X Values) /\ Len(r) \in Nat /\ r \in Seq(Values \X Values)
      BY <1>1, ValuesAssumption
    <2> HIDE DEF Value, r
    <2>3. ASSUME NEW i \in 1..Len(r) PROVE Stretch(fn, Pair(r[i]))
      <3>1. r[i] \in Values \X Values
        BY <2>2
      <3>2. r[i][1] \in Values /\ r[i][2] \in Values
        BY <3>1
      <3>3. /\ Stretch(fn, <<ConvertOr(r[i][1], Fail)>>) /\ Stretch(fn, Value(r[i][2]))
            /\ Stretch(fn, <<PythonOr(Fail)>>)
        BY <2>1, <3>2, MidTuples
      <3> QED
        BY <3>3, StretchConcat
    <2> HIDE DEF Pair
    <2>4. \A i \in 1..Len(r) : Stretch(fn, F[i])
      BY <2>3
    <2>5. F = [i \in 1..Len(r) |-> F[i]] /\ Len(F) = Len(r)
      BY <2>2
    <2> HIDE DEF F
    <2> QED
      BY <2>2, <2>4, <2>5, LoopStretch
  <1> DEFINE l == IF sequential THEN Ext!FlattenSeq(A) ELSE Ext!FlattenSeq(F)
  <1>5. Stretch(fn, l)
    <2> HIDE DEF A, F
    <2> QED
      BY <1>3, <1>4
  <1> HIDE DEF l
  <1>6. Opening(fn, <<Ensure, PythonOr(Fail)>>) /\ Stretch(fn, <<Wrap>>)
    BY OpenTuples, MidTuples
  <1>7. Opening(fn, <<Ensure, PythonOr(Fail)>> \o l)
    BY <1>5, <1>6, OpenConcat
  <1>8. Opening(fn, <<Ensure, PythonOr(Fail)>> \o l \o <<Wrap>>)
    BY <1>6, <1>7, OpenConcat
  <1>9. OutCode(fn, <<Ensure, PythonOr(Fail)>> \o l \o <<Wrap>> \o Done)
    BY <1>8, OpenConcat
  <1>10. toPyAuto(v) = <<Raise>> \/ toPyAuto(v) = <<Ensure, PythonOr(Fail)>> \o l \o <<Wrap>> \o Done
    <2> HIDE DEF A, F, sequential
    <2> QED
      BY <1>2 DEF l
  <1> QED
    BY <1>9, <1>10

\* Whatever a script calls, with whatever arguments, keeps the discipline.
LEMMA BodyCode ==
    ASSUME NEW t \in LuaThreads, NEW c \in Calls[t]
    PROVE  c.fn \in Registered /\ FirstCode(c.fn, Body(c))
  <1> DEFINE a == c.args
             n == Len(a)
  <1>1. c.fn \in Registered /\ a \in Seq(Values) /\ n \in Nat
    BY CallsAssumption
  <1>2. /\ c.fn \in Unary \cup Binary \cup Ternary => n >= 1
        /\ c.fn \in Binary \cup Ternary => n >= 2
        /\ c.fn \in Ternary => n >= 3
    BY <1>1, CallsAssumption DEF Nullary, Unary, Binary, Ternary, Registered
  <1>3. /\ n >= 1 => a[1] \in Values /\ Tail(a) \in Seq(Values)
        /\ n >= 2 => a[2] \in Values
        /\ n >= 3 => a[3] \in Values
    BY <1>1
  <1>4. Registered \ (Iterators \cup {"__gc", "toPyAuto"}) \subseteq Ordinary
    BY DEF Ordinary, MayRaise, Names, Quiet, Iterators, Registered, Nullary, Unary, Binary, Ternary
  <1>5. CASE c.fn \in {"buildValue", "tuple", "list", "dict", "list_next", "tuple_next"}
    <2>0. c.fn \in Ordinary /\ c.fn \in Nullary
      BY <1>4, <1>5 DEF Registered, Nullary, Iterators
    <2>1. c.fn = "buildValue" => Body(c) = BuildValue(a)
      BY Zenon DEF Body
    <2>2. c.fn = "tuple" => Body(c) = createPyTuple(a)
      BY Zenon DEF Body
    <2>3. c.fn = "list" => Body(c) = createPyList(a)
      BY Zenon DEF Body
    <2>4. c.fn = "dict" => Body(c) = createPyDict(a)
      BY Zenon DEF Body
    <2>5. c.fn = "list_next" => Body(c) = list_next(a # <<>>)
      BY Zenon DEF Body
    <2>6. c.fn = "tuple_next" => Body(c) = tuple_next(a # <<>>)
      BY Zenon DEF Body
    <2>7. OutCode(c.fn, BuildValue(a))
      BY <1>1, <2>0, ValuesAssumption, CallCode
    <2>8. OutCode(c.fn, createPyTuple(a)) /\ OutCode(c.fn, createPyList(a)) /\ OutCode(c.fn, createPyDict(a))
      BY <1>1, <2>0, ContainerCode
    <2>9. OutCode(c.fn, list_next(a # <<>>)) /\ OutCode(c.fn, tuple_next(a # <<>>))
      <3>1. (a # <<>>) \in BOOLEAN
        OBVIOUS
      <3> QED
        BY <2>0, <3>1, SmallCode
    <2> QED
      BY <1>1, <1>5, <2>0, <2>1, <2>2, <2>3, <2>4, <2>5, <2>6, <2>7, <2>8, <2>9 DEF FirstCode
  <1>6. CASE c.fn \in {"fromString", "importModule", "toString", "toPyBytes", "__len"}
    <2>0. c.fn \in Ordinary /\ c.fn \in Unary
      BY <1>4, <1>6 DEF Registered, Unary, Iterators
    <2>1. c.fn = "fromString" => Body(c) = FromString(a[1])
      BY Zenon DEF Body
    <2>2. c.fn = "importModule" => Body(c) = ImportModule(a[1])
      BY Zenon DEF Body
    <2>3. c.fn = "toString" => Body(c) = ToString(a[1])
      BY Zenon DEF Body
    <2>4. c.fn = "toPyBytes" => Body(c) = toPyBytes(a[1])
      BY Zenon DEF Body
    <2>5. c.fn = "__len" => Body(c) = py_object_len(a[1])
      BY Zenon DEF Body
    <2>6. /\ OutCode(c.fn, FromString(a[1]))
          /\ OutCode(c.fn, ImportModule(a[1]))
          /\ OutCode(c.fn, ToString(a[1]))
          /\ OutCode(c.fn, toPyBytes(a[1]))
          /\ OutCode(c.fn, py_object_len(a[1]))
      BY <1>1, <1>2, <1>3, <2>0, StraightCode
    <2> QED
      BY <1>1, <1>6, <2>0, <2>1, <2>2, <2>3, <2>4, <2>5, <2>6 DEF FirstCode
  <1>7. CASE c.fn \in {"dictItems", "listItems", "tupleItems", "pyType", "__pairs", "items", "__call"}
    <2>0. c.fn \in Ordinary /\ c.fn \in Unary
      BY <1>4, <1>7 DEF Registered, Unary, Iterators
    <2>1. c.fn = "dictItems" => Body(c) = py_dict_iterate(a[1])
      BY Zenon DEF Body
    <2>2. c.fn = "listItems" => Body(c) = py_list_iterate(a[1])
      BY Zenon DEF Body
    <2>3. c.fn = "tupleItems" => Body(c) = py_tuple_iterate(a[1])
      BY Zenon DEF Body
    <2>4. c.fn = "pyType" => Body(c) = py_get_type(a[1])
      BY Zenon DEF Body
    <2>5. c.fn = "__pairs" => Body(c) = py_object_pairs(a[1])
      BY Zenon DEF Body
    <2>6. c.fn = "items" => Body(c) = py_iterate(a[1])
      BY Zenon DEF Body
    <2>7. c.fn = "__call" => Body(c) = py_object_call(a[1], Tail(a))
      BY Zenon DEF Body
    <2>8. /\ OutCode(c.fn, py_dict_iterate(a[1]))
          /\ OutCode(c.fn, py_list_iterate(a[1]))
          /\ OutCode(c.fn, py_tuple_iterate(a[1]))
          /\ OutCode(c.fn, py_get_type(a[1]))
          /\ OutCode(c.fn, py_object_pairs(a[1]))
          /\ OutCode(c.fn, py_iterate(a[1]))
          /\ OutCode(c.fn, py_object_call(a[1], Tail(a)))
      BY <1>1, <1>2, <1>3, <2>0, ObjectCode, ItemsCode, CallCode
    <2> QED
      BY <1>1, <1>7, <2>0, <2>1, <2>2, <2>3, <2>4, <2>5, <2>6, <2>7, <2>8 DEF FirstCode
  <1>8. CASE c.fn \in {"callObject", "getAttr", "__index"}
    <2>0. c.fn \in Ordinary /\ c.fn \in Binary
      BY <1>4, <1>8 DEF Registered, Binary, Iterators
    <2>1. c.fn = "callObject" => Body(c) = CallObject(a[1], a[2])
      BY Zenon DEF Body
    <2>2. c.fn = "getAttr" => Body(c) = GetAttr(a[1], a[2])
      BY Zenon DEF Body
    <2>3. c.fn = "__index" => Body(c) = metaIndex(a[1], a[2])
      BY Zenon DEF Body
    <2>4. /\ OutCode(c.fn, GetAttr(a[1], a[2]))
          /\ OutCode(c.fn, metaIndex(a[1], a[2]))
      BY <1>2, <1>3, <2>0, StraightCode, ObjectCode
    <2>5. c.fn = "callObject" => FirstCode(c.fn, Body(c))
      BY <2>1, CallObjectCode
    <2> QED
      BY <1>1, <1>8, <2>0, <2>2, <2>3, <2>4, <2>5 DEF FirstCode
  <1>9. CASE c.fn \in {"setattr", "__newindex"}
    <2>0. c.fn \in Ordinary /\ c.fn \in Ternary
      BY <1>4, <1>9 DEF Registered, Ternary, Iterators
    <2>1. c.fn = "setattr" => Body(c) = py_object_set_attr(a[1], a[2], a[3])
      BY Zenon DEF Body
    <2>2. c.fn = "__newindex" => Body(c) = py_object_newindex(a[1], a[2], a[3])
      BY Zenon DEF Body
    <2>3. /\ OutCode(c.fn, py_object_set_attr(a[1], a[2], a[3]))
          /\ OutCode(c.fn, py_object_newindex(a[1], a[2], a[3]))
      BY <1>2, <1>3, <2>0, SetterCode
    <2> QED
      BY <1>1, <1>9, <2>0, <2>1, <2>2, <2>3 DEF FirstCode
  <1>10. CASE c.fn \in Iterators
    <2>1. c.fn = "dict_next" => Body(c) = dict_next
      BY Zenon DEF Body
    <2>2. c.fn = "iter_next" => Body(c) = iter_next
      BY Zenon DEF Body
    <2>3. c.fn = "pairs_next" => Body(c) = py_object_next(a[1])
      BY Zenon DEF Body
    <2>4. OutCode(c.fn, dict_next) /\ OutCode(c.fn, iter_next) /\ OutCode(c.fn, py_object_next(a[1]))
      BY <1>10, IteratorCode
    <2> QED
      BY <1>1, <1>10, <2>1, <2>2, <2>3, <2>4 DEF Iterators, FirstCode
  <1>11. CASE c.fn = "__gc"
    <2>1. Body(c) = py_object_gc
      BY <1>11, Zenon DEF Body
    <2> QED
      BY <1>1, <1>11, <2>1, SmallCode DEF FirstCode
  <1>12. CASE c.fn = "toPyAuto"
    <2>1. Body(c) = toPyAuto(a[1])
      BY <1>12, Zenon DEF Body
    <2>2. a[1] \in Values
      BY <1>2, <1>3, <1>12 DEF Unary
    <2> QED
      BY <1>1, <1>12, <2>1, <2>2, AutoCode DEF FirstCode
  <1> QED
    BY <1>1, <1>5, <1>6, <1>7, <1>8, <1>9, <1>10, <1>11, <1>12
       DEF Registered, Nullary, Unary, Binary, Ternary, Iterators

------------------------------------------------------------------------------
(* One step of code.                                                         *)

\* What follows a step other than Release in a stretch is a stretch.
LEMMA StretchRest ==
    ASSUME NEW fn, NEW c, Stretch(fn, c), NEW k \in 1..Len(c), c[k].op # "Release",
           NEW r \in Seq(Steps), Len(r) = Len(c) - k, \A i \in 1..Len(r) : r[i] = c[i + k]
    PROVE  Stretch(fn, r)
  <1>1. Len(c) \in Nat /\ Len(r) \in Nat /\ k \in Nat
    BY DEF Stretch
  <1>2. ASSUME NEW i \in 1..Len(r)
        PROVE  /\ StepOf(fn, r[i])
               /\ r[i].op = "Ensure" => i > 1 /\ r[i - 1].op = "Release"
               /\ r[i].op = "Release" => i < Len(r) /\ r[i + 1].op \in Final \cup {"Ensure"}
               /\ r[i].op \in Final /\ fn \notin Iterators \cup {"LuaToPython"} => i > 1 /\ r[i - 1].op = "Release"
    <2>1. PICK j \in 1..Len(c) : j = i + k
      BY <1>1
    <2>2. r[i] = c[j] /\ j > 1
      BY <1>1, <2>1
    <2>3. i > 1 => r[i - 1] = c[j - 1]
      <3>1. i > 1 => i - 1 \in 1..Len(r) /\ (i - 1) + k = j - 1
        BY <1>1, <2>1
      <3> QED
        BY <3>1
    <2>4. ~(i > 1) => c[j - 1].op # "Release"
      <3>1. ~(i > 1) => j - 1 = k
        BY <1>1, <2>1
      <3> QED
        BY <3>1
    <2>5. j < Len(c) => i < Len(r) /\ r[i + 1] = c[j + 1]
      <3>1. j < Len(c) => i < Len(r) /\ i + 1 \in 1..Len(r) /\ (i + 1) + k = j + 1
        BY <1>1, <2>1
      <3> QED
        BY <3>1
    <2> QED
      BY <2>2, <2>3, <2>4, <2>5 DEF Stretch
  <1> QED
    BY <1>2 DEF Stretch

\* The same for code that ends: Release leads out, any other step stays in.
LEMMA CodeStep ==
    ASSUME NEW fn, NEW c, InCode(fn, c)
    PROVE  /\ c \in Seq(Steps) /\ c # <<>> /\ StepOf(fn, Head(c)) /\ Tail(c) \in Seq(Steps)
           /\ Head(c).op \in Mid \cup {"Release"} \cup Final
           /\ Head(c).op \in Mid => InCode(fn, Tail(c))
           /\ Head(c).op = "Release" => OutCode(fn, Tail(c))
           /\ Head(c).op \in Final => fn \in Iterators \cup {"LuaToPython"}
  <1> DEFINE n == Len(c)
  <1>1. c \in Seq(Steps) /\ c # <<>> /\ n \in Nat /\ n > 0 /\ c[n].op \in Final /\ Stretch(fn, c)
    BY DEF InCode, Stretch
  <1>2. /\ Head(c) = c[1] /\ Tail(c) \in Seq(Steps) /\ Len(Tail(c)) = n - 1
        /\ \A i \in 1..(n - 1) : Tail(c)[i] = c[i + 1]
    BY <1>1
  <1>3. StepOf(fn, c[1]) /\ c[1].op # "Ensure" /\ (c[1].op \in Final => fn \in Iterators \cup {"LuaToPython"})
    BY <1>1 DEF Stretch
  <1>4. c[1].op \in Mid \cup {"Release"} \cup Final
    BY <1>3 DEF StepOf, Steps, SimpleOps, Mid, Final
  <1>5. ASSUME c[1].op \in Mid PROVE InCode(fn, Tail(c))
    <2>1. c[1].op \notin Final \cup {"Release"}
      BY <1>5 DEF Mid, Final
    <2>2. n > 1
      BY <1>1, <2>1
    <2>3. Stretch(fn, Tail(c))
      <3>1. 1 \in 1..n
        BY <1>1
      <3> QED
        BY <1>1, <1>2, <2>1, <3>1, StretchRest
    <2>4. Tail(c)[n - 1] = c[n] /\ Tail(c) # <<>>
      BY <1>1, <1>2, <2>2
    <2> QED
      BY <1>1, <1>2, <2>3, <2>4 DEF InCode
  <1>6. ASSUME c[1].op = "Release" PROVE OutCode(fn, Tail(c))
    <2>1. n > 1 /\ c[2].op \in Final \cup {"Ensure"} /\ StepOf(fn, c[2])
      BY <1>1, <1>6 DEF Stretch
    <2>2. Tail(c) # <<>> /\ Head(Tail(c)) = c[2]
      <3>0. 1 \in 1..(n - 1) /\ n - 1 # 0
        BY <1>1, <2>1
      <3>1. 1 \in 1..(n - 1) /\ Tail(c) # <<>>
        <4> HIDE DEF n
        <4> QED
          BY <1>2, <3>0
      <3>2. Tail(c)[1] = c[2]
        BY <1>2, <3>1
      <3>3. Head(Tail(c)) = Tail(c)[1]
        BY <1>2, <3>1
      <3> QED
        BY <3>1, <3>2, <3>3
    <2>3. ASSUME c[2].op = "Ensure" PROVE InCode(fn, Tail(Tail(c)))
      <3> DEFINE r == Tail(Tail(c))
      <3>1. n > 2
        BY <1>1, <2>1, <2>3 DEF Final
      <3>2. r \in Seq(Steps) /\ Len(r) = n - 2 /\ r # <<>>
        <4> DEFINE d == Tail(c)
        <4>1. d \in Seq(Steps) /\ d # <<>> /\ Len(d) = n - 1 /\ n \in Nat
          BY <1>1, <1>2, <2>2
        <4> HIDE DEF d, n
        <4>2. Tail(d) \in Seq(Steps) /\ Len(Tail(d)) = Len(d) - 1
          BY <4>1, HeadTailProperties
        <4>3. Len(Tail(d)) = n - 2 /\ n - 2 # 0
          BY <3>1, <4>1, <4>2
        <4>4. Tail(d) # <<>>
          BY <4>2, <4>3, EmptySeq
        <4> QED
          BY <4>2, <4>3, <4>4 DEF d
      <3>3. \A i \in 1..(n - 2) : r[i] = c[i + 2]
        BY <1>1, <1>2, <2>2
      <3>4. 2 \in 1..n
        BY <1>1, <2>1
      <3>5. r[n - 2] = c[n]
        BY <1>1, <3>1, <3>3
      <3> HIDE DEF r
      <3>6. Stretch(fn, r)
        BY <1>1, <2>3, <3>2, <3>3, <3>4, StretchRest
      <3> QED
        BY <1>1, <3>2, <3>5, <3>6 DEF InCode, r
    <2> QED
      BY <1>2, <2>1, <2>2, <2>3 DEF OutCode
  <1> QED
    BY <1>1, <1>2, <1>3, <1>4, <1>5, <1>6

\* A step's second outcome is code of the same function, and its argument a value.
LEMMA StepFields ==
    ASSUME NEW fn \in Names, NEW s, StepOf(fn, s)
    PROVE  /\ s.op = "Python" /\ s.or # <<>> => InCode(fn, s.or)
           /\ s.op \in {"Convert", "PCall"} => InCode(fn, s.or)
           /\ s.op \in {"Convert", "Call", "PCall"} => s.arg \in Values
  <1>1. s.op \in {"Convert", "Call", "PCall"} => s.arg \in Values
    BY DEF StepOf, Steps, SimpleOps
  <1>2. /\ s.op = "Python" /\ s.or # <<>> => s.or \in Alternatives(fn)
        /\ s.op \in {"Convert", "PCall"} => s.or \in Alternatives(fn)
    BY DEF StepOf
  <1> QED
    BY <1>1, <1>2, AlternativesEnd

------------------------------------------------------------------------------
(* Stacks.                                                                   *)

\* The first k frames.
LEMMA PrefixFacts ==
    ASSUME NEW s \in Seq(Frames), NEW k \in 0..Len(s)
    PROVE  /\ SubSeq(s, 1, k) \in Seq(Frames) /\ Len(SubSeq(s, 1, k)) = k
           /\ \A i \in 1..k : SubSeq(s, 1, k)[i] = s[i]
  <1>1. Len(s) \in Nat /\ k \in Int /\ 1 \in Int
    OBVIOUS
  <1>2. \A i \in 1..k : s[i] \in Frames
    BY <1>1
  <1>3. /\ SubSeq(s, 1, k) \in Seq(Frames)
        /\ Len(SubSeq(s, 1, k)) = IF 1 <= k THEN k - 1 + 1 ELSE 0
        /\ \A i \in 1..(k - 1 + 1) : SubSeq(s, 1, k)[i] = s[1 + i - 1]
    BY <1>1, <1>2, SubSeqProperties
  <1>4. k - 1 + 1 = k /\ \A i \in 1..k : 1 + i - 1 = i
    BY <1>1
  <1> QED
    BY <1>1, <1>3, <1>4

\* All but the last.
LEMMA FrontFacts ==
    ASSUME NEW s \in Seq(Frames), s # <<>>
    PROVE  /\ Len(s) \in Nat /\ Len(s) > 0 /\ Last(s) = s[Len(s)] /\ Last(s) \in Frames
           /\ Front(s) \in Seq(Frames) /\ Len(Front(s)) = Len(s) - 1
           /\ \A i \in 1..(Len(s) - 1) : Front(s)[i] = s[i]
  <1>1. Len(s) \in Nat /\ Len(s) > 0 /\ Last(s) = s[Len(s)] /\ Last(s) \in Frames
    BY DEF Last
  <1>2. Len(s) - 1 \in 0..Len(s)
    BY <1>1
  <1> QED
    BY <1>1, <1>2, PrefixFacts DEF Front

\* One frame more.
LEMMA AppendFacts ==
    ASSUME NEW s \in Seq(Frames), NEW f \in Frames
    PROVE  /\ Append(s, f) \in Seq(Frames) /\ Append(s, f) # <<>> /\ Len(Append(s, f)) = Len(s) + 1
           /\ \A i \in 1..Len(s) : Append(s, f)[i] = s[i]
           /\ Append(s, f)[Len(s) + 1] = f
  OBVIOUS

\* A frame with other code ...
LEMMA FrameFacts ==
    ASSUME NEW f \in Frames, NEW c \in Seq(Steps)
    PROVE  /\ [f EXCEPT !.code = c] \in Frames
           /\ [f EXCEPT !.code = c].fn = f.fn /\ [f EXCEPT !.code = c].gstate = f.gstate
           /\ [f EXCEPT !.code = c].code = c
  BY DEF Frames

\* ... and with another handle too.
LEMMA HandleFacts ==
    ASSUME NEW f \in Frames, NEW g \in {"none", "LOCKED", "UNLOCKED"}, Tail(f.code) \in Seq(Steps)
    PROVE  LET r == [f EXCEPT !.gstate = g, !.code = Tail(f.code)]
           IN  r \in Frames /\ r.fn = f.fn /\ r.gstate = g /\ r.code = Tail(f.code)
  BY DEF Frames

\* Frames left on the stack when those above them go.
LEMMA NestedPrefix ==
    ASSUME NEW s, Nested(s), NEW k \in 0..Len(s)
    PROVE  Nested(SubSeq(s, 1, k))
  <1> DEFINE r == SubSeq(s, 1, k)
             n == Len(s)
  <1>1. s \in Seq(Frames) /\ n \in Nat /\ k \in Nat /\ k <= n
    BY DEF Nested
  <1>2. r \in Seq(Frames) /\ Len(r) = k /\ \A i \in 1..k : r[i] = s[i]
    BY <1>1, PrefixFacts
  <1> HIDE DEF r
  <1>3. ASSUME k > 0 PROVE r[1].fn \in Registered /\ Ready(r[k])
    <2>1. r[1] = s[1] /\ r[k] = s[k] /\ n > 0
      BY <1>1, <1>2, <1>3
    <2>2. k = n \/ k \in 1..(n - 1)
      BY <1>1, <1>3
    <2> QED
      BY <2>1, <2>2 DEF Nested, Waiting, Ready
  <1>4. ASSUME NEW i \in 1..(k - 1) PROVE Waiting(r[i]) /\ r[i + 1].fn = Callee(Head(r[i].code).op)
    <2>1. i \in 1..(n - 1) /\ r[i] = s[i] /\ r[i + 1] = s[i + 1]
      BY <1>1, <1>2
    <2> QED
      BY <2>1 DEF Nested
  <1>5. ASSUME NEW i \in 2..k PROVE r[i].gstate # "UNLOCKED" /\ (r[i].fn = "toPyAuto" => r[1].fn = "toPyAuto")
    <2>1. i \in 2..n /\ r[i] = s[i] /\ r[1] = s[1]
      BY <1>1, <1>2
    <2> QED
      BY <2>1 DEF Nested
  <1>6. Nested(r)
    BY <1>2, <1>3, <1>4, <1>5 DEF Nested
  <1> QED
    BY <1>6 DEF r

\* The innermost frame goes on.
LEMMA NestedTop ==
    ASSUME NEW s, Nested(s), s # <<>>, NEW f \in Frames, f.fn = Last(s).fn, Ready(f),
           f.gstate = "UNLOCKED" => Len(s) = 1
    PROVE  LET r == Append(Front(s), f)
           IN  /\ Nested(r) /\ r # <<>> /\ Len(r) = Len(s) /\ r[Len(s)] = f
               /\ \A i \in 1..(Len(s) - 1) : r[i] = s[i]
  <1> DEFINE r == Append(Front(s), f)
             n == Len(s)
  <1>1. s \in Seq(Frames)
    BY DEF Nested
  <1>2. /\ n \in Nat /\ n > 0 /\ Front(s) \in Seq(Frames) /\ Len(Front(s)) = n - 1 /\ Last(s) = s[n]
        /\ \A i \in 1..(n - 1) : Front(s)[i] = s[i]
    BY <1>1, FrontFacts
  <1>3. /\ r \in Seq(Frames) /\ r # <<>> /\ Len(r) = (n - 1) + 1
        /\ \A i \in 1..(n - 1) : r[i] = s[i]
        /\ r[(n - 1) + 1] = f
    BY <1>2, AppendFacts
  <1> HIDE DEF r, n
  <1>4. Len(r) = n /\ r[n] = f
    BY <1>2, <1>3
  <1>5. r[1].fn = s[1].fn
    <2>1. n = 1 \/ 1 \in 1..(n - 1)
      BY <1>2
    <2> QED
      BY <1>2, <1>3, <1>4, <2>1
  <1>6. \A i \in 1..n : r[i].fn = s[i].fn
    <2>1. \A i \in 1..n : i = n \/ i \in 1..(n - 1)
      BY <1>2
    <2> QED
      BY <1>2, <1>3, <1>4, <2>1
  <1>7. ASSUME NEW i \in 1..(n - 1) PROVE Waiting(r[i]) /\ r[i + 1].fn = Callee(Head(r[i].code).op)
    <2>1. r[i] = s[i] /\ i + 1 \in 1..n
      BY <1>2, <1>3
    <2>2. Waiting(s[i]) /\ s[i + 1].fn = Callee(Head(s[i].code).op)
      BY DEF Nested, n
    <2> QED
      BY <1>6, <2>1, <2>2
  <1>8. ASSUME NEW i \in 2..n PROVE r[i].gstate # "UNLOCKED" /\ (r[i].fn = "toPyAuto" => r[1].fn = "toPyAuto")
    <2>1. (i = n /\ n # 1) \/ i \in 1..(n - 1)
      BY <1>2
    <2>2. i \in 1..n
      BY <1>2
    <2>3. s[i].gstate # "UNLOCKED" /\ (s[i].fn = "toPyAuto" => s[1].fn = "toPyAuto")
      BY DEF Nested, n
    <2> QED
      BY <1>3, <1>4, <1>5, <1>6, <2>1, <2>2, <2>3 DEF n
  <1>9. s[1].fn \in Registered
    BY <1>2 DEF Nested, n
  <1>10. Nested(r)
    BY <1>3, <1>4, <1>5, <1>7, <1>8, <1>9 DEF Nested
  <1> QED
    BY <1>3, <1>4, <1>10 DEF r, n

\* The innermost frame calls another function ...
LEMMA NestedPush ==
    ASSUME NEW s, Nested(s), s # <<>>, Waiting(Last(s)),
           NEW f \in Frames, f.fn = Callee(Head(Last(s).code).op), Idle(f)
    PROVE  Nested(Append(s, f))
  <1> DEFINE r == Append(s, f)
             n == Len(s)
  <1>1. s \in Seq(Frames)
    BY DEF Nested
  <1>2. n \in Nat /\ n > 0 /\ Last(s) = s[n] /\ Last(s) \in Frames
    BY <1>1, FrontFacts
  <1>3. r \in Seq(Frames) /\ r # <<>> /\ Len(r) = n + 1 /\ r[n + 1] = f /\ \A i \in 1..n : r[i] = s[i]
    BY <1>1, AppendFacts
  <1> HIDE DEF r, n
  <1>4. ASSUME NEW i \in 1..n PROVE Waiting(r[i]) /\ r[i + 1].fn = Callee(Head(r[i].code).op)
    <2>1. CASE i = n
      BY <1>2, <1>3, <2>1
    <2>2. CASE i \in 1..(n - 1)
      <3>1. r[i] = s[i] /\ i + 1 \in 1..n
        BY <1>2, <1>3, <2>2
      <3>2. r[i + 1] = s[i + 1]
        BY <1>3, <3>1
      <3> QED
        BY <2>2, <3>1, <3>2 DEF Nested, n
    <2> QED
      BY <1>2, <2>1, <2>2
  <1>5. f.gstate # "UNLOCKED"
    BY DEF Idle
  <1>6. r[1] = s[1] /\ s[1].fn \in Registered
    BY <1>2, <1>3 DEF Nested, n
  <1>7. ASSUME f.fn = "toPyAuto" PROVE s[1].fn = "toPyAuto"
    <2>1. Head(s[n].code).op \in {"Call", "PCall"}
      BY <1>2, <1>7 DEF Waiting, Callee, CallOps
    <2>2. StepOf(s[n].fn, Head(s[n].code))
      BY <1>2, CodeStep DEF Waiting, Busy
    <2>3. s[n].fn = "toPyAuto"
      BY <2>1, <2>2 DEF StepOf
    <2>4. n = 1 \/ n \in 2..n
      BY <1>2
    <2> QED
      BY <2>3, <2>4 DEF Nested, n
  <1>8. ASSUME NEW i \in 2..(n + 1) PROVE r[i].gstate # "UNLOCKED" /\ (r[i].fn = "toPyAuto" => r[1].fn = "toPyAuto")
    <2>1. CASE i = n + 1
      BY <1>3, <1>5, <1>6, <1>7, <2>1
    <2>2. CASE i \in 2..n
      <3>1. r[i] = s[i]
        BY <1>2, <1>3, <2>2
      <3> QED
        BY <1>6, <2>2, <3>1 DEF Nested, n
    <2> QED
      BY <1>2, <2>1, <2>2
  <1>9. (n + 1) - 1 = n
    BY <1>2
  <1>10. Nested(r)
    BY <1>3, <1>4, <1>6, <1>8, <1>9 DEF Nested, Ready
  <1> QED
    BY <1>10 DEF r

\* ... or a script does.
LEMMA NestedFirst ==
    ASSUME NEW f \in Frames, f.fn \in Registered, Ready(f)
    PROVE  Nested(Append(<<>>, f))
  <1> DEFINE r == Append(<<>>, f)
  <1>1. r \in Seq(Frames) /\ Len(r) = 1 /\ r[1] = f
    OBVIOUS
  <1>2. 1..(Len(r) - 1) = {} /\ 2..Len(r) = {}
    BY <1>1
  <1> HIDE DEF r
  <1>3. Nested(r)
    BY <1>1, <1>2 DEF Nested
  <1> QED
    BY <1>3 DEF r

------------------------------------------------------------------------------
(* The lock.                                                                 *)

\* The number of handles on a stack.
LEMMA HandlesFacts ==
    ASSUME NEW s, Nested(s), s # <<>>
    PROVE  /\ Handles(s) \in Nat /\ Len(s) - 1 <= Handles(s) /\ Handles(s) <= Len(s)
           /\ Last(s).gstate = "none" => Handles(s) = Len(s) - 1
           /\ Last(s).gstate # "none" => Handles(s) = Len(s)
           /\ Len(s) > 1 => s[1].gstate # "none"
           /\ Last(s) = s[Len(s)] /\ Last(s) \in Frames /\ Len(s) \in Nat /\ Len(s) > 0
  <1>1. s \in Seq(Frames)
    BY DEF Nested
  <1>2. Len(s) \in Nat /\ Len(s) > 0 /\ Last(s) = s[Len(s)] /\ Last(s) \in Frames
    BY <1>1, FrontFacts
  <1>3. Len(s) > 1 => 1 \in 1..(Len(s) - 1)
    BY <1>2
  <1>4. Len(s) > 1 => s[1].gstate # "none"
    BY <1>3 DEF Nested, Waiting, Busy
  <1> QED
    BY <1>2, <1>4 DEF Handles

\* The thread goes on with the same outermost handle and no handle more.
LEMMA LockSame ==
    ASSUME NEW t, NEW h, NEW n, NEW s, NEW y, NEW k, LockOK(t, h, n, s, y, k), ~y, s # <<>>,
           NEW r, r # <<>>, r[1].gstate = s[1].gstate,
           Handles(r) \in Nat, Handles(s) \in Nat, Handles(r) <= Handles(s)
    PROVE  LockOK(t, h, n, r, y, k)
  <1>1. Took(r) <=> Took(s)
    BY DEF Took
  <1>2. n \in Nat /\ n >= Handles(r) + (IF k = {} THEN 0 ELSE 1)
    BY DEF LockOK
  <1> QED
    BY <1>1, <1>2 DEF LockOK

\* It is back in Lua, with the outermost handle still there.
LEMMA LockLeft ==
    ASSUME NEW t, NEW h, NEW n, NEW s, NEW y, NEW k, LockOK(t, h, n, s, y, k), ~y, Nested(s), s # <<>>,
           NEW K, K = IF Took(s) THEN {s[1].fn} ELSE {}, Took(s) => s[1].fn \in KeepingFunctions
    PROVE  LockOK(t, h, n, <<>>, y, k \cup K)
  <1>1. Handles(s) \in Nat /\ (Took(s) => Handles(s) >= 1)
    <2>1. CASE Len(s) = 1
      <3>1. Last(s) = s[1]
        BY <2>1, HandlesFacts
      <3>2. Took(s) => Last(s).gstate # "none"
        BY <3>1 DEF Took
      <3> QED
        BY <2>1, <3>2, HandlesFacts
    <2>2. CASE Len(s) # 1
      <3>1. Handles(s) \in Nat /\ Len(s) - 1 <= Handles(s) /\ Len(s) \in Nat /\ Len(s) > 0
        BY HandlesFacts
      <3> DEFINE a == Len(s)
                 b == Handles(s)
      <3>2. a \in Nat /\ a > 0 /\ a # 1 /\ b \in Nat /\ a - 1 <= b
        BY <2>2, <3>1
      <3> HIDE DEF a, b
      <3>3. b \in Nat /\ b >= 1
        BY <3>2
      <3> QED
        BY <3>3 DEF b
    <2> QED
      BY <2>1, <2>2
  <1>2. ~Took(<<>>) /\ Handles(<<>>) = 0
    BY DEF Took, Handles
  <1>3. n \in Nat /\ n >= (IF k \cup K = {} THEN 0 ELSE 1)
    <2>1. CASE Took(s)
      BY <1>1, <2>1 DEF LockOK
    <2>2. CASE ~Took(s)
      BY <1>1, <2>2 DEF LockOK
    <2> QED
      BY <2>1, <2>2
  <1> QED
    BY <1>2, <1>3 DEF LockOK

\* A frame about to take a step: what it knows of its code and its handle.
LEMMA TopFacts ==
    ASSUME NEW s, Nested(s), s # <<>>
    PROVE  LET f == Last(s) op == Head(f.code).op
           IN  /\ f \in Frames /\ f.fn \in Names /\ f.code \in Seq(Steps) /\ f.code # <<>>
               /\ Tail(f.code) \in Seq(Steps)
               /\ op # "Check" => StepOf(f.fn, Head(f.code))
               /\ op = "Check" => Testing(f)
               /\ op = "Ensure" => f.gstate = "none" /\ InCode(f.fn, Tail(f.code))
               /\ op = "Release" => f.gstate # "none" /\ OutCode(f.fn, Tail(f.code))
               /\ op \in Mid => Busy(f) /\ InCode(f.fn, Tail(f.code))
               /\ op \in Final /\ f.gstate # "none" => f.fn \in Iterators \cup {"LuaToPython"}
  <1> DEFINE f == Last(s)
             op == Head(f.code).op
  <1>1. f \in Frames /\ Ready(f)
    BY HandlesFacts DEF Nested
  <1> HIDE DEF f
  <1>2. f.fn \in Names /\ f.code \in Seq(Steps)
    BY <1>1 DEF Frames
  <1>3. CASE Busy(f)
    <2>1. InCode(f.fn, f.code) /\ f.gstate # "none"
      BY <1>3 DEF Busy
    <2>2. op \in Mid \cup {"Release"} \cup Final
      BY <2>1, CodeStep
    <2>3. op # "Ensure" /\ op # "Check"
      BY <2>2 DEF Mid, Final
    <2> QED
      BY <1>1, <1>2, <1>3, <2>1, <2>3, CodeStep DEF f
  <1>4. CASE Idle(f)
    <2>1. OutCode(f.fn, f.code) /\ f.gstate = "none"
      BY <1>4 DEF Idle
    <2>2. f.code # <<>> /\ Tail(f.code) \in Seq(Steps) /\ StepOf(f.fn, Head(f.code))
      BY <1>2, <2>1 DEF OutCode
    <2>3. op \in Final \/ (op = "Ensure" /\ InCode(f.fn, Tail(f.code)))
      BY <2>1 DEF OutCode
    <2>4. op \in Final => op \notin Mid \cup {"Ensure", "Release", "Check"}
      BY DEF Mid, Final
    <2> QED
      BY <1>1, <1>2, <2>1, <2>2, <2>3, <2>4 DEF f, Mid
  <1>5. CASE Testing(f)
    <2>1. f.gstate = "none" /\ f.code # <<>> /\ op = "Check" /\ Tail(f.code) \in Seq(Steps)
      BY <1>2, <1>5 DEF Testing, TestCode
    <2>2. op \notin Mid \cup Final \cup {"Ensure", "Release"}
      BY <2>1 DEF Mid, Final
    <2> QED
      BY <1>1, <1>2, <1>5, <2>1, <2>2 DEF f
  <1> QED
    BY <1>1, <1>3, <1>4, <1>5 DEF Ready

------------------------------------------------------------------------------
(* Steps of a thread.                                                        *)

\* A step of t at most takes or gives the lock ...
LockMoves(t) == holder' = holder \/ (holder \in {t, Nobody} /\ holder' \in {t, Nobody})

\* ... and leaves the other threads alone.
Local(t) ==
    /\ LockMoves(t)
    /\ counter' \in [LuaThreads -> Nat] /\ yielding' \in [LuaThreads -> BOOLEAN]
    /\ stack' \in [LuaThreads -> Seq(Frames)] /\ kept' \in [LuaThreads -> SUBSET KeepingFunctions]
    /\ \A u \in LuaThreads \ {t} :
          counter'[u] = counter[u] /\ yielding'[u] = yielding[u] /\ stack'[u] = stack[u] /\ kept'[u] = kept[u]

\* Then only t is to be looked at.
LEMMA LocalSteps ==
    ASSUME LockInv, NEW t \in LuaThreads, Local(t),
           ThreadOK(t, holder', counter'[t], stack'[t], yielding'[t], kept'[t])
    PROVE  LockInv'
  <1>1. holder' \in LuaThreads \cup {Game, Nobody}
    BY DEF LockInv, Local, LockMoves
  <1>2. ASSUME NEW u \in LuaThreads \ {t}
        PROVE  ThreadOK(u, holder', counter'[u], stack'[u], yielding'[u], kept'[u])
    <2>1. (holder' = u) <=> (holder = u)
      BY BridgeAssumption DEF Local, LockMoves
    <2>2. ThreadOK(u, holder, counter[u], stack[u], yielding[u], kept[u])
      BY DEF LockInv
    <2>3. ThreadOK(u, holder', counter[u], stack[u], yielding[u], kept[u])
      BY <2>1, <2>2 DEF ThreadOK, LockOK
    <2> QED
      BY <2>3 DEF Local
  <1> QED
    BY <1>1, <1>2 DEF LockInv, Local

\* How a step of t shows in the variables.
LEMMA LocalForm ==
    ASSUME LockInv, NEW t \in LuaThreads, LockMoves(t),
           NEW n \in Nat, counter' = [counter EXCEPT ![t] = n],
           NEW s \in Seq(Frames), stack' = [stack EXCEPT ![t] = s],
           NEW y \in BOOLEAN, yielding' = [yielding EXCEPT ![t] = y],
           NEW k \in SUBSET KeepingFunctions, kept' = [kept EXCEPT ![t] = k],
           ThreadOK(t, holder', n, s, y, k)
    PROVE  LockInv'
  <1>1. /\ counter \in [LuaThreads -> Nat] /\ yielding \in [LuaThreads -> BOOLEAN]
        /\ stack \in [LuaThreads -> Seq(Frames)] /\ kept \in [LuaThreads -> SUBSET KeepingFunctions]
    BY DEF LockInv
  <1>2. counter'[t] = n /\ stack'[t] = s /\ yielding'[t] = y /\ kept'[t] = k
    BY <1>1
  <1>3. Local(t)
    BY <1>1 DEF Local
  <1> QED
    BY <1>2, <1>3, LocalSteps

\* The thread before its step.
LEMMA ThreadFacts ==
    ASSUME LockInv, NEW t \in LuaThreads
    PROVE  /\ Nested(stack[t]) /\ LockOK(t, holder, counter[t], stack[t], yielding[t], kept[t])
           /\ counter[t] \in Nat /\ stack[t] \in Seq(Frames) /\ yielding[t] \in BOOLEAN
           /\ kept[t] \in SUBSET KeepingFunctions
           /\ counter = [counter EXCEPT ![t] = counter[t]] /\ stack = [stack EXCEPT ![t] = stack[t]]
           /\ yielding = [yielding EXCEPT ![t] = yielding[t]] /\ kept = [kept EXCEPT ![t] = kept[t]]
  BY DEF LockInv, ThreadOK

\* Most steps change only the stack ...
LEMMA StackSteps ==
    ASSUME LockInv, NEW t \in LuaThreads, UNCHANGED <<holder, counter, yielding, kept>>,
           NEW r \in Seq(Frames), stack' = [stack EXCEPT ![t] = r],
           ThreadOK(t, holder, counter[t], r, yielding[t], kept[t])
    PROVE  LockInv'
  <1>1. /\ counter \in [LuaThreads -> Nat] /\ yielding \in [LuaThreads -> BOOLEAN]
        /\ stack \in [LuaThreads -> Seq(Frames)] /\ kept \in [LuaThreads -> SUBSET KeepingFunctions]
    BY DEF LockInv
  <1>2. stack'[t] = r
    BY <1>1
  <1>3. Local(t)
    BY <1>1 DEF Local, LockMoves
  <1> QED
    BY <1>2, <1>3, LocalSteps

\* A script's call.
LEMMA CallStep ==
    ASSUME LockInv, NEW t \in LuaThreads, NEW c \in Calls[t], Call(t, c)
    PROVE  LockInv'
  <1> DEFINE f == Frame(c.fn, Body(c))
             r == Append(<<>>, f)
  <1>1. c.fn \in Registered /\ FirstCode(c.fn, Body(c))
    BY BodyCode
  <1>2. f \in Frames /\ f.fn = c.fn /\ f.gstate = "none" /\ Ready(f)
    <2>1. f.fn = c.fn /\ f.gstate = "none" /\ f.code = Body(c) /\ Body(c) \in Seq(Steps)
      BY <1>1 DEF Frame, FirstCode, OutCode, TestCode
    <2>2. f \in Frames
      BY <1>1, <2>1 DEF Frame, Frames, Names
    <2>3. Idle(f) \/ Testing(f)
      BY <1>1, <2>1 DEF Idle, Testing, FirstCode
    <2> QED
      BY <2>1, <2>2, <2>3 DEF Ready
  <1> HIDE DEF f
  <1>3. Nested(r)
    BY <1>1, <1>2, NestedFirst
  <1>4. r # <<>> /\ r[1] = f /\ Len(r) = 1 /\ r \in Seq(Frames)
    BY <1>2
  <1>5. stack[t] = <<>> /\ stack' = [stack EXCEPT ![t] = r]
    <2>1. stack[t] = <<>>
      BY DEF Call
    <2>2. stack' = [stack EXCEPT ![t] = Append(stack[t], f)]
      BY DEF Call, Enter, f
    <2> QED
      BY <2>1, <2>2
  <1> HIDE DEF r
  <1>6. LockOK(t, holder, counter[t], r, yielding[t], kept[t])
    <2>1. LockOK(t, holder, counter[t], <<>>, yielding[t], kept[t])
      BY <1>5, ThreadFacts
    <2>2. ~Took(<<>>) /\ ~Took(r) /\ Handles(<<>>) = 0 /\ Handles(r) = 0
      BY <1>2, <1>4 DEF Took, Handles
    <2> QED
      BY <1>2, <1>4, <2>1, <2>2 DEF LockOK
  <1>7. UNCHANGED <<holder, counter, yielding, kept>>
    BY DEF Call
  <1>8. ThreadOK(t, holder, counter[t], r, yielding[t], kept[t])
    BY <1>3, <1>6 DEF ThreadOK
  <1> QED
    BY <1>4, <1>5, <1>7, <1>8, StackSteps

\* What At says of the innermost frame.
LEMMA AtFacts ==
    ASSUME LockInv, NEW t \in LuaThreads, NEW op, At(t, op)
    PROVE  /\ stack[t] # <<>> /\ Nested(stack[t]) /\ Top(t) = Last(stack[t]) /\ Step(t) = Head(Last(stack[t]).code)
           /\ Head(Last(stack[t]).code).op = op
           /\ op # "Python" => ~yielding[t]
           /\ holder = t => ~yielding[t]
  <1>1. stack[t] # <<>> /\ Head(Last(stack[t]).code).op = op
    BY DEF At, Step, Top
  <1>2. Nested(stack[t]) /\ LockOK(t, holder, counter[t], stack[t], yielding[t], kept[t])
    BY ThreadFacts
  <1>3. yielding[t] => holder # t /\ Head(Last(stack[t]).code).op = "Python"
    BY <1>1, <1>2, HandlesFacts DEF LockOK
  <1> QED
    BY <1>1, <1>2, <1>3 DEF Step, Top

\* The innermost frame goes on with other code of its function.
LEMMA ContinueFacts ==
    ASSUME NEW t, NEW h, NEW n, NEW s, NEW y, NEW k, LockOK(t, h, n, s, y, k), ~y,
           Nested(s), s # <<>>, Busy(Last(s)), NEW c, InCode(Last(s).fn, c)
    PROVE  Continue(s, c) \in Seq(Frames) /\ ThreadOK(t, h, n, Continue(s, c), y, k)
  <1> DEFINE f == [Last(s) EXCEPT !.code = c]
             r == Append(Front(s), f)
  <1>2. c \in Seq(Steps)
    BY DEF InCode, Stretch
  <1>3. Last(s) \in Frames /\ Last(s) = s[Len(s)] /\ Len(s) \in Nat /\ Len(s) > 0
    BY HandlesFacts
  <1>4. f \in Frames /\ f.fn = Last(s).fn /\ f.gstate = Last(s).gstate /\ f.code = c
    BY <1>2, <1>3, FrameFacts
  <1> HIDE DEF f
  <1>5. Busy(f) /\ Ready(f)
    BY <1>4 DEF Busy, Ready
  <1>6. f.gstate = "UNLOCKED" => Len(s) = 1
    <2>1. Len(s) = 1 \/ Len(s) \in 2..Len(s)
      <3> DEFINE m == Len(s)
      <3>1. m \in Nat /\ m > 0
        BY <1>3
      <3> HIDE DEF m
      <3>2. m = 1 \/ m \in 2..m
        BY <3>1
      <3> QED
        BY <3>2 DEF m
    <2> QED
      BY <1>3, <1>4, <2>1 DEF Nested
  <1>7. /\ Nested(r) /\ r # <<>> /\ Len(r) = Len(s) /\ r[Len(s)] = f
        /\ \A i \in 1..(Len(s) - 1) : r[i] = s[i]
    BY <1>4, <1>5, <1>6, NestedTop
  <1> HIDE DEF r
  <1>8. r[1].gstate = s[1].gstate
    <2>1. Len(s) = 1 \/ 1 \in 1..(Len(s) - 1)
      <3> DEFINE m == Len(s)
      <3>1. m \in Nat /\ m > 0
        BY <1>3
      <3> HIDE DEF m
      <3>2. m = 1 \/ 1 \in 1..(m - 1)
        BY <3>1
      <3> QED
        BY <3>2 DEF m
    <2> QED
      BY <1>3, <1>4, <1>7, <2>1
  <1>9. Handles(r) \in Nat /\ Handles(s) \in Nat /\ Handles(r) <= Handles(s)
    <2>1. Last(r) = r[Len(r)] /\ Handles(r) \in Nat
      BY <1>7, HandlesFacts
    <2>2. Handles(s) \in Nat /\ Handles(s) = Len(s)
      BY HandlesFacts DEF Busy
    <2>3. Handles(r) <= Len(r)
      BY <1>7, HandlesFacts
    <2> QED
      BY <1>7, <2>1, <2>2, <2>3
  <1>10. LockOK(t, h, n, r, y, k)
    BY <1>7, <1>8, <1>9, LockSame
  <1>11. r = Continue(s, c) /\ r \in Seq(Frames)
    BY <1>7 DEF r, f, Continue, Nested
  <1> QED
    BY <1>7, <1>10, <1>11 DEF ThreadOK

\* A C API call ends, the collector had nothing to do, or there is no error to report.
LEMMA ProceedStep ==
    ASSUME LockInv, NEW t \in LuaThreads, NEW op \in Mid, At(t, op), ~yielding[t],
           UNCHANGED <<holder, counter, yielding, kept>>,
           \/ Proceed(t)
           \/ op = "Python" /\ Step(t).or # <<>> /\ Goto(t, Step(t).or)
    PROVE  LockInv'
  <1> DEFINE s == stack[t]
             f == Last(s)
  <1>1. s # <<>> /\ Nested(s) /\ Step(t) = Head(f.code) /\ Head(f.code).op = op
    BY AtFacts
  <1>1a. op # "Check"
    BY DEF Mid
  <1>2. Busy(f) /\ InCode(f.fn, Tail(f.code)) /\ f.fn \in Names /\ StepOf(f.fn, Head(f.code))
    BY <1>1, <1>1a, TopFacts
  <1>3. CASE Proceed(t)
    <2>1. stack' = [stack EXCEPT ![t] = Continue(s, Tail(f.code))]
      BY <1>1, <1>3 DEF Proceed, Advance
    <2>2. /\ Continue(s, Tail(f.code)) \in Seq(Frames)
          /\ ThreadOK(t, holder, counter[t], Continue(s, Tail(f.code)), yielding[t], kept[t])
      BY <1>1, <1>2, ContinueFacts, ThreadFacts
    <2> QED
      BY <2>1, <2>2, StackSteps
  <1>4. CASE op = "Python" /\ Step(t).or # <<>> /\ Goto(t, Step(t).or)
    <2> DEFINE c == Step(t).or
    <2>1. stack' = [stack EXCEPT ![t] = Continue(s, c)]
      BY <1>4 DEF Goto
    <2>2. InCode(f.fn, c)
      BY <1>1, <1>2, <1>4, StepFields
    <2>3. /\ Continue(s, c) \in Seq(Frames)
          /\ ThreadOK(t, holder, counter[t], Continue(s, c), yielding[t], kept[t])
      BY <1>1, <1>2, <2>2, ContinueFacts, ThreadFacts
    <2> QED
      BY <2>1, <2>3, StackSteps
  <1> QED
    BY <1>3, <1>4

\* CallObject goes on after a type test, with no handle as before.
LEMMA TestStep ==
    ASSUME LockInv, NEW t \in LuaThreads, TestType(t)
    PROVE  LockInv'
  <1> DEFINE s == stack[t]
             c == Tail(Last(s).code)
             f == [Last(s) EXCEPT !.code = c]
             r == Append(Front(s), f)
  <1>1. At(t, "Check") /\ Proceed(t) /\ UNCHANGED <<holder, counter, yielding, kept>>
    BY DEF TestType
  <1>2. s # <<>> /\ Nested(s) /\ Head(Last(s).code).op = "Check" /\ ~yielding[t]
    BY <1>1, AtFacts
  <1>3. Testing(Last(s)) /\ c \in Seq(Steps) /\ Last(s) \in Frames
    BY <1>2, TopFacts
  <1>4. f \in Frames /\ f.fn = Last(s).fn /\ f.gstate = Last(s).gstate /\ f.code = c
    BY <1>3, FrameFacts
  <1>5. stack' = [stack EXCEPT ![t] = r]
    BY <1>1, <1>2 DEF Proceed, Advance, Continue
  <1> HIDE DEF f
  <1>6. f.gstate = "none" /\ Ready(f)
    <2>1. f.gstate = "none" /\ f.fn = "callObject"
      BY <1>3, <1>4 DEF Testing
    <2>2. OutCode("callObject", c) \/ (c # <<>> /\ Head(c).op = "Check" /\ OutCode("callObject", Tail(c)))
      BY <1>3 DEF Testing, TestCode
    <2> HIDE DEF c
    <2>3. OutCode("callObject", c) \/ TestCode(c)
      BY <1>3, <2>2 DEF TestCode
    <2> QED
      BY <1>4, <2>1, <2>3 DEF Ready, Idle, Testing
  <1>7. Nested(r) /\ r # <<>> /\ Len(r) = Len(s) /\ r[Len(s)] = f /\ \A i \in 1..(Len(s) - 1) : r[i] = s[i]
    BY <1>2, <1>4, <1>6, NestedTop
  <1> HIDE DEF r
  <1>8. Last(s) = s[Len(s)] /\ Len(s) \in Nat /\ Len(s) > 0 /\ s[Len(s)].gstate = "none"
    BY <1>2, <1>3, HandlesFacts DEF Testing
  <1>9. Handles(s) = Len(s) - 1 /\ Handles(r) = Len(s) - 1 /\ Len(s) - 1 \in Nat
    <2>1. Handles(s) = Len(s) - 1 /\ Handles(s) \in Nat
      BY <1>2, <1>8, HandlesFacts
    <2>2. Handles(r) = Len(s) - 1
      BY <1>6, <1>7 DEF Handles
    <2> QED
      BY <2>1, <2>2
  <1>10. r[1].gstate = s[1].gstate
    <2> DEFINE m == Len(s)
    <2>1. m = 1 \/ 1 \in 1..(m - 1)
      <3>1. m \in Nat /\ m > 0
        BY <1>8
      <3> HIDE DEF m
      <3> QED
        BY <3>1
    <2> QED
      BY <1>6, <1>7, <1>8, <2>1
  <1>11. LockOK(t, holder, counter[t], r, yielding[t], kept[t])
    <2>1. LockOK(t, holder, counter[t], s, yielding[t], kept[t])
      BY ThreadFacts
    <2>2. Handles(r) <= Handles(s) /\ Handles(r) \in Nat /\ Handles(s) \in Nat
      BY <1>9
    <2> QED
      BY <1>2, <1>7, <1>10, <2>1, <2>2, LockSame
  <1>12. r \in Seq(Frames) /\ ThreadOK(t, holder, counter[t], r, yielding[t], kept[t])
    BY <1>7, <1>11 DEF ThreadOK, Nested
  <1> QED
    BY <1>1, <1>5, <1>12, StackSteps

\* The innermost frame calls a function.
LEMMA EnterStep ==
    ASSUME LockInv, NEW t \in LuaThreads, NEW op \in CallOps, At(t, op),
           UNCHANGED <<holder, counter, yielding, kept>>,
           NEW fn, fn = Callee(op), NEW code, OutCode(fn, code), Enter(t, fn, code)
    PROVE  LockInv'
  <1> DEFINE s == stack[t]
             g == Frame(fn, code)
             r == Append(s, g)
  <1>1. /\ s # <<>> /\ Nested(s) /\ Head(Last(s).code).op = op /\ ~yielding[t]
        /\ LockOK(t, holder, counter[t], s, yielding[t], kept[t])
    BY AtFacts, ThreadFacts DEF CallOps
  <1>2. Waiting(Last(s))
    BY <1>1, TopFacts DEF Waiting, CallOps, Mid
  <1>3. fn \in Names
    BY DEF Callee, Names, Registered, Unary, Nullary
  <1>4. g \in Frames /\ g.fn = fn /\ Idle(g) /\ g.gstate = "none"
    BY <1>3 DEF Frame, Frames, Idle, OutCode
  <1> HIDE DEF g
  <1>5. Nested(r)
    BY <1>1, <1>2, <1>4, NestedPush
  <1>6. s \in Seq(Frames) /\ Len(s) \in Nat /\ Len(s) > 0
    BY <1>1, HandlesFacts, ThreadFacts
  <1>7. r \in Seq(Frames) /\ r # <<>> /\ Len(r) = Len(s) + 1 /\ r[Len(s) + 1] = g /\ r[1] = s[1]
    BY <1>4, <1>6, AppendFacts
  <1>8. stack' = [stack EXCEPT ![t] = r]
    BY DEF Enter, g
  <1> HIDE DEF r
  <1>9. Handles(r) \in Nat /\ Handles(s) \in Nat /\ Handles(r) <= Handles(s)
    <2>1. Handles(s) = Len(s) /\ Handles(s) \in Nat
      BY <1>1, <1>2, HandlesFacts DEF Waiting, Busy
    <2>2. Handles(r) = Len(r) - 1
      BY <1>4, <1>7 DEF Handles
    <2> QED
      BY <1>6, <1>7, <2>1, <2>2
  <1>10. LockOK(t, holder, counter[t], r, yielding[t], kept[t])
    BY <1>1, <1>7, <1>9, LockSame
  <1>11. ThreadOK(t, holder, counter[t], r, yielding[t], kept[t])
    BY <1>5, <1>10 DEF ThreadOK
  <1> QED
    BY <1>7, <1>8, <1>11, StackSteps

\* The innermost frame gets or gives back a handle.
LEMMA HandleStep ==
    ASSUME NEW s, Nested(s), s # <<>>, NEW g \in {"none", "LOCKED", "UNLOCKED"}, g = "UNLOCKED" => Len(s) = 1,
           g = "none" => Head(Last(s).code).op = "Release",
           g # "none" => Head(Last(s).code).op = "Ensure"
    PROVE  \E r \in Seq(Frames) :
              /\ r = WithHandle(s, g)
              /\ Nested(r) /\ r # <<>> /\ r[1].gstate = IF Len(s) = 1 THEN g ELSE s[1].gstate
              /\ Handles(r) = IF g = "none" THEN Len(s) - 1 ELSE Len(s)
  <1> DEFINE f == [Last(s) EXCEPT !.gstate = g, !.code = Tail(Last(s).code)]
             r == Append(Front(s), f)
             n == Len(s)
  <1>1. Last(s) \in Frames /\ Last(s) = s[n] /\ n \in Nat /\ n > 0
    BY HandlesFacts
  <1>2. /\ Tail(Last(s).code) \in Seq(Steps)
        /\ g # "none" => InCode(Last(s).fn, Tail(Last(s).code))
        /\ g = "none" => OutCode(Last(s).fn, Tail(Last(s).code))
    BY TopFacts
  <1>3. f \in Frames /\ f.fn = Last(s).fn /\ f.gstate = g /\ f.code = Tail(Last(s).code)
    BY <1>1, <1>2, HandleFacts
  <1> HIDE DEF f
  <1>4. Ready(f)
    BY <1>2, <1>3 DEF Ready, Busy, Idle
  <1>5. Nested(r) /\ r # <<>> /\ Len(r) = n /\ r[n] = f /\ \A i \in 1..(n - 1) : r[i] = s[i]
    BY <1>3, <1>4, NestedTop
  <1> HIDE DEF r, n
  <1>6. n = 1 \/ 1 \in 1..(n - 1)
    BY <1>1
  <1>7. n # 1 => r[1] = s[1]
    BY <1>5, <1>6
  <1>8. r[1].gstate = IF n = 1 THEN g ELSE s[1].gstate
    BY <1>3, <1>5, <1>7
  <1>9. Handles(r) = IF g = "none" THEN n - 1 ELSE n
    BY <1>3, <1>5 DEF Handles
  <1>10. r \in Seq(Frames)
    BY <1>5 DEF Nested
  <1> QED
    BY <1>5, <1>8, <1>9, <1>10 DEF r, f, n, WithHandle

\* PyGILState_Ensure with the lock: the thread took it before, so this handle is LOCKED.
LEMMA EnsureLockedStep ==
    ASSUME LockInv, NEW t \in LuaThreads, EnsureLocked(t)
    PROVE  LockInv'
  <1> DEFINE s == stack[t]
             k == kept[t]
             n == counter[t]
             m == Len(s)
  <1>1. At(t, "Ensure") /\ holder = t /\ UNCHANGED <<holder, yielding, kept>>
    BY DEF EnsureLocked
  <1>2. s # <<>> /\ Nested(s) /\ Head(Last(s).code).op = "Ensure" /\ ~yielding[t]
    BY <1>1, AtFacts
  <1>3. LockOK(t, t, n, s, yielding[t], k) /\ n \in Nat /\ k \in SUBSET KeepingFunctions
    BY <1>1, ThreadFacts
  <1>4. /\ Handles(s) = m - 1 /\ m \in Nat /\ m > 0 /\ Last(s) = s[m]
        /\ Last(s).gstate = "none"
    BY <1>2, HandlesFacts, TopFacts
  <1>5. PICK r \in Seq(Frames) :
              /\ r = WithHandle(s, "LOCKED")
              /\ Nested(r) /\ r # <<>> /\ r[1].gstate = IF m = 1 THEN "LOCKED" ELSE s[1].gstate
              /\ Handles(r) = m
    BY <1>2, HandleStep
  <1>6. counter' = [counter EXCEPT ![t] = n + 1] /\ stack' = [stack EXCEPT ![t] = r]
    <2>1. counter' = [counter EXCEPT ![t] = n + 1] /\ SetHandle(t, "LOCKED")
      BY DEF EnsureLocked
    <2>2. stack' = [stack EXCEPT ![t] = r]
      BY <1>5, <2>1 DEF SetHandle
    <2> QED
      BY <2>1, <2>2
  <1>7. LockOK(t, t, n + 1, r, FALSE, k)
    <2> HIDE DEF s, k, n, m
    <2>1. m = 1 => k # {}
      BY <1>2, <1>3, <1>4 DEF LockOK, Took
    <2>2. CASE m = 1
      <3>1. ~Took(r) /\ k # {} /\ r[1].gstate = "LOCKED"
        BY <1>5, <2>1, <2>2 DEF Took
      <3>2. n + 1 \in Nat /\ n + 1 >= Handles(r) + 1
        BY <1>3, <1>4, <1>5, <2>2, <3>1 DEF LockOK
      <3> QED
        BY <1>3, <3>1, <3>2 DEF LockOK
    <2>3. CASE m # 1
      <3>1. (Took(r) <=> Took(s)) /\ r[1].gstate = s[1].gstate
        BY <1>2, <1>5, <2>3 DEF Took
      <3>2. n + 1 \in Nat /\ n + 1 >= Handles(r) + (IF k = {} THEN 0 ELSE 1)
        BY <1>3, <1>4, <1>5 DEF LockOK
      <3> QED
        BY <1>2, <1>3, <3>1, <3>2 DEF LockOK
    <2> QED
      BY <2>2, <2>3
  <1>8. ThreadOK(t, holder', n + 1, r, FALSE, k)
    BY <1>1, <1>5, <1>7 DEF ThreadOK
  <1>8a. LockMoves(t)
    BY <1>1 DEF LockMoves
  <1>8b. n + 1 \in Nat
    BY <1>3
  <1>9. yielding' = [yielding EXCEPT ![t] = FALSE] /\ kept' = [kept EXCEPT ![t] = k]
    BY <1>1, <1>2, ThreadFacts
  <1> HIDE DEF s, k, n, m
  <1> QED
    BY <1>3, <1>5, <1>6, <1>8, <1>8a, <1>8b, <1>9, LocalForm

\* PyGILState_Ensure that takes the lock: only the outermost function does that.
LEMMA EnsureUnlockedStep ==
    ASSUME LockInv, NEW t \in LuaThreads, EnsureUnlocked(t)
    PROVE  LockInv'
  <1> DEFINE s == stack[t]
             n == counter[t]
             m == Len(s)
  <1>1. At(t, "Ensure") /\ holder = Nobody /\ holder' = t /\ UNCHANGED <<yielding, kept>> /\ Nobody # t
    BY BridgeAssumption DEF EnsureUnlocked
  <1>2. s # <<>> /\ Nested(s) /\ Head(Last(s).code).op = "Ensure" /\ ~yielding[t]
    BY <1>1, AtFacts
  <1>3. LockOK(t, Nobody, n, s, yielding[t], kept[t]) /\ n \in Nat
    BY <1>1, ThreadFacts
  <1>4. kept[t] = {} /\ s[1].gstate \notin {"LOCKED", "UNLOCKED"}
    BY <1>1, <1>2, <1>3 DEF LockOK, Took
  <1>5. m \in Nat /\ m > 0 /\ (m > 1 => s[1].gstate # "none") /\ s \in Seq(Frames)
    BY <1>2, HandlesFacts DEF Nested
  <1>6. m = 1
    <2>1. s[1].gstate \in {"none", "LOCKED", "UNLOCKED"}
      <3> HIDE DEF s
      <3>1. s[1] \in Frames
        BY <1>5 DEF m
      <3> QED
        BY <3>1 DEF Frames
    <2> HIDE DEF s, m
    <2> QED
      BY <1>4, <1>5, <2>1
  <1>7. PICK r \in Seq(Frames) :
              /\ r = WithHandle(s, "UNLOCKED")
              /\ Nested(r) /\ r # <<>> /\ r[1].gstate = "UNLOCKED" /\ Handles(r) = 1
    BY <1>2, <1>6, HandleStep
  <1>8. counter' = [counter EXCEPT ![t] = n + 1] /\ stack' = [stack EXCEPT ![t] = r]
    <2>1. counter' = [counter EXCEPT ![t] = n + 1] /\ SetHandle(t, "UNLOCKED")
      BY DEF EnsureUnlocked
    <2>2. stack' = [stack EXCEPT ![t] = r]
      BY <1>7, <2>1 DEF SetHandle
    <2> QED
      BY <2>1, <2>2
  <1> HIDE DEF s, n, m
  <1>9. LockOK(t, t, n + 1, r, FALSE, {})
    <2>1. n + 1 \in Nat /\ n + 1 >= 1 + 0
      BY <1>3
    <2> QED
      BY <1>7, <2>1 DEF LockOK, Took
  <1>10. ThreadOK(t, holder', n + 1, r, FALSE, {})
    BY <1>1, <1>7, <1>9 DEF ThreadOK
  <1>10a. LockMoves(t)
    BY <1>1 DEF LockMoves
  <1>10b. n + 1 \in Nat
    BY <1>3
  <1>11. yielding' = [yielding EXCEPT ![t] = FALSE] /\ kept' = [kept EXCEPT ![t] = {}]
    BY <1>1, <1>2, <1>4, ThreadFacts
  <1>12. {} \in SUBSET KeepingFunctions
    OBVIOUS
  <1> QED
    BY <1>7, <1>8, <1>10, <1>10a, <1>10b, <1>11, <1>12, LocalForm

\* PyGILState_Release: the last handle is the one that took the lock.
LEMMA ReleaseStep ==
    ASSUME LockInv, NEW t \in LuaThreads, PyGILState_Release(t)
    PROVE  LockInv'
  <1> DEFINE s == stack[t]
             k == kept[t]
             n == counter[t]
             m == Len(s)
             g == Last(s).gstate
  <1>1. At(t, "Release") /\ holder = t /\ UNCHANGED <<yielding, kept>> /\ Nobody # t
    BY BridgeAssumption DEF PyGILState_Release
  <1>2. s # <<>> /\ Nested(s) /\ Head(Last(s).code).op = "Release" /\ ~yielding[t] /\ Top(t) = Last(s)
    BY <1>1, AtFacts
  <1>3. LockOK(t, t, n, s, yielding[t], k) /\ n \in Nat /\ k \in SUBSET KeepingFunctions
    BY <1>1, ThreadFacts
  <1>4. g # "none"
    BY <1>2, TopFacts
  <1>5. Handles(s) = m /\ m \in Nat /\ m > 0 /\ Last(s) = s[m] /\ g \in {"LOCKED", "UNLOCKED"}
    BY <1>2, <1>4, HandlesFacts DEF Frames
  <1>6. PICK r \in Seq(Frames) :
              /\ r = WithHandle(s, "none")
              /\ Nested(r) /\ r # <<>> /\ r[1].gstate = IF m = 1 THEN "none" ELSE s[1].gstate
              /\ Handles(r) = m - 1
    BY <1>2, HandleStep
  <1>7. /\ stack' = [stack EXCEPT ![t] = r] /\ counter' = [counter EXCEPT ![t] = n - 1]
        /\ counter'[t] = n - 1
        /\ holder' = IF n - 1 = 0 \/ g = "UNLOCKED" THEN Nobody ELSE t
    <2>1. stack' = [stack EXCEPT ![t] = r] /\ counter' = [counter EXCEPT ![t] = n - 1]
      <3>1. counter' = [counter EXCEPT ![t] = n - 1] /\ SetHandle(t, "none")
        BY DEF PyGILState_Release
      <3>2. stack' = [stack EXCEPT ![t] = r]
        BY <1>6, <3>1 DEF SetHandle
      <3> QED
        BY <3>1, <3>2
    <2>2. counter'[t] = n - 1
      BY <2>1 DEF LockInv
    <2> QED
      BY <1>2, <2>1, <2>2 DEF PyGILState_Release
  <1>8. g = "UNLOCKED" => m = 1
    <2>1. m = 1 \/ m \in 2..m
      <3> HIDE DEF m
      <3> QED
        BY <1>5
    <2> QED
      BY <1>2, <1>5, <2>1 DEF Nested
  <1>9. yielding' = [yielding EXCEPT ![t] = FALSE] /\ kept' = [kept EXCEPT ![t] = k]
    BY <1>1, <1>2, ThreadFacts
  <1>10. g = s[m].gstate
    BY <1>5
  <1> HIDE DEF s, k, n, m, g
  <1>11. LockOK(t, holder', n - 1, r, FALSE, k) /\ n - 1 \in Nat
    <2>1. CASE g = "UNLOCKED"
      <3>1. Took(s) /\ ~Took(r) /\ r[1].gstate = "none" /\ k = {}
        BY <1>2, <1>3, <1>6, <1>8, <1>10, <2>1 DEF Took, LockOK
      <3>2. n - 1 \in Nat /\ n - 1 >= Handles(r) + 0 /\ holder' = Nobody
        BY <1>3, <1>5, <1>6, <1>7, <2>1, <3>1 DEF LockOK
      <3> QED
        BY <1>1, <1>3, <3>1, <3>2 DEF LockOK
    <2>2. CASE g = "LOCKED"
      <3>1. m = 1 => k # {} /\ ~Took(r) /\ r[1].gstate = "none"
        BY <1>2, <1>3, <1>6, <1>10, <2>2 DEF LockOK, Took
      <3>2. m # 1 => (Took(r) <=> Took(s)) /\ r[1].gstate = s[1].gstate
        BY <1>2, <1>6 DEF Took
      <3>3. n - 1 \in Nat /\ n - 1 # 0 /\ n - 1 >= Handles(r) + (IF k = {} THEN 0 ELSE 1)
        <4>1. n >= m + (IF k = {} THEN 0 ELSE 1)
          BY <1>3, <1>5 DEF LockOK
        <4> QED
          BY <1>3, <1>5, <1>6, <3>1, <4>1
      <3>4. holder' = t
        BY <1>7, <2>2, <3>3
      <3> QED
        BY <1>2, <1>3, <3>1, <3>2, <3>3, <3>4 DEF LockOK
    <2> QED
      BY <1>5, <2>1, <2>2
  <1>12. ThreadOK(t, holder', n - 1, r, FALSE, k) /\ LockMoves(t)
    BY <1>1, <1>6, <1>7, <1>11 DEF ThreadOK, LockMoves
  <1> QED
    BY <1>3, <1>6, <1>7, <1>9, <1>11, <1>12, LocalForm

\* A C API call returns.
LEMMA CompleteStep ==
    ASSUME LockInv, NEW t \in LuaThreads, Complete(t)
    PROVE  LockInv'
  <1>1. At(t, "Python") /\ holder = t /\ UNCHANGED <<holder, counter, yielding, kept>>
    BY DEF Complete
  <1>2. ~yielding[t]
    BY <1>1, AtFacts
  <1>3. Proceed(t) \/ (Step(t).or # <<>> /\ Goto(t, Step(t).or))
    BY DEF Complete
  <1>4. "Python" \in Mid
    BY DEF Mid
  <1> QED
    BY <1>1, <1>2, <1>3, <1>4, ProceedStep

\* The interpreter lends out the lock inside a Python call ...
LEMMA YieldStep ==
    ASSUME LockInv, NEW t \in LuaThreads, Yield(t)
    PROVE  LockInv'
  <1> DEFINE s == stack[t]
  <1>1. At(t, "Python") /\ holder = t /\ holder' = Nobody /\ UNCHANGED <<counter, stack, kept>> /\ Nobody # t
    BY BridgeAssumption DEF Yield
  <1>2. s # <<>> /\ Nested(s) /\ Head(Last(s).code).op = "Python" /\ Last(s) = s[Len(s)]
    BY <1>1, AtFacts DEF Last
  <1>3. LockOK(t, holder, counter[t], s, yielding[t], kept[t])
    BY ThreadFacts
  <1>4. LockOK(t, holder', counter[t], s, TRUE, kept[t])
    BY <1>1, <1>2, <1>3 DEF LockOK
  <1>5. yielding' = [yielding EXCEPT ![t] = TRUE]
    BY DEF Yield
  <1>6. /\ counter \in [LuaThreads -> Nat] /\ yielding \in [LuaThreads -> BOOLEAN]
        /\ stack \in [LuaThreads -> Seq(Frames)] /\ kept \in [LuaThreads -> SUBSET KeepingFunctions]
    BY DEF LockInv
  <1>7. yielding'[t] = TRUE /\ \A u \in LuaThreads \ {t} : yielding'[u] = yielding[u]
    BY <1>5, <1>6
  <1>8. yielding' \in [LuaThreads -> BOOLEAN]
    BY <1>5, <1>6
  <1>9. Local(t)
    BY <1>1, <1>6, <1>7, <1>8 DEF Local, LockMoves
  <1>10. ThreadOK(t, holder', counter'[t], stack'[t], yielding'[t], kept'[t])
    BY <1>1, <1>2, <1>4, <1>7 DEF ThreadOK
  <1> QED
    BY <1>9, <1>10, LocalSteps

\* ... and takes it back.
LEMMA ResumeStep ==
    ASSUME LockInv, NEW t \in LuaThreads, Resume(t)
    PROVE  LockInv'
  <1> DEFINE s == stack[t]
  <1>1. yielding[t] /\ holder = Nobody /\ holder' = t /\ UNCHANGED <<counter, stack, kept>>
    BY DEF Resume
  <1>2. Nested(s) /\ LockOK(t, holder, counter[t], s, yielding[t], kept[t])
    BY ThreadFacts
  <1>3. LockOK(t, holder', counter[t], s, FALSE, kept[t])
    BY <1>1, <1>2 DEF LockOK
  <1>4. yielding' = [yielding EXCEPT ![t] = FALSE]
    BY DEF Resume
  <1>5. /\ counter \in [LuaThreads -> Nat] /\ yielding \in [LuaThreads -> BOOLEAN]
        /\ stack \in [LuaThreads -> Seq(Frames)] /\ kept \in [LuaThreads -> SUBSET KeepingFunctions]
    BY DEF LockInv
  <1>6. yielding'[t] = FALSE /\ \A u \in LuaThreads \ {t} : yielding'[u] = yielding[u]
    BY <1>4, <1>5
  <1>7. yielding' \in [LuaThreads -> BOOLEAN]
    BY <1>4, <1>5
  <1>8. Local(t)
    BY <1>1, <1>5, <1>6, <1>7 DEF Local, LockMoves
  <1>9. ThreadOK(t, holder', counter'[t], stack'[t], yielding'[t], kept'[t])
    BY <1>1, <1>2, <1>3, <1>6 DEF ThreadOK
  <1> QED
    BY <1>8, <1>9, LocalSteps

\* Calls of LuaToPython and toPyAuto ...
LEMMA ConvertAndNest ==
    ASSUME LockInv, NEW t \in LuaThreads, Convert(t) \/ Nest(t)
    PROVE  LockInv'
  <1>1. ASSUME NEW op \in {"Convert", "Call", "PCall"}, At(t, op)
        PROVE  Step(t).arg \in Values /\ op \in CallOps
    <2>1. /\ stack[t] # <<>> /\ Nested(stack[t]) /\ Step(t) = Head(Last(stack[t]).code)
          /\ Head(Last(stack[t]).code).op = op
      BY <1>1, AtFacts
    <2>2. Last(stack[t]).fn \in Names /\ StepOf(Last(stack[t]).fn, Head(Last(stack[t]).code))
      BY <2>1, TopFacts
    <2> QED
      BY <2>1, <2>2, StepFields DEF CallOps
  <1>2. CASE Convert(t)
    <2> DEFINE code == LuaToPython(Step(t).arg)
    <2>1. At(t, "Convert") /\ Enter(t, "LuaToPython", code) /\ UNCHANGED <<holder, counter, yielding, kept>>
      BY <1>2 DEF Convert
    <2>2. "Convert" \in CallOps /\ "LuaToPython" = Callee("Convert") /\ OutCode("LuaToPython", code)
      BY <1>1, <2>1, ConversionCode DEF Callee
    <2> HIDE DEF code
    <2> QED
      BY <2>1, <2>2, EnterStep
  <1>3. CASE Nest(t)
    <2> DEFINE code == toPyAuto(Step(t).arg)
    <2>1. PICK op \in {"Call", "PCall"} : At(t, op)
      BY <1>3 DEF Nest
    <2>2. Enter(t, "toPyAuto", code) /\ UNCHANGED <<holder, counter, yielding, kept>>
      BY <1>3 DEF Nest
    <2>3. op \in CallOps /\ "toPyAuto" = Callee(op) /\ OutCode("toPyAuto", code)
      BY <1>1, <2>1, AutoCode DEF Callee
    <2> HIDE DEF code
    <2> QED
      BY <2>1, <2>2, <2>3, EnterStep
  <1> QED
    BY <1>2, <1>3

\* ... of PrintPythonError, and of the finalizer.
LEMMA ReportAndAllocate ==
    ASSUME LockInv, NEW t \in LuaThreads, ReportError(t) \/ Allocate(t)
    PROVE  LockInv'
  <1>1. {"Report", "Wrap"} \subseteq CallOps /\ {"Report", "Wrap"} \subseteq Mid
    BY DEF CallOps, Mid
  <1>2. OutCode("__gc", py_object_gc) /\ OutCode("PrintPythonError", PrintPythonError)
    BY SmallCode
  <1>3. "PrintPythonError" = Callee("Report") /\ "__gc" = Callee("Wrap")
    BY DEF Callee
  <1>4. UNCHANGED <<holder, counter, yielding, kept>>
    BY DEF ReportError, Allocate
  <1>5. CASE ReportError(t)
    <2>1. At(t, "Report") /\ (Proceed(t) \/ Enter(t, "PrintPythonError", PrintPythonError))
      BY <1>5 DEF ReportError
    <2>2. ~yielding[t]
      BY <2>1, AtFacts
    <2>3. CASE Proceed(t)
      BY <1>1, <1>4, <2>1, <2>2, <2>3, ProceedStep
    <2>4. CASE Enter(t, "PrintPythonError", PrintPythonError)
      BY <1>1, <1>2, <1>3, <1>4, <2>1, <2>4, EnterStep
    <2> QED
      BY <2>1, <2>3, <2>4
  <1>6. CASE Allocate(t)
    <2>1. At(t, "Wrap") /\ (Proceed(t) \/ Enter(t, "__gc", py_object_gc))
      BY <1>6 DEF Allocate
    <2>2. ~yielding[t]
      BY <2>1, AtFacts
    <2>3. CASE Proceed(t)
      BY <1>1, <1>4, <2>1, <2>2, <2>3, ProceedStep
    <2>4. CASE Enter(t, "__gc", py_object_gc)
      BY <1>1, <1>2, <1>3, <1>4, <2>1, <2>4, EnterStep
    <2> QED
      BY <2>1, <2>3, <2>4
  <1> QED
    BY <1>5, <1>6

\* The game's threads take and give back the lock.
LEMMA GameSteps ==
    ASSUME LockInv, GameTakes \/ GameGives
    PROVE  LockInv'
  <1>1. {holder, holder'} \subseteq {Game, Nobody} /\ UNCHANGED <<counter, stack, yielding, kept>>
    BY DEF GameTakes, GameGives
  <1>2. ASSUME NEW t \in LuaThreads
        PROVE  ThreadOK(t, holder', counter[t], stack[t], yielding[t], kept[t])
    <2>1. holder # t /\ holder' # t
      BY <1>1, BridgeAssumption
    <2>2. ThreadOK(t, holder, counter[t], stack[t], yielding[t], kept[t])
      BY DEF LockInv
    <2> QED
      BY <2>1, <2>2 DEF ThreadOK, LockOK
  <1> QED
    BY <1>1, <1>2 DEF LockInv

\* A bounded, nonempty set of numbers has a largest element.
LEMMA MaxExists ==
    ASSUME NEW n \in Nat, NEW S \in SUBSET (1..n), S # {}
    PROVE  \E i \in S : \A j \in S : j <= i
  <1> DEFINE HasMax(U) == \E i \in U : \A j \in U : j <= i
             T == {m \in Nat : \A U \in SUBSET (1..m) : U # {} => HasMax(U)}
  <1>1. 0 \in T
    <2>1. \A U \in SUBSET (1..0) : U = {}
      OBVIOUS
    <2> QED
      BY <2>1
  <1>2. ASSUME NEW m \in T PROVE m + 1 \in T
    <2>1. ASSUME NEW U \in SUBSET (1..(m + 1)), U # {} PROVE HasMax(U)
      <3>1. CASE m + 1 \in U
        BY <3>1
      <3>2. CASE m + 1 \notin U
        <4>1. U \in SUBSET (1..m)
          BY <3>2
        <4> QED
          BY <2>1, <4>1
      <3> QED
        BY <3>1, <3>2
    <2> HIDE DEF HasMax
    <2> QED
      BY <2>1
  <1> HIDE DEF HasMax
  <1>3. T \in SUBSET Nat
    OBVIOUS
  <1> HIDE DEF T
  <1>4. T = Nat
    BY <1>1, <1>2, <1>3, SetInduction
  <1>5. HasMax(S)
    BY <1>4 DEF T
  <1> QED
    BY <1>5 DEF HasMax

\* The frames of t are now r, and K are the functions whose handle was left behind.
Ended(t, r, K) ==
    /\ stack' = [stack EXCEPT ![t] = r] /\ kept' = [kept EXCEPT ![t] = kept[t] \cup K]
    /\ UNCHANGED <<holder, counter, yielding>>

\* Frames end, perhaps one that leaves its handle behind.
LEMMA EndSteps ==
    ASSUME LockInv, NEW t \in LuaThreads, NEW r \in Seq(Frames), NEW K, Ended(t, r, K),
           ThreadOK(t, holder, counter[t], r, yielding[t], kept[t] \cup K)
    PROVE  LockInv'
  <1>1. /\ counter \in [LuaThreads -> Nat] /\ yielding \in [LuaThreads -> BOOLEAN]
        /\ stack \in [LuaThreads -> Seq(Frames)] /\ kept \in [LuaThreads -> SUBSET KeepingFunctions]
    BY DEF LockInv
  <1>2. kept[t] \cup K \in SUBSET KeepingFunctions
    BY DEF ThreadOK, LockOK
  <1>3. /\ stack'[t] = r /\ kept'[t] = kept[t] \cup K
        /\ holder' = holder /\ counter'[t] = counter[t] /\ yielding'[t] = yielding[t]
    BY <1>1 DEF Ended
  <1>4. Local(t)
    BY <1>1, <1>2 DEF Local, LockMoves, Ended
  <1>5. ThreadOK(t, holder', counter'[t], stack'[t], yielding'[t], kept'[t])
    BY <1>3
  <1> QED
    BY <1>4, <1>5, LocalSteps

\* The j-th frame goes on and those above it are gone.
LEMMA UnwindFacts ==
    ASSUME NEW t, NEW h, NEW n, NEW s, NEW y, NEW k, LockOK(t, h, n, s, y, k), ~y, Nested(s), s # <<>>,
           NEW j \in 1..(Len(s) - 1), NEW c, InCode(s[j].fn, c)
    PROVE  LET r == Continue(SubSeq(s, 1, j), c) IN r \in Seq(Frames) /\ ThreadOK(t, h, n, r, y, k)
  <1> DEFINE p == SubSeq(s, 1, j)
             m == Len(s)
  <1>1. m \in Nat /\ m > 0 /\ s \in Seq(Frames) /\ m - 1 <= Handles(s) /\ Handles(s) \in Nat
    BY HandlesFacts DEF Nested
  <1>2. j \in 0..m /\ j \in Nat /\ j > 0 /\ j <= m - 1 /\ 1 \in 1..j /\ j \in 1..j
    <2>1. j \in 1..(m - 1)
      OBVIOUS
    <2> HIDE DEF m
    <2> QED
      BY <1>1, <2>1
  <1>3. p \in Seq(Frames) /\ Len(p) = j /\ \A i \in 1..j : p[i] = s[i]
    BY <1>1, <1>2, PrefixFacts
  <1>4. Nested(p)
    BY <1>2, NestedPrefix
  <1> HIDE DEF p
  <1>5. p # <<>> /\ p[1] = s[1] /\ Last(p) = s[j]
    BY <1>2, <1>3 DEF Last
  <1>6. Busy(s[j])
    BY DEF Nested, Waiting
  <1>7. Handles(p) = j
    BY <1>3, <1>5, <1>6 DEF Handles, Last, Busy
  <1>8. Handles(p) \in Nat /\ Handles(p) <= Handles(s)
    <2> HIDE DEF m
    <2> DEFINE a == Handles(s)
    <2>1. a \in Nat /\ m - 1 <= a
      BY <1>1
    <2> HIDE DEF a
    <2>2. j <= a /\ j \in Nat
      BY <1>1, <1>2, <2>1
    <2> QED
      BY <1>7, <2>2 DEF a
  <1>9. LockOK(t, h, n, p, y, k)
    BY <1>1, <1>5, <1>8, LockSame
  <1>10. Continue(p, c) \in Seq(Frames) /\ ThreadOK(t, h, n, Continue(p, c), y, k)
    BY <1>4, <1>5, <1>6, <1>9, ContinueFacts
  <1> QED
    BY <1>10 DEF p

\* Only the outermost function can leave the lock behind.
LEMMA KeepersFacts ==
    ASSUME NEW s, Nested(s), s # <<>>
    PROVE  /\ \A j \in 2..Len(s) : Keepers({s[i] : i \in j..Len(s)}) = {} /\ Keepers({s[j]}) = {}
           /\ Keepers({s[i] : i \in 1..Len(s)}) = IF Took(s) THEN {s[1].fn} ELSE {}
           /\ Keepers({s[1]}) = IF Took(s) THEN {s[1].fn} ELSE {}
  <1> DEFINE m == Len(s)
  <1>1. m \in Nat /\ m > 0
    BY HandlesFacts
  <1>2. \A i \in 2..m : s[i].gstate # "UNLOCKED"
    BY DEF Nested
  <1> HIDE DEF m
  <1>3. ASSUME NEW j \in 2..m PROVE Keepers({s[i] : i \in j..m}) = {} /\ Keepers({s[j]}) = {}
    <2>1. \A i \in j..m : i \in 2..m
      BY <1>1
    <2> QED
      BY <1>2, <2>1 DEF Keepers
  <1>4. Keepers({s[i] : i \in 1..m}) = IF Took(s) THEN {s[1].fn} ELSE {}
    <2>1. 1 \in 1..m /\ \A i \in 1..m : i = 1 \/ i \in 2..m
      BY <1>1
    <2> QED
      BY <1>2, <2>1 DEF Keepers, Took
  <1>5. Keepers({s[1]}) = IF Took(s) THEN {s[1].fn} ELSE {}
    BY DEF Keepers, Took
  <1> QED
    BY <1>3, <1>4, <1>5 DEF m

\* A function returns: to Lua, or to the function that called it.
LEMMA ReturnValueStep ==
    ASSUME LockInv, NEW t \in LuaThreads, ReturnValue(t)
    PROVE  LockInv'
  <1> DEFINE s == stack[t]
             m == Len(s)
             K == Keepers({Last(s)})
  <1>1. At(t, "Return") /\ UNCHANGED <<holder, counter, yielding>>
    BY DEF ReturnValue
  <1>2. s # <<>> /\ Nested(s) /\ Head(Last(s).code).op = "Return" /\ ~yielding[t] /\ Top(t) = Last(s)
    BY <1>1, AtFacts
  <1>3. LockOK(t, holder, counter[t], s, yielding[t], kept[t])
    BY ThreadFacts
  <1>4. m \in Nat /\ m > 0 /\ Last(s) = s[m] /\ s \in Seq(Frames)
    BY <1>2, HandlesFacts DEF Nested
  <1>5. kept' = [kept EXCEPT ![t] = kept[t] \cup K] /\ stack' = [stack EXCEPT ![t] = Advance(Front(s))]
    BY <1>2 DEF ReturnValue
  <1>6. CASE m = 1
    <2>1. Front(s) = <<>>
      <3>1. Front(s) \in Seq(Frames) /\ Len(Front(s)) = 0
        BY <1>2, <1>4, <1>6, FrontFacts
      <3> QED
        BY <3>1
    <2>2. Advance(Front(s)) = <<>> /\ <<>> \in Seq(Frames)
      BY <2>1 DEF Advance
    <2>3. K = IF Took(s) THEN {s[1].fn} ELSE {}
      BY <1>2, <1>4, <1>6, KeepersFacts
    <2>4. Took(s) => s[1].fn \in KeepingFunctions
      <3>1. Took(s) => Last(s).gstate # "none"
        BY <1>4, <1>6 DEF Took
      <3>2. Took(s) => s[1].fn \in Iterators \cup {"LuaToPython"}
        BY <1>2, <1>4, <1>6, <3>1, TopFacts DEF Final
      <3>3. s[1].fn \in Registered
        BY <1>2, <1>4 DEF Nested
      <3> QED
        BY <3>2, <3>3 DEF Iterators, KeepingFunctions, Registered, Nullary, Unary, Binary, Ternary
    <2> HIDE DEF K
    <2>5. LockOK(t, holder, counter[t], <<>>, yielding[t], kept[t] \cup K)
      BY <1>2, <1>3, <2>3, <2>4, LockLeft
    <2>6. Nested(<<>>)
      BY DEF Nested
    <2>7. ThreadOK(t, holder, counter[t], <<>>, yielding[t], kept[t] \cup K)
      BY <2>5, <2>6 DEF ThreadOK
    <2>8. stack' = [stack EXCEPT ![t] = <<>>]
      BY <1>5, <2>2
    <2> HIDE DEF s
    <2>9. Ended(t, <<>>, K) /\ <<>> \in Seq(Frames)
      BY <1>1, <1>5, <2>2, <2>8 DEF Ended
    <2> QED
      BY <2>7, <2>9, EndSteps
  <1>7. CASE m # 1
    <2> DEFINE p == SubSeq(s, 1, m - 1)
               c == Tail(s[m - 1].code)
               r == Continue(p, c)
    <2>1. m \in 2..m /\ m - 1 \in 1..(m - 1) /\ m - 1 \in 0..m /\ m - 1 > 0
      <3> HIDE DEF m
      <3> QED
        BY <1>4, <1>7
    <2>2. K = {}
      BY <1>2, <1>4, <2>1, KeepersFacts
    <2>3. Busy(s[m - 1]) /\ Head(s[m - 1].code).op \in Mid
      BY <1>2, <2>1 DEF Nested, Waiting, CallOps, Mid
    <2>4. InCode(s[m - 1].fn, c)
      BY <2>3, CodeStep DEF Busy
    <2>5. Front(s) = p /\ Len(p) = m - 1 /\ p[m - 1] = s[m - 1] /\ p # <<>>
      <3>1. p \in Seq(Frames) /\ Len(p) = m - 1 /\ \A i \in 1..(m - 1) : p[i] = s[i]
        BY <1>4, <2>1, PrefixFacts
      <3>2. p # <<>>
        <4> HIDE DEF p, m
        <4> QED
          BY <2>1, <3>1
      <3> QED
        BY <2>1, <3>1, <3>2 DEF Front
    <2>6. r \in Seq(Frames) /\ ThreadOK(t, holder, counter[t], r, yielding[t], kept[t])
      <3> HIDE DEF c
      <3> QED
        BY <1>2, <1>3, <2>1, <2>4, UnwindFacts
    <2>7. Advance(Front(s)) = r
      <3> HIDE DEF p, m, s
      <3> QED
        BY <2>5 DEF Advance, Last
    <2>8. stack' = [stack EXCEPT ![t] = r]
      BY <1>5, <2>7
    <2>9. kept[t] \cup K = kept[t]
      BY <2>2
    <2> HIDE DEF r, K
    <2>10. Ended(t, r, K)
      BY <1>1, <1>5, <2>8 DEF Ended
    <2>11. ThreadOK(t, holder, counter[t], r, yielding[t], kept[t] \cup K)
      BY <2>6, <2>9
    <2> QED
      BY <2>6, <2>10, <2>11, EndSteps
  <1> QED
    BY <1>6, <1>7

\* LuaToPython returns NULL to the function that called it.
LEMMA ReturnNullStep ==
    ASSUME LockInv, NEW t \in LuaThreads, ReturnNull(t)
    PROVE  LockInv'
  <1> DEFINE s == stack[t]
             m == Len(s)
             K == Keepers({Last(s)})
             p == SubSeq(s, 1, m - 1)
             c == Head(s[m - 1].code).or
             r == Continue(p, c)
  <1>1. At(t, "Null") /\ UNCHANGED <<holder, counter, yielding>>
    BY DEF ReturnNull
  <1>2. s # <<>> /\ Nested(s) /\ Head(Last(s).code).op = "Null" /\ ~yielding[t] /\ Top(t) = Last(s)
    BY <1>1, AtFacts
  <1>3. LockOK(t, holder, counter[t], s, yielding[t], kept[t])
    BY ThreadFacts
  <1>4. m \in Nat /\ m > 0 /\ Last(s) = s[m] /\ s \in Seq(Frames)
    BY <1>2, HandlesFacts DEF Nested
  <1>5. s[m].fn = "LuaToPython"
    BY <1>2, <1>4, TopFacts DEF StepOf
  <1>6. m # 1
    <2>1. s[1].fn \in Registered
      BY <1>2, <1>4 DEF Nested
    <2> QED
      BY <1>5, <2>1 DEF Registered, Nullary, Unary, Binary, Ternary
  <1>7. m \in 2..m /\ m - 1 \in 1..(m - 1) /\ m - 1 \in 0..m /\ m - 1 > 0 /\ m - 1 + 1 = m
    <2> HIDE DEF m
    <2> QED
      BY <1>4, <1>6
  <1>8. Busy(s[m - 1]) /\ Head(s[m - 1].code).op \in CallOps /\ s[m].fn = Callee(Head(s[m - 1].code).op)
    BY <1>2, <1>7 DEF Nested, Waiting
  <1>9. Head(s[m - 1].code).op = "Convert"
    BY <1>5, <1>8 DEF Callee, CallOps
  <1>10. InCode(s[m - 1].fn, c)
    <2>1. StepOf(s[m - 1].fn, Head(s[m - 1].code))
      BY <1>8, CodeStep DEF Busy
    <2>2. s[m - 1].fn \in Names
      <3>1. m - 1 \in 1..m
        <4> HIDE DEF m
        <4> QED
          BY <1>4, <1>7
      <3>2. s[m - 1] \in Frames
        BY <1>4, <3>1
      <3> QED
        BY <3>2 DEF Frames
    <2> QED
      BY <1>9, <2>1, <2>2, StepFields
  <1>11. Front(s) = p /\ Len(p) = m - 1 /\ p[m - 1] = s[m - 1]
    <2>1. p \in Seq(Frames) /\ Len(p) = m - 1 /\ \A i \in 1..(m - 1) : p[i] = s[i]
      BY <1>4, <1>7, PrefixFacts
    <2> QED
      BY <1>7, <2>1 DEF Front
  <1>12. r \in Seq(Frames) /\ ThreadOK(t, holder, counter[t], r, yielding[t], kept[t])
    <2> HIDE DEF c
    <2> QED
      BY <1>2, <1>3, <1>7, <1>10, UnwindFacts
  <1>13. Continue(Front(s), Head(Last(Front(s)).code).or) = r
    <2> HIDE DEF p, m, s
    <2> QED
      BY <1>11 DEF Last
  <1>14. /\ kept' = [kept EXCEPT ![t] = kept[t] \cup K]
         /\ stack' = [stack EXCEPT ![t] = Continue(Front(s), Head(Last(Front(s)).code).or)]
    BY <1>2 DEF ReturnNull
  <1>15. stack' = [stack EXCEPT ![t] = r]
    BY <1>13, <1>14
  <1>16. kept[t] \cup K = kept[t]
    BY <1>2, <1>4, <1>7, KeepersFacts
  <1> HIDE DEF r, K
  <1>17. Ended(t, r, K)
    BY <1>1, <1>14, <1>15 DEF Ended
  <1>18. ThreadOK(t, holder, counter[t], r, yielding[t], kept[t] \cup K)
    BY <1>12, <1>16
  <1> QED
    BY <1>12, <1>17, <1>18, EndSteps

\* A Lua error reaches a lua_pcall of toPyAuto, or leaves the bridge.
LEMMA ThrowStep ==
    ASSUME LockInv, NEW t \in LuaThreads, Throw(t)
    PROVE  LockInv'
  <1> DEFINE s == stack[t]
             m == Len(s)
             catchers == {i \in 1..(m - 1) : Head(s[i].code).op = "PCall"}
             k == IF catchers = {} THEN 0 ELSE CHOOSE i \in catchers : \A j \in catchers : j <= i
             rest == SubSeq(s, 1, k)
             K == Keepers({s[i] : i \in (k + 1)..m})
  <1>1. At(t, "Raise") /\ UNCHANGED <<holder, counter, yielding>>
    BY DEF Throw
  <1>2. s # <<>> /\ Nested(s) /\ Head(Last(s).code).op = "Raise" /\ ~yielding[t]
    BY <1>1, AtFacts
  <1>3. LockOK(t, holder, counter[t], s, yielding[t], kept[t])
    BY ThreadFacts
  <1>4. m \in Nat /\ m > 0 /\ Last(s) = s[m] /\ s \in Seq(Frames)
    BY <1>2, HandlesFacts DEF Nested
  <1>5. /\ stack' = [stack EXCEPT ![t] = IF k = 0 THEN <<>> ELSE Continue(rest, Head(Last(rest).code).or)]
        /\ kept' = [kept EXCEPT ![t] = kept[t] \cup K]
    BY DEF Throw
  <1>6. CASE catchers = {}
    <2>1. k = 0
      BY <1>6
    <2>2. K = IF Took(s) THEN {s[1].fn} ELSE {}
      <3>1. K = Keepers({s[i] : i \in 1..m})
        <4>1. k + 1 = 1
          <5> HIDE DEF k
          <5> QED
            BY <2>1
        <4> HIDE DEF k, m
        <4> QED
          BY <4>1
      <3> QED
        BY <1>2, <3>1, KeepersFacts
    <2>3. ASSUME Took(s) PROVE s[1].fn \in KeepingFunctions
      <3>1. CASE m = 1
        <4>1. Last(s).gstate # "none"
          BY <1>4, <2>3, <3>1 DEF Took
        <4>2. s[1].fn \in Iterators \cup {"LuaToPython"}
          BY <1>2, <1>4, <3>1, <4>1, TopFacts DEF Final
        <4>3. s[1].fn \in Registered
          BY <1>2, <1>4 DEF Nested
        <4> QED
          BY <4>2, <4>3 DEF Iterators, KeepingFunctions, Registered, Nullary, Unary, Binary, Ternary
      <3>2. CASE m # 1
        <4>1. m - 1 \in 1..(m - 1) /\ m \in 2..m /\ m - 1 + 1 = m
          <5> HIDE DEF m
          <5> QED
            BY <1>4, <3>2
        <4>2. Head(s[m - 1].code).op \in CallOps /\ s[m].fn = Callee(Head(s[m - 1].code).op)
          BY <1>2, <4>1 DEF Nested, Waiting
        <4>3. s[m].fn \notin {"LuaToPython"} \cup Quiet
          BY <1>2, <1>4, TopFacts DEF StepOf
        <4>4. s[m].fn = "toPyAuto"
          BY <4>2, <4>3 DEF Callee, CallOps, Quiet
        <4>5. s[1].fn = "toPyAuto"
          BY <1>2, <4>1, <4>4 DEF Nested
        <4> QED
          BY <4>5 DEF KeepingFunctions
      <3> QED
        BY <3>1, <3>2
    <2> HIDE DEF K
    <2>4. LockOK(t, holder, counter[t], <<>>, yielding[t], kept[t] \cup K)
      BY <1>2, <1>3, <2>2, <2>3, LockLeft
    <2>5. Nested(<<>>) /\ <<>> \in Seq(Frames)
      BY DEF Nested
    <2>6. ThreadOK(t, holder, counter[t], <<>>, yielding[t], kept[t] \cup K)
      BY <2>4, <2>5 DEF ThreadOK
    <2>7. stack' = [stack EXCEPT ![t] = <<>>]
      BY <1>5, <2>1
    <2> HIDE DEF s
    <2>8. Ended(t, <<>>, K)
      BY <1>1, <1>5, <2>7 DEF Ended
    <2> QED
      BY <2>5, <2>6, <2>8, EndSteps
  <1>7. CASE catchers # {}
    <2>1. k \in catchers
      <3>1. m - 1 \in Nat /\ catchers \in SUBSET (1..(m - 1))
        <4>1. m - 1 \in Nat
          <5> HIDE DEF m
          <5> QED
            BY <1>4
        <4> QED
          BY <4>1
      <3> HIDE DEF catchers
      <3>2. \E i \in catchers : \A j \in catchers : j <= i
        BY <1>7, <3>1, MaxExists
      <3> QED
        BY <1>7, <3>2
    <2> HIDE DEF k
    <2>2. k \in 1..(m - 1) /\ Head(s[k].code).op = "PCall"
      BY <2>1
    <2> DEFINE c == Head(s[k].code).or
               r == Continue(rest, c)
    <2>3. k \in 0..m /\ k # 0 /\ k \in 1..m /\ k + 1 \in 2..m /\ k \in 1..k
      <3> HIDE DEF m
      <3> QED
        BY <1>4, <2>2
    <2>4. InCode(s[k].fn, c)
      <3>1. Busy(s[k])
        BY <1>2, <2>2 DEF Nested, Waiting
      <3>2. StepOf(s[k].fn, Head(s[k].code))
        BY <3>1, CodeStep DEF Busy
      <3>3. s[k] \in Frames
        BY <1>4, <2>3
      <3>4. s[k].fn \in Names
        BY <3>3 DEF Frames
      <3> QED
        BY <2>2, <3>2, <3>4, StepFields
    <2>5. Len(rest) = k /\ rest[k] = s[k]
      BY <1>4, <2>3, PrefixFacts
    <2>6. r \in Seq(Frames) /\ ThreadOK(t, holder, counter[t], r, yielding[t], kept[t])
      <3> HIDE DEF c
      <3> QED
        BY <1>2, <1>3, <2>2, <2>4, UnwindFacts
    <2>7. stack' = [stack EXCEPT ![t] = r]
      <3>1. Continue(rest, Head(Last(rest).code).or) = r
        <4> HIDE DEF rest, s
        <4> QED
          BY <2>5 DEF Last
      <3> QED
        BY <1>5, <2>3, <3>1
    <2>8. kept[t] \cup K = kept[t]
      BY <1>2, <2>3, KeepersFacts
    <2> HIDE DEF r, K
    <2>9. Ended(t, r, K)
      BY <1>1, <1>5, <2>7 DEF Ended
    <2>10. ThreadOK(t, holder, counter[t], r, yielding[t], kept[t] \cup K)
      BY <2>6, <2>8
    <2> QED
      BY <2>6, <2>9, <2>10, EndSteps
  <1> QED
    BY <1>6, <1>7

------------------------------------------------------------------------------

\* The inductive invariant: every stack is nested, the outermost handle and the lock
\* agree, and every open handle is counted.
THEOREM LockInvariant == Spec => []LockInv
  <1>1. Init => LockInv
    <2> SUFFICES ASSUME Init PROVE LockInv
      OBVIOUS
    <2>1. Nested(<<>>) /\ <<>> \in Seq(Frames)
      BY DEF Nested
    <2>2. ASSUME NEW t \in LuaThreads PROVE LockOK(t, Nobody, 0, <<>>, FALSE, {})
      BY BridgeAssumption DEF LockOK, Took, Handles
    <2> QED
      BY <2>1, <2>2 DEF Init, LockInv, ThreadOK
  <1>2. LockInv /\ [Next]_vars => LockInv'
    <2> SUFFICES ASSUME LockInv, [Next]_vars PROVE LockInv'
      OBVIOUS
    <2>1. CASE UNCHANGED vars
      BY <2>1 DEF LockInv, vars
    <2>2. CASE GameTakes \/ GameGives
      BY <2>2, GameSteps
    <2>3. ASSUME NEW t \in LuaThreads, NEW c \in Calls[t], Call(t, c) PROVE LockInv'
      BY <2>3, CallStep
    <2>4. ASSUME NEW t \in LuaThreads,
                 Running(t) \/ EnsureUnlocked(t) \/ Complete(t) \/ Yield(t) \/ Resume(t)
          PROVE  LockInv'
      <3>1. CASE EnsureLocked(t)
        BY <3>1, EnsureLockedStep
      <3>2. CASE EnsureUnlocked(t)
        BY <3>2, EnsureUnlockedStep
      <3>3. CASE PyGILState_Release(t)
        BY <3>3, ReleaseStep
      <3>4. CASE Complete(t)
        BY <3>4, CompleteStep
      <3>5. CASE Yield(t)
        BY <3>5, YieldStep
      <3>6. CASE Resume(t)
        BY <3>6, ResumeStep
      <3>7. CASE Convert(t) \/ Nest(t)
        BY <3>7, ConvertAndNest
      <3>8. CASE ReportError(t) \/ Allocate(t)
        BY <3>8, ReportAndAllocate
      <3>9. CASE ReturnValue(t)
        BY <3>9, ReturnValueStep
      <3>10. CASE ReturnNull(t)
        BY <3>10, ReturnNullStep
      <3>11. CASE Throw(t)
        BY <3>11, ThrowStep
      <3>12. CASE TestType(t)
        BY <3>12, TestStep
      <3> QED
        BY <2>4, <3>1, <3>2, <3>3, <3>4, <3>5, <3>6, <3>7, <3>8, <3>9, <3>10, <3>11, <3>12 DEF Running
    <2> QED
      BY <2>1, <2>2, <2>3, <2>4 DEF Next
  <1> QED
    BY <1>1, <1>2, PTL DEF Spec

\* What a thread at a step of its code knows of the lock and its handles.
LEMMA StepKnows ==
    ASSUME LockInv, NEW t \in LuaThreads, NEW op \in {"Python", "Release", "Report", "Wrap"}, At(t, op), ~yielding[t]
    PROVE  Top(t).gstate # "none" /\ holder = t /\ counter[t] > 0
  <1> DEFINE s == stack[t]
  <1>1. s # <<>> /\ Nested(s) /\ Top(t) = Last(s) /\ Head(Last(s).code).op = op
    BY AtFacts
  <1>2. LockOK(t, holder, counter[t], s, yielding[t], kept[t])
    BY ThreadFacts
  <1>3. Last(s).gstate # "none"
    BY <1>1, TopFacts DEF Mid, Busy
  <1>4. /\ Handles(s) = Len(s) /\ Len(s) \in Nat /\ Len(s) > 0 /\ Last(s) = s[Len(s)] /\ s \in Seq(Frames)
        /\ Len(s) > 1 => s[1].gstate # "none"
    BY <1>1, <1>3, HandlesFacts DEF Nested
  <1>5. s[1].gstate \in {"LOCKED", "UNLOCKED"}
    <2> DEFINE m == Len(s)
    <2>1. m = 1 \/ m > 1
      <3>1. m \in Nat /\ m > 0
        BY <1>4
      <3> HIDE DEF m
      <3> QED
        BY <3>1
    <2>2. s[1].gstate # "none"
      BY <1>3, <1>4, <2>1
    <2>3. s[1] \in Frames
      BY <1>4
    <2> QED
      BY <2>2, <2>3 DEF Frames
  <1>6. holder = t
    BY <1>1, <1>2, <1>5 DEF LockOK, Took
  <1>7. counter[t] > 0
    <2> DEFINE m == Len(s)
               n == counter[t]
    <2>1. m \in Nat /\ m > 0 /\ n \in Nat /\ n >= m + (IF kept[t] = {} THEN 0 ELSE 1)
      BY <1>2, <1>4 DEF LockOK
    <2> HIDE DEF m, n
    <2>2. n > 0
      BY <2>1
    <2> QED
      BY <2>2 DEF n
  <1> QED
    BY <1>1, <1>3, <1>6, <1>7

\* Types; a thread that has lent out the lock is inside a Python call (TypeOK).
THEOREM BridgeTypes == Spec => []TypeOK
  <1>1. ASSUME LockInv PROVE TypeOK
    <2>1. ASSUME NEW t \in LuaThreads, NEW i \in 1..Len(stack[t])
          PROVE  stack[t][i].gstate \in {"none", "LOCKED", "UNLOCKED"}
      <3>1. stack[t][i] \in Frames
        BY <1>1, <2>1, ThreadFacts
      <3> QED
        BY <3>1 DEF Frames
    <2>2. ASSUME NEW t \in LuaThreads, yielding[t] PROVE At(t, "Python") /\ holder # t
      <3>1. LockOK(t, holder, counter[t], stack[t], yielding[t], kept[t])
        BY <1>1, ThreadFacts
      <3> QED
        BY <2>2, <3>1 DEF LockOK, At, Step, Top, Last
    <2> QED
      BY <1>1, <2>1, <2>2 DEF LockInv, TypeOK
  <1> QED
    BY <1>1, LockInvariant, PTL

\* Bridge.cpp uses Python's C API only with the lock, but for the two type tests CallObject
\* makes as a script's outermost call (PythonUnderGIL): any number of threads, any
\* scripts, any nesting of conversions, reports and finalizers.
THEOREM PythonIsLocked == Spec => []PythonUnderGIL
  <1>1. ASSUME LockInv, NEW t \in LuaThreads, At(t, "Check")
        PROVE  Len(stack[t]) = 1 /\ Top(t).fn = "callObject"
    <2> DEFINE s == stack[t]
               n == Len(s)
    <2>1. s # <<>> /\ Nested(s) /\ Top(t) = Last(s) /\ Head(Last(s).code).op = "Check"
      BY <1>1, AtFacts
    <2>2. Last(s).fn = "callObject" /\ Last(s) = s[n] /\ n \in Nat /\ n > 0
      BY <2>1, TopFacts, HandlesFacts DEF Testing
    <2>3. \A op : Callee(op) # "callObject"
      BY DEF Callee
    <2>4. ASSUME n # 1 PROVE FALSE
      <3> HIDE DEF n
      <3>1. n - 1 \in 1..(n - 1) /\ (n - 1) + 1 = n
        BY <2>2, <2>4
      <3>2. s[n].fn = Callee(Head(s[n - 1].code).op)
        BY <2>1, <3>1 DEF Nested, n
      <3> QED
        BY <2>2, <2>3, <3>2
    <2> QED
      BY <2>1, <2>2, <2>4
  <1>2. ASSUME LockInv PROVE PythonUnderGIL
    BY <1>1, <1>2, StepKnows DEF PythonUnderGIL
  <1> QED
    BY <1>2, LockInvariant, PTL

\* No path releases a handle it does not have, or without the lock (ReleaseNotFatal).
THEOREM ReleasesAreSound == Spec => []ReleaseNotFatal
  <1>1. ASSUME LockInv, NEW t \in LuaThreads, At(t, "Release")
        PROVE  Top(t).gstate # "none" /\ holder = t /\ counter[t] > 0
    <2>1. ~yielding[t]
      BY <1>1, AtFacts
    <2> QED
      BY <1>1, <2>1, StepKnows
  <1>2. LockInv => ReleaseNotFatal
    BY <1>1 DEF ReleaseNotFatal
  <1> QED
    BY <1>2, LockInvariant, PTL

\* Back in Lua with the lock: one of the four functions kept it (KeptOnlyBy).
THEOREM KeepersKnown == Spec => []KeptOnlyBy
  <1>1. ASSUME LockInv, NEW t \in LuaThreads, stack[t] = <<>>, holder = t
        PROVE  kept[t] \cap {"dict_next", "iter_next", "toPyAuto", "pairs_next"} # {}
    <2>1. LockOK(t, holder, counter[t], stack[t], yielding[t], kept[t])
      BY <1>1, ThreadFacts
    <2>2. kept[t] # {} /\ kept[t] \subseteq KeepingFunctions
      BY <1>1, <2>1 DEF LockOK, Took
    <2> QED
      BY <2>2 DEF KeepingFunctions
  <1>2. LockInv => KeptOnlyBy
    BY <1>1 DEF KeptOnlyBy
  <1> QED
    BY <1>2, LockInvariant, PTL

\* Once a function has kept the lock it stays with the thread (KeptForGood).
THEOREM KeptStays == Spec => []KeptForGood
  <1>1. ASSUME LockInv, NEW t \in LuaThreads, Kept(t), ~yielding[t] PROVE holder = t
    <2>1. LockOK(t, holder, counter[t], stack[t], yielding[t], kept[t])
      BY <1>1, ThreadFacts
    <2> QED
      BY <1>1, <2>1 DEF LockOK, Kept
  <1>2. LockInv => KeptForGood
    BY <1>1 DEF KeptForGood
  <1> QED
    BY <1>2, LockInvariant, PTL
==============================================================================
