-------------------------- MODULE ModuleLoaderProofs --------------------------
(***************************************************************************)
(* For every set of modules, every require graph and every mix of errors:  *)
(* the loading marks of GMP.require are exactly the C stack.               *)
(***************************************************************************)
EXTENDS ModuleLoader, SequenceTheorems, WellFoundedInduction, TLAPS

\* Entering a chunk that is not on the stack adds its name once.
LEMMA PushFacts ==
    ASSUME NEW s \in Seq(Modules), NEW m \in Modules, Distinct(s), m \notin Entries(s)
    PROVE  /\ Append(s, m) \in Seq(Modules)
           /\ Entries(Append(s, m)) = Entries(s) \cup {m}
           /\ Distinct(Append(s, m))
  <1>1. /\ Append(s, m) \in Seq(Modules)
        /\ Len(Append(s, m)) = Len(s) + 1
        /\ \A i \in 1..Len(s) : Append(s, m)[i] = s[i]
        /\ Append(s, m)[Len(s) + 1] = m
        /\ Len(s) \in Nat
    BY AppendProperties, LenProperties
  <1>2. 1..Len(Append(s, m)) = 1..Len(s) \cup {Len(s) + 1}
    BY <1>1
  <1>3. Entries(Append(s, m)) = Entries(s) \cup {m}
    BY <1>1, <1>2 DEF Entries
  <1>4. Distinct(Append(s, m))
    <2> SUFFICES ASSUME NEW i \in 1..Len(s) \cup {Len(s) + 1}, NEW j \in 1..Len(s) \cup {Len(s) + 1},
                        Append(s, m)[i] = Append(s, m)[j]
                 PROVE  i = j
      BY <1>2 DEF Distinct
    <2>1. CASE i \in 1..Len(s) /\ j \in 1..Len(s)
      BY <1>1, <2>1 DEF Distinct
    <2>2. CASE i \in 1..Len(s) /\ j = Len(s) + 1
      BY <1>1, <2>2 DEF Entries
    <2>3. CASE j \in 1..Len(s) /\ i = Len(s) + 1
      BY <1>1, <2>3 DEF Entries
    <2> QED
      BY <2>1, <2>2, <2>3
  <1> QED
    BY <1>1, <1>3, <1>4

\* Leaving a chunk takes its name, and no other, off the stack.
LEMMA PopFacts ==
    ASSUME NEW s \in Seq(Modules), s # <<>>, Distinct(s)
    PROVE  /\ Pop(s) \in Seq(Modules)
           /\ s[Len(s)] \in Modules
           /\ s[Len(s)] \in Entries(s)
           /\ Entries(Pop(s)) = Entries(s) \ {s[Len(s)]}
           /\ Distinct(Pop(s))
           /\ Len(Pop(s)) = Len(s) - 1 /\ \A i \in 1..(Len(s) - 1) : Pop(s)[i] = s[i]
  <1>1. Len(s) \in Nat \ {0} /\ \A i \in 1..Len(s) : s[i] \in Modules
    BY EmptySeq, LenProperties, ElementOfSeq
  <1>2. /\ Pop(s) \in Seq(Modules)
        /\ Len(Pop(s)) = Len(s) - 1
        /\ \A i \in 1..(Len(s) - 1) : Pop(s)[i] = s[i]
    <2> DEFINE n == Len(s) - 1
    <2>1. n \in Nat /\ 1 \in Int /\ n \in Int /\ \A i \in 1..n : s[i] \in Modules
      BY <1>1
    <2> HIDE DEF n
    <2>2. /\ SubSeq(s, 1, n) \in Seq(Modules)
          /\ Len(SubSeq(s, 1, n)) = IF 1 <= n THEN n - 1 + 1 ELSE 0
          /\ \A i \in 1..(n - 1 + 1) : SubSeq(s, 1, n)[i] = s[1 + i - 1]
      BY <2>1, SubSeqProperties
    <2>3. Len(SubSeq(s, 1, n)) = n /\ \A i \in 1..n : SubSeq(s, 1, n)[i] = s[i]
      BY <2>1, <2>2
    <2> QED
      BY <2>2, <2>3 DEF Pop, n
  <1>3. Distinct(Pop(s))
    BY <1>1, <1>2 DEF Distinct
  <1>4. 1..Len(s) = 1..(Len(s) - 1) \cup {Len(s)}
    BY <1>1
  <1>5. ASSUME NEW i \in 1..(Len(s) - 1) PROVE s[i] # s[Len(s)]
    BY <1>1 DEF Distinct
  <1>6. Entries(Pop(s)) = Entries(s) \ {s[Len(s)]}
    BY <1>2, <1>4, <1>5 DEF Entries
  <1>7. s[Len(s)] \in Entries(s)
    BY <1>1, <1>4 DEF Entries
  <1> QED
    BY <1>1, <1>2, <1>3, <1>6, <1>7

-------------------------------------------------------------------------------

\* Chunks are on the stack only while a script runs.
StackOfScript == ~running => stack = <<>> /\ raised = "none"

IndInv == TypeOK /\ LoadingIsStack /\ LoadedCompleted /\ AtMostOnce /\ StackOfScript

\* A new LuaVM has loaded nothing and runs nothing.
LEMMA InitInd == Init => IndInv
  <1> SUFFICES ASSUME Init PROVE IndInv
    OBVIOUS
  <1>1. TypeOK
    <2>1. running \in BOOLEAN
      BY DEF Init
    <2> QED
      BY <2>1, ModulesAssumption, EmptySeq DEF Init, TypeOK, Errors, Names
  <1>2. LoadingIsStack
    BY DEF Init, LoadingIsStack, Entries, Distinct
  <1> QED
    BY <1>1, <1>2 DEF Init, IndInv, LoadedCompleted, AtMostOnce, StackOfScript

\* Every outcome of GMP.require, errors included, keeps marks and stack in step.
LEMMA NextInd == IndInv /\ [Next]_vars => IndInv'
  <1> SUFFICES ASSUME IndInv, [Next]_vars PROVE IndInv'
    OBVIOUS
  <1> USE ModulesAssumption
      DEF IndInv, TypeOK, LoadingIsStack, LoadedCompleted, AtMostOnce, StackOfScript, fixed,
          Errors, Names, CallRequire
  <1>1. CASE StartScript
    BY <1>1 DEF StartScript
  <1>2. CASE EndScript
    BY <1>2 DEF EndScript
  <1>3. ASSUME NEW m \in Names,
               RequireMissing(m) \/ RequireCircular(m) \/ RequireLoadError(m)
        PROVE  IndInv'
    BY <1>3 DEF RequireMissing, RequireCircular, RequireLoadError
  <1>4. ASSUME NEW m \in Names, RequireLoaded(m) PROVE IndInv'
    BY <1>4 DEF RequireLoaded, vars
  <1>5. ASSUME NEW m \in Names, RequireEnter(m) PROVE IndInv'
    <2>1. m \in Modules /\ m \notin Entries(stack)
      BY <1>5 DEF RequireEnter
    <2>2. /\ Append(stack, m) \in Seq(Modules)
          /\ Entries(Append(stack, m)) = Entries(stack) \cup {m}
          /\ Distinct(Append(stack, m))
      BY <2>1, PushFacts
    <2> QED
      BY <1>5, <2>1, <2>2 DEF RequireEnter
  <1>6. CASE ChunkError
    BY <1>6 DEF ChunkError
  <1>7. CASE ChunkCatches
    BY <1>7 DEF ChunkCatches
  <1>8. CASE Unwind
    <2>1. /\ Pop(stack) \in Seq(Modules) /\ Distinct(Pop(stack))
          /\ Entries(Pop(stack)) = Entries(stack) \ {stack[Len(stack)]}
      BY <1>8, PopFacts DEF Unwind
    <2> QED
      BY <1>8, <2>1 DEF Unwind
  <1>9. CASE Complete
    <2>1. /\ Pop(stack) \in Seq(Modules) /\ Distinct(Pop(stack))
          /\ stack[Len(stack)] \in Modules /\ stack[Len(stack)] \in Entries(stack)
          /\ Entries(Pop(stack)) = Entries(stack) \ {stack[Len(stack)]}
      BY <1>9, PopFacts DEF Complete
    <2>2. stack[Len(stack)] \notin completed
      BY <2>1
    <2> QED
      BY <1>9, <2>1, <2>2 DEF Complete
  <1>10. CASE ClearModuleCache
    BY <1>10 DEF ClearModuleCache
  <1>11. CASE Shutdown
    BY <1>11 DEF Shutdown, Entries
  <1>12. CASE UNCHANGED vars
    BY <1>12 DEF vars
  <1> QED
    BY <1>1, <1>2, <1>3, <1>4, <1>5, <1>6, <1>7, <1>8, <1>9, <1>10, <1>11, <1>12 DEF Next

\* The inductive invariant of GMP.require.
LEMMA LoaderInvariant == Spec => []IndInv
  BY InitInd, NextInd, PTL DEF Spec

\* Whatever fails or is caught, the loading marks are exactly the active chunks, and
\* no chunk is entered while it is active.
THEOREM LoaderStack == Spec => []LoadingIsStack
  BY LoaderInvariant, PTL DEF IndInv

\* A module counts as loaded exactly when its chunk ran to its end.
THEOREM LoaderCache == Spec => []LoadedCompleted
  BY LoaderInvariant, PTL DEF IndInv

\* No chunk runs to its end twice without the cache being cleared.
THEOREM LoaderOnce == Spec => []AtMostOnce
  BY LoaderInvariant, PTL DEF IndInv

\* Between scripts no loading mark is left behind.
THEOREM LoaderQuiet == Spec => []QuietBetweenScripts
  <1>1. IndInv => QuietBetweenScripts
    <2> SUFFICES ASSUME IndInv, ~running PROVE loadingModules = {} /\ raised = "none"
      BY DEF QuietBetweenScripts
    <2>1. stack = <<>> /\ raised = "none" /\ loadingModules = Entries(stack)
      BY DEF IndInv, StackOfScript, LoadingIsStack
    <2> QED
      BY <2>1 DEF Entries
  <1> QED
    BY <1>1, LoaderInvariant, PTL
-------------------------------------------------------------------------------
(* Cycles.                                                                    *)

\* Each chunk on the stack was required by the one below it.
Chain(s) == \A i \in 1..(Len(s) - 1) : s[i + 1] \in requires[s[i]]

\* What holds of 0, and of n + 1 if of n, holds of every number.
LEMMA SetInduction ==
    ASSUME NEW T \in SUBSET Nat, 0 \in T, \A n \in T : n + 1 \in T
    PROVE  T = Nat
  <1> DEFINE R == OpToRel(<, Nat)
  <1>1. IsWellFoundedOn(R, Nat)
    BY NatLessThanWellFounded, Zenon
  <1>2. \A x, y \in Nat : x < y => <<x, y>> \in R
    BY DEF OpToRel
  <1> HIDE DEF R
  <1>3. SUFFICES ASSUME Nat \ T # {} PROVE FALSE
    OBVIOUS
  <1>4. PICK x \in Nat \ T : \A y \in Nat \ T : ~(<<y, x>> \in R)
    BY <1>1, <1>3, WFMin
  <1>5. x # 0 /\ x - 1 \in Nat /\ x - 1 < x
    OBVIOUS
  <1>6. x - 1 \in T
    BY <1>2, <1>4, <1>5
  <1> QED
    BY <1>4, <1>5, <1>6

\* A chunk that requires one below it on the stack closes a cycle.
LEMMA CycleCloses ==
    ASSUME NEW s \in Seq(Modules), Chain(s), NEW j \in 1..Len(s), s[j] \in requires[s[Len(s)]]
    PROVE  Circular(s[j])
  <1> DEFINE n == Len(s)
             m == s[j]
  <1>1. n \in Nat /\ j \in Nat /\ j <= n
    OBVIOUS
  <1>2. SUFFICES ASSUME NEW S \in SUBSET Modules, requires[m] \subseteq S, \A x \in S : requires[x] \subseteq S
                 PROVE  m \in S
    BY DEF Circular
  <1> DEFINE T == {d \in Nat : j + d <= n => s[j + d] \in S \cup {m}}
  <1>3. 0 \in T
    BY <1>1
  <1>4. ASSUME NEW d \in T PROVE d + 1 \in T
    <2> SUFFICES ASSUME j + (d + 1) <= n PROVE s[j + (d + 1)] \in S \cup {m}
      OBVIOUS
    <2> DEFINE i == j + d
    <2>1. i \in 1..(n - 1) /\ i + 1 = j + (d + 1) /\ i <= n
      BY <1>1
    <2>2. s[i] \in S \cup {m}
      BY <2>1
    <2>3. s[i + 1] \in requires[s[i]]
      BY <2>1 DEF Chain
    <2> QED
      BY <1>2, <2>1, <2>2, <2>3
  <1>5. T \in SUBSET Nat
    OBVIOUS
  <1> HIDE DEF T
  <1>6. T = Nat
    BY <1>3, <1>4, <1>5, SetInduction
  <1>7. n - j \in Nat /\ j + (n - j) = n
    BY <1>1
  <1>8. s[n] \in S \cup {m}
    <2> DEFINE d == n - j
    <2>1. d \in T /\ j + d = n /\ n <= n
      BY <1>1, <1>6, <1>7
    <2> HIDE DEF d
    <2>2. j + d <= n => s[j + d] \in S \cup {m}
      BY <2>1 DEF T
    <2> QED
      BY <2>1, <2>2
  <1>9. requires[s[n]] \subseteq S
    BY <1>2, <1>8
  <1> QED
    BY <1>9

\* The chunks on the stack form a chain, and only a cycle is reported.
CircleInv == Chain(stack) /\ CircularIsReal

\* Every step of GMP.require keeps it.
LEMMA NextCircle == IndInv /\ CircleInv /\ [Next]_vars => CircleInv'
  <1> SUFFICES ASSUME IndInv, CircleInv, [Next]_vars PROVE CircleInv'
    OBVIOUS
  <1>1. stack \in Seq(Modules) /\ Len(stack) \in Nat
    BY DEF IndInv, TypeOK
  <1>2. ASSUME UNCHANGED <<requires, stack>> PROVE Chain(stack)'
    BY <1>2 DEF CircleInv, Chain
  <1>3. ASSUME UNCHANGED <<requires, blamed>>, raised' = "circular" => raised = "circular"
        PROVE  CircularIsReal'
    BY <1>3 DEF CircleInv, CircularIsReal, Circular
  <1>4. ASSUME stack # <<>>, stack' = Pop(stack), UNCHANGED requires PROVE Chain(stack)'
    <2> DEFINE n == Len(stack)
    <2>1. Distinct(stack) /\ n > 0
      BY <1>1, <1>4 DEF IndInv, LoadingIsStack
    <2>2. Len(Pop(stack)) = n - 1 /\ \A i \in 1..(n - 1) : Pop(stack)[i] = stack[i]
      BY <1>1, <1>4, <2>1, PopFacts
    <2>3. ASSUME NEW i \in 1..(Len(Pop(stack)) - 1) PROVE Pop(stack)[i + 1] \in requires[Pop(stack)[i]]
      <3>1. i \in 1..(n - 1) /\ i + 1 \in 1..(n - 1)
        BY <1>1, <2>2
      <3> QED
        BY <2>2, <3>1 DEF CircleInv, Chain
    <2> QED
      BY <1>4, <2>3 DEF Chain
  <1>5. ASSUME NEW m \in Names, RequireCircular(m) PROVE CircleInv'
    <2>1. m \in Entries(stack) /\ m # Missing /\ m \in Requirable
      BY <1>5, ModulesAssumption DEF RequireCircular, CallRequire, IndInv, LoadingIsStack, TypeOK
    <2>2. PICK j \in 1..Len(stack) : m = stack[j]
      BY <2>1 DEF Entries
    <2>3. m \in requires[stack[Len(stack)]]
      BY <1>1, <2>1, <2>2 DEF Requirable
    <2>4. Circular(m)
      BY <1>1, <2>2, <2>3, CycleCloses DEF CircleInv
    <2>5. blamed' = m /\ UNCHANGED <<requires, stack>>
      BY <1>5 DEF RequireCircular, fixed
    <2> QED
      BY <1>2, <2>4, <2>5 DEF CircleInv, CircularIsReal, Circular
  <1>6. ASSUME NEW m \in Names, RequireEnter(m) PROVE CircleInv'
    <2> DEFINE n == Len(stack)
               r == Append(stack, m)
    <2>1. m \in Modules /\ m \in Requirable /\ stack' = r /\ UNCHANGED <<requires, blamed, raised>>
      BY <1>6 DEF RequireEnter, CallRequire, fixed
    <2>2. Len(r) = n + 1 /\ r[n + 1] = m /\ \A i \in 1..n : r[i] = stack[i]
      BY <1>1, <2>1
    <2> HIDE DEF r
    <2>3. ASSUME NEW i \in 1..(Len(r) - 1) PROVE r[i + 1] \in requires[r[i]]
      <3>1. i \in 1..n
        BY <1>1, <2>2
      <3>2. CASE i = n
        <4>1. stack # <<>> /\ m # Missing
          BY <1>1, <2>1, <3>1, ModulesAssumption
        <4> QED
          BY <2>1, <2>2, <3>1, <3>2, <4>1 DEF Requirable
      <3>3. CASE i # n
        <4>1. i + 1 \in 1..n /\ i \in 1..(n - 1)
          BY <1>1, <3>1, <3>3
        <4> QED
          BY <2>2, <3>1, <4>1 DEF CircleInv, Chain
      <3> QED
        BY <3>2, <3>3
    <2>4. Chain(stack)'
      BY <2>1, <2>3 DEF Chain
    <2> QED
      BY <1>3, <2>1, <2>4 DEF CircleInv
  <1>7. CASE Unwind
    <2>1. stack # <<>> /\ stack' = Pop(stack) /\ raised' = "runtime" /\ UNCHANGED <<requires, blamed>>
      BY <1>7 DEF Unwind, fixed
    <2> QED
      BY <1>3, <1>4, <2>1 DEF CircleInv
  <1>8. CASE Complete
    <2>1. stack # <<>> /\ stack' = Pop(stack) /\ UNCHANGED <<requires, blamed, raised>>
      BY <1>8 DEF Complete, fixed
    <2> QED
      BY <1>3, <1>4, <2>1 DEF CircleInv
  <1>9. ASSUME UNCHANGED <<requires, stack, blamed>>, raised' = "circular" => raised = "circular"
        PROVE  CircleInv'
    BY <1>2, <1>3, <1>9 DEF CircleInv
  <1>10. ASSUME NEW m \in Names, RequireMissing(m) \/ RequireLoadError(m) \/ RequireLoaded(m) PROVE CircleInv'
    BY <1>9, <1>10 DEF RequireMissing, RequireLoadError, RequireLoaded, fixed, vars
  <1>11. CASE StartScript \/ EndScript \/ ChunkError \/ ChunkCatches \/ ClearModuleCache \/ Shutdown
    BY <1>9, <1>11 DEF StartScript, EndScript, ChunkError, ChunkCatches, ClearModuleCache, Shutdown, fixed
  <1>12. CASE UNCHANGED vars
    BY <1>9, <1>12 DEF vars, fixed
  <1> QED
    BY <1>5, <1>6, <1>7, <1>8, <1>10, <1>11, <1>12 DEF Next

\* A circular dependency is reported only for a module that requires itself, directly
\* or through others, for any number of modules (CircularIsReal).
THEOREM CirclesAreReal == Spec => []CircularIsReal
  <1>1. Init => CircleInv
    <2> SUFFICES ASSUME Init PROVE CircleInv
      OBVIOUS
    <2>1. stack = <<>> /\ raised = "none"
      BY DEF Init
    <2>2. 1..(Len(stack) - 1) = {}
      BY <2>1
    <2> QED
      BY <2>1, <2>2 DEF CircleInv, Chain, CircularIsReal
  <1>2. Spec => []CircleInv
    BY <1>1, LoaderInvariant, NextCircle, PTL DEF Spec
  <1> QED
    BY <1>2, PTL DEF CircleInv
===============================================================================
