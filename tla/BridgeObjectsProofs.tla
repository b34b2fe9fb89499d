------------------------- MODULE BridgeObjectsProofs -------------------------
(***************************************************************************)
(* Proofs about the references of BridgeObjects, for any finite set of     *)
(* objects, any containers, wrappers and iterators and any bounds.  The    *)
(* counts are balanced for every object, a freed one included, and this is *)
(* what ties a dangling pointer to the references lists took over.         *)
(***************************************************************************)
EXTENDS BridgeObjects, FiniteSetTheorems, SequenceTheorems, TLAPS

------------------------------------------------------------------------------
(* How often an object occurs in a sequence.                                 *)

Places(s, o) == {i \in 1..Len(s) : s[i] = o}

\* A count is a natural number, and zero for what does not occur.
LEMMA CountIsNat ==
    ASSUME NEW s \in Seq(Objs), NEW o
    PROVE  /\ IsFiniteSet(Places(s, o)) /\ Count(s, o) = Cardinality(Places(s, o))
           /\ Count(s, o) \in Nat
           /\ Count(s, o) = 0 <=> \A i \in 1..Len(s) : s[i] # o
  <1>1. Len(s) \in Nat
    BY LenProperties
  <1>2. IsFiniteSet(1..Len(s)) /\ Places(s, o) \in SUBSET (1..Len(s))
    BY <1>1, FS_Interval DEF Places
  <1>3. IsFiniteSet(Places(s, o))
    BY <1>2, FS_Subset
  <1>4. Count(s, o) = Cardinality(Places(s, o))
    BY DEF Count, Places
  <1>5. Count(s, o) \in Nat
    BY <1>3, <1>4, FS_CardinalityType
  <1>6. Count(s, o) = 0 <=> Places(s, o) = {}
    BY <1>3, <1>4, FS_EmptySet
  <1>7. Places(s, o) = {} <=> \A i \in 1..Len(s) : s[i] # o
    BY DEF Places
  <1> QED
    BY <1>3, <1>4, <1>5, <1>6, <1>7

\* What occurs in two sequences one after the other is what occurs in each.
LEMMA CountConcat ==
    ASSUME NEW s \in Seq(Objs), NEW t \in Seq(Objs), NEW o
    PROVE  Count(s \o t, o) = Count(s, o) + Count(t, o)
  <1> DEFINE n == Len(s)
             A == Places(s, o)
             B == Places(t, o)
             C == Places(s \o t, o)
             D == C \ A
  <1>1. /\ n \in Nat /\ Len(t) \in Nat /\ s \o t \in Seq(Objs)
        /\ Len(s \o t) = n + Len(t)
        /\ \A i \in 1..(n + Len(t)) : (s \o t)[i] = IF i <= n THEN s[i] ELSE t[i - n]
    BY LenProperties, ConcatProperties
  <1>2. A \subseteq C
    BY <1>1 DEF Places
  <1>3. \A i : i \in D <=> (i \in Int /\ i - n \in B)
    BY <1>1 DEF Places
  <1>4. /\ IsFiniteSet(A) /\ IsFiniteSet(B) /\ IsFiniteSet(C)
        /\ Count(s, o) = Cardinality(A) /\ Count(t, o) = Cardinality(B)
        /\ Count(s \o t, o) = Cardinality(C)
    BY <1>1, CountIsNat
  <1>5. IsFiniteSet(D)
    BY <1>4, FS_Subset
  <1>6. Cardinality(D) = Cardinality(B)
    <2> DEFINE f == [j \in B |-> j + n]
    <2>1. \A j \in B : j \in Nat
      BY DEF Places
    <2>2. f \in [B -> D]
      BY <1>1, <1>3, <2>1
    <2>3. \A a, b \in B : f[a] = f[b] => a = b
      BY <1>1, <2>1
    <2>4. ASSUME NEW i \in D PROVE \E j \in B : f[j] = i
      <3>1. i \in Int /\ i - n \in B
        BY <1>3
      <3>2. f[i - n] = i
        BY <1>1, <3>1
      <3> QED
        BY <3>1, <3>2
    <2>5. f \in Bijection(B, D)
      BY <2>2, <2>3, <2>4 DEF Bijection, Injection, IsInjective, Surjection
    <2> QED
      BY <1>4, <2>5, FS_Bijection DEF ExistsBijection
  <1>7. C = A \cup D /\ A \cap D = {}
    BY <1>2
  <1>8. Cardinality(A \cap D) = 0
    BY <1>7, FS_EmptySet
  <1>9. Cardinality(A) \in Nat /\ Cardinality(D) \in Nat
    BY <1>4, <1>5, FS_CardinalityType
  <1> HIDE DEF A, B, C, D
  <1>10. Cardinality(C) = Cardinality(A) + Cardinality(D)
    <2>1. Cardinality(A \cup D) = Cardinality(A) + Cardinality(D) - Cardinality(A \cap D)
      BY <1>4, <1>5, FS_Union
    <2> QED
      BY <2>1, <1>7, <1>8, <1>9
  <1> QED
    BY <1>4, <1>6, <1>10

\* A pair is two single pointers.
LEMMA PairIsConcat ==
    ASSUME NEW a \in Objs, NEW b \in Objs
    PROVE  <<a, b>> = <<a>> \o <<b>>
  <1>1. /\ <<a>> \in Seq(Objs) /\ <<b>> \in Seq(Objs) /\ <<a, b>> \in Seq(Objs)
        /\ Len(<<a>>) = 1 /\ Len(<<b>>) = 1 /\ Len(<<a, b>>) = 2
    OBVIOUS
  <1>2. /\ <<a>> \o <<b>> \in Seq(Objs) /\ Len(<<a>> \o <<b>>) = 2
        /\ (<<a>> \o <<b>>)[1] = a /\ (<<a>> \o <<b>>)[2] = b
    BY <1>1, ConcatProperties
  <1>3. \A i \in 1..2 : (<<a>> \o <<b>>)[i] = <<a, b>>[i]
    BY <1>2
  <1> QED
    BY <1>1, <1>2, <1>3, SeqEqual

\* The sequences the bridge counts: none, one and two pointers.
LEMMA CountFew ==
    ASSUME NEW a \in Objs, NEW b \in Objs, NEW o
    PROVE  /\ Count(<<>>, o) = 0
           /\ Count(<<a>>, o) = IF a = o THEN 1 ELSE 0
           /\ Count(<<a, b>>, o) = Count(<<a>>, o) + Count(<<b>>, o)
  <1>1. Count(<<>>, o) = 0
    <2>1. <<>> \in Seq(Objs) /\ \A i \in 1..Len(<<>>) : <<>>[i] # o
      OBVIOUS
    <2> QED
      BY <2>1, CountIsNat
  <1>2. ASSUME NEW e \in Objs PROVE Count(<<e>>, o) = IF e = o THEN 1 ELSE 0
    <2>1. Places(<<e>>, o) = IF e = o THEN {1} ELSE {}
      BY DEF Places
    <2>2. Count(<<e>>, o) = Cardinality(Places(<<e>>, o))
      BY DEF Count, Places
    <2> QED
      BY <2>1, <2>2, FS_EmptySet, FS_Singleton
  <1>3. <<a, b>> = <<a>> \o <<b>>
    BY PairIsConcat
  <1>4. Count(<<a, b>>, o) = Count(<<a>>, o) + Count(<<b>>, o)
    <2> DEFINE p == <<a>>
               q == <<b>>
               r == <<a, b>>
    <2>1. p \in Seq(Objs) /\ q \in Seq(Objs)
      OBVIOUS
    <2>2. r = p \o q
      BY <1>3
    <2> HIDE DEF p, q, r
    <2>3. Count(p \o q, o) = Count(p, o) + Count(q, o)
      BY <2>1, CountConcat
    <2>4. Count(r, o) = Count(p, o) + Count(q, o)
      BY <2>2, <2>3
    <2> QED
      BY <2>4 DEF p, q, r
  <1> QED
    BY <1>1, <1>2, <1>4

\* Appending an item adds one occurrence.
LEMMA CountAppend ==
    ASSUME NEW s \in Seq(Objs), NEW e \in Objs, NEW o
    PROVE  Count(Append(s, e), o) = Count(s, o) + Count(<<e>>, o)
  <1> DEFINE q == <<e>>
             r == Append(s, e)
  <1>1. q \in Seq(Objs) /\ r = s \o q
    BY AppendIsConcat
  <1> HIDE DEF q, r
  <1>2. Count(s \o q, o) = Count(s, o) + Count(q, o)
    BY <1>1, CountConcat
  <1>3. Count(r, o) = Count(s, o) + Count(q, o)
    BY <1>1, <1>2
  <1> QED
    BY <1>3 DEF q, r

\* list_dealloc and dict_dealloc drop the first item.
LEMMA CountTail ==
    ASSUME NEW s \in Seq(Objs), s # <<>>, NEW o
    PROVE  /\ Head(s) \in Objs /\ Tail(s) \in Seq(Objs) /\ Len(Tail(s)) = Len(s) - 1
           /\ Count(s, o) = Count(<<Head(s)>>, o) + Count(Tail(s), o)
  <1>1. /\ Head(s) \in Objs /\ Tail(s) \in Seq(Objs)
        /\ Len(Tail(s)) = Len(s) - 1 /\ Len(s) \in Nat \ {0}
        /\ \A i \in 1..Len(Tail(s)) : Tail(s)[i] = s[i + 1]
    BY HeadTailProperties, EmptySeq
  <1>2. <<Head(s)>> \in Seq(Objs)
    BY <1>1
  <1>3. <<Head(s)>> \o Tail(s) = s
    <2>1. /\ <<Head(s)>> \o Tail(s) \in Seq(Objs)
          /\ Len(<<Head(s)>> \o Tail(s)) = Len(s)
          /\ \A i \in 1..Len(s) : (<<Head(s)>> \o Tail(s))[i] =
                IF i <= 1 THEN Head(s) ELSE Tail(s)[i - 1]
      BY <1>1, <1>2, ConcatProperties
    <2>2. ASSUME NEW i \in 1..Len(s) PROVE (<<Head(s)>> \o Tail(s))[i] = s[i]
      BY <2>1, <1>1
    <2> QED
      BY <2>1, <2>2, SeqEqual
  <1>4. Count(<<Head(s)>> \o Tail(s), o) = Count(<<Head(s)>>, o) + Count(Tail(s), o)
    BY <1>1, <1>2, CountConcat
  <1> QED
    BY <1>1, <1>3, <1>4

\* Removing the item at k takes away one occurrence of it.
LEMMA CountRest ==
    ASSUME NEW s \in Seq(Objs), NEW k \in 1..Len(s), NEW o
    PROVE  /\ s[k] \in Objs /\ Rest(s, k) \in Seq(Objs) /\ Len(Rest(s, k)) = Len(s) - 1
           /\ Count(s, o) = Count(<<s[k]>>, o) + Count(Rest(s, k), o)
  <1> DEFINE front == SubSeq(s, 1, k - 1)
             back  == SubSeq(s, k + 1, Len(s))
  <1>1. Len(s) \in Nat /\ s[k] \in Objs /\ <<s[k]>> \in Seq(Objs)
    BY LenProperties, ElementOfSeq
  <1>2. /\ front \in Seq(Objs) /\ Len(front) = k - 1
        /\ back \in Seq(Objs) /\ Len(back) = Len(s) - k
    <2>1. \A i \in 1..(k - 1) : s[i] \in Objs
      BY <1>1, ElementOfSeq
    <2>2. \A i \in (k + 1)..Len(s) : s[i] \in Objs
      BY <1>1, ElementOfSeq
    <2>3. front \in Seq(Objs) /\ Len(front) = IF 1 <= k - 1 THEN k - 1 - 1 + 1 ELSE 0
      BY <1>1, <2>1, SubSeqProperties
    <2>4. back \in Seq(Objs) /\ Len(back) = IF k + 1 <= Len(s) THEN Len(s) - (k + 1) + 1 ELSE 0
      BY <1>1, <2>2, SubSeqProperties
    <2> QED
      BY <1>1, <2>3, <2>4
  <1>3. front \o SubSeq(s, k, Len(s)) = s
    <2>0. 1 \in 1..(Len(s) + 1) /\ k - 1 \in (1 - 1)..Len(s) /\ Len(s) \in (k - 1)..Len(s)
      BY <1>1
    <2>1. SubSeq(s, 1, k - 1) \o SubSeq(s, (k - 1) + 1, Len(s)) = SubSeq(s, 1, Len(s))
      BY <2>0, ConcatAdjacentSubSeq
    <2>2. (k - 1) + 1 = k
      BY <1>1
    <2> QED
      BY <2>1, <2>2, SubSeqFull
  <1>4. SubSeq(s, k, Len(s)) = <<s[k]>> \o back
    BY <1>1, SubSeqRecursiveFirst
  <1>5. <<s[k]>> \o back \in Seq(Objs)
    BY <1>1, <1>2, ConcatProperties
  <1>6. Count(s, o) = Count(front, o) + (Count(<<s[k]>>, o) + Count(back, o))
    <2>1. Count(<<s[k]>> \o back, o) = Count(<<s[k]>>, o) + Count(back, o)
      BY <1>1, <1>2, CountConcat
    <2>2. Count(front \o (<<s[k]>> \o back), o) = Count(front, o) + Count(<<s[k]>> \o back, o)
      <3> DEFINE q == <<s[k]>> \o back
      <3>1. front \in Seq(Objs) /\ q \in Seq(Objs)
        BY <1>2, <1>5
      <3> HIDE DEF front, q
      <3>2. Count(front \o q, o) = Count(front, o) + Count(q, o)
        BY <3>1, CountConcat
      <3> QED
        BY <3>2 DEF q
    <2> QED
      BY <1>3, <1>4, <2>1, <2>2
  <1>7. /\ Rest(s, k) \in Seq(Objs) /\ Len(Rest(s, k)) = Len(front) + Len(back)
        /\ Count(Rest(s, k), o) = Count(front, o) + Count(back, o)
    BY <1>2, ConcatProperties, CountConcat DEF Rest
  <1>8. Count(front, o) \in Nat /\ Count(back, o) \in Nat /\ Count(<<s[k]>>, o) \in Nat
    BY <1>1, <1>2, CountIsNat
  <1> HIDE DEF front, back
  <1> QED
    BY <1>1, <1>2, <1>6, <1>7, <1>8

------------------------------------------------------------------------------
(* How often an object is stored in containers.                              *)

Contents == {it \in [Containers -> Seq(Objs)] : \A c \in Containers : Len(it[c]) <= MaxItems}

Where(it, o) == {p \in Containers \X (1..MaxItems) : p[2] <= Len(it[p[1]]) /\ it[p[1]][p[2]] = o}
Elsewhere(it, c, o) == {p \in Where(it, o) : p[1] # c}

\* An object is stored finitely often.
LEMMA WhereFinite ==
    ASSUME NEW it, NEW o
    PROVE  /\ IsFiniteSet(Where(it, o)) /\ Cardinality(Where(it, o)) \in Nat
           /\ Cardinality(Where(it, o)) = 0 <=> Where(it, o) = {}
  <1>1. IsFiniteSet(Containers)
    BY ObjectsAssumption, FS_Subset
  <1>2. IsFiniteSet(1..MaxItems)
    BY ObjectsAssumption, FS_Interval
  <1>3. IsFiniteSet(Containers \X (1..MaxItems))
    BY <1>1, <1>2, FS_Product
  <1>4. Where(it, o) \in SUBSET (Containers \X (1..MaxItems))
    BY DEF Where
  <1>5. IsFiniteSet(Where(it, o))
    BY <1>3, <1>4, FS_Subset
  <1> QED
    BY <1>5, FS_CardinalityType, FS_EmptySet

\* It is stored in c and elsewhere.
LEMMA StoredSplit ==
    ASSUME NEW it \in Contents, NEW c \in Containers, NEW o
    PROVE  /\ Cardinality(Elsewhere(it, c, o)) \in Nat
           /\ Cardinality(Where(it, o)) = Cardinality(Elsewhere(it, c, o)) + Count(it[c], o)
  <1> DEFINE A == Elsewhere(it, c, o)
             B == Places(it[c], o)
             D == Where(it, o) \ A
  <1>1. /\ it[c] \in Seq(Objs) /\ Len(it[c]) \in Nat /\ Len(it[c]) <= MaxItems
        /\ MaxItems \in Nat
    BY LenProperties, ObjectsAssumption DEF Contents
  <1>2. IsFiniteSet(B) /\ Count(it[c], o) = Cardinality(B)
    BY <1>1, CountIsNat
  <1>3. IsFiniteSet(A) /\ IsFiniteSet(D)
    BY WhereFinite, FS_Subset DEF Elsewhere
  <1>4. A \cup D = Where(it, o) /\ A \cap D = {}
    BY DEF Elsewhere
  <1>5. Cardinality(D) = Cardinality(B)
    <2> DEFINE f == [i \in B |-> <<c, i>>]
    <2>1. ASSUME NEW i \in B PROVE <<c, i>> \in D
      BY <1>1 DEF Places, Where, Elsewhere
    <2>2. f \in [B -> D]
      BY <2>1
    <2>3. \A i, j \in B : f[i] = f[j] => i = j
      OBVIOUS
    <2>4. ASSUME NEW p \in D PROVE \E i \in B : f[i] = p
      <3>1. /\ p \in Containers \X (1..MaxItems) /\ p[1] = c
            /\ p[2] <= Len(it[c]) /\ it[c][p[2]] = o
        BY DEF Where, Elsewhere
      <3>2. p = <<c, p[2]>> /\ p[2] \in 1..MaxItems
        BY <3>1
      <3>3. p[2] \in B
        BY <1>1, <3>1, <3>2 DEF Places
      <3> QED
        BY <3>2, <3>3
    <2>5. f \in Bijection(B, D)
      BY <2>2, <2>3, <2>4 DEF Bijection, Injection, IsInjective, Surjection
    <2> QED
      BY <1>2, <2>5, FS_Bijection DEF ExistsBijection
  <1>6. Cardinality(A) \in Nat /\ Cardinality(D) \in Nat /\ Cardinality(A \cap D) = 0
    BY <1>3, <1>4, FS_CardinalityType, FS_EmptySet
  <1> HIDE DEF A, B, D
  <1>7. Cardinality(A \cup D) = Cardinality(A) + Cardinality(D) - Cardinality(A \cap D)
    BY <1>3, FS_Union
  <1>8. Cardinality(Where(it, o)) = Cardinality(A) + Count(it[c], o)
    <2>1. Cardinality(Where(it, o)) = Cardinality(A \cup D)
      BY <1>4
    <2> QED
      BY <2>1, <1>2, <1>5, <1>6, <1>7
  <1> QED
    BY <1>6, <1>8 DEF A

\* new is it with s as what c holds.
Stores(new, it, c, s) == new = [it EXCEPT ![c] = s]

\* Changing what c holds changes the number by what c held before and holds now.
LEMMA StoredBooks ==
    ASSUME NEW it \in Contents, NEW c \in Containers, NEW s \in Seq(Objs), Len(s) <= MaxItems, NEW o,
           NEW new, Stores(new, it, c, s)
    PROVE  /\ new \in Contents
           /\ Cardinality(Where(new, o)) \in Nat /\ Cardinality(Where(it, o)) \in Nat
           /\ Cardinality(Where(new, o)) + Count(it[c], o) = Cardinality(Where(it, o)) + Count(s, o)
  <1>1. new \in Contents /\ new[c] = s /\ \A d \in Containers \ {c} : new[d] = it[d]
    BY DEF Contents, Stores
  <1>2. Elsewhere(new, c, o) = Elsewhere(it, c, o)
    BY <1>1 DEF Elsewhere, Where
  <1>3. /\ Cardinality(Where(it, o)) = Cardinality(Elsewhere(it, c, o)) + Count(it[c], o)
        /\ Cardinality(Elsewhere(it, c, o)) \in Nat
    BY StoredSplit
  <1>4. Cardinality(Where(new, o)) = Cardinality(Elsewhere(it, c, o)) + Count(s, o)
    <2>1. Cardinality(Where(new, o)) = Cardinality(Elsewhere(new, c, o)) + Count(new[c], o)
      BY <1>1, StoredSplit
    <2> QED
      BY <2>1, <1>1, <1>2
  <1>5. Count(it[c], o) \in Nat /\ Count(s, o) \in Nat
    BY CountIsNat DEF Contents
  <1>6. Cardinality(Where(new, o)) \in Nat /\ Cardinality(Where(it, o)) \in Nat
    BY WhereFinite
  <1>7. Cardinality(Where(new, o)) + Count(it[c], o) = Cardinality(Where(it, o)) + Count(s, o)
    BY <1>3, <1>4, <1>5
  <1> QED
    BY <1>1, <1>6, <1>7

\* The same, with the change written as the actions write it.
LEMMA StoredChange ==
    ASSUME NEW it \in Contents, NEW c \in Containers, NEW s \in Seq(Objs), Len(s) <= MaxItems, NEW o,
           NEW new, new = [it EXCEPT ![c] = s]
    PROVE  /\ new \in Contents
           /\ Cardinality(Where(new, o)) \in Nat /\ Cardinality(Where(it, o)) \in Nat
           /\ Cardinality(Where(new, o)) + Count(it[c], o) = Cardinality(Where(it, o)) + Count(s, o)
  <1>1. Stores(new, it, c, s)
    BY DEF Stores
  <1> QED
    BY <1>1, StoredBooks

------------------------------------------------------------------------------
(* The books.                                                                *)

Pointer == [obj : Objs \cup {None}, borrowed : BOOLEAN]
Cursor  == [obj : Objs \cup {None}, borrowed : BOOLEAN, index : Nat, size : Nat, rest : Seq(Objs)]

Types ==
    /\ life \in [Objs -> {"none", "live", "freed"}] /\ refs \in [Objs -> Nat]
    /\ held \in SUBSET Objs /\ items \in Contents
    /\ news \in [Objs -> Nat] /\ steals \in [Objs -> Nat]

Holds(h, o) == IF o \in h THEN 1 ELSE 0
Balance(o)  == Cardinality(Where(items, o)) + Holds(held, o) + news[o] - steals[o]

\* Every count is balanced, and the objects with a positive count are the live ones.
Books == \A o \in Objs : refs[o] = Balance(o) /\ (Live(o) <=> refs[o] > 0)

\* Nobody has an object that was never made.
Unborn ==
    \A o \in Objs : Fresh(o) =>
        /\ Where(items, o) = {} /\ o \notin held /\ news[o] = 0 /\ steals[o] = 0
        /\ o \in Containers => items[o] = <<>>

\* A wrapper's pointer that was not borrowed came with a reference ...
WrappersInv ==
    /\ wrapper \in [Wrappers -> Pointer]
    /\ \A w \in Wrappers : wrapper[w].obj # None /\ ~wrapper[w].borrowed => news[wrapper[w].obj] > 0

\* ... and so did an iterator's, and every pair of PyDict_Items.
ItersInv ==
    /\ iter \in [Iters -> Cursor]
    /\ \A i \in Iters :
          /\ iter[i].obj # None /\ ~iter[i].borrowed => news[iter[i].obj] > 0
          /\ \A k \in 1..Len(iter[i].rest) : news[iter[i].rest[k]] > 0

Ledger == Types /\ Books /\ Unborn
BridgeInv == Ledger /\ WrappersInv /\ ItersInv

\* The invariant implies the three properties of the bridge's references.
LEMMA BridgeInvImplies == BridgeInv => RefsAccounted /\ OwnedSafe /\ PythonSafe
  <1> SUFFICES ASSUME BridgeInv PROVE RefsAccounted /\ OwnedSafe /\ PythonSafe
    OBVIOUS
  <1>1. ASSUME NEW o \in Objs
        PROVE  /\ Stored(o) = Where(items, o) /\ Cardinality(Stored(o)) \in Nat
               /\ Cardinality(Stored(o)) = 0 <=> Stored(o) = {}
    <2>1. Stored(o) = Where(items, o)
      BY DEF Stored, Where
    <2> QED
      BY <2>1, WhereFinite
  <1>2. ASSUME NEW o \in Objs
        PROVE  /\ refs[o] = Cardinality(Stored(o)) + Holds(held, o) + news[o] - steals[o]
               /\ Live(o) <=> refs[o] > 0
               /\ refs[o] \in Nat /\ news[o] \in Nat /\ steals[o] \in Nat
    BY <1>1 DEF BridgeInv, Ledger, Types, Books, Balance
  <1>3. RefsAccounted
    BY <1>2 DEF RefsAccounted, Holds
  <1>4. ASSUME NEW o \in Objs, life[o] = "freed"
        PROVE  Cardinality(Stored(o)) + Holds(held, o) + news[o] = steals[o]
    BY <1>1, <1>2, <1>4 DEF Live, Holds
  <1>5. PythonSafe
    BY <1>1, <1>2, <1>4 DEF PythonSafe, Holds
  <1>6. OwnedSafe
    <2>1. ASSUME NEW o \in Objs, life[o] = "freed" PROVE steals[o] >= news[o]
      BY <1>1, <1>2, <1>4, <2>1 DEF Holds
    <2>2. ASSUME NEW w \in Wrappers, wrapper[w].obj # None, ~wrapper[w].borrowed
          PROVE  wrapper[w].obj \in Objs /\ news[wrapper[w].obj] > 0
      BY <2>2 DEF BridgeInv, WrappersInv, Pointer
    <2>3. ASSUME NEW i \in Iters, iter[i].obj # None, ~iter[i].borrowed
          PROVE  iter[i].obj \in Objs /\ news[iter[i].obj] > 0
      BY <2>3 DEF BridgeInv, ItersInv, Cursor
    <2> QED
      BY <2>1, <2>2, <2>3 DEF OwnedSafe
  <1> QED
    BY <1>3, <1>5, <1>6

\* At first there are no objects.
LEMMA InitBridge == Init => BridgeInv
  <1> SUFFICES ASSUME Init PROVE BridgeInv
    OBVIOUS
  <1>1. items \in Contents /\ \A c \in Containers : items[c] = <<>>
    BY ObjectsAssumption DEF Init, Contents
  <1>2. ASSUME NEW o \in Objs PROVE Where(items, o) = {} /\ Cardinality(Where(items, o)) = 0
    <2>1. Where(items, o) = {}
      BY <1>1, ObjectsAssumption DEF Where
    <2> QED
      BY <2>1, FS_EmptySet
  <1>3. Types /\ WrappersInv /\ ItersInv
    BY <1>1 DEF Init, Types, WrappersInv, ItersInv, Pointer, Cursor, Null, NoIter
  <1>4. Books
    BY <1>2 DEF Init, Books, Balance, Holds, Live
  <1>5. Unborn
    BY <1>1, <1>2 DEF Init, Unborn
  <1> QED
    BY <1>3, <1>4, <1>5 DEF BridgeInv, Ledger

\* The rest of a step that changes the reference counts, once its books are balanced.
Settles(o) ==
    /\ Live(o)' <=> refs'[o] > 0
    /\ Fresh(o)' => Fresh(o) /\ (o \in held' => o \in held) /\ news'[o] = news[o] /\ steals'[o] = steals[o]

\* A step that leaves the containers alone keeps the ledger if it balances its changes.
LEMMA SameItems ==
    ASSUME Ledger, Types', items' = items,
           \A o \in Objs :
              /\ refs'[o] - refs[o] = (Holds(held', o) - Holds(held, o)) + (news'[o] - news[o])
                                        - (steals'[o] - steals[o])
              /\ Settles(o)
    PROVE  Ledger'
  <1>1. ASSUME NEW o \in Objs PROVE refs'[o] = Balance(o)'
    <2>1. Cardinality(Where(items, o)) \in Nat
      BY WhereFinite
    <2>2. /\ refs[o] = Cardinality(Where(items, o)) + Holds(held, o) + news[o] - steals[o]
          /\ refs[o] \in Nat /\ refs'[o] \in Nat /\ news[o] \in Nat /\ news'[o] \in Nat
          /\ steals[o] \in Nat /\ steals'[o] \in Nat
          /\ Holds(held, o) \in Nat /\ Holds(held', o) \in Nat
      BY DEF Ledger, Books, Balance, Types, Holds
    <2> QED
      BY <2>1, <2>2 DEF Balance
  <1>2. Books'
    BY <1>1 DEF Books, Settles
  <1>3. Unborn'
    BY DEF Ledger, Unborn, Settles, Fresh
  <1> QED
    BY <1>2, <1>3 DEF Ledger

\* A step after which the container c holds s, with balanced changes.
Refills(c, s) ==
    /\ items' = [items EXCEPT ![c] = s] /\ life'[c] # "none"
    /\ \A o \in Objs :
          /\ refs'[o] - refs[o] = (Count(s, o) - Count(items[c], o))
                                    + (Holds(held', o) - Holds(held, o)) + (news'[o] - news[o])
                                    - (steals'[o] - steals[o])
          /\ Settles(o)
          /\ Fresh(o)' => Count(s, o) = 0

\* Such a step keeps the ledger.
LEMMA NewItems ==
    ASSUME Ledger, Types', NEW c \in Containers, NEW s \in Seq(Objs), Len(s) <= MaxItems,
           Refills(c, s)
    PROVE  Ledger'
  <1>0. items \in Contents /\ items[c] \in Seq(Objs)
    BY DEF Ledger, Types, Contents
  <1>1. ASSUME NEW o \in Objs
        PROVE  /\ Cardinality(Where(items', o)) \in Nat /\ Cardinality(Where(items, o)) \in Nat
               /\ Cardinality(Where(items', o)) + Count(items[c], o) = Cardinality(Where(items, o)) + Count(s, o)
               /\ Count(items[c], o) \in Nat /\ Count(s, o) \in Nat
    <2>1. Count(items[c], o) \in Nat /\ Count(s, o) \in Nat
      BY <1>0, CountIsNat
    <2> DEFINE it  == items
               new == items'
    <2>2. it \in Contents /\ Stores(new, it, c, s)
      BY <1>0 DEF Refills, Stores
    <2> HIDE DEF it, new
    <2>3. /\ Cardinality(Where(new, o)) \in Nat /\ Cardinality(Where(it, o)) \in Nat
          /\ Cardinality(Where(new, o)) + Count(it[c], o) = Cardinality(Where(it, o)) + Count(s, o)
      BY <2>2, StoredBooks
    <2> QED
      BY <2>1, <2>3 DEF it, new
  <1>2. ASSUME NEW o \in Objs PROVE refs'[o] = Balance(o)'
    <2>1. /\ Cardinality(Where(items', o)) \in Nat /\ Cardinality(Where(items, o)) \in Nat
          /\ Cardinality(Where(items', o)) + Count(items[c], o) = Cardinality(Where(items, o)) + Count(s, o)
          /\ Count(items[c], o) \in Nat /\ Count(s, o) \in Nat
      BY <1>1
    <2>2. /\ refs[o] = Cardinality(Where(items, o)) + Holds(held, o) + news[o] - steals[o]
          /\ refs[o] \in Nat /\ refs'[o] \in Nat /\ news[o] \in Nat /\ news'[o] \in Nat
          /\ steals[o] \in Nat /\ steals'[o] \in Nat
          /\ Holds(held, o) \in Nat /\ Holds(held', o) \in Nat
      BY DEF Ledger, Books, Balance, Types, Holds
    <2>3. refs'[o] - refs[o] = (Count(s, o) - Count(items[c], o)) + (Holds(held', o) - Holds(held, o))
                                  + (news'[o] - news[o]) - (steals'[o] - steals[o])
      BY DEF Refills
    <2>4. refs'[o] = Cardinality(Where(items', o)) + Holds(held', o) + news'[o] - steals'[o]
      <3> DEFINE w  == Cardinality(Where(items, o))
                 w1 == Cardinality(Where(items', o))
                 h  == Holds(held, o)
                 h1 == Holds(held', o)
                 a  == Count(items[c], o)
                 b  == Count(s, o)
                 r  == refs[o]
                 r1 == refs'[o]
                 n  == news[o]
                 n1 == news'[o]
                 l  == steals[o]
                 l1 == steals'[o]
      <3>1. /\ w \in Nat /\ w1 \in Nat /\ h \in Nat /\ h1 \in Nat /\ a \in Nat /\ b \in Nat
            /\ r \in Nat /\ r1 \in Nat /\ n \in Nat /\ n1 \in Nat /\ l \in Nat /\ l1 \in Nat
            /\ w1 + a = w + b
            /\ r = w + h + n - l
            /\ r1 - r = (b - a) + (h1 - h) + (n1 - n) - (l1 - l)
        BY <2>1, <2>2, <2>3
      <3> HIDE DEF w, w1, h, h1, a, b, r, r1, n, n1, l, l1
      <3>2. r1 = w1 + h1 + n1 - l1
        BY <3>1
      <3> QED
        BY <3>2 DEF w1, h1, r1, n1, l1
    <2> QED
      BY <2>4 DEF Balance
  <1>3. Books'
    BY <1>2 DEF Books, Refills, Settles
  <1>4. ASSUME NEW o \in Objs, Fresh(o)'
        PROVE  /\ Where(items', o) = {} /\ o \notin held' /\ news'[o] = 0 /\ steals'[o] = 0
               /\ o \in Containers => items'[o] = <<>>
    <2>1. /\ Fresh(o) /\ Where(items, o) = {} /\ o \notin held' /\ news'[o] = 0 /\ steals'[o] = 0
          /\ o \in Containers => items[o] = <<>>
      BY <1>4 DEF Ledger, Unborn, Refills, Settles
    <2>2. o # c
      BY <1>4 DEF Fresh, Refills
    <2>3. Cardinality(Where(items', o)) = 0
      <3>1. Cardinality(Where(items, o)) = 0 /\ Count(s, o) = 0
        BY <1>4, <2>1, FS_EmptySet DEF Refills
      <3>2. /\ Cardinality(Where(items', o)) \in Nat /\ Cardinality(Where(items, o)) \in Nat
            /\ Cardinality(Where(items', o)) + Count(items[c], o) = Cardinality(Where(items, o)) + Count(s, o)
            /\ Count(items[c], o) \in Nat
        BY <1>1
      <3> QED
        BY <3>1, <3>2
    <2>4. Where(items', o) = {}
      BY <2>3, WhereFinite
    <2>5. o \in Containers => items'[o] = items[o]
      BY <2>2, <1>0 DEF Contents, Refills
    <2> QED
      BY <2>1, <2>4, <2>5
  <1>5. Unborn'
    BY <1>4 DEF Unborn
  <1> QED
    BY <1>3, <1>5 DEF Ledger

------------------------------------------------------------------------------
(* The effects of the C API on the counts and on the pointers of scripts.    *)

\* New, taken and stolen references only make the counters grow.
LEMMA CountedFacts ==
    ASSUME Types, NEW s \in Seq(Objs)
    PROVE  /\ Counted(s) => refs' \in [Objs -> Nat] /\ \A o \in Objs : refs'[o] = refs[o] + Count(s, o)
           /\ Taken(s) => news' \in [Objs -> Nat] /\ \A o \in Objs : news'[o] = news[o] + Count(s, o)
           /\ Stolen(s) => steals' \in [Objs -> Nat] /\ \A o \in Objs : steals'[o] = steals[o] + Count(s, o)
  <1>1. \A o \in Objs : Count(s, o) \in Nat
    BY CountIsNat
  <1>2. refs \in [Objs -> Nat] /\ news \in [Objs -> Nat] /\ steals \in [Objs -> Nat]
    BY DEF Types
  <1> QED
    BY <1>1, <1>2 DEF Counted, Taken, Stolen

\* Py_DECREF of a live object.
LEMMA DecrefFacts ==
    ASSUME Ledger, NEW o \in Objs, Live(o), Decref(o)
    PROVE  /\ refs' \in [Objs -> Nat] /\ life' \in [Objs -> {"none", "live", "freed"}]
           /\ \A x \in Objs : refs'[x] = refs[x] - Count(<<o>>, x) /\ (Live(x)' <=> refs'[x] > 0)
           /\ \A x \in Objs : Fresh(x)' <=> Fresh(x)
  <1>1. /\ refs \in [Objs -> Nat] /\ life \in [Objs -> {"none", "live", "freed"}]
        /\ refs[o] > 0 /\ \A x \in Objs : Live(x) <=> refs[x] > 0
    BY DEF Ledger, Types, Books
  <1>2. \A x \in Objs : Count(<<o>>, x) = IF o = x THEN 1 ELSE 0
    BY CountFew
  <1> QED
    BY <1>1, <1>2 DEF Decref, Live, Fresh

\* As long as the bridge only gets references, its pointers stay what they are.
Grows == \A o \in Objs : news[o] \in Nat /\ news'[o] \in Nat /\ news'[o] >= news[o]

\* A step that leaves the wrappers alone ...
LEMMA SameWrappers == WrappersInv /\ Grows /\ wrapper' = wrapper => WrappersInv'
  <1> SUFFICES ASSUME WrappersInv, Grows, wrapper' = wrapper PROVE WrappersInv'
    OBVIOUS
  <1>1. ASSUME NEW w \in Wrappers, wrapper[w].obj # None, ~wrapper[w].borrowed
        PROVE  news'[wrapper[w].obj] > 0
    BY <1>1 DEF WrappersInv, Pointer, Grows
  <1> QED
    BY <1>1 DEF WrappersInv

\* ... or clears one.
LEMMA ClearedWrapper ==
    ASSUME WrappersInv, Grows, NEW w \in Wrappers, wrapper' = [wrapper EXCEPT ![w] = Null]
    PROVE  WrappersInv'
  <1>1. wrapper' \in [Wrappers -> Pointer]
    BY DEF WrappersInv, Pointer, Null
  <1>2. ASSUME NEW u \in Wrappers, wrapper'[u].obj # None, ~wrapper'[u].borrowed
        PROVE  news'[wrapper'[u].obj] > 0
    <2>1. u # w /\ wrapper'[u] = wrapper[u]
      BY <1>2 DEF WrappersInv, Null
    <2> QED
      BY <1>2, <2>1 DEF WrappersInv, Pointer, Grows
  <1> QED
    BY <1>1, <1>2 DEF WrappersInv

\* A new wrapper, with its own reference or a borrowed one.
LEMMA NewWrapper ==
    ASSUME WrappersInv, Grows, NEW w \in Wrappers, NEW o \in Objs, NEW b \in BOOLEAN,
           Point(w, o, b), b \/ news'[o] > 0
    PROVE  WrappersInv'
  <1>1. /\ wrapper' \in [Wrappers -> Pointer]
        /\ wrapper'[w].obj = o /\ wrapper'[w].borrowed = b
        /\ \A u \in Wrappers \ {w} : wrapper'[u] = wrapper[u]
    BY DEF Point, WrappersInv, Pointer
  <1>2. ASSUME NEW u \in Wrappers, wrapper'[u].obj # None, ~wrapper'[u].borrowed
        PROVE  news'[wrapper'[u].obj] > 0
    <2>1. CASE u = w
      BY <1>1, <1>2, <2>1
    <2>2. CASE u # w
      BY <1>1, <1>2, <2>2 DEF WrappersInv, Pointer, Grows
    <2> QED
      BY <2>1, <2>2
  <1> QED
    BY <1>1, <1>2 DEF WrappersInv

\* What an iterator may be set to.
Backed(cursor) ==
    /\ cursor \in Cursor
    /\ cursor.obj # None /\ ~cursor.borrowed => news'[cursor.obj] > 0
    /\ \A k \in 1..Len(cursor.rest) : news'[cursor.rest[k]] > 0

\* An iterator stays backed as the bridge gets more references.
LEMMA StaysBacked == ItersInv /\ Grows => \A i \in Iters : Backed(iter[i])
  <1> SUFFICES ASSUME ItersInv, Grows, NEW i \in Iters PROVE Backed(iter[i])
    OBVIOUS
  <1>1. ASSUME iter[i].obj # None, ~iter[i].borrowed PROVE news'[iter[i].obj] > 0
    BY <1>1 DEF ItersInv, Cursor, Grows
  <1>2. ASSUME NEW k \in 1..Len(iter[i].rest) PROVE news'[iter[i].rest[k]] > 0
    <2>1. iter[i].rest[k] \in Objs
      BY ElementOfSeq DEF ItersInv, Cursor
    <2> QED
      BY <2>1 DEF ItersInv, Grows
  <1> QED
    BY <1>1, <1>2 DEF Backed, ItersInv

\* A step that leaves the iterators alone, or sets one to what is backed.
LEMMA NewIters ==
    ASSUME ItersInv, Grows,
           \/ iter' = iter
           \/ \E i \in Iters : \E cursor : Backed(cursor) /\ iter' = [iter EXCEPT ![i] = cursor]
    PROVE  ItersInv'
  <1>1. \A i \in Iters : Backed(iter'[i])
    BY StaysBacked DEF ItersInv
  <1>2. iter' \in [Iters -> Cursor]
    BY DEF ItersInv, Backed
  <1> QED
    BY <1>1, <1>2 DEF ItersInv, Backed

\* References to live objects that the bridge is given: a result, or the pairs of
\* PyDict_Items.
LEMMA TakeReferences ==
    ASSUME Ledger, NEW s \in Seq(Objs), \A k \in 1..Len(s) : Live(s[k]),
           Counted(s), Taken(s), UNCHANGED <<life, held, items, steals>>
    PROVE  Ledger' /\ Grows /\ \A k \in 1..Len(s) : news'[s[k]] > 0
  <1>0. Types
    BY DEF Ledger
  <1>1. /\ refs' \in [Objs -> Nat] /\ \A o \in Objs : refs'[o] = refs[o] + Count(s, o)
        /\ news' \in [Objs -> Nat] /\ \A o \in Objs : news'[o] = news[o] + Count(s, o)
    BY <1>0, CountedFacts
  <1>2. Types'
    BY <1>0, <1>1 DEF Types
  <1>3. ASSUME NEW o \in Objs
        PROVE  /\ Count(s, o) \in Nat /\ refs[o] \in Nat /\ news[o] \in Nat
               /\ Count(s, o) > 0 => Live(o)
               /\ Live(o) <=> refs[o] > 0
    <2>1. Count(s, o) \in Nat /\ (Count(s, o) = 0 <=> \A k \in 1..Len(s) : s[k] # o)
      BY CountIsNat
    <2> QED
      BY <2>1, <1>0 DEF Ledger, Books, Types
  <1>4. ASSUME NEW o \in Objs
        PROVE  /\ refs'[o] - refs[o] = (Holds(held', o) - Holds(held, o)) + (news'[o] - news[o])
                                         - (steals'[o] - steals[o])
               /\ Settles(o)
    <2>1. /\ Live(o)' <=> Live(o)
          /\ Fresh(o)' <=> Fresh(o)
          /\ Fresh(o) => ~Live(o)
      BY DEF Live, Fresh
    <2>2. Settles(o)
      BY <1>1, <1>3, <2>1 DEF Settles
    <2>3. steals[o] \in Nat /\ Holds(held, o) \in Nat
      BY <1>0 DEF Types, Holds
    <2>4. refs'[o] - refs[o] = (Holds(held', o) - Holds(held, o)) + (news'[o] - news[o]) - (steals'[o] - steals[o])
      <3> DEFINE n == Count(s, o)
                 h == Holds(held, o)
                 v == steals[o]
                 a == refs[o]
                 b == news[o]
      <3>1. /\ refs'[o] = a + n /\ news'[o] = b + n /\ steals'[o] = v /\ Holds(held', o) = h
            /\ n \in Nat /\ a \in Nat /\ b \in Nat /\ v \in Nat /\ h \in Nat
        BY <1>1, <1>3, <2>3
      <3> HIDE DEF n, h, v, a, b
      <3>2. (a + n) - a = (h - h) + ((b + n) - b) - (v - v)
        BY <3>1
      <3>3. refs'[o] - a = (Holds(held', o) - h) + (news'[o] - b) - (steals'[o] - v)
        BY <3>1, <3>2
      <3> QED
        BY <3>3 DEF h, v, a, b
    <2> QED
      BY <2>2, <2>4
  <1>5. Ledger'
    BY <1>2, <1>4, SameItems
  <1>6. Grows
    BY <1>1, <1>3 DEF Grows
  <1>7. ASSUME NEW k \in 1..Len(s) PROVE news'[s[k]] > 0
    <2>1. s[k] \in Objs
      BY ElementOfSeq
    <2>2. Count(s, s[k]) # 0
      BY CountIsNat
    <2>3. /\ Count(s, s[k]) \in Nat /\ news[s[k]] \in Nat
          /\ news'[s[k]] = news[s[k]] + Count(s, s[k])
      BY <2>1, <1>1, <1>3
    <2> QED
      BY <2>2, <2>3
  <1> QED
    BY <1>5, <1>6, <1>7

\* A step that touches neither objects nor counts.
LEMMA SameLedger ==
    ASSUME Ledger, UNCHANGED <<life, refs, held, items, news, steals>>
    PROVE  Ledger' /\ Grows
  <1>1. Types' /\ Books' /\ Unborn'
    BY DEF Ledger, Types, Books, Unborn, Balance, Live, Fresh
  <1>2. Grows
    BY DEF Ledger, Types, Grows
  <1> QED
    BY <1>1, <1>2 DEF Ledger

\* The result of a call that is an object of its own.
LEMMA NewObjectLedger ==
    ASSUME Ledger, NEW o \in Objs, Fresh(o), life' = [life EXCEPT ![o] = "live"],
           Counted(<<o>>), Taken(<<o>>), UNCHANGED <<held, items, steals>>
    PROVE  Ledger' /\ Grows /\ news'[o] > 0
  <1>0. Types /\ <<o>> \in Seq(Objs)
    BY DEF Ledger
  <1>1. /\ refs' \in [Objs -> Nat] /\ \A x \in Objs : refs'[x] = refs[x] + Count(<<o>>, x)
        /\ news' \in [Objs -> Nat] /\ \A x \in Objs : news'[x] = news[x] + Count(<<o>>, x)
    BY <1>0, CountedFacts
  <1>2. Types'
    BY <1>0, <1>1 DEF Types
  <1>3. ASSUME NEW x \in Objs
        PROVE  /\ refs'[x] - refs[x] = (Holds(held', x) - Holds(held, x)) + (news'[x] - news[x])
                                         - (steals'[x] - steals[x])
               /\ Settles(x)
               /\ news'[x] >= news[x] /\ news[x] \in Nat
    <2>1. Count(<<o>>, x) = IF o = x THEN 1 ELSE 0
      BY CountFew
    <2>2. /\ refs[x] \in Nat /\ news[x] \in Nat /\ steals[x] \in Nat /\ Holds(held, x) \in Nat
          /\ Live(x) <=> refs[x] > 0
      BY <1>0 DEF Types, Holds, Ledger, Books
    <2>3. life'[x] = IF x = o THEN "live" ELSE life[x]
      BY <1>0 DEF Types
    <2>4. Settles(x)
      BY <1>1, <2>1, <2>2, <2>3 DEF Settles, Live, Fresh
    <2>5. refs'[x] - refs[x] = (Holds(held', x) - Holds(held, x)) + (news'[x] - news[x]) - (steals'[x] - steals[x])
      <3>1. /\ refs'[x] = refs[x] + Count(<<o>>, x) /\ news'[x] = news[x] + Count(<<o>>, x)
            /\ steals'[x] = steals[x] /\ Holds(held', x) = Holds(held, x) /\ Count(<<o>>, x) \in Nat
        BY <1>1, <2>1
      <3> QED
        BY <2>2, <3>1
    <2>6. news'[x] >= news[x]
      BY <1>1, <2>1, <2>2
    <2> QED
      BY <2>2, <2>4, <2>5, <2>6
  <1>4. Ledger'
    BY <1>2, <1>3, SameItems
  <1>5. news'[o] > 0
    <2>1. Count(<<o>>, o) = 1 /\ news[o] \in Nat /\ news'[o] = news[o] + Count(<<o>>, o)
      BY <1>1, <1>3, CountFew
    <2> QED
      BY <2>1
  <1> QED
    BY <1>1, <1>3, <1>4, <1>5 DEF Grows

\* Of the arguments ns of a format at most all occurrences of an object are its own.
LEMMA AmongCount ==
    ASSUME NEW s \in Seq(Objs), NEW ns \in SUBSET (1..Len(s)), NEW o
    PROVE  Cardinality({k \in ns : s[k] = o}) \in 0..Count(s, o)
  <1> DEFINE A == {k \in ns : s[k] = o}
  <1>1. IsFiniteSet(Places(s, o)) /\ Count(s, o) = Cardinality(Places(s, o)) /\ Count(s, o) \in Nat
    BY CountIsNat
  <1>2. A \subseteq Places(s, o)
    BY DEF Places
  <1>3. IsFiniteSet(A) /\ Cardinality(A) <= Cardinality(Places(s, o))
    BY <1>1, <1>2, FS_Subset
  <1>4. Cardinality(A) \in Nat
    BY <1>3, FS_CardinalityType
  <1> QED
    BY <1>1, <1>3, <1>4

\* What BuildValue counts and takes over: of each pointer of s the part byN is stolen.
Formatted(c, s, ns) ==
    /\ refs' = [o \in Objs |-> refs[o] + Count(<<c>>, o) + Count(s, o) - Cardinality({k \in ns : s[k] = o})]
    /\ steals' = [o \in Objs |-> steals[o] + Cardinality({k \in ns : s[k] = o})]

\* A container made for a script: each pointer in it is stolen, or counted.
LEMMA MadeContainer ==
    ASSUME Ledger, NEW c \in Containers, Fresh(c), NEW s \in Seq(Objs), Len(s) <= MaxItems,
           \A k \in 1..Len(s) : Live(s[k]),
           life' = [life EXCEPT ![c] = "live"], items' = [items EXCEPT ![c] = s], held' = held,
           Taken(<<c>>),
           \/ Counted(<<c>>) /\ Stolen(s)
           \/ Counted(<<c>> \o s) /\ steals' = steals
           \/ \E ns \in SUBSET (1..Len(s)) : Formatted(c, s, ns)
    PROVE  Ledger' /\ Grows /\ news'[c] > 0
  <1>0. Types /\ <<c>> \in Seq(Objs) /\ c \in Objs /\ <<c>> \o s \in Seq(Objs)
    BY ObjectsAssumption, ConcatProperties DEF Ledger
  <1>n. \A x \in Objs : /\ refs[x] \in Nat /\ news[x] \in Nat /\ steals[x] \in Nat
                        /\ Count(<<c>>, x) \in Nat /\ Count(s, x) \in Nat
    <2>1. \A x \in Objs : Count(<<c>>, x) \in Nat
      BY <1>0, CountIsNat
    <2>2. \A x \in Objs : Count(s, x) \in Nat
      BY CountIsNat
    <2> QED
      BY <1>0, <2>1, <2>2 DEF Types
  \* n of the Count(s, x) references to x are stolen
  <1> DEFINE Split(x, n) == /\ n \in Nat /\ n <= Count(s, x)
                            /\ refs'[x] = refs[x] + (Count(<<c>>, x) + Count(s, x)) - n
                            /\ steals'[x] = steals[x] + n
  <1>1. /\ refs' \in [Objs -> Nat] /\ news' \in [Objs -> Nat] /\ steals' \in [Objs -> Nat]
        /\ \A x \in Objs : /\ news'[x] = news[x] + Count(<<c>>, x)
                           /\ \E n : Split(x, n)
    <2>1. news' \in [Objs -> Nat] /\ \A x \in Objs : news'[x] = news[x] + Count(<<c>>, x)
      BY <1>0, CountedFacts
    <2>2. CASE Counted(<<c>>) /\ Stolen(s)
      <3>1. /\ refs' \in [Objs -> Nat] /\ \A x \in Objs : refs'[x] = refs[x] + Count(<<c>>, x)
            /\ steals' \in [Objs -> Nat] /\ \A x \in Objs : steals'[x] = steals[x] + Count(s, x)
        BY <1>0, <2>2, CountedFacts
      <3>2. ASSUME NEW x \in Objs PROVE Split(x, Count(s, x))
        <4> DEFINE a == Count(<<c>>, x)
                   k == Count(s, x)
        <4>1. /\ refs[x] \in Nat /\ a \in Nat /\ k \in Nat
              /\ refs'[x] = refs[x] + a /\ steals'[x] = steals[x] + k
          BY <1>n, <3>1
        <4> HIDE DEF a, k
        <4>2. k <= k /\ refs'[x] = refs[x] + (a + k) - k
          BY <4>1
        <4> QED
          BY <4>1, <4>2 DEF a, k
      <3> QED
        BY <2>1, <3>1, <3>2
    <2>3. CASE Counted(<<c>> \o s) /\ steals' = steals
      <3>1. refs' \in [Objs -> Nat] /\ \A x \in Objs : refs'[x] = refs[x] + Count(<<c>> \o s, x)
        BY <1>0, <2>3, CountedFacts
      <3>2. \A x \in Objs : Count(<<c>> \o s, x) = Count(<<c>>, x) + Count(s, x)
        BY <1>0, CountConcat
      <3>3. steals' \in [Objs -> Nat]
        BY <1>0, <2>3 DEF Types
      <3>4. ASSUME NEW x \in Objs PROVE Split(x, 0)
        <4> DEFINE a == Count(<<c>>, x)
                   k == Count(s, x)
        <4>1. /\ refs[x] \in Nat /\ steals[x] \in Nat /\ a \in Nat /\ k \in Nat
              /\ refs'[x] = refs[x] + (a + k) /\ steals'[x] = steals[x]
          BY <1>n, <2>3, <3>1, <3>2
        <4> HIDE DEF a, k
        <4>2. 0 <= k /\ refs'[x] = refs[x] + (a + k) - 0 /\ steals'[x] = steals[x] + 0
          BY <4>1
        <4> QED
          BY <4>1, <4>2 DEF a, k
      <3> QED
        BY <2>1, <3>1, <3>3, <3>4
    <2>4. ASSUME NEW ns \in SUBSET (1..Len(s)), Formatted(c, s, ns)
          PROVE  /\ refs' \in [Objs -> Nat] /\ steals' \in [Objs -> Nat]
                 /\ \A x \in Objs : \E n : Split(x, n)
      <3> DEFINE byN(x) == Cardinality({k \in ns : s[k] = x})
      <3>1. ASSUME NEW x \in Objs PROVE byN(x) \in 0..Count(s, x)
        BY <2>4, AmongCount
      <3>2. /\ refs' = [o \in Objs |-> refs[o] + Count(<<c>>, o) + Count(s, o) - byN(o)]
            /\ steals' = [o \in Objs |-> steals[o] + byN(o)]
        BY <2>4 DEF Formatted
      <3> HIDE DEF byN
      <3>3. ASSUME NEW x \in Objs
            PROVE  refs'[x] \in Nat /\ steals'[x] \in Nat /\ Split(x, byN(x))
        <4> DEFINE a == Count(<<c>>, x)
                   k == Count(s, x)
                   n == byN(x)
        <4>1. /\ refs[x] \in Nat /\ steals[x] \in Nat /\ a \in Nat /\ k \in Nat /\ n \in 0..k
              /\ refs'[x] = refs[x] + a + k - n /\ steals'[x] = steals[x] + n
          BY <1>n, <3>1, <3>2
        <4> HIDE DEF a, k, n
        <4>2. /\ n \in Nat /\ n <= k /\ refs'[x] = refs[x] + (a + k) - n
              /\ refs'[x] \in Nat /\ steals'[x] \in Nat
          BY <4>1
        <4> QED
          BY <4>1, <4>2 DEF a, k, n
      <3>4. refs' \in [Objs -> Nat] /\ steals' \in [Objs -> Nat]
        <4> HIDE DEF Split
        <4> QED
          BY <3>2, <3>3
      <3> QED
        BY <3>3, <3>4
    <2> QED
      BY <2>1, <2>2, <2>3, <2>4
  <1>2. items \in Contents /\ items[c] = <<>>
    BY <1>0 DEF Types, Ledger, Unborn
  <1>3. items' \in Contents
    BY <1>2, StoredChange
  <1>4. Types'
    BY <1>0, <1>1, <1>3 DEF Types
  <1>5. ASSUME NEW x \in Objs
        PROVE  /\ refs'[x] - refs[x] = (Count(s, x) - Count(items[c], x))
                                         + (Holds(held', x) - Holds(held, x)) + (news'[x] - news[x])
                                         - (steals'[x] - steals[x])
               /\ Settles(x)
               /\ Fresh(x)' => Count(s, x) = 0
               /\ news'[x] >= news[x] /\ news[x] \in Nat
    <2>1. Count(<<c>>, x) = (IF c = x THEN 1 ELSE 0) /\ Count(<<>>, x) = 0
      BY <1>0, CountFew
    <2>2. /\ refs[x] \in Nat /\ news[x] \in Nat /\ steals[x] \in Nat /\ Holds(held, x) \in Nat
          /\ Live(x) <=> refs[x] > 0
      BY <1>0 DEF Types, Holds, Ledger, Books
    <2>3. life'[x] = IF x = c THEN "live" ELSE life[x]
      BY <1>0 DEF Types
    <2>4. Count(s, x) \in Nat /\ (Count(s, x) # 0 => Live(x))
      <3>1. Count(s, x) \in Nat /\ (Count(s, x) = 0 <=> \A k \in 1..Len(s) : s[k] # x)
        BY CountIsNat
      <3> QED
        BY <3>1
    <2>0. /\ news'[x] = news[x] + Count(<<c>>, x)
          /\ Count(<<c>>, x) \in Nat
      BY <1>1, <1>n
    <2>s. PICK n : Split(x, n)
      BY <1>1
    <2> HIDE DEF Split
    <2>t. /\ n \in Nat /\ n <= Count(s, x)
          /\ refs'[x] = refs[x] + (Count(<<c>>, x) + Count(s, x)) - n
          /\ steals'[x] = steals[x] + n
      BY <2>s DEF Split
    <2>5. Settles(x) /\ (Fresh(x)' => Count(s, x) = 0)
      <3>1. CASE x = c
        <4>1. /\ Count(<<c>>, x) = 1 /\ refs'[x] > 0
          BY <2>t, <2>1, <2>2, <2>4, <3>1
        <4> QED
          BY <2>3, <3>1, <4>1 DEF Settles, Live, Fresh
      <3>2. CASE x # c
        <4>1. Count(<<c>>, x) = 0 /\ news'[x] = news[x]
          BY <2>0, <2>1, <2>2, <3>2
        <4>2. CASE Live(x)
          <5>1. refs'[x] > 0
            BY <2>t, <2>2, <2>4, <4>1, <4>2
          <5> QED
            BY <2>3, <3>2, <4>2, <5>1 DEF Settles, Live, Fresh
        <4>3. CASE ~Live(x)
          <5>1. Count(s, x) = 0 /\ refs[x] = 0
            BY <2>2, <2>4, <4>3
          <5>2. refs'[x] = 0 /\ steals'[x] = steals[x]
            BY <2>t, <2>2, <4>1, <5>1
          <5> QED
            BY <2>3, <3>2, <4>1, <4>3, <5>1, <5>2 DEF Settles, Live, Fresh
        <4> QED
          BY <4>2, <4>3
      <3> QED
        BY <3>1, <3>2
    <2>6. refs'[x] - refs[x] = (Count(s, x) - Count(items[c], x)) + (Holds(held', x) - Holds(held, x))
                                + (news'[x] - news[x]) - (steals'[x] - steals[x])
      <3> DEFINE a == Count(<<c>>, x)
                 k == Count(s, x)
                 h == Holds(held, x)
      <3>1. Count(items[c], x) = 0 /\ Holds(held', x) = h
        BY <1>2, <2>1
      <3>2. /\ refs[x] \in Nat /\ news[x] \in Nat /\ steals[x] \in Nat
            /\ a \in Nat /\ k \in Nat /\ n \in Nat /\ h \in Nat
            /\ refs'[x] = refs[x] + (a + k) - n /\ news'[x] = news[x] + a /\ steals'[x] = steals[x] + n
        BY <2>0, <2>2, <2>4, <2>t
      <3> HIDE DEF a, k, h
      <3>3. refs'[x] - refs[x] = (k - 0) + (h - h) + (news'[x] - news[x]) - (steals'[x] - steals[x])
        <4>1. refs'[x] - refs[x] = (a + k) - n
          BY <3>2
        <4>2. news'[x] - news[x] = a
          BY <3>2
        <4>3. steals'[x] - steals[x] = n
          BY <3>2
        <4>4. (a + k) - n = (k - 0) + (h - h) + a - n
          BY <3>2
        <4> QED
          BY <4>1, <4>2, <4>3, <4>4
      <3> QED
        BY <3>1, <3>3 DEF k, h
    <2>7. news'[x] >= news[x]
      BY <2>0, <2>2
    <2> QED
      BY <2>2, <2>5, <2>6, <2>7
  <1>6. life'[c] = "live"
    BY <1>0 DEF Types
  <1>7. Refills(c, s)
    BY <1>5, <1>6 DEF Refills
  <1>8. Ledger'
    BY <1>4, <1>7, NewItems
  <1>9. news'[c] > 0
    <2>1. Count(<<c>>, c) = 1 /\ news[c] \in Nat /\ news'[c] = news[c] + Count(<<c>>, c)
      BY <1>0, <1>1, <1>5, CountFew
    <2> QED
      BY <2>1
  <1> QED
    BY <1>1, <1>5, <1>8, <1>9 DEF Grows

\* A list made of a Lua value: the list takes over the only reference to the new object.
LEMMA MadeOfValue ==
    ASSUME Ledger, NEW c \in Containers, Fresh(c), NEW o \in Objs, Fresh(o), o \notin Containers,
           life' = [life EXCEPT ![c] = "live", ![o] = "live"], items' = [items EXCEPT ![c] = <<o>>],
           held' = held, Counted(<<c, o>>), Taken(<<c, o>>), Stolen(<<o>>)
    PROVE  Ledger' /\ Grows /\ news'[c] > 0
  <1>0. /\ Types /\ c \in Objs /\ o # c /\ <<o>> \in Seq(Objs) /\ Len(<<o>>) <= MaxItems
        /\ <<c, o>> \in Seq(Objs)
    BY ObjectsAssumption DEF Ledger
  <1>1. /\ refs' \in [Objs -> Nat] /\ news' \in [Objs -> Nat] /\ steals' \in [Objs -> Nat]
        /\ \A x \in Objs : /\ refs'[x] = refs[x] + Count(<<c, o>>, x)
                            /\ news'[x] = news[x] + Count(<<c, o>>, x)
                            /\ steals'[x] = steals[x] + Count(<<o>>, x)
    BY <1>0, CountedFacts
  <1>2. items \in Contents /\ items[c] = <<>>
    BY <1>0 DEF Types, Ledger, Unborn
  <1>3. items' \in Contents
    BY <1>0, <1>2, StoredChange
  <1>4. life' \in [Objs -> {"none", "live", "freed"}]
    BY <1>0 DEF Types
  <1>5. Types'
    BY <1>0, <1>1, <1>3, <1>4 DEF Types
  <1>6. ASSUME NEW x \in Objs
        PROVE  /\ refs'[x] - refs[x] = (Count(<<o>>, x) - Count(items[c], x))
                                         + (Holds(held', x) - Holds(held, x)) + (news'[x] - news[x])
                                         - (steals'[x] - steals[x])
               /\ Settles(x)
               /\ Fresh(x)' => Count(<<o>>, x) = 0
               /\ news'[x] >= news[x] /\ news[x] \in Nat
               /\ x = c => news'[x] > 0
    <2>1. /\ Count(<<c>>, x) = IF c = x THEN 1 ELSE 0
          /\ Count(<<o>>, x) = IF o = x THEN 1 ELSE 0
          /\ Count(<<c, o>>, x) = Count(<<c>>, x) + Count(<<o>>, x)
          /\ Count(items[c], x) = 0
      <3>1. /\ Count(<<c>>, x) = IF c = x THEN 1 ELSE 0
            /\ Count(<<c, o>>, x) = Count(<<c>>, x) + Count(<<o>>, x)
            /\ Count(<<>>, x) = 0
        BY <1>0, CountFew
      <3>2. Count(<<o>>, x) = IF o = x THEN 1 ELSE 0
        BY CountFew
      <3> QED
        BY <1>2, <3>1, <3>2
    <2>2. /\ refs[x] \in Nat /\ news[x] \in Nat /\ steals[x] \in Nat /\ Holds(held, x) \in Nat
          /\ Live(x) <=> refs[x] > 0
      BY <1>0 DEF Types, Holds, Ledger, Books
    <2>3. life'[x] = IF x \in {c, o} THEN "live" ELSE life[x]
      BY <1>0 DEF Types
    <2>4. /\ refs'[x] = refs[x] + Count(<<c, o>>, x)
          /\ news'[x] = news[x] + Count(<<c, o>>, x)
          /\ steals'[x] = steals[x] + Count(<<o>>, x)
          /\ Holds(held', x) = Holds(held, x)
          /\ Count(<<c, o>>, x) = IF x \in {c, o} THEN 1 ELSE 0
          /\ Count(<<c, o>>, x) \in Nat /\ Count(<<o>>, x) \in Nat
      BY <1>0, <1>1, <2>1
    <2>5. CASE x \in {c, o}
      <3>1. refs'[x] > 0 /\ news'[x] > 0
        BY <2>2, <2>4, <2>5
      <3>2. Settles(x) /\ ~Fresh(x)'
        BY <2>3, <2>5, <3>1 DEF Settles, Live, Fresh
      <3>3. refs'[x] - refs[x] = (Count(<<o>>, x) - Count(items[c], x)) + (Holds(held', x) - Holds(held, x))
                                  + (news'[x] - news[x]) - (steals'[x] - steals[x])
        BY <2>1, <2>2, <2>4
      <3> QED
        BY <2>2, <2>4, <3>1, <3>2, <3>3
    <2>6. CASE x \notin {c, o}
      <3>1. refs'[x] = refs[x] /\ news'[x] = news[x] /\ steals'[x] = steals[x] /\ Count(<<o>>, x) = 0
        BY <2>1, <2>2, <2>4, <2>6
      <3>2. Settles(x)
        BY <2>2, <2>3, <2>6, <3>1 DEF Settles, Live, Fresh
      <3> QED
        BY <2>1, <2>2, <2>4, <2>6, <3>1, <3>2
    <2> QED
      BY <2>5, <2>6
  <1>7. life'[c] = "live"
    BY <1>0 DEF Types
  <1>8. Refills(c, <<o>>)
    BY <1>6, <1>7 DEF Refills
  <1>9. Ledger'
    BY <1>0, <1>5, <1>8, NewItems
  <1> QED
    BY <1>0, <1>1, <1>6, <1>9 DEF Grows

\* The game, or SetAttr, puts a pointer to an object into one of its variables.
LEMMA HeldLedger ==
    ASSUME Ledger, NEW o \in Objs, o \notin held, held' = held \cup {o}, Counted(<<o>>),
           \/ Live(o) /\ life' = life
           \/ Fresh(o) /\ life' = [life EXCEPT ![o] = "live"],
           UNCHANGED <<items, news, steals>>
    PROVE  Ledger'
  <1>0. Types /\ <<o>> \in Seq(Objs)
    BY DEF Ledger
  <1>1. refs' \in [Objs -> Nat] /\ \A x \in Objs : refs'[x] = refs[x] + Count(<<o>>, x)
    BY <1>0, CountedFacts
  <1>2. life' \in [Objs -> {"none", "live", "freed"}] /\ \A x \in Objs : life'[x] = IF x = o THEN "live" ELSE life[x]
    BY <1>0 DEF Types, Live
  <1>3. Types'
    BY <1>0, <1>1, <1>2 DEF Types
  <1>4. ASSUME NEW x \in Objs
        PROVE  /\ refs'[x] - refs[x] = (Holds(held', x) - Holds(held, x)) + (news'[x] - news[x])
                                         - (steals'[x] - steals[x])
               /\ Settles(x)
    <2>1. Count(<<o>>, x) = IF o = x THEN 1 ELSE 0
      BY CountFew
    <2>2. /\ refs[x] \in Nat /\ news[x] \in Nat /\ steals[x] \in Nat
          /\ Live(x) <=> refs[x] > 0
      BY <1>0 DEF Types, Ledger, Books
    <2>3. CASE x = o
      <3>1. Holds(held', x) = 1 /\ Holds(held, x) = 0 /\ refs'[x] = refs[x] + 1
        BY <1>1, <2>1, <2>3 DEF Holds
      <3>2. refs'[x] > 0
        BY <2>2, <3>1
      <3>3. Settles(x)
        BY <1>2, <2>3, <3>2 DEF Settles, Live, Fresh
      <3> QED
        BY <2>2, <3>1, <3>3
    <2>4. CASE x # o
      <3>1. /\ Holds(held', x) = Holds(held, x) /\ Holds(held, x) \in Nat
            /\ refs'[x] = refs[x] /\ life'[x] = life[x]
        BY <1>1, <1>2, <2>1, <2>2, <2>4 DEF Holds
      <3>2. Settles(x)
        BY <2>2, <2>4, <3>1 DEF Settles, Live, Fresh
      <3> QED
        BY <2>2, <3>1, <3>2
    <2> QED
      BY <2>3, <2>4
  <1> QED
    BY <1>3, <1>4, SameItems

\* The game drops one of its variables.
LEMMA DroppedLedger ==
    ASSUME Ledger, NEW o \in Objs, o \in held, Live(o), held' = held \ {o}, Decref(o),
           UNCHANGED <<items, news, steals>>
    PROVE  Ledger'
  <1>0. Types
    BY DEF Ledger
  <1>1. /\ refs' \in [Objs -> Nat] /\ life' \in [Objs -> {"none", "live", "freed"}]
        /\ \A x \in Objs : refs'[x] = refs[x] - Count(<<o>>, x) /\ (Live(x)' <=> refs'[x] > 0)
        /\ \A x \in Objs : Fresh(x)' <=> Fresh(x)
    BY DecrefFacts
  <1>2. Types'
    BY <1>0, <1>1 DEF Types
  <1>3. ASSUME NEW x \in Objs
        PROVE  /\ refs'[x] - refs[x] = (Holds(held', x) - Holds(held, x)) + (news'[x] - news[x])
                                         - (steals'[x] - steals[x])
               /\ Settles(x)
    <2>1. Count(<<o>>, x) = IF o = x THEN 1 ELSE 0
      BY CountFew
    <2>2. refs[x] \in Nat /\ news[x] \in Nat /\ steals[x] \in Nat
      BY <1>0 DEF Types
    <2>3. refs'[x] = refs[x] - Count(<<o>>, x) /\ Holds(held', x) = Holds(held, x) - Count(<<o>>, x)
      BY <1>1, <2>1 DEF Holds
    <2>4. Settles(x)
      BY <1>1 DEF Settles
    <2>5. Holds(held, x) \in Nat /\ Count(<<o>>, x) \in Nat
      BY <2>1 DEF Holds
    <2> QED
      BY <2>2, <2>3, <2>4, <2>5
  <1> QED
    BY <1>2, <1>3, SameItems

\* The game puts an object into a container.
LEMMA InsertedLedger ==
    ASSUME Ledger, NEW c \in Containers, Live(c), NEW o \in Objs, Live(o), Len(items[c]) < MaxItems,
           items' = [items EXCEPT ![c] = Append(items[c], o)], Counted(<<o>>),
           UNCHANGED <<life, held, news, steals>>
    PROVE  Ledger'
  <1>0. Types /\ <<o>> \in Seq(Objs) /\ c \in Objs /\ items \in Contents /\ items[c] \in Seq(Objs)
    BY ObjectsAssumption DEF Ledger, Types, Contents
  <1>1. refs' \in [Objs -> Nat] /\ \A x \in Objs : refs'[x] = refs[x] + Count(<<o>>, x)
    BY <1>0, CountedFacts
  <1>2. Append(items[c], o) \in Seq(Objs) /\ Len(Append(items[c], o)) <= MaxItems
    <2>1. Append(items[c], o) \in Seq(Objs) /\ Len(Append(items[c], o)) = Len(items[c]) + 1 /\ Len(items[c]) \in Nat
      BY <1>0, AppendProperties, LenProperties
    <2> QED
      BY <2>1, ObjectsAssumption
  <1>3. items' \in Contents
    BY <1>0, <1>2, StoredChange
  <1>4. Types'
    BY <1>0, <1>1, <1>3 DEF Types
  <1>5. ASSUME NEW x \in Objs
        PROVE  /\ refs'[x] - refs[x] = (Count(Append(items[c], o), x) - Count(items[c], x))
                                         + (Holds(held', x) - Holds(held, x)) + (news'[x] - news[x])
                                         - (steals'[x] - steals[x])
               /\ Settles(x)
               /\ Fresh(x)' => Count(Append(items[c], o), x) = 0
    <2>1. /\ Count(<<o>>, x) = IF o = x THEN 1 ELSE 0
          /\ Count(Append(items[c], o), x) = Count(items[c], x) + Count(<<o>>, x)
          /\ Count(items[c], x) \in Nat
      <3>1. Count(<<o>>, x) = IF o = x THEN 1 ELSE 0
        BY CountFew
      <3>2. Count(Append(items[c], o), x) = Count(items[c], x) + Count(<<o>>, x)
        BY <1>0, CountAppend
      <3>3. Count(items[c], x) \in Nat
        BY <1>0, CountIsNat
      <3> QED
        BY <3>1, <3>2, <3>3
    <2>2. /\ refs[x] \in Nat /\ news[x] \in Nat /\ steals[x] \in Nat /\ Holds(held, x) \in Nat
          /\ Live(x) <=> refs[x] > 0
      BY <1>0 DEF Types, Holds, Ledger, Books
    <2>3. /\ refs'[x] = refs[x] + Count(<<o>>, x) /\ Count(<<o>>, x) \in Nat
          /\ Holds(held', x) = Holds(held, x)
      BY <1>1, <2>1
    <2>4. refs'[x] > 0 <=> refs[x] > 0
      BY <2>1, <2>2, <2>3
    <2>5. Settles(x)
      BY <2>2, <2>4 DEF Settles, Live, Fresh
    <2>6. Fresh(x)' => Count(Append(items[c], o), x) = 0
      <3>1. SUFFICES ASSUME Fresh(x) PROVE Count(Append(items[c], o), x) = 0
        BY DEF Fresh
      <3>2. x # o /\ Where(items, x) = {}
        BY <3>1 DEF Live, Fresh, Ledger, Unborn
      <3>3. Count(items[c], x) = 0
        <4>1. /\ Cardinality(Where(items, x)) = 0 /\ Cardinality(Elsewhere(items, c, x)) \in Nat
              /\ Cardinality(Where(items, x)) = Cardinality(Elsewhere(items, c, x)) + Count(items[c], x)
          BY <1>0, <3>2, FS_EmptySet, StoredSplit
        <4> QED
          BY <2>1, <4>1
      <3> QED
        BY <2>1, <3>2, <3>3
    <2>7. refs'[x] - refs[x] = (Count(Append(items[c], o), x) - Count(items[c], x)) + (Holds(held', x) - Holds(held, x))
                                + (news'[x] - news[x]) - (steals'[x] - steals[x])
      BY <2>1, <2>2, <2>3
    <2> QED
      BY <2>5, <2>6, <2>7
  <1>6. Refills(c, Append(items[c], o))
    BY <1>0, <1>5 DEF Refills, Live
  <1> QED
    BY <1>2, <1>4, <1>6, NewItems

\* The game, or the end of a container, takes an object out of a container.
LEMMA RemovedLedger ==
    ASSUME Ledger, NEW c \in Containers, ~Fresh(c), NEW o \in Objs, Live(o),
           NEW s \in Seq(Objs), Len(s) <= MaxItems,
           \A x \in Objs : Count(items[c], x) = Count(<<o>>, x) + Count(s, x),
           items' = [items EXCEPT ![c] = s], Decref(o), UNCHANGED <<held, news, steals>>
    PROVE  Ledger'
  <1>0. Types /\ c \in Objs /\ items \in Contents /\ items[c] \in Seq(Objs)
    BY ObjectsAssumption DEF Ledger, Types, Contents
  <1>1. /\ refs' \in [Objs -> Nat] /\ life' \in [Objs -> {"none", "live", "freed"}]
        /\ \A x \in Objs : refs'[x] = refs[x] - Count(<<o>>, x) /\ (Live(x)' <=> refs'[x] > 0)
        /\ \A x \in Objs : Fresh(x)' <=> Fresh(x)
    BY DecrefFacts
  <1>2. items' \in Contents
    BY <1>0, StoredChange
  <1>3. Types'
    BY <1>0, <1>1, <1>2 DEF Types
  <1>4. ASSUME NEW x \in Objs
        PROVE  /\ refs'[x] - refs[x] = (Count(s, x) - Count(items[c], x))
                                         + (Holds(held', x) - Holds(held, x)) + (news'[x] - news[x])
                                         - (steals'[x] - steals[x])
               /\ Settles(x)
               /\ Fresh(x)' => Count(s, x) = 0
    <2>1. /\ Count(items[c], x) = Count(<<o>>, x) + Count(s, x)
          /\ Count(<<o>>, x) \in Nat /\ Count(s, x) \in Nat
      <3>1. Count(s, x) \in Nat
        BY CountIsNat
      <3>2. Count(<<o>>, x) = IF o = x THEN 1 ELSE 0
        BY CountFew
      <3> QED
        BY <3>1, <3>2
    <2>2. /\ refs[x] \in Nat /\ news[x] \in Nat /\ steals[x] \in Nat /\ Holds(held, x) \in Nat
          /\ Holds(held', x) = Holds(held, x)
      BY <1>0 DEF Types, Holds
    <2>3. refs'[x] = refs[x] - Count(<<o>>, x)
      BY <1>1
    <2>4. Settles(x)
      BY <1>1 DEF Settles
    <2>5. ASSUME Fresh(x)' PROVE Count(s, x) = 0
      <3>1. Fresh(x) /\ Where(items, x) = {}
        BY <1>1, <2>5 DEF Ledger, Unborn
      <3>2. /\ Cardinality(Where(items, x)) = 0 /\ Cardinality(Elsewhere(items, c, x)) \in Nat
            /\ Cardinality(Where(items, x)) = Cardinality(Elsewhere(items, c, x)) + Count(items[c], x)
        BY <1>0, <3>1, FS_EmptySet, StoredSplit
      <3> QED
        BY <2>1, <3>2
    <2>6. refs'[x] - refs[x] = (Count(s, x) - Count(items[c], x)) + (Holds(held', x) - Holds(held, x))
                                + (news'[x] - news[x]) - (steals'[x] - steals[x])
      BY <2>1, <2>2, <2>3
    <2> QED
      BY <2>4, <2>5, <2>6
  <1>5. life'[c] # "none"
    BY <1>0, <1>1 DEF Fresh
  <1>6. Refills(c, s)
    BY <1>4, <1>5 DEF Refills
  <1> QED
    BY <1>3, <1>6, NewItems

------------------------------------------------------------------------------
(* Steps.                                                                    *)

\* A usable wrapper points to a live object.
LEMMA UsableIs ==
    ASSUME BridgeInv, NEW u \in Wrappers, Usable(u)
    PROVE  wrapper[u].obj \in Objs /\ Live(wrapper[u].obj) /\ wrapper[u].borrowed \in BOOLEAN
           /\ (wrapper[u].borrowed \/ news[wrapper[u].obj] > 0)
  BY DEF BridgeInv, WrappersInv, Pointer, Usable, Free

\* A container's items are objects, and not too many.
LEMMA ItemsAre ==
    ASSUME BridgeInv, NEW c \in Containers
    PROVE  /\ c \in Objs /\ items[c] \in Seq(Objs) /\ Len(items[c]) \in Nat /\ Len(items[c]) <= MaxItems
           /\ \A k \in 1..Len(items[c]) : items[c][k] \in Objs
  <1>1. c \in Objs /\ items[c] \in Seq(Objs) /\ Len(items[c]) <= MaxItems
    BY ObjectsAssumption DEF BridgeInv, Ledger, Types, Contents
  <1> QED
    BY <1>1, LenProperties, ElementOfSeq

\* A wrapper for an object that gets a reference of the bridge.
LEMMA MoreReferences ==
    ASSUME BridgeInv, NEW w \in Wrappers, NEW o \in Objs, Live(o), Point(w, o, FALSE), Counted(<<o>>), Taken(<<o>>),
           UNCHANGED <<life, held, items, iter, steals>>
    PROVE  BridgeInv'
  <1>0. Ledger /\ WrappersInv /\ ItersInv
    BY DEF BridgeInv
  <1>1. <<o>> \in Seq(Objs) /\ Len(<<o>>) = 1 /\ <<o>>[1] = o
    OBVIOUS
  <1>2. \A k \in 1..Len(<<o>>) : Live(<<o>>[k])
    BY <1>1
  <1>3. Ledger' /\ Grows /\ \A k \in 1..Len(<<o>>) : news'[<<o>>[k]] > 0
    BY <1>0, <1>1, <1>2, TakeReferences
  <1>4. news'[o] > 0
    BY <1>1, <1>3
  <1>5. WrappersInv'
    BY <1>0, <1>3, <1>4, NewWrapper
  <1>6. ItersInv'
    BY <1>0, <1>3, NewIters
  <1> QED
    BY <1>3, <1>5, <1>6 DEF BridgeInv

\* Getting an object from Python into a script.
LEMMA ReadKeeps == ASSUME BridgeInv, NEW w \in Wrappers, Read(w) PROVE BridgeInv'
  <1>0. Ledger /\ WrappersInv /\ ItersInv /\ Types
    BY DEF BridgeInv, Ledger
  <1>1. ASSUME NEW o \in Objs, Live(o), Point(w, o, FALSE), Counted(<<o>>), Taken(<<o>>),
               UNCHANGED <<life, held, items, iter, steals>>
        PROVE  BridgeInv'
    BY <1>1, MoreReferences
  <1>2. ASSUME NEW o \in Objs, NewReference(w, o) PROVE BridgeInv'
    BY <1>1, <1>2 DEF NewReference
  <1>3. ASSUME NEW o \in Objs, NewObject(w, o) PROVE BridgeInv'
    <2>1. Ledger' /\ Grows /\ news'[o] > 0
      BY <1>0, <1>3, NewObjectLedger DEF NewObject
    <2>2. WrappersInv'
      BY <1>0, <1>3, <2>1, NewWrapper DEF NewObject
    <2>3. ItersInv'
      BY <1>0, <1>3, <2>1, NewIters DEF NewObject
    <2> QED
      BY <2>1, <2>2, <2>3 DEF BridgeInv
  <1>4. ASSUME NEW u \in Wrappers, NEW k \in 1..MaxItems, GetSequenceItem(w, u, k) PROVE BridgeInv'
    <2>1. items[wrapper[u].obj][k] \in Objs
      BY <1>4, ItemsAre DEF GetSequenceItem, Containers
    <2> QED
      BY <1>1, <1>4, <2>1 DEF GetSequenceItem
  <1>5. ASSUME NEW u \in Wrappers, NEW k \in 1..MaxItems, GetDictItem(w, u, k) PROVE BridgeInv'
    <2>1. items[wrapper[u].obj][k] \in Objs /\ Point(w, items[wrapper[u].obj][k], TRUE)
      BY <1>5, ItemsAre DEF GetDictItem, Containers
    <2>2. Ledger' /\ Grows
      BY <1>0, <1>5, SameLedger DEF GetDictItem
    <2>3. WrappersInv'
      BY <1>0, <2>1, <2>2, NewWrapper
    <2>4. ItersInv'
      BY <1>0, <1>5, <2>2, NewIters DEF GetDictItem
    <2> QED
      BY <2>2, <2>3, <2>4 DEF BridgeInv
  <1>6. ASSUME NEW i \in Iters, list_next(i, w) PROVE BridgeInv'
    <2> DEFINE it == iter[i]
               cursor == [it EXCEPT !.index = it.index + 1]
    <2>1. Ledger' /\ Grows
      BY <1>0, <1>6, SameLedger DEF list_next
    <2>2. WrappersInv'
      <3>1. CASE it.index + 1 <= Len(items[it.obj])
        <4>1. it.index + 1 \in 1..Len(items[it.obj]) /\ it.obj \in Containers
          BY <1>0, <1>6, <3>1, ItemsAre DEF list_next, Containers, ItersInv, Cursor
        <4>2. items[it.obj][it.index + 1] \in Objs
          BY <4>1, ItemsAre
        <4>3. Point(w, items[it.obj][it.index + 1], TRUE)
          BY <1>6, <3>1 DEF list_next
        <4> QED
          BY <1>0, <2>1, <4>2, <4>3, NewWrapper
      <3>2. CASE ~(it.index + 1 <= Len(items[it.obj]))
        BY <1>0, <1>6, <2>1, <3>2, SameWrappers DEF list_next
      <3> QED
        BY <3>1, <3>2
    <2>3. ItersInv'
      <3>1. Backed(it)
        BY <1>0, <2>1, StaysBacked
      <3>2. Backed(cursor)
        BY <3>1 DEF Backed, Cursor
      <3>3. iter' = [iter EXCEPT ![i] = cursor]
        BY <1>6 DEF list_next
      <3> HIDE DEF cursor
      <3> QED
        BY <1>0, <2>1, <3>2, <3>3, NewIters
    <2> QED
      BY <2>1, <2>2, <2>3 DEF BridgeInv
  <1>7. ASSUME NEW i \in Iters, dict_next(i, w) PROVE BridgeInv'
    <2> DEFINE rest == iter[i].rest
               cursor == [iter[i] EXCEPT !.rest = Tail(rest)]
    <2>1. Ledger' /\ Grows
      BY <1>0, <1>7, SameLedger DEF dict_next
    <2>2. rest \in Seq(Objs) /\ rest # <<>> /\ iter[i] \in Cursor
      BY <1>0, <1>7 DEF ItersInv, Cursor, dict_next
    <2>3. /\ Head(rest) \in Objs /\ Tail(rest) \in Seq(Objs) /\ Len(rest) \in Nat \ {0}
          /\ Head(rest) = rest[1] /\ Len(Tail(rest)) = Len(rest) - 1
          /\ \A k \in 1..Len(Tail(rest)) : Tail(rest)[k] = rest[k + 1]
      BY <2>2, HeadTailProperties, EmptySeq
    <2>4. Backed(iter[i])
      BY <1>0, <2>1, StaysBacked
    <2>5. news'[Head(rest)] > 0
      BY <2>3, <2>4 DEF Backed
    <2>6. WrappersInv'
      BY <1>0, <1>7, <2>1, <2>3, <2>5, NewWrapper DEF dict_next
    <2>7. Backed(cursor)
      <3>1. cursor \in Cursor /\ cursor.obj = iter[i].obj /\ cursor.borrowed = iter[i].borrowed /\ cursor.rest = Tail(rest)
        BY <2>2, <2>3 DEF Cursor
      <3>2. ASSUME NEW k \in 1..Len(Tail(rest)) PROVE news'[Tail(rest)[k]] > 0
        BY <2>3, <2>4 DEF Backed
      <3> QED
        BY <2>4, <3>1, <3>2 DEF Backed
    <2>8. iter' = [iter EXCEPT ![i] = cursor]
      BY <1>7 DEF dict_next
    <2> HIDE DEF cursor
    <2>9. ItersInv'
      BY <1>0, <2>1, <2>7, <2>8, NewIters
    <2> QED
      BY <2>1, <2>6, <2>9 DEF BridgeInv
  <1> QED
    BY <1>2, <1>3, <1>4, <1>5, <1>6, <1>7 DEF Read

\* The arguments of createPyList and BuildValue are at most MaxItems wrappers.
LEMMA PointersAre ==
    ASSUME BridgeInv, NEW us \in Args, \A k \in 1..Len(us) : Usable(us[k])
    PROVE  /\ Pointers(us) \in Seq(Objs) /\ Len(Pointers(us)) <= MaxItems /\ Len(Pointers(us)) = Len(us)
           /\ \A k \in 1..Len(Pointers(us)) : Live(Pointers(us)[k])
  <1>1. PICK n \in 0..MaxItems : us \in [1..n -> Wrappers]
    BY DEF Args
  <1>2. n \in Nat /\ n <= MaxItems
    BY <1>1, ObjectsAssumption
  <1>3. us \in Seq(Wrappers) /\ Len(us) = n
    BY <1>1, <1>2
  <1>4. ASSUME NEW k \in 1..n PROVE wrapper[us[k]].obj \in Objs /\ Live(wrapper[us[k]].obj)
    BY <1>1, <1>3, UsableIs
  <1>5. Pointers(us) = [k \in 1..n |-> wrapper[us[k]].obj]
    BY <1>3 DEF Pointers
  <1>6. Pointers(us) \in [1..n -> Objs]
    BY <1>4, <1>5
  <1>7. Pointers(us) \in Seq(Objs) /\ Len(Pointers(us)) = n
    BY <1>2, <1>6
  <1> QED
    BY <1>2, <1>3, <1>4, <1>5, <1>7

\* Making a container for a script.
LEMMA WriteKeeps == ASSUME BridgeInv, NEW w \in Wrappers, Write(w) PROVE BridgeInv'
  <1>0. Ledger /\ WrappersInv /\ ItersInv /\ Types
    BY DEF BridgeInv, Ledger
  <1>1. ASSUME NEW c \in Containers, Ledger' /\ Grows /\ news'[c] > 0, Point(w, c, FALSE), iter' = iter
        PROVE  BridgeInv'
    <2>1. c \in Objs
      BY ObjectsAssumption
    <2>2. WrappersInv'
      BY <1>0, <1>1, <2>1, NewWrapper
    <2>3. ItersInv'
      BY <1>0, <1>1, NewIters
    <2> QED
      BY <1>1, <2>2, <2>3 DEF BridgeInv
  <1>2. ASSUME NEW c \in Lists, NEW us \in Args, createPyList(w, c, us) PROVE BridgeInv'
    <2>1. /\ Pointers(us) \in Seq(Objs) /\ Len(Pointers(us)) <= MaxItems
          /\ \A k \in 1..Len(Pointers(us)) : Live(Pointers(us)[k])
      BY <1>2, PointersAre DEF createPyList
    <2>2. c \in Containers
      BY DEF Containers
    <2>3. Ledger' /\ Grows /\ news'[c] > 0
      BY <1>0, <1>2, <2>1, <2>2, MadeContainer DEF createPyList
    <2> QED
      BY <1>1, <1>2, <2>2, <2>3 DEF createPyList
  <1>3. ASSUME NEW c \in Containers, NEW us \in Args, NEW ns \in SUBSET (1..Len(us)), BuildValue(w, c, us, ns)
        PROVE  BridgeInv'
    <2>1. /\ Pointers(us) \in Seq(Objs) /\ Len(Pointers(us)) <= MaxItems
          /\ \A k \in 1..Len(Pointers(us)) : Live(Pointers(us)[k])
          /\ Len(Pointers(us)) = Len(us)
      BY <1>3, PointersAre DEF BuildValue
    <2>2. Formatted(c, Pointers(us), ns) /\ ns \in SUBSET (1..Len(Pointers(us)))
      BY <1>3, <2>1 DEF BuildValue, Formatted
    <2>3. Ledger' /\ Grows /\ news'[c] > 0
      BY <1>0, <1>3, <2>1, <2>2, MadeContainer DEF BuildValue
    <2> QED
      BY <1>1, <1>3, <2>3 DEF BuildValue
  <1>6. ASSUME NEW u \in Wrappers, BuildValueOfOne(w, u) PROVE BridgeInv'
    <2>1. wrapper[u].obj \in Objs /\ Live(wrapper[u].obj)
      BY <1>6, UsableIs DEF BuildValueOfOne
    <2>2. CASE Point(w, wrapper[u].obj, FALSE) /\ Counted(<<wrapper[u].obj>>) /\ Taken(<<wrapper[u].obj>>)
      BY <1>6, <2>1, <2>2, MoreReferences DEF BuildValueOfOne
    <2>3. CASE Point(w, wrapper[u].obj, wrapper[u].borrowed) /\ UNCHANGED <<refs, news>>
      <3>1. Ledger' /\ Grows
        BY <1>0, <1>6, <2>3, SameLedger DEF BuildValueOfOne
      <3>2. wrapper[u].borrowed \in BOOLEAN /\ (wrapper[u].borrowed \/ news[wrapper[u].obj] > 0)
        BY <1>0, <1>6 DEF WrappersInv, Pointer, BuildValueOfOne, Usable, Free
      <3>3. WrappersInv'
        BY <1>0, <2>1, <2>3, <3>1, <3>2, NewWrapper
      <3>4. ItersInv'
        BY <1>0, <1>6, <3>1, NewIters DEF BuildValueOfOne
      <3> QED
        BY <3>1, <3>3, <3>4 DEF BridgeInv
    <2> QED
      BY <1>6, <2>2, <2>3 DEF BuildValueOfOne
  <1>4. ASSUME NEW c \in Lists, NEW o \in Objs, createPyListOfValue(w, c, o) PROVE BridgeInv'
    <2>1. c \in Containers
      BY DEF Containers
    <2>2. Ledger' /\ Grows /\ news'[c] > 0
      BY <1>0, <1>4, <2>1, MadeOfValue DEF createPyListOfValue
    <2> QED
      BY <1>1, <1>4, <2>1, <2>2 DEF createPyListOfValue
  <1>5. ASSUME NEW c \in Dicts, NEW u \in Wrappers, createPyDict(w, c, u) PROVE BridgeInv'
    <2>1. c \in Containers /\ c \in Objs /\ wrapper[u].obj \in Objs /\ Live(wrapper[u].obj)
      BY <1>5, UsableIs, ObjectsAssumption DEF createPyDict, Containers
    <2>2. /\ <<wrapper[u].obj>> \in Seq(Objs) /\ Len(<<wrapper[u].obj>>) <= MaxItems
          /\ \A k \in 1..Len(<<wrapper[u].obj>>) : Live(<<wrapper[u].obj>>[k])
      BY <2>1, ObjectsAssumption
    <2>3. <<c, wrapper[u].obj>> = <<c>> \o <<wrapper[u].obj>>
      BY <2>1, PairIsConcat
    <2>4. Counted(<<c>> \o <<wrapper[u].obj>>)
      BY <1>5, <2>3 DEF createPyDict
    <2>5. Ledger' /\ Grows /\ news'[c] > 0
      BY <1>0, <1>5, <2>1, <2>2, <2>4, MadeContainer DEF createPyDict
    <2> QED
      BY <1>1, <1>5, <2>1, <2>5 DEF createPyDict
  <1> QED
    BY <1>2, <1>3, <1>4, <1>5, <1>6 DEF Write

\* Iterators, finalizers and attributes.
LEMMA ScriptKeeps ==
    ASSUME BridgeInv,
           \/ \E w \in Wrappers : py_object_gc(w) \/ SetAttr(w)
           \/ \E i \in Iters, u \in Wrappers : py_list_iterate(i, u) \/ py_dict_iterate(i, u)
           \/ \E i \in Iters : DropIter(i)
    PROVE  BridgeInv'
  <1>0. Ledger /\ WrappersInv /\ ItersInv /\ Types
    BY DEF BridgeInv, Ledger
  <1>1. ASSUME NEW w \in Wrappers, py_object_gc(w) PROVE BridgeInv'
    <2>1. Ledger' /\ Grows
      BY <1>0, <1>1, SameLedger DEF py_object_gc
    <2>2. WrappersInv'
      BY <1>0, <1>1, <2>1, ClearedWrapper DEF py_object_gc
    <2>3. ItersInv'
      BY <1>0, <1>1, <2>1, NewIters DEF py_object_gc
    <2> QED
      BY <2>1, <2>2, <2>3 DEF BridgeInv
  <1>2. ASSUME NEW w \in Wrappers, SetAttr(w) PROVE BridgeInv'
    <2>1. wrapper[w].obj \in Objs /\ Live(wrapper[w].obj)
      BY <1>2, UsableIs DEF SetAttr
    <2>2. UNCHANGED <<items, wrapper, iter, news, steals>>
      BY <1>2 DEF SetAttr, bridgeVars
    <2>3. Ledger'
      BY <1>0, <1>2, <2>1, <2>2, HeldLedger DEF SetAttr
    <2>4. Grows
      BY <1>0, <2>2 DEF Types, Grows
    <2> QED
      BY <1>0, <2>2, <2>3, <2>4, SameWrappers, NewIters DEF BridgeInv
  <1>3. ASSUME NEW i \in Iters, NEW u \in Wrappers, py_list_iterate(i, u) PROVE BridgeInv'
    <2> DEFINE cursor == [obj |-> wrapper[u].obj, borrowed |-> wrapper[u].borrowed, index |-> 0,
                          size |-> Len(items[wrapper[u].obj]), rest |-> <<>>]
    <2>1. Ledger' /\ Grows /\ UNCHANGED <<wrapper, news>>
      BY <1>0, <1>3, SameLedger DEF py_list_iterate
    <2>2. /\ wrapper[u].obj \in Objs /\ wrapper[u].borrowed \in BOOLEAN
          /\ wrapper[u].borrowed \/ news[wrapper[u].obj] > 0
      BY <1>3, UsableIs DEF py_list_iterate
    <2>3. Len(items[wrapper[u].obj]) \in Nat
      BY <1>3, ItemsAre DEF py_list_iterate, Containers
    <2>4. Backed(cursor)
      <3>1. cursor \in Cursor
        BY <2>2, <2>3 DEF Cursor
      <3>2. cursor.obj = wrapper[u].obj /\ cursor.borrowed = wrapper[u].borrowed /\ cursor.rest = <<>>
        OBVIOUS
      <3>3. Len(<<>>) = 0
        OBVIOUS
      <3> HIDE DEF cursor
      <3> QED
        BY <2>1, <2>2, <3>1, <3>2, <3>3 DEF Backed
    <2>5. iter' = [iter EXCEPT ![i] = cursor]
      BY <1>3 DEF py_list_iterate
    <2> HIDE DEF cursor
    <2>6. ItersInv'
      BY <1>0, <2>1, <2>4, <2>5, NewIters
    <2> QED
      BY <1>0, <2>1, <2>6, SameWrappers DEF BridgeInv
  <1>4. ASSUME NEW i \in Iters, NEW u \in Wrappers, py_dict_iterate(i, u) PROVE BridgeInv'
    <2> DEFINE s == items[wrapper[u].obj]
               cursor == [NoIter EXCEPT !.rest = s]
    <2>1. s \in Seq(Objs) /\ \A k \in 1..Len(s) : Live(s[k])
      BY <1>4, ItemsAre DEF py_dict_iterate, Containers
    <2>2. Counted(s) /\ Taken(s) /\ UNCHANGED <<life, held, items, wrapper, steals>>
      BY <1>4 DEF py_dict_iterate
    <2>3. iter' = [iter EXCEPT ![i] = cursor]
      BY <1>4 DEF py_dict_iterate
    <2> HIDE DEF s
    <2>4. Ledger' /\ Grows /\ \A k \in 1..Len(s) : news'[s[k]] > 0
      BY <1>0, <2>1, <2>2, TakeReferences
    <2>5. cursor \in Cursor /\ cursor.obj = None /\ cursor.rest = s
      BY <2>1 DEF NoIter, Cursor
    <2> HIDE DEF cursor
    <2>6. Backed(cursor)
      BY <2>4, <2>5 DEF Backed
    <2>7. ItersInv'
      BY <1>0, <2>3, <2>4, <2>6, NewIters
    <2> QED
      BY <1>0, <2>2, <2>4, <2>7, SameWrappers DEF BridgeInv
  <1>5. ASSUME NEW i \in Iters, DropIter(i) PROVE BridgeInv'
    <2>1. Ledger' /\ Grows /\ UNCHANGED wrapper
      BY <1>0, <1>5, SameLedger DEF DropIter
    <2>2. NoIter \in Cursor /\ NoIter.obj = None /\ NoIter.rest = <<>>
      BY DEF NoIter, Cursor
    <2>3. Backed(NoIter)
      BY <2>2 DEF Backed
    <2>4. ItersInv'
      BY <1>0, <1>5, <2>1, <2>3, NewIters DEF DropIter
    <2> QED
      BY <1>0, <2>1, <2>4, SameWrappers DEF BridgeInv
  <1> QED
    BY <1>1, <1>2, <1>3, <1>4, <1>5

\* The game's Python code does not know of the bridge.
LEMMA GameKeeps == ASSUME BridgeInv, Game PROVE BridgeInv'
  <1>0. Ledger /\ WrappersInv /\ ItersInv /\ Types
    BY DEF BridgeInv, Ledger
  <1>1. ASSUME Ledger', UNCHANGED bridgeVars PROVE BridgeInv'
    <2>1. Grows /\ UNCHANGED <<wrapper, iter>>
      BY <1>0, <1>1 DEF Types, Grows, bridgeVars
    <2> QED
      BY <1>0, <1>1, <2>1, SameWrappers, NewIters DEF BridgeInv
  <1>2. ASSUME NEW o \in Objs, GameNew(o) PROVE BridgeInv'
    <2>1. o \notin held
      BY <1>0, <1>2 DEF GameNew, Ledger, Unborn
    <2>2. Ledger'
      BY <1>0, <1>2, <2>1, HeldLedger DEF GameNew, bridgeVars
    <2> QED
      BY <1>1, <1>2, <2>2 DEF GameNew
  <1>3. ASSUME NEW o \in Objs, GameDrop(o) PROVE BridgeInv'
    <2>1. Ledger'
      BY <1>0, <1>3, DroppedLedger DEF GameDrop, bridgeVars
    <2> QED
      BY <1>1, <1>3, <2>1 DEF GameDrop
  <1>4. ASSUME NEW c \in Containers, NEW o \in Objs, GameInsert(c, o) PROVE BridgeInv'
    <2>1. items' = [items EXCEPT ![c] = Append(items[c], o)]
      BY <1>4 DEF GameInsert
    <2>2. Ledger'
      BY <1>0, <1>4, <2>1, InsertedLedger DEF GameInsert, bridgeVars
    <2> QED
      BY <1>1, <1>4, <2>2 DEF GameInsert
  <1>5. ASSUME NEW c \in Containers, NEW k \in 1..MaxItems, GameRemove(c, k) PROVE BridgeInv'
    <2>1. /\ items[c] \in Seq(Objs) /\ k \in 1..Len(items[c]) /\ Live(c) /\ Live(items[c][k])
          /\ Len(items[c]) \in Nat /\ Len(items[c]) <= MaxItems /\ MaxItems \in Nat
      BY <1>5, ItemsAre, ObjectsAssumption DEF GameRemove
    <2>2. /\ items[c][k] \in Objs /\ Rest(items[c], k) \in Seq(Objs)
          /\ Len(Rest(items[c], k)) = Len(items[c]) - 1
          /\ \A x \in Objs : Count(items[c], x) = Count(<<items[c][k]>>, x) + Count(Rest(items[c], k), x)
      BY <2>1, CountRest
    <2>3. Len(Rest(items[c], k)) <= MaxItems /\ ~Fresh(c)
      BY <2>1, <2>2 DEF Live, Fresh
    <2>4. items' = [items EXCEPT ![c] = Rest(items[c], k)] /\ Decref(items[c][k]) /\ UNCHANGED <<held, bridgeVars>>
      BY <1>5 DEF GameRemove
    <2>5. Ledger'
      BY <1>0, <2>1, <2>2, <2>3, <2>4, RemovedLedger DEF bridgeVars
    <2> QED
      BY <1>1, <2>4, <2>5
  <1>6. ASSUME NEW c \in Containers, Dealloc(c) PROVE BridgeInv'
    <2>1. /\ items[c] \in Seq(Objs) /\ items[c] # <<>> /\ life[c] = "freed" /\ Live(Head(items[c]))
          /\ Len(items[c]) \in Nat /\ Len(items[c]) <= MaxItems /\ MaxItems \in Nat
      BY <1>6, ItemsAre, ObjectsAssumption DEF Dealloc
    <2>2. /\ Head(items[c]) \in Objs /\ Tail(items[c]) \in Seq(Objs)
          /\ Len(Tail(items[c])) = Len(items[c]) - 1
          /\ \A x \in Objs : Count(items[c], x) = Count(<<Head(items[c])>>, x) + Count(Tail(items[c]), x)
      BY <2>1, CountTail
    <2>3. Len(Tail(items[c])) <= MaxItems /\ ~Fresh(c)
      BY <2>1, <2>2 DEF Fresh
    <2>4. items' = [items EXCEPT ![c] = Tail(items[c])] /\ Decref(Head(items[c])) /\ UNCHANGED <<held, bridgeVars>>
      BY <1>6 DEF Dealloc
    <2>5. Ledger'
      BY <1>0, <2>1, <2>2, <2>3, <2>4, RemovedLedger DEF bridgeVars
    <2> QED
      BY <1>1, <2>4, <2>5
  <1> QED
    BY <1>2, <1>3, <1>4, <1>5, <1>6 DEF Game

------------------------------------------------------------------------------
(* Theorems.                                                                 *)

\* The books of the bridge are balanced in every reachable state, for freed objects
\* too, and every pointer that a script owns came with a reference.
THEOREM BooksBalance == Spec => []BridgeInv
  <1>1. BridgeInv /\ UNCHANGED vars => BridgeInv'
    <2> SUFFICES ASSUME BridgeInv, UNCHANGED vars PROVE BridgeInv'
      OBVIOUS
    <2>1. UNCHANGED <<life, refs, held, items, news, steals>> /\ UNCHANGED <<wrapper, iter>>
      BY DEF vars, bridgeVars
    <2>2. Ledger' /\ Grows
      BY <2>1, SameLedger DEF BridgeInv
    <2> QED
      BY <2>1, <2>2, SameWrappers, NewIters DEF BridgeInv
  <1>2. BridgeInv /\ [Next]_vars => BridgeInv'
    BY <1>1, ReadKeeps, WriteKeeps, ScriptKeeps, GameKeeps DEF Next
  <1> QED
    BY InitBridge, <1>2, PTL DEF Spec

\* A live object's count is what Python refers to it with, plus what Bridge.cpp was
\* given and never gives back, minus what PyList_SetItem and PyTuple_SetItem took over;
\* an object is freed exactly when this comes to zero.
THEOREM CountsAccounted == Spec => []RefsAccounted
  BY BooksBalance, BridgeInvImplies, PTL

\* A script's own pointer dangles only after lists and tuples took over all the
\* references that the bridge had to its object.
THEOREM OwnedPointersSafe == Spec => []OwnedSafe
  BY BooksBalance, BridgeInvImplies, PTL

\* Whatever scripts do with borrowed pointers and finalizers, the game comes to refer to
\* a freed object only if lists and tuples took over more than the bridge had.
THEOREM GameDataSafe == Spec => []PythonSafe
  BY BooksBalance, BridgeInvImplies, PTL
==============================================================================
