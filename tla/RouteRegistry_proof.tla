-------------------------- MODULE RouteRegistry_proof --------------------------
(***************************************************************************)
(* The route registry is type correct, its arrays are owned as append and  *)
(* scan need, no route is registered twice and no scan sees its elements   *)
(* change, for any number of callers, methods, versions and patterns; and  *)
(* with all its slices and unlocked scans it implements RouteTable, which  *)
(* registers, removes and routes in one step each.                         *)
(***************************************************************************)
EXTENDS RouteRegistry, SequenceTheorems, FiniteSetTheorems, TLAPS

-------------------------------------------------------------------------------
\* What the helpers of Routing do with a sequence of items.

LEMMA RemoveAtProperties ==
  ASSUME NEW S, NEW s \in Seq(S), NEW i \in 1..Len(s)
  PROVE  /\ RemoveAt(s, i) \in Seq(S)
         /\ Len(RemoveAt(s, i)) = Len(s) - 1
         /\ \A j \in 1..(Len(s) - 1) :
              RemoveAt(s, i)[j] = IF j < i THEN s[j] ELSE s[j + 1]
<1>. DEFINE before == SubSeq(s, 1, i - 1)
            behind == SubSeq(s, i + 1, Len(s))
<1>1. before \in Seq(S) /\ Len(before) = i - 1 /\ \A j \in 1..(i - 1) : before[j] = s[j]
  OBVIOUS
<1>2. /\ behind \in Seq(S) /\ Len(behind) = Len(s) - i
      /\ \A j \in 1..(Len(s) - i) : behind[j] = s[i + j]
  OBVIOUS
<1>3. RemoveAt(s, i) = before \o behind
  BY DEF RemoveAt
<1>. HIDE DEF before, behind
<1>4. /\ before \o behind \in Seq(S)
      /\ Len(before \o behind) = Len(s) - 1
      /\ \A j \in 1..(Len(s) - 1) :
           (before \o behind)[j] = IF j <= i - 1 THEN before[j] ELSE behind[j - (i - 1)]
  <2>1. /\ before \o behind \in Seq(S)
        /\ Len(before \o behind) = Len(before) + Len(behind)
        /\ \A j \in 1..(Len(before) + Len(behind)) :
             (before \o behind)[j] = IF j <= Len(before) THEN before[j]
                                     ELSE behind[j - Len(before)]
    BY <1>1, <1>2, ConcatProperties
  <2>2. Len(before) + Len(behind) = Len(s) - 1
    BY <1>1, <1>2
  <2>. QED BY <1>1, <2>1, <2>2
<1>5. ASSUME NEW j \in 1..(Len(s) - 1)
      PROVE  RemoveAt(s, i)[j] = IF j < i THEN s[j] ELSE s[j + 1]
  <2>1. CASE j < i
    BY <1>1, <1>3, <1>4, <2>1
  <2>2. CASE ~(j < i)
    <3>1. j - (i - 1) \in 1..(Len(s) - i) /\ i + (j - (i - 1)) = j + 1
      BY <2>2
    <3>. QED BY <1>2, <1>3, <1>4, <2>2, <3>1
  <2>. QED BY <2>1, <2>2
<1>. QED BY <1>3, <1>4, <1>5

LEMMA MinOfPositions ==
  ASSUME NEW S \in SUBSET Nat, S # {}
  PROVE  Min(S) \in S /\ \A j \in S : Min(S) <= j
<1>. DEFINE T == {0..i : i \in S}
            R == StrictSubsetOrdering(Nat)
<1>1. T \subseteq FiniteSubsetsOf(Nat)
  <2>1. ASSUME NEW i \in S PROVE 0..i \in FiniteSubsetsOf(Nat)
    <3>1. IsFiniteSet(0..i)
      BY FS_Interval
    <3>. QED BY <3>1 DEF FiniteSubsetsOf
  <2>. QED BY <2>1
<1>2. PICK least \in T : \A U \in T : ~(<<U, least>> \in R)
  <2>1. IsWellFoundedOn(R, FiniteSubsetsOf(Nat))
    BY FS_StrictSubsetOrderingWellFounded
  <2>2. T # {}
    <3>1. PICK i \in S : TRUE
      OBVIOUS
    <3>2. 0..i \in T
      OBVIOUS
    <3>. QED BY <3>2
  <2>. HIDE DEF T, R
  <2>. QED BY <1>1, <2>1, <2>2, WFMin
<1>3. PICK i \in S : least = 0..i
  OBVIOUS
<1>4. ASSUME NEW j \in S, j < i
      PROVE  FALSE
  <2>1. 0..j \subseteq 0..i /\ 0..j # 0..i
    BY <1>4
  <2>2. <<0..j, 0..i>> \in R
    BY <2>1 DEF StrictSubsetOrdering
  <2>. QED BY <1>2, <1>3, <2>2
<1>5. \A j \in S : i <= j
  BY <1>4
<1>. QED BY <1>5 DEF Min
-------------------------------------------------------------------------------
\* The inductive invariant: TypeOK needs ArraysOwned (a scan reads an element
\* that was written), ArraysOwned needs nothing else, and NoDuplicateRoutes needs
\* both (an append that wrote below another method's length would break it).
IInv == TypeOK /\ ArraysOwned /\ NoDuplicateRoutes

\* What no step may do to the elements a scan can still read.
ScansKeep ==
  \A c \in Scanning : \A i \in 1..call[c].snap.len :
    arrays'[call[c].snap.arr][i] = arrays[call[c].snap.arr][i]

\* The routes of m become t, those of the other methods stay.
Stored(m, t) ==
  /\ DOMAIN routes' = DOMAIN routes \cup {m}
  /\ Contents(routes[m])' = t
  /\ \A n \in DOMAIN routes \ {m} : Contents(routes[n])' = Contents(routes[n])

LEMMA ContentsProperties ==
  ASSUME TypeOK, NEW sl \in Slice, InBounds(sl)
  PROVE  /\ Contents(sl) \in Seq(Item)
         /\ Len(Contents(sl)) = sl.len
         /\ \A i \in 1..sl.len : Contents(sl)[i] = arrays[sl.arr][i]
<1>. DEFINE s == arrays[sl.arr]
<1>1. s \in Seq(Item \cup {Blank}) /\ sl.len \in Nat /\ sl.len <= Len(s)
  BY RegistryAssumption DEF TypeOK, Slice, InBounds
<1>2. \A i \in 1..sl.len : s[i] \in Item
  BY DEF InBounds
<1>. HIDE DEF s
<1>3. /\ SubSeq(s, 1, sl.len) \in Seq(Item)
      /\ Len(SubSeq(s, 1, sl.len)) = sl.len
      /\ \A i \in 1..sl.len : SubSeq(s, 1, sl.len)[i] = s[i]
  BY <1>1, <1>2, SubSeqProperties
<1>. QED BY <1>3 DEF Contents, s

LEMMA RemovedProperties ==
  ASSUME NEW s \in Seq(Item), NEW it, IsInjective(s)
  PROVE  /\ Removed(s, it) \in Seq(Item)
         /\ Len(Removed(s, it)) <= Len(s)
         /\ IsInjective(Removed(s, it))
<1>1. CASE Hits(s, it) = {}
  <2>1. Removed(s, it) = <<>>
    BY <1>1 DEF Removed
  <2>. QED BY <2>1 DEF IsInjective
<1>2. CASE Hits(s, it) # {}
  <2>1. PICK k \in 1..Len(s) : Removed(s, it) = RemoveAt(s, k)
    <3>1. Hits(s, it) \subseteq Nat /\ Hits(s, it) \subseteq 1..Len(s)
      BY DEF Hits
    <3>2. Min(Hits(s, it)) \in Hits(s, it)
      BY <1>2, <3>1, MinOfPositions
    <3>. QED BY <1>2, <3>1, <3>2 DEF Removed
  <2>2. /\ RemoveAt(s, k) \in Seq(Item)
        /\ Len(RemoveAt(s, k)) = Len(s) - 1
        /\ \A j \in 1..(Len(s) - 1) :
             RemoveAt(s, k)[j] = IF j < k THEN s[j] ELSE s[j + 1]
    BY RemoveAtProperties
  <2>3. ASSUME NEW i \in 1..(Len(s) - 1), NEW j \in 1..(Len(s) - 1),
               RemoveAt(s, k)[i] = RemoveAt(s, k)[j]
        PROVE  i = j
    <3>1. \A a, b \in 1..Len(s) : s[a] = s[b] => a = b
      BY DEF IsInjective
    <3>. QED BY <2>2, <2>3, <3>1
  <2>4. DOMAIN RemoveAt(s, k) = 1..(Len(s) - 1)
    BY <2>2
  <2>5. IsInjective(RemoveAt(s, k))
    BY <2>3, <2>4 DEF IsInjective
  <2>. QED BY <2>1, <2>2, <2>5
<1>. QED BY <1>1, <1>2

\* Appending what is not there yet.
LEMMA AppendedUnique ==
  ASSUME NEW s \in Seq(Item), IsInjective(s), NEW it,
         \A k \in 1..Len(s) : s[k] # it,
         NEW t, DOMAIN t = 1..(Len(s) + 1),
         t[Len(s) + 1] = it, \A k \in 1..Len(s) : t[k] = s[k]
  PROVE  IsInjective(t)
<1>1. Len(s) \in Nat /\ DOMAIN s = 1..Len(s)
  OBVIOUS
<1>2. \A k, l \in 1..Len(s) : s[k] = s[l] => k = l
  BY <1>1 DEF IsInjective
<1>3. ASSUME NEW k \in 1..(Len(s) + 1), NEW l \in 1..(Len(s) + 1), t[k] = t[l]
      PROVE  k = l
  BY <1>1, <1>2, <1>3
<1>. QED BY <1>3 DEF IsInjective

LEMMA NewArrayProperties ==
  ASSUME TypeOK, NEW s \in Seq(Item), NEW a \in Arrays, NewArray(a, s)
  PROVE  /\ a \in Free
         /\ arrays' \in [Arrays \cup {NilArray} -> Seq(Item \cup {Blank})]
         /\ \A b \in (Arrays \cup {NilArray}) \ {a} : arrays'[b] = arrays[b]
         /\ Len(s) <= Len(arrays'[a])
         /\ \A i \in 1..Len(s) : arrays'[a][i] = s[i]
<1>1. PICK cap \in Len(s)..MaxRoutes :
        arrays' = [arrays EXCEPT ![a] = s \o [i \in 1..(cap - Len(s)) |-> Blank]]
  BY DEF NewArray
<1>. DEFINE room == [i \in 1..(cap - Len(s)) |-> Blank]
<1>2. Len(s) \in Nat /\ cap - Len(s) \in Nat /\ s \in Seq(Item \cup {Blank})
  BY RegistryAssumption
<1>3. room \in Seq(Item \cup {Blank}) /\ Len(room) = cap - Len(s)
  BY <1>2
<1>. HIDE DEF room
<1>4. /\ s \o room \in Seq(Item \cup {Blank})
      /\ Len(s \o room) = Len(s) + Len(room)
      /\ \A i \in 1..(Len(s) + Len(room)) :
           (s \o room)[i] = IF i <= Len(s) THEN s[i] ELSE room[i - Len(s)]
  BY <1>2, <1>3, ConcatProperties
<1>5. arrays' = [arrays EXCEPT ![a] = s \o room]
  BY <1>1 DEF room
<1>6. arrays \in [Arrays \cup {NilArray} -> Seq(Item \cup {Blank})]
  BY DEF TypeOK
<1>7. arrays'[a] = s \o room
  BY <1>5, <1>6
<1>8. Len(s) <= Len(s \o room) /\ \A i \in 1..Len(s) : (s \o room)[i] = s[i]
  BY <1>2, <1>3, <1>4
<1>9. a \in Free
  BY DEF NewArray
<1>. QED BY <1>4, <1>5, <1>6, <1>7, <1>8, <1>9
-------------------------------------------------------------------------------
\* One lemma per way the table changes.

LEMMA CallEnds ==
  ASSUME TypeOK, NEW c \in Callers, Become(c, Idle)
  PROVE  /\ call' \in [Callers -> Call]
         /\ Scanning' = Scanning \ {c}
         /\ \A d \in Scanning' : call'[d] = call[d]
BY DEF TypeOK, Become, Scanning, Call, Idle

\* What a scanning caller holds.
LEMMA ScanType ==
  ASSUME TypeOK, NEW c \in Scanning
  PROVE  /\ c \in Callers
         /\ call[c] \in [op : {"scan"}, path : Paths, snap : Slice,
                         pos : 1..(MaxRoutes + 1)]
         /\ call[c].snap \in Slice
BY DEF TypeOK, Scanning, Call, Idle

\* append into a new array, and the copy that a removal makes.
LEMMA FreshSlice ==
  ASSUME IInv, NEW c \in Callers, Become(c, Idle), currentApiVersion' = currentApiVersion,
         NEW m \in Methods, NEW s \in Seq(Item), IsInjective(s), Len(s) <= MaxRoutes,
         NEW a \in Arrays, NewArray(a, s),
         StoreSlice(m, [arr |-> a, len |-> Len(s)])
  PROVE  IInv' /\ ScansKeep /\ Stored(m, s)
<1>. DEFINE new == [arr |-> a, len |-> Len(s)]
<1>. USE DEF IInv
<1>1. /\ a \in Free
      /\ arrays' \in [Arrays \cup {NilArray} -> Seq(Item \cup {Blank})]
      /\ \A b \in (Arrays \cup {NilArray}) \ {a} : arrays'[b] = arrays[b]
      /\ Len(s) <= Len(arrays'[a])
      /\ \A i \in 1..Len(s) : arrays'[a][i] = s[i]
  BY NewArrayProperties
<1>2. /\ call' \in [Callers -> Call]
      /\ Scanning' = Scanning \ {c}
      /\ \A d \in Scanning' : call'[d] = call[d]
  BY CallEnds
<1>3. /\ DOMAIN routes' = DOMAIN routes \cup {m}
      /\ routes'[m] = new
      /\ \A n \in DOMAIN routes' \ {m} : n \in DOMAIN routes /\ routes'[n] = routes[n]
  BY DEF StoreSlice
<1>4. new \in Slice
  BY RegistryAssumption DEF Slice
<1>5. TypeOK'
  BY <1>1, <1>2, <1>3, <1>4 DEF TypeOK
<1>6. \A n \in DOMAIN routes : routes[n] \in Slice /\ routes[n].arr # a /\ InBounds(routes[n])
  BY <1>1 DEF Free, TypeOK, ArraysOwned
<1>7. \A d \in Scanning : call[d].snap \in Slice /\ call[d].snap.arr # a /\ InBounds(call[d].snap)
  BY <1>1, ScanType DEF Free, ArraysOwned
<1>8. ASSUME NEW sl \in Slice, sl.arr # a, InBounds(sl)
      PROVE  InBounds(sl)' /\ Contents(sl)' = Contents(sl)
  BY <1>1, <1>8 DEF Slice, InBounds, Contents
<1>9. InBounds(new)'
  BY <1>1 DEF InBounds
<1>10. ArraysOwned'
  <2>1. arrays'[NilArray] = <<>>
    BY <1>1, RegistryAssumption DEF ArraysOwned
  <2>2. ASSUME NEW n \in DOMAIN routes'
        PROVE  InBounds(routes[n])'
    BY <1>3, <1>6, <1>8, <1>9
  <2>3. ASSUME NEW n \in DOMAIN routes', NEW k \in DOMAIN routes' \ {n},
               routes'[n].arr = routes'[k].arr
        PROVE  routes'[n].arr = NilArray
    BY <1>3, <1>6, <2>3 DEF ArraysOwned
  <2>4. ASSUME NEW n \in DOMAIN routes', NEW d \in Scanning',
               call'[d].snap.arr = routes'[n].arr
        PROVE  call'[d].snap.len <= routes'[n].len
    BY <1>2, <1>3, <1>7, <2>4 DEF ArraysOwned
  <2>5. ASSUME NEW d \in Scanning'
        PROVE  InBounds(call[d].snap)'
    BY <1>2, <1>7, <1>8
  <2>. QED BY <2>1, <2>2, <2>3, <2>4, <2>5 DEF ArraysOwned
<1>11. Contents(new)' = s
  <2>. DEFINE t == arrays'[a]
  <2>1. t \in Seq(Item \cup {Blank}) /\ Len(s) <= Len(t) /\ \A i \in 1..Len(s) : t[i] = s[i]
    BY <1>1
  <2>2. Contents(new)' = SubSeq(t, 1, Len(s))
    BY DEF Contents
  <2>. HIDE DEF t
  <2>3. /\ SubSeq(t, 1, Len(s)) \in Seq(Item \cup {Blank})
        /\ Len(SubSeq(t, 1, Len(s))) = Len(s)
        /\ \A i \in 1..Len(s) : SubSeq(t, 1, Len(s))[i] = t[i]
    BY <2>1
  <2>. QED BY <2>1, <2>2, <2>3
<1>12. NoDuplicateRoutes'
  BY <1>3, <1>6, <1>8, <1>11 DEF NoDuplicateRoutes
<1>13. ScansKeep
  BY <1>1, <1>7 DEF ScansKeep, Slice
<1>14. Stored(m, s)
  <2>1. Contents(routes[m])' = s
    BY <1>3, <1>11 DEF Contents
  <2>2. \A n \in DOMAIN routes \ {m} : Contents(routes[n])' = Contents(routes[n])
    BY <1>3, <1>6, <1>8
  <2>. QED BY <1>3, <2>1, <2>2 DEF Stored
<1>. QED BY <1>5, <1>10, <1>12, <1>13, <1>14
\* A removal that leaves nothing.
LEMMA NilSlice ==
  ASSUME IInv, NEW c \in Callers, Become(c, Idle), currentApiVersion' = currentApiVersion,
         NEW m \in Methods, StoreSlice(m, EmptySlice), UNCHANGED arrays
  PROVE  IInv' /\ ScansKeep /\ Stored(m, <<>>)
<1>. USE DEF IInv
<1>1. /\ call' \in [Callers -> Call]
      /\ Scanning' = Scanning \ {c}
      /\ \A d \in Scanning' : call'[d] = call[d]
  BY CallEnds
<1>2. /\ DOMAIN routes' = DOMAIN routes \cup {m}
      /\ routes'[m] = EmptySlice
      /\ \A n \in DOMAIN routes' \ {m} : n \in DOMAIN routes /\ routes'[n] = routes[n]
  BY DEF StoreSlice
<1>3. EmptySlice \in Slice /\ EmptySlice.arr = NilArray /\ EmptySlice.len = 0
  BY RegistryAssumption DEF Slice, EmptySlice
<1>4. TypeOK'
  BY <1>1, <1>2, <1>3 DEF TypeOK
<1>5. arrays'[NilArray] = <<>>
  BY DEF ArraysOwned
<1>6. \A sl \in Slice : InBounds(sl) => InBounds(sl)' /\ Contents(sl)' = Contents(sl)
  BY DEF InBounds, Contents
<1>7. \A d \in Scanning : call[d].snap \in Slice /\ InBounds(call[d].snap)
  BY ScanType DEF ArraysOwned
<1>8. ArraysOwned'
  <2>1. InBounds(EmptySlice)'
    BY <1>3, <1>5 DEF InBounds
  <2>2. \A n \in DOMAIN routes' : InBounds(routes[n])'
    BY <1>2, <1>6, <2>1 DEF ArraysOwned, TypeOK
  <2>3. ASSUME NEW n \in DOMAIN routes', NEW k \in DOMAIN routes' \ {n},
               routes'[n].arr = routes'[k].arr
        PROVE  routes'[n].arr = NilArray
    BY <1>2, <1>3, <2>3 DEF ArraysOwned
  <2>4. ASSUME NEW n \in DOMAIN routes', NEW d \in Scanning',
               call'[d].snap.arr = routes'[n].arr
        PROVE  call'[d].snap.len <= routes'[n].len
    <3>1. CASE n = m
      \* An array without elements bounds the scan as well.
      <4>1. call[d].snap.arr = NilArray /\ InBounds(call[d].snap) /\ call[d].snap \in Slice
        BY <1>1, <1>2, <1>3, <1>7, <2>4, <3>1
      <4>2. call[d].snap.len <= 0
        BY <4>1 DEF InBounds, ArraysOwned
      <4>. QED BY <1>1, <1>2, <1>3, <3>1, <4>2
    <3>2. CASE n # m
      BY <1>1, <1>2, <2>4, <3>2 DEF ArraysOwned
    <3>. QED BY <3>1, <3>2
  <2>5. \A d \in Scanning' : InBounds(call[d].snap)'
    BY <1>1, <1>6, <1>7
  <2>. QED BY <1>5, <2>2, <2>3, <2>4, <2>5 DEF ArraysOwned
<1>9. NoDuplicateRoutes'
  <2>1. Contents(EmptySlice)' = <<>>
    BY <1>3, <1>5 DEF Contents
  <2>2. IsInjective(Contents(EmptySlice)')
    BY <2>1 DEF IsInjective
  <2>3. \A n \in DOMAIN routes' \ {m} : Contents(routes[n])' = Contents(routes[n])
    BY <1>2 DEF Contents
  <2>. QED BY <1>2, <2>2, <2>3 DEF NoDuplicateRoutes
<1>10. ScansKeep
  BY DEF ScansKeep
<1>11. Stored(m, <<>>)
  <2>1. Contents(routes[m])' = <<>>
    BY <1>2, <1>3, <1>5 DEF Contents
  <2>2. \A n \in DOMAIN routes \ {m} : Contents(routes[n])' = Contents(routes[n])
    BY <1>2 DEF Contents
  <2>. QED BY <1>2, <2>1, <2>2 DEF Stored
<1>. QED BY <1>4, <1>8, <1>9, <1>10, <1>11

\* append in place: the element behind the slice is written, nothing else.
LEMMA GrownSlice ==
  ASSUME IInv, NEW c \in Callers, Become(c, Idle), currentApiVersion' = currentApiVersion,
         NEW m \in Methods, NEW it \in Item, NEW sl, sl = SliceOf(m),
         Hits(Contents(sl), it) = {},
         sl.len < MaxRoutes, sl.len < Len(arrays[sl.arr]),
         arrays' = [arrays EXCEPT ![sl.arr][sl.len + 1] = it],
         StoreSlice(m, [arr |-> sl.arr, len |-> sl.len + 1])
  PROVE  IInv' /\ ScansKeep /\ Stored(m, Append(Contents(sl), it))
<1>. DEFINE new == [arr |-> sl.arr, len |-> sl.len + 1]
            a == sl.arr
<1>. USE DEF IInv
<1>1. /\ sl \in Slice /\ InBounds(sl) /\ a \in Arrays
      /\ m \in DOMAIN routes /\ sl = routes[m]
  <2>1. m \in DOMAIN routes
    BY DEF SliceOf, EmptySlice, ArraysOwned
  <2>2. sl = routes[m] /\ sl \in Slice /\ InBounds(sl)
    BY <2>1 DEF SliceOf, TypeOK, ArraysOwned
  <2>3. a # NilArray
    BY <2>2 DEF ArraysOwned, Slice
  <2>. QED BY <2>1, <2>2, <2>3 DEF Slice
<1>2. /\ call' \in [Callers -> Call]
      /\ Scanning' = Scanning \ {c}
      /\ \A d \in Scanning' : call'[d] = call[d]
  BY CallEnds
<1>3. /\ DOMAIN routes' = DOMAIN routes
      /\ routes'[m] = new
      /\ \A n \in DOMAIN routes' \ {m} : n \in DOMAIN routes /\ routes'[n] = routes[n]
  BY <1>1 DEF StoreSlice
<1>4. new \in Slice
  BY <1>1, RegistryAssumption DEF Slice
<1>5. /\ arrays' \in [Arrays \cup {NilArray} -> Seq(Item \cup {Blank})]
      /\ Len(arrays'[a]) = Len(arrays[a])
      /\ arrays'[a][sl.len + 1] = it
      /\ \A i \in 1..sl.len : arrays'[a][i] = arrays[a][i]
      /\ \A b \in (Arrays \cup {NilArray}) \ {a} : arrays'[b] = arrays[b]
  <2>. DEFINE s == arrays[a]
  <2>1. s \in Seq(Item \cup {Blank}) /\ sl.len + 1 \in 1..Len(s) /\ sl.len \in Nat
    BY <1>1, RegistryAssumption DEF TypeOK, Slice
  <2>2. arrays' = [arrays EXCEPT ![a] = [s EXCEPT ![sl.len + 1] = it]]
    OBVIOUS
  <2>3. arrays \in [Arrays \cup {NilArray} -> Seq(Item \cup {Blank})]
    BY DEF TypeOK
  <2>. HIDE DEF s
  <2>4. /\ [s EXCEPT ![sl.len + 1] = it] \in Seq(Item \cup {Blank})
        /\ Len([s EXCEPT ![sl.len + 1] = it]) = Len(s)
    BY <2>1
  <2>5. arrays'[a] = [s EXCEPT ![sl.len + 1] = it]
    BY <1>1, <2>2, <2>3
  <2>6. /\ arrays'[a][sl.len + 1] = it
        /\ \A i \in 1..sl.len : arrays'[a][i] = s[i]
    BY <2>1, <2>5
  <2>7. \A b \in (Arrays \cup {NilArray}) \ {a} : arrays'[b] = arrays[b]
    BY <2>2, <2>3
  <2>8. arrays' \in [Arrays \cup {NilArray} -> Seq(Item \cup {Blank})]
    BY <2>2, <2>3, <2>4
  <2>9. Len(arrays'[a]) = Len(s)
    BY <2>4, <2>5
  <2>. QED BY <2>6, <2>7, <2>8, <2>9 DEF s
<1>6. TypeOK'
  BY <1>2, <1>3, <1>4, <1>5 DEF TypeOK
\* Whoever shares the array is at most as long as the slice was.
<1>7. ASSUME NEW t \in Slice, InBounds(t), t.arr = a => t.len <= sl.len
      PROVE  /\ InBounds(t)'
             /\ \A i \in 1..t.len : arrays'[t.arr][i] = arrays[t.arr][i]
  <2>1. t.arr \in Arrays \cup {NilArray} /\ t.len \in Nat /\ sl.len \in Nat
    BY <1>1, RegistryAssumption DEF Slice
  <2>2. \A i \in 1..t.len : arrays'[t.arr][i] = arrays[t.arr][i]
    BY <1>5, <1>7, <2>1
  <2>3. Len(arrays'[t.arr]) = Len(arrays[t.arr])
    BY <1>5, <2>1
  <2>. QED BY <1>7, <2>2, <2>3 DEF InBounds
<1>8. \A d \in Scanning : /\ call[d].snap \in Slice /\ InBounds(call[d].snap)
                          /\ call[d].snap.arr = a => call[d].snap.len <= sl.len
  BY <1>1, ScanType DEF ArraysOwned
<1>9. \A n \in DOMAIN routes \ {m} : /\ routes[n] \in Slice /\ InBounds(routes[n])
                                     /\ routes[n].arr # a
  BY <1>1, RegistryAssumption DEF ArraysOwned, TypeOK
<1>10. InBounds(new)'
  <2>1. \A i \in 1..(sl.len + 1) : arrays'[a][i] \in Item
    BY <1>1, <1>5 DEF InBounds, Slice
  <2>. QED BY <1>1, <1>5, <2>1 DEF InBounds, Slice
<1>11. ArraysOwned'
  <2>1. arrays'[NilArray] = <<>>
    BY <1>1, <1>5, RegistryAssumption DEF ArraysOwned
  <2>2. \A n \in DOMAIN routes' : InBounds(routes[n])'
    BY <1>3, <1>7, <1>9, <1>10
  <2>3. ASSUME NEW n \in DOMAIN routes', NEW k \in DOMAIN routes' \ {n},
               routes'[n].arr = routes'[k].arr
        PROVE  routes'[n].arr = NilArray
    BY <1>1, <1>3, <2>3 DEF ArraysOwned
  <2>4. ASSUME NEW n \in DOMAIN routes', NEW d \in Scanning',
               call'[d].snap.arr = routes'[n].arr
        PROVE  call'[d].snap.len <= routes'[n].len
    <3>1. CASE n = m
      <4>1. call[d].snap.len <= sl.len /\ call[d].snap.len \in Nat /\ sl.len \in Nat
        BY <1>1, <1>2, <1>3, <1>8, <2>4, <3>1, RegistryAssumption DEF Slice
      <4>. QED BY <1>2, <1>3, <3>1, <4>1
    <3>2. CASE n # m
      BY <1>2, <1>3, <2>4, <3>2 DEF ArraysOwned
    <3>. QED BY <3>1, <3>2
  <2>5. \A d \in Scanning' : InBounds(call[d].snap)'
    BY <1>2, <1>7, <1>8
  <2>. QED BY <2>1, <2>2, <2>3, <2>4, <2>5 DEF ArraysOwned
<1>12. Contents(new)' = Append(Contents(sl), it) /\ IsInjective(Append(Contents(sl), it))
  <2>. DEFINE s == Contents(sl)
              t == arrays'[a]
  <2>1. /\ s \in Seq(Item) /\ Len(s) = sl.len
        /\ \A i \in 1..sl.len : s[i] = arrays[a][i]
    BY <1>1, ContentsProperties
  <2>2. IsInjective(s)
    BY <1>1 DEF NoDuplicateRoutes
  <2>3. \A i \in 1..sl.len : s[i] # it
    BY <2>1 DEF Hits
  <2>4. t \in Seq(Item \cup {Blank}) /\ sl.len + 1 <= Len(t) /\ sl.len \in Nat
    BY <1>1, <1>5, RegistryAssumption DEF Slice, TypeOK
  <2>5. t[sl.len + 1] = it /\ \A i \in 1..sl.len : t[i] = s[i]
    BY <1>5, <2>1
  <2>6. Contents(new)' = SubSeq(t, 1, sl.len + 1)
    BY DEF Contents
  <2>. HIDE DEF s, t
  <2>7. Append(s, it) = SubSeq(t, 1, sl.len + 1)
    <3>1. /\ SubSeq(t, 1, sl.len + 1) \in Seq(Item \cup {Blank})
          /\ Len(SubSeq(t, 1, sl.len + 1)) = sl.len + 1
          /\ \A i \in 1..(sl.len + 1) : SubSeq(t, 1, sl.len + 1)[i] = t[i]
      BY <2>4
    <3>2. /\ Append(s, it) \in Seq(Item \cup {Blank}) /\ Len(Append(s, it)) = sl.len + 1
          /\ Append(s, it)[sl.len + 1] = it /\ \A i \in 1..sl.len : Append(s, it)[i] = s[i]
      BY <2>1, <2>4
    <3>. HIDE DEF new
    <3>3. \A i \in 1..(sl.len + 1) : Append(s, it)[i] = SubSeq(t, 1, sl.len + 1)[i]
      BY <2>4, <2>5, <3>1, <3>2
    <3>. QED BY <3>1, <3>2, <3>3, SeqEqual
  <2>8. IsInjective(Append(s, it))
    <3>. DEFINE u == Append(s, it)
    <3>1. DOMAIN u = 1..(Len(s) + 1) /\ u[Len(s) + 1] = it /\ \A i \in 1..Len(s) : u[i] = s[i]
      BY <2>1
    <3>. HIDE DEF u
    <3>2. IsInjective(u)
      BY <2>1, <2>2, <2>3, <3>1, AppendedUnique
    <3>. QED BY <3>2 DEF u
  <2>. QED BY <2>6, <2>7, <2>8 DEF s
<1>13. Stored(m, Append(Contents(sl), it))
  <2>1. Contents(routes[m])' = Append(Contents(sl), it)
    BY <1>3, <1>12 DEF Contents
  <2>2. ASSUME NEW n \in DOMAIN routes \ {m} PROVE Contents(routes[n])' = Contents(routes[n])
    <3>1. arrays'[routes[n].arr] = arrays[routes[n].arr]
      BY <1>5, <1>9 DEF Slice
    <3>. QED BY <1>3, <3>1 DEF Contents
  <2>. QED BY <1>1, <1>3, <2>1, <2>2 DEF Stored
<1>14. NoDuplicateRoutes'
  <2>1. ASSUME NEW n \in DOMAIN routes' PROVE IsInjective(Contents(routes[n])')
    BY <1>3, <1>12, <1>13 DEF Stored, NoDuplicateRoutes
  <2>. QED BY <2>1 DEF NoDuplicateRoutes
<1>15. ScansKeep
  BY <1>7, <1>8 DEF ScansKeep
<1>. QED BY <1>6, <1>11, <1>13, <1>14, <1>15
-------------------------------------------------------------------------------
\* Steps that leave the table alone: whatever they make of their caller's call.
LEMMA TableUntouched ==
  ASSUME IInv, currentApiVersion' \in Versions, UNCHANGED <<routes, arrays>>,
         call' \in [Callers -> Call],
         \A d \in Scanning' : InBounds(call'[d].snap),
         \A d \in Scanning', m \in DOMAIN routes :
           call'[d].snap.arr = routes[m].arr => call'[d].snap.len <= routes[m].len
  PROVE  IInv' /\ ScansKeep
<1>1. TypeOK'
  BY DEF IInv, TypeOK
<1>2. ArraysOwned'
  BY DEF IInv, ArraysOwned, InBounds
<1>3. NoDuplicateRoutes'
  BY DEF IInv, NoDuplicateRoutes, Contents
<1>4. ScansKeep
  BY DEF ScansKeep
<1>. QED BY <1>1, <1>2, <1>3, <1>4 DEF IInv

\* A caller that does not start a scan leaves the scans to be as they were.
LEMMA NoNewScan ==
  ASSUME IInv, currentApiVersion' \in Versions, UNCHANGED <<routes, arrays>>,
         NEW c \in Callers, NEW what \in Call, Become(c, what),
         what.op = "scan" => call[c].op = "scan" /\ what.snap = call[c].snap
  PROVE  IInv' /\ ScansKeep
<1>1. call' \in [Callers -> Call]
  BY DEF Become, IInv, TypeOK
<1>2. \A d \in Scanning' : d \in Scanning /\ call'[d].snap = call[d].snap
  BY DEF Become, Scanning, IInv, TypeOK
<1>. QED BY <1>1, <1>2, TableUntouched DEF IInv, ArraysOwned

LEMMA VersionReadType ==
  ASSUME TypeOK
  PROVE  VersionRead \subseteq Versions
BY DEF VersionRead, TypeOK

\* A call to AddRoute that is not refused: its item is the last of its method.
LEMMA AddKeeps ==
  ASSUME IInv, NEW c \in Callers, AddRoute(c), NEW m, m = call[c].method,
         NEW it, it = call[c].item
  PROVE  /\ m \in Methods /\ it \in Item
         /\ Hits(Contents(SliceOf(m)), it) = {}
         /\ Become(c, Idle)
         /\ IInv' /\ ScansKeep
         /\ Stored(m, Append(Contents(SliceOf(m)), it))
<1>. DEFINE sl == SliceOf(m)
<1>1. m \in Methods /\ it \in Item
  BY DEF AddRoute, IInv, TypeOK, Call, Idle
<1>2. /\ Hits(Contents(sl), it) = {}
      /\ AppendItem(m, it)
      /\ Become(c, Idle)
      /\ currentApiVersion' = currentApiVersion
  BY DEF AddRoute, Refused
<1>3. PICK t : t = Append(Contents(sl), it)
  OBVIOUS
<1>4. CASE /\ sl.len < Len(arrays[sl.arr])
           /\ arrays' = [arrays EXCEPT ![sl.arr][sl.len + 1] = it]
           /\ StoreSlice(m, [arr |-> sl.arr, len |-> sl.len + 1])
  <2>1. PICK old : old = sl
    OBVIOUS
  <2>2. sl.len < MaxRoutes
    BY <1>2 DEF AppendItem
  <2>3. IInv' /\ ScansKeep /\ Stored(m, Append(Contents(old), it))
    <3>. HIDE DEF sl
    <3>1. sl = SliceOf(m)
      BY DEF sl
    <3>. QED BY <1>1, <1>2, <1>4, <2>1, <2>2, <3>1, GrownSlice
  <2>. QED BY <1>1, <1>2, <2>1, <2>3
<1>5. CASE \E a \in Arrays : /\ NewArray(a, Append(Contents(sl), it))
                             /\ StoreSlice(m, [arr |-> a, len |-> sl.len + 1])
  <2>. DEFINE s == Contents(sl)
  <2>1. sl \in Slice /\ InBounds(sl) /\ sl.len < MaxRoutes /\ IsInjective(s)
    <3>1. CASE m \in DOMAIN routes
      BY <1>2, <3>1 DEF SliceOf, IInv, TypeOK, ArraysOwned, AppendItem, NoDuplicateRoutes
    <3>2. CASE m \notin DOMAIN routes
      <4>1. sl = EmptySlice /\ EmptySlice \in Slice /\ EmptySlice.len = 0
        BY <3>2, RegistryAssumption DEF SliceOf, EmptySlice, Slice
      <4>2. InBounds(EmptySlice)
        BY DEF InBounds, EmptySlice, IInv, ArraysOwned
      <4>3. Contents(EmptySlice) = <<>>
        BY DEF Contents, EmptySlice, IInv, ArraysOwned
      <4>. QED BY <1>2, <4>1, <4>2, <4>3 DEF IsInjective, AppendItem
    <3>. QED BY <3>1, <3>2
  <2>2. s \in Seq(Item) /\ Len(s) = sl.len
    BY <2>1, ContentsProperties DEF IInv
  <2>3. \A i \in 1..Len(s) : s[i] # it
    BY <1>2 DEF Hits
  <2>. HIDE DEF s
  <2>4. /\ t \in Seq(Item) /\ Len(t) = sl.len + 1 /\ Len(t) <= MaxRoutes
        /\ DOMAIN t = 1..(Len(s) + 1) /\ t[Len(s) + 1] = it
        /\ \A i \in 1..Len(s) : t[i] = s[i]
    <3>. DEFINE u == Append(s, it)
    <3>1. /\ u \in Seq(Item) /\ Len(u) = sl.len + 1 /\ Len(u) <= MaxRoutes
          /\ DOMAIN u = 1..(Len(s) + 1) /\ u[Len(s) + 1] = it
          /\ \A i \in 1..Len(s) : u[i] = s[i]
      BY <1>1, <2>1, <2>2, RegistryAssumption DEF Slice
    <3>. QED BY <1>3, <3>1 DEF s
  <2>5. IsInjective(t)
    BY <2>1, <2>2, <2>3, <2>4, AppendedUnique
  <2>6. PICK a \in Arrays : NewArray(a, t) /\ StoreSlice(m, [arr |-> a, len |-> Len(t)])
    BY <1>3, <1>5, <2>4 DEF s
  <2>7. IInv' /\ ScansKeep /\ Stored(m, t)
    BY <1>1, <1>2, <2>4, <2>5, <2>6, FreshSlice
  <2>. QED BY <1>1, <1>2, <1>3, <2>7
<1>. QED BY <1>2, <1>4, <1>5 DEF AppendItem

\* A removal: the method has a slice of its own with what is left.
LEMMA RemoveKeeps ==
  ASSUME IInv, NEW c \in Callers, RemoveRoute(c), NEW m, m = call[c].method,
         NEW it, it = call[c].item
  PROVE  /\ m \in Methods /\ it \in Item /\ m \in DOMAIN routes
         /\ Become(c, Idle)
         /\ IInv' /\ ScansKeep
         /\ Stored(m, Removed(Contents(routes[m]), it))
<1>. DEFINE s == Removed(Contents(routes[m]), it)
<1>1. m \in Methods /\ it \in Item /\ m \in DOMAIN routes
  BY DEF RemoveRoute, IInv, TypeOK, Call, Idle
<1>2. StoreCopy(m, s) /\ Become(c, Idle) /\ currentApiVersion' = currentApiVersion
  BY DEF RemoveRoute
<1>3. s \in Seq(Item) /\ IsInjective(s) /\ Len(s) <= MaxRoutes
  <2>1. routes[m] \in Slice /\ InBounds(routes[m]) /\ IsInjective(Contents(routes[m]))
    BY <1>1 DEF IInv, TypeOK, ArraysOwned, NoDuplicateRoutes
  <2>2. Contents(routes[m]) \in Seq(Item) /\ Len(Contents(routes[m])) <= MaxRoutes
    BY <2>1, ContentsProperties DEF IInv, Slice
  <2>3. /\ s \in Seq(Item) /\ IsInjective(s)
        /\ Len(s) <= Len(Contents(routes[m]))
    BY <2>1, <2>2, RemovedProperties
  <2>. HIDE DEF s
  <2>4. Len(s) \in Nat /\ Len(Contents(routes[m])) \in Nat /\ MaxRoutes \in Nat
    BY <2>2, <2>3, RegistryAssumption
  <2>. QED BY <2>2, <2>3, <2>4
<1>4. PICK t : t = s
  OBVIOUS
<1>. HIDE DEF s
<1>5. IInv' /\ ScansKeep /\ Stored(m, t)
  BY <1>1, <1>2, <1>3, <1>4, FreshSlice, NilSlice DEF StoreCopy
<1>. QED BY <1>1, <1>2, <1>4, <1>5 DEF s

LEMMA StepKeeps ==
  ASSUME IInv, [Next]_vars
  PROVE  IInv' /\ ScansKeep
<1>1. CASE UNCHANGED vars
  BY <1>1, TableUntouched DEF vars, IInv, TypeOK, ArraysOwned, Scanning
<1>2. ASSUME NEW c \in Callers, NEW ver \in Versions, SetApiVersion(c, ver)
      PROVE  IInv' /\ ScansKeep
  <2>1. [op |-> "set", version |-> ver] \in Call
    BY DEF Call
  <2>. QED BY <1>2, <2>1, NoNewScan DEF SetApiVersion, IInv, TypeOK
<1>3. ASSUME NEW c \in Callers, ApiVersionSet(c)
      PROVE  IInv' /\ ScansKeep
  <2>1. Idle \in Call /\ Idle.op # "scan"
    BY DEF Call, Idle
  <2>2. call[c].version \in Versions
    BY <1>3 DEF ApiVersionSet, IInv, TypeOK, Call, Idle
  <2>3. currentApiVersion' \in Versions
    BY <1>3, <2>2 DEF ApiVersionSet
  <2>. QED BY <1>3, <2>1, <2>3, NoNewScan DEF ApiVersionSet
<1>4. ASSUME NEW c \in Callers, NEW op \in {"add", "remove"}, NEW m \in Methods,
             NEW pat \in Patterns, Start(c, op, m, pat)
      PROVE  IInv' /\ ScansKeep
  <2>1. PICK ver \in Versions :
          Become(c, [op |-> op, method |-> m, item |-> [version |-> ver, pattern |-> pat]])
    BY <1>4, VersionReadType DEF Start, IInv
  <2>2. [op |-> op, method |-> m, item |-> [version |-> ver, pattern |-> pat]] \in Call
    BY DEF Call, Item
  <2>. QED BY <1>4, <2>1, <2>2, NoNewScan DEF Start, IInv, TypeOK
<1>5. ASSUME NEW c \in Callers, AddPanics(c) \/ RemovePanics(c) \/ HandleReturns(c)
      PROVE  IInv' /\ ScansKeep
  <2>1. Idle \in Call /\ Idle.op # "scan"
    BY DEF Call, Idle
  <2>. QED BY <1>5, <2>1, NoNewScan DEF AddPanics, RemovePanics, HandleReturns, IInv, TypeOK
<1>6. ASSUME NEW c \in Callers, AddRoute(c)
      PROVE  IInv' /\ ScansKeep
  BY <1>6, AddKeeps
<1>7. ASSUME NEW c \in Callers, RemoveRoute(c)
      PROVE  IInv' /\ ScansKeep
  BY <1>7, RemoveKeeps
<1>8. ASSUME NEW c \in Callers, NEW m \in Methods, NEW path \in Paths, Handle(c, m, path)
      PROVE  IInv' /\ ScansKeep
  <2>. DEFINE sl == SliceOf(Upper[m])
              what == [op |-> "scan", path |-> path, snap |-> sl, pos |-> 1]
  <2>1. EmptySlice \in Slice /\ InBounds(EmptySlice) /\ EmptySlice.len = 0
    BY RegistryAssumption DEF EmptySlice, Slice, InBounds, IInv, ArraysOwned
  <2>2. sl \in Slice /\ InBounds(sl)
    BY <2>1 DEF SliceOf, IInv, TypeOK, ArraysOwned
  <2>3. ASSUME NEW n \in DOMAIN routes, sl.arr = routes[n].arr
        PROVE  sl.len <= routes[n].len
    <3>1. routes[n] \in Slice /\ routes[n].len \in Nat
      BY RegistryAssumption DEF IInv, TypeOK, Slice
    <3>2. CASE Upper[m] = n
      BY <3>1, <3>2 DEF SliceOf
    <3>3. CASE Upper[m] # n
      <4>1. sl.arr = NilArray
        BY <2>3, <3>3 DEF SliceOf, EmptySlice, IInv, ArraysOwned
      <4>2. sl.len = 0
        BY <2>2, <4>1, RegistryAssumption DEF InBounds, IInv, ArraysOwned, Slice
      <4>. QED BY <3>1, <4>2
    <3>. QED BY <3>2, <3>3
  <2>4. what \in Call /\ what.snap = sl
    BY <2>2, RegistryAssumption DEF Call
  <2>. HIDE DEF sl
  <2>5. call' = [call EXCEPT ![c] = what]
    BY <1>8 DEF Handle, Become, sl
  <2>. HIDE DEF what
  <2>6. call' \in [Callers -> Call]
    BY <2>4, <2>5 DEF IInv, TypeOK
  <2>7. \A d \in Scanning' : \/ d = c /\ call'[d].snap = sl
                             \/ d \in Scanning /\ call'[d] = call[d]
    BY <2>4, <2>5 DEF Scanning, IInv, TypeOK
  <2>8. UNCHANGED <<routes, arrays>> /\ currentApiVersion' \in Versions
    BY <1>8 DEF Handle, IInv, TypeOK
  <2>. QED BY <2>2, <2>3, <2>6, <2>7, <2>8, TableUntouched DEF IInv, ArraysOwned
<1>9. ASSUME NEW c \in Callers, Match(c)
      PROVE  IInv' /\ ScansKeep
  <2>1. c \in Scanning /\ call[c].pos <= call[c].snap.len
    BY <1>9 DEF Match, Scanning
  <2>2. /\ call[c] \in [op : {"scan"}, path : Paths, snap : Slice, pos : 1..(MaxRoutes + 1)]
        /\ InBounds(call[c].snap)
    BY <2>1, ScanType DEF IInv, ArraysOwned
  <2>. DEFINE item == arrays[call[c].snap.arr][call[c].pos]
              further == [call[c] EXCEPT !.pos = @ + 1]
  <2>3. item \in Item
    BY <2>1, <2>2, RegistryAssumption DEF InBounds, Slice
  <2>4. [op |-> "routed", route |-> item] \in Call
    BY <2>3 DEF Call
  <2>5. /\ further \in [op : {"scan"}, path : Paths, snap : Slice, pos : 1..(MaxRoutes + 1)]
        /\ further.snap = call[c].snap
    BY <2>1, <2>2, RegistryAssumption DEF Slice
  <2>6. further \in Call
    BY <2>5 DEF Call
  <2>7. Become(c, [op |-> "routed", route |-> item]) \/ Become(c, further)
    BY <1>9 DEF Match
  <2>8. UNCHANGED <<routes, arrays>> /\ currentApiVersion' \in Versions /\ call[c].op = "scan"
    BY <1>9 DEF Match, IInv, TypeOK
  <2>. HIDE DEF item, further
  <2>. QED BY <2>4, <2>5, <2>6, <2>7, <2>8, NoNewScan
<1>10. ASSUME NEW c \in Callers, NoMatch(c)
       PROVE  IInv' /\ ScansKeep
  <2>1. [op |-> "routed", route |-> NotFound] \in Call
    BY DEF Call
  <2>. QED BY <1>10, <2>1, NoNewScan DEF NoMatch, IInv, TypeOK
<1>. QED BY <1>1, <1>2, <1>3, <1>4, <1>5, <1>6, <1>7, <1>8, <1>9, <1>10 DEF Next
LEMMA InitEstablishes ==
  ASSUME Init
  PROVE  IInv
<1>1. TypeOK
  BY RegistryAssumption DEF Init, TypeOK, Call, Idle
<1>2. ArraysOwned
  BY RegistryAssumption DEF Init, ArraysOwned, Scanning, Idle
<1>3. NoDuplicateRoutes
  BY DEF Init, NoDuplicateRoutes
<1>. QED BY <1>1, <1>2, <1>3 DEF IInv

LEMMA Invariance == Spec => []IInv
<1>1. Init => IInv
  BY InitEstablishes
<1>2. IInv /\ [Next]_vars => IInv'
  BY StepKeeps
<1>. QED BY <1>1, <1>2, PTL DEF Spec

\* Every slice header, array and call of the registry has its type: no scan ever
\* reads an element that was never written (route.go:284-289).
THEOREM TypeCorrect == Spec => []TypeOK
<1>1. IInv => TypeOK
  BY DEF IInv
<1>. QED BY <1>1, Invariance, PTL

\* Two methods never append to one array, and whatever a request still scans lies
\* below the length that the next append writes behind (route.go:193, 276).
THEOREM ArraysStayOwned == Spec => []ArraysOwned
<1>1. IInv => ArraysOwned
  BY DEF IInv
<1>. QED BY <1>1, Invariance, PTL

\* A version and a pattern are registered at most once per method, whatever races
\* with AddRoute's unlocked read of the version (route.go:184-191).
THEOREM RoutesStayUnique == Spec => []NoDuplicateRoutes
<1>1. IInv => NoDuplicateRoutes
  BY DEF IInv
<1>. QED BY <1>1, Invariance, PTL

\* A header that is being scanned shows the same elements before and after a step.
LEMMA FrozenContents ==
  ASSUME IInv, ScansKeep, NEW c \in Scanning, NEW sl, sl = call[c].snap
  PROVE  Contents(sl)' = Contents(sl)
<1>. DEFINE s == arrays[sl.arr]
            t == arrays'[sl.arr]
<1>1. \A i \in 1..sl.len : t[i] = s[i]
  BY DEF ScansKeep
<1>2. sl.len <= Len(s) /\ sl.len \in Nat
  BY ScanType, RegistryAssumption DEF IInv, ArraysOwned, InBounds, Slice
<1>3. SubSeq(t, 1, sl.len) = SubSeq(s, 1, sl.len)
  <2>. HIDE DEF s, t
  <2>1. SubSeq(t, 1, sl.len) = [i \in 1..sl.len |-> t[i]]
    BY <1>2
  <2>2. SubSeq(s, 1, sl.len) = [i \in 1..sl.len |-> s[i]]
    BY <1>2
  <2>. QED BY <1>1, <2>1, <2>2
<1>. QED BY <1>3 DEF Contents

\* What a request scans without the lock does not change under it
\* (route.go:268-289).
THEOREM ScansAreFrozen == Spec => SnapshotFrozen
<1>. DEFINE Frozen == \A c \in Callers : \A sl \in Slice :
              (call[c].op = "scan" /\ call[c].snap = sl) => Contents(sl)' = Contents(sl)
<1>1. IInv /\ [Next]_vars => [Frozen]_vars
  <2>. SUFFICES ASSUME IInv, [Next]_vars, NEW c \in Callers, NEW sl \in Slice,
                       call[c].op = "scan", call[c].snap = sl
                PROVE  Contents(sl)' = Contents(sl)
    OBVIOUS
  <2>1. ScansKeep /\ c \in Scanning
    BY StepKeeps DEF Scanning
  <2>. QED BY <2>1, FrozenContents
<1>. QED BY <1>1, Invariance, PTL DEF Spec, SnapshotFrozen
-------------------------------------------------------------------------------
\* The refinement of RouteTable.  A request is decided at the instant its slice
\* header is copied: the first match of what the header shows then is what the
\* scan will find, because the elements are frozen and those the scan has passed
\* do not accept the path.

Passed ==
  \A c \in Scanning :
    /\ call[c].pos <= call[c].snap.len + 1
    /\ \A i \in 1..(call[c].pos - 1) :
         i \notin Accepting(Contents(call[c].snap), call[c].path)

Engaged == {c \in Callers : call[c].op \in {"scan", "routed"}}

Decision(c) ==
  IF call[c].op = "routed" THEN call[c].route
  ELSE FirstMatch(Contents(call[c].snap), call[c].path)

AbsTable == [m \in DOMAIN routes |-> Contents(routes[m])]
AbsDecided == [c \in Engaged |-> Decision(c)]

WithRoutes(m, t) ==
  [n \in DOMAIN AbsTable \cup {m} |-> IF n = m THEN t ELSE AbsTable[n]]

\* How a caller comes to be scanning.
LEMMA ScanSteps ==
  ASSUME IInv, [Next]_vars, NEW d \in Callers
  PROVE  \/ call'[d] = call[d]
         \/ call'[d].op # "scan"
         \/ call'[d].pos = 1
         \/ Match(d)
<1>. USE DEF IInv, TypeOK
<1>1. CASE UNCHANGED vars
  BY <1>1 DEF vars
<1>2. ASSUME NEW c \in Callers, NEW what, Become(c, what), what.op = "scan" => what.pos = 1
      PROVE  call'[d] = call[d] \/ call'[d].op # "scan" \/ call'[d].pos = 1
  BY <1>2 DEF Become
<1>3. ASSUME NEW c \in Callers, NEW ver \in Versions, SetApiVersion(c, ver)
      PROVE  call'[d] = call[d] \/ call'[d].op # "scan"
  BY <1>3 DEF SetApiVersion, Become
<1>4. ASSUME NEW c \in Callers,
             \/ ApiVersionSet(c) \/ AddPanics(c) \/ AddRoute(c) \/ RemoveRoute(c)
             \/ RemovePanics(c) \/ HandleReturns(c)
      PROVE  call'[d] = call[d] \/ call'[d].op # "scan"
  <2>1. Become(c, Idle)
    BY <1>4 DEF ApiVersionSet, AddPanics, AddRoute, RemoveRoute, RemovePanics, HandleReturns
  <2>. QED BY <2>1 DEF Become, Idle
<1>5. ASSUME NEW c \in Callers, NEW op \in {"add", "remove"}, NEW m \in Methods,
             NEW pat \in Patterns, Start(c, op, m, pat)
      PROVE  call'[d] = call[d] \/ call'[d].op # "scan"
  BY <1>5 DEF Start, Become
<1>6. ASSUME NEW c \in Callers, NEW m \in Methods, NEW path \in Paths, Handle(c, m, path)
      PROVE  call'[d] = call[d] \/ call'[d].pos = 1
  BY <1>6 DEF Handle, Become
<1>7. ASSUME NEW c \in Callers, Match(c)
      PROVE  call'[d] = call[d] \/ Match(d)
  BY <1>7 DEF Match, Become
<1>8. ASSUME NEW c \in Callers, NoMatch(c)
      PROVE  call'[d] = call[d] \/ call'[d].op # "scan"
  BY <1>8 DEF NoMatch, Become
<1>. QED BY <1>1, <1>3, <1>4, <1>5, <1>6, <1>7, <1>8 DEF Next

LEMMA PassedKept ==
  ASSUME IInv, Passed, [Next]_vars
  PROVE  Passed'
<1>1. IInv' /\ ScansKeep
  BY StepKeeps
<1>. SUFFICES ASSUME NEW d \in Scanning'
              PROVE  /\ call'[d].pos <= call'[d].snap.len + 1
                     /\ \A i \in 1..(call'[d].pos - 1) :
                          i \notin Accepting(Contents(call[d].snap)', call'[d].path)
  BY DEF Passed, Accepting
<1>2. d \in Callers /\ call'[d].op = "scan" /\ call'[d].snap.len \in Nat
  BY <1>1, RegistryAssumption DEF Scanning, IInv, TypeOK, Call, Idle, Slice
<1>3. CASE call'[d].pos = 1
  BY <1>2, <1>3
<1>4. ASSUME d \in Scanning, call'[d].snap = call[d].snap
      PROVE  Contents(call[d].snap)' = Contents(call[d].snap)
  <2>1. PICK sl : sl = call[d].snap
    OBVIOUS
  <2>2. Contents(sl)' = Contents(sl)
    BY <1>1, <1>4, <2>1, FrozenContents
  <2>. QED BY <1>4, <2>1, <2>2 DEF Contents
<1>5. CASE call'[d] = call[d]
  <2>1. d \in Scanning
    BY <1>2, <1>5 DEF Scanning
  <2>2. Contents(call[d].snap)' = Contents(call[d].snap)
    BY <1>4, <1>5, <2>1
  <2>. QED BY <1>5, <2>1, <2>2 DEF Passed
<1>6. CASE Match(d)
  <2>1. d \in Scanning /\ call[d].pos <= call[d].snap.len
    BY <1>2, <1>6 DEF Match, Scanning
  <2>2. /\ call[d] \in [op : {"scan"}, path : Paths, snap : Slice, pos : 1..(MaxRoutes + 1)]
        /\ InBounds(call[d].snap)
    BY <2>1, ScanType DEF IInv, ArraysOwned
  <2>. DEFINE sl == call[d].snap
              item == arrays[sl.arr][call[d].pos]
  <2>3. /\ call[d].path \notin Accepts[<<item.version, item.pattern>>]
        /\ call'[d] = [call[d] EXCEPT !.pos = @ + 1]
    BY <1>2, <1>6 DEF Match, Become, IInv, TypeOK
  <2>4. /\ call'[d].snap = sl /\ call'[d].path = call[d].path
        /\ call'[d].pos = call[d].pos + 1
    BY <2>2, <2>3
  <2>5. Contents(call[d].snap)' = Contents(sl)
    BY <1>4, <2>1, <2>4
  <2>6. Contents(sl)[call[d].pos] = item
    BY <2>1, <2>2, ContentsProperties, RegistryAssumption DEF IInv, Slice
  <2>7. call[d].pos \notin Accepting(Contents(sl), call[d].path)
    BY <2>3, <2>6 DEF Accepting
  <2>8. \A i \in 1..(call[d].pos - 1) : i \notin Accepting(Contents(sl), call[d].path)
    BY <2>1 DEF Passed
  <2>9. \A i \in 1..call[d].pos : i \notin Accepting(Contents(sl), call[d].path)
    BY <2>2, <2>7, <2>8
  <2>. QED BY <2>1, <2>2, <2>4, <2>5, <2>9, RegistryAssumption DEF Slice
<1>. QED BY <1>2, <1>3, <1>5, <1>6, ScanSteps

-------------------------------------------------------------------------------
\* What a step does to the table and to the decisions.

LEMMA TableStored ==
  ASSUME NEW m, NEW t, Stored(m, t)
  PROVE  AbsTable' = WithRoutes(m, t)
<1>1. AbsTable' = [n \in DOMAIN routes \cup {m} |-> Contents(routes[n])']
  BY DEF AbsTable, Stored
<1>2. \A n \in DOMAIN routes \cup {m} :
        Contents(routes[n])' = IF n = m THEN t ELSE AbsTable[n]
  BY DEF AbsTable, Stored
<1>3. DOMAIN AbsTable = DOMAIN routes
  BY DEF AbsTable
<1>. QED BY <1>1, <1>2, <1>3 DEF WithRoutes

LEMMA TableSame ==
  ASSUME UNCHANGED <<routes, arrays>>
  PROVE  AbsTable' = AbsTable
BY DEF AbsTable, Contents

\* The callers that do nothing keep their decisions.
LEMMA OthersDecided ==
  ASSUME IInv, ScansKeep, NEW c \in Callers, NEW what, Become(c, what)
  PROVE  /\ Engaged' = (Engaged \ {c}) \cup (IF what.op \in {"scan", "routed"} THEN {c} ELSE {})
         /\ \A d \in Engaged \ {c} : Decision(d)' = Decision(d)
         /\ call'[c] = what
<1>1. call'[c] = what /\ \A d \in Callers \ {c} : call'[d] = call[d]
  BY DEF Become, IInv, TypeOK
<1>2. ASSUME NEW d \in Engaged \ {c} PROVE Decision(d)' = Decision(d)
  <2>1. call'[d] = call[d] /\ d \in Callers
    BY <1>1 DEF Engaged
  <2>2. CASE call[d].op = "routed"
    BY <2>1, <2>2 DEF Decision
  <2>3. CASE call[d].op # "routed"
    <3>1. d \in Scanning
      BY <2>1, <2>3 DEF Engaged, Scanning
    <3>2. PICK sl : sl = call[d].snap
      OBVIOUS
    <3>3. Contents(sl)' = Contents(sl)
      BY <3>1, <3>2, FrozenContents
    <3>4. Contents(call[d].snap)' = Contents(call[d].snap)
      BY <2>1, <3>2, <3>3 DEF Contents
    <3>. QED BY <2>1, <2>3, <3>4 DEF Decision, FirstMatch, Accepting
  <2>. QED BY <2>2, <2>3
<1>. QED BY <1>1, <1>2 DEF Engaged

\* A step of a caller that neither had nor has a request.
LEMMA DecidedSame ==
  ASSUME IInv, ScansKeep, NEW c \in Callers, c \notin Engaged,
         NEW what, Become(c, what), what.op \notin {"scan", "routed"}
  PROVE  AbsDecided' = AbsDecided
<1>1. /\ Engaged' = Engaged
      /\ \A d \in Engaged : Decision(d)' = Decision(d)
  BY OthersDecided
<1>2. AbsDecided' = [d \in Engaged' |-> Decision(d)']
  BY DEF AbsDecided
<1>. QED BY <1>1, <1>2 DEF AbsDecided

\* A step of a request that keeps its decision.
LEMMA DecisionKept ==
  ASSUME IInv, ScansKeep, NEW c \in Engaged, NEW what, Become(c, what),
         what.op \in {"scan", "routed"}, Decision(c)' = Decision(c)
  PROVE  AbsDecided' = AbsDecided
<1>1. c \in Callers
  BY DEF Engaged
<1>2. /\ Engaged' = Engaged
      /\ \A d \in Engaged \ {c} : Decision(d)' = Decision(d)
  BY <1>1, OthersDecided
<1>3. AbsDecided' = [d \in Engaged' |-> Decision(d)']
  BY DEF AbsDecided
<1>. QED BY <1>2, <1>3 DEF AbsDecided

\* The scan finds what was decided when it began.
LEMMA ScanDecided ==
  ASSUME IInv, Passed, ScansKeep, NEW c \in Callers, Match(c) \/ NoMatch(c)
  PROVE  AbsDecided' = AbsDecided /\ UNCHANGED <<routes, arrays>>
<1>1. c \in Scanning /\ c \in Engaged
  BY DEF Match, NoMatch, Scanning, Engaged
<1>2. /\ call[c] \in [op : {"scan"}, path : Paths, snap : Slice, pos : 1..(MaxRoutes + 1)]
      /\ InBounds(call[c].snap)
  BY <1>1, ScanType DEF IInv, ArraysOwned
<1>. DEFINE sl == call[c].snap
            s == Contents(sl)
            pos == call[c].pos
            path == call[c].path
<1>3. /\ s \in Seq(Item) /\ Len(s) = sl.len
      /\ \A i \in 1..sl.len : s[i] = arrays[sl.arr][i]
  BY <1>2, ContentsProperties DEF IInv
<1>4. /\ pos \in Nat \ {0} /\ pos <= sl.len + 1 /\ sl.len \in Nat
      /\ \A i \in 1..(pos - 1) : i \notin Accepting(s, path)
  BY <1>1, <1>2, RegistryAssumption DEF Passed, Slice
<1>5. Decision(c) = FirstMatch(s, path)
  BY <1>1 DEF Decision, Scanning
<1>6. UNCHANGED <<routes, arrays>>
  BY DEF Match, NoMatch
<1>7. CASE NoMatch(c)
  <2>. DEFINE what == [op |-> "routed", route |-> NotFound]
  <2>1. pos > sl.len /\ Become(c, what) /\ what.op = "routed"
    BY <1>7 DEF NoMatch
  <2>2. Accepting(s, path) = {}
    BY <1>3, <1>4, <2>1 DEF Accepting
  <2>3. Decision(c) = NotFound
    BY <1>5, <2>2 DEF FirstMatch
  <2>4. call'[c] = what
    BY <1>1, <2>1, OthersDecided DEF Engaged
  <2>5. Decision(c)' = NotFound
    BY <2>4 DEF Decision
  <2>. HIDE DEF what
  <2>6. AbsDecided' = AbsDecided
    BY <1>1, <2>1, <2>3, <2>5, DecisionKept
  <2>. QED BY <1>6, <2>6
<1>8. CASE Match(c)
  <2>. DEFINE item == arrays[sl.arr][pos]
  <2>1. pos <= sl.len /\ s[pos] = item
    <3>1. pos <= sl.len
      BY <1>8 DEF Match
    <3>2. pos \in 1..sl.len
      BY <1>4, <3>1
    <3>. QED BY <1>3, <3>1, <3>2
  <2>2. CASE path \in Accepts[<<item.version, item.pattern>>]
    <3>1. PICK it : it = item
      OBVIOUS
    <3>2. Become(c, [op |-> "routed", route |-> it])
      BY <1>8, <2>2, <3>1 DEF Match
    <3>3. pos \in Accepting(s, path)
      <4>1. path \in Accepts[<<s[pos].version, s[pos].pattern>>]
        BY <2>1, <2>2
      <4>. HIDE DEF s, pos, path, sl
      <4>2. pos \in 1..Len(s)
        BY <1>3, <1>4, <2>1
      <4>. QED BY <4>1, <4>2 DEF Accepting
    <3>4. Min(Accepting(s, path)) = pos
      <4>1. Accepting(s, path) \in SUBSET Nat
        BY DEF Accepting
      <4>. DEFINE least == Min(Accepting(s, path))
      <4>2. least \in Accepting(s, path) /\ least <= pos
        BY <3>3, <4>1, MinOfPositions
      <4>3. least \in Nat
        BY <4>1, <4>2
      <4>4. least \in 1..Len(s)
        BY <4>2 DEF Accepting
      <4>. HIDE DEF least, s, pos, path, sl
      <4>5. ~(least <= pos - 1)
        BY <1>4, <4>2, <4>3, <4>4
      <4>6. least = pos
        BY <1>4, <4>2, <4>3, <4>5
      <4>. QED BY <4>6 DEF least
    <3>5. Decision(c) = it
      BY <1>5, <2>1, <3>1, <3>3, <3>4 DEF FirstMatch
    <3>6. call'[c] = [op |-> "routed", route |-> it]
      BY <1>1, <3>2, OthersDecided DEF Engaged
    <3>7. Decision(c)' = it
      BY <3>6 DEF Decision
    <3>. QED BY <1>1, <1>6, <3>2, <3>5, <3>7, DecisionKept
  <2>3. CASE path \notin Accepts[<<item.version, item.pattern>>]
    <3>1. PICK what : what = [call[c] EXCEPT !.pos = @ + 1]
      OBVIOUS
    <3>2. Become(c, what)
      BY <1>8, <2>3, <3>1 DEF Match
    <3>3. what.op = "scan" /\ what.snap = sl /\ what.path = path
      BY <1>2, <3>1
    <3>4. call'[c] = what
      BY <1>1, <3>2, OthersDecided DEF Engaged
    <3>5. Contents(call[c].snap)' = Contents(call[c].snap)
      BY <1>6, <3>3, <3>4 DEF Contents
    <3>6. Decision(c)' = Decision(c)
      BY <1>5, <3>3, <3>4, <3>5 DEF Decision, FirstMatch, Accepting
    <3>. QED BY <1>1, <1>6, <3>2, <3>3, <3>6, DecisionKept
  <2>. QED BY <2>2, <2>3
<1>. QED BY <1>7, <1>8

-------------------------------------------------------------------------------
\* RouteTable's operators are Routing's, and its variables are the mapping's.

LEMMA SameOperators ==
  /\ Table!Item = Item
  /\ \A s, it : Table!Hits(s, it) = Hits(s, it)
  /\ \A s, it : Table!Removed(s, it) = Removed(s, it)
  /\ \A s, path : Table!FirstMatch(s, path) = FirstMatch(s, path)
<1>1. Table!Item = Item
  BY DEF Table!Item, Item
<1>2. \A s, it : Table!Hits(s, it) = Hits(s, it)
  BY DEF Table!Hits, Hits
<1>3. \A s, path : Table!Accepting(s, path) = Accepting(s, path)
  BY DEF Table!Accepting, Accepting
<1>4. \A S : Table!Min(S) = Min(S)
  BY DEF Table!Min, Min
<1>5. \A s, i : Table!RemoveAt(s, i) = RemoveAt(s, i)
  BY DEF Table!RemoveAt, RemoveAt
<1>6. \A s, it : Table!Removed(s, it) = Removed(s, it)
  BY <1>2, <1>4, <1>5 DEF Table!Removed, Removed
<1>7. \A s, path : Table!FirstMatch(s, path) = FirstMatch(s, path)
  BY <1>3, <1>4 DEF Table!FirstMatch, FirstMatch
<1>. QED BY <1>1, <1>2, <1>6, <1>7

\* The routes of a method are the elements of its slice.
LEMMA SameRoutes ==
  ASSUME IInv, NEW m
  PROVE  Table!RoutesOf(m) = Contents(SliceOf(m))
<1>1. CASE m \in DOMAIN routes
  BY <1>1 DEF Table!RoutesOf, SliceOf
<1>2. CASE m \notin DOMAIN routes
  <2>1. Contents(EmptySlice) = <<>>
    BY DEF Contents, EmptySlice, IInv, ArraysOwned
  <2>. QED BY <1>2, <2>1 DEF Table!RoutesOf, SliceOf
<1>. QED BY <1>1, <1>2

LEMMA InitRefines ==
  ASSUME Init
  PROVE  Table!TableInit
<1>1. routes = << >> /\ \A d \in Callers : call[d] = Idle
  BY DEF Init
<1>2. DOMAIN routes = {}
  BY <1>1
<1>3. {d \in Callers : call[d].op \in {"scan", "routed"}} = {}
  BY <1>1 DEF Idle
<1>. QED BY <1>2, <1>3 DEF Table!TableInit

\* A route that is added is added to the table behind the others.
LEMMA AddRefines ==
  ASSUME IInv, NEW c \in Callers, AddRoute(c)
  PROVE  Table!TableNext
<1>1. PICK m, it : m = call[c].method /\ it = call[c].item
  OBVIOUS
<1>2. PICK t : t = Append(Contents(SliceOf(m)), it)
  OBVIOUS
<1>3. /\ m \in Methods /\ it \in Item
      /\ Hits(Contents(SliceOf(m)), it) = {}
      /\ Become(c, Idle) /\ ScansKeep
      /\ Stored(m, t)
  BY <1>1, <1>2, AddKeeps
<1>4. c \in Callers /\ c \notin Engaged /\ Idle.op \notin {"scan", "routed"}
  BY DEF AddRoute, Engaged, Idle
<1>5. AbsDecided' = AbsDecided
  BY <1>3, <1>4, DecidedSame
<1>6. AbsTable' = WithRoutes(m, t)
  BY <1>3, TableStored
<1>7. Table!RoutesOf(m) = Contents(SliceOf(m))
  BY SameRoutes
<1>8. Table!SetRoutes(m, t)
  BY <1>6 DEF Table!SetRoutes, WithRoutes, AbsTable
<1>9. Table!Hits(Table!RoutesOf(m), it) = {}
  BY <1>3, <1>7, SameOperators
<1>10. Table!Register(m, it)
  BY <1>2, <1>5, <1>7, <1>8, <1>9 DEF Table!Register, AbsDecided, Decision, Engaged
<1>. QED BY <1>3, <1>10, SameOperators DEF Table!TableNext

LEMMA RemoveRefines ==
  ASSUME IInv, NEW c \in Callers, RemoveRoute(c)
  PROVE  Table!TableNext
<1>1. PICK m, it : m = call[c].method /\ it = call[c].item
  OBVIOUS
<1>2. PICK t : t = Removed(Contents(routes[m]), it)
  OBVIOUS
<1>3. /\ m \in Methods /\ it \in Item /\ m \in DOMAIN routes
      /\ Become(c, Idle) /\ ScansKeep
      /\ Stored(m, t)
  BY <1>1, <1>2, RemoveKeeps
<1>4. c \in Callers /\ c \notin Engaged /\ Idle.op \notin {"scan", "routed"}
  BY DEF RemoveRoute, Engaged, Idle
<1>5. AbsDecided' = AbsDecided
  BY <1>3, <1>4, DecidedSame
<1>6. AbsTable' = WithRoutes(m, t)
  BY <1>3, TableStored
<1>7. Table!SetRoutes(m, t)
  BY <1>6 DEF Table!SetRoutes, WithRoutes, AbsTable
<1>8. t = Table!Removed(Contents(routes[m]), it)
  BY <1>2, SameOperators
<1>9. Table!Unregister(m, it)
  BY <1>3, <1>5, <1>7, <1>8 DEF Table!Unregister, AbsDecided, Decision, Engaged
<1>. QED BY <1>3, <1>9, SameOperators DEF Table!TableNext

\* The request is decided when its slice header is copied.
LEMMA HandleRefines ==
  ASSUME IInv, NEW c \in Callers, NEW m \in Methods, NEW path \in Paths, Handle(c, m, path)
  PROVE  Table!TableNext
<1>1. PICK sl : sl = SliceOf(Upper[m])
  OBVIOUS
<1>2. PICK first : first = FirstMatch(Contents(sl), path)
  OBVIOUS
<1>3. PICK what : what = [op |-> "scan", path |-> path, snap |-> sl, pos |-> 1]
  OBVIOUS
<1>4. Become(c, what) /\ c \notin Engaged /\ UNCHANGED <<routes, arrays>>
  BY <1>1, <1>3 DEF Handle, Engaged, Idle
<1>5. ScansKeep
  BY <1>4 DEF ScansKeep
<1>6. /\ Engaged' = Engaged \cup {c}
      /\ \A d \in Engaged : Decision(d)' = Decision(d)
      /\ call'[c] = what
  BY <1>3, <1>4, <1>5, OthersDecided
<1>7. Contents(sl)' = Contents(sl)
  BY <1>4 DEF Contents
<1>8. Decision(c)' = first
  <2>1. call'[c].op = "scan" /\ call'[c].snap = sl /\ call'[c].path = path
    BY <1>3, <1>6
  <2>2. Contents(call[c].snap)' = Contents(sl)'
    BY <2>1 DEF Contents
  <2>. QED BY <1>2, <1>7, <2>1, <2>2 DEF Decision, FirstMatch, Accepting
<1>9. AbsDecided' = [d \in DOMAIN AbsDecided \cup {c} |-> IF d = c THEN first ELSE AbsDecided[d]]
  <2>1. AbsDecided' = [d \in Engaged' |-> Decision(d)']
    BY DEF AbsDecided
  <2>2. DOMAIN AbsDecided = Engaged
    BY DEF AbsDecided
  <2>3. \A d \in Engaged \cup {c} : Decision(d)' = IF d = c THEN first ELSE AbsDecided[d]
    BY <1>4, <1>6, <1>8 DEF AbsDecided
  <2>. QED BY <1>6, <2>1, <2>2, <2>3
<1>10. AbsTable' = AbsTable
  BY <1>4, TableSame
<1>11. first = Table!FirstMatch(Table!RoutesOf(Upper[m]), path)
  BY <1>1, <1>2, SameRoutes, SameOperators
<1>12. Table!Decide(c, m, path)
  <2>1. c \notin DOMAIN AbsDecided
    BY <1>4 DEF AbsDecided
  <2>. QED BY <1>9, <1>10, <1>11, <2>1 DEF Table!Decide, AbsTable, AbsDecided, Decision, Engaged
<1>. QED BY <1>12 DEF Table!TableNext

LEMMA ReturnRefines ==
  ASSUME IInv, NEW c \in Callers, HandleReturns(c)
  PROVE  Table!TableNext
<1>1. Become(c, Idle) /\ c \in Engaged /\ UNCHANGED <<routes, arrays>>
  BY DEF HandleReturns, Engaged
<1>2. ScansKeep
  BY <1>1 DEF ScansKeep
<1>3. /\ Engaged' = Engaged \ {c}
      /\ \A d \in Engaged \ {c} : Decision(d)' = Decision(d)
  BY <1>1, <1>2, OthersDecided DEF Idle
<1>4. AbsDecided' = [d \in DOMAIN AbsDecided \ {c} |-> AbsDecided[d]]
  <2>1. AbsDecided' = [d \in Engaged' |-> Decision(d)']
    BY DEF AbsDecided
  <2>2. DOMAIN AbsDecided = Engaged /\ \A d \in Engaged : AbsDecided[d] = Decision(d)
    BY DEF AbsDecided
  <2>. QED BY <1>3, <2>1, <2>2
<1>5. AbsTable' = AbsTable
  BY <1>1, TableSame
<1>6. Table!Return(c)
  <2>1. c \in DOMAIN AbsDecided
    BY <1>1 DEF AbsDecided
  <2>. QED BY <1>4, <1>5, <2>1 DEF Table!Return, AbsTable, AbsDecided, Decision, Engaged
<1>. QED BY <1>6 DEF Table!TableNext

\* Everything else is a stutter of the table.
LEMMA StutterRefines ==
  ASSUME IInv, NEW c \in Callers, c \notin Engaged, UNCHANGED <<routes, arrays>>,
         NEW what, Become(c, what), what.op \notin {"scan", "routed"}
  PROVE  UNCHANGED Table!tableVars
<1>1. ScansKeep
  BY DEF ScansKeep
<1>2. AbsDecided' = AbsDecided /\ AbsTable' = AbsTable
  BY <1>1, DecidedSame, TableSame
<1>. QED BY <1>2 DEF Table!tableVars, AbsTable, AbsDecided, Decision, Engaged

LEMMA StepRefines ==
  ASSUME IInv, Passed, [Next]_vars
  PROVE  Table!TableNext \/ UNCHANGED Table!tableVars
<1>1. CASE UNCHANGED vars
  BY <1>1 DEF vars, Table!tableVars, Contents
<1>2. ASSUME NEW c \in Callers, NEW ver \in Versions, SetApiVersion(c, ver)
      PROVE  UNCHANGED Table!tableVars
  <2>1. PICK what : what = [op |-> "set", version |-> ver]
    OBVIOUS
  <2>2. Become(c, what) /\ what.op = "set" /\ c \notin Engaged /\ UNCHANGED <<routes, arrays>>
    BY <1>2, <2>1 DEF SetApiVersion, Engaged, Idle
  <2>. QED BY <2>2, StutterRefines
<1>3. ASSUME NEW c \in Callers, ApiVersionSet(c) \/ AddPanics(c) \/ RemovePanics(c)
      PROVE  UNCHANGED Table!tableVars
  <2>1. Become(c, Idle) /\ Idle.op = "idle" /\ c \notin Engaged /\ UNCHANGED <<routes, arrays>>
    BY <1>3 DEF ApiVersionSet, AddPanics, RemovePanics, Engaged, Idle
  <2>. QED BY <2>1, StutterRefines
<1>4. ASSUME NEW c \in Callers, NEW op \in {"add", "remove"}, NEW m \in Methods,
             NEW pat \in Patterns, Start(c, op, m, pat)
      PROVE  UNCHANGED Table!tableVars
  <2>1. PICK ver \in VersionRead :
          Become(c, [op |-> op, method |-> m, item |-> [version |-> ver, pattern |-> pat]])
    BY <1>4 DEF Start
  <2>2. PICK what : what = [op |-> op, method |-> m, item |-> [version |-> ver, pattern |-> pat]]
    OBVIOUS
  <2>3. /\ Become(c, what) /\ what.op \notin {"scan", "routed"}
        /\ c \notin Engaged /\ UNCHANGED <<routes, arrays>>
    BY <1>4, <2>1, <2>2 DEF Start, Engaged, Idle
  <2>. QED BY <2>3, StutterRefines
<1>5. ASSUME NEW c \in Callers, Match(c) \/ NoMatch(c)
      PROVE  UNCHANGED Table!tableVars
  <2>1. ScansKeep
    BY <1>5 DEF Match, NoMatch, ScansKeep
  <2>2. AbsDecided' = AbsDecided /\ AbsTable' = AbsTable
    BY <1>5, <2>1, ScanDecided, TableSame
  <2>. QED BY <2>2 DEF Table!tableVars, AbsTable, AbsDecided, Decision, Engaged
<1>. QED BY <1>1, <1>2, <1>3, <1>4, <1>5, AddRefines, RemoveRefines, HandleRefines,
            ReturnRefines DEF Next

\* The registry with its slices, shared arrays and unlocked scans implements the
\* table that registers, removes and routes in one step each, for any number of
\* callers and routes (route.go:183-297).
THEOREM RoutingIsAtomic == Spec => RoutedAtOneInstant
<1>1. Init => Passed
  BY DEF Init, Passed, Scanning, Idle
<1>2. IInv /\ Passed /\ [Next]_vars => Passed'
  BY PassedKept
<1>3. Spec => []Passed
  BY <1>1, <1>2, Invariance, PTL DEF Spec
<1>4. Init => Table!TableInit
  BY InitRefines
<1>5. IInv /\ Passed /\ [Next]_vars => [Table!TableNext]_Table!tableVars
  BY StepRefines
<1>. QED BY <1>3, <1>4, <1>5, Invariance, PTL DEF Spec, RoutedAtOneInstant, Table!TableSpec

===============================================================================
