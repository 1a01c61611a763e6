------------------------- MODULE SymmetricHeapProofs -------------------------
(***************************************************************************)
(* The trees of every memory_manager partition its heap, for any number of  *)
(* PEs, any heap size, any sequence of collective calls and any failures.   *)
(* The argument is about one heap at a time: carving the front off an idle  *)
(* range, and joining a released range with its idle neighbours, each keep  *)
(* a heap Good; every step of SymmetricHeap is a few of these.  The second  *)
(* part relates each heap to the pointers the calls have returned: the      *)
(* blocks in use are those of the pointers held, one pointer each.  The     *)
(* third part compares the heaps of two PEs that may be at different calls: *)
(* while calls end alike, both become the same heap when the open calls     *)
(* end, so a block one PE may access is in use on every other.              *)
(***************************************************************************)
EXTENDS SymmetricHeap, FiniteSetTheorems, TLAPS

Good(h) == h \in Heaps /\ HeapSound(h) /\ HeapWhole(h)

(* Rounding up to the allocation unit (allocated_size_align_up) gives a     *)
(* positive size for a positive size.                                       *)
LEMMA AlignUpPositive ==
    ASSUME NEW n \in Nat \ {0}
    PROVE  AlignUp(n) \in Nat \ {0}
BY DEF AlignUp

(* A new memory_manager has one idle range, the whole heap. *)
LEMMA NewHeapGood == Good(NewHeap)
<1> USE HeapAssumption
<1>1. NewHeap \in Heaps
  BY DEF NewHeap, Heaps, Ranges, MemRange
<1>2. HeapSound(NewHeap)
  BY DEF HeapSound, NewHeap, Blocks, MemRange, End, Disjoint
<1>3. HeapWhole(NewHeap)
  <2> DEFINE all == MemRange(0, HeapSize)
  <2>1. all \in Blocks(NewHeap) /\ NewHeap.idle = {all}
    BY DEF NewHeap, Blocks
  <2>2. all.offset = 0 /\ End(all) = HeapSize
    BY DEF MemRange, End
  <2> HIDE DEF all
  <2> QED BY <2>1, <2>2 DEF HeapWhole
<1> QED BY <1>1, <1>2, <1>3 DEF Good

(* Ranges of a sound heap are keyed by their offset, as the trees need. *)
LEMMA OffsetsDiffer ==
    ASSUME NEW h \in Heaps, HeapSound(h),
           NEW a \in Blocks(h), NEW b \in Blocks(h), a.offset = b.offset
    PROVE  a = b
<1>1. a \in Ranges /\ b \in Ranges
  BY DEF Heaps, Blocks
<1>2. ~Disjoint(a, b)
  BY <1>1 DEF Disjoint, End, Ranges
<1> QED BY <1>2 DEF HeapSound

(* An idle range is the only entry of the idle tree at its offset, and      *)
(* nothing in use starts there.                                             *)
LEMMA IdleEntry ==
    ASSUME NEW h \in Heaps, HeapSound(h), NEW t \in h.idle
    PROVE  /\ At(h.idle, t.offset) = {t}
           /\ \A u \in h.used : u.offset # t.offset
<1>1. \A a \in Blocks(h) : a.offset = t.offset => a = t
  BY OffsetsDiffer DEF Blocks
<1> QED BY <1>1 DEF At, Blocks, HeapSound

(* Taking the front of an idle range (allocate) keeps a heap Good. *)
LEMMA CarveGood ==
    ASSUME NEW h, Good(h), NEW n \in Nat \ {0},
           NEW t \in h.bySize, t.size >= AlignUp(n)
    PROVE  Good(Carve(h, t, n))
<1> DEFINE al == AlignUp(n)
           rest == MemRange(t.offset + al, t.size - al)
           blk == MemRange(t.offset, al)
           g == Carve(h, t, n)
<1>1. al \in Nat \ {0}
  BY AlignUpPositive
<1>2. h \in Heaps /\ HeapSound(h) /\ HeapWhole(h)
  BY DEF Good
<1>3. t \in h.idle /\ t \in Blocks(h) /\ t \in Ranges
  BY <1>2 DEF HeapSound, Blocks, Heaps
<1>4. At(h.idle, t.offset) = {t} /\ \A u \in h.used : u.offset # t.offset
  BY <1>2, <1>3, IdleEntry
<1>5. Emplace(h.used, blk) = h.used \cup {blk}
  BY <1>4 DEF Emplace, MemRange
<1> HIDE DEF al
<1>6. CASE t.size = al
  <2>1. blk = t
    BY <1>3, <1>6 DEF MemRange, Ranges
  <2>2. g = [idle |-> h.idle \ {t}, bySize |-> h.bySize \ {t},
             used |-> h.used \cup {t}]
    <3>1. ~(t.size > al)
      BY <1>1, <1>3, <1>6 DEF Ranges
    <3>2. Emplace(h.used, blk) = h.used \cup {t}
      BY <1>5, <2>1
    <3> QED BY <1>4, <3>1, <3>2 DEF Carve, al
  <2>3. Blocks(g) = Blocks(h)
    BY <1>3, <2>2 DEF Blocks
  <2>4. g \in Heaps
    BY <1>2, <1>3, <2>2 DEF Heaps
  <2>5. HeapSound(g)
    BY <1>2, <1>3, <2>2, <2>3 DEF HeapSound
  <2>6. HeapWhole(g)
    BY <1>2, <2>2, <2>3 DEF HeapWhole
  <2> QED BY <2>4, <2>5, <2>6 DEF Good
<1>7. CASE t.size > al
  <2>1. rest \in Ranges /\ blk \in Ranges
    BY <1>1, <1>3, <1>7 DEF MemRange, Ranges
  <2>2. /\ rest.offset = t.offset + al /\ End(rest) = End(t)
        /\ blk.offset = t.offset /\ End(blk) = rest.offset
    BY <1>1, <1>3, <1>7 DEF MemRange, Ranges, End
  <2>3. \A a \in Blocks(h) : a # t => Disjoint(a, rest) /\ Disjoint(a, blk)
    <3> SUFFICES ASSUME NEW a \in Blocks(h), a # t
                 PROVE  Disjoint(a, rest) /\ Disjoint(a, blk)
      OBVIOUS
    <3>1. Disjoint(a, t) /\ a \in Ranges
      BY <1>2, <1>3 DEF HeapSound, Heaps, Blocks
    <3> QED BY <1>1, <1>3, <1>7, <2>1, <2>2, <3>1 DEF Disjoint, End, Ranges
  <2>4. Disjoint(blk, rest) /\ Disjoint(rest, blk) /\ blk # rest
    BY <1>1, <1>3, <2>2 DEF Disjoint, Ranges
  <2>5. \A a \in Blocks(h) : a # t => a # rest /\ a # blk
    <3>1. ~Disjoint(rest, rest) /\ ~Disjoint(blk, blk)
      BY <2>1 DEF Disjoint, End, Ranges
    <3> QED BY <2>3, <3>1
  <2>6. \A a \in h.idle \ {t} : a.offset # rest.offset
    <3> SUFFICES ASSUME NEW a \in h.idle \ {t}, a.offset = rest.offset
                 PROVE  FALSE
      OBVIOUS
    <3>1. a \in Ranges /\ Disjoint(a, rest)
      BY <1>2, <2>3 DEF Heaps, Blocks
    <3> QED BY <2>1, <3>1 DEF Disjoint, End, Ranges
  <2>7. g = [idle |-> (h.idle \ {t}) \cup {rest},
             bySize |-> (h.bySize \ {t}) \cup {rest},
             used |-> h.used \cup {blk}]
    <3>1. Emplace(h.idle \ {t}, rest) = (h.idle \ {t}) \cup {rest}
      BY <2>6 DEF Emplace
    <3> QED BY <1>4, <1>5, <1>7, <3>1 DEF Carve, al
  <2> HIDE DEF rest, blk, g
  <2>8. Blocks(g) = (Blocks(h) \ {t}) \cup {rest, blk}
    BY <1>2, <1>3, <2>7 DEF Blocks, HeapSound
  <2>9. g \in Heaps
    BY <1>2, <2>1, <2>7 DEF Heaps
  <2>10. HeapSound(g)
    <3>1. g.idle = g.bySize
      BY <1>2, <2>7 DEF HeapSound
    <3>2. g.idle \cap g.used = {}
      BY <1>2, <1>3, <2>4, <2>5, <2>7 DEF HeapSound, Blocks
    <3>3. \A a, b \in Blocks(g) : a # b => Disjoint(a, b)
      BY <1>2, <2>3, <2>4, <2>8 DEF HeapSound, Disjoint
    <3>4. \A a \in Blocks(g) : End(a) <= HeapSize
      BY <1>1, <1>2, <1>3, <1>7, <2>1, <2>2, <2>8, HeapAssumption
         DEF HeapSound, End, Ranges
    <3> QED BY <3>1, <3>2, <3>3, <3>4 DEF HeapSound
  <2>11. HeapWhole(g)
    <3>1. ASSUME NEW x \in 0 .. HeapSize - 1
          PROVE  \E a \in Blocks(g) : a.offset <= x /\ x < End(a)
      <4>1. PICK a \in Blocks(h) : a.offset <= x /\ x < End(a)
        BY <1>2 DEF HeapWhole
      <4>2. CASE a # t
        BY <2>8, <4>1, <4>2
      <4>3. CASE a = t
        <5>1. CASE x < rest.offset
          BY <2>2, <2>8, <4>1, <4>3, <5>1
        <5>2. CASE x >= rest.offset
          BY <2>2, <2>8, <4>1, <4>3, <5>2
        <5> QED BY <5>1, <5>2, <2>1, HeapAssumption DEF Ranges
      <4> QED BY <4>2, <4>3
    <3>2. ASSUME NEW a \in g.idle, NEW b \in g.idle PROVE End(a) # b.offset
      <4>1. a \in Ranges /\ b \in Ranges
        BY <2>9 DEF Heaps
      <4>2. CASE a = rest /\ b = rest
        BY <2>1, <4>2 DEF End, Ranges
      <4>3. CASE a = rest /\ b # rest
        BY <1>2, <1>3, <2>2, <2>7, <4>3 DEF HeapWhole
      <4>4. CASE a # rest /\ b = rest
        <5>1. a \in Blocks(h) /\ a # t
          BY <2>7, <4>4 DEF Blocks
        <5>2. Disjoint(a, blk)
          BY <5>1, <2>3
        <5> QED BY <4>1, <4>4, <5>2, <2>1, <2>2 DEF Disjoint, End, Ranges
      <4>5. CASE a # rest /\ b # rest
        BY <1>2, <2>7, <4>5 DEF HeapWhole
      <4> QED BY <4>2, <4>3, <4>4, <4>5
    <3> QED BY <3>1, <3>2 DEF HeapWhole
  <2> QED BY <2>9, <2>10, <2>11 DEF Good, g
<1> QED BY <1>1, <1>3, <1>6, <1>7 DEF Ranges, al

(* What allocate does to a Good heap leaves it Good. *)
LEMMA AllocateGood ==
    ASSUME NEW h, Good(h), NEW n \in Nat, NEW r \in Allocate(h, n)
    PROVE  Good(r.heap)
<1>1. CASE r.heap = h
  BY <1>1
<1>2. CASE r.heap # h
  <2>1. Admissible(n) /\ \E t \in BestFit(h, n) : r.heap = Carve(h, t, n)
    BY <1>2 DEF Allocate
  <2>2. PICK t \in BestFit(h, n) : r.heap = Carve(h, t, n)
    BY <2>1
  <2>3. t \in h.bySize /\ t.size >= AlignUp(n) /\ n \in Nat \ {0}
    BY <2>1, <2>2 DEF BestFit, Fits, Admissible
  <2> QED BY <2>2, <2>3, CarveGood
<1> QED BY <1>1, <1>2

(* Looking only at the idle range before an offset finds the one that ends  *)
(* there, if any (release, lower_bound and one step back).                  *)
LEMMA PrevRangeIs ==
    ASSUME NEW h, Good(h), NEW u \in h.used
    PROVE  PrevRange(h, u.offset) = {q \in h.idle : End(q) = u.offset}
<1>1. \A q \in h.idle : q \in Ranges /\ q \in Blocks(h)
  BY DEF Good, Heaps, Blocks
<1>2. u \in Ranges
  BY DEF Good, Heaps
<1>3. ASSUME NEW q \in h.idle, End(q) = u.offset,
             NEW p \in h.idle, p.offset < u.offset
      PROVE  p.offset <= q.offset
  <2>1. p = q \/ Disjoint(p, q)
    BY <1>1 DEF Good, HeapSound
  <2> QED BY <1>1, <1>2, <1>3, <2>1 DEF Disjoint, End, Ranges
<1>4. \A q \in h.idle : End(q) = u.offset => q.offset < u.offset
  BY <1>1, <1>2 DEF End, Ranges
<1> QED BY <1>3, <1>4 DEF PrevRange

(* Joining a released range with the idle ranges around it (release) keeps  *)
(* a heap Good.                                                             *)
LEMMA ReleaseGood ==
    ASSUME NEW h, Good(h), NEW u \in h.used
    PROVE  Good(Release(h, u))
<1> DEFINE below == PrevRange(h, u.offset)
           above == NextRange(h, u)
           j == Joined(u, below, above)
           g == Release(h, u)
           gone == below \cup above \cup {u}
           lo == j.offset
           hi == End(j)
<1>1. h \in Heaps /\ HeapSound(h) /\ HeapWhole(h)
  BY DEF Good
<1>2. \A a \in Blocks(h) : a \in Ranges
  BY <1>1 DEF Heaps, Blocks
<1>3. u \in Blocks(h) /\ u \in Ranges
  BY <1>2 DEF Blocks
<1>4. /\ below = {q \in h.idle : End(q) = u.offset}
      /\ above = {q \in h.idle : q.offset = End(u)}
  BY PrevRangeIs DEF NextRange, At
<1>5. \A q \in below \cup above : q \in Blocks(h) /\ q \in Ranges
  BY <1>2, <1>4 DEF Blocks
<1>6. \A p, q \in below : p = q
  <2> SUFFICES ASSUME NEW p \in below, NEW q \in below, p # q PROVE FALSE
    OBVIOUS
  <2>1. Disjoint(p, q) /\ End(p) = End(q)
    BY <1>1, <1>4, <1>5 DEF HeapSound
  <2> QED BY <1>5, <2>1 DEF Disjoint, End, Ranges
<1>7. \A p, q \in above : p = q
  <2> SUFFICES ASSUME NEW p \in above, NEW q \in above PROVE p = q
    OBVIOUS
  <2>1. p.offset = q.offset
    BY <1>4
  <2> QED BY <1>1, <1>5, <2>1, OffsetsDiffer
<1> HIDE DEF below, above
<1>8. /\ lo \in Nat /\ lo <= u.offset
      /\ below = {} => lo = u.offset
      /\ \A q \in below : lo = q.offset
  <2>1. CASE below = {}
    BY <1>3, <2>1 DEF Joined, MemRange, Ranges
  <2>2. CASE below # {}
    <3>1. PICK q \in below : q = CHOOSE x \in below : TRUE
      BY <2>2
    <3>2. lo = q.offset
      BY <2>2, <3>1 DEF Joined, MemRange
    <3>3. q.offset \in Nat /\ q.offset <= u.offset
      BY <1>3, <1>4, <1>5 DEF End, Ranges
    <3> QED BY <1>6, <3>2, <3>3
  <2> QED BY <2>1, <2>2
<1>9. /\ hi \in Nat /\ hi >= End(u) /\ hi <= HeapSize /\ j.size \in Int
      /\ above = {} => hi = End(u)
      /\ \A q \in above : hi = End(q)
  <2>1. lo \in Nat /\ End(u) \in Nat /\ End(u) <= HeapSize
    BY <1>1, <1>3, <1>8 DEF HeapSound, End, Ranges
  <2>2. CASE above = {}
    <3>1. j.size = End(u) - lo
      BY <2>1, <2>2 DEF Joined, MemRange
    <3>2. j.size \in Int /\ hi = End(u)
      BY <2>1, <3>1 DEF End
    <3> QED BY <2>1, <2>2, <3>2
  <2>3. CASE above # {}
    <3>1. PICK q \in above : q = CHOOSE x \in above : TRUE
      BY <2>3
    <3>2. j.size = (End(u) - lo) + q.size
      BY <2>3, <3>1 DEF Joined, MemRange
    <3>3. q \in Ranges /\ q.offset = End(u) /\ End(q) <= HeapSize
      BY <1>1, <1>4, <1>5 DEF HeapSound
    <3>4. hi = End(q) /\ hi \in Nat /\ hi >= End(u) /\ j.size \in Int
      BY <2>1, <3>2, <3>3 DEF End, Ranges
    <3> QED BY <1>7, <2>3, <3>3, <3>4
  <2> QED BY <2>2, <2>3
<1>10. j \in Ranges
  <2>1. j = MemRange(lo, j.size)
    BY DEF Joined, MemRange
  <2> HIDE DEF j
  <2>2. j.size = hi - lo
    BY <1>8, <1>9 DEF End
  <2>3. hi - lo \in Nat \ {0}
    <3>1. u.offset \in Nat /\ End(u) \in Nat /\ End(u) > u.offset
      BY <1>3 DEF End, Ranges
    <3> HIDE DEF hi, lo
    <3> QED BY <1>8, <1>9, <3>1
  <2> QED BY <1>8, <2>1, <2>2, <2>3 DEF MemRange, Ranges
<1> HIDE DEF j
<1>11. \A a \in Blocks(h) \ gone : Disjoint(a, j)
  <2> SUFFICES ASSUME NEW a \in Blocks(h), a \notin gone PROVE Disjoint(a, j)
    OBVIOUS
  <2>1. a \in Ranges /\ Disjoint(a, u)
    BY <1>1, <1>2, <1>3 DEF HeapSound
  <2>2. \A q \in below \cup above : Disjoint(a, q)
    BY <1>1, <1>5 DEF HeapSound
  <2>3. CASE End(a) <= u.offset
    <3>1. End(a) <= lo
      <4>1. CASE below = {}
        BY <1>8, <2>3, <4>1
      <4>2. CASE below # {}
        <5>1. PICK q \in below : TRUE
          BY <4>2
        <5>2. End(q) = u.offset /\ q \in Ranges /\ lo = q.offset
          BY <1>4, <1>5, <1>8
        <5> QED BY <2>1, <2>2, <2>3, <5>1, <5>2 DEF Disjoint, End, Ranges
      <4> QED BY <4>1, <4>2
    <3> QED BY <3>1 DEF Disjoint
  <2>4. CASE End(u) <= a.offset
    <3>1. hi <= a.offset
      <4>1. CASE above = {}
        BY <1>9, <2>4, <4>1
      <4>2. CASE above # {}
        <5>1. PICK q \in above : TRUE
          BY <4>2
        <5>2. q.offset = End(u) /\ q \in Ranges /\ hi = End(q)
          BY <1>4, <1>5, <1>9
        <5> QED BY <2>1, <2>2, <2>4, <5>1, <5>2 DEF Disjoint, End, Ranges
      <4> QED BY <4>1, <4>2
    <3> QED BY <3>1 DEF Disjoint
  <2> QED BY <2>1, <2>3, <2>4 DEF Disjoint
<1>12. \A a \in gone : lo <= a.offset /\ End(a) <= hi
  <2>1. lo <= u.offset /\ End(u) <= hi
    BY <1>8, <1>9
  <2>2. \A q \in below : lo <= q.offset /\ End(q) <= hi
    BY <1>3, <1>4, <1>5, <1>8, <1>9 DEF End, Ranges
  <2>3. \A q \in above : lo <= q.offset /\ End(q) <= hi
    BY <1>3, <1>4, <1>5, <1>8, <1>9 DEF End, Ranges
  <2> QED BY <2>1, <2>2, <2>3
<1>13. \A a \in Blocks(h) \ gone : a # j /\ a.offset # lo
  BY <1>2, <1>10, <1>11 DEF Disjoint, End, Ranges
<1>14. g = [idle |-> (h.idle \ (below \cup above)) \cup {j},
            bySize |-> (h.bySize \ (below \cup above)) \cup {j},
            used |-> h.used \ {u}]
  <2>1. h.idle \ (below \cup above) \subseteq Blocks(h) \ gone
    BY <1>1 DEF Blocks, HeapSound
  <2>2. Emplace(h.idle \ (below \cup above), j)
          = (h.idle \ (below \cup above)) \cup {j}
    BY <1>13, <2>1 DEF Emplace
  <2> QED BY <2>2 DEF Release, j, below, above
<1> HIDE DEF g
<1>15. Blocks(g) = (Blocks(h) \ gone) \cup {j}
  BY <1>1, <1>4, <1>14 DEF Blocks, HeapSound
<1>16. g \in Heaps
  BY <1>1, <1>10, <1>14 DEF Heaps
<1>17. HeapSound(g)
  <2>1. g.idle = g.bySize
    BY <1>1, <1>14 DEF HeapSound
  <2>2. g.idle \cap g.used = {}
    BY <1>1, <1>4, <1>13, <1>14 DEF HeapSound, Blocks
  <2>3. \A a, b \in Blocks(g) : a # b => Disjoint(a, b)
    BY <1>1, <1>11, <1>15 DEF HeapSound, Disjoint
  <2>4. \A a \in Blocks(g) : End(a) <= HeapSize
    BY <1>1, <1>9, <1>15 DEF HeapSound
  <2> QED BY <2>1, <2>2, <2>3, <2>4 DEF HeapSound
<1>18. HeapWhole(g)
  <2>1. ASSUME NEW x \in 0 .. HeapSize - 1
        PROVE  \E a \in Blocks(g) : a.offset <= x /\ x < End(a)
    <3>1. PICK a \in Blocks(h) : a.offset <= x /\ x < End(a)
      BY <1>1 DEF HeapWhole
    <3>2. CASE a \notin gone
      BY <1>15, <3>1, <3>2
    <3>3. CASE a \in gone
      <4>1. a \in Ranges /\ lo <= a.offset /\ End(a) <= hi
        BY <1>2, <1>12, <3>3
      <4>2. lo <= x /\ x < hi
        BY <1>8, <1>9, <3>1, <4>1, HeapAssumption DEF End, Ranges
      <4> QED BY <1>15, <4>2
    <3> QED BY <3>2, <3>3
  <2>2. ASSUME NEW a \in g.idle, NEW b \in g.idle PROVE End(a) # b.offset
    <3>1. CASE a = j /\ b = j
      BY <1>10, <3>1 DEF End, Ranges
    <3>2. CASE a = j /\ b # j
      <4>1. b \in h.idle /\ b \notin above
        BY <1>14, <3>2
      <4>2. CASE above = {}
        BY <1>4, <1>9, <3>2, <4>1, <4>2
      <4>3. CASE above # {}
        BY <1>1, <1>4, <1>9, <3>2, <4>1, <4>3 DEF HeapWhole
      <4> QED BY <4>2, <4>3
    <3>3. CASE a # j /\ b = j
      <4>1. a \in h.idle /\ a \notin below
        BY <1>14, <3>3
      <4>2. CASE below = {}
        BY <1>4, <1>8, <3>3, <4>1, <4>2
      <4>3. CASE below # {}
        BY <1>1, <1>4, <1>8, <3>3, <4>1, <4>3 DEF HeapWhole
      <4> QED BY <4>2, <4>3
    <3>4. CASE a # j /\ b # j
      BY <1>1, <1>14, <3>4 DEF HeapWhole
    <3> QED BY <3>1, <3>2, <3>3, <3>4
  <2> QED BY <2>1, <2>2 DEF HeapWhole
<1> QED BY <1>16, <1>17, <1>18 DEF Good, g

(* Releasing an address that is not in use changes nothing. *)
LEMMA ReleaseAtGood ==
    ASSUME NEW h, Good(h), NEW o
    PROVE  Good(ReleaseAt(h, o))
<1>1. CASE At(h.used, o) = {}
  BY <1>1 DEF ReleaseAt
<1>2. CASE At(h.used, o) # {}
  <2>1. PICK u \in At(h.used, o) : u = CHOOSE x \in At(h.used, o) : TRUE
    BY <1>2
  <2>2. u \in h.used
    BY DEF At
  <2> QED BY <1>2, <2>1, <2>2, ReleaseGood DEF ReleaseAt
<1> QED BY <1>1, <1>2

AllGood == heap \in [PEs -> Heaps] /\ \A p \in PEs : Good(heap[p])

(* One PE's step replaces its own heap by a Good one. *)
LEMMA ReplaceGood ==
    ASSUME AllGood, NEW p \in PEs, NEW h, Good(h),
           heap' = [heap EXCEPT ![p] = h]
    PROVE  AllGood'
BY DEF AllGood, Good

(* No step of any PE spoils a heap. *)
LEMMA StepGood ==
    ASSUME AllGood, NEW p \in PEs, Step(p)
    PROVE  AllGood'
<1>1. Good(heap[p])
  BY DEF AllGood
<1>2. CASE UNCHANGED heap
  BY <1>2 DEF AllGood
<1>3. CASE Malloc(p) \/ Calloc(p)
  <2>1. PICK n \in Sizes : \E r \in Allocate(heap[p], n) :
            heap' = [heap EXCEPT ![p] = r.heap]
    BY <1>3 DEF Malloc, Calloc
  <2>2. PICK r \in Allocate(heap[p], n) : heap' = [heap EXCEPT ![p] = r.heap]
    BY <2>1
  <2>3. Good(r.heap)
    BY <1>1, AllocateGood, CallAssumption
  <2> QED BY <2>2, <2>3, ReplaceGood
<1>4. CASE CallocUncleared(p)
  <2>1. PICK n \in Sizes : \E r \in Allocate(heap[p], n) : \E o \in r.got :
            heap' = [heap EXCEPT ![p] = ReleaseAt(r.heap, o)]
    BY <1>4 DEF CallocUncleared
  <2>2. PICK r \in Allocate(heap[p], n) : \E o \in r.got :
            heap' = [heap EXCEPT ![p] = ReleaseAt(r.heap, o)]
    BY <2>1
  <2>3. PICK o \in r.got : heap' = [heap EXCEPT ![p] = ReleaseAt(r.heap, o)]
    BY <2>2
  <2>4. Good(ReleaseAt(r.heap, o))
    BY <1>1, AllocateGood, ReleaseAtGood, CallAssumption
  <2> QED BY <2>3, <2>4, ReplaceGood
<1>5. CASE AllocatorFails(p)
  <2> DEFINE o == CHOOSE x \in made[p][Current(p)].ptr : TRUE
             h == IF made[p][Current(p)].ptr = {} THEN heap[p]
                  ELSE ReleaseAt(heap[p], o)
  <2>1. heap' = [heap EXCEPT ![p] = h]
    BY <1>5 DEF AllocatorFails
  <2>2. Good(h)
    BY <1>1, ReleaseAtGood
  <2> QED BY <2>1, <2>2, ReplaceGood
<1>6. CASE FreeReturns(p)
  <2>1. \E o : heap' = [heap EXCEPT ![p] = ReleaseAt(heap[p], o)]
    BY <1>6 DEF FreeReturns
  <2> QED BY <1>1, <2>1, ReleaseAtGood, ReplaceGood
<1>7. CASE \/ CallocRefused(p) \/ FreeNull(p) \/ Free(p)
           \/ AllocatorReturns(p) \/ FreeFails(p)
  BY <1>2, <1>7 DEF CallocRefused, FreeNull, Free, AllocatorReturns, FreeFails
<1> QED BY <1>3, <1>4, <1>5, <1>6, <1>7 DEF Step

(* For any number of PEs, any heap, any calls and any failures of barriers  *)
(* and memsets, the trees of every memory_manager partition its heap.       *)
THEOREM HeapStaysPartitioned == Spec => []HeapPartitioned
<1>1. Init => AllGood
  <2> SUFFICES ASSUME Init PROVE AllGood
    OBVIOUS
  <2>1. heap = [p \in PEs |-> NewHeap] /\ NewHeap \in Heaps
    BY NewHeapGood DEF Init, Good
  <2> QED BY <2>1, NewHeapGood DEF AllGood
<1>2. AllGood /\ [Next]_vars => AllGood'
  <2> SUFFICES ASSUME AllGood, [Next]_vars PROVE AllGood'
    OBVIOUS
  <2>1. CASE \E p \in PEs : Step(p)
    BY <2>1, StepGood
  <2>2. CASE UNCHANGED vars
    BY <2>2 DEF vars, AllGood
  <2> QED BY <2>1, <2>2 DEF Next, Finished
<1>3. AllGood => HeapPartitioned
  BY DEF AllGood, Good, HeapPartitioned
<1> QED BY <1>1, <1>2, <1>3, PTL DEF Spec
-----------------------------------------------------------------------------
(* Every block in use belongs to one pointer.  A block is identified by its *)
(* offset, so this needs the heaps Good; and it needs what the calls in     *)
(* progress look like: which calls name a block to free, that a call in     *)
(* its barrier is the last one made, that a pointer is one offset or null.  *)

\* The calls the PEs have agreed on: a free names an earlier allocation.
CallInv ==
    /\ Len(calls) <= MaxCalls
    /\ \A p \in PEs : Len(made[p]) <= Len(calls)
    /\ \A j \in DOMAIN calls : calls[j].op = "free" =>
           /\ calls[j].of \in 1 .. j - 1
           /\ calls[calls[j].of].op \in Allocators

\* The pointer a call of p has: null or one offset, and none from a free.
PointerAt(p, k) ==
    /\ made[p][k].ptr = {} \/ \E o \in Nat : made[p][k].ptr = {o}
    /\ calls[k].op = "free" => made[p][k].ptr = {}
    /\ made[p][k].status = "memset" => calls[k].op = "calloc"

\* The calls p has made: only the last one may be in its barrier.
MadeAt(p) ==
    /\ ~Outside(p) => /\ made[p] # <<>>
                      /\ made[p][Current(p)].status \in {"pending", "memset"}
    /\ \A k \in DOMAIN made[p] :
         /\ PointerAt(p, k)
         /\ made[p][k].status = "pending" => k = Current(p) /\ ~Outside(p)

\* The blocks in use on p are those its pointers name, one pointer each.
UsedAt(p) ==
    /\ heap[p].used = {Block(p, k) : k \in Held(p)}
    /\ \A j, k \in Held(p) : Block(p, j) = Block(p, k) => j = k

HInv ==
    /\ TypeOK
    /\ AllGood
    /\ CallInv
    /\ \A p \in PEs : MadeAt(p) /\ UsedAt(p)

\* A call's pointer names the block at its offset, of its size.
LEMMA BlockIs ==
    ASSUME NEW p, NEW k, NEW o, made[p][k].ptr = {o}
    PROVE  Block(p, k) = MemRange(o, AlignUp(calls[k].size))
<1>1. (CHOOSE x \in {o} : TRUE) = o OBVIOUS
<1> QED BY <1>1 DEF Block

\* What settling the call in progress writes: the pointer of call k, and how
\* the call in progress ended if that was open.
Settled(p, k, ptr, s) ==
    \A j \in DOMAIN made[p] :
        /\ made'[p][j].ptr = IF j = k THEN ptr ELSE made[p][j].ptr
        /\ made'[p][j].status =
             IF j = Current(p) /\ made[p][j].status = "pending"
             THEN s ELSE made[p][j].status

AfterSettle(p, k, ptr, s) ==
    /\ made' \in [PEs -> Seq(Made)]
    /\ \A q \in PEs : Len(made'[q]) = Len(made[q])
    /\ \A q \in PEs \ {p} : made'[q] = made[q]
    /\ Settled(p, k, ptr, s)

LEMMA SettleIs ==
    ASSUME TypeOK, NEW p \in PEs, NEW k \in DOMAIN made[p], made[p] # <<>>,
           NEW ptr \in SUBSET Nat, NEW s \in {"OK", "ERROR"},
           made' = Settle(p, k, ptr, s)
    PROVE  AfterSettle(p, k, ptr, s)
<1> DEFINE c == Current(p)
           first == [made[p] EXCEPT ![k].ptr = ptr]
           both == [first EXCEPT ![c].status = IF @ = "pending" THEN s ELSE @]
<1>1. made[p] \in Seq(Made) /\ c \in DOMAIN made[p] /\ c \in Nat
  BY DEF TypeOK, Current
<1>2. \A j \in DOMAIN made[p] : made[p][j] \in Made
  BY <1>1
<1>3. /\ first \in Seq(Made) /\ Len(first) = Len(made[p])
      /\ \A j \in DOMAIN made[p] :
           /\ first[j].ptr = IF j = k THEN ptr ELSE made[p][j].ptr
           /\ first[j].status = made[p][j].status
  <2>1. [made[p][k] EXCEPT !.ptr = ptr] \in Made
    BY <1>2 DEF Made
  <2>2. first = [made[p] EXCEPT ![k] = [made[p][k] EXCEPT !.ptr = ptr]]
    OBVIOUS
  <2>3. first \in Seq(Made) /\ Len(first) = Len(made[p])
    BY <1>1, <2>1, <2>2
  <2> QED BY <1>1, <1>2, <2>2, <2>3 DEF Made
<1> HIDE DEF first
<1>4. \A j \in DOMAIN first : first[j] \in Made
  BY <1>3
<1>5. c \in DOMAIN first /\ DOMAIN first = DOMAIN made[p]
  BY <1>1, <1>3
<1>6. /\ both \in Seq(Made) /\ Len(both) = Len(first)
      /\ \A j \in DOMAIN made[p] :
           /\ both[j].ptr = first[j].ptr
           /\ both[j].status = IF j = c /\ first[j].status = "pending"
                               THEN s ELSE first[j].status
  <2> DEFINE e == [first[c] EXCEPT !.status = IF @ = "pending" THEN s ELSE @]
  <2>1. e \in Made /\ e.ptr = first[c].ptr
        /\ e.status = IF first[c].status = "pending" THEN s ELSE first[c].status
    BY <1>4, <1>5 DEF Made
  <2>2. both = [first EXCEPT ![c] = e]
    OBVIOUS
  <2> HIDE DEF e, both
  <2>3. both \in Seq(Made) /\ Len(both) = Len(first)
    BY <1>3, <1>5, <2>1, <2>2
  <2> QED BY <1>3, <1>4, <1>5, <2>1, <2>2, <2>3
<1> HIDE DEF both
<1>7. made' = [made EXCEPT ![p] = both]
  BY DEF Settle, both, first, TypeOK
<1>8. made'[p] = both /\ \A q \in PEs \ {p} : made'[q] = made[q]
  BY <1>7 DEF TypeOK
<1> QED BY <1>1, <1>3, <1>6, <1>7, <1>8 DEF TypeOK, Settled, AfterSettle

\* What allocate returns: null and the heap as it was, or the offset of a new
\* block where none was in use.
LEMMA AllocateIs ==
    ASSUME NEW h, Good(h), NEW n \in Nat, NEW r \in Allocate(h, n)
    PROVE  \/ r.got = {} /\ r.heap = h
           \/ \E o \in Nat :
                /\ r.got = {o} /\ Admissible(n)
                /\ r.heap.used = h.used \cup {MemRange(o, AlignUp(n))}
                /\ \A u \in h.used : u.offset # o
<1> SUFFICES ASSUME ~(r.got = {} /\ r.heap = h)
             PROVE  \E o \in Nat :
                      /\ r.got = {o} /\ Admissible(n)
                      /\ r.heap.used = h.used \cup {MemRange(o, AlignUp(n))}
                      /\ \A u \in h.used : u.offset # o
  OBVIOUS
<1>1. Admissible(n) /\ \E t \in BestFit(h, n) :
          r = [heap |-> Carve(h, t, n), got |-> {t.offset}]
  BY DEF Allocate
<1>2. PICK t \in BestFit(h, n) :
          r = [heap |-> Carve(h, t, n), got |-> {t.offset}]
  BY <1>1
<1>3. t \in h.idle /\ h \in Heaps /\ HeapSound(h) /\ t.offset \in Nat
  BY DEF BestFit, Fits, Good, HeapSound, Heaps, Ranges
<1>4. \A u \in h.used : u.offset # t.offset
  BY <1>3, IdleEntry
<1>5. Emplace(h.used, MemRange(t.offset, AlignUp(n)))
        = h.used \cup {MemRange(t.offset, AlignUp(n))}
  BY <1>4 DEF Emplace, MemRange
<1>6. r.got = {t.offset} /\ r.heap.used = h.used \cup {MemRange(t.offset, AlignUp(n))}
  BY <1>2, <1>5 DEF Carve
<1> QED BY <1>1, <1>3, <1>4, <1>6

\* Releasing the offset of a block in use takes out that block.
LEMMA ReleaseAtIs ==
    ASSUME NEW h, Good(h), NEW u \in h.used
    PROVE  ReleaseAt(h, u.offset).used = h.used \ {u}
<1>1. \A v \in h.used : v.offset = u.offset => v = u
  BY OffsetsDiffer DEF Good, Blocks
<1>2. At(h.used, u.offset) = {u}
  BY <1>1 DEF At
<1>3. (CHOOSE v \in {u} : TRUE) = u
  OBVIOUS
<1> QED BY <1>2, <1>3 DEF ReleaseAt, Release

\* A free is of a block that p has allocated.
Sensible(p, c) ==
    c.op = "free" => c.of \in DOMAIN made[p] /\ calls[c.of].op \in Allocators

\* What making a call writes: the call takes its place in the sequence all
\* PEs follow, and p records it.
Recorded(p, c, ptr, s) ==
    /\ calls' \in Seq(Call) /\ made' \in [PEs -> Seq(Made)]
    /\ \A k \in DOMAIN calls : calls'[k] = calls[k]
    /\ calls'[Len(made[p]) + 1] = c
    /\ \A q \in PEs \ {p} : made'[q] = made[q]
    /\ Len(made'[p]) = Len(made[p]) + 1
    /\ \A k \in DOMAIN made[p] : made'[p][k] = made[p][k]
    /\ made'[p][Len(made[p]) + 1] = [ptr |-> ptr, status |-> s]

LEMMA MakeIs ==
    ASSUME TypeOK, CallInv, NEW p \in PEs, NEW c \in Call,
           NEW ptr, NEW s, [ptr |-> ptr, status |-> s] \in Made,
           Make(p, c, ptr, s), Sensible(p, c)
    PROVE  Recorded(p, c, ptr, s) /\ CallInv'
<1> DEFINE n == Len(made[p])
           e == [ptr |-> ptr, status |-> s]
<1>1. /\ calls \in Seq(Call) /\ made \in [PEs -> Seq(Made)] /\ n \in Nat
      /\ n <= Len(calls) /\ Len(calls) <= MaxCalls /\ n < MaxCalls
      /\ MaxCalls \in Nat
  BY CallAssumption DEF TypeOK, CallInv, Make
<1>2. e \in Made
  OBVIOUS
<1>3. /\ made' = [made EXCEPT ![p] = Append(made[p], e)]
      /\ IF n < Len(calls) THEN calls[n + 1] = c /\ UNCHANGED calls
         ELSE calls' = Append(calls, c)
  BY DEF Make
<1> HIDE DEF e
<1>4. /\ made' \in [PEs -> Seq(Made)]
      /\ \A q \in PEs \ {p} : made'[q] = made[q]
      /\ made'[p] = Append(made[p], e)
  BY <1>1, <1>2, <1>3
<1>5. /\ Len(made'[p]) = n + 1 /\ made'[p][n + 1] = e
      /\ \A k \in DOMAIN made[p] : made'[p][k] = made[p][k]
  BY <1>1, <1>2, <1>4
<1>6. /\ calls' \in Seq(Call) /\ Len(calls) <= Len(calls')
      /\ \A k \in DOMAIN calls : k \in DOMAIN calls' /\ calls'[k] = calls[k]
      /\ n + 1 \in DOMAIN calls' /\ calls'[n + 1] = c /\ Len(calls') <= MaxCalls
      /\ \A k \in DOMAIN calls' : k \in DOMAIN calls \/ k = n + 1
  <2>1. CASE n < Len(calls)
    BY <1>1, <1>3, <2>1
  <2>2. CASE ~(n < Len(calls))
    <3>1. n = Len(calls) /\ calls' = Append(calls, c)
      BY <1>1, <1>3, <2>2
    <3>2. /\ Len(calls') = Len(calls) + 1 /\ calls'[Len(calls) + 1] = c
          /\ calls' \in Seq(Call)
          /\ \A k \in 1 .. Len(calls) : calls'[k] = calls[k]
      BY <1>1, <3>1
    <3> HIDE DEF n
    <3> QED BY <1>1, <3>1, <3>2
  <2> QED BY <2>1, <2>2
<1>7. CallInv'
  <2>1. \A q \in PEs : Len(made'[q]) <= Len(calls')
    <3> SUFFICES ASSUME NEW q \in PEs PROVE Len(made'[q]) <= Len(calls')
      OBVIOUS
    <3>1. CASE q = p BY <1>1, <1>5, <1>6, <3>1
    <3>2. CASE q # p
      <4>1. Len(made'[q]) = Len(made[q]) /\ Len(made[q]) <= Len(calls)
        BY <1>4, <3>2 DEF CallInv
      <4>2. Len(made[q]) \in Nat /\ Len(calls) \in Nat /\ Len(calls') \in Nat
        BY <1>1, <1>6
      <4> QED BY <1>6, <4>1, <4>2
    <3> QED BY <3>1, <3>2
  <2>2. ASSUME NEW j \in DOMAIN calls', calls'[j].op = "free"
        PROVE  /\ calls'[j].of \in 1 .. j - 1
               /\ calls'[calls'[j].of].op \in Allocators
    <3>1. CASE j \in DOMAIN calls
      <4>1. calls[j].of \in 1 .. j - 1 /\ calls[calls[j].of].op \in Allocators
        BY <1>6, <2>2, <3>1 DEF CallInv
      <4>2. calls[j].of \in DOMAIN calls
        BY <1>1, <3>1, <4>1
      <4> QED BY <1>6, <3>1, <4>1, <4>2
    <3>2. CASE j = n + 1
      <4>1. c.of \in 1 .. n /\ calls[c.of].op \in Allocators /\ calls'[j] = c
        BY <1>1, <1>6, <2>2, <3>2 DEF Sensible
      <4>2. c.of \in DOMAIN calls
        BY <1>1, <4>1
      <4>3. c.of \in 1 .. j - 1
        BY <1>1, <3>2, <4>1
      <4> QED BY <1>6, <4>1, <4>2, <4>3
    <3> QED BY <1>6, <3>1, <3>2
  <2> QED BY <1>6, <2>1, <2>2 DEF CallInv
<1> QED BY <1>4, <1>5, <1>6, <1>7 DEF e, Recorded

\* A step of p that leaves q's calls, heap and barrier alone.
LEMMA OthersKept ==
    ASSUME HInv, NEW q \in PEs, heap'[q] = heap[q], made'[q] = made[q],
           entered'[q] = entered[q], left'[q] = left[q],
           \A k \in DOMAIN calls : calls'[k] = calls[k]
    PROVE  MadeAt(q)' /\ UsedAt(q)'
<1>1. made[q] \in Seq(Made) /\ calls \in Seq(Call) /\ Len(made[q]) <= Len(calls)
  BY DEF HInv, TypeOK, CallInv
<1>2. \A k \in DOMAIN made[q] : k \in DOMAIN calls /\ calls'[k] = calls[k]
  BY <1>1
<1>3. MadeAt(q)'
  BY <1>2 DEF HInv, MadeAt, PointerAt, Outside, Current
<1>4. Held(q)' = Held(q) /\ \A k \in Held(q) : Block(q, k)' = Block(q, k)
  BY <1>2 DEF Held, Block
<1>5. UsedAt(q)'
  <2>1. UsedAt(q) BY DEF HInv
  <2> QED BY <1>4, <2>1 DEF UsedAt
<1> QED BY <1>3, <1>5

\* A call that has just been made, with no new block.
LEMMA MadeNull ==
    ASSUME HInv, TypeOK', NEW p \in PEs, NEW s \in {"pending", "OK", "memset"},
           heap'[p].used = heap[p].used,
           \A k \in DOMAIN calls : calls'[k] = calls[k],
           Len(made'[p]) = Len(made[p]) + 1,
           \A k \in DOMAIN made[p] : made'[p][k] = made[p][k],
           made'[p][Len(made[p]) + 1] = [ptr |-> {}, status |-> s],
           Outside(p), s = "OK" <=> Outside(p)',
           s = "memset" => calls'[Len(made[p]) + 1].op = "calloc"
    PROVE  MadeAt(p)' /\ UsedAt(p)'
<1> DEFINE n == Len(made[p])
<1>1. /\ made[p] \in Seq(Made) /\ calls \in Seq(Call) /\ n <= Len(calls)
      /\ made'[p] \in Seq(Made)
  BY DEF HInv, TypeOK, CallInv
<1>2. /\ DOMAIN made[p] = 1 .. n /\ DOMAIN made'[p] = 1 .. n + 1 /\ n \in Nat
      /\ \A k \in 1 .. n : k \in DOMAIN calls /\ calls'[k] = calls[k]
  BY <1>1
<1>3. MadeAt(p)'
  <2>1. /\ made'[p] # <<>>
        /\ ~Outside(p)' => made'[p][n + 1].status \in {"pending", "memset"}
    BY <1>1, <1>2
  <2>2. ASSUME NEW k \in DOMAIN made'[p]
        PROVE  /\ made'[p][k].ptr = {} \/ \E o \in Nat : made'[p][k].ptr = {o}
               /\ calls'[k].op = "free" => made'[p][k].ptr = {}
               /\ made'[p][k].status = "memset" => calls'[k].op = "calloc"
               /\ made'[p][k].status = "pending" => k = n + 1 /\ ~Outside(p)'
    <3>1. CASE k \in 1 .. n
      <4>1. made'[p][k] = made[p][k] /\ calls'[k] = calls[k] /\ k \in DOMAIN made[p]
        BY <1>2, <3>1
      <4>2. PointerAt(p, k) /\ made[p][k].status # "pending"
        BY <4>1 DEF HInv, MadeAt, PointerAt
      <4> QED BY <4>1, <4>2 DEF PointerAt
    <3>2. CASE k = n + 1
      BY <3>2
    <3> QED BY <1>2, <3>1, <3>2
  <2> QED BY <2>1, <2>2 DEF MadeAt, PointerAt, Current
<1>4. Held(p)' = Held(p) /\ \A k \in Held(p) : Block(p, k)' = Block(p, k)
  <2>1. /\ \A k \in 1 .. n : made'[p][k].ptr = made[p][k].ptr
        /\ made'[p][n + 1].ptr = {}
    BY <1>2
  <2>2. \A k \in 1 .. n + 1 : k \in 1 .. n \/ k = n + 1
    BY <1>2
  <2>3. Held(p)' = Held(p)
    BY <1>2, <2>1, <2>2 DEF Held
  <2>4. \A k \in 1 .. n : Block(p, k)' = Block(p, k)
    BY <1>2, <2>1 DEF Block
  <2> QED BY <1>2, <2>3, <2>4 DEF Held
<1>5. UsedAt(p)'
  <2>1. UsedAt(p) BY DEF HInv
  <2> QED BY <1>4, <2>1 DEF UsedAt
<1> QED BY <1>3, <1>5

\* A call that has just been made and got the block at o.
LEMMA MadeBlock ==
    ASSUME HInv, TypeOK', NEW p \in PEs, NEW o \in Nat, NEW c,
           c.op \in Allocators,
           heap'[p].used = heap[p].used \cup {MemRange(o, AlignUp(c.size))},
           \A u \in heap[p].used : u.offset # o,
           \A k \in DOMAIN calls : calls'[k] = calls[k],
           calls'[Len(made[p]) + 1] = c,
           Len(made'[p]) = Len(made[p]) + 1,
           \A k \in DOMAIN made[p] : made'[p][k] = made[p][k],
           made'[p][Len(made[p]) + 1] = [ptr |-> {o}, status |-> "pending"],
           Outside(p), ~Outside(p)'
    PROVE  MadeAt(p)' /\ UsedAt(p)'
<1> DEFINE b == MemRange(o, AlignUp(c.size))
<1>0. PICK n \in Nat : n = Len(made[p])
  BY DEF HInv, TypeOK
<1>1. /\ made[p] \in Seq(Made) /\ calls \in Seq(Call) /\ n <= Len(calls)
      /\ made'[p] \in Seq(Made)
  BY <1>0 DEF HInv, TypeOK, CallInv
<1>2. /\ DOMAIN made[p] = 1 .. n /\ DOMAIN made'[p] = 1 .. n + 1 /\ n \in Nat
      /\ \A k \in 1 .. n : k \in DOMAIN calls /\ calls'[k] = calls[k]
  BY <1>0, <1>1
<1>3. MadeAt(p)'
  <2>1. /\ made'[p] # <<>>
        /\ made'[p][n + 1].status \in {"pending", "memset"}
    BY <1>0, <1>1, <1>2
  <2>2. ASSUME NEW k \in DOMAIN made'[p]
        PROVE  /\ made'[p][k].ptr = {} \/ \E x \in Nat : made'[p][k].ptr = {x}
               /\ calls'[k].op = "free" => made'[p][k].ptr = {}
               /\ made'[p][k].status = "memset" => calls'[k].op = "calloc"
               /\ made'[p][k].status = "pending" => k = n + 1 /\ ~Outside(p)'
    <3>1. CASE k \in 1 .. n
      <4>1. made'[p][k] = made[p][k] /\ calls'[k] = calls[k] /\ k \in DOMAIN made[p]
        BY <1>0, <1>2, <3>1
      <4>2. PointerAt(p, k) /\ made[p][k].status # "pending"
        BY <4>1 DEF HInv, MadeAt, PointerAt
      <4> QED BY <4>1, <4>2 DEF PointerAt
    <3>2. CASE k = n + 1
      BY <1>0, <3>2 DEF Allocators
    <3> QED BY <1>2, <3>1, <3>2
  <2> QED BY <1>0, <2>1, <2>2 DEF MadeAt, PointerAt, Current
<1>4. /\ Held(p)' = Held(p) \cup {n + 1} /\ n + 1 \notin Held(p)
      /\ \A k \in Held(p) : Block(p, k)' = Block(p, k)
  <2>1. /\ \A k \in 1 .. n : made'[p][k].ptr = made[p][k].ptr
        /\ made'[p][n + 1].ptr = {o}
    BY <1>0, <1>2
  <2>2. \A k \in 1 .. n + 1 : k \in 1 .. n \/ k = n + 1
    BY <1>2
  <2>3. n + 1 \in 1 .. n + 1 /\ n + 1 \notin 1 .. n
    BY <1>2
  <2>4. Held(p)' = Held(p) \cup {n + 1} /\ n + 1 \notin Held(p)
    <3>1. Held(p) = {k \in 1 .. n : made[p][k].ptr # {}}
      BY <1>2 DEF Held
    <3>2. Held(p)' = {k \in 1 .. n + 1 : made'[p][k].ptr # {}}
      BY <1>2 DEF Held
    <3>3. \A k \in 1 .. n : k \in 1 .. n + 1
      BY <1>2
    <3> QED BY <2>1, <2>2, <2>3, <3>1, <3>2, <3>3
  <2>5. \A k \in 1 .. n : Block(p, k)' = Block(p, k)
    BY <1>2, <2>1 DEF Block
  <2> QED BY <1>2, <2>4, <2>5 DEF Held
<1>5. Block(p, n + 1)' = b
  <2>1. made'[p][n + 1].ptr = {o} /\ calls'[n + 1].size = c.size
    BY <1>0
  <2>2. (CHOOSE x \in made'[p][n + 1].ptr : TRUE) = o
    BY <2>1
  <2> QED BY <2>1, <2>2 DEF Block
<1>6. b \notin heap[p].used
  BY DEF MemRange
<1>7. UsedAt(p)'
  <2>1. UsedAt(p) BY DEF HInv
  <2> HIDE DEF b
  <2>2. heap'[p].used = {Block(p, k)' : k \in Held(p)'}
    <3>1. heap'[p].used = heap[p].used \cup {b}
      BY DEF b
    <3>2. \A x : x \in heap[p].used <=> \E k \in Held(p) : x = Block(p, k)'
      BY <1>4, <2>1 DEF UsedAt
    <3> QED BY <1>4, <1>5, <3>1, <3>2
  <2>3. ASSUME NEW j \in Held(p)', NEW k \in Held(p)',
               Block(p, j)' = Block(p, k)'
        PROVE  j = k
    <3>1. \A i \in Held(p) : Block(p, i)' # b
      BY <1>4, <1>6, <2>1 DEF UsedAt
    <3>2. CASE j = n + 1 \/ k = n + 1
      BY <1>4, <1>5, <2>3, <3>1, <3>2
    <3>3. CASE j # n + 1 /\ k # n + 1
      BY <1>4, <2>1, <2>3, <3>3 DEF UsedAt
    <3> QED BY <3>2, <3>3
  <2> QED BY <2>2, <2>3 DEF UsedAt
<1> QED BY <1>3, <1>7

\* The call in progress is settled: its barrier is left, and the pointer of
\* call k may be given up together with its block.
LEMMA SettledAt ==
    ASSUME HInv, TypeOK', NEW p \in PEs, NEW k \in DOMAIN made[p],
           NEW ptr, NEW s \in {"OK", "ERROR"}, UNCHANGED calls,
           Len(made'[p]) = Len(made[p]),
           Settled(p, k, ptr, s), Outside(p)',
           \/ ptr = made[p][k].ptr /\ heap'[p] = heap[p]
           \/ /\ ptr = {} /\ made[p][k].ptr # {}
              /\ heap'[p].used = heap[p].used \ {Block(p, k)}
    PROVE  MadeAt(p)' /\ UsedAt(p)'
<1>1. made[p] \in Seq(Made) /\ made'[p] \in Seq(Made)
      /\ DOMAIN made'[p] = DOMAIN made[p]
  BY DEF HInv, TypeOK
<1>2. MadeAt(p)'
  <2>1. ASSUME NEW j \in DOMAIN made'[p]
        PROVE  /\ made'[p][j].ptr = {} \/ \E x \in Nat : made'[p][j].ptr = {x}
               /\ calls'[j].op = "free" => made'[p][j].ptr = {}
               /\ made'[p][j].status = "memset" => calls'[j].op = "calloc"
               /\ made'[p][j].status # "pending"
    <3>1. j \in DOMAIN made[p] /\ PointerAt(p, j) /\ PointerAt(p, k)
      BY <1>1 DEF HInv, MadeAt, PointerAt
    <3>2. made[p][j].status = "pending" => j = Current(p)
      BY <3>1 DEF HInv, MadeAt
    <3>3. /\ made'[p][j].ptr = {} \/ \E x \in Nat : made'[p][j].ptr = {x}
          /\ calls'[j].op = "free" => made'[p][j].ptr = {}
      BY <3>1 DEF PointerAt, Settled
    <3> QED BY <3>1, <3>2, <3>3 DEF PointerAt, Settled
  <2> QED BY <2>1 DEF MadeAt, PointerAt
<1>3. CASE ptr = made[p][k].ptr /\ heap'[p] = heap[p]
  <2>1. \A j \in DOMAIN made[p] : made'[p][j].ptr = made[p][j].ptr
    BY <1>3 DEF Settled
  <2>2. Held(p)' = Held(p) /\ \A j \in Held(p) : Block(p, j)' = Block(p, j)
    BY <1>1, <2>1 DEF Held, Block
  <2>3. UsedAt(p) BY DEF HInv
  <2> QED BY <1>2, <1>3, <2>2, <2>3 DEF UsedAt
<1>4. CASE /\ ptr = {} /\ made[p][k].ptr # {}
           /\ heap'[p].used = heap[p].used \ {Block(p, k)}
  <2>1. /\ Held(p)' = Held(p) \ {k} /\ k \in Held(p)
        /\ \A j \in Held(p) \ {k} : Block(p, j)' = Block(p, j)
    BY <1>1, <1>4 DEF Held, Block, Settled
  <2>2. UsedAt(p) BY DEF HInv
  <2>3. heap'[p].used = {Block(p, j)' : j \in Held(p)'}
    <3>1. \A j \in Held(p) \ {k} : Block(p, j) # Block(p, k)
      BY <2>1, <2>2 DEF UsedAt
    <3> QED BY <1>4, <2>1, <2>2, <3>1 DEF UsedAt
  <2> QED BY <1>2, <2>1, <2>2, <2>3 DEF UsedAt
<1> QED BY <1>3, <1>4

\* The rest of the types, which no call depends on.
LEMMA StepTypes ==
    ASSUME TypeOK, AllGood, NEW p \in PEs, Step(p),
           calls' \in Seq(Call), made' \in [PEs -> Seq(Made)]
    PROVE  TypeOK'
<1>1. heap' \in [PEs -> Heaps]
  BY StepGood DEF AllGood
<1>2. faults' \in 0 .. MaxFaults
  BY CallAssumption
     DEF TypeOK, Step, Malloc, CallocRefused, Calloc, CallocUncleared, FreeNull,
         Free, AllocatorReturns, AllocatorFails, FreeReturns, FreeFails, Fault,
         BarrierFault
<1>3. \/ UNCHANGED barrierVars \/ Enter(p) \/ Leave(p, "OK") \/ Leave(p, "ERROR")
  BY DEF Step, Malloc, CallocRefused, Calloc, CallocUncleared, FreeNull, Free,
         AllocatorReturns, AllocatorFails, FreeReturns, FreeFails, Pass, Fail
<1>4. /\ entered' \in [PEs -> Nat] /\ left' \in [PEs -> Nat]
      /\ result' \in [PEs -> {"none", "OK", "ERROR"}]
  <2>1. CASE UNCHANGED barrierVars
    BY <2>1 DEF TypeOK, barrierVars
  <2>2. CASE Enter(p)
    BY <2>2 DEF TypeOK, Enter
  <2>3. ASSUME NEW r \in {"OK", "ERROR"}, Leave(p, r)
        PROVE  /\ entered' \in [PEs -> Nat] /\ left' \in [PEs -> Nat]
               /\ result' \in [PEs -> {"none", "OK", "ERROR"}]
    BY <2>3 DEF TypeOK, Leave
  <2> QED BY <1>3, <2>1, <2>2, <2>3
<1> QED BY <1>1, <1>2, <1>4 DEF TypeOK

\* A call that was made without a pointer, in its barrier or already over.
LEMMA NullCallStep ==
    ASSUME HInv, NEW p \in PEs, Step(p), NEW c \in Call,
           NEW s \in {"pending", "OK", "memset"}, Make(p, c, {}, s),
           Sensible(p, c),
           heap'[p].used = heap[p].used,
           \A q \in PEs \ {p} : heap'[q] = heap[q],
           (s = "OK" /\ UNCHANGED barrierVars) \/ (s # "OK" /\ Enter(p)),
           s = "memset" => c.op = "calloc"
    PROVE  HInv'
<1>1. TypeOK /\ AllGood /\ CallInv
  BY DEF HInv
<1>2. Recorded(p, c, {}, s) /\ CallInv'
  <2>1. [ptr |-> {}, status |-> s] \in Made
    BY DEF Made
  <2> QED BY <1>1, <2>1, MakeIs
<1>3. TypeOK' /\ AllGood'
  BY <1>1, <1>2, StepTypes, StepGood DEF Recorded
<1>4. /\ Outside(p) /\ (s = "OK" <=> Outside(p)')
      /\ \A q \in PEs \ {p} : entered'[q] = entered[q] /\ left'[q] = left[q]
  BY <1>1 DEF Make, Outside, Enter, barrierVars, TypeOK
<1>5. MadeAt(p)' /\ UsedAt(p)'
  BY <1>2, <1>3, <1>4, MadeNull DEF Recorded
<1>6. \A q \in PEs \ {p} : MadeAt(q)' /\ UsedAt(q)'
  BY <1>2, <1>4, OthersKept DEF Recorded
<1> QED BY <1>2, <1>3, <1>5, <1>6 DEF HInv

\* Malloc and Calloc: a block, or a null pointer if none fits.
LEMMA AllocatingStep ==
    ASSUME HInv, NEW p \in PEs, Step(p), NEW op \in Allocators, NEW n \in Sizes,
           NEW r \in Allocate(heap[p], n), Enter(p),
           Make(p, AllocatorCall(op, n, 1), r.got, "pending"),
           heap' = [heap EXCEPT ![p] = r.heap]
    PROVE  HInv'
<1> DEFINE c == AllocatorCall(op, n, 1)
<1>1. TypeOK /\ AllGood /\ CallInv /\ Good(heap[p]) /\ n \in Nat
  BY CallAssumption DEF HInv, AllGood
<1>2. c \in Call /\ c.op \in Allocators /\ c.size = n /\ Sensible(p, c)
  BY DEF AllocatorCall, Call, Allocators, Sensible
<1>3. heap'[p] = r.heap /\ \A q \in PEs \ {p} : heap'[q] = heap[q]
  BY <1>1 DEF TypeOK
<1> HIDE DEF c
<1>4. CASE r.got = {} /\ r.heap = heap[p]
  <2>1. Make(p, c, {}, "pending")
    BY <1>4 DEF c
  <2> QED BY <1>2, <1>3, <1>4, <2>1, NullCallStep
<1>5. ASSUME NEW o \in Nat, r.got = {o},
             r.heap.used = heap[p].used \cup {MemRange(o, AlignUp(n))},
             \A u \in heap[p].used : u.offset # o
      PROVE  HInv'
  <2>1. Make(p, c, {o}, "pending")
    BY <1>5 DEF c
  <2>2. Recorded(p, c, {o}, "pending") /\ CallInv'
    <3>1. [ptr |-> {o}, status |-> "pending"] \in Made
      BY DEF Made
    <3> QED BY <1>1, <1>2, <2>1, <3>1, MakeIs
  <2>3. TypeOK' /\ AllGood'
    BY <1>1, <2>2, StepTypes, StepGood DEF Recorded
  <2>4. /\ Outside(p) /\ ~Outside(p)'
        /\ \A q \in PEs \ {p} : entered'[q] = entered[q] /\ left'[q] = left[q]
    BY <1>1 DEF Outside, Enter, TypeOK
  <2>5. heap'[p].used = heap[p].used \cup {MemRange(o, AlignUp(c.size))}
    BY <1>2, <1>3, <1>5
  <2>6. MadeAt(p)' /\ UsedAt(p)'
    BY <1>2, <1>5, <2>2, <2>3, <2>4, <2>5, MadeBlock DEF Recorded
  <2>7. \A q \in PEs \ {p} : MadeAt(q)' /\ UsedAt(q)'
    BY <1>3, <2>2, <2>4, OthersKept DEF Recorded
  <2> QED BY <2>2, <2>3, <2>6, <2>7 DEF HInv
<1> QED BY <1>1, <1>4, <1>5, AllocateIs

\* A call that leaves its barrier.
LEMMA ReturningStep ==
    ASSUME HInv, NEW p \in PEs, Step(p), NEW k \in DOMAIN made[p],
           NEW ptr \in SUBSET Nat, NEW s \in {"OK", "ERROR"}, UNCHANGED calls,
           AfterSettle(p, k, ptr, s), Leave(p, s),
           \A q \in PEs \ {p} : heap'[q] = heap[q],
           \/ ptr = made[p][k].ptr /\ heap'[p] = heap[p]
           \/ /\ ptr = {} /\ made[p][k].ptr # {}
              /\ heap'[p].used = heap[p].used \ {Block(p, k)}
    PROVE  HInv'
<1>1. TypeOK /\ AllGood /\ CallInv /\ made[p] # <<>>
  BY DEF HInv, MadeAt, Leave
<1>2. /\ made' \in [PEs -> Seq(Made)]
      /\ \A q \in PEs : Len(made'[q]) = Len(made[q])
      /\ \A q \in PEs \ {p} : made'[q] = made[q]
      /\ Settled(p, k, ptr, s)
  BY DEF AfterSettle
<1>3. TypeOK' /\ AllGood'
  BY <1>1, <1>2, StepTypes, StepGood DEF TypeOK
<1>4. CallInv'
  BY <1>1, <1>2 DEF CallInv
<1>5. /\ Outside(p)'
      /\ \A q \in PEs \ {p} : entered'[q] = entered[q] /\ left'[q] = left[q]
  BY <1>1 DEF Outside, Leave, TypeOK
<1>6. MadeAt(p)' /\ UsedAt(p)'
  <2>1. Len(made'[p]) = Len(made[p])
    BY <1>2
  <2> QED BY <1>2, <1>3, <1>5, <2>1, SettledAt, Zenon
<1>7. \A q \in PEs \ {p} : MadeAt(q)' /\ UsedAt(q)'
  BY <1>2, <1>5, OthersKept
<1> QED BY <1>3, <1>4, <1>6, <1>7 DEF HInv

(* Every step of a PE keeps the invariant. *)
LEMMA HeapStep ==
    ASSUME HInv, NEW p \in PEs, Step(p)
    PROVE  HInv'
<1>1. TypeOK /\ AllGood /\ CallInv /\ MadeAt(p) /\ UsedAt(p) /\ Good(heap[p])
  BY DEF HInv, AllGood
<1>2. made[p] \in Seq(Made) /\ DOMAIN made[p] = 1 .. Len(made[p])
  BY <1>1 DEF TypeOK
<1>3. CASE Malloc(p)
  BY <1>3, AllocatingStep DEF Malloc, Allocators
<1>4. CASE Calloc(p)
  BY <1>4, AllocatingStep DEF Calloc, Allocators
<1>5. CASE CallocRefused(p)
  <2>1. PICK n \in Sizes : /\ Make(p, AllocatorCall("calloc", n, 1), {}, "OK")
                           /\ UNCHANGED <<heap, barrierVars>>
    BY <1>5 DEF CallocRefused
  <2> DEFINE c == AllocatorCall("calloc", n, 1)
  <2>2. c \in Call /\ Sensible(p, c)
    BY DEF AllocatorCall, Call, Allocators, Sensible
  <2> QED BY <2>1, <2>2, NullCallStep
<1>6. CASE CallocUncleared(p)
  <2>1. PICK n \in Sizes : \E r \in Allocate(heap[p], n) : \E o \in r.got :
            /\ Make(p, AllocatorCall("calloc", n, 1), {}, "memset")
            /\ heap' = [heap EXCEPT ![p] = ReleaseAt(r.heap, o)]
            /\ Enter(p)
    BY <1>6 DEF CallocUncleared
  <2>2. PICK r \in Allocate(heap[p], n) : \E o \in r.got :
            /\ Make(p, AllocatorCall("calloc", n, 1), {}, "memset")
            /\ heap' = [heap EXCEPT ![p] = ReleaseAt(r.heap, o)]
            /\ Enter(p)
    BY <2>1
  <2>3. PICK o \in r.got :
            /\ Make(p, AllocatorCall("calloc", n, 1), {}, "memset")
            /\ heap' = [heap EXCEPT ![p] = ReleaseAt(r.heap, o)]
            /\ Enter(p)
    BY <2>2
  <2> DEFINE c == AllocatorCall("calloc", n, 1)
             b == MemRange(o, AlignUp(n))
  <2>4. c \in Call /\ Sensible(p, c) /\ c.op = "calloc"
    BY DEF AllocatorCall, Call, Allocators, Sensible
  <2>5. n \in Nat /\ Good(r.heap)
    BY <1>1, AllocateGood, CallAssumption
  <2>6. r.heap.used = heap[p].used \cup {b} /\ \A u \in heap[p].used : u.offset # o
    BY <1>1, <2>5, AllocateIs
  <2>7. b \notin heap[p].used /\ b.offset = o
    BY <2>6 DEF MemRange
  <2>8. ReleaseAt(r.heap, o).used = heap[p].used
    <3>1. ReleaseAt(r.heap, b.offset).used = r.heap.used \ {b}
      BY <2>5, <2>6, ReleaseAtIs
    <3> QED BY <2>6, <2>7, <3>1
  <2>9. heap'[p].used = heap[p].used /\ \A q \in PEs \ {p} : heap'[q] = heap[q]
    BY <1>1, <2>3, <2>8 DEF TypeOK
  <2> QED BY <2>3, <2>4, <2>9, NullCallStep
<1>7. ASSUME NEW k \in DOMAIN made[p], MayFree(p, k), NEW s \in {"OK", "pending"},
             Make(p, FreeCall(k), {}, s), UNCHANGED heap,
             (s = "OK" /\ UNCHANGED barrierVars) \/ (s # "OK" /\ Enter(p))
      PROVE  HInv'
  <2>1. k \in 1 .. MaxCalls
    <3>1. /\ Len(made[p]) \in Nat /\ MaxCalls \in Nat /\ k \in 1 .. Len(made[p])
          /\ Len(made[p]) < MaxCalls
      BY <1>2, <1>7, CallAssumption DEF Make
    <3> QED BY <3>1
  <2>2. FreeCall(k) \in Call /\ Sensible(p, FreeCall(k))
    BY <1>7, <2>1 DEF FreeCall, Call, Sensible, MayFree
  <2> QED BY <1>7, <2>2, NullCallStep
<1>8. CASE FreeNull(p)
  BY <1>7, <1>8 DEF FreeNull
<1>9. CASE Free(p)
  BY <1>7, <1>9 DEF Free
<1>10. ~Outside(p) => Current(p) \in DOMAIN made[p] /\ Current(p) \in Nat
  BY <1>1, <1>2 DEF MadeAt, Current
<1>11. \A k \in DOMAIN made[p] : made[p][k].ptr \in SUBSET Nat
  <2>1. \A k \in DOMAIN made[p] : made[p][k] \in Made
    BY <1>2
  <2> QED BY <2>1 DEF Made
<1>12. \A k \in DOMAIN made[p] : \A o \in made[p][k].ptr :
         /\ made[p][k].ptr = {o} /\ Block(p, k) \in heap[p].used
         /\ ReleaseAt(heap[p], o).used = heap[p].used \ {Block(p, k)}
  <2> SUFFICES ASSUME NEW k \in DOMAIN made[p], NEW o \in made[p][k].ptr
               PROVE  /\ made[p][k].ptr = {o} /\ Block(p, k) \in heap[p].used
                      /\ ReleaseAt(heap[p], o).used
                           = heap[p].used \ {Block(p, k)}
    OBVIOUS
  <2>1. made[p][k].ptr = {o} /\ k \in Held(p)
    BY <1>1 DEF MadeAt, PointerAt, Held
  <2>2. Block(p, k) \in heap[p].used
    BY <1>1, <2>1 DEF UsedAt
  <2>3. Block(p, k).offset = o
    <3>1. Block(p, k) = MemRange(o, AlignUp(calls[k].size))
      BY <2>1, BlockIs
    <3> QED BY <3>1 DEF MemRange
  <2> QED BY <1>1, <2>1, <2>2, <2>3, ReleaseAtIs
<1>13. CASE AllocatorReturns(p)
  <2> DEFINE k == Current(p)
  <2>1. /\ Leave(p, "OK") /\ ~Outside(p) /\ UNCHANGED <<heap, calls>>
        /\ made' = Settle(p, k, made[p][k].ptr, "OK")
    BY <1>13 DEF AllocatorReturns, Pass, Leave
  <2>2. k \in DOMAIN made[p] /\ made[p][k].ptr \in SUBSET Nat
    BY <1>10, <1>11, <2>1
  <2>3. AfterSettle(p, k, made[p][k].ptr, "OK")
    BY <1>1, <2>1, <2>2, SettleIs DEF MadeAt
  <2> QED BY <2>1, <2>2, <2>3, ReturningStep
<1>14. CASE AllocatorFails(p)
  <2> DEFINE k == Current(p)
             o == CHOOSE x \in made[p][k].ptr : TRUE
  <2>1. /\ Leave(p, "ERROR") /\ ~Outside(p) /\ UNCHANGED calls
        /\ made' = Settle(p, k, {}, "ERROR")
        /\ heap' = [heap EXCEPT ![p] = IF made[p][k].ptr = {} THEN heap[p]
                                       ELSE ReleaseAt(heap[p], o)]
    BY <1>14 DEF AllocatorFails, Fail, Leave
  <2>2. k \in DOMAIN made[p] /\ {} \in SUBSET Nat
    BY <1>10, <2>1
  <2>3. /\ \A q \in PEs \ {p} : heap'[q] = heap[q]
        /\ heap'[p] = IF made[p][k].ptr = {} THEN heap[p]
                      ELSE ReleaseAt(heap[p], o)
    BY <1>1, <2>1 DEF TypeOK
  <2>4. \/ {} = made[p][k].ptr /\ heap'[p] = heap[p]
        \/ /\ made[p][k].ptr # {}
           /\ heap'[p].used = heap[p].used \ {Block(p, k)}
    <3>1. CASE made[p][k].ptr = {}
      BY <2>3, <3>1
    <3>2. CASE made[p][k].ptr # {}
      <4>1. o \in made[p][k].ptr
        BY <3>2
      <4> QED BY <1>12, <2>2, <2>3, <3>2, <4>1
    <3> QED BY <3>1, <3>2
  <2>5. AfterSettle(p, k, {}, "ERROR")
    BY <1>1, <2>1, <2>2, SettleIs DEF MadeAt
  <2> QED BY <2>1, <2>2, <2>3, <2>4, <2>5, ReturningStep
<1>15. CASE FreeReturns(p)
  <2> DEFINE k == calls[Current(p)].of
  <2>1. /\ Leave(p, "OK") /\ ~Outside(p) /\ UNCHANGED calls
        /\ calls[Current(p)].op = "free"
    BY <1>15 DEF FreeReturns, Pass, Leave
  <2>2. PICK o \in made[p][k].ptr :
            /\ heap' = [heap EXCEPT ![p] = ReleaseAt(heap[p], o)]
            /\ made' = Settle(p, k, {}, "OK")
    BY <1>15 DEF FreeReturns
  <2>3. k \in DOMAIN made[p]
    <3>1. Current(p) \in DOMAIN made[p] /\ Current(p) \in DOMAIN calls
      BY <1>1, <1>2, <1>10, <2>1 DEF CallInv, TypeOK
    <3>2. k \in 1 .. Current(p) - 1
      BY <1>1, <2>1, <3>1 DEF CallInv
    <3> QED BY <1>2, <3>1, <3>2
  <2>4. /\ \A q \in PEs \ {p} : heap'[q] = heap[q] /\ {} \in SUBSET Nat
        /\ heap'[p] = ReleaseAt(heap[p], o)
    BY <1>1, <2>2 DEF TypeOK
  <2>5. made[p][k].ptr # {} /\ heap'[p].used = heap[p].used \ {Block(p, k)}
    BY <1>12, <2>2, <2>3, <2>4
  <2>6. AfterSettle(p, k, {}, "OK")
    BY <1>1, <2>1, <2>2, <2>3, <2>4, SettleIs DEF MadeAt
  <2> QED BY <2>1, <2>3, <2>4, <2>5, <2>6, ReturningStep
<1>16. CASE FreeFails(p)
  <2> DEFINE k == Current(p)
  <2>1. /\ Leave(p, "ERROR") /\ ~Outside(p) /\ UNCHANGED <<calls, heap>>
        /\ made' = [made EXCEPT ![p][k].status = "ERROR"]
        /\ calls[k].op = "free"
    BY <1>16 DEF FreeFails, Fail, Leave
  <2>2. k \in DOMAIN made[p] /\ made[p][k].ptr \in SUBSET Nat
    BY <1>10, <1>11, <2>1
  <2>3. made[p][k].status = "pending"
    BY <1>1, <2>1, <2>2 DEF MadeAt, PointerAt
  <2> DEFINE e == [made[p][k] EXCEPT !.status = "ERROR"]
  <2>4. /\ e \in Made /\ e.ptr = made[p][k].ptr /\ e.status = "ERROR"
        /\ made' = [made EXCEPT ![p] = [made[p] EXCEPT ![k] = e]]
    <3>1. made[p][k] \in Made
      BY <1>2, <2>2
    <3> QED BY <2>1, <3>1 DEF Made
  <2> HIDE DEF e
  <2>5. /\ made' \in [PEs -> Seq(Made)]
        /\ \A q \in PEs \ {p} : made'[q] = made[q]
        /\ made'[p] = [made[p] EXCEPT ![k] = e]
    BY <1>1, <1>2, <2>2, <2>4 DEF TypeOK
  <2>6. AfterSettle(p, k, made[p][k].ptr, "ERROR")
    <3> HIDE DEF k
    <3>1. Len(made'[p]) = Len(made[p])
      BY <1>2, <2>2, <2>4, <2>5
    <3>2. \A j \in DOMAIN made[p] : made'[p][j] = IF j = k THEN e ELSE made[p][j]
      BY <1>2, <2>5
    <3>3. Settled(p, k, made[p][k].ptr, "ERROR")
      BY <2>3, <2>4, <3>2 DEF Settled, k
    <3> QED BY <2>5, <3>1, <3>3 DEF AfterSettle
  <2> QED BY <2>1, <2>2, <2>6, ReturningStep
<1> QED BY <1>3, <1>4, <1>5, <1>6, <1>8, <1>9, <1>13, <1>14, <1>15, <1>16
        DEF Step

(* The invariant holds at the start. *)
LEMMA HeapAtStart ==
    ASSUME Init PROVE HInv
<1>1. AllGood
  <2>1. heap = [p \in PEs |-> NewHeap] /\ NewHeap \in Heaps
    BY NewHeapGood DEF Init, Good
  <2> QED BY <2>1, NewHeapGood DEF AllGood
<1>2. /\ calls = <<>> /\ made = [p \in PEs |-> <<>>] /\ <<>> \in Seq(Made)
      /\ heap = [p \in PEs |-> NewHeap] /\ faults = 0
      /\ entered = [p \in PEs |-> 0] /\ left = [p \in PEs |-> 0]
      /\ result = [p \in PEs |-> "none"]
  BY DEF Init, BarrierInit
<1>3. TypeOK
  BY <1>1, <1>2, CallAssumption DEF TypeOK, AllGood
<1>4. CallInv
  BY <1>2, CallAssumption DEF CallInv
<1>5. ASSUME NEW p \in PEs PROVE MadeAt(p) /\ UsedAt(p)
  <2>1. Outside(p) /\ DOMAIN made[p] = {} /\ heap[p].used = {}
    BY <1>2 DEF Outside, NewHeap
  <2>2. Held(p) = {}
    BY <2>1 DEF Held
  <2> QED BY <2>1, <2>2 DEF MadeAt, UsedAt
<1> QED BY <1>1, <1>3, <1>4, <1>5 DEF HInv

(* Every step, and a step that changes nothing, keeps it. *)
LEMMA HeapNext ==
    ASSUME HInv, [Next]_vars PROVE HInv'
<1>1. CASE \E p \in PEs : Step(p)
  BY <1>1, HeapStep
<1>2. CASE UNCHANGED vars
  <2>1. TypeOK' /\ AllGood' /\ CallInv'
    BY <1>2 DEF vars, HInv, TypeOK, AllGood, CallInv
  <2>2. \A p \in PEs : MadeAt(p)' /\ UsedAt(p)'
    BY <1>2, OthersKept DEF vars
  <2> QED BY <2>1, <2>2 DEF HInv
<1> QED BY <1>1, <1>2 DEF Next, Finished

(* The invariant holds throughout. *)
THEOREM HeapInvariant == Spec => []HInv
<1>1. Init => HInv
  BY HeapAtStart
<1>2. HInv /\ [Next]_vars => HInv'
  BY HeapNext
<1> QED BY <1>1, <1>2, PTL DEF Spec

(* Every heap, pointer and call keeps its type. *)
THEOREM HeapTypes == Spec => []TypeOK
<1>1. HInv => TypeOK
  BY DEF HInv
<1> QED BY <1>1, HeapInvariant, PTL

(* No error path of malloc, calloc and free leaves a block that no pointer  *)
(* names, or a pointer to a block that is idle: for any number of PEs, any  *)
(* heap and any calls, the blocks in use are those of the pointers held.    *)
THEOREM UsedBlocksAreHeld == Spec => []UsedIsHeld
<1>1. HInv => UsedIsHeld
  BY DEF HInv, UsedAt, UsedIsHeld
<1> QED BY <1>1, HeapInvariant, PTL

-----------------------------------------------------------------------------
(* PEs that are at different calls.  While calls end alike, a PE that is    *)
(* ahead of another has, beyond the other's last call, only calls that      *)
(* changed nothing (null pointers, refused sizes, failures) and one that is *)
(* still open.  So two heaps can be compared by what they become when the   *)
(* open calls end.                                                          *)

\* p is in the barrier of a call whose outcome is open.
Pending(p) == made[p] # <<>> /\ made[p][Current(p)].status = "pending"

\* The call whose pointer p gives up if the open call ends with s.
GivesUp(p, s) ==
    IF ~Pending(p) THEN {}
    ELSE IF calls[Current(p)].op = "free"
         THEN IF s = "OK" THEN {calls[Current(p)].of} ELSE {}
         ELSE IF s = "OK" THEN {} ELSE {Current(p)}

\* The pointer of call k, and the heap, when the open call has ended with s.
PtrAfter(p, k, s) == IF k \in GivesUp(p, s) THEN {} ELSE made[p][k].ptr
Gone(p, s) == UNION {made[p][k].ptr : k \in GivesUp(p, s)}
HeapAfter(p, s) == IF Gone(p, s) = {} THEN heap[p]
                   ELSE ReleaseAt(heap[p], CHOOSE o \in Gone(p, s) : TRUE)

\* A block that an open call holds is the one allocate takes from the heap
\* the call would leave if it failed; and what is known of calls on pointers.
OpenAt(p) ==
    /\ Pending(p) /\ calls[Current(p)].op # "free" =>
         /\ [heap |-> heap[p], got |-> made[p][Current(p)].ptr]
              \in Allocate(HeapAfter(p, "ERROR"), calls[Current(p)].size)
         /\ calls[Current(p)].op = "calloc" => Admissible(calls[Current(p)].size)
    /\ Pending(p) /\ calls[Current(p)].op = "free" =>
         made[p][calls[Current(p)].of].ptr # {}
    /\ \A j \in DOMAIN made[p] :
         calls[j].op = "free" /\ made[p][j].status = "OK" =>
             made[p][calls[j].of].ptr = {}
    /\ \A j \in DOMAIN made[p] : made[p][j].status = "memset" =>
         made[p][j].ptr = {}

\* How call n may yet end on p and on q.
Ends == {"OK", "ERROR", "memset"}
Outcomes(p, q, n) ==
    {s \in Ends : n > 0 => /\ made[p][n].status \in {"pending", s}
                           /\ made[q][n].status \in {"pending", s}}

\* The calls of q after the first n that entered a barrier, if none of them
\* has passed it.
Barriers(q, n) == {k \in n + 1 .. Len(made[q]) : made[q][k].status # "OK"}

\* Call k of q has changed nothing, or will not if it fails.
IdleCall(q, k) ==
    /\ PtrAfter(q, k, "ERROR") = {}
    /\ made[q][k].status = "OK" =>
         \/ calls[k].op = "free"
         \/ calls[k].op = "calloc" /\ ~Admissible(calls[k].size)

Agree(p, s, q, t) ==
    /\ HeapAfter(p, s) = HeapAfter(q, t)
    /\ \A k \in DOMAIN made[p] : PtrAfter(p, k, s) = PtrAfter(q, k, t)

\* q is at the call p is at, or ahead.
InStep(p, q) ==
    LET n == Len(made[p]) IN
    /\ entered[q] = entered[p] + Cardinality(Barriers(q, n))
    /\ \A k \in n + 1 .. Len(made[q]) : IdleCall(q, k)
    /\ \A s \in Outcomes(p, q, n) :
         Agree(p, s, q, IF Len(made[q]) = n THEN s ELSE "ERROR")

SyncInv == \A p, q \in PEs : p # q /\ Len(made[p]) <= Len(made[q]) => InStep(p, q)

UInv == HInv /\ (\A p \in PEs : OpenAt(p)) /\ (Uniform => SyncInv)

\* Giving back what allocate has just taken restores the heap: the rest is
\* joined again and nothing else, as idle neighbours were merged before.
LEMMA ReleaseCarve ==
    ASSUME NEW h, Good(h), NEW n \in Nat \ {0},
           NEW t \in h.bySize, t.size >= AlignUp(n)
    PROVE  ReleaseAt(Carve(h, t, n), t.offset) = h
<1> DEFINE al == AlignUp(n)
           rest == MemRange(t.offset + al, t.size - al)
           blk == MemRange(t.offset, al)
           g == Carve(h, t, n)
           rests == IF t.size > al THEN {rest} ELSE {}
<1>1. al \in Nat \ {0}
  BY AlignUpPositive
<1>2. h \in Heaps /\ HeapSound(h) /\ HeapWhole(h) /\ Good(g)
  BY CarveGood DEF Good
<1>3. /\ t \in h.idle /\ t \in Ranges /\ t \notin h.used
      /\ h = [idle |-> h.idle, bySize |-> h.idle, used |-> h.used]
  BY <1>2 DEF HeapSound, Heaps
<1>4. /\ At(h.idle, t.offset) = {t}
      /\ \A u \in h.used : u.offset # t.offset
  BY <1>2, <1>3, IdleEntry
<1>5. /\ blk.offset = t.offset /\ End(blk) = t.offset + al
      /\ rest.offset = t.offset + al /\ rest.size = t.size - al
  BY DEF MemRange, End
<1>6. \A a \in h.idle : a # t => a.offset # t.offset + al
  <2> SUFFICES ASSUME NEW a \in h.idle, a # t, a.offset = t.offset + al
               PROVE  FALSE
    OBVIOUS
  <2>1. a \in Ranges /\ Disjoint(a, t) /\ End(t) # a.offset
    BY <1>2, <1>3 DEF HeapSound, HeapWhole, Heaps, Blocks
  <2> QED BY <1>1, <1>3, <2>1 DEF Disjoint, End, Ranges
<1>7. /\ g.idle = (h.idle \ {t}) \cup rests /\ g.bySize = g.idle
      /\ g.used = h.used \cup {blk} /\ blk \notin h.used
      /\ h.idle \cap rests = {}
  <2>1. rest \notin h.idle
    BY <1>1, <1>3, <1>5, <1>6 DEF Ranges
  <2>2. g.idle = (h.idle \ {t}) \cup rests
    BY <1>4, <1>5, <1>6 DEF Carve, Emplace
  <2>3. g.used = h.used \cup {blk}
    BY <1>4, <1>5 DEF Carve, Emplace
  <2> QED BY <1>2, <1>4, <1>5, <2>1, <2>2, <2>3 DEF Good, HeapSound
<1> HIDE DEF g
<1>8. At(g.used, t.offset) = {blk}
  BY <1>4, <1>5, <1>7 DEF At
<1>9. ReleaseAt(g, t.offset) = Release(g, blk)
  <2>1. (CHOOSE u \in {blk} : TRUE) = blk
    OBVIOUS
  <2> QED BY <1>8, <2>1 DEF ReleaseAt
<1>10. PrevRange(g, blk.offset) = {}
  <2>1. PrevRange(g, blk.offset) = {q \in g.idle : End(q) = blk.offset}
    BY <1>2, <1>7, PrevRangeIs
  <2>2. \A q \in h.idle : End(q) # t.offset
    BY <1>2, <1>3 DEF HeapWhole
  <2>3. \A q \in rests : End(q) # t.offset
    BY <1>1, <1>3, <1>5 DEF End, Ranges
  <2> QED BY <1>5, <1>7, <2>1, <2>2, <2>3
<1>11. NextRange(g, blk) = rests
  BY <1>5, <1>6, <1>7 DEF NextRange, At
<1>12. Joined(blk, {}, rests) = t
  <2>1. t = MemRange(t.offset, t.size) /\ t.offset \in Nat /\ t.size \in Nat
    BY <1>3 DEF Ranges, MemRange
  <2>2. Joined(blk, {}, {}) = MemRange(blk.offset, (End(blk) - blk.offset) + 0)
    <3> HIDE DEF blk
    <3> QED BY DEF Joined
  <2>3. Joined(blk, {}, {rest}) =
          MemRange(blk.offset, (End(blk) - blk.offset) + rest.size)
    <3> HIDE DEF blk, rest
    <3>1. (CHOOSE q \in {rest} : TRUE) = rest
      OBVIOUS
    <3> QED BY <3>1 DEF Joined
  <2>4. CASE t.size > al
    <3>1. (End(blk) - blk.offset) + rest.size = t.size /\ blk.offset = t.offset
      BY <1>1, <1>5, <2>1
    <3>2. Joined(blk, {}, {rest}) = t
      BY <2>1, <2>3, <3>1, Zenon
    <3>3. rests = {rest}
      BY <2>4
    <3> QED BY <3>2, <3>3, Zenon
  <2>5. CASE ~(t.size > al)
    <3>1. (End(blk) - blk.offset) + 0 = t.size /\ blk.offset = t.offset
      BY <1>1, <1>5, <2>1, <2>5
    <3>2. Joined(blk, {}, {}) = t
      BY <2>1, <2>2, <3>1, Zenon
    <3>3. rests = {}
      BY <2>5
    <3> QED BY <3>2, <3>3, Zenon
  <2> QED BY <2>4, <2>5
<1>13. Emplace(g.idle \ rests, t) = h.idle
  BY <1>3, <1>4, <1>7 DEF Emplace, At
<1>14. Release(g, blk) = [idle |-> h.idle, bySize |-> h.idle, used |-> h.used]
  <2>1. Release(g, blk) = [idle |-> Emplace(g.idle \ rests, t),
                           bySize |-> (g.bySize \ rests) \cup {t},
                           used |-> g.used \ {blk}]
    BY <1>10, <1>11, <1>12 DEF Release
  <2>2. (g.bySize \ rests) \cup {t} = h.idle /\ g.used \ {blk} = h.used
    BY <1>3, <1>7
  <2> QED BY <1>13, <2>1, <2>2
<1> QED BY <1>3, <1>9, <1>14 DEF g

\* What allocate takes is the same for the same heap.
LEMMA AllocateOne ==
    ASSUME NEW h, Good(h), NEW n \in Nat,
           NEW r \in Allocate(h, n), NEW x \in Allocate(h, n)
    PROVE  x = r
<1>1. \A a, b \in BestFit(h, n) : a = b
  <2> SUFFICES ASSUME NEW a \in BestFit(h, n), NEW b \in BestFit(h, n)
               PROVE  a = b
    OBVIOUS
  <2>1. a \in Ranges /\ b \in Ranges
    BY DEF BestFit, Fits, Good, Heaps
  <2>2. SizeFirst(a, b) /\ SizeFirst(b, a)
    BY DEF BestFit
  <2> QED BY <2>1, <2>2 DEF SizeFirst, Ranges
<1> QED BY <1>1 DEF Allocate

\* Giving back the block allocate returned restores the heap.
LEMMA AllocateUndone ==
    ASSUME NEW h, Good(h), NEW n \in Nat, NEW r \in Allocate(h, n),
           NEW o \in r.got
    PROVE  ReleaseAt(r.heap, o) = h
<1>1. Admissible(n) /\ \E t \in BestFit(h, n) :
          r = [heap |-> Carve(h, t, n), got |-> {t.offset}]
  BY DEF Allocate
<1>2. PICK t \in BestFit(h, n) :
          r = [heap |-> Carve(h, t, n), got |-> {t.offset}]
  BY <1>1
<1>3. t \in h.bySize /\ t.size >= AlignUp(n) /\ n \in Nat \ {0}
  BY <1>1 DEF BestFit, Fits, Admissible
<1>4. o = t.offset /\ r.heap = Carve(h, t, n)
  BY <1>2
<1> QED BY <1>3, <1>4, ReleaseCarve

-----------------------------------------------------------------------------
(* The steps, as far as other PEs can tell. *)

\* p begins call c, and is left with this pointer and this status: a call
\* that allocates, a calloc that could not clear or is refused, a free of
\* null, a free.
NewCall(p, c, ptr, s) ==
    /\ Recorded(p, c, ptr, s) /\ Outside(p) /\ ~Pending(p)
    /\ c.op = "free" => c.of \in DOMAIN made[p]
    /\ entered'[p] = entered[p] + (IF s = "OK" THEN 0 ELSE 1)
    /\ \A q \in PEs \ {p} : entered'[q] = entered[q] /\ heap'[q] = heap[q]
    /\ \/ /\ s = "pending" /\ c.op # "free" /\ c.size \in Nat
          /\ [heap |-> heap'[p], got |-> ptr] \in Allocate(heap[p], c.size)
          /\ c.op = "calloc" => Admissible(c.size)
       \/ /\ s # "pending" /\ ptr = {} /\ heap'[p] = heap[p]
          /\ c.op = "calloc" /\ s \in {"memset", "OK"}
          /\ s = "memset" <=> Admissible(c.size)
       \/ /\ ptr = {} /\ heap'[p] = heap[p] /\ c.op = "free"
          /\ s = IF made[p][c.of].ptr = {} THEN "OK" ELSE "pending"

\* The call of p ends with s.
Returned(p, s) ==
    /\ UNCHANGED <<calls, entered>> /\ s \in Ends
    /\ Len(made'[p]) = Len(made[p]) /\ made'[p] \in Seq(Made) /\ made[p] # <<>>
    /\ \A q \in PEs \ {p} : made'[q] = made[q] /\ heap'[q] = heap[q]
    /\ heap'[p] = HeapAfter(p, s)
    /\ \A k \in DOMAIN made[p] :
         /\ made'[p][k].ptr = PtrAfter(p, k, s)
         /\ made'[p][k].status = IF k = Current(p) THEN s ELSE made[p][k].status
    /\ made[p][Current(p)].status \in {"pending", s} \ {"OK"}
    /\ s = "OK" => \A q \in PEs : entered[q] >= entered[p]

\* The four ways a call ends are returns in this sense.
LEMMA ReturnedStep ==
    ASSUME UInv, NEW p \in PEs,
           \/ AllocatorReturns(p) \/ AllocatorFails(p)
           \/ FreeReturns(p) \/ FreeFails(p)
    PROVE  \E s \in Ends : Returned(p, s)
<1>1. /\ TypeOK /\ CallInv /\ MadeAt(p) /\ OpenAt(p)
  BY DEF UInv, HInv
<1>2. /\ ~Outside(p)
      /\ UNCHANGED <<calls, entered>>
  BY DEF AllocatorReturns, AllocatorFails, FreeReturns, FreeFails, Pass, Fail,
         Leave
<1>3. PICK n \in Nat : n = Current(p)
  BY <1>1 DEF TypeOK, Current
<1>4. /\ made[p] \in Seq(Made) /\ DOMAIN made[p] = 1 .. n /\ n > 0
      /\ made[p] # <<>> /\ n \in DOMAIN made[p] /\ n = Len(made[p])
      /\ made[p][n].status \in {"pending", "memset"}
  BY <1>1, <1>2, <1>3 DEF TypeOK, MadeAt, Current
<1>5. \A k \in DOMAIN made[p] : made[p][k].ptr \in SUBSET Nat
  <2>1. \A k \in DOMAIN made[p] : made[p][k] \in Made
    BY <1>4
  <2> QED BY <2>1 DEF Made
<1>6. Pending(p) <=> made[p][n].status = "pending"
  BY <1>3, <1>4 DEF Pending
<1>7. PICK st \in {"pending", "memset"} : st = made[p][n].status
  BY <1>4
<1>8. CASE AllocatorReturns(p)
  <2>1. /\ made' = Settle(p, n, made[p][n].ptr, "OK") /\ UNCHANGED heap
        /\ \A q \in PEs : entered[q] >= entered[p]
        /\ calls[n].op # "free"
    BY <1>3, <1>8 DEF AllocatorReturns, Pass, Allocators
  <2>2. AfterSettle(p, n, made[p][n].ptr, "OK")
    BY <1>1, <1>4, <1>5, <2>1, SettleIs
  <2> DEFINE s == IF st = "pending" THEN "OK" ELSE "memset"
  <2>3. GivesUp(p, s) = {}
    BY <1>3, <1>6, <1>7, <2>1 DEF GivesUp
  <2>4. HeapAfter(p, s) = heap[p]
        /\ \A k \in DOMAIN made[p] : PtrAfter(p, k, s) = made[p][k].ptr
    BY <2>3 DEF HeapAfter, Gone, PtrAfter
  <2>5. s \in Ends /\ made[p][n].status \in {"pending", s}
        /\ \A k \in DOMAIN made[p] :
             /\ made'[p][k].ptr = made[p][k].ptr
             /\ made'[p][k].status = IF k = n THEN s ELSE made[p][k].status
    BY <1>1, <1>3, <1>4, <1>7, <2>2 DEF AfterSettle, Settled, Ends, MadeAt
  <2> HIDE DEF s
  <2>6. Returned(p, s)
    BY <1>2, <1>3, <1>4, <2>1, <2>2, <2>4, <2>5 DEF Returned, AfterSettle
  <2> QED BY <2>5, <2>6
<1>9. CASE AllocatorFails(p)
  <2> DEFINE o == CHOOSE x \in made[p][n].ptr : TRUE
             s == IF st = "pending" THEN "ERROR" ELSE "memset"
  <2>1. /\ made' = Settle(p, n, {}, "ERROR")
        /\ calls[n].op # "free"
        /\ heap' = [heap EXCEPT ![p] = IF made[p][n].ptr = {} THEN heap[p]
                                       ELSE ReleaseAt(heap[p], o)]
    BY <1>3, <1>9 DEF AllocatorFails, Allocators
  <2>2. AfterSettle(p, n, {}, "ERROR")
    BY <1>1, <1>4, <2>1, SettleIs
  <2>3. /\ \A q \in PEs \ {p} : heap'[q] = heap[q]
        /\ heap'[p] = IF made[p][n].ptr = {} THEN heap[p]
                      ELSE ReleaseAt(heap[p], o)
    BY <1>1, <2>1 DEF TypeOK
  <2>4. GivesUp(p, s) = IF st = "pending" THEN {n} ELSE {}
    BY <1>3, <1>6, <1>7, <2>1 DEF GivesUp
  <2>5. st = "memset" => made[p][n].ptr = {}
    BY <1>1, <1>4, <1>7 DEF OpenAt
  <2>6. Gone(p, s) = made[p][n].ptr
    BY <2>4, <2>5 DEF Gone
  <2>7. /\ heap'[p] = HeapAfter(p, s)
        /\ \A k \in DOMAIN made[p] :
             PtrAfter(p, k, s) = IF k = n THEN {} ELSE made[p][k].ptr
    BY <2>3, <2>4, <2>5, <2>6 DEF HeapAfter, PtrAfter
  <2>8. s \in Ends /\ made[p][n].status \in {"pending", s} /\ s # "OK"
        /\ \A k \in DOMAIN made[p] :
             /\ made'[p][k].ptr = IF k = n THEN {} ELSE made[p][k].ptr
             /\ made'[p][k].status = IF k = n THEN s ELSE made[p][k].status
    BY <1>3, <1>4, <1>7, <2>2 DEF AfterSettle, Settled, Ends
  <2> HIDE DEF s
  <2>9. Returned(p, s)
    BY <1>2, <1>3, <1>4, <2>2, <2>3, <2>7, <2>8 DEF Returned, AfterSettle
  <2> QED BY <2>8, <2>9
<1>10. CASE FreeReturns(p)
  <2>1. PICK k : k = calls[n].of
    OBVIOUS
  <2>2. PICK o \in made[p][k].ptr :
            /\ heap' = [heap EXCEPT ![p] = ReleaseAt(heap[p], o)]
            /\ made' = Settle(p, k, {}, "OK")
            /\ \A q \in PEs : entered[q] >= entered[p]
            /\ calls[n].op = "free"
    BY <1>3, <1>10, <2>1 DEF FreeReturns, Pass
  <2>3. n \in DOMAIN calls /\ k \in 1 .. n - 1
    BY <1>1, <1>4, <2>1, <2>2 DEF CallInv, TypeOK
  <2>4. k \in DOMAIN made[p] /\ {} \in SUBSET Nat
    BY <1>4, <2>3
  <2>5. AfterSettle(p, k, {}, "OK")
    BY <1>1, <1>4, <2>2, <2>4, SettleIs
  <2>6. st = "pending"
    BY <1>1, <1>4, <1>7, <2>2 DEF MadeAt, PointerAt
  <2>7. GivesUp(p, "OK") = {k}
    BY <1>3, <1>6, <1>7, <2>1, <2>2, <2>6 DEF GivesUp
  <2>8. Gone(p, "OK") = {o}
    BY <1>1, <2>2, <2>4, <2>7 DEF Gone, MadeAt, PointerAt
  <2>9. HeapAfter(p, "OK") = ReleaseAt(heap[p], o)
    <3>1. (CHOOSE x \in {o} : TRUE) = o
      OBVIOUS
    <3> QED BY <2>8, <3>1 DEF HeapAfter
  <2>10. \A j \in DOMAIN made[p] :
            /\ made'[p][j].ptr = PtrAfter(p, j, "OK")
            /\ made'[p][j].status = IF j = n THEN "OK" ELSE made[p][j].status
    BY <1>3, <1>7, <2>5, <2>6, <2>7 DEF AfterSettle, Settled, PtrAfter
  <2>11. /\ \A q \in PEs \ {p} : heap'[q] = heap[q]
         /\ heap'[p] = ReleaseAt(heap[p], o)
    BY <1>1, <2>2 DEF TypeOK
  <2>12. Returned(p, "OK")
    BY <1>2, <1>3, <1>4, <1>7, <2>2, <2>5, <2>6, <2>9, <2>10, <2>11
       DEF Returned, AfterSettle, Ends
  <2> QED BY <2>12 DEF Ends
<1>11. CASE FreeFails(p)
  <2>1. /\ made' = [made EXCEPT ![p][n].status = "ERROR"]
        /\ calls[n].op = "free" /\ UNCHANGED heap
    BY <1>3, <1>11 DEF FreeFails
  <2>2. st = "pending"
    BY <1>1, <1>4, <1>7, <2>1 DEF MadeAt, PointerAt
  <2>3. PICK e : e = [made[p][n] EXCEPT !.status = "ERROR"]
    OBVIOUS
  <2>4. /\ e \in Made /\ e.ptr = made[p][n].ptr /\ e.status = "ERROR"
        /\ made' = [made EXCEPT ![p] = [made[p] EXCEPT ![n] = e]]
    <3>1. made[p][n] \in Made
      BY <1>4
    <3> QED BY <2>1, <2>3, <3>1 DEF Made
  <2>5. /\ \A q \in PEs \ {p} : made'[q] = made[q]
        /\ made'[p] = [made[p] EXCEPT ![n] = e]
    BY <1>1, <1>4, <2>4 DEF TypeOK
  <2>6. /\ made'[p] \in Seq(Made) /\ Len(made'[p]) = Len(made[p])
        /\ \A j \in DOMAIN made[p] : made'[p][j] = IF j = n THEN e ELSE made[p][j]
    BY <1>4, <2>4, <2>5
  <2>7. GivesUp(p, "ERROR") = {}
    BY <1>3, <2>1 DEF GivesUp
  <2>8. /\ HeapAfter(p, "ERROR") = heap[p]
        /\ \A k \in DOMAIN made[p] : PtrAfter(p, k, "ERROR") = made[p][k].ptr
    BY <2>7 DEF HeapAfter, Gone, PtrAfter
  <2>9. Returned(p, "ERROR")
    BY <1>2, <1>3, <1>4, <1>7, <2>1, <2>2, <2>4, <2>5, <2>6, <2>8
       DEF Returned, Ends
  <2> QED BY <2>9 DEF Ends
<1> QED BY <1>8, <1>9, <1>10, <1>11

\* A PE that is outside its barriers has no open call.
LEMMA OutsideSettled ==
    ASSUME HInv, NEW p \in PEs, Outside(p)
    PROVE  /\ ~Pending(p)
           /\ \A s : /\ GivesUp(p, s) = {} /\ HeapAfter(p, s) = heap[p]
                     /\ \A k : PtrAfter(p, k, s) = made[p][k].ptr
<1>1. made[p] \in Seq(Made) /\ MadeAt(p)
  BY DEF HInv, TypeOK
<1>2. ~Pending(p)
  <2> SUFFICES ASSUME made[p] # <<>> PROVE made[p][Current(p)].status # "pending"
    BY DEF Pending
  <2>1. Current(p) \in DOMAIN made[p]
    BY <1>1 DEF Current
  <2> QED BY <1>1, <2>1 DEF MadeAt
<1>3. \A s : GivesUp(p, s) = {}
  BY <1>2 DEF GivesUp
<1> QED BY <1>2, <1>3 DEF HeapAfter, Gone, PtrAfter

\* The six ways a call begins are new calls in this sense.
LEMMA NewCallStep ==
    ASSUME UInv, NEW p \in PEs,
           \/ Malloc(p) \/ CallocRefused(p) \/ Calloc(p) \/ CallocUncleared(p)
           \/ FreeNull(p) \/ Free(p)
    PROVE  \E c, ptr, s : NewCall(p, c, ptr, s)
<1>1. /\ HInv /\ TypeOK /\ CallInv /\ MadeAt(p) /\ Good(heap[p])
  BY DEF UInv, HInv, AllGood
<1>2. made[p] \in Seq(Made) /\ DOMAIN made[p] = 1 .. Len(made[p])
  BY <1>1 DEF TypeOK
<1>3. Outside(p) /\ ~Pending(p)
  <2>1. Outside(p)
    BY DEF Malloc, CallocRefused, Calloc, CallocUncleared, FreeNull, Free, Make
  <2> QED BY <1>1, <2>1, OutsideSettled
<1>4. ASSUME Enter(p) PROVE /\ entered'[p] = entered[p] + 1
                            /\ \A q \in PEs \ {p} : entered'[q] = entered[q]
  BY <1>1, <1>4 DEF Enter, TypeOK
<1>5. \A op, n : AllocatorCall(op, n, 1).op = op /\ AllocatorCall(op, n, 1).size = n
  BY DEF AllocatorCall
<1>6. ASSUME NEW op \in {"malloc", "calloc"}, NEW n \in Sizes,
             NEW r \in Allocate(heap[p], n), Enter(p),
             Make(p, AllocatorCall(op, n, 1), r.got, "pending"),
             op = "calloc" => Admissible(n),
             heap' = [heap EXCEPT ![p] = r.heap]
      PROVE  NewCall(p, AllocatorCall(op, n, 1), r.got, "pending")
  <2> DEFINE c == AllocatorCall(op, n, 1)
  <2>1. c \in Call /\ Sensible(p, c)
    BY DEF AllocatorCall, Call, Allocators, Sensible
  <2>2. n \in Nat /\ [ptr |-> r.got, status |-> "pending"] \in Made
    <3>1. n \in Nat
      BY CallAssumption
    <3>2. r.got \in SUBSET Nat
      BY <1>1, <3>1, AllocateIs
    <3> QED BY <3>1, <3>2 DEF Made
  <2>3. Recorded(p, c, r.got, "pending")
    BY <1>1, <1>6, <2>1, <2>2, MakeIs
  <2>4. heap'[p] = r.heap /\ \A q \in PEs \ {p} : heap'[q] = heap[q]
    BY <1>1, <1>6 DEF TypeOK
  <2>5. r = [heap |-> r.heap, got |-> r.got]
    BY DEF Allocate
  <2>6. c.op = op /\ c.size = n /\ op # "free"
    BY <1>5
  <2> HIDE DEF c
  <2> QED BY <1>3, <1>4, <1>6, <2>2, <2>3, <2>4, <2>5, <2>6 DEF NewCall, c
<1>7. CASE Malloc(p)
  <2>1. PICK n \in Sizes : \E r \in Allocate(heap[p], n) :
            /\ Make(p, AllocatorCall("malloc", n, 1), r.got, "pending")
            /\ heap' = [heap EXCEPT ![p] = r.heap] /\ Enter(p)
    BY <1>7 DEF Malloc
  <2> QED BY <1>6, <2>1
<1>8. CASE Calloc(p)
  <2>1. PICK n \in Sizes : \E r \in Allocate(heap[p], n) :
            /\ Make(p, AllocatorCall("calloc", n, 1), r.got, "pending")
            /\ heap' = [heap EXCEPT ![p] = r.heap] /\ Enter(p) /\ Admissible(n)
    BY <1>8 DEF Calloc
  <2> QED BY <1>6, <2>1
<1>9. ASSUME NEW n \in Sizes, NEW s \in {"memset", "OK"},
             Make(p, AllocatorCall("calloc", n, 1), {}, s),
             heap'[p] = heap[p], \A q \in PEs \ {p} : heap'[q] = heap[q],
             IF Admissible(n) THEN s = "memset" /\ Enter(p)
             ELSE s = "OK" /\ UNCHANGED barrierVars
      PROVE  NewCall(p, AllocatorCall("calloc", n, 1), {}, s)
  <2> DEFINE c == AllocatorCall("calloc", n, 1)
  <2>1. c \in Call /\ Sensible(p, c) /\ [ptr |-> {}, status |-> s] \in Made
    BY DEF AllocatorCall, Call, Allocators, Sensible, Made
  <2>2. Recorded(p, c, {}, s)
    BY <1>1, <1>9, <2>1, MakeIs
  <2>3. c.op = "calloc" /\ c.size = n
    BY <1>5
  <2>4. /\ entered'[p] = entered[p] + (IF s = "OK" THEN 0 ELSE 1)
        /\ \A q \in PEs \ {p} : entered'[q] = entered[q]
    BY <1>1, <1>4, <1>9 DEF barrierVars, TypeOK
  <2> HIDE DEF c
  <2> QED BY <1>3, <1>9, <2>2, <2>3, <2>4 DEF NewCall, c
<1>10. CASE CallocRefused(p)
  <2>1. PICK n \in Sizes :
            /\ ~Admissible(n) /\ UNCHANGED <<heap, barrierVars>>
            /\ Make(p, AllocatorCall("calloc", n, 1), {}, "OK")
    BY <1>10 DEF CallocRefused
  <2> QED BY <1>9, <2>1
<1>11. CASE CallocUncleared(p)
  <2>1. PICK n \in Sizes :
            /\ Admissible(n) /\ Enter(p)
            /\ Make(p, AllocatorCall("calloc", n, 1), {}, "memset")
            /\ \E r \in Allocate(heap[p], n) : \E o \in r.got :
                 heap' = [heap EXCEPT ![p] = ReleaseAt(r.heap, o)]
    BY <1>11 DEF CallocUncleared
  <2>2. \A r \in Allocate(heap[p], n) : \A o \in r.got :
            ReleaseAt(r.heap, o) = heap[p]
    BY <1>1, AllocateUndone, CallAssumption
  <2>3. heap'[p] = heap[p] /\ \A q \in PEs \ {p} : heap'[q] = heap[q]
    BY <1>1, <2>1, <2>2 DEF TypeOK
  <2> QED BY <1>9, <2>1, <2>3
<1>12. ASSUME NEW k \in DOMAIN made[p], MayFree(p, k), NEW s,
              s = IF made[p][k].ptr = {} THEN "OK" ELSE "pending",
              Make(p, FreeCall(k), {}, s), UNCHANGED heap,
              IF s = "OK" THEN UNCHANGED barrierVars ELSE Enter(p)
       PROVE  NewCall(p, FreeCall(k), {}, s)
  <2>1. k \in 1 .. MaxCalls
    <3>1. /\ Len(made[p]) \in Nat /\ MaxCalls \in Nat /\ k \in 1 .. Len(made[p])
          /\ Len(made[p]) < MaxCalls
      BY <1>2, <1>12, CallAssumption DEF Make
    <3> QED BY <3>1
  <2>2. /\ FreeCall(k) \in Call /\ Sensible(p, FreeCall(k))
        /\ [ptr |-> {}, status |-> s] \in Made
        /\ FreeCall(k).op = "free" /\ FreeCall(k).of = k
    BY <1>12, <2>1 DEF FreeCall, Call, Sensible, MayFree, Made
  <2>3. Recorded(p, FreeCall(k), {}, s)
    BY <1>1, <1>12, <2>2, MakeIs
  <2>4. /\ entered'[p] = entered[p] + (IF s = "OK" THEN 0 ELSE 1)
        /\ \A q \in PEs \ {p} : entered'[q] = entered[q]
    BY <1>1, <1>4, <1>12 DEF barrierVars, TypeOK
  <2> QED BY <1>3, <1>12, <2>2, <2>3, <2>4 DEF NewCall
<1>13. CASE FreeNull(p)
  <2>1. PICK k \in DOMAIN made[p] :
            /\ MayFree(p, k) /\ made[p][k].ptr = {}
            /\ Make(p, FreeCall(k), {}, "OK") /\ UNCHANGED <<heap, barrierVars>>
    BY <1>13 DEF FreeNull
  <2> QED BY <1>12, <2>1
<1>14. CASE Free(p)
  <2>1. PICK k \in DOMAIN made[p] :
            /\ MayFree(p, k) /\ made[p][k].ptr # {}
            /\ Make(p, FreeCall(k), {}, "pending") /\ UNCHANGED heap /\ Enter(p)
    BY <1>14 DEF Free
  <2> QED BY <1>12, <2>1
<1> QED BY <1>7, <1>8, <1>10, <1>11, <1>13, <1>14

\* A step of p leaves what is known of another PE as it is.
LEMMA OthersFrozen ==
    ASSUME HInv, NEW q \in PEs, heap'[q] = heap[q], made'[q] = made[q],
           \A k \in DOMAIN calls : calls'[k] = calls[k]
    PROVE  /\ Pending(q)' <=> Pending(q)
           /\ \A s : /\ GivesUp(q, s)' = GivesUp(q, s)
                     /\ HeapAfter(q, s)' = HeapAfter(q, s)
                     /\ \A k : PtrAfter(q, k, s)' = PtrAfter(q, k, s)
           /\ \A k \in DOMAIN made[q] : IdleCall(q, k)' <=> IdleCall(q, k)
           /\ \A n : Barriers(q, n)' = Barriers(q, n)
           /\ OpenAt(q) => OpenAt(q)'
<1>1. /\ made[q] \in Seq(Made) /\ calls \in Seq(Call) /\ Len(made[q]) <= Len(calls)
      /\ CallInv
  BY DEF HInv, TypeOK, CallInv
<1>2. \A k \in DOMAIN made[q] : k \in DOMAIN calls /\ calls'[k] = calls[k]
  BY <1>1
<1>3. Pending(q)' <=> Pending(q)
  BY DEF Pending, Current
<1>4. Pending(q) => Current(q) \in DOMAIN made[q] /\ Current(q)' = Current(q)
  BY <1>1 DEF Pending, Current
<1>5. \A s : GivesUp(q, s)' = GivesUp(q, s)
  BY <1>2, <1>3, <1>4 DEF GivesUp
<1>6. \A s : \A k : PtrAfter(q, k, s)' = PtrAfter(q, k, s)
  BY <1>5 DEF PtrAfter
<1>7. \A s : HeapAfter(q, s)' = HeapAfter(q, s)
  <2> SUFFICES ASSUME NEW s PROVE HeapAfter(q, s)' = HeapAfter(q, s)
    OBVIOUS
  <2>1. Gone(q, s)' = UNION {made[q][k].ptr : k \in GivesUp(q, s)'}
    BY DEF Gone
  <2>2. Gone(q, s)' = Gone(q, s)
    BY <1>5, <2>1 DEF Gone
  <2> QED BY <2>2 DEF HeapAfter
<1>8. \A k \in DOMAIN made[q] : IdleCall(q, k)' <=> IdleCall(q, k)
  BY <1>2, <1>6 DEF IdleCall
<1>9. \A n : Barriers(q, n)' = Barriers(q, n)
  BY DEF Barriers
<1>10. OpenAt(q) => OpenAt(q)'
  BY <1>2, <1>3, <1>4, <1>7 DEF OpenAt
<1> QED BY <1>3, <1>5, <1>6, <1>7, <1>8, <1>9, <1>10

\* If the call p has made after its first n does not end well, everything is
\* as it was before.
Undone(p, n) ==
    \A t : t # "OK" => /\ HeapAfter(p, t)' = heap[p]
                       /\ PtrAfter(p, n + 1, t)' = {}
                       /\ \A k \in 1 .. n : PtrAfter(p, k, t)' = made[p][k].ptr

\* What a new call of p leaves open.
LEMMA NewCallOpen ==
    ASSUME UInv, NEW p \in PEs, NEW c, NEW ptr, NEW s, NewCall(p, c, ptr, s),
           NEW n \in Nat, n = Len(made[p])
    PROVE  /\ DOMAIN made[p] = 1 .. n /\ DOMAIN made'[p] = 1 .. n + 1
           /\ n <= Len(calls) /\ calls \in Seq(Call)
           /\ Pending(p)' <=> s = "pending"
           /\ Undone(p, n) /\ OpenAt(p)'
<1>1. /\ HInv /\ TypeOK /\ CallInv /\ MadeAt(p) /\ OpenAt(p) /\ Good(heap[p])
  BY DEF UInv, HInv, AllGood
<1>2. Recorded(p, c, ptr, s) /\ Outside(p)
  BY DEF NewCall
<1>3. /\ made[p] \in Seq(Made) /\ made'[p] \in Seq(Made)
      /\ DOMAIN made[p] = 1 .. n /\ DOMAIN made'[p] = 1 .. n + 1
      /\ made'[p] # <<>> /\ calls \in Seq(Call) /\ n <= Len(calls)
      /\ Len(made'[p]) = n + 1
  BY <1>1, <1>2 DEF TypeOK, Recorded, CallInv
<1>4. /\ \A k \in 1 .. n : made'[p][k] = made[p][k] /\ calls'[k] = calls[k]
      /\ made'[p][n + 1].ptr = ptr /\ made'[p][n + 1].status = s
      /\ calls'[n + 1] = c /\ Current(p)' = n + 1
  <2>1. \A k \in 1 .. n : k \in DOMAIN calls /\ k \in DOMAIN made[p]
    BY <1>3
  <2>2. /\ \A k \in DOMAIN calls : calls'[k] = calls[k]
        /\ \A k \in DOMAIN made[p] : made'[p][k] = made[p][k]
        /\ made'[p][n + 1] = [ptr |-> ptr, status |-> s] /\ calls'[n + 1] = c
    BY <1>2, Zenon DEF Recorded
  <2>3. made'[p][n + 1].ptr = ptr /\ made'[p][n + 1].status = s
    BY <2>2
  <2>4. Current(p)' = n + 1
    BY <1>3 DEF Current
  <2> QED BY <2>1, <2>2, <2>3, <2>4, Zenon
<1>5. Pending(p)' <=> s = "pending"
  BY <1>3, <1>4 DEF Pending
<1>6. \A t : t # "OK" =>
        GivesUp(p, t)' = IF s = "pending" /\ c.op # "free" THEN {n + 1} ELSE {}
  BY <1>4, <1>5 DEF GivesUp
<1>7. (s = "pending" /\ c.op # "free") \/ (ptr = {} /\ heap'[p] = heap[p])
  BY DEF NewCall
<1>8. \A t : t # "OK" => HeapAfter(p, t)' = heap[p]
  <2> SUFFICES ASSUME NEW t, t # "OK" PROVE HeapAfter(p, t)' = heap[p]
    OBVIOUS
  <2>1. CASE s = "pending" /\ c.op # "free"
    <3>1. PICK r : r = [heap |-> heap'[p], got |-> ptr]
      OBVIOUS
    <3>2. c.size \in Nat /\ r \in Allocate(heap[p], c.size)
      BY <2>1, <3>1 DEF NewCall
    <3>3. r.heap = heap'[p] /\ r.got = ptr
      BY <3>1
    <3>4. Gone(p, t)' = UNION {made'[p][k].ptr : k \in {n + 1}}
      BY <1>6, <2>1 DEF Gone
    <3>5. Gone(p, t)' = ptr
      BY <1>4, <3>4
    <3>6. CASE ptr = {}
      <4>1. heap'[p] = heap[p]
        <5>1. (r.got = {} /\ r.heap = heap[p]) \/ (\E o \in Nat : r.got = {o})
          BY <1>1, <3>2, AllocateIs
        <5> QED BY <3>3, <3>6, <5>1
      <4> QED BY <3>5, <3>6, <4>1 DEF HeapAfter
    <3>7. CASE ptr # {}
      <4>1. PICK o : o = CHOOSE x \in ptr : TRUE
        OBVIOUS
      <4>2. o \in r.got
        BY <3>3, <3>7, <4>1
      <4>3. ReleaseAt(heap'[p], o) = heap[p]
        BY <1>1, <3>2, <3>3, <4>2, AllocateUndone
      <4> QED BY <3>5, <3>7, <4>1, <4>3 DEF HeapAfter
    <3> QED BY <3>6, <3>7
  <2>2. CASE ~(s = "pending" /\ c.op # "free")
    <3>1. Gone(p, t)' = UNION {made'[p][k].ptr : k \in {}}
      BY <1>6, <2>2 DEF Gone
    <3>2. Gone(p, t)' = {}
      BY <3>1
    <3> QED BY <1>7, <2>2, <3>2 DEF HeapAfter
  <2> QED BY <2>1, <2>2
<1>9. \A t : t # "OK" => /\ PtrAfter(p, n + 1, t)' = {}
                         /\ \A k \in 1 .. n : PtrAfter(p, k, t)' = made[p][k].ptr
  <2> SUFFICES ASSUME NEW t, t # "OK"
               PROVE  /\ PtrAfter(p, n + 1, t)' = {}
                      /\ \A k \in 1 .. n : PtrAfter(p, k, t)' = made[p][k].ptr
    OBVIOUS
  <2>1. PtrAfter(p, n + 1, t)' = {}
    BY <1>4, <1>6, <1>7 DEF PtrAfter
  <2>2. \A k \in 1 .. n : k # n + 1
    OBVIOUS
  <2> QED BY <1>4, <1>6, <2>1, <2>2 DEF PtrAfter
<1>10. OpenAt(p)'
  <2>1. ASSUME s = "pending", c.op # "free"
        PROVE  /\ [heap |-> heap'[p], got |-> ptr]
                    \in Allocate(HeapAfter(p, "ERROR")', c.size)
               /\ c.op = "calloc" => Admissible(c.size)
    BY <1>8, <2>1 DEF NewCall
  <2>2. ASSUME c.op = "free"
        PROVE  /\ c.of \in 1 .. n /\ made'[p][c.of].ptr = made[p][c.of].ptr
               /\ s = IF made[p][c.of].ptr = {} THEN "OK" ELSE "pending"
    BY <1>3, <1>4, <2>2 DEF NewCall
  <2>3. ASSUME NEW j \in 1 .. n + 1, calls'[j].op = "free", made'[p][j].status = "OK"
        PROVE  made'[p][calls'[j].of].ptr = {}
    <3>1. CASE j = n + 1
      BY <1>4, <2>2, <2>3, <3>1
    <3>2. CASE j # n + 1
      <4>1. j \in 1 .. n /\ j \in DOMAIN made[p] /\ j \in DOMAIN calls
        BY <1>3, <3>2
      <4>2. calls'[j] = calls[j] /\ made'[p][j] = made[p][j]
        BY <1>4, <4>1
      <4>3. calls[j].of \in 1 .. j - 1
        BY <1>1, <2>3, <4>1, <4>2 DEF CallInv
      <4>4. calls[j].of \in 1 .. n
        BY <4>1, <4>3
      <4>5. made[p][calls[j].of].ptr = {}
        BY <1>1, <2>3, <4>1, <4>2 DEF OpenAt
      <4> QED BY <1>4, <4>2, <4>4, <4>5
    <3> QED BY <3>1, <3>2
  <2>4. ASSUME NEW j \in 1 .. n + 1, made'[p][j].status = "memset"
        PROVE  made'[p][j].ptr = {}
    <3>1. CASE j = n + 1
      BY <1>4, <1>7, <2>4, <3>1
    <3>2. CASE j # n + 1
      <4>1. j \in 1 .. n /\ j \in DOMAIN made[p]
        BY <1>3, <3>2
      <4> QED BY <1>1, <1>4, <2>4, <4>1 DEF OpenAt
    <3> QED BY <3>1, <3>2
  <2> QED BY <1>3, <1>4, <1>5, <2>1, <2>2, <2>3, <2>4 DEF OpenAt
<1>11. Undone(p, n)
  BY <1>8, <1>9 DEF Undone
<1> QED BY <1>3, <1>5, <1>10, <1>11

\* What a call of p that has returned leaves: nothing open.
LEMMA ReturnedOpen ==
    ASSUME UInv, NEW p \in PEs, NEW s, Returned(p, s)
    PROVE  /\ DOMAIN made'[p] = DOMAIN made[p] /\ ~Pending(p)'
           /\ \A t : /\ HeapAfter(p, t)' = HeapAfter(p, s)
                     /\ \A k \in DOMAIN made[p] :
                          PtrAfter(p, k, t)' = PtrAfter(p, k, s)
           /\ OpenAt(p)'
<1>1. /\ HInv /\ TypeOK /\ CallInv /\ MadeAt(p) /\ OpenAt(p)
  BY DEF UInv, HInv
<1>2. /\ made[p] \in Seq(Made) /\ made'[p] \in Seq(Made)
      /\ DOMAIN made'[p] = DOMAIN made[p] /\ Current(p)' = Current(p)
      /\ Current(p) \in DOMAIN made[p] /\ Len(made[p]) <= Len(calls)
      /\ DOMAIN made[p] = 1 .. Len(made[p]) /\ calls \in Seq(Call)
      /\ UNCHANGED calls
  BY <1>1 DEF TypeOK, Returned, Current, CallInv
<1>3. ~Pending(p)'
  BY <1>2 DEF Pending, Returned, Ends
<1>4. \A t : GivesUp(p, t)' = {}
  BY <1>3 DEF GivesUp
<1>5. \A t : HeapAfter(p, t)' = HeapAfter(p, s)
  <2> SUFFICES ASSUME NEW t PROVE HeapAfter(p, t)' = HeapAfter(p, s)
    OBVIOUS
  <2>1. Gone(p, t)' = UNION {made'[p][k].ptr : k \in {}}
    BY <1>4 DEF Gone
  <2>2. HeapAfter(p, t)' = heap'[p]
    BY <2>1 DEF HeapAfter
  <2> QED BY <2>2 DEF Returned
<1>6. \A t : \A k \in DOMAIN made[p] : PtrAfter(p, k, t)' = PtrAfter(p, k, s)
  BY <1>4 DEF PtrAfter, Returned
<1>7. OpenAt(p)'
  <2>1. ASSUME NEW k \in DOMAIN made[p], made[p][k].ptr = {}
        PROVE  made'[p][k].ptr = {}
    BY <2>1 DEF Returned, PtrAfter
  <2>2. ASSUME NEW j \in DOMAIN made[p], calls[j].op = "free",
               made'[p][j].status = "OK"
        PROVE  made'[p][calls[j].of].ptr = {}
    <3>1. j \in DOMAIN calls /\ calls[j].of \in 1 .. j - 1
      BY <1>1, <1>2, <2>2 DEF CallInv
    <3>2. calls[j].of \in DOMAIN made[p]
      BY <1>2, <3>1
    <3>3. CASE made[p][j].status = "OK"
      BY <1>1, <2>1, <2>2, <3>2, <3>3 DEF OpenAt
    <3>4. CASE made[p][j].status # "OK"
      <4>1. j = Current(p) /\ s = "OK" /\ made[p][j].status = "pending"
        BY <2>2, <3>4 DEF Returned
      <4>2. Pending(p)
        BY <1>2, <4>1 DEF Pending, Returned
      <4>3. GivesUp(p, s) = {calls[j].of}
        BY <2>2, <4>1, <4>2 DEF GivesUp
      <4> QED BY <3>2, <4>3 DEF Returned, PtrAfter
    <3> QED BY <3>3, <3>4
  <2>3. ASSUME NEW j \in DOMAIN made[p], made'[p][j].status = "memset"
        PROVE  made'[p][j].ptr = {}
    <3>1. CASE made[p][j].status = "memset"
      BY <1>1, <2>1, <3>1 DEF OpenAt
    <3>2. CASE made[p][j].status # "memset"
      <4>1. j = Current(p) /\ s = "memset" /\ made[p][j].status = "pending"
        BY <2>3, <3>2 DEF Returned
      <4>2. Pending(p)
        BY <1>2, <4>1 DEF Pending, Returned
      <4>3. CASE calls[j].op = "free"
        BY <1>1, <2>1, <4>3 DEF MadeAt, PointerAt
      <4>4. CASE calls[j].op # "free"
        <5>1. GivesUp(p, s) = {j}
          BY <4>1, <4>2, <4>4 DEF GivesUp
        <5> QED BY <5>1 DEF Returned, PtrAfter
      <4> QED BY <4>3, <4>4
    <3> QED BY <3>1, <3>2
  <2> QED BY <1>2, <1>3, <2>2, <2>3 DEF OpenAt
<1> QED BY <1>2, <1>3, <1>5, <1>6, <1>7

-----------------------------------------------------------------------------
(* The steps keep PEs comparable. *)

\* A call that fails and one that could not clear leave the same.
LEMMA FailuresAlike ==
    ASSUME NEW q, NEW t, t # "OK"
    PROVE  /\ HeapAfter(q, t) = HeapAfter(q, "ERROR")
           /\ \A k : PtrAfter(q, k, t) = PtrAfter(q, k, "ERROR")
<1>1. GivesUp(q, t) = GivesUp(q, "ERROR")
  BY DEF GivesUp
<1> QED BY <1>1 DEF HeapAfter, Gone, PtrAfter

\* The barriers q has entered beyond call n can be counted.
LEMMA BarriersFinite ==
    ASSUME TypeOK, NEW q \in PEs, NEW n \in Nat
    PROVE  /\ IsFiniteSet(Barriers(q, n)) /\ Cardinality(Barriers(q, n)) \in Nat
           /\ Barriers(q, n) # {} => Cardinality(Barriers(q, n)) >= 1
<1>1. Len(made[q]) \in Int /\ n + 1 \in Int
  BY DEF TypeOK
<1>2. IsFiniteSet(n + 1 .. Len(made[q]))
  BY <1>1, FS_Interval
<1>3. Barriers(q, n) \subseteq n + 1 .. Len(made[q])
  BY DEF Barriers
<1>4. IsFiniteSet(Barriers(q, n))
  BY <1>2, <1>3, FS_Subset
<1>5. Cardinality(Barriers(q, n)) \in Nat
  BY <1>4, FS_CardinalityType
<1>6. Barriers(q, n) # {} => Cardinality(Barriers(q, n)) # 0
  BY <1>4, FS_EmptySet
<1> QED BY <1>4, <1>5, <1>6

\* The calls beyond n, with the next one apart.
LEMMA BarriersNext ==
    ASSUME TypeOK, NEW q \in PEs, NEW n \in Nat, n + 1 \in DOMAIN made[q]
    PROVE  Cardinality(Barriers(q, n)) = Cardinality(Barriers(q, n + 1))
               + (IF made[q][n + 1].status = "OK" THEN 0 ELSE 1)
<1>1. PICK m \in Nat : m = Len(made[q]) /\ n + 1 \in 1 .. m
  BY DEF TypeOK
<1>2. \A k \in Int : k \in n + 1 .. m <=> k = n + 1 \/ k \in n + 1 + 1 .. m
  BY <1>1
<1>3. /\ \A k \in n + 1 .. m : k \in Int
      /\ n + 1 \notin n + 1 + 1 .. m
  BY <1>1
<1>4. Barriers(q, n) = Barriers(q, n + 1)
          \cup (IF made[q][n + 1].status = "OK" THEN {} ELSE {n + 1})
  BY <1>1, <1>2, <1>3 DEF Barriers
<1>5. n + 1 \notin Barriers(q, n + 1) /\ IsFiniteSet(Barriers(q, n + 1))
      /\ Cardinality(Barriers(q, n + 1)) \in Nat
  <2>1. n + 1 \in Nat
    OBVIOUS
  <2>2. n + 1 \notin Barriers(q, n + 1)
    BY <1>1, <1>3 DEF Barriers
  <2> QED BY <2>1, <2>2, BarriersFinite
<1>6. CASE made[q][n + 1].status = "OK"
  BY <1>4, <1>5, <1>6
<1>7. CASE made[q][n + 1].status # "OK"
  <2>1. Barriers(q, n) = Barriers(q, n + 1) \cup {n + 1}
    BY <1>4, <1>7
  <2>2. Cardinality(Barriers(q, n + 1) \cup {n + 1})
          = Cardinality(Barriers(q, n + 1)) + 1
    BY <1>5, FS_AddElement
  <2> QED BY <1>7, <2>1, <2>2
<1> QED BY <1>6, <1>7

\* p follows with a call that q has made already.
LEMMA CatchUp ==
    ASSUME UInv, NEW p \in PEs, NEW q \in PEs \ {p}, NEW c, NEW ptr, NEW s,
           NewCall(p, c, ptr, s), Len(made[p]) < Len(made[q]), InStep(p, q),
           Outcomes(p, q, Len(made[p])) # {}, Uniform'
    PROVE  InStep(p, q)'
<1>1. /\ HInv /\ TypeOK /\ CallInv /\ MadeAt(q) /\ OpenAt(q) /\ Good(heap[p])
  BY DEF UInv, HInv, AllGood
<1>2. PICK n \in Nat : n = Len(made[p])
  BY <1>1 DEF TypeOK
<1>3. PICK m \in Nat : m = Len(made[q])
  BY <1>1 DEF TypeOK
<1>4. /\ Recorded(p, c, ptr, s) /\ Outside(p) /\ heap'[q] = heap[q]
      /\ made'[q] = made[q] /\ entered'[q] = entered[q]
      /\ \A k \in DOMAIN calls : calls'[k] = calls[k]
  BY DEF NewCall, Recorded
<1>5. /\ DOMAIN made[p] = 1 .. n /\ DOMAIN made'[p] = 1 .. n + 1
      /\ Len(made'[p]) = n + 1
      /\ Pending(p)' <=> s = "pending"
      /\ \A t : t # "OK" => /\ HeapAfter(p, t)' = heap[p]
                            /\ PtrAfter(p, n + 1, t)' = {}
                            /\ \A k \in 1 .. n :
                                 PtrAfter(p, k, t)' = made[p][k].ptr
  <2>1. Len(made'[p]) = n + 1
    BY <1>2, <1>4, Zenon DEF Recorded
  <2>2. /\ DOMAIN made[p] = 1 .. n /\ DOMAIN made'[p] = 1 .. n + 1
        /\ n <= Len(calls) /\ calls \in Seq(Call)
        /\ Pending(p)' <=> s = "pending"
        /\ Undone(p, n)
    BY <1>2, NewCallOpen
  <2> QED BY <2>1, <2>2, Zenon DEF Undone
<1>6. /\ DOMAIN made[q] = 1 .. m /\ n + 1 \in 1 .. m /\ m <= Len(calls)
      /\ calls \in Seq(Call) /\ n < m /\ made[q] \in Seq(Made)
  BY <1>1, <1>2, <1>3 DEF TypeOK, CallInv
<1>7. n + 1 \in DOMAIN calls /\ calls[n + 1] = c /\ made'[p][n + 1].ptr = ptr
      /\ made'[p][n + 1].status = s
      /\ \A k \in 1 .. n : made'[p][k] = made[p][k]
  <2>1. n + 1 \in DOMAIN calls
    BY <1>6
  <2>2. made'[p][n + 1] = [ptr |-> ptr, status |-> s] /\ calls'[n + 1] = c
        /\ \A k \in 1 .. n : made'[p][k] = made[p][k]
    BY <1>2, <1>4, <1>5, Zenon DEF Recorded
  <2> QED BY <1>4, <2>1, <2>2
<1>8. /\ heap[p] = HeapAfter(q, "ERROR")
      /\ \A k \in 1 .. n : made[p][k].ptr = PtrAfter(q, k, "ERROR")
  <2>1. PICK t \in Outcomes(p, q, Len(made[p])) : Agree(p, t, q, "ERROR")
    BY <1>2, <1>3, <1>6 DEF InStep
  <2>2. HeapAfter(p, t) = heap[p] /\ \A k : PtrAfter(p, k, t) = made[p][k].ptr
    BY <1>1, <1>4, OutsideSettled
  <2> QED BY <1>5, <2>1, <2>2 DEF Agree
<1>9. IdleCall(q, n + 1)
  BY <1>2, <1>3, <1>6 DEF InStep
<1>10. PICK st : st = made[q][n + 1].status
  OBVIOUS
<1>11. st = "pending" => m = n + 1 /\ Pending(q) /\ Current(q) = n + 1
  <2>1. st = "pending" => n + 1 = Current(q)
    BY <1>1, <1>6, <1>10 DEF MadeAt
  <2>2. Current(q) = m /\ made[q] # <<>>
    BY <1>3, <1>6 DEF Current
  <2> QED BY <1>10, <2>1, <2>2 DEF Pending
<1>12. s = "OK" <=> st = "OK"
  <2>1. ASSUME s = "OK", st # "OK" PROVE FALSE
    <3>1. st = "pending"
      <4>1. n + 1 \in DOMAIN made'[p] \cap DOMAIN made'[q]
        BY <1>4, <1>5, <1>6
      <4>2. \/ made'[p][n + 1].status = made'[q][n + 1].status
            \/ "pending" \in {made'[p][n + 1].status, made'[q][n + 1].status}
        BY <4>1 DEF Uniform
      <4> QED BY <1>4, <1>7, <1>10, <2>1, <4>2
    <3>2. Pending(q) /\ Current(q) = n + 1 /\ calls[Current(q)] = c
      BY <1>7, <1>11, <3>1
    <3>3. CASE c.op = "free"
      <4>1. c.of \in 1 .. n /\ made[p][c.of].ptr = {}
        BY <1>5, <2>1, <3>3 DEF NewCall
      <4>2. made[q][c.of].ptr # {} /\ GivesUp(q, "ERROR") = {}
        BY <1>1, <3>2, <3>3 DEF OpenAt, GivesUp
      <4> QED BY <1>8, <4>1, <4>2 DEF PtrAfter
    <3>4. CASE c.op # "free"
      <4>1. c.op = "calloc" /\ ~Admissible(c.size)
        BY <2>1, <3>4 DEF NewCall
      <4> QED BY <1>1, <3>2, <4>1 DEF OpenAt
    <3> QED BY <3>3, <3>4
  <2>2. ASSUME s # "OK", st = "OK" PROVE FALSE
    <3>1. CASE c.op = "free"
      <4>1. c.of \in 1 .. n /\ made[p][c.of].ptr # {}
        BY <1>5, <2>2, <3>1 DEF NewCall
      <4>2. made[q][c.of].ptr = {}
        BY <1>1, <1>6, <1>7, <1>10, <2>2, <3>1 DEF OpenAt
      <4> QED BY <1>8, <4>1, <4>2 DEF PtrAfter
    <3>2. CASE c.op # "free"
      <4>1. c.op = "calloc" /\ ~Admissible(c.size)
        BY <1>7, <1>9, <1>10, <2>2, <3>2 DEF IdleCall
      <4> QED BY <2>2, <4>1 DEF NewCall
    <3> QED BY <3>1, <3>2
  <2> QED BY <2>1, <2>2
<1>13. /\ Pending(q)' <=> Pending(q)
       /\ \A t : /\ HeapAfter(q, t)' = HeapAfter(q, t)
                 /\ \A k : PtrAfter(q, k, t)' = PtrAfter(q, k, t)
       /\ \A k \in DOMAIN made[q] : IdleCall(q, k)' <=> IdleCall(q, k)
       /\ \A i : Barriers(q, i)' = Barriers(q, i)
  BY <1>1, <1>4, OthersFrozen
<1>14. entered'[q] = entered'[p] + Cardinality(Barriers(q, n + 1))
  <2>1. Cardinality(Barriers(q, n)) = Cardinality(Barriers(q, n + 1))
            + (IF made[q][n + 1].status = "OK" THEN 0 ELSE 1)
    BY <1>1, <1>6, BarriersNext
  <2>2. entered[q] = entered[p] + Cardinality(Barriers(q, n))
    BY <1>2 DEF InStep
  <2>3. entered'[p] = entered[p] + (IF s = "OK" THEN 0 ELSE 1)
    BY DEF NewCall
  <2>4. entered[p] \in Nat /\ Cardinality(Barriers(q, n + 1)) \in Nat
    <3>1. n + 1 \in Nat
      OBVIOUS
    <3> QED BY <1>1, <3>1, BarriersFinite DEF TypeOK
  <2> QED BY <1>4, <1>10, <1>12, <2>1, <2>2, <2>3, <2>4
<1>15. \A k \in n + 1 + 1 .. m : IdleCall(q, k)'
  <2>1. \A k \in n + 1 + 1 .. m : k \in n + 1 .. m /\ k \in DOMAIN made[q]
    BY <1>6
  <2> QED BY <1>2, <1>3, <1>13, <2>1 DEF InStep
<1>16. ASSUME NEW t \in Ends, s \in {"pending", t}, st \in {"pending", t}
       PROVE  Agree(p, t, q, IF m = n + 1 THEN t ELSE "ERROR")'
  <2> DEFINE u == IF m = n + 1 THEN t ELSE "ERROR"
  <2> SUFFICES /\ HeapAfter(p, t)' = HeapAfter(q, u)
               /\ \A k \in 1 .. n : PtrAfter(p, k, t)' = PtrAfter(q, k, u)
               /\ PtrAfter(p, n + 1, t)' = PtrAfter(q, n + 1, u)
    <3>1. \A k \in 1 .. n + 1 : k \in 1 .. n \/ k = n + 1
      OBVIOUS
    <3>2. PICK v : v = u
      OBVIOUS
    <3>3. Agree(p, t, q, v)'
      BY <1>5, <1>13, <3>1, <3>2 DEF Agree
    <3> QED BY <3>2, <3>3
  <2>1. PtrAfter(q, n + 1, "ERROR") = {}
    BY <1>9 DEF IdleCall
  <2>2. CASE t # "OK"
    <3>1. u # "OK"
      BY <2>2
    <3>2. /\ HeapAfter(q, u) = HeapAfter(q, "ERROR")
          /\ \A k : PtrAfter(q, k, u) = PtrAfter(q, k, "ERROR")
      BY <3>1, FailuresAlike
    <3> QED BY <1>5, <1>8, <2>1, <2>2, <3>2
  <2>3. CASE t = "OK" /\ s = "OK"
    <3>1. st = "OK" /\ ~Pending(p)'
      BY <1>5, <1>12, <2>3
    <3>2. ptr = {} /\ heap'[p] = heap[p]
      BY <2>3 DEF NewCall
    <3>3. GivesUp(p, t)' = {}
      BY <3>1 DEF GivesUp
    <3>4. Gone(p, t)' = UNION {made'[p][k].ptr : k \in {}}
      BY <3>3 DEF Gone
    <3>5. HeapAfter(p, t)' = heap[p] /\ \A k : PtrAfter(p, k, t)' = made'[p][k].ptr
      BY <3>2, <3>3, <3>4 DEF HeapAfter, PtrAfter
    <3>6. /\ HeapAfter(q, u) = HeapAfter(q, "ERROR")
          /\ \A k : PtrAfter(q, k, u) = PtrAfter(q, k, "ERROR")
      <4>1. CASE m = n + 1
        <5>1. ~Pending(q)
          BY <1>3, <1>10, <3>1, <4>1 DEF Pending, Current
        <5>2. \A v : GivesUp(q, v) = {}
          BY <5>1 DEF GivesUp
        <5> QED BY <5>2 DEF HeapAfter, Gone, PtrAfter
      <4>2. CASE m # n + 1
        BY <4>2
      <4> QED BY <4>1, <4>2
    <3> QED BY <1>7, <1>8, <2>1, <3>2, <3>5, <3>6
  <2>4. CASE t = "OK" /\ s # "OK"
    <3>1. s = "pending" /\ st = "pending"
      BY <1>12, <1>16, <2>4
    <3>2. /\ m = n + 1 /\ Pending(q) /\ Current(q) = n + 1 /\ u = "OK"
          /\ Pending(p)' /\ Current(p)' = n + 1 /\ calls'[n + 1] = c
      BY <1>4, <1>5, <1>7, <1>11, <2>4, <3>1 DEF Current
    <3>3. CASE c.op # "free"
      <4>1. GivesUp(p, "OK")' = {} /\ GivesUp(q, "OK") = {}
            /\ GivesUp(q, "ERROR") = {n + 1}
        BY <1>7, <3>2, <3>3 DEF GivesUp
      <4>2. Gone(p, "OK")' = UNION {made'[p][k].ptr : k \in {}}
        BY <4>1 DEF Gone
      <4>3. /\ HeapAfter(p, "OK")' = heap'[p] /\ HeapAfter(q, "OK") = heap[q]
            /\ \A k : /\ PtrAfter(p, k, "OK")' = made'[p][k].ptr
                      /\ PtrAfter(q, k, "OK") = made[q][k].ptr
        BY <4>1, <4>2 DEF HeapAfter, Gone, PtrAfter
      <4>4. [heap |-> heap'[p], got |-> ptr]
               = [heap |-> heap[q], got |-> made[q][n + 1].ptr]
        <5>1. c.size \in Nat
              /\ [heap |-> heap'[p], got |-> ptr] \in Allocate(heap[p], c.size)
          BY <3>1, <3>3 DEF NewCall
        <5>2. [heap |-> heap[q], got |-> made[q][n + 1].ptr]
                 \in Allocate(heap[p], c.size)
          BY <1>1, <1>7, <1>8, <3>2, <3>3 DEF OpenAt
        <5> QED BY <1>1, <5>1, <5>2, AllocateOne
      <4>5. heap'[p] = heap[q] /\ ptr = made[q][n + 1].ptr
        <5> DEFINE x == [heap |-> heap'[p], got |-> ptr]
                   y == [heap |-> heap[q], got |-> made[q][n + 1].ptr]
        <5>1. x.heap = heap'[p] /\ y.heap = heap[q]
              /\ x.got = ptr /\ y.got = made[q][n + 1].ptr
          OBVIOUS
        <5>2. x = y
          BY <4>4
        <5> QED BY <5>1, <5>2
      <4>6. \A k \in 1 .. n : made[p][k].ptr = made[q][k].ptr
        <5>1. \A k \in 1 .. n : k # n + 1
          OBVIOUS
        <5> QED BY <1>8, <4>1, <5>1 DEF PtrAfter
      <4> QED BY <1>7, <2>4, <3>2, <4>3, <4>5, <4>6
    <3>4. CASE c.op = "free"
      <4>1. /\ GivesUp(p, "OK")' = {c.of} /\ GivesUp(q, "OK") = {c.of}
            /\ GivesUp(q, "ERROR") = {} /\ c.of \in 1 .. n
            /\ heap'[p] = heap[p] /\ ptr = {}
        BY <1>5, <1>7, <3>2, <3>4 DEF GivesUp, NewCall
      <4>2. heap[q] = heap[p] /\ \A k \in 1 .. n : made[p][k].ptr = made[q][k].ptr
        BY <1>8, <4>1 DEF HeapAfter, Gone, PtrAfter
      <4>3. Gone(p, "OK")' = UNION {made'[p][k].ptr : k \in {c.of}}
        BY <4>1 DEF Gone
      <4>4. Gone(p, "OK")' = Gone(q, "OK")
        <5>1. Gone(q, "OK") = UNION {made[q][k].ptr : k \in {c.of}}
          BY <4>1 DEF Gone
        <5>2. made'[p][c.of].ptr = made[q][c.of].ptr
          BY <1>7, <4>1, <4>2
        <5> QED BY <4>3, <5>1, <5>2
      <4>5. HeapAfter(p, "OK")' = HeapAfter(q, "OK")
        <5>1. HeapAfter(p, "OK")' =
                IF Gone(p, "OK")' = {} THEN heap'[p]
                ELSE ReleaseAt(heap'[p], CHOOSE o \in Gone(p, "OK")' : TRUE)
          BY DEF HeapAfter
        <5>2. heap'[p] = heap[q]
          BY <4>1, <4>2
        <5>3. HeapAfter(q, "OK") =
                IF Gone(q, "OK") = {} THEN heap[q]
                ELSE ReleaseAt(heap[q], CHOOSE o \in Gone(q, "OK") : TRUE)
          BY DEF HeapAfter
        <5> QED BY <4>4, <5>1, <5>2, <5>3
      <4>6. \A k \in 1 .. n : PtrAfter(p, k, "OK")' = PtrAfter(q, k, "OK")
        BY <1>7, <4>1, <4>2 DEF PtrAfter
      <4>7. PtrAfter(p, n + 1, "OK")' = {} /\ PtrAfter(q, n + 1, "OK") = {}
        <5>1. made[q][n + 1].ptr = {}
          BY <2>1, <4>1 DEF PtrAfter
        <5> QED BY <1>7, <4>1, <5>1 DEF PtrAfter
      <4> QED BY <2>4, <3>2, <4>5, <4>6, <4>7
    <3> QED BY <3>3, <3>4
  <2> QED BY <2>2, <2>3, <2>4
<1>17. \A t \in Outcomes(p, q, n + 1)' :
          Agree(p, t, q, IF m = n + 1 THEN t ELSE "ERROR")'
  BY <1>4, <1>7, <1>10, <1>16 DEF Outcomes
<1>18. Len(made'[p]) = n + 1 /\ Len(made'[q]) = m
  BY <1>3, <1>4, <1>5
<1> QED BY <1>13, <1>14, <1>15, <1>17, <1>18 DEF InStep

\* p goes further ahead of q.
LEMMA MoveAhead ==
    ASSUME UInv, NEW p \in PEs, NEW q \in PEs \ {p}, NEW c, NEW ptr, NEW s,
           NewCall(p, c, ptr, s), Len(made[q]) <= Len(made[p]), InStep(q, p)
    PROVE  InStep(q, p)'
<1>1. /\ HInv /\ TypeOK /\ CallInv
  BY DEF UInv, HInv
<1>2. PICK n \in Nat : n = Len(made[p])
  BY <1>1 DEF TypeOK
<1>3. PICK m \in Nat : m = Len(made[q])
  BY <1>1 DEF TypeOK
<1>4. /\ Recorded(p, c, ptr, s) /\ Outside(p) /\ heap'[q] = heap[q]
      /\ made'[q] = made[q] /\ entered'[q] = entered[q]
      /\ \A k \in DOMAIN calls : calls'[k] = calls[k]
  BY DEF NewCall, Recorded
<1>5. /\ DOMAIN made[p] = 1 .. n /\ n <= Len(calls) /\ calls \in Seq(Call)
      /\ Undone(p, n)
  BY <1>2, NewCallOpen
<1>6. /\ Len(made'[p]) = n + 1 /\ Len(made'[q]) = m
      /\ DOMAIN made[q] = 1 .. m /\ m <= n
      /\ \A k \in 1 .. n : k \in DOMAIN calls /\ k # n + 1
      /\ \A k \in 1 .. m : k \in 1 .. n
  <2>1. Len(made'[p]) = n + 1
    BY <1>2, <1>4, Zenon DEF Recorded
  <2> QED BY <1>1, <1>2, <1>3, <1>4, <1>5, <2>1 DEF TypeOK
<1>7. /\ \A k \in 1 .. n : made'[p][k] = made[p][k] /\ calls'[k] = calls[k]
      /\ made'[p][n + 1].status = s /\ calls'[n + 1] = c
  <2>1. /\ \A k \in 1 .. n : made'[p][k] = made[p][k]
        /\ made'[p][n + 1] = [ptr |-> ptr, status |-> s] /\ calls'[n + 1] = c
    BY <1>2, <1>4, <1>5, Zenon DEF Recorded
  <2>2. made'[p][n + 1].status = s
    BY <2>1
  <2>3. \A k \in 1 .. n : calls'[k] = calls[k]
    BY <1>4, <1>6
  <2> QED BY <2>1, <2>2, <2>3, Zenon
<1>8. \A t : HeapAfter(p, t) = heap[p] /\ \A k : PtrAfter(p, k, t) = made[p][k].ptr
  BY <1>1, <1>4, OutsideSettled
<1>9. /\ HeapAfter(p, "ERROR")' = heap[p] /\ PtrAfter(p, n + 1, "ERROR")' = {}
      /\ \A k \in 1 .. n : PtrAfter(p, k, "ERROR")' = made[p][k].ptr
  BY <1>5 DEF Undone
<1>10. /\ entered[p] = entered[q] + Cardinality(Barriers(p, m))
       /\ \A k \in m + 1 .. n : IdleCall(p, k)
       /\ \A t \in Outcomes(q, p, m) :
            Agree(q, t, p, IF n = m THEN t ELSE "ERROR")
  BY <1>2, <1>3 DEF InStep
<1>11. entered'[p] = entered'[q] + Cardinality(Barriers(p, m)')
  <2>1. \A k \in m + 1 .. n + 1 : (k \in m + 1 .. n /\ k \in 1 .. n) \/ k = n + 1
    OBVIOUS
  <2>2. \A k \in m + 1 .. n : k \in 1 .. n /\ k \in m + 1 .. n + 1
    OBVIOUS
  <2>3. n + 1 \in m + 1 .. n + 1 /\ n + 1 \notin m + 1 .. n
    BY <1>6
  <2>4. Barriers(p, m)' = {k \in m + 1 .. n + 1 : made'[p][k].status # "OK"}
    BY <1>6 DEF Barriers
  <2>5. Barriers(p, m) = {k \in m + 1 .. n : made[p][k].status # "OK"}
    BY <1>2 DEF Barriers
  <2>6. Barriers(p, m)' = Barriers(p, m) \cup (IF s = "OK" THEN {} ELSE {n + 1})
    BY <1>7, <2>1, <2>2, <2>3, <2>4, <2>5
  <2>7. IsFiniteSet(Barriers(p, m)) /\ Cardinality(Barriers(p, m)) \in Nat
    BY <1>1, BarriersFinite
  <2>8. n + 1 \notin Barriers(p, m)
    BY <2>3, <2>5
  <2>9. Cardinality(Barriers(p, m)')
          = Cardinality(Barriers(p, m)) + (IF s = "OK" THEN 0 ELSE 1)
    <3>1. CASE s = "OK"
      <4>1. Barriers(p, m)' = Barriers(p, m)
        BY <2>6, <3>1
      <4> QED BY <2>7, <3>1, <4>1
    <3>2. CASE s # "OK"
      <4>1. Barriers(p, m)' = Barriers(p, m) \cup {n + 1}
        BY <2>6, <3>2
      <4>2. Cardinality(Barriers(p, m) \cup {n + 1})
              = Cardinality(Barriers(p, m)) + 1
        BY <2>7, <2>8, FS_AddElement
      <4> QED BY <3>2, <4>1, <4>2
    <3> QED BY <3>1, <3>2
  <2>10. entered'[p] = entered[p] + (IF s = "OK" THEN 0 ELSE 1) /\ entered[q] \in Nat
    BY <1>1 DEF NewCall, TypeOK
  <2> QED BY <1>4, <1>10, <2>7, <2>9, <2>10
<1>12. ASSUME NEW k \in m + 1 .. n + 1 PROVE IdleCall(p, k)'
  <2>1. CASE k = n + 1
    <3>1. s = "OK" => \/ c.op = "free"
                      \/ c.op = "calloc" /\ ~Admissible(c.size)
      BY DEF NewCall
    <3>2. IdleCall(p, n + 1)'
      BY <1>7, <1>9, <3>1 DEF IdleCall
    <3> QED BY <2>1, <3>2
  <2>2. CASE k # n + 1
    <3>1. k \in m + 1 .. n /\ k \in 1 .. n
      BY <2>2
    <3>2. IdleCall(p, k)
      BY <1>10, <3>1
    <3> QED BY <1>7, <1>8, <1>9, <3>1, <3>2 DEF IdleCall
  <2> QED BY <2>1, <2>2
<1>13. \A t : HeapAfter(q, t)' = HeapAfter(q, t)
              /\ \A k : PtrAfter(q, k, t)' = PtrAfter(q, k, t)
  BY <1>1, <1>4, OthersFrozen
<1>14. Outcomes(q, p, m)' = Outcomes(q, p, m)
  <2>1. m > 0 => m \in 1 .. n
    BY <1>6
  <2> QED BY <1>4, <1>7, <2>1 DEF Outcomes
<1>15. \A t \in Outcomes(q, p, m)' : Agree(q, t, p, "ERROR")'
  <2> SUFFICES ASSUME NEW t \in Outcomes(q, p, m) PROVE Agree(q, t, p, "ERROR")'
    BY <1>14
  <2>1. PICK u : u = (IF n = m THEN t ELSE "ERROR") /\ Agree(q, t, p, u)
    BY <1>10
  <2>2. HeapAfter(q, t) = heap[p]
    BY <1>8, <2>1 DEF Agree
  <2>3. \A k \in 1 .. m : PtrAfter(q, k, t) = made[p][k].ptr
    BY <1>6, <1>8, <2>1 DEF Agree
  <2> QED BY <1>4, <1>6, <1>9, <1>13, <2>2, <2>3 DEF Agree
<1>16. n + 1 # m
  BY <1>6
<1> QED BY <1>6, <1>11, <1>12, <1>15, <1>16 DEF InStep

\* The call of p ends while q is at it or has passed it.
LEMMA ReturnBehind ==
    ASSUME UInv, NEW p \in PEs, NEW q \in PEs \ {p}, NEW s, Returned(p, s),
           Len(made[p]) <= Len(made[q]), InStep(p, q)
    PROVE  InStep(p, q)'
<1>1. /\ HInv /\ TypeOK /\ CallInv
  BY DEF UInv, HInv
<1>2. PICK n \in Nat : n = Len(made[p])
  BY <1>1 DEF TypeOK
<1>3. PICK m \in Nat : m = Len(made[q])
  BY <1>1 DEF TypeOK
<1>4. /\ made'[q] = made[q] /\ heap'[q] = heap[q] /\ calls' = calls
      /\ entered' = entered /\ Len(made'[p]) = n /\ Len(made'[q]) = m /\ s \in Ends
  BY <1>2, <1>3 DEF Returned
<1>5. /\ DOMAIN made[p] = 1 .. n /\ DOMAIN made'[p] = 1 .. n /\ n > 0
      /\ DOMAIN made[q] = 1 .. m /\ n <= m
  BY <1>1, <1>2, <1>3, <1>4 DEF TypeOK, Returned
<1>6. /\ made'[p][n].status = s /\ made[p][n].status \in {"pending", s}
  BY <1>2, <1>5 DEF Returned, Current
<1>7. /\ \A t : /\ HeapAfter(q, t)' = HeapAfter(q, t)
                /\ \A k : PtrAfter(q, k, t)' = PtrAfter(q, k, t)
      /\ \A k \in DOMAIN made[q] : IdleCall(q, k)' <=> IdleCall(q, k)
      /\ \A i : Barriers(q, i)' = Barriers(q, i)
  BY <1>1, <1>4, OthersFrozen
<1>8. /\ entered[q] = entered[p] + Cardinality(Barriers(q, n))
      /\ \A k \in n + 1 .. m : IdleCall(q, k)
      /\ \A t \in Outcomes(p, q, n) :
           Agree(p, t, q, IF m = n THEN t ELSE "ERROR")
  BY <1>2, <1>3 DEF InStep
<1>9. \A k \in n + 1 .. m : IdleCall(q, k)'
  <2>1. \A k \in n + 1 .. m : k \in DOMAIN made[q]
    BY <1>5
  <2> QED BY <1>7, <1>8, <2>1
<1>10. \A t : /\ HeapAfter(p, t)' = HeapAfter(p, s)
              /\ \A k \in 1 .. n : PtrAfter(p, k, t)' = PtrAfter(p, k, s)
  BY <1>5, ReturnedOpen
<1>11. ASSUME NEW t \in Outcomes(p, q, n)'
       PROVE  Agree(p, t, q, IF m = n THEN t ELSE "ERROR")'
  <2>1. t \in Ends /\ s \in {"pending", t} /\ made[q][n].status \in {"pending", t}
    BY <1>4, <1>5, <1>6 DEF Outcomes
  <2>2. t = s
    BY <1>4, <2>1 DEF Ends
  <2>3. t \in Outcomes(p, q, n)
    BY <1>6, <2>1, <2>2 DEF Outcomes
  <2>4. PICK u : u = (IF m = n THEN t ELSE "ERROR")
    OBVIOUS
  <2>5. Agree(p, t, q, u)
    BY <1>8, <2>3, <2>4
  <2>6. Agree(p, t, q, u)'
    BY <1>5, <1>7, <1>10, <2>2, <2>5 DEF Agree
  <2> QED BY <2>4, <2>6
<1> QED BY <1>4, <1>7, <1>8, <1>9, <1>11 DEF InStep

\* The call of p ends while q is at it or before it.  If q is before it, the
\* call has failed: its barrier cannot pass before q has entered it.
LEMMA ReturnAhead ==
    ASSUME UInv, NEW p \in PEs, NEW q \in PEs \ {p}, NEW s, Returned(p, s),
           Len(made[q]) <= Len(made[p]), InStep(q, p)
    PROVE  InStep(q, p)'
<1>1. /\ HInv /\ TypeOK /\ CallInv
  BY DEF UInv, HInv
<1>2. PICK n \in Nat : n = Len(made[p])
  BY <1>1 DEF TypeOK
<1>3. PICK m \in Nat : m = Len(made[q])
  BY <1>1 DEF TypeOK
<1>4. /\ made'[q] = made[q] /\ heap'[q] = heap[q] /\ calls' = calls
      /\ entered' = entered /\ Len(made'[p]) = n /\ Len(made'[q]) = m /\ s \in Ends
  BY <1>2, <1>3 DEF Returned
<1>5. /\ DOMAIN made[p] = 1 .. n /\ DOMAIN made'[p] = 1 .. n /\ n > 0
      /\ DOMAIN made[q] = 1 .. m /\ m <= n /\ n \in 1 .. n
  BY <1>1, <1>2, <1>3, <1>4 DEF TypeOK, Returned
<1>6. /\ made'[p][n].status = s /\ made[p][n].status \in {"pending", s}
      /\ made[p][n].status # "OK"
      /\ \A k \in 1 .. n : k # n => made'[p][k].status = made[p][k].status
  BY <1>2, <1>5 DEF Returned, Current
<1>7. \A t : /\ HeapAfter(q, t)' = HeapAfter(q, t)
             /\ \A k : PtrAfter(q, k, t)' = PtrAfter(q, k, t)
  BY <1>1, <1>4, OthersFrozen
<1>8. /\ entered[p] = entered[q] + Cardinality(Barriers(p, m))
      /\ \A k \in m + 1 .. n : IdleCall(p, k)
      /\ \A t \in Outcomes(q, p, m) :
           Agree(q, t, p, IF n = m THEN t ELSE "ERROR")
  BY <1>2, <1>3 DEF InStep
<1>9. \A t : /\ HeapAfter(p, t)' = HeapAfter(p, s)
             /\ \A k \in 1 .. n : PtrAfter(p, k, t)' = PtrAfter(p, k, s)
  BY <1>5, ReturnedOpen
<1>10. \A k \in m + 1 .. n : k \in 1 .. n
  OBVIOUS
<1>11. m < n => s # "OK"
  <2> SUFFICES ASSUME m < n, s = "OK" PROVE FALSE
    OBVIOUS
  <2>1. n \in m + 1 .. n
    OBVIOUS
  <2>2. n \in Barriers(p, m)
    BY <1>2, <1>6, <2>1 DEF Barriers
  <2>3. Cardinality(Barriers(p, m)) \in Nat /\ Cardinality(Barriers(p, m)) >= 1
    BY <1>1, <2>2, BarriersFinite
  <2>4. entered[q] >= entered[p] /\ entered[q] \in Nat
    BY <1>1 DEF Returned, TypeOK
  <2> QED BY <1>8, <2>3, <2>4
<1>12. m < n => /\ HeapAfter(p, "ERROR")' = HeapAfter(p, "ERROR")
                /\ \A k \in 1 .. n :
                     PtrAfter(p, k, "ERROR")' = PtrAfter(p, k, "ERROR")
  <2> SUFFICES ASSUME s # "OK"
               PROVE  /\ HeapAfter(p, s) = HeapAfter(p, "ERROR")
                      /\ \A k : PtrAfter(p, k, s) = PtrAfter(p, k, "ERROR")
    BY <1>9, <1>11
  <2> QED BY FailuresAlike
<1>13. Barriers(p, m)' = Barriers(p, m)
  <2>1. /\ Barriers(p, m)' = {k \in m + 1 .. n : made'[p][k].status # "OK"}
        /\ Barriers(p, m) = {k \in m + 1 .. n : made[p][k].status # "OK"}
    BY <1>2, <1>4 DEF Barriers
  <2>2. \A k \in m + 1 .. n : m < n
    OBVIOUS
  <2> QED BY <1>6, <1>10, <1>11, <2>1, <2>2
<1>14. ASSUME NEW k \in m + 1 .. n PROVE IdleCall(p, k)'
  <2>1. m < n /\ k \in 1 .. n
    BY <1>10
  <2>2. IdleCall(p, k)
    BY <1>8
  <2>3. PtrAfter(p, k, "ERROR")' = {}
    BY <1>12, <2>1, <2>2 DEF IdleCall
  <2>4. made'[p][k].status = "OK" => made[p][k].status = "OK"
    BY <1>6, <1>11, <2>1
  <2> QED BY <1>4, <2>2, <2>3, <2>4 DEF IdleCall
<1>15. ASSUME NEW t \in Outcomes(q, p, m)'
       PROVE  Agree(q, t, p, IF n = m THEN t ELSE "ERROR")'
  <2>1. CASE m < n
    <3>1. m > 0 => m \in 1 .. n /\ m # n
      BY <2>1
    <3>2. t \in Outcomes(q, p, m)
      BY <1>4, <1>6, <3>1 DEF Outcomes
    <3>3. Agree(q, t, p, "ERROR")
      BY <1>8, <2>1, <3>2
    <3>4. \A k \in 1 .. m : k \in 1 .. n
      BY <1>5
    <3>5. Agree(q, t, p, "ERROR")'
      BY <1>4, <1>5, <1>7, <1>12, <2>1, <3>3, <3>4 DEF Agree
    <3> QED BY <2>1, <3>5
  <2>2. CASE m = n
    <3>1. t \in Ends /\ s \in {"pending", t} /\ made[q][n].status \in {"pending", t}
      BY <1>4, <1>5, <1>6, <2>2 DEF Outcomes
    <3>2. t = s
      BY <1>4, <3>1 DEF Ends
    <3>3. t \in Outcomes(q, p, m)
      BY <1>6, <2>2, <3>1, <3>2 DEF Outcomes
    <3>4. Agree(q, t, p, t)
      BY <1>8, <2>2, <3>3
    <3>5. Agree(q, t, p, t)'
      BY <1>4, <1>5, <1>7, <1>9, <2>2, <3>2, <3>4 DEF Agree
    <3> QED BY <2>2, <3>5
  <2> QED BY <1>5, <2>1, <2>2
<1> QED BY <1>4, <1>8, <1>13, <1>14, <1>15 DEF InStep

\* PEs that are at the same call are in step both ways.
LEMMA TurnedRound ==
    ASSUME TypeOK', NEW p \in PEs, NEW q \in PEs,
           Len(made'[p]) = Len(made'[q]), InStep(p, q)'
    PROVE  InStep(q, p)'
<1>1. PICK n \in Nat : n = Len(made'[p]) /\ n = Len(made'[q])
  BY DEF TypeOK
<1>2. DOMAIN made'[p] = 1 .. n /\ DOMAIN made'[q] = 1 .. n /\ entered'[p] \in Nat
      /\ n + 1 .. n = {}
  BY <1>1 DEF TypeOK
<1>3. Barriers(p, n)' = {} /\ Barriers(q, n)' = {} /\ Cardinality({}) = 0
  BY <1>1, <1>2, FS_EmptySet DEF Barriers
<1>4. /\ entered'[q] = entered'[p] + Cardinality(Barriers(q, n)')
      /\ \A s \in Outcomes(p, q, n)' : Agree(p, s, q, s)'
  BY <1>1 DEF InStep
<1>5. entered'[p] = entered'[q] + Cardinality(Barriers(p, n)')
  BY <1>2, <1>3, <1>4
<1>6. ASSUME NEW s \in Outcomes(q, p, n)' PROVE Agree(q, s, p, s)'
  <2>1. s \in Outcomes(p, q, n)'
    BY DEF Outcomes
  <2>2. Agree(p, s, q, s)'
    BY <1>4, <2>1
  <2> QED BY <1>2, <2>2 DEF Agree
<1> QED BY <1>1, <1>2, <1>5, <1>6 DEF InStep

\* A step of a third PE leaves p and q in step.
LEMMA BystandersInStep ==
    ASSUME UInv, NEW p \in PEs, NEW q \in PEs,
           heap'[p] = heap[p], made'[p] = made[p], entered'[p] = entered[p],
           heap'[q] = heap[q], made'[q] = made[q], entered'[q] = entered[q],
           \A k \in DOMAIN calls : calls'[k] = calls[k],
           Len(made[p]) <= Len(made[q]), InStep(p, q)
    PROVE  InStep(p, q)'
<1>1. HInv /\ TypeOK
  BY DEF UInv, HInv
<1>2. PICK n \in Nat : n = Len(made[p])
  BY <1>1 DEF TypeOK
<1>3. PICK m \in Nat : m = Len(made[q])
  BY <1>1 DEF TypeOK
<1>4. DOMAIN made[q] = 1 .. m /\ \A k \in n + 1 .. m : k \in DOMAIN made[q]
  BY <1>1, <1>3 DEF TypeOK
<1>5. \A t : /\ HeapAfter(p, t)' = HeapAfter(p, t)
             /\ \A k : PtrAfter(p, k, t)' = PtrAfter(p, k, t)
  BY <1>1, OthersFrozen
<1>6. /\ \A t : /\ HeapAfter(q, t)' = HeapAfter(q, t)
                /\ \A k : PtrAfter(q, k, t)' = PtrAfter(q, k, t)
      /\ \A k \in DOMAIN made[q] : IdleCall(q, k)' <=> IdleCall(q, k)
      /\ \A i : Barriers(q, i)' = Barriers(q, i)
  BY <1>1, OthersFrozen
<1>7. /\ entered[q] = entered[p] + Cardinality(Barriers(q, n))
      /\ \A k \in n + 1 .. m : IdleCall(q, k)
      /\ \A t \in Outcomes(p, q, n) :
           Agree(p, t, q, IF m = n THEN t ELSE "ERROR")
  BY <1>2, <1>3 DEF InStep
<1>8. \A k \in n + 1 .. m : IdleCall(q, k)'
  BY <1>4, <1>6, <1>7
<1>9. ASSUME NEW t \in Outcomes(p, q, n)'
      PROVE  Agree(p, t, q, IF m = n THEN t ELSE "ERROR")'
  <2>1. t \in Outcomes(p, q, n)
    BY DEF Outcomes
  <2>2. PICK u : u = (IF m = n THEN t ELSE "ERROR")
    OBVIOUS
  <2>3. Agree(p, t, q, u)
    BY <1>7, <2>1, <2>2
  <2>4. Agree(p, t, q, u)'
    BY <1>5, <1>6, <2>3 DEF Agree
  <2> QED BY <2>2, <2>4
<1> QED BY <1>2, <1>3, <1>6, <1>7, <1>8, <1>9 DEF InStep

\* Calls that have ended alike do not stop having done so: how a call ended
\* does not change any more.
LEMMA StayedUniform ==
    ASSUME \A p \in PEs : /\ DOMAIN made[p] \subseteq DOMAIN made'[p]
                          /\ \A k \in DOMAIN made[p] :
                               \/ made'[p][k].status = made[p][k].status
                               \/ made[p][k].status = "pending",
           Uniform'
    PROVE  Uniform
<1> SUFFICES ASSUME NEW p \in PEs, NEW q \in PEs,
                    NEW k \in DOMAIN made[p] \cap DOMAIN made[q]
             PROVE  \/ made[p][k].status = made[q][k].status
                    \/ "pending" \in {made[p][k].status, made[q][k].status}
  BY DEF Uniform
<1>1. k \in DOMAIN made'[p] \cap DOMAIN made'[q]
  OBVIOUS
<1>2. \/ made'[p][k].status = made'[q][k].status
      \/ "pending" \in {made'[p][k].status, made'[q][k].status}
  BY <1>1 DEF Uniform
<1>3. /\ \/ made'[p][k].status = made[p][k].status
         \/ made[p][k].status = "pending"
      /\ \/ made'[q][k].status = made[q][k].status
         \/ made[q][k].status = "pending"
  OBVIOUS
<1> QED BY <1>2, <1>3

\* While calls end alike, a call two PEs have made can still end alike.
LEMMA SomeOutcome ==
    ASSUME TypeOK, Uniform, NEW p \in PEs, NEW q \in PEs, NEW n \in Nat,
           n > 0 => n \in DOMAIN made[p] /\ n \in DOMAIN made[q]
    PROVE  Outcomes(p, q, n) # {}
<1>1. CASE n = 0
  <2>1. "OK" \in Outcomes(p, q, n)
    BY <1>1 DEF Outcomes, Ends
  <2> QED BY <2>1
<1>2. CASE n > 0
  <2>1. made[p][n] \in Made /\ made[q][n] \in Made
    BY <1>2 DEF TypeOK
  <2>2. PICK a \in Ends \cup {"pending"} : a = made[p][n].status
    BY <2>1 DEF Made, Ends
  <2>3. PICK b \in Ends \cup {"pending"} : b = made[q][n].status
    BY <2>1 DEF Made, Ends
  <2>4. a = b \/ "pending" \in {a, b}
    BY <1>2, <2>2, <2>3 DEF Uniform
  <2>5. PICK s \in Ends : a \in {"pending", s} /\ b \in {"pending", s}
    BY <2>4 DEF Ends
  <2>6. s \in Outcomes(p, q, n)
    BY <2>2, <2>3, <2>5 DEF Outcomes
  <2> QED BY <2>6
<1> QED BY <1>1, <1>2

-----------------------------------------------------------------------------
(* The invariant that compares PEs holds throughout. *)

\* A PE's next call keeps the invariant.
LEMMA NewCallKeeps ==
    ASSUME UInv, HInv', NEW p \in PEs, NEW c, NEW ptr, NEW s, NewCall(p, c, ptr, s)
    PROVE  UInv'
<1>1. /\ HInv /\ TypeOK /\ TypeOK' /\ \A q \in PEs : OpenAt(q)
  BY DEF UInv, HInv
<1>2. PICK n \in Nat : n = Len(made[p])
  BY <1>1 DEF TypeOK
<1>3. /\ Recorded(p, c, ptr, s)
      /\ \A q \in PEs \ {p} : /\ heap'[q] = heap[q] /\ made'[q] = made[q]
                              /\ entered'[q] = entered[q]
      /\ \A k \in DOMAIN calls : calls'[k] = calls[k]
      /\ Len(made'[p]) = Len(made[p]) + 1
      /\ \A k \in DOMAIN made[p] : made'[p][k] = made[p][k]
  BY DEF NewCall, Recorded
<1>4. /\ OpenAt(p)' /\ DOMAIN made[p] = 1 .. n /\ DOMAIN made'[p] = 1 .. n + 1
  BY <1>2, NewCallOpen
<1>5. \A q \in PEs : OpenAt(q)'
  <2>1. \A q \in PEs \ {p} : OpenAt(q)'
    BY <1>1, <1>3, OthersFrozen
  <2> QED BY <1>4, <2>1
<1>6. ASSUME Uniform' PROVE SyncInv'
  <2>1. Uniform
    <3>1. ASSUME NEW a \in PEs
          PROVE  /\ DOMAIN made[a] \subseteq DOMAIN made'[a]
                 /\ \A k \in DOMAIN made[a] : made'[a][k].status = made[a][k].status
      <4>1. CASE a = p
        <5>1. 1 .. n \subseteq 1 .. n + 1
          OBVIOUS
        <5> QED BY <1>3, <1>4, <4>1, <5>1
      <4>2. CASE a # p
        BY <1>3, <4>2
      <4> QED BY <4>1, <4>2
    <3> QED BY <1>6, <3>1, StayedUniform
  <2>2. \A a, b \in PEs : a # b /\ Len(made[a]) <= Len(made[b]) => InStep(a, b)
    BY <2>1 DEF UInv, SyncInv
  <2>3. \A a \in PEs : Len(made[a]) \in Nat /\ DOMAIN made[a] = 1 .. Len(made[a])
    BY <1>1 DEF TypeOK
  <2>4. ASSUME NEW b \in PEs \ {p}, Len(made[p]) < Len(made[b])
        PROVE  InStep(p, b)'
    <3>1. Outcomes(p, b, n) # {}
      <4>1. n > 0 => n \in DOMAIN made[p] /\ n \in DOMAIN made[b]
        BY <1>2, <2>3, <2>4
      <4> QED BY <1>1, <2>1, <4>1, SomeOutcome
    <3>2. InStep(p, b)
      BY <2>2, <2>3, <2>4
    <3> QED BY <1>2, <1>6, <2>4, <3>1, <3>2, CatchUp
  <2>5. ASSUME NEW a \in PEs, NEW b \in PEs, a # b, Len(made'[a]) <= Len(made'[b])
        PROVE  InStep(a, b)'
    <3>1. CASE a = p
      <4>1. Len(made[p]) < Len(made[b]) /\ b \in PEs \ {p}
        BY <1>3, <2>3, <2>5, <3>1
      <4> QED BY <2>4, <3>1, <4>1
    <3>2. CASE b = p
      <4>1. a \in PEs \ {p} /\ Len(made[a]) <= Len(made[p]) + 1 /\ made'[a] = made[a]
        BY <1>3, <2>5, <3>2
      <4>2. CASE Len(made[a]) <= Len(made[p])
        <5>1. InStep(a, p)
          BY <2>2, <4>1, <4>2
        <5> QED BY <3>2, <4>1, <4>2, <5>1, MoveAhead
      <4>3. CASE ~(Len(made[a]) <= Len(made[p]))
        <5>1. Len(made[p]) < Len(made[a]) /\ Len(made'[p]) = Len(made'[a])
          BY <1>3, <2>3, <4>1, <4>3
        <5>2. InStep(p, a)'
          BY <2>4, <4>1, <5>1
        <5> QED BY <1>1, <3>2, <4>1, <5>1, <5>2, TurnedRound
      <4> QED BY <4>2, <4>3
    <3>3. CASE a # p /\ b # p
      <4>1. /\ heap'[a] = heap[a] /\ made'[a] = made[a] /\ entered'[a] = entered[a]
            /\ heap'[b] = heap[b] /\ made'[b] = made[b] /\ entered'[b] = entered[b]
        BY <1>3, <3>3
      <4>2. Len(made[a]) <= Len(made[b]) /\ InStep(a, b)
        BY <2>2, <2>5, <4>1
      <4> QED BY <1>3, <4>1, <4>2, BystandersInStep
    <3> QED BY <3>1, <3>2, <3>3
  <2> QED BY <2>5 DEF SyncInv
<1> QED BY <1>5, <1>6 DEF UInv

\* And so does the end of a call.
LEMMA ReturnKeeps ==
    ASSUME UInv, HInv', NEW p \in PEs, NEW s, Returned(p, s)
    PROVE  UInv'
<1>1. /\ HInv /\ TypeOK /\ \A q \in PEs : OpenAt(q)
  BY DEF UInv, HInv
<1>2. /\ \A q \in PEs \ {p} : heap'[q] = heap[q] /\ made'[q] = made[q]
      /\ calls' = calls /\ entered' = entered /\ Len(made'[p]) = Len(made[p])
      /\ \A k \in DOMAIN made[p] :
           made'[p][k].status = made[p][k].status \/ made[p][k].status = "pending"
  BY DEF Returned
<1>3. OpenAt(p)' /\ DOMAIN made'[p] = DOMAIN made[p]
  BY ReturnedOpen
<1>4. \A q \in PEs : OpenAt(q)'
  <2>1. \A q \in PEs \ {p} : OpenAt(q)'
    BY <1>1, <1>2, OthersFrozen
  <2> QED BY <1>3, <2>1
<1>5. ASSUME Uniform' PROVE SyncInv'
  <2>1. Uniform
    <3>1. ASSUME NEW a \in PEs
          PROVE  /\ DOMAIN made[a] \subseteq DOMAIN made'[a]
                 /\ \A k \in DOMAIN made[a] :
                      \/ made'[a][k].status = made[a][k].status
                      \/ made[a][k].status = "pending"
      <4>1. CASE a = p
        BY <1>2, <1>3, <4>1
      <4>2. CASE a # p
        BY <1>2, <4>2
      <4> QED BY <4>1, <4>2
    <3> QED BY <1>5, <3>1, StayedUniform
  <2>2. \A a, b \in PEs : a # b /\ Len(made[a]) <= Len(made[b]) => InStep(a, b)
    BY <2>1 DEF UInv, SyncInv
  <2>3. ASSUME NEW a \in PEs, NEW b \in PEs, a # b, Len(made'[a]) <= Len(made'[b])
        PROVE  InStep(a, b)'
    <3>1. Len(made[a]) <= Len(made[b])
      <4>1. Len(made'[a]) = Len(made[a]) /\ Len(made'[b]) = Len(made[b])
        BY <1>2
      <4> QED BY <2>3, <4>1
    <3>2. InStep(a, b)
      BY <2>2, <2>3, <3>1
    <3>3. CASE a = p
      <4>1. b \in PEs \ {p}
        BY <2>3, <3>3
      <4> QED BY <3>1, <3>2, <3>3, <4>1, ReturnBehind
    <3>4. CASE b = p
      <4>1. a \in PEs \ {p}
        BY <2>3, <3>4
      <4> QED BY <3>1, <3>2, <3>4, <4>1, ReturnAhead
    <3>5. CASE a # p /\ b # p
      <4>1. /\ heap'[a] = heap[a] /\ made'[a] = made[a] /\ entered'[a] = entered[a]
            /\ heap'[b] = heap[b] /\ made'[b] = made[b] /\ entered'[b] = entered[b]
        BY <1>2, <3>5
      <4> QED BY <1>2, <3>1, <3>2, <4>1, BystandersInStep
    <3> QED BY <3>3, <3>4, <3>5
  <2> QED BY <2>3 DEF SyncInv
<1> QED BY <1>4, <1>5 DEF UInv

(* Through any steps, calls that have ended alike leave the PEs in step. *)
THEOREM RemoteInvariant == Spec => []UInv
<1>1. Init => UInv
  <2> SUFFICES ASSUME Init, HInv PROVE UInv
    BY HeapAtStart
  <2>1. /\ heap = [p \in PEs |-> NewHeap] /\ made = [p \in PEs |-> <<>>]
        /\ entered = [p \in PEs |-> 0]
    BY DEF Init, BarrierInit
  <2>2. ASSUME NEW p \in PEs
        PROVE  /\ Len(made[p]) = 0 /\ DOMAIN made[p] = {} /\ ~Pending(p)
               /\ entered[p] = 0 /\ OpenAt(p)
               /\ \A s : HeapAfter(p, s) = NewHeap
    <3>1. made[p] = <<>> /\ Len(made[p]) = 0 /\ DOMAIN made[p] = {}
          /\ entered[p] = 0 /\ heap[p] = NewHeap
      BY <2>1
    <3>2. ~Pending(p)
      BY <3>1 DEF Pending
    <3>3. \A s : GivesUp(p, s) = {}
      BY <3>2 DEF GivesUp
    <3>4. \A s : HeapAfter(p, s) = NewHeap
      BY <3>1, <3>3 DEF HeapAfter, Gone
    <3> QED BY <3>1, <3>2, <3>4 DEF OpenAt
  <2>3. ASSUME NEW p \in PEs, NEW q \in PEs PROVE InStep(p, q)
    <3>1. /\ Len(made[p]) = 0 /\ Len(made[q]) = 0 /\ DOMAIN made[p] = {}
          /\ entered[p] = 0 /\ entered[q] = 0
          /\ \A s : HeapAfter(p, s) = HeapAfter(q, s)
      BY <2>2
    <3>2. 0 + 1 .. 0 = {} /\ Cardinality({}) = 0
      BY FS_EmptySet
    <3>3. Barriers(q, 0) = {}
      BY <3>1, <3>2 DEF Barriers
    <3>4. \A s : Agree(p, s, q, s)
      BY <3>1 DEF Agree
    <3>5. entered[q] = entered[p] + Cardinality(Barriers(q, Len(made[p])))
      <4>1. Cardinality(Barriers(q, Len(made[p]))) = 0
        BY <3>1, <3>2, <3>3, Zenon
      <4>2. entered[p] = 0 /\ entered[q] = 0
        BY <3>1, Zenon
      <4> QED BY <4>1, <4>2
    <3>6. Len(made[p]) + 1 .. Len(made[q]) = {}
      BY <3>1, <3>2
    <3>7. Len(made[q]) = Len(made[p])
      BY <3>1
    <3> QED BY <3>4, <3>5, <3>6, <3>7, Zenon DEF InStep
  <2> QED BY <2>2, <2>3 DEF UInv, SyncInv
<1>2. UInv /\ [Next]_vars => UInv'
  <2> SUFFICES ASSUME UInv, [Next]_vars PROVE UInv'
    OBVIOUS
  <2>1. HInv /\ HInv'
    BY HeapNext DEF UInv
  <2>2. ASSUME NEW p \in PEs, Step(p) PROVE UInv'
    <3>1. CASE \/ Malloc(p) \/ CallocRefused(p) \/ Calloc(p) \/ CallocUncleared(p)
               \/ FreeNull(p) \/ Free(p)
      BY <2>1, <3>1, NewCallStep, NewCallKeeps
    <3>2. CASE \/ AllocatorReturns(p) \/ AllocatorFails(p)
               \/ FreeReturns(p) \/ FreeFails(p)
      BY <2>1, <3>2, ReturnedStep, ReturnKeeps
    <3> QED BY <2>2, <3>1, <3>2 DEF Step
  <2>3. CASE UNCHANGED vars
    <3>1. heap' = heap /\ made' = made /\ entered' = entered /\ calls' = calls
      BY <2>3 DEF vars
    <3>2. \A q \in PEs : OpenAt(q)'
      BY <2>1, <3>1, OthersFrozen DEF UInv
    <3>3. ASSUME Uniform' PROVE SyncInv'
      <4>1. Uniform
        BY <3>1, <3>3 DEF Uniform
      <4>2. ASSUME NEW a \in PEs, NEW b \in PEs, a # b, Len(made'[a]) <= Len(made'[b])
            PROVE  InStep(a, b)'
        <5>1. Len(made[a]) <= Len(made[b])
          BY <3>1, <4>2
        <5>2. InStep(a, b)
          BY <4>1, <4>2, <5>1 DEF UInv, SyncInv
        <5> QED BY <3>1, <5>1, <5>2, BystandersInStep
      <4> QED BY <4>2 DEF SyncInv
    <3> QED BY <2>1, <3>2, <3>3 DEF UInv
  <2> QED BY <2>2, <2>3 DEF Next, Finished
<1> QED BY <1>1, <1>2, PTL DEF Spec

\* A pointer returned and not passed to free is not given up by the open call.
LEMMA KeptPointer ==
    ASSUME HInv, NEW p \in PEs, NEW k \in Held(p), made[p][k].status = "OK",
           \A j \in DOMAIN made[p] : calls[j] # FreeCall(k)
    PROVE  \A s : PtrAfter(p, k, s) = made[p][k].ptr
<1> SUFFICES ASSUME NEW s, k \in GivesUp(p, s) PROVE FALSE
  BY DEF PtrAfter
<1>1. Pending(p)
  BY DEF GivesUp
<1>2. /\ Current(p) \in DOMAIN made[p] /\ Current(p) \in DOMAIN calls
      /\ calls \in Seq(Call) /\ made[p][Current(p)].status = "pending"
  BY <1>1 DEF HInv, TypeOK, CallInv, Pending, Current
<1>3. calls[Current(p)].op = "free" /\ k = calls[Current(p)].of
  BY <1>1, <1>2 DEF GivesUp
<1>4. calls[Current(p)] \in Call
  BY <1>2
<1>5. calls[Current(p)] = [op |-> "free", of |-> calls[Current(p)].of]
  BY <1>3, <1>4 DEF Call, Allocators
<1> QED BY <1>2, <1>3, <1>5 DEF FreeCall

(* While calls end alike on all PEs, a pointer that malloc or calloc has    *)
(* returned to a PE, and that it has not passed to free, is a block in use  *)
(* at the same offset on every PE, however far the PEs are apart: for any   *)
(* number of PEs, any heap size, any calls and any failures.                *)
THEOREM RemoteBlocksAreLive == Spec => []RemoteBlockLive
<1>1. ASSUME UInv PROVE RemoteBlockLive
  <2> SUFFICES ASSUME Uniform, NEW p \in PEs, NEW k \in Held(p),
                      made[p][k].status = "OK",
                      \A j \in DOMAIN made[p] : calls[j] # FreeCall(k),
                      NEW q \in PEs
               PROVE  Block(p, k) \in heap[q].used
    BY DEF RemoteBlockLive
  <2>1. HInv /\ TypeOK /\ UsedAt(q)
    BY <1>1 DEF UInv, HInv
  <2>2. /\ made[p][k].ptr # {} /\ k \in DOMAIN made[p]
        /\ \A s : PtrAfter(p, k, s) = made[p][k].ptr
    BY <2>1, KeptPointer DEF Held
  <2>3. PICK n \in Nat : n = Len(made[p]) /\ DOMAIN made[p] = 1 .. n
    BY <2>1 DEF TypeOK
  <2>4. PICK m \in Nat : m = Len(made[q]) /\ DOMAIN made[q] = 1 .. m
    BY <2>1 DEF TypeOK
  <2>5. k \in DOMAIN made[q] /\ made[q][k].ptr = made[p][k].ptr
    <3>1. CASE p = q
      BY <2>2, <3>1
    <3>2. CASE p # q /\ n <= m
      <4>1. InStep(p, q) /\ k \in 1 .. n /\ k \in DOMAIN made[q]
        BY <1>1, <2>2, <2>3, <2>4, <3>2 DEF UInv, SyncInv
      <4>2. n > 0 => n \in DOMAIN made[p] /\ n \in DOMAIN made[q]
        BY <2>3, <2>4, <3>2
      <4>3. PICK s : s \in Outcomes(p, q, n)
        BY <2>1, <4>2, SomeOutcome
      <4>4. PICK u : Agree(p, s, q, u)
        BY <2>3, <4>1, <4>3 DEF InStep
      <4>5. PtrAfter(q, k, u) = made[p][k].ptr
        BY <2>2, <4>4 DEF Agree
      <4> QED BY <2>2, <4>1, <4>5 DEF PtrAfter
    <3>3. CASE p # q /\ m < n
      <4>1. InStep(q, p)
        BY <1>1, <2>3, <2>4, <3>3 DEF UInv, SyncInv
      <4>2. k \in 1 .. m
        <5>1. k \in m + 1 .. n => IdleCall(p, k)
          BY <2>3, <2>4, <4>1 DEF InStep
        <5>2. ~IdleCall(p, k)
          BY <2>2 DEF IdleCall
        <5> QED BY <2>2, <2>3, <3>3, <5>1, <5>2
      <4>3. m > 0 => m \in DOMAIN made[p] /\ m \in DOMAIN made[q]
        BY <2>3, <2>4, <3>3
      <4>4. PICK s : s \in Outcomes(q, p, m)
        BY <2>1, <4>3, SomeOutcome
      <4>5. PICK u : Agree(q, s, p, u)
        BY <2>4, <4>1, <4>4 DEF InStep
      <4>6. PtrAfter(q, k, s) = made[p][k].ptr
        BY <2>2, <2>4, <4>2, <4>5 DEF Agree
      <4> QED BY <2>2, <2>4, <4>2, <4>6 DEF PtrAfter
    <3> QED BY <3>1, <3>2, <3>3
  <2>6. Block(q, k) = Block(p, k) /\ k \in Held(q)
    BY <2>2, <2>5 DEF Block, Held
  <2> QED BY <2>1, <2>6 DEF UsedAt
<1>2. UInv => RemoteBlockLive
  BY <1>1
<1> QED BY <1>2, RemoteInvariant, PTL
=============================================================================
