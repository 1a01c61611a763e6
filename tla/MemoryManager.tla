---------------------------- MODULE MemoryManager ----------------------------
(***************************************************************************)
(* The allocator of one PE's symmetric heap (memory_manager).  Idle ranges  *)
(* are kept twice, in a tree by address and in a tree by size; used ranges  *)
(* in a tree by address.  A tree is the set of its ranges.  Offsets and     *)
(* sizes are in bytes; base_ is taken to be aligned.                        *)
(***************************************************************************)
EXTENDS Integers

CONSTANT HeapSize   \* size_ of the manager, and g_state.heap_size

ASSUME HeapAssumption == HeapSize \in Nat \ {0}

MemRange(o, s) == [offset |-> o, size |-> s]
End(r) == r.offset + r.size
Ranges == [offset : Nat, size : Nat \ {0}]

Heaps == [idle : SUBSET Ranges, bySize : SUBSET Ranges, used : SUBSET Ranges]

NewHeap == [idle |-> {MemRange(0, HeapSize)}, bySize |-> {MemRange(0, HeapSize)},
            used |-> {}]

\* std::map::emplace: an entry with this key stays as it is.
Emplace(tree, r) ==
    IF \E q \in tree : q.offset = r.offset THEN tree ELSE tree \cup {r}

At(tree, o) == {q \in tree : q.offset = o}

\* allocated_size_align_up: multiples of 16 bytes.
AlignUp(n) == ((n + 15) \div 16) * 16

Admissible(n) == n > 0 /\ n <= HeapSize

\* range_size_first_comparator.
SizeFirst(a, b) == a.size < b.size \/ (a.size = b.size /\ a.offset <= b.offset)

Fits(h, n) == {r \in h.bySize : r.size >= AlignUp(n)}

\* lower_bound in the tree by size: the smallest range that is large enough,
\* the lowest of those (one element or none).
BestFit(h, n) == {t \in Fits(h, n) : \A r \in Fits(h, n) : SizeFirst(t, r)}

\* Variant of Carve that leaves a rest idle even if it is empty.
CarveAlways(h, t, n) ==
    LET rest == MemRange(t.offset + AlignUp(n), t.size - AlignUp(n))
    IN  [idle |-> Emplace(h.idle \ At(h.idle, t.offset), rest),
         bySize |-> (h.bySize \ {t}) \cup {rest},
         used |-> Emplace(h.used, MemRange(t.offset, AlignUp(n)))]

\* Take the front of t for n bytes and leave the rest idle.
Carve(h, t, n) ==
    LET aligned == AlignUp(n)
        rest == MemRange(t.offset + aligned, t.size - aligned)
        idle == h.idle \ At(h.idle, t.offset)
    IN  [idle |-> IF t.size > aligned THEN Emplace(idle, rest) ELSE idle,
         bySize |-> IF t.size > aligned THEN (h.bySize \ {t}) \cup {rest}
                    ELSE h.bySize \ {t},
         used |-> Emplace(h.used, MemRange(t.offset, aligned))]

\* What allocate may do: the heap after it and the offset it returns, none
\* if it returns a null pointer.
Allocate(h, n) ==
    LET targets == {t \in BestFit(h, n) : At(h.idle, t.offset) # {}}
    IN  IF ~Admissible(n) \/ targets = {}
        THEN {[heap |-> h, got |-> {}]}
        ELSE {[heap |-> Carve(h, t, n), got |-> {t.offset}] : t \in targets}

\* The skip at the head of a range for an aligned start.
HeadSkip(t, alignment) == (alignment - (t.offset % alignment)) % alignment

\* alignment_matches, in the order of the tree by size.
AlignedFits(h, alignment, n) ==
    {t \in Fits(h, n) : t.size >= AlignUp(n) + HeadSkip(t, alignment)}

\* aligned_allocate erases the range it cuts up from the tree by size only:
\* its entry in the tree by address stays, with the old size.
AllocateAligned(h, alignment, n) ==
    LET fits == AlignedFits(h, alignment, n)
        aligned == AlignUp(n)
        cut(t) ==
            LET skip == HeadSkip(t, alignment)
                head == MemRange(t.offset, skip)
                tail == MemRange(t.offset + skip + aligned,
                              t.size - skip - aligned)
                parts == {r \in {head, tail} : r.size > 0}
                idle == IF skip > 0 THEN Emplace(h.idle, head) ELSE h.idle
            IN [idle |-> IF tail.size > 0 THEN Emplace(idle, tail) ELSE idle,
                bySize |-> (h.bySize \ {t}) \cup parts,
                used |-> Emplace(h.used, MemRange(t.offset + skip, aligned))]
    IN  IF ~Admissible(n) \/ fits = {}
        THEN {[heap |-> h, got |-> {}]}
        ELSE {[heap |-> cut(t), got |-> {t.offset + HeadSkip(t, alignment)}] :
                  t \in {f \in fits : \A r \in fits : SizeFirst(f, r)}}

\* The idle range just below offset o, if it ends there.
PrevRange(h, o) ==
    {q \in h.idle : /\ q.offset < o /\ End(q) = o
                    /\ \A p \in h.idle : p.offset < o => p.offset <= q.offset}

\* Variant of NextRange that forgets to look above.
NextNever(h, u) == {}

NextRange(h, u) == At(h.idle, End(u))

\* The range that remains when u is joined with the idle ranges around it.
Joined(u, below, above) ==
    LET low == IF below = {} THEN u ELSE CHOOSE q \in below : TRUE
        extra == IF above = {} THEN 0 ELSE (CHOOSE q \in above : TRUE).size
    IN  MemRange(low.offset, (End(u) - low.offset) + extra)

\* release of the used range u.
Release(h, u) ==
    LET around == PrevRange(h, u.offset) \cup NextRange(h, u)
        joined == Joined(u, PrevRange(h, u.offset), NextRange(h, u))
    IN  [idle |-> Emplace(h.idle \ around, joined),
         bySize |-> (h.bySize \ around) \cup {joined},
         used |-> h.used \ {u}]

\* release of an address: one that is not in use changes nothing.
ReleaseAt(h, o) ==
    IF At(h.used, o) = {} THEN h
    ELSE Release(h, CHOOSE u \in At(h.used, o) : TRUE)
=============================================================================
