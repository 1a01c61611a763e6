---------------------------- MODULE SymmetricHeap ----------------------------
(***************************************************************************)
(* The collective calls on the symmetric heap: aclshmem_malloc, calloc,     *)
(* align and free (and their aclshmemx_ forms, which do the same on a heap  *)
(* chosen by the caller).  Every PE makes the same calls in the same order, *)
(* as the API requires; each PE has its own memory_manager and the PEs meet *)
(* in the control barrier inside each call.  A call is two steps: up to the *)
(* barrier, and from the barrier to the return.                             *)
(***************************************************************************)
EXTENDS MemoryManager, ControlBarrier, Sequences

CONSTANTS
    Sizes,       \* the sizes an application asks for
    Alignments,  \* and the alignments (powers of two)
    MaxCalls,    \* bound: calls of one application
    MaxFaults    \* bound: barriers and memsets that fail

ASSUME CallAssumption ==
    /\ Sizes \subseteq Nat
    /\ Alignments \subseteq Nat \ {0}
    /\ MaxCalls \in Nat
    /\ MaxFaults \in Nat

VARIABLES
    heap,    \* PE -> its memory_manager
    calls,   \* the calls of the application, chosen by the first PE to get there
    made,    \* PE -> the calls it has made: pointer returned and how it went
    faults   \* failures so far

vars == <<heap, calls, made, faults, entered, left, result>>

Allocators == {"malloc", "calloc", "align"}

Call == [op : Allocators, size : Sizes, alignment : Alignments \cup {1}]
            \cup [op : {"free"}, of : 1 .. MaxCalls]

\* ptr is {} for a null pointer; "memset" is a calloc that could not clear.
Made == [ptr : SUBSET Nat, status : {"pending", "OK", "ERROR", "memset"}]

Init ==
    /\ BarrierInit
    /\ heap = [p \in PEs |-> NewHeap]
    /\ calls = <<>>
    /\ made = [p \in PEs |-> <<>>]
    /\ faults = 0

Freed(k) == \E j \in DOMAIN calls : calls[j].op = "free" /\ calls[j].of = k

\* p makes its next call, c, and is left with the pointer ptr.
Make(p, c, ptr, status) ==
    /\ Outside(p)
    /\ Len(made[p]) < MaxCalls
    /\ IF Len(made[p]) < Len(calls)
       THEN calls[Len(made[p]) + 1] = c /\ UNCHANGED calls
       ELSE calls' = Append(calls, c)
    /\ made' = [made EXCEPT ![p] = Append(@, [ptr |-> ptr, status |-> status])]

Fault == faults < MaxFaults /\ faults' = faults + 1

\* A barrier fails by a fault, or by its time limit when a PE that has made
\* all its calls (some without a barrier) will never enter it.
Abandoned(p) ==
    \E q \in PEs : /\ Outside(q) /\ Len(made[q]) = MaxCalls
                   /\ entered[q] < entered[p]

BarrierFault(p) == Fault \/ (Abandoned(p) /\ UNCHANGED faults)

AllocatorCall(op, n, a) == [op |-> op, size |-> n, alignment |-> a]

Malloc(p) ==
    \E n \in Sizes : \E r \in Allocate(heap[p], n) :
        /\ Make(p, AllocatorCall("malloc", n, 1), r.got, "pending")
        /\ heap' = [heap EXCEPT ![p] = r.heap]
        /\ Enter(p)
        /\ UNCHANGED faults

\* A size the overflow check refuses returns before the barrier.
CallocRefused(p) ==
    \E n \in Sizes :
        /\ ~Admissible(n)
        /\ Make(p, AllocatorCall("calloc", n, 1), {}, "OK")
        /\ UNCHANGED <<heap, faults, barrierVars>>

Calloc(p) ==
    \E n \in Sizes : \E r \in Allocate(heap[p], n) :
        /\ Admissible(n)
        /\ Make(p, AllocatorCall("calloc", n, 1), r.got, "pending")
        /\ heap' = [heap EXCEPT ![p] = r.heap]
        /\ Enter(p)
        /\ UNCHANGED faults

\* aclrtMemset fails: the block is given back, the barrier still follows.
CallocUncleared(p) ==
    \E n \in Sizes : \E r \in Allocate(heap[p], n) : \E o \in r.got :
        /\ Admissible(n)
        /\ Make(p, AllocatorCall("calloc", n, 1), {}, "memset")
        /\ heap' = [heap EXCEPT ![p] = ReleaseAt(r.heap, o)]
        /\ Enter(p)
        /\ Fault

Align(p) ==
    \E n \in Sizes, a \in Alignments : \E r \in AllocateAligned(heap[p], a, n) :
        /\ Make(p, AllocatorCall("align", n, a), r.got, "pending")
        /\ heap' = [heap EXCEPT ![p] = r.heap]
        /\ Enter(p)
        /\ UNCHANGED faults

\* A block is freed by the application at most once.
FreeCall(k) == [op |-> "free", of |-> k]
MayFree(p, k) ==
    /\ calls[k].op \in Allocators
    /\ Len(made[p]) = Len(calls) => ~Freed(k)

\* free of a null pointer returns at once and enters no barrier.
FreeNull(p) ==
    \E k \in DOMAIN made[p] :
        /\ MayFree(p, k)
        /\ made[p][k].ptr = {}
        /\ Make(p, FreeCall(k), {}, "OK")
        /\ UNCHANGED <<heap, faults, barrierVars>>

Free(p) ==
    \E k \in DOMAIN made[p] :
        /\ MayFree(p, k)
        /\ made[p][k].ptr # {}
        /\ Make(p, FreeCall(k), {}, "pending")
        /\ Enter(p)
        /\ UNCHANGED <<heap, faults>>

\* The call p is in, and how it ends.
Current(p) == Len(made[p])
Settle(p, k, ptr, s) ==
    [made EXCEPT ![p][k].ptr = ptr,
                 ![p][Current(p)].status = IF @ = "pending" THEN s ELSE @]

AllocatorReturns(p) ==
    /\ Pass(p)
    /\ calls[Current(p)].op \in Allocators
    /\ made' = Settle(p, Current(p), made[p][Current(p)].ptr, "OK")
    /\ UNCHANGED <<heap, calls, faults>>

\* Variant of AllocatorFails that drops the block without giving it back.
AllocatorForgets(p) ==
    /\ Fail(p)
    /\ BarrierFault(p)
    /\ calls[Current(p)].op \in Allocators
    /\ made' = Settle(p, Current(p), {}, "ERROR")
    /\ UNCHANGED <<heap, calls>>

AllocatorFails(p) ==
    /\ Fail(p)
    /\ BarrierFault(p)
    /\ calls[Current(p)].op \in Allocators
    /\ heap' = [heap EXCEPT ![p] =
                   IF made[p][Current(p)].ptr = {} THEN @
                   ELSE ReleaseAt(@, CHOOSE o \in made[p][Current(p)].ptr : TRUE)]
    /\ made' = Settle(p, Current(p), {}, "ERROR")
    /\ UNCHANGED calls

FreeReturns(p) ==
    /\ Pass(p)
    /\ calls[Current(p)].op = "free"
    /\ LET k == calls[Current(p)].of
       IN  \E o \in made[p][k].ptr :
             /\ heap' = [heap EXCEPT ![p] = ReleaseAt(@, o)]
             /\ made' = Settle(p, k, {}, "OK")
    /\ UNCHANGED <<calls, faults>>

\* The block stays in use for good.
FreeFails(p) ==
    /\ Fail(p)
    /\ BarrierFault(p)
    /\ calls[Current(p)].op = "free"
    /\ made' = [made EXCEPT ![p][Current(p)].status = "ERROR"]
    /\ UNCHANGED <<heap, calls>>

Finished ==
    /\ \A p \in PEs : Outside(p) /\ Len(made[p]) = MaxCalls
    /\ UNCHANGED vars

Step(p) ==
    \/ Malloc(p) \/ CallocRefused(p) \/ Calloc(p) \/ CallocUncleared(p)
    \/ FreeNull(p) \/ Free(p)
    \/ AllocatorReturns(p) \/ AllocatorFails(p)
    \/ FreeReturns(p) \/ FreeFails(p)

Next == (\E p \in PEs : Step(p)) \/ Finished

Spec == Init /\ [][Next]_vars

\* The same with aligned allocations.
AlignedNext == Next \/ \E p \in PEs : Align(p)

AlignedSpec == Init /\ [][AlignedNext]_vars
-----------------------------------------------------------------------------
(* Every heap, pointer and call has its type. *)
TypeOK ==
    /\ heap \in [PEs -> Heaps]
    /\ calls \in Seq(Call)
    /\ made \in [PEs -> Seq(Made)]
    /\ faults \in 0 .. MaxFaults
    /\ entered \in [PEs -> Nat] /\ left \in [PEs -> Nat]
    /\ result \in [PEs -> {"none", "OK", "ERROR"}]

Disjoint(a, b) == End(a) <= b.offset \/ End(b) <= a.offset

Blocks(h) == h.idle \cup h.used

\* The two idle trees hold the same ranges, and no byte is in two ranges.
HeapSound(h) ==
    /\ h.idle = h.bySize
    /\ h.idle \cap h.used = {}
    /\ \A a, b \in Blocks(h) : a # b => Disjoint(a, b)
    /\ \A a \in Blocks(h) : End(a) <= HeapSize

\* No byte is lost, and neighbouring idle ranges are merged.
HeapWhole(h) ==
    /\ \A x \in 0 .. HeapSize - 1 :
         \E a \in Blocks(h) : a.offset <= x /\ x < End(a)
    /\ \A a, b \in h.idle : End(a) # b.offset

(* Through any calls, with any barrier or memset failing on any PE, the     *)
(* trees of memory_manager partition the heap: allocate and release of      *)
(* shmem_mgr.cpp neither lose nor double a byte and leave nothing unmerged. *)
HeapPartitioned == \A p \in PEs : HeapSound(heap[p]) /\ HeapWhole(heap[p])

\* The block of p's call k, for a call that returned a pointer.
Held(p) == {k \in DOMAIN made[p] : made[p][k].ptr # {}}
Block(p, k) ==
    MemRange(CHOOSE o \in made[p][k].ptr : TRUE, AlignUp(calls[k].size))

(* Every block in use belongs to the pointer of exactly one call: no error  *)
(* path of malloc, calloc and free leaves a block nobody can free, or a     *)
(* pointer to a block that is idle.  (A free whose barrier failed keeps     *)
(* its block, which the application still points to.)                       *)
UsedIsHeld ==
    \A p \in PEs :
        /\ heap[p].used = {Block(p, k) : k \in Held(p)}
        /\ \A j, k \in Held(p) : Block(p, j) = Block(p, k) => j = k

(* Two pointers the application holds never address the same byte:          *)
(* "allocate size bytes and returns a pointer to the allocated memory"      *)
(* (include/host/mem/shmem_host_heap.h:46).                                 *)
LiveDisjoint ==
    \A p \in PEs : \A j, k \in Held(p) :
        j # k => Disjoint(Block(p, j), Block(p, k))

\* No call has gone well on one PE and badly on another.
Uniform ==
    \A p, q \in PEs : \A k \in DOMAIN made[p] \cap DOMAIN made[q] :
        \/ made[p][k].status = made[q][k].status
        \/ "pending" \in {made[p][k].status, made[q][k].status}

(* While calls end alike on all PEs: a pointer that malloc or calloc has    *)
(* returned to p and that p has not passed to free is a block in use at the *)
(* same offset on every PE, so that p may access it there.  This needs both *)
(* barriers and the same choice of range on every PE.                       *)
RemoteBlockLive ==
    Uniform =>
        \A p \in PEs : \A k \in Held(p) :
            (/\ made[p][k].status = "OK"
             /\ \A j \in DOMAIN made[p] : calls[j] # FreeCall(k))
            => \A q \in PEs : Block(p, k) \in heap[q].used
=============================================================================
