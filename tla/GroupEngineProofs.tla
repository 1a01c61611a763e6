-------------------------- MODULE GroupEngineProofs --------------------------
(***************************************************************************)
(* Proofs about GroupEngine, for any number of PEs, any job and any time    *)
(* limits: no GET waits for a key the store has, no request is answered     *)
(* twice, the barrier is the abstract ControlBarrier, and an all-gather     *)
(* returns the contributions of its own round in the order of the ranks;    *)
(* and while no time limit ends too soon, the store keeps at most four      *)
(* rounds and only the last barrier can fail.                               *)
(*                                                                          *)
(* The first is inductive as it stands: a handler that creates a key takes  *)
(* all its waiters out, one that changes a key finds none, and a GET        *)
(* becomes a waiter only if its key is absent.  The others rest on GInv,    *)
(* the last two on EInv as well.                                            *)
(***************************************************************************)
EXTENDS GroupEngine, NaturalFacts, FiniteSetTheorems, SequenceTheorems, TLAPS

(* A handler that stores a value (SET, ADD, APPEND) leaves no waiter behind. *)
LEMMA UpdateWakes ==
    ASSUME NoLostWakeup, NEW p, NEW r, NEW value, NEW told, NEW code,
           Update(p, r, value, told, code)
    PROVE  NoLostWakeup'
<1>1. DOMAIN kvStore' = DOMAIN kvStore \cup {r.key}
  BY DEF Update, Store
<1>2. \A w \in waitCtx' : w \in waitCtx /\ w.key # r.key
  BY DEF Update, Waiters, NoLostWakeup
<1> QED BY <1>1, <1>2 DEF NoLostWakeup, Exists

(* No handler of the server leaves a waiter behind. *)
LEMMA HandlerWakes ==
    ASSUME NoLostWakeup, NEW p \in PEs, Handler(p)
    PROVE  NoLostWakeup'
<1>1. CASE SetHandler(p) \/ AddHandler(p) \/ AppendHandler(p)
  <2>1. \E r, value, told, code : Update(p, r, value, told, code)
    BY <1>1 DEF SetHandler, AddHandler, AppendHandler
  <2> QED BY <2>1, UpdateWakes
<1>2. CASE RemoveHandler(p)
  <2>1. waitCtx' = waitCtx /\ DOMAIN kvStore' \subseteq DOMAIN kvStore
    BY <1>2 DEF RemoveHandler, Restrict
  <2> QED BY <2>1 DEF NoLostWakeup, Exists
<1>3. CASE GetHandler(p)
  <2> DEFINE r == Head(requests[p])
  <2>1. kvStore' = kvStore
    BY <1>3 DEF GetHandler
  <2>2. \A w \in waitCtx' : w \in waitCtx \/ (w.key = r.key /\ ~Exists(r.key))
    BY <1>3 DEF GetHandler
  <2> QED BY <2>1, <2>2 DEF NoLostWakeup, Exists
<1> QED BY <1>1, <1>2, <1>3 DEF Handler

(* The collectives leave the server alone. *)
LEMMA CollectiveKeepsServer ==
    ASSUME NEW p \in PEs, Collective(p)
    PROVE  UNCHANGED serverVars
BY DEF Collective, Begin, Added, RemovedAdd, RemovedWait, HasSet, HasWaited,
       HasData, Ends

(* No GET waits for a key the store has. *)
THEOREM NeverLosesWakeup == Spec => []NoLostWakeup
<1>1. Init => NoLostWakeup
  BY DEF Init, StoreInit, NoLostWakeup
<1>2. NoLostWakeup /\ [Next]_vars => NoLostWakeup'
  <2> SUFFICES ASSUME NoLostWakeup, [Next]_vars PROVE NoLostWakeup'
    OBVIOUS
  <2>1. CASE \E p \in PEs : Collective(p)
    BY <2>1, CollectiveKeepsServer DEF serverVars, NoLostWakeup, Exists
  <2>2. CASE \E p \in PEs : Handler(p)
    BY <2>2, HandlerWakes
  <2>3. CASE \E p \in PEs : DropReply(p)
    BY <2>3 DEF DropReply, NoLostWakeup, Exists
  <2>4. CASE Timer
    <3>1. kvStore' = kvStore /\ \A w \in waitCtx' : w \in waitCtx
      BY <2>4 DEF Timer, TimerThreadTask
    <3> QED BY <3>1 DEF NoLostWakeup, Exists
  <2>5. CASE DestroyStore
    BY <2>5 DEF DestroyStore, Shutdown, NoLostWakeup
  <2>6. CASE UNCHANGED vars
    BY <2>6 DEF vars, storeVars, NoLostWakeup, Exists
  <2> QED BY <2>1, <2>2, <2>3, <2>4, <2>5, <2>6 DEF Next
<1> QED BY <1>1, <1>2, PTL DEF Spec
-----------------------------------------------------------------------------
(* The barrier.  A PE gets OK because it saw the key that opens its round;  *)
(* that key was set by a PE whose ADD or APPEND returned NPEs; and the      *)
(* count in the store never exceeds the number of PEs whose contribution to *)
(* this round was handled, even if the round was removed in between or its  *)
(* request outlived the wait for it.  Answers are matched to waits by their *)
(* number, so an invariant ties the last number of a PE to what it waits    *)
(* for.                                                                     *)

Adds == {"ADD", "APPEND"}
Codes == {"SUCCESS", "NOT_EXIST", "TIMEOUT"}
Requests == [pe : PEs, seq : Nat \ {0}, key : Keys, value : Seq(Nat),
             op : {"SET", "GET", "ADD", "REMOVE", "APPEND"}]
Replies == [pe : PEs, seq : Nat \ {0}, code : Codes, value : Seq(Nat)]

\* Every PE has begun round sn of this kind of collective.
Entered(kind, sn) == \A q \in PEs : CountOf(kind, started[q]) >= sn

\* The contribution of q to round sn of a kind is still on its way.
OnItsWay(q, kind, sn) ==
    \E i \in DOMAIN requests[q] :
        requests[q][i].op \in Adds /\ requests[q][i].key = <<kind, sn, "A">>

\* The PEs whose contribution has been handled, or was lost with the store.
Arrived(kind, sn) ==
    {q \in PEs : CountOf(kind, started[q]) >= sn /\ ~OnItsWay(q, kind, sn)}

\* What an all-gather has collected: contributions to round sn of different
\* PEs of this set.
Gathered(v, sn, from) ==
    /\ \A i \in DOMAIN v : \E q \in from : v[i] = Contribution(q, sn)
    /\ \A i, j \in DOMAIN v : i # j => v[i] # v[j]

\* The kinds of values the variables have, which TypeOK says less exactly.
Shape ==
    /\ program \in Seq({"B", "G"}) /\ Len(program) > 1
    /\ maxLate \in Nat /\ late \in 0 .. maxLate
    /\ running \in BOOLEAN
    /\ DOMAIN kvStore \subseteq Keys
    /\ \A k \in DOMAIN kvStore : kvStore[k] \in Seq(Nat)
    /\ waitCtx \subseteq [pe : PEs, seq : Nat \ {0}, key : Keys]
    /\ requests \in [PEs -> Seq(Requests)]
    /\ replies \subseteq Replies
    /\ seqNo \in [PEs -> Nat] /\ pending \in [PEs -> SUBSET Nat]
    /\ started \in [PEs -> Nat]
    /\ results \in [PEs -> Seq({"OK", "ERROR"})]
    /\ pc \in [PEs -> Operations \cup {"idle"}]
    /\ val \in [PEs -> 0 .. NPEs]

\* A PE is in one collective at a time and waits for one answer.  What it
\* knows of its round: a PE about to open it, or that has seen it complete,
\* knows that all have begun it.
PlaceAt(p) ==
    /\ started[p] <= Len(program)
    /\ pending[p] = IF pc[p] = "idle" THEN {} ELSE {seqNo[p]}
    /\ Len(results[p]) = IF pc[p] = "idle" THEN started[p] ELSE started[p] - 1
    /\ pc[p] = "data" => Kind(p) = "G"
    /\ \/ pc[p] = "set"
       \/ pc[p] \in {"rmAdd", "rmWait"} /\ val[p] = NPEs
       => Entered(Kind(p), Sn(p))

\* A request of p, whether p still waits for it or not.
RequestAt(p, r) ==
    /\ r.pe = p /\ r.seq <= seqNo[p]
    /\ r.op = "ADD" => /\ r.key[1] = "B" /\ r.key[3] = "A" /\ r.value = <<1>>
                       /\ r.key[2] \in 1 .. CountOf("B", started[p])
    /\ r.op = "APPEND" => /\ r.key[1] = "G" /\ r.key[3] = "A"
                          /\ r.key[2] \in 1 .. CountOf("G", started[p])
                          /\ r.value = <<Contribution(p, r.key[2])>>
    /\ r.op = "SET" => /\ r.key[3] = "W" /\ r.value = SMEM_GROUP_SET_STR
                       /\ Entered(r.key[1], r.key[2])

\* The request p waits for is the one its place in the collective calls for.
Awaits(p, s) == pc[p] # "idle" /\ s = seqNo[p]
Expected(p, op, key) ==
    CASE pc[p] = "add" -> op \in Adds /\ key = Key(p, "A")
      [] pc[p] \in {"rmAdd", "rmWait"} -> op = "REMOVE"
      [] pc[p] = "set" -> op = "SET"
      [] pc[p] = "get" -> op = "GET" /\ key = Key(p, "W")
      [] OTHER -> op = "GET" /\ key = Key(p, "A")

QueueAt(p) ==
    /\ \A i \in DOMAIN requests[p] :
         /\ RequestAt(p, requests[p][i])
         /\ Awaits(p, requests[p][i].seq) =>
                Expected(p, requests[p][i].op, requests[p][i].key)
    /\ \A i, j \in DOMAIN requests[p] : i < j =>
         /\ requests[p][i].seq < requests[p][j].seq
         /\ requests[p][i].op \in Adds /\ requests[p][j].op \in Adds =>
                requests[p][i].key # requests[p][j].key

WaiterAt(w) ==
    /\ w.seq <= seqNo[w.pe]
    /\ Awaits(w.pe, w.seq) => Expected(w.pe, "GET", w.key)

\* An answer p waits for: a count is at most NPEs, and is NPEs only if all
\* have begun the round; the key that opens a round is seen only then; data
\* are contributions to this round.
ReplyAt(r) ==
    /\ r.seq <= seqNo[r.pe]
    /\ Awaits(r.pe, r.seq) /\ r.code = "SUCCESS" =>
         /\ pc[r.pe] = "add" =>
              /\ r.value[1] \in 1 .. NPEs
              /\ r.value[1] = NPEs => Entered(Kind(r.pe), Sn(r.pe))
         /\ pc[r.pe] = "get" =>
              r.value = SMEM_GROUP_SET_STR /\ Entered(Kind(r.pe), Sn(r.pe))
         /\ pc[r.pe] = "data" => Gathered(r.value, Sn(r.pe), PEs)

\* The count of a round is at most the number of its contributions handled,
\* and the data of a round are some of these.
StoredAt(k) ==
    /\ k[3] = "A" /\ k[1] = "B" =>
         /\ Len(kvStore[k]) = 1
         /\ kvStore[k][1] \in 1 .. Cardinality(Arrived("B", k[2]))
    /\ k[3] = "A" /\ k[1] = "G" =>
         /\ Len(kvStore[k]) \in 1 .. Cardinality(Arrived("G", k[2]))
         /\ Gathered(kvStore[k], k[2], Arrived("G", k[2]))
    /\ k[3] = "W" => kvStore[k] = SMEM_GROUP_SET_STR /\ Entered(k[1], k[2])

\* A request is in one place: queued, waiting or answered.
Same(a, b) == a.pe = b.pe /\ a.seq = b.seq
OnePlace ==
    /\ \A w, x \in waitCtx : Same(w, x) => w = x
    /\ \A r, s \in replies : Same(r, s) => r = s
    /\ \A w \in waitCtx : \A r \in replies : ~Same(r, w)
    /\ \A p \in PEs : \A i \in DOMAIN requests[p] :
         /\ \A w \in waitCtx : ~Same(w, requests[p][i])
         /\ \A r \in replies : ~Same(r, requests[p][i])

GInv ==
    /\ Shape /\ OnePlace
    /\ \A p \in PEs : PlaceAt(p) /\ QueueAt(p)
    /\ \A w \in waitCtx : WaiterAt(w)
    /\ \A r \in replies : ReplyAt(r)
    /\ \A k \in DOMAIN kvStore : StoredAt(k)

\* One collective more adds one to the count of its kind.
LEMMA CountStep ==
    ASSUME NEW kind, NEW n \in Nat
    PROVE  /\ CountOf(kind, n) \in Nat
           /\ CountOf(kind, n + 1) = IF program[n + 1] = kind
                                     THEN CountOf(kind, n) + 1
                                     ELSE CountOf(kind, n)
<1> DEFINE S == {i \in 1 .. n : program[i] = kind}
           T == {i \in 1 .. n + 1 : program[i] = kind}
<1>1. IsFiniteSet(S) /\ Cardinality(S) \in Nat
  <2>1. IsFiniteSet(1 .. n)
    BY FS_Interval
  <2>2. S \in SUBSET (1 .. n)
    OBVIOUS
  <2> QED BY <2>1, <2>2, FS_Subset, FS_CardinalityType
<1>2. n + 1 \notin S
  OBVIOUS
<1>3. CASE program[n + 1] = kind
  <2>1. T = S \cup {n + 1}
    BY <1>3
  <2>2. Cardinality(T) = Cardinality(S) + 1
    BY <1>1, <1>2, <2>1, FS_AddElement
  <2> QED BY <1>1, <1>3, <2>2 DEF CountOf
<1>4. CASE program[n + 1] # kind
  <2>1. T = S
    BY <1>4
  <2> QED BY <1>1, <1>4, <2>1 DEF CountOf
<1> QED BY <1>3, <1>4

LEMMA CountMonotone ==
    ASSUME NEW kind, NEW n \in Nat, NEW m \in Nat, n <= m
    PROVE  CountOf(kind, n) <= CountOf(kind, m)
<1>1. {i \in 1 .. n : program[i] = kind}
        \in SUBSET {i \in 1 .. m : program[i] = kind}
  OBVIOUS
<1>2. IsFiniteSet({i \in 1 .. m : program[i] = kind})
  <2>1. IsFiniteSet(1 .. m)
    BY FS_Interval
  <2>2. {i \in 1 .. m : program[i] = kind} \in SUBSET (1 .. m)
    OBVIOUS
  <2> QED BY <2>1, <2>2, FS_Subset
<1> QED BY <1>1, <1>2, FS_Subset DEF CountOf

LEMMA RanksAreNumbers ==
    /\ IsFiniteSet(PEs) /\ NPEs \in Nat /\ NPEs > 1 /\ NPEs = Cardinality(PEs)
    /\ \A p \in PEs : p \in Nat /\ p < NPEs
<1>1. NPEs \in Nat /\ IsFiniteSet(PEs) /\ PEs = 0 .. NPEs - 1 /\ NPEs > 1
  BY GroupAssumption, FS_CardinalityType DEF NPEs
<1>2. \A p \in 0 .. NPEs - 1 : p \in Nat /\ p < NPEs
  BY <1>1
<1> QED BY <1>1, <1>2 DEF NPEs

\* A count that reaches NPEs tells that all have begun the round.
LEMMA AllArrived ==
    ASSUME NEW kind, NEW sn
    PROVE  /\ IsFiniteSet(Arrived(kind, sn))
           /\ Cardinality(Arrived(kind, sn)) \in 0 .. NPEs
           /\ Cardinality(Arrived(kind, sn)) = NPEs => Entered(kind, sn)
<1>1. Arrived(kind, sn) \in SUBSET PEs
  BY DEF Arrived
<1>2. /\ IsFiniteSet(Arrived(kind, sn))
      /\ Cardinality(Arrived(kind, sn)) <= NPEs
      /\ Cardinality(Arrived(kind, sn)) = NPEs => Arrived(kind, sn) = PEs
  BY <1>1, GroupAssumption, FS_Subset DEF NPEs
<1>3. Cardinality(Arrived(kind, sn)) \in Nat /\ NPEs \in Nat
  BY <1>2, GroupAssumption, FS_CardinalityType DEF NPEs
<1> QED BY <1>2, <1>3 DEF Arrived, Entered

LEMMA GatheredFromMore ==
    ASSUME NEW v, NEW sn, NEW S, NEW T, S \subseteq T, Gathered(v, sn, S)
    PROVE  Gathered(v, sn, T)
BY DEF Gathered

\* Nobody goes back.
Onward == UNCHANGED program /\ \A q \in PEs : started[q] <= started'[q]

LEMMA EnteredStays ==
    ASSUME Shape, Shape', Onward, NEW kind, NEW sn \in Nat, Entered(kind, sn)
    PROVE  Entered(kind, sn)'
<1> SUFFICES ASSUME NEW q \in PEs PROVE CountOf(kind, started'[q]) >= sn
  BY DEF Entered, CountOf, Onward
<1>1. /\ started[q] \in Nat /\ started'[q] \in Nat /\ started[q] <= started'[q]
      /\ CountOf(kind, started[q]) >= sn
  BY DEF Shape, Onward, Entered
<1>2. /\ CountOf(kind, started[q]) <= CountOf(kind, started'[q])
      /\ CountOf(kind, started[q]) \in Nat /\ CountOf(kind, started'[q]) \in Nat
  BY <1>1, CountMonotone, CountStep
<1> QED BY <1>1, <1>2

\* What has arrived stays so unless its request is queued again.
Forgetful ==
    \A q \in PEs, kind \in {"B", "G"}, sn \in Nat :
        CountOf(kind, started[q]) >= sn /\ OnItsWay(q, kind, sn)'
            => OnItsWay(q, kind, sn)

LEMMA StoredStays ==
    ASSUME Shape, Shape', Onward, Forgetful, NEW k \in Keys, StoredAt(k),
           kvStore'[k] = kvStore[k]
    PROVE  StoredAt(k)'
<1>1. k[1] \in {"B", "G"} /\ k[2] \in Nat
  BY DEF Keys
<1>2. ASSUME NEW kind \in {"B", "G"}, NEW sn \in Nat
      PROVE  /\ Cardinality(Arrived(kind, sn)) <= Cardinality(Arrived(kind, sn)')
             /\ Arrived(kind, sn) \subseteq Arrived(kind, sn)'
  <2>1. Arrived(kind, sn) \subseteq Arrived(kind, sn)'
    <3> SUFFICES ASSUME NEW q \in Arrived(kind, sn) PROVE q \in Arrived(kind, sn)'
      OBVIOUS
    <3>1. q \in PEs /\ CountOf(kind, started[q]) >= sn /\ ~OnItsWay(q, kind, sn)
      BY DEF Arrived
    <3>2. ~OnItsWay(q, kind, sn)'
      BY <3>1 DEF Forgetful
    <3>3. /\ started[q] \in Nat /\ started'[q] \in Nat
          /\ started[q] <= started'[q] /\ program' = program
      BY <3>1 DEF Shape, Onward
    <3>4. /\ CountOf(kind, started[q]) <= CountOf(kind, started'[q])
          /\ CountOf(kind, started[q]) \in Nat
          /\ CountOf(kind, started'[q]) \in Nat
      BY <3>3, CountMonotone, CountStep
    <3>5. CountOf(kind, started'[q]) >= sn
      BY <3>1, <3>4
    <3>6. CountOf(kind, started[q])' >= sn
      BY <3>3, <3>5 DEF CountOf
    <3> QED BY <3>1, <3>2, <3>6 DEF Arrived
  <2>2. IsFiniteSet(Arrived(kind, sn)')
    <3>1. Arrived(kind, sn)' \in SUBSET PEs
      BY DEF Arrived
    <3> QED BY <3>1, GroupAssumption, FS_Subset
  <2> QED BY <2>1, <2>2, FS_Subset
<1>3. /\ Cardinality(Arrived(k[1], k[2])) \in Nat
      /\ Cardinality(Arrived(k[1], k[2])') \in Nat
  <2>1. Arrived(k[1], k[2])' \in SUBSET PEs
    BY DEF Arrived
  <2>2. IsFiniteSet(Arrived(k[1], k[2])')
    BY <2>1, GroupAssumption, FS_Subset
  <2> QED BY <2>2, AllArrived, FS_CardinalityType
<1>4. /\ Cardinality(Arrived(k[1], k[2])) <= Cardinality(Arrived(k[1], k[2])')
      /\ Arrived(k[1], k[2]) \subseteq Arrived(k[1], k[2])'
  BY <1>1, <1>2
<1>5. CASE k[3] = "A" /\ k[1] = "B"
  <2>1. Len(kvStore[k]) = 1 /\ kvStore[k][1] \in 1 .. Cardinality(Arrived("B", k[2]))
    BY <1>5 DEF StoredAt
  <2>2. kvStore'[k][1] \in 1 .. Cardinality(Arrived("B", k[2])')
    BY <1>3, <1>4, <1>5, <2>1
  <2> QED BY <1>5, <2>1, <2>2 DEF StoredAt
<1>6. CASE k[3] = "A" /\ k[1] = "G"
  <2>1. /\ Len(kvStore[k]) \in 1 .. Cardinality(Arrived("G", k[2]))
        /\ Gathered(kvStore[k], k[2], Arrived("G", k[2]))
    BY <1>6 DEF StoredAt
  <2>2. Len(kvStore'[k]) \in 1 .. Cardinality(Arrived("G", k[2])')
    BY <1>3, <1>4, <1>6, <2>1
  <2>3. PICK S : S = Arrived("G", k[2])'
    OBVIOUS
  <2>4. Gathered(kvStore'[k], k[2], S)
    BY <1>4, <1>6, <2>1, <2>3, GatheredFromMore
  <2>5. Gathered(kvStore[k], k[2], Arrived("G", k[2]))'
    BY <2>3, <2>4 DEF Gathered
  <2> QED BY <1>6, <2>2, <2>5 DEF StoredAt
<1>7. CASE k[3] = "W"
  <2>1. kvStore[k] = SMEM_GROUP_SET_STR /\ Entered(k[1], k[2])
    BY <1>7 DEF StoredAt
  <2>2. Entered(k[1], k[2])'
    BY <1>1, <2>1, EnteredStays
  <2> QED BY <1>7, <2>1, <2>2 DEF StoredAt
<1>8. k[3] \in {"A", "W"}
  BY DEF Keys
<1> QED BY <1>1, <1>5, <1>6, <1>7, <1>8

\* A PE that does nothing, and one that goes on to its next request or to
\* the end of its collective.
SamePlace(q) ==
    /\ pc'[q] = pc[q] /\ started'[q] = started[q] /\ val'[q] = val[q]
    /\ seqNo'[q] = seqNo[q] /\ pending'[q] = pending[q]
    /\ results'[q] = results[q]
Moved(q) ==
    \/ seqNo'[q] = seqNo[q] + 1
    \/ pc'[q] = "idle" /\ seqNo'[q] = seqNo[q]

LEMMA RoundType ==
    ASSUME Shape, NEW q \in PEs, PlaceAt(q), pc[q] # "idle"
    PROVE  /\ started[q] \in 1 .. Len(program)
           /\ Kind(q) \in {"B", "G"} /\ Sn(q) \in Nat
           /\ \A suffix \in {"A", "W"} : Key(q, suffix) \in Keys
<1>1. started[q] \in Nat /\ Len(results[q]) \in Nat /\ Len(program) \in Nat
  BY DEF Shape
<1>2. started[q] \in 1 .. Len(program)
  BY <1>1 DEF PlaceAt
<1>3. Kind(q) \in {"B", "G"}
  BY <1>2 DEF Kind, Shape
<1>4. Sn(q) \in Nat
  BY <1>1, CountStep DEF Sn
<1> QED BY <1>2, <1>3, <1>4 DEF Key, Keys

LEMMA SameRound ==
    ASSUME NEW q, SamePlace(q), UNCHANGED program
    PROVE  /\ Kind(q)' = Kind(q) /\ Sn(q)' = Sn(q)
           /\ \A suffix : Key(q, suffix)' = Key(q, suffix)
BY DEF SamePlace, Kind, Sn, Key, CountOf

LEMMA PlaceStays ==
    ASSUME Shape, Shape', Onward, NEW q \in PEs, SamePlace(q), PlaceAt(q)
    PROVE  PlaceAt(q)'
<1>1. Kind(q)' = Kind(q) /\ Sn(q)' = Sn(q)
  BY SameRound DEF Onward
<1>2. pc[q] # "idle" /\ Entered(Kind(q), Sn(q)) => Entered(Kind(q), Sn(q))'
  <2> SUFFICES ASSUME pc[q] # "idle", Entered(Kind(q), Sn(q))
               PROVE  Entered(Kind(q), Sn(q))'
    OBVIOUS
  <2>1. PICK kind \in {"B", "G"}, sn \in Nat : kind = Kind(q) /\ sn = Sn(q)
    BY RoundType
  <2>2. Entered(kind, sn)'
    BY <2>1, EnteredStays
  <2> QED BY <1>1, <2>1, <2>2 DEF Entered
<1> QED BY <1>1, <1>2 DEF PlaceAt, SamePlace, Onward

LEMMA RequestStays ==
    ASSUME Shape, Shape', Onward, NEW q \in PEs, NEW r \in Requests,
           RequestAt(q, r), seqNo[q] <= seqNo'[q]
    PROVE  RequestAt(q, r)'
<1>1. /\ started[q] \in Nat /\ started'[q] \in Nat /\ started[q] <= started'[q]
      /\ seqNo[q] \in Nat /\ seqNo'[q] \in Nat /\ program' = program
      /\ r.key \in Keys /\ r.seq \in Nat
  BY DEF Shape, Onward, Requests
<1>2. \A kind \in {"B", "G"} :
        /\ CountOf(kind, started[q]) \in Nat /\ CountOf(kind, started'[q]) \in Nat
        /\ CountOf(kind, started[q]) <= CountOf(kind, started'[q])
        /\ CountOf(kind, started[q])' = CountOf(kind, started'[q])
  <2>1. \A kind : CountOf(kind, started[q])' = CountOf(kind, started'[q])
    BY <1>1 DEF CountOf
  <2> QED BY <1>1, <2>1, CountStep, CountMonotone
<1>3. r.key[2] \in Nat
  BY <1>1 DEF Keys
<1>4. r.op = "SET" => Entered(r.key[1], r.key[2])'
  BY <1>3, EnteredStays DEF RequestAt
<1>5. r.seq <= seqNo'[q]
  BY <1>1 DEF RequestAt
<1>6. r.op = "ADD" => r.key[2] \in 1 .. CountOf("B", started[q])'
  BY <1>2, <1>3 DEF RequestAt
<1>7. r.op = "APPEND" => r.key[2] \in 1 .. CountOf("G", started[q])'
  BY <1>2, <1>3 DEF RequestAt
<1> QED BY <1>4, <1>5, <1>6, <1>7 DEF RequestAt

LEMMA ExpectedStays ==
    ASSUME NEW q, SamePlace(q), UNCHANGED program, NEW op, NEW key
    PROVE  Expected(q, op, key)' <=> Expected(q, op, key)
<1>1. \A suffix : Key(q, suffix)' = Key(q, suffix)
  BY SameRound
<1> QED BY <1>1 DEF Expected, SamePlace

\* A number once used is not used again.
LEMMA NotAwaited ==
    ASSUME Shape, Shape', NEW q \in PEs, Moved(q), NEW s \in Nat, s <= seqNo[q]
    PROVE  ~Awaits(q, s)'
BY DEF Shape, Moved, Awaits

LEMMA WaiterStays ==
    ASSUME Shape, Shape', Onward, NEW w \in waitCtx, WaiterAt(w),
           SamePlace(w.pe) \/ Moved(w.pe)
    PROVE  WaiterAt(w)'
<1>1. /\ w.pe \in PEs /\ w.seq \in Nat /\ seqNo[w.pe] \in Nat
      /\ seqNo'[w.pe] \in Nat /\ w.seq <= seqNo[w.pe] /\ UNCHANGED program
  BY DEF Shape, WaiterAt, Onward
<1>2. w.seq <= seqNo'[w.pe]
  BY <1>1 DEF SamePlace, Moved
<1>3. CASE Moved(w.pe)
  BY <1>1, <1>2, <1>3, NotAwaited DEF WaiterAt
<1>4. CASE SamePlace(w.pe)
  <2>1. Expected(w.pe, "GET", w.key)' <=> Expected(w.pe, "GET", w.key)
    BY <1>1, <1>4, ExpectedStays
  <2> QED BY <1>2, <1>4, <2>1 DEF WaiterAt, SamePlace, Awaits
<1> QED BY <1>3, <1>4

LEMMA ReplyStays ==
    ASSUME Shape, Shape', Onward, NEW r \in Replies, ReplyAt(r), PlaceAt(r.pe),
           SamePlace(r.pe) \/ Moved(r.pe)
    PROVE  ReplyAt(r)'
<1>1. /\ r.pe \in PEs /\ r.seq \in Nat /\ seqNo[r.pe] \in Nat
      /\ seqNo'[r.pe] \in Nat /\ r.seq <= seqNo[r.pe] /\ UNCHANGED program
  BY DEF Shape, ReplyAt, Onward, Replies
<1>2. r.seq <= seqNo'[r.pe]
  BY <1>1 DEF SamePlace, Moved
<1>3. CASE Moved(r.pe)
  BY <1>1, <1>2, <1>3, NotAwaited DEF ReplyAt
<1>4. CASE SamePlace(r.pe)
  <2>1. Kind(r.pe)' = Kind(r.pe) /\ Sn(r.pe)' = Sn(r.pe)
    BY <1>1, <1>4, SameRound
  <2>2. pc[r.pe] # "idle" /\ Entered(Kind(r.pe), Sn(r.pe))
          => Entered(Kind(r.pe), Sn(r.pe))'
    <3> SUFFICES ASSUME pc[r.pe] # "idle", Entered(Kind(r.pe), Sn(r.pe))
                 PROVE  Entered(Kind(r.pe), Sn(r.pe))'
      OBVIOUS
    <3>1. PICK kind \in {"B", "G"}, sn \in Nat : kind = Kind(r.pe) /\ sn = Sn(r.pe)
      BY <1>1, RoundType
    <3>2. Entered(kind, sn)'
      BY <3>1, EnteredStays
    <3> QED BY <2>1, <3>1, <3>2 DEF Entered
  <2>3. Awaits(r.pe, r.seq)' <=> Awaits(r.pe, r.seq)
    BY <1>4 DEF SamePlace, Awaits
  <2>4. pc'[r.pe] = pc[r.pe]
    BY <1>4 DEF SamePlace
  <2>5. Gathered(r.value, Sn(r.pe), PEs) => Gathered(r.value, Sn(r.pe), PEs)'
    BY <2>1 DEF Gathered
  <2> QED BY <1>2, <2>2, <2>3, <2>4, <2>5 DEF ReplyAt, Awaits
<1> QED BY <1>3, <1>4

\* What a step of p in its collective leaves alone.
ClientFrame(p) ==
    /\ UNCHANGED <<program, maxLate, running, kvStore, waitCtx>>
    /\ replies' \subseteq replies
    /\ late' \in 0 .. maxLate
    /\ pc' \in [PEs -> Operations \cup {"idle"}]
    /\ started' \in [PEs -> Nat] /\ started[p] <= started'[p]
    /\ results' \in [PEs -> Seq({"OK", "ERROR"})]
    /\ val' \in [PEs -> 0 .. NPEs]
    /\ \A q \in PEs \ {p} :
         /\ pc'[q] = pc[q] /\ started'[q] = started[q] /\ val'[q] = val[q]
         /\ results'[q] = results[q]

LEMMA ClientOnward ==
    ASSUME Shape, NEW p \in PEs, ClientFrame(p)
    PROVE  Onward
<1>1. \A q \in PEs : q # p => started'[q] = started[q] /\ started[q] \in Nat
  BY DEF ClientFrame, Shape
<1>2. ASSUME NEW q \in PEs PROVE started[q] <= started'[q]
  <2>1. CASE q = p BY <2>1 DEF ClientFrame
  <2>2. CASE q # p BY <1>1, <2>2
  <2> QED BY <2>1, <2>2
<1> QED BY <1>2 DEF Onward, ClientFrame

\* The parts of the invariant that do not concern p itself.
LEMMA ClientOthers ==
    ASSUME GInv, Shape', NEW p \in PEs, ClientFrame(p), Moved(p), Forgetful,
           \A q \in PEs \ {p} : SamePlace(q) /\ requests'[q] = requests[q]
    PROVE  /\ \A q \in PEs \ {p} : PlaceAt(q)' /\ QueueAt(q)'
           /\ \A w \in waitCtx' : WaiterAt(w)'
           /\ \A r \in replies' : ReplyAt(r)'
           /\ \A k \in DOMAIN kvStore' : StoredAt(k)'
<1>1. Shape /\ Onward
  BY ClientOnward DEF GInv
<1>2. \A q \in PEs : SamePlace(q) \/ Moved(q)
  OBVIOUS
<1>3. ASSUME NEW q \in PEs \ {p} PROVE PlaceAt(q)' /\ QueueAt(q)'
  <2>1. PlaceAt(q)'
    BY <1>1, PlaceStays DEF GInv
  <2>2. requests'[q] = requests[q] /\ requests[q] \in Seq(Requests)
        /\ QueueAt(q) /\ UNCHANGED program /\ seqNo'[q] = seqNo[q]
        /\ seqNo[q] \in Nat /\ SamePlace(q)
    BY <1>1 DEF GInv, Shape, Onward, SamePlace
  <2>3. ASSUME NEW i \in DOMAIN requests[q]
        PROVE  /\ RequestAt(q, requests[q][i])'
               /\ Awaits(q, requests[q][i].seq)' =>
                    Expected(q, requests[q][i].op, requests[q][i].key)'
    <3>1. PICK r \in Requests : r = requests[q][i]
      BY <2>2
    <3>2. RequestAt(q, r) /\ (Awaits(q, r.seq) => Expected(q, r.op, r.key))
      BY <2>2, <3>1 DEF QueueAt
    <3>3. RequestAt(q, r)'
      BY <1>1, <2>2, <3>2, RequestStays
    <3>4. Awaits(q, r.seq)' => Expected(q, r.op, r.key)'
      BY <2>2, <3>2, ExpectedStays DEF Awaits, SamePlace
    <3>5. requests'[q][i] = r
      BY <2>2, <3>1
    <3> QED BY <3>3, <3>4, <3>5
  <2> QED BY <2>1, <2>2, <2>3 DEF QueueAt
<1>4. ASSUME NEW w \in waitCtx' PROVE WaiterAt(w)'
  <2>1. w \in waitCtx /\ w.pe \in PEs
    BY <1>1 DEF ClientFrame, Shape
  <2> QED BY <1>1, <1>2, <2>1, WaiterStays DEF GInv
<1>5. ASSUME NEW r \in replies' PROVE ReplyAt(r)'
  <2>1. r \in replies /\ r \in Replies /\ r.pe \in PEs
    BY <1>1 DEF ClientFrame, Shape, Replies
  <2> QED BY <1>1, <1>2, <2>1, ReplyStays DEF GInv
<1>6. ASSUME NEW k \in DOMAIN kvStore' PROVE StoredAt(k)'
  <2>1. k \in DOMAIN kvStore /\ k \in Keys /\ kvStore'[k] = kvStore[k]
    BY <1>1 DEF ClientFrame, Shape
  <2> QED BY <1>1, <2>1, StoredStays DEF GInv
<1> QED BY <1>3, <1>4, <1>5, <1>6

\* A round that p had not begun.
NewRound(p, key) == key[2] > CountOf(key[1], started[p]) /\ key[3] = "A"

\* p sends its next request.
LEMMA SendStep ==
    ASSUME GInv, NEW p \in PEs, ClientFrame(p),
           NEW op, NEW key, NEW value, Send(p, op, key, value), pc'[p] # "idle",
           NEW r \in Requests,
           r = [pe |-> p, seq |-> seqNo[p] + 1, op |-> op, key |-> key,
                value |-> value],
           seqNo'[p] = seqNo[p] + 1 => RequestAt(p, r)' /\ Expected(p, op, key)',
           op \notin Adds \/ NewRound(p, key),
           seqNo'[p] = seqNo[p] + 1 /\ pending'[p] = {seqNo'[p]} => PlaceAt(p)'
    PROVE  GInv'
<1>0. /\ r.pe = p /\ r.seq = seqNo[p] + 1 /\ r.op = op
      /\ r.key = key /\ r.value = value
  OBVIOUS
<1>1. Shape /\ PlaceAt(p) /\ QueueAt(p) /\ OnePlace
  BY DEF GInv
<1>2. /\ seqNo \in [PEs -> Nat] /\ pending \in [PEs -> SUBSET Nat]
      /\ requests \in [PEs -> Seq(Requests)] /\ started[p] \in Nat
  BY <1>1 DEF Shape
<1>3. /\ seqNo' = [seqNo EXCEPT ![p] = seqNo[p] + 1]
      /\ pending' = [pending EXCEPT ![p] = {seqNo[p] + 1}]
      /\ requests' = [requests EXCEPT ![p] = IF running THEN Append(requests[p], r)
                                             ELSE requests[p]]
  BY DEF Send
<1>4. /\ seqNo' \in [PEs -> Nat] /\ pending' \in [PEs -> SUBSET Nat]
      /\ requests' \in [PEs -> Seq(Requests)]
      /\ seqNo'[p] = seqNo[p] + 1 /\ pending'[p] = {seqNo'[p]}
      /\ requests'[p] = IF running THEN Append(requests[p], r) ELSE requests[p]
      /\ \A q \in PEs \ {p} : /\ seqNo'[q] = seqNo[q] /\ pending'[q] = pending[q]
                              /\ requests'[q] = requests[q]
  BY <1>2, <1>3
<1>5. Shape'
  BY <1>1, <1>4 DEF ClientFrame, Shape
<1>6. \A q \in PEs \ {p} : SamePlace(q) /\ requests'[q] = requests[q]
  BY <1>4 DEF ClientFrame, SamePlace
<1>7. Moved(p)
  BY <1>4 DEF Moved
<1>8. /\ \A i \in DOMAIN requests'[p] :
           i \in DOMAIN requests[p] \/ (i = Len(requests[p]) + 1 /\ running)
      /\ \A i \in DOMAIN requests[p] : requests'[p][i] = requests[p][i]
      /\ running => requests'[p][Len(requests[p]) + 1] = r
  <2>1. requests[p] \in Seq(Requests)
    BY <1>2
  <2> QED BY <1>4, <2>1
<1>9. Forgetful
  <2> SUFFICES ASSUME NEW q \in PEs, NEW kind \in {"B", "G"}, NEW sn \in Nat,
                      CountOf(kind, started[q]) >= sn, OnItsWay(q, kind, sn)'
               PROVE  OnItsWay(q, kind, sn)
    BY DEF Forgetful
  <2>1. CASE q # p
    <3>1. requests'[q] = requests[q]
      BY <1>4, <2>1
    <3> QED BY <3>1 DEF OnItsWay
  <2>2. CASE q = p
    <3>1. PICK i \in DOMAIN requests'[p] :
              requests'[p][i].op \in Adds /\ requests'[p][i].key = <<kind, sn, "A">>
      BY <2>2 DEF OnItsWay
    <3>2. CASE i \in DOMAIN requests[p]
      BY <1>8, <2>2, <3>1, <3>2 DEF OnItsWay
    <3>3. CASE i = Len(requests[p]) + 1 /\ running
      <4>1. op \in Adds /\ key = <<kind, sn, "A">>
        BY <1>0, <1>8, <3>1, <3>3
      <4>2. sn > CountOf(kind, started[p]) /\ CountOf(kind, started[p]) \in Nat
        BY <1>2, <4>1, CountStep DEF NewRound
      <4> QED BY <2>2, <4>2
    <3> QED BY <1>8, <3>2, <3>3
  <2> QED BY <2>1, <2>2
<1>10. /\ \A q \in PEs \ {p} : PlaceAt(q)' /\ QueueAt(q)'
       /\ \A w \in waitCtx' : WaiterAt(w)'
       /\ \A x \in replies' : ReplyAt(x)'
       /\ \A k \in DOMAIN kvStore' : StoredAt(k)'
  BY <1>5, <1>6, <1>7, <1>9, ClientOthers
<1>11. Onward /\ requests[p] \in Seq(Requests) /\ seqNo[p] \in Nat
  BY <1>1, <1>2, ClientOnward
<1>12. \A i \in DOMAIN requests[p] :
          /\ requests[p][i] \in Requests /\ requests[p][i].seq \in Nat
          /\ requests[p][i].seq <= seqNo[p] /\ requests[p][i].pe = p
          /\ requests[p][i].op \in Adds =>
               /\ requests[p][i].key \in Keys
               /\ requests[p][i].key[2] <=
                    CountOf(requests[p][i].key[1], started[p])
  <2> SUFFICES ASSUME NEW i \in DOMAIN requests[p], NEW x, x = requests[p][i]
               PROVE  /\ x \in Requests /\ x.seq \in Nat
                      /\ x.seq <= seqNo[p] /\ x.pe = p
                      /\ x.op \in Adds =>
                           /\ x.key \in Keys
                           /\ x.key[2] <= CountOf(x.key[1], started[p])
    OBVIOUS
  <2>1. x \in Requests /\ RequestAt(p, x)
    BY <1>1, <1>11 DEF QueueAt
  <2> QED BY <2>1 DEF Requests, RequestAt, Adds
<1>13. QueueAt(p)'
  <2>1. ASSUME NEW i \in DOMAIN requests'[p]
        PROVE  /\ RequestAt(p, requests[p][i])'
               /\ Awaits(p, requests[p][i].seq)' =>
                    Expected(p, requests[p][i].op, requests[p][i].key)'
    <3>1. CASE i \in DOMAIN requests[p]
      <4>1. PICK x \in Requests : x = requests[p][i]
        BY <1>12, <3>1
      <4>2. RequestAt(p, x) /\ x.seq <= seqNo[p] /\ x.seq \in Nat
        BY <1>1, <1>12, <3>1, <4>1 DEF QueueAt
      <4>3. RequestAt(p, x)'
        BY <1>1, <1>4, <1>5, <1>11, <4>2, RequestStays
      <4>4. ~Awaits(p, x.seq)'
        BY <1>1, <1>5, <1>7, <4>2, NotAwaited
      <4>5. requests'[p][i] = x
        BY <1>8, <3>1, <4>1
      <4> QED BY <4>3, <4>4, <4>5
    <3>2. CASE i = Len(requests[p]) + 1 /\ running
      <4>1. requests'[p][i] = r
        BY <1>8, <3>2
      <4> QED BY <1>0, <1>4, <4>1
    <3> QED BY <1>8, <3>1, <3>2
  <2>2. ASSUME NEW i \in DOMAIN requests'[p], NEW j \in DOMAIN requests'[p], i < j
        PROVE  /\ requests'[p][i].seq < requests'[p][j].seq
               /\ requests'[p][i].op \in Adds /\ requests'[p][j].op \in Adds =>
                    requests'[p][i].key # requests'[p][j].key
    <3>1. i \in Nat /\ j \in Nat
      BY <1>4
    <3>2. i \in DOMAIN requests[p]
      BY <1>8, <1>11, <2>2, <3>1
    <3>3. CASE j \in DOMAIN requests[p]
      BY <1>1, <1>8, <2>2, <3>2, <3>3 DEF QueueAt
    <3>4. CASE j = Len(requests[p]) + 1 /\ running
      <4>1. requests'[p][j] = r /\ requests'[p][i] = requests[p][i]
        BY <1>8, <3>2, <3>4
      <4>2. requests[p][i].seq < r.seq
        BY <1>0, <1>11, <1>12, <3>2
      <4>3. ASSUME requests[p][i].op \in Adds, op \in Adds,
                   requests[p][i].key = key
            PROVE  FALSE
        <5>1. key \in Keys /\ key[2] <= CountOf(key[1], started[p])
          BY <1>12, <3>2, <4>3
        <5>2. key[2] \in Nat /\ CountOf(key[1], started[p]) \in Nat
          BY <1>2, <5>1, CountStep DEF Keys
        <5> QED BY <4>3, <5>1, <5>2 DEF NewRound
      <4> QED BY <1>0, <4>1, <4>2, <4>3
    <3> QED BY <1>8, <3>3, <3>4
  <2> QED BY <2>1, <2>2 DEF QueueAt
<1>14. OnePlace'
  <2>1. waitCtx' = waitCtx /\ replies' \subseteq replies
    BY DEF ClientFrame
  <2>2. ASSUME NEW q \in PEs, NEW i \in DOMAIN requests'[q]
        PROVE  /\ \A w \in waitCtx : ~Same(w, requests'[q][i])
               /\ \A x \in replies : ~Same(x, requests'[q][i])
    <3>1. CASE i \in DOMAIN requests[q] /\ requests'[q][i] = requests[q][i]
      BY <1>1, <3>1 DEF OnePlace
    <3>2. CASE q = p /\ requests'[q][i] = r
      <4>1. \A w \in waitCtx : w.pe = p => w.seq \in Nat /\ w.seq <= seqNo[p]
        BY <1>1 DEF GInv, WaiterAt, Shape
      <4>2. \A x \in replies : x.pe = p => x.seq \in Nat /\ x.seq <= seqNo[p]
        BY <1>1 DEF GInv, ReplyAt, Shape, Replies
      <4> QED BY <1>0, <1>11, <3>2, <4>1, <4>2 DEF Same
    <3> QED BY <1>4, <1>8, <3>1, <3>2
  <2> QED BY <1>1, <2>1, <2>2 DEF OnePlace
<1> QED BY <1>4, <1>5, <1>10, <1>13, <1>14 DEF GInv

\* p ends its collective.
LEMMA IdleStep ==
    ASSUME GInv, NEW p \in PEs, ClientFrame(p), Idle(p), pc'[p] = "idle",
           pending'[p] = {} => PlaceAt(p)'
    PROVE  GInv'
<1>1. Shape /\ PlaceAt(p) /\ QueueAt(p) /\ OnePlace
  BY DEF GInv
<1>2. /\ seqNo' = seqNo /\ requests' = requests
      /\ pending' \in [PEs -> SUBSET Nat] /\ pending'[p] = {}
      /\ \A q \in PEs \ {p} : pending'[q] = pending[q]
  BY <1>1 DEF Idle, Shape
<1>3. Shape'
  BY <1>1, <1>2 DEF ClientFrame, Shape
<1>4. \A q \in PEs \ {p} : SamePlace(q) /\ requests'[q] = requests[q]
  BY <1>2 DEF ClientFrame, SamePlace
<1>5. Moved(p) /\ Forgetful
  BY <1>2 DEF Moved, Forgetful, OnItsWay
<1>6. /\ \A q \in PEs \ {p} : PlaceAt(q)' /\ QueueAt(q)'
      /\ \A w \in waitCtx' : WaiterAt(w)'
      /\ \A x \in replies' : ReplyAt(x)'
      /\ \A k \in DOMAIN kvStore' : StoredAt(k)'
  BY <1>3, <1>4, <1>5, ClientOthers
<1>7. Onward /\ requests[p] \in Seq(Requests) /\ seqNo[p] \in Nat
  BY <1>1, ClientOnward DEF Shape
<1>8. QueueAt(p)'
  <2>1. ASSUME NEW i \in DOMAIN requests[p]
        PROVE  RequestAt(p, requests[p][i])' /\ ~Awaits(p, requests[p][i].seq)'
    <3>1. PICK x \in Requests : x = requests[p][i]
      BY <1>7
    <3>2. RequestAt(p, x)
      BY <1>1, <3>1 DEF QueueAt
    <3>3. RequestAt(p, x)'
      BY <1>1, <1>2, <1>3, <1>7, <3>2, RequestStays
    <3> QED BY <1>2, <3>1, <3>3 DEF Awaits
  <2> QED BY <1>1, <1>2, <2>1 DEF QueueAt
<1>9. OnePlace'
  BY <1>1, <1>2 DEF OnePlace, ClientFrame
<1> QED BY <1>2, <1>3, <1>6, <1>8, <1>9 DEF GInv

\* What an answer tells the PE that waited for it.
LEMMA OutcomeIs ==
    ASSUME GInv, NEW p \in PEs, pc[p] # "idle", NEW o \in Outcomes(p),
           o.code = "SUCCESS"
    PROVE  /\ pc[p] = "add" =>
                /\ o.value[1] \in 1 .. NPEs
                /\ o.value[1] = NPEs => Entered(Kind(p), Sn(p))
           /\ pc[p] = "get" =>
                o.value = SMEM_GROUP_SET_STR /\ Entered(Kind(p), Sn(p))
           /\ pc[p] = "data" => Gathered(o.value, Sn(p), PEs)
<1>1. \E r \in replies : /\ r.pe = p /\ r.seq \in pending[p]
                         /\ r.code = "SUCCESS" /\ r.value = o.value
  BY DEF Outcomes, NoAnswer, Mine
<1>2. PICK r \in replies : /\ r.pe = p /\ r.seq \in pending[p]
                           /\ r.code = "SUCCESS" /\ r.value = o.value
  BY <1>1
<1>3. Awaits(p, r.seq)
  BY <1>2 DEF GInv, PlaceAt, Awaits
<1> QED BY <1>2, <1>3 DEF GInv, ReplyAt

\* What the end of a wait leaves alone.
LEMMA EndsFrame ==
    ASSUME GInv, NEW p \in PEs, NEW op, NEW o, Ends(p, op, o),
           pc' \in [PEs -> Operations \cup {"idle"}],
           results' \in [PEs -> Seq({"OK", "ERROR"})],
           val' \in [PEs -> 0 .. NPEs],
           \A q \in PEs \ {p} : /\ pc'[q] = pc[q] /\ val'[q] = val[q]
                                /\ results'[q] = results[q]
    PROVE  ClientFrame(p)
<1>1. late' \in 0 .. maxLate
  BY DEF GInv, Shape, Ends, WaitEnds, TimeOver
<1>2. started' = started /\ started \in [PEs -> Nat]
  BY DEF Ends, GInv, Shape
<1>3. started[p] \in Nat /\ replies' \subseteq replies
  BY <1>2 DEF Ends, WaitEnds
<1> QED BY <1>1, <1>2, <1>3 DEF ClientFrame, Ends, serverVars

\* The same round after a step that does not begin a collective.
LEMMA RoundStays ==
    ASSUME NEW p, UNCHANGED <<program, started>>
    PROVE  /\ Kind(p)' = Kind(p) /\ Sn(p)' = Sn(p)
           /\ \A suffix : Key(p, suffix)' = Key(p, suffix)
           /\ \A kind, sn : Entered(kind, sn) <=> Entered(kind, sn)'
BY DEF Kind, Sn, Key, CountOf, Entered

\* A wait ends and p goes on to another store operation of its round.
LEMMA DoStep ==
    ASSUME GInv, NEW p \in PEs, NEW was \in Operations, NEW o, Ends(p, was, o),
           NEW op \in Operations \ {"add"}, NEW request \in {"SET", "GET", "REMOVE"},
           NEW key \in Keys, NEW value \in Seq(Nat),
           Do(p, op, request, key, value),
           val' \in [PEs -> 0 .. NPEs], \A q \in PEs \ {p} : val'[q] = val[q],
           \/ op \in {"rmAdd", "rmWait"} /\ request = "REMOVE"
           \/ /\ op = "set" /\ request = "SET" /\ key = Key(p, "W")
              /\ value = SMEM_GROUP_SET_STR
           \/ op = "get" /\ request = "GET" /\ key = Key(p, "W")
           \/ /\ op = "data" /\ request = "GET" /\ key = Key(p, "A")
              /\ Kind(p) = "G",
           op = "set" \/ (op \in {"rmAdd", "rmWait"} /\ val'[p] = NPEs)
             => Entered(Kind(p), Sn(p))
    PROVE  GInv'
<1>1. Shape /\ PlaceAt(p) /\ pc[p] = was /\ was # "idle"
  BY DEF GInv, Ends, Operations
<1>2. /\ pc' \in [PEs -> Operations \cup {"idle"}] /\ pc'[p] = op /\ op # "idle"
      /\ results' = results /\ Send(p, request, key, value)
      /\ \A q \in PEs \ {p} : pc'[q] = pc[q]
  BY <1>1 DEF Do, Shape, Operations
<1>3. ClientFrame(p)
  BY <1>1, <1>2, EndsFrame DEF Shape
<1>4. UNCHANGED <<program, started>>
  BY DEF Ends
<1>5. /\ Kind(p)' = Kind(p) /\ Sn(p)' = Sn(p)
      /\ Key(p, "A")' = Key(p, "A") /\ Key(p, "W")' = Key(p, "W")
      /\ \A kind, sn : Entered(kind, sn) <=> Entered(kind, sn)'
  BY <1>4, RoundStays
<1>6. PICK r \in Requests :
          r = [pe |-> p, seq |-> seqNo[p] + 1, op |-> request, key |-> key,
               value |-> value]
  <2>1. seqNo[p] + 1 \in Nat \ {0}
    BY <1>1 DEF Shape
  <2>2. [pe |-> p, seq |-> seqNo[p] + 1, op |-> request, key |-> key,
         value |-> value] \in Requests
    BY <2>1 DEF Requests
  <2> QED BY <2>2
<1>7. Expected(p, request, key)'
  BY <1>2, <1>5 DEF Expected
<1>8. request = "SET" => key[3] = "W" /\ Entered(key[1], key[2])
                         /\ value = SMEM_GROUP_SET_STR
  BY DEF Key
<1>9. seqNo'[p] = seqNo[p] + 1 => RequestAt(p, r)'
  <2>1. seqNo[p] \in Nat
    BY <1>1 DEF Shape
  <2> QED BY <2>1, <1>5, <1>6, <1>8 DEF RequestAt
<1>10. seqNo'[p] = seqNo[p] + 1 /\ pending'[p] = {seqNo'[p]} => PlaceAt(p)'
  BY <1>1, <1>2, <1>4, <1>5 DEF PlaceAt
<1>11. request \notin Adds
  BY DEF Adds
<1> QED BY <1>2, <1>3, <1>6, <1>7, <1>9, <1>10, <1>11, SendStep

\* A wait ends and with it the collective.
LEMMA ReturnStep ==
    ASSUME GInv, NEW p \in PEs, NEW was \in Operations, NEW o, Ends(p, was, o),
           NEW res \in {"OK", "ERROR"}, Return(p, res), UNCHANGED val
    PROVE  GInv'
<1>1. Shape /\ PlaceAt(p) /\ pc[p] = was /\ was # "idle"
  BY DEF GInv, Ends, Operations
<1>2. results[p] \in Seq({"OK", "ERROR"})
  BY <1>1 DEF Shape
<1>3. /\ pc' \in [PEs -> Operations \cup {"idle"}] /\ pc'[p] = "idle"
      /\ results' \in [PEs -> Seq({"OK", "ERROR"})]
      /\ results'[p] = Append(results[p], res)
      /\ \A q \in PEs \ {p} : pc'[q] = pc[q] /\ results'[q] = results[q]
  BY <1>1, <1>2 DEF Return, Shape
<1>4. ClientFrame(p)
  BY <1>1, <1>3, EndsFrame DEF Shape
<1>5. Len(results'[p]) = started'[p] /\ started'[p] = started[p]
      /\ program' = program
  <2>1. Len(results'[p]) = Len(results[p]) + 1 /\ Len(results[p]) = started[p] - 1
    BY <1>1, <1>2, <1>3 DEF PlaceAt
  <2>2. started[p] \in Nat
    BY <1>1 DEF Shape
  <2> QED BY <2>1, <2>2 DEF Ends
<1>6. pending'[p] = {} => PlaceAt(p)'
  BY <1>1, <1>3, <1>5 DEF PlaceAt
<1> QED BY <1>3, <1>4, <1>6, IdleStep DEF Return

LEMMA BeginKeeps ==
    ASSUME GInv, NEW p \in PEs, Begin(p)
    PROVE  GInv'
<1>1. Shape /\ PlaceAt(p) /\ pc[p] = "idle" /\ started[p] < Len(program)
  BY DEF GInv, Begin
<1>2. /\ started[p] \in Nat /\ Len(program) \in Nat /\ results[p] \in Seq({"OK", "ERROR"})
      /\ seqNo[p] \in Nat /\ program \in Seq({"B", "G"})
  BY <1>1 DEF Shape
<1>3. PICK n \in Nat, kind \in {"B", "G"} :
          n = started[p] + 1 /\ kind = program[started[p] + 1]
  <2>1. program[started[p] + 1] \in {"B", "G"}
    BY <1>1, <1>2
  <2> QED BY <1>2, <2>1
<1>4. PICK sn \in Nat : sn = CountOf(kind, n)
  BY CountStep
<1>5. sn = CountOf(kind, started[p]) + 1 /\ CountOf(kind, started[p]) \in Nat
  BY <1>2, <1>3, <1>4, CountStep
<1>6. /\ pc' = [pc EXCEPT ![p] = "add"]
      /\ started' = [started EXCEPT ![p] = n]
      /\ UNCHANGED <<program, results, val, late, serverVars, replies>>
  BY <1>3 DEF Begin
<1>7. /\ pc'[p] = "add" /\ started'[p] = n /\ started' \in [PEs -> Nat]
      /\ pc' \in [PEs -> Operations \cup {"idle"}]
      /\ \A q \in PEs \ {p} : pc'[q] = pc[q] /\ started'[q] = started[q]
  BY <1>1, <1>6 DEF Shape, Operations
<1>8. ClientFrame(p)
  BY <1>1, <1>2, <1>3, <1>6, <1>7 DEF ClientFrame, Shape, serverVars
<1>9. /\ Kind(p)' = kind /\ Sn(p)' = sn /\ Key(p, "A")' = <<kind, sn, "A">>
  <2>1. Kind(p)' = kind
    BY <1>3, <1>6, <1>7 DEF Kind
  <2>2. Sn(p)' = sn
    BY <1>4, <1>6, <1>7, <2>1 DEF Sn, CountOf
  <2> QED BY <2>1, <2>2 DEF Key
<1>10. PICK op \in Adds, value \in Seq(Nat) :
           /\ op = IF kind = "B" THEN "ADD" ELSE "APPEND"
           /\ value = IF kind = "B" THEN <<1>> ELSE <<Contribution(p, sn)>>
  <2>1. Contribution(p, sn) \in Nat
    <3>1. p \in Nat /\ NPEs \in Nat
      BY RanksAreNumbers
    <3>2. NPEs * sn \in Nat
      BY <3>1
    <3> QED BY <3>1, <3>2 DEF Contribution
  <2>2. <<1>> \in Seq(Nat) /\ <<Contribution(p, sn)>> \in Seq(Nat)
    BY <2>1
  <2> QED BY <2>2 DEF Adds
<1>11. PICK key \in Keys : key = <<kind, sn, "A">>
  BY DEF Keys
<1>12. Send(p, op, key, value)
  BY <1>3, <1>4, <1>10, <1>11 DEF Begin
<1>13. PICK r \in Requests :
           r = [pe |-> p, seq |-> seqNo[p] + 1, op |-> op, key |-> key,
                value |-> value]
  <2>1. seqNo[p] + 1 \in Nat \ {0}
    BY <1>2
  <2>2. [pe |-> p, seq |-> seqNo[p] + 1, op |-> op, key |-> key,
         value |-> value] \in Requests
    BY <2>1 DEF Requests, Adds
  <2> QED BY <2>2
<1>14. NewRound(p, key)
  BY <1>5, <1>11 DEF NewRound
<1>15. Expected(p, op, key)'
  BY <1>7, <1>9, <1>11 DEF Expected
<1>16. seqNo'[p] = seqNo[p] + 1 => RequestAt(p, r)'
  <2>1. sn \in 1 .. CountOf(kind, n) /\ CountOf(kind, started[p])' = sn
    BY <1>4, <1>5, <1>6, <1>7 DEF CountOf
  <2>2. sn \in 1 .. CountOf(kind, started[p])'
    BY <1>5, <2>1
  <2> QED BY <1>2, <1>10, <1>11, <1>13, <2>2 DEF RequestAt
<1>17. seqNo'[p] = seqNo[p] + 1 /\ pending'[p] = {seqNo'[p]} => PlaceAt(p)'
  BY <1>1, <1>2, <1>3, <1>6, <1>7 DEF PlaceAt
<1> QED BY <1>7, <1>8, <1>12, <1>13, <1>14, <1>15, <1>16, <1>17, SendStep

\* After the count is known, p opens its round or waits for it.
LEMMA SetOrGetKeeps ==
    ASSUME GInv, NEW p \in PEs, NEW was \in Operations, NEW o, Ends(p, was, o),
           NEW v, SetOrGet(p, v), v = NPEs => Entered(Kind(p), Sn(p)),
           val' \in [PEs -> 0 .. NPEs], \A q \in PEs \ {p} : val'[q] = val[q]
    PROVE  GInv'
<1>1. Shape /\ PlaceAt(p) /\ pc[p] # "idle"
  BY DEF GInv, Ends, Operations
<1>2. PICK key \in Keys : key = Key(p, "W")
  BY <1>1, RoundType
<1>3. SMEM_GROUP_SET_STR \in Seq(Nat) /\ <<>> \in Seq(Nat)
  BY DEF SMEM_GROUP_SET_STR
<1>4. CASE v = NPEs
  <2>1. Do(p, "set", "SET", key, SMEM_GROUP_SET_STR) /\ Entered(Kind(p), Sn(p))
    BY <1>2, <1>4 DEF SetOrGet
  <2> QED BY <1>2, <1>3, <2>1, DoStep DEF Operations
<1>5. CASE v # NPEs
  <2>1. Do(p, "get", "GET", key, <<>>)
    BY <1>2, <1>5 DEF SetOrGet
  <2> QED BY <1>2, <1>3, <2>1, DoStep DEF Operations
<1> QED BY <1>4, <1>5

LEMMA AddedKeeps ==
    ASSUME GInv, NEW p \in PEs, Added(p)
    PROVE  GInv'
<1>1. PICK o \in Outcomes(p) :
          /\ Ends(p, "add", o)
          /\ IF o.code # "SUCCESS" THEN Return(p, "ERROR") /\ UNCHANGED val
             ELSE /\ val' = [val EXCEPT ![p] = o.value[1]]
                  /\ IF Removes(p, o.value[1]) = {} THEN SetOrGet(p, o.value[1])
                     ELSE \E sn \in Removes(p, o.value[1]) :
                            Do(p, "rmAdd", "REMOVE", <<Kind(p), sn, "A">>, <<>>)
  BY DEF Added
<1>2. Shape /\ PlaceAt(p) /\ pc[p] = "add" /\ "add" \in Operations
  BY <1>1 DEF GInv, Ends, Operations
<1>3. CASE o.code # "SUCCESS"
  BY <1>1, <1>2, <1>3, ReturnStep
<1>4. CASE o.code = "SUCCESS"
  <2>1. /\ o.value[1] \in 1 .. NPEs
        /\ o.value[1] = NPEs => Entered(Kind(p), Sn(p))
    BY <1>2, <1>4, OutcomeIs
  <2>2. /\ val' \in [PEs -> 0 .. NPEs] /\ val'[p] = o.value[1]
        /\ \A q \in PEs \ {p} : val'[q] = val[q]
    <3>1. val \in [PEs -> 0 .. NPEs] /\ o.value[1] \in 0 .. NPEs
      <4>1. val \in [PEs -> 0 .. NPEs] /\ NPEs \in Nat
        BY <1>2, RanksAreNumbers DEF Shape
      <4> QED BY <2>1, <4>1
    <3>2. val' = [val EXCEPT ![p] = o.value[1]]
      BY <1>1, <1>4
    <3> QED BY <3>1, <3>2
  <2>3. CASE SetOrGet(p, o.value[1])
    BY <1>1, <1>2, <2>1, <2>2, <2>3, SetOrGetKeeps
  <2>4. CASE \E sn \in Removes(p, o.value[1]) :
                 Do(p, "rmAdd", "REMOVE", <<Kind(p), sn, "A">>, <<>>)
    <3>1. PICK sn \in Removes(p, o.value[1]) :
              Do(p, "rmAdd", "REMOVE", <<Kind(p), sn, "A">>, <<>>)
      BY <2>4
    <3>2. Kind(p) \in {"B", "G"} /\ Sn(p) \in Nat
      BY <1>2, RoundType
    <3>3. sn \in Nat
      BY <3>2 DEF Removes, REMOVE_INTERVAL
    <3>4. PICK key \in Keys : key = <<Kind(p), sn, "A">>
      BY <3>2, <3>3 DEF Keys
    <3>5. Do(p, "rmAdd", "REMOVE", key, <<>>) /\ <<>> \in Seq(Nat)
      BY <3>1, <3>4
    <3> QED BY <1>1, <1>2, <2>1, <2>2, <3>5, DoStep DEF Operations
  <2> QED BY <1>1, <1>4, <2>3, <2>4
<1> QED BY <1>3, <1>4

LEMMA RemovedKeeps ==
    ASSUME GInv, NEW p \in PEs, RemovedAdd(p) \/ RemovedWait(p)
    PROVE  GInv'
<1>1. CASE RemovedAdd(p)
  <2>1. PICK o \in Outcomes(p) :
            /\ Ends(p, "rmAdd", o) /\ UNCHANGED val
            /\ \E sn \in Removes(p, val[p]) :
                 Do(p, "rmWait", "REMOVE", <<Kind(p), sn, "W">>, <<>>)
    BY <1>1 DEF RemovedAdd
  <2>2. Shape /\ PlaceAt(p) /\ pc[p] = "rmAdd" /\ "rmAdd" \in Operations
    BY <2>1 DEF GInv, Ends, Operations
  <2>3. PICK sn \in Removes(p, val[p]) :
            Do(p, "rmWait", "REMOVE", <<Kind(p), sn, "W">>, <<>>)
    BY <2>1
  <2>4. Kind(p) \in {"B", "G"} /\ Sn(p) \in Nat
    BY <2>2, RoundType
  <2>5. sn \in Nat
    BY <2>4 DEF Removes, REMOVE_INTERVAL
  <2>6. PICK key \in Keys : key = <<Kind(p), sn, "W">>
    BY <2>4, <2>5 DEF Keys
  <2>7. Do(p, "rmWait", "REMOVE", key, <<>>) /\ <<>> \in Seq(Nat)
    BY <2>3, <2>6
  <2>8. val' \in [PEs -> 0 .. NPEs] /\ val' = val
        /\ (val[p] = NPEs => Entered(Kind(p), Sn(p)))
    BY <2>1, <2>2 DEF Shape, PlaceAt
  <2> QED BY <2>1, <2>2, <2>7, <2>8, DoStep DEF Operations
<1>2. CASE RemovedWait(p)
  <2>1. PICK o \in Outcomes(p) :
            Ends(p, "rmWait", o) /\ UNCHANGED val /\ SetOrGet(p, val[p])
    BY <1>2 DEF RemovedWait
  <2>2. Shape /\ PlaceAt(p) /\ pc[p] = "rmWait" /\ "rmWait" \in Operations
    BY <2>1 DEF GInv, Ends, Operations
  <2>3. val' \in [PEs -> 0 .. NPEs] /\ val' = val
        /\ (val[p] = NPEs => Entered(Kind(p), Sn(p)))
    BY <2>1, <2>2 DEF Shape, PlaceAt
  <2> QED BY <2>1, <2>2, <2>3, SetOrGetKeeps
<1> QED BY <1>1, <1>2

LEMMA WaitedKeeps ==
    ASSUME GInv, NEW p \in PEs, HasSet(p) \/ HasWaited(p) \/ HasData(p)
    PROVE  GInv'
<1>1. val \in [PEs -> 0 .. NPEs] /\ <<>> \in Seq(Nat) /\ Shape /\ PlaceAt(p)
  BY DEF GInv, Shape
<1>2. CASE HasSet(p)
  <2>1. PICK o \in Outcomes(p) :
            /\ Ends(p, "set", o) /\ UNCHANGED val
            /\ IF o.code # "SUCCESS" THEN Return(p, "ERROR")
               ELSE Do(p, "get", "GET", Key(p, "W"), <<>>)
    BY <1>2 DEF HasSet
  <2>2. "set" \in Operations /\ "get" \in Operations \ {"add"}
        /\ pc[p] # "idle"
    BY <2>1 DEF Ends, Operations
  <2>3. PICK key \in Keys : key = Key(p, "W")
    BY <1>1, <2>2, RoundType
  <2>4. CASE Return(p, "ERROR")
    BY <2>1, <2>2, <2>4, ReturnStep
  <2>5. CASE Do(p, "get", "GET", key, <<>>)
    BY <1>1, <2>1, <2>2, <2>3, <2>5, DoStep
  <2> QED BY <2>1, <2>3, <2>4, <2>5
<1>3. CASE HasWaited(p)
  <2>1. PICK o \in Outcomes(p) :
            /\ Ends(p, "get", o) /\ UNCHANGED val
            /\ \/ Return(p, "ERROR") \/ Return(p, "OK")
               \/ Kind(p) # "B" /\ Do(p, "data", "GET", Key(p, "A"), <<>>)
    BY <1>3 DEF HasWaited
  <2>2. "get" \in Operations /\ "data" \in Operations \ {"add"} /\ pc[p] # "idle"
    BY <2>1 DEF Ends, Operations
  <2>3. PICK key \in Keys : key = Key(p, "A")
    BY <1>1, <2>2, RoundType
  <2>4. CASE Return(p, "ERROR") \/ Return(p, "OK")
    BY <2>1, <2>2, <2>4, ReturnStep
  <2>5. CASE Kind(p) # "B" /\ Do(p, "data", "GET", key, <<>>)
    <3>1. Kind(p) = "G"
      BY <1>1, <2>2, <2>5, RoundType
    <3> QED BY <1>1, <2>1, <2>2, <2>3, <2>5, <3>1, DoStep
  <2> QED BY <2>1, <2>3, <2>4, <2>5
<1>4. CASE HasData(p)
  <2>1. PICK o \in Outcomes(p) :
            /\ Ends(p, "data", o) /\ UNCHANGED val
            /\ Return(p, "ERROR") \/ Return(p, "OK")
    BY <1>4 DEF HasData
  <2>2. "data" \in Operations
    BY DEF Operations
  <2> QED BY <2>1, <2>2, ReturnStep
<1> QED BY <1>2, <1>3, <1>4

\* The steps of the server and of the links change nothing on the PEs.
ServerFrame == UNCHANGED <<groupVars, seqNo, pending, maxLate>>

LEMMA SameClients ==
    ASSUME ServerFrame
    PROVE  /\ UNCHANGED program
           /\ \A kind, n : CountOf(kind, n)' = CountOf(kind, n)
           /\ \A kind, sn : Entered(kind, sn)' <=> Entered(kind, sn)
           /\ \A q : /\ Kind(q)' = Kind(q) /\ Sn(q)' = Sn(q)
                     /\ PlaceAt(q)' <=> PlaceAt(q)
           /\ \A q, suffix : Key(q, suffix)' = Key(q, suffix)
           /\ \A q, s : Awaits(q, s)' <=> Awaits(q, s)
           /\ \A q, op, key : Expected(q, op, key)' <=> Expected(q, op, key)
           /\ \A q, r : RequestAt(q, r)' <=> RequestAt(q, r)
           /\ \A w : WaiterAt(w)' <=> WaiterAt(w)
           /\ \A r : ReplyAt(r)' <=> ReplyAt(r)
<1> USE DEF ServerFrame, groupVars
<1>1. \A kind, n : CountOf(kind, n)' = CountOf(kind, n)
  BY DEF CountOf
<1>2. \A kind, sn : Entered(kind, sn)' <=> Entered(kind, sn)
  BY <1>1 DEF Entered
<1>3. \A q : Kind(q)' = Kind(q) /\ Sn(q)' = Sn(q)
  BY DEF Kind, Sn, CountOf
<1>4. \A q, suffix : Key(q, suffix)' = Key(q, suffix)
  BY <1>3 DEF Key
<1>5. \A q, s : Awaits(q, s)' <=> Awaits(q, s)
  BY DEF Awaits
<1>6. \A q, op, key : Expected(q, op, key)' <=> Expected(q, op, key)
  BY <1>4 DEF Expected
<1>7. \A q, r : RequestAt(q, r)' <=> RequestAt(q, r)
  BY <1>1, <1>2 DEF RequestAt
<1>8. \A w : WaiterAt(w)' <=> WaiterAt(w)
  BY <1>5, <1>6 DEF WaiterAt
<1>9. \A r : ReplyAt(r)' <=> ReplyAt(r)
  BY <1>2, <1>3, <1>5 DEF ReplyAt
<1>10. \A q : PlaceAt(q)' <=> PlaceAt(q)
  BY <1>2, <1>3 DEF PlaceAt
<1> QED BY <1>1, <1>2, <1>3, <1>4, <1>5, <1>6, <1>7, <1>8, <1>9, <1>10

LEMMA ServerOnward ==
    ASSUME Shape, ServerFrame
    PROVE  Onward
<1>1. \A q \in PEs : started[q] \in Nat /\ started'[q] = started[q]
  BY DEF Shape, ServerFrame, groupVars
<1>2. \A q \in PEs : started[q] <= started'[q]
  BY <1>1
<1> QED BY <1>2 DEF Onward, ServerFrame, groupVars

\* The server takes the first request of p out of its queue.
Taken(p, r) ==
    /\ requests[p] # <<>> /\ r = Head(requests[p])
    /\ requests' = [requests EXCEPT ![p] = Tail(@)]

LEMMA TakenIs ==
    ASSUME GInv, ServerFrame, NEW p \in PEs, NEW r, Taken(p, r)
    PROVE  /\ requests' \in [PEs -> Seq(Requests)]
           /\ r \in Requests /\ RequestAt(p, r)
           /\ Awaits(p, r.seq) => Expected(p, r.op, r.key)
           /\ 1 \in DOMAIN requests[p] /\ requests[p][1] = r
           /\ \A q \in PEs \ {p} : requests'[q] = requests[q]
           /\ \A i \in DOMAIN requests'[p] :
                /\ i + 1 \in DOMAIN requests[p] /\ 1 < i + 1 /\ i \in Nat
                /\ requests'[p][i] = requests[p][i + 1]
                /\ r.seq < requests'[p][i].seq
                /\ r.op \in Adds /\ requests'[p][i].op \in Adds
                     => requests'[p][i].key # r.key
           /\ Forgetful
           /\ \A q \in PEs : QueueAt(q)'
<1>1. Shape /\ QueueAt(p) /\ requests[p] \in Seq(Requests)
  BY DEF GInv, Shape
<1>2. /\ 1 \in DOMAIN requests[p] /\ requests[p][1] = r /\ r \in Requests
      /\ Tail(requests[p]) \in Seq(Requests)
      /\ \A i \in DOMAIN Tail(requests[p]) :
           /\ i + 1 \in DOMAIN requests[p] /\ 1 < i + 1 /\ i \in Nat
           /\ Tail(requests[p])[i] = requests[p][i + 1]
  BY <1>1 DEF Taken
<1>3. /\ requests' \in [PEs -> Seq(Requests)]
      /\ requests'[p] = Tail(requests[p])
      /\ \A q \in PEs \ {p} : requests'[q] = requests[q]
  BY <1>1, <1>2 DEF Taken, Shape
<1>4. \A i \in DOMAIN requests'[p] :
        /\ i + 1 \in DOMAIN requests[p] /\ 1 < i + 1 /\ i \in Nat
        /\ requests'[p][i] = requests[p][i + 1]
  BY <1>2, <1>3
<1>5. /\ RequestAt(p, r) /\ (Awaits(p, r.seq) => Expected(p, r.op, r.key))
  BY <1>1, <1>2 DEF QueueAt
<1>6. \A i \in DOMAIN requests'[p] :
        /\ r.seq < requests'[p][i].seq
        /\ r.op \in Adds /\ requests'[p][i].op \in Adds
             => requests'[p][i].key # r.key
  BY <1>1, <1>2, <1>4 DEF QueueAt
<1>7. Forgetful
  <2> SUFFICES ASSUME NEW q \in PEs, NEW kind \in {"B", "G"}, NEW sn \in Nat,
                      OnItsWay(q, kind, sn)'
               PROVE  OnItsWay(q, kind, sn)
    BY DEF Forgetful
  <2>1. PICK i \in DOMAIN requests'[q] :
            requests'[q][i].op \in Adds /\ requests'[q][i].key = <<kind, sn, "A">>
    BY DEF OnItsWay
  <2>2. CASE q = p
    BY <1>4, <2>1, <2>2 DEF OnItsWay
  <2>3. CASE q # p
    <3>1. requests'[q] = requests[q]
      BY <1>3, <2>3
    <3> QED BY <2>1, <3>1 DEF OnItsWay
  <2> QED BY <2>2, <2>3
<1>8. ASSUME NEW q \in PEs PROVE QueueAt(q)'
  <2>1. QueueAt(q) /\ requests[q] \in Seq(Requests)
    BY <1>1 DEF GInv, Shape
  <2>2. CASE q # p
    <3>1. requests'[q] = requests[q]
      BY <1>3, <2>2
    <3> QED BY <2>1, <3>1, SameClients DEF QueueAt
  <2>3. CASE q = p
    <3>1. ASSUME NEW i \in DOMAIN requests'[p]
          PROVE  /\ RequestAt(p, requests[p][i])'
                 /\ Awaits(p, requests[p][i].seq)' =>
                      Expected(p, requests[p][i].op, requests[p][i].key)'
      <4>1. PICK x : x = requests[p][i + 1] /\ x = requests'[p][i]
        BY <1>4
      <4>2. RequestAt(p, x) /\ (Awaits(p, x.seq) => Expected(p, x.op, x.key))
        BY <1>1, <1>4, <4>1 DEF QueueAt
      <4>3. RequestAt(p, x)' /\ (Awaits(p, x.seq)' => Expected(p, x.op, x.key)')
        BY <4>2, SameClients
      <4> QED BY <4>1, <4>3
    <3>2. ASSUME NEW i \in DOMAIN requests'[p], NEW j \in DOMAIN requests'[p], i < j
          PROVE  /\ requests'[p][i].seq < requests'[p][j].seq
                 /\ requests'[p][i].op \in Adds /\ requests'[p][j].op \in Adds =>
                      requests'[p][i].key # requests'[p][j].key
      <4>1. /\ i + 1 \in DOMAIN requests[p] /\ j + 1 \in DOMAIN requests[p]
            /\ i + 1 < j + 1
            /\ requests'[p][i] = requests[p][i + 1]
            /\ requests'[p][j] = requests[p][j + 1]
        BY <1>4, <3>2
      <4> QED BY <1>1, <4>1 DEF QueueAt
    <3> QED BY <2>3, <3>1, <3>2 DEF QueueAt
  <2> QED BY <2>2, <2>3
<1> QED BY <1>2, <1>3, <1>4, <1>5, <1>6, <1>7, <1>8

\* Handing out answers: to the request taken and to the waiters woken.
HandsOut(r, code, value, woken, news) ==
    /\ replies' = replies \cup ({Answer(r, code, value)}
                    \cup {Answer(w, "SUCCESS", news) : w \in woken})
    /\ waitCtx' = waitCtx \ woken

LEMMA AnswersInPlace ==
    ASSUME GInv, ServerFrame, NEW p \in PEs, NEW r, Taken(p, r),
           NEW woken \in SUBSET waitCtx, NEW code, NEW value, NEW news,
           HandsOut(r, code, value, woken, news)
    PROVE  OnePlace'
<1> USE DEF HandsOut
<1>1. OnePlace /\ r.pe = p
  BY TakenIs DEF GInv, RequestAt
<1>2. \A x \in replies' : \/ x \in replies
                          \/ Same(x, r) /\ x = Answer(r, code, value)
                          \/ \E w \in woken : Same(x, w)
                                              /\ x = Answer(w, "SUCCESS", news)
  BY DEF Answer, Same
<1>3. /\ \A w \in waitCtx : ~Same(w, r)
      /\ \A x \in replies : ~Same(x, r)
  BY <1>1, TakenIs DEF OnePlace
<1>4. \A x, y \in replies' : Same(x, y) => x = y
  <2> SUFFICES ASSUME NEW x \in replies', NEW y \in replies', Same(x, y)
               PROVE  x = y
    OBVIOUS
  <2>1. CASE x \in replies /\ y \in replies
    BY <1>1, <2>1 DEF OnePlace
  <2>2. CASE Same(x, r) \/ Same(y, r)
    BY <1>2, <1>3, <2>2 DEF Same
  <2>3. CASE \E w \in woken : Same(x, w) /\ x = Answer(w, "SUCCESS", news)
    <3>1. PICK w \in woken : Same(x, w) /\ x = Answer(w, "SUCCESS", news)
      BY <2>3
    <3>2. y \notin replies /\ ~Same(y, r)
      BY <1>1, <1>3, <3>1 DEF OnePlace, Same
    <3>3. PICK v \in woken : Same(y, v) /\ y = Answer(v, "SUCCESS", news)
      BY <1>2, <3>2
    <3>4. w = v
      BY <1>1, <3>1, <3>3 DEF OnePlace, Same
    <3> QED BY <3>1, <3>3, <3>4
  <2>4. CASE \E w \in woken : Same(y, w) /\ y = Answer(w, "SUCCESS", news)
    <3>1. PICK w \in woken : Same(y, w) /\ y = Answer(w, "SUCCESS", news)
      BY <2>4
    <3>2. x \notin replies /\ ~Same(x, r)
      BY <1>1, <1>3, <3>1 DEF OnePlace, Same
    <3>3. PICK v \in woken : Same(x, v) /\ x = Answer(v, "SUCCESS", news)
      BY <1>2, <3>2
    <3>4. w = v
      BY <1>1, <3>1, <3>3 DEF OnePlace, Same
    <3> QED BY <3>1, <3>3, <3>4
  <2> QED BY <1>2, <2>1, <2>2, <2>3, <2>4
<1>5. \A w \in waitCtx' : \A x \in replies' : ~Same(x, w)
  BY <1>1, <1>2, <1>3 DEF OnePlace, Same
<1>6. ASSUME NEW q \in PEs, NEW i \in DOMAIN requests'[q]
      PROVE  /\ \A w \in waitCtx' : ~Same(w, requests'[q][i])
             /\ \A x \in replies' : ~Same(x, requests'[q][i])
  <2>1. \E j \in DOMAIN requests[q] : requests'[q][i] = requests[q][j]
    BY TakenIs
  <2>2. PICK j \in DOMAIN requests[q] : requests'[q][i] = requests[q][j]
    BY <2>1
  <2>3. ~Same(r, requests'[q][i])
    <3>1. CASE q = p
      <4>1. r.seq < requests'[p][i].seq /\ r.seq \in Nat
        BY <3>1, TakenIs DEF Requests
      <4> QED BY <3>1, <4>1 DEF Same
    <3>2. CASE q # p
      <4>1. requests[q][j].pe = q
        BY DEF GInv, QueueAt, RequestAt
      <4> QED BY <1>1, <2>2, <3>2, <4>1 DEF Same
    <3> QED BY <3>1, <3>2
  <2> QED BY <1>1, <1>2, <2>2, <2>3 DEF OnePlace, Same
<1> QED BY <1>1, <1>4, <1>5, <1>6 DEF OnePlace

\* A GET that becomes a waiter.
LEMMA WaitsInPlace ==
    ASSUME GInv, ServerFrame, NEW p \in PEs, NEW r, Taken(p, r), NEW v,
           Same(v, r), UNCHANGED replies, waitCtx' = waitCtx \cup {v}
    PROVE  OnePlace'
<1>1. OnePlace /\ r.pe = p
  BY TakenIs DEF GInv, RequestAt
<1>2. /\ \A w \in waitCtx : ~Same(w, v)
      /\ \A x \in replies : ~Same(x, v)
  BY <1>1, TakenIs DEF OnePlace, Same
<1>3. ASSUME NEW q \in PEs, NEW i \in DOMAIN requests'[q]
      PROVE  /\ \A w \in waitCtx' : ~Same(w, requests'[q][i])
             /\ \A x \in replies' : ~Same(x, requests'[q][i])
  <2>1. \E j \in DOMAIN requests[q] : requests'[q][i] = requests[q][j]
    BY TakenIs
  <2>2. PICK j \in DOMAIN requests[q] : requests'[q][i] = requests[q][j]
    BY <2>1
  <2>3. ~Same(r, requests'[q][i])
    <3>1. CASE q = p
      <4>1. r.seq < requests'[p][i].seq /\ r.seq \in Nat
        BY <3>1, TakenIs DEF Requests
      <4> QED BY <3>1, <4>1 DEF Same
    <3>2. CASE q # p
      <4>1. requests[q][j].pe = q
        BY DEF GInv, QueueAt, RequestAt
      <4> QED BY <1>1, <2>2, <3>2, <4>1 DEF Same
    <3> QED BY <3>1, <3>2
  <2> QED BY <1>1, <2>2, <2>3 DEF OnePlace, Same
<1> QED BY <1>1, <1>2, <1>3 DEF OnePlace, Same

\* A contribution that is taken has arrived: one PE more than before.
LEMMA TakenArrives ==
    ASSUME GInv, ServerFrame, NEW p \in PEs, NEW r, Taken(p, r), r.op \in Adds
    PROVE  /\ Cardinality(Arrived(r.key[1], r.key[2])')
                = Cardinality(Arrived(r.key[1], r.key[2])) + 1
           /\ Arrived(r.key[1], r.key[2])' = Arrived(r.key[1], r.key[2]) \cup {p}
           /\ p \notin Arrived(r.key[1], r.key[2])
<1>1. r \in Requests /\ RequestAt(p, r)
  BY TakenIs
<1>2. PICK kind \in {"B", "G"}, sn \in Nat :
          kind = r.key[1] /\ sn = r.key[2] /\ r.key = <<kind, sn, "A">>
  <2>1. r.key \in Keys /\ r.key[3] = "A"
    BY <1>1 DEF Requests, RequestAt, Adds
  <2> QED BY <2>1 DEF Keys
<1>3. OnItsWay(p, kind, sn)
  <2>1. 1 \in DOMAIN requests[p] /\ requests[p][1] = r
    BY TakenIs
  <2> QED BY <1>2, <2>1 DEF OnItsWay
<1>4. ~OnItsWay(p, kind, sn)'
  <2>1. \A i \in DOMAIN requests'[p] :
           requests'[p][i].op \in Adds => requests'[p][i].key # r.key
    BY TakenIs
  <2> QED BY <1>2, <2>1 DEF OnItsWay
<1>5. \A q \in PEs \ {p} : OnItsWay(q, kind, sn)' <=> OnItsWay(q, kind, sn)
  <2> SUFFICES ASSUME NEW q \in PEs \ {p}
               PROVE  OnItsWay(q, kind, sn)' <=> OnItsWay(q, kind, sn)
    OBVIOUS
  <2>1. requests'[q] = requests[q]
    BY TakenIs
  <2> QED BY <2>1 DEF OnItsWay
<1>6. CountOf(kind, started[p]) >= sn
  <2>1. CountOf(kind, started[p]) \in Nat
    BY CountStep DEF GInv, Shape
  <2> QED BY <1>1, <1>2, <2>1 DEF RequestAt, Adds
<1>7. \A q : CountOf(kind, started[q])' = CountOf(kind, started[q])
  BY SameClients DEF ServerFrame, groupVars
<1>8. Arrived(kind, sn)' = Arrived(kind, sn) \cup {p} /\ p \notin Arrived(kind, sn)
  BY <1>3, <1>4, <1>5, <1>6, <1>7 DEF Arrived
<1> QED BY <1>2, <1>8, AllArrived, FS_AddElement

LEMMA CountBound ==
    ASSUME NEW S \in SUBSET PEs
    PROVE  /\ IsFiniteSet(S) /\ Cardinality(S) \in 0 .. NPEs
           /\ Cardinality(S) = NPEs => S = PEs
<1>1. /\ IsFiniteSet(S) /\ Cardinality(S) <= NPEs
      /\ Cardinality(S) = NPEs => S = PEs
  BY GroupAssumption, FS_Subset DEF NPEs
<1>2. Cardinality(S) \in Nat /\ NPEs \in Nat
  BY <1>1, GroupAssumption, FS_CardinalityType DEF NPEs
<1> QED BY <1>1, <1>2

\* What is left to show of a step of the server.
LEMMA ServerKeeps ==
    ASSUME GInv, ServerFrame, Shape', OnePlace', \A q \in PEs : QueueAt(q)',
           \A w \in waitCtx' : w \in waitCtx \/ WaiterAt(w),
           \A x \in replies' : x \in replies \/ ReplyAt(x),
           \A k \in DOMAIN kvStore' : StoredAt(k)'
    PROVE  GInv'
<1>1. \A w \in waitCtx' : WaiterAt(w)'
  BY SameClients DEF GInv
<1>2. \A x \in replies' : ReplyAt(x)'
  BY SameClients DEF GInv
<1>3. \A q \in PEs : PlaceAt(q)'
  BY SameClients DEF GInv
<1> QED BY <1>1, <1>2, <1>3 DEF GInv

LEMMA ConcatLength ==
    ASSUME NEW a \in Seq(Nat), NEW b \in Seq(Nat)
    PROVE  a \o b \in Seq(Nat) /\ Len(a \o b) = Len(a) + Len(b)
OBVIOUS

\* One contribution more, of a PE that had not given its own.
LEMMA GatheredOneMore ==
    ASSUME NEW a \in Seq(Nat), NEW b \in Seq(Nat), Len(b) = 1, NEW sn \in Nat,
           NEW S \in SUBSET PEs, NEW p \in PEs, p \notin S,
           b[1] = Contribution(p, sn), Gathered(a, sn, S)
    PROVE  Gathered(a \o b, sn, S \cup {p})
<1>1. /\ DOMAIN (a \o b) = 1 .. Len(a) + 1 /\ Len(a) \in Nat
      /\ DOMAIN a = 1 .. Len(a)
      /\ \A i \in 1 .. Len(a) : (a \o b)[i] = a[i]
      /\ (a \o b)[Len(a) + 1] = b[1]
  <2>1. Len(a) \in Nat /\ DOMAIN a = 1 .. Len(a) /\ Len(b) = 1
    OBVIOUS
  <2>2. Len(a \o b) = Len(a) + 1 /\ a \o b \in Seq(Nat)
    BY <2>1, ConcatLength
  <2>3. DOMAIN (a \o b) = 1 .. Len(a) + 1
    BY <2>2
  <2>4. \A i \in 1 .. Len(a) : (a \o b)[i] = a[i]
    OBVIOUS
  <2>5. (a \o b)[Len(a) + 1] = b[1]
    <3>1. PICK n \in Nat : n = Len(a) + 1
      BY <2>1
    <3>2. n \in 1 .. Len(a) + Len(b) /\ ~(n <= Len(a)) /\ n - Len(a) = 1
      BY <2>1, <3>1
    <3>3. (a \o b)[n] = b[n - Len(a)]
      BY <3>2, ConcatProperties
    <3> QED BY <3>1, <3>2, <3>3
  <2> QED BY <2>1, <2>3, <2>4, <2>5
<1>2. \A q \in S : Contribution(q, sn) # Contribution(p, sn)
  <2>1. NPEs * sn \in Nat /\ \A q \in PEs : q \in Nat
    BY RanksAreNumbers
  <2> QED BY <2>1 DEF Contribution
<1>3. PICK c : c = a \o b
  OBVIOUS
<1>4. \A i \in 1 .. Len(a) + 1 : i \in 1 .. Len(a) \/ i = Len(a) + 1
  BY <1>1
<1>5. \A i \in DOMAIN c : \E q \in S \cup {p} : c[i] = Contribution(q, sn)
  BY <1>1, <1>3, <1>4 DEF Gathered
<1>6. \A i, j \in DOMAIN c : i # j => c[i] # c[j]
  BY <1>1, <1>2, <1>3, <1>4 DEF Gathered
<1> QED BY <1>3, <1>5, <1>6 DEF Gathered

\* The new value of a key agrees with the contributions handled.
LEMMA UpdateStores ==
    ASSUME GInv, ServerFrame, NEW p \in PEs, NEW r, Taken(p, r),
           NEW value, kvStore' = Store(r.key, value),
           \/ r.op = "SET" /\ value = r.value
           \/ /\ r.op = "ADD"
              /\ value = IF Exists(r.key) THEN <<kvStore[r.key][1] + r.value[1]>>
                         ELSE r.value
           \/ /\ r.op = "APPEND"
              /\ value = IF Exists(r.key) THEN kvStore[r.key] \o r.value
                         ELSE r.value
    PROVE  value \in Seq(Nat) /\ StoredAt(r.key)'
<1>1. /\ r \in Requests /\ RequestAt(p, r) /\ r.key \in Keys
      /\ r.value \in Seq(Nat) /\ r.key[2] \in Nat
  BY TakenIs DEF Requests, Keys
<1>2. kvStore'[r.key] = value
  BY DEF Store
<1>3. Exists(r.key) => kvStore[r.key] \in Seq(Nat) /\ StoredAt(r.key)
  BY DEF GInv, Shape, Exists
<1>4. CASE r.op = "SET"
  <2>1. /\ r.key[3] = "W" /\ value = SMEM_GROUP_SET_STR
        /\ Entered(r.key[1], r.key[2])
    BY <1>1, <1>4 DEF RequestAt
  <2>2. Entered(r.key[1], r.key[2])'
    BY <2>1, SameClients
  <2> QED BY <1>1, <1>2, <1>4, <2>1, <2>2 DEF StoredAt
<1>5. /\ Cardinality(Arrived(r.key[1], r.key[2])) \in Nat
      /\ r.op \in Adds => Cardinality(Arrived(r.key[1], r.key[2])')
                            = Cardinality(Arrived(r.key[1], r.key[2])) + 1
  BY AllArrived, TakenArrives, RanksAreNumbers
<1>6. CASE r.op = "ADD"
  <2>1. r.key[1] = "B" /\ r.key[3] = "A" /\ r.value = <<1>> /\ r.op \in Adds
    BY <1>1, <1>6 DEF RequestAt, Adds
  <2>2. PICK c \in Nat : /\ c = Cardinality(Arrived("B", r.key[2]))
                         /\ Cardinality(Arrived("B", r.key[2])') = c + 1
    BY <1>5, <2>1
  <2>3. CASE Exists(r.key)
    <3>1. kvStore[r.key][1] \in 1 .. c
      BY <1>3, <2>1, <2>2, <2>3 DEF StoredAt
    <3>2. value = <<kvStore[r.key][1] + 1>>
      BY <1>6, <2>1, <2>3
    <3>3. value \in Seq(Nat) /\ Len(value) = 1 /\ value[1] \in 1 .. c + 1
      BY <3>1, <3>2
    <3> QED BY <1>2, <2>1, <2>2, <3>3 DEF StoredAt
  <2>4. CASE ~Exists(r.key)
    <3>1. value = <<1>>
      BY <1>6, <2>1, <2>4
    <3>2. value \in Seq(Nat) /\ Len(value) = 1 /\ value[1] \in 1 .. c + 1
      BY <3>1
    <3> QED BY <1>2, <2>1, <2>2, <3>2 DEF StoredAt
  <2> QED BY <2>3, <2>4
<1>7. CASE r.op = "APPEND"
  <2>1. /\ r.key[1] = "G" /\ r.key[3] = "A" /\ Len(r.value) = 1
        /\ r.op \in Adds
    BY <1>1, <1>7 DEF RequestAt, Adds
  <2>2. PICK c \in Nat, S \in SUBSET PEs, T \in SUBSET PEs :
            /\ c = Cardinality(Arrived("G", r.key[2]))
            /\ Cardinality(Arrived("G", r.key[2])') = c + 1
            /\ S = Arrived("G", r.key[2]) /\ T = Arrived("G", r.key[2])'
            /\ T = S \cup {p} /\ p \notin S
    <3>1. Arrived("G", r.key[2]) \in SUBSET PEs
      BY DEF Arrived
    <3>2. /\ Arrived("G", r.key[2])' = Arrived("G", r.key[2]) \cup {p}
          /\ p \notin Arrived("G", r.key[2])
      BY <2>1, TakenArrives
    <3> QED BY <1>5, <2>1, <3>1, <3>2
  <2>0. r.value[1] = Contribution(p, r.key[2])
    BY <1>1, <1>7 DEF RequestAt
  <2>3. CASE Exists(r.key)
    <3>1. Len(kvStore[r.key]) \in 1 .. c /\ kvStore[r.key] \in Seq(Nat)
      BY <1>3, <2>1, <2>2, <2>3 DEF StoredAt
    <3>2. value = kvStore[r.key] \o r.value
      BY <1>7, <2>3
    <3>3. PICK a \in Seq(Nat), b \in Seq(Nat) :
              a = kvStore[r.key] /\ b = r.value /\ value = a \o b
      BY <1>1, <3>1, <3>2
    <3>4. value \in Seq(Nat) /\ Len(value) = Len(a) + Len(b)
      BY <3>3, ConcatLength
    <3>5. value \in Seq(Nat) /\ Len(value) \in 1 .. c + 1
      <4>1. Len(a) \in 1 .. c /\ Len(b) = 1
        BY <2>1, <3>1, <3>3
      <4> QED BY <3>4, <4>1
    <3>6. Gathered(a, r.key[2], S)
      BY <1>3, <2>1, <2>2, <2>3, <3>3 DEF StoredAt
    <3>7. Gathered(value, r.key[2], T)
      <4>1. PICK sn \in Nat : sn = r.key[2]
        BY <1>1
      <4>2. Len(b) = 1 /\ b[1] = Contribution(p, sn) /\ Gathered(a, sn, S)
        BY <2>0, <2>1, <3>3, <3>6, <4>1
      <4>3. Gathered(a \o b, sn, S \cup {p})
        BY <2>2, <4>2, GatheredOneMore
      <4> QED BY <2>2, <3>3, <4>1, <4>3
    <3>8. Gathered(kvStore[r.key], r.key[2], Arrived("G", r.key[2]))'
      BY <1>2, <2>2, <3>7 DEF Gathered
    <3> QED BY <1>2, <2>1, <2>2, <3>5, <3>8 DEF StoredAt
  <2>4. CASE ~Exists(r.key)
    <3>1. value = r.value
      BY <1>7, <2>4
    <3>2. 1 \in 1 .. c + 1
      OBVIOUS
    <3>3. value \in Seq(Nat) /\ Len(value) \in 1 .. c + 1
      BY <1>1, <2>1, <3>1, <3>2
    <3>4. Gathered(value, r.key[2], T)
      BY <1>1, <2>0, <2>1, <2>2, <3>1 DEF Gathered
    <3>5. Gathered(kvStore[r.key], r.key[2], Arrived("G", r.key[2]))'
      BY <1>2, <2>2, <3>4 DEF Gathered
    <3> QED BY <1>2, <2>1, <2>2, <3>3, <3>5 DEF StoredAt
  <2> QED BY <2>3, <2>4
<1> QED BY <1>4, <1>6, <1>7

\* A key that is stored or changed: its waiters see the value, and whoever
\* counted sees the count.
LEMMA UpdateKeeps ==
    ASSUME GInv, ServerFrame, NEW p \in PEs, NEW r, Taken(p, r), NEW value,
           NEW told, NEW code, Update(p, r, value, told, code),
           value \in Seq(Nat), StoredAt(r.key)', r.op \notin {"GET", "REMOVE"},
           told \in Seq(Nat),
           ~Exists(r.key) => told = value \/ (r.op = "APPEND" /\ told = <<>>),
           \/ r.op = "SET" /\ code = <<>>
           \/ r.op = "ADD" /\ code = value
           \/ r.op = "APPEND" /\ code = <<Len(value)>>
    PROVE  GInv'
<1>1. PICK woken \in SUBSET waitCtx :
          /\ \A w \in woken : w.key = r.key /\ ~Exists(r.key)
          /\ kvStore' = Store(r.key, value)
          /\ waitCtx' = waitCtx \ woken
          /\ replies' = replies \cup ({Answer(r, "SUCCESS", code)}
                           \cup {Answer(w, "SUCCESS", told) : w \in woken})
          /\ UNCHANGED <<late, running>>
  <2> DEFINE S == IF Exists(r.key) THEN {} ELSE Waiters(r.key)
  <2>1. S \in SUBSET waitCtx /\ \A w \in S : w.key = r.key /\ ~Exists(r.key)
    BY DEF Waiters
  <2> QED BY <2>1 DEF Update, Answered
<1>2. /\ r \in Requests /\ RequestAt(p, r) /\ r.key \in Keys /\ r.pe = p
      /\ r.seq \in Nat \ {0} /\ r.key[2] \in Nat /\ r.key[1] \in {"B", "G"}
      /\ requests' \in [PEs -> Seq(Requests)] /\ Forgetful
      /\ \A q \in PEs : QueueAt(q)'
      /\ Awaits(p, r.seq) => Expected(p, r.op, r.key)
  <2>1. /\ r \in Requests /\ RequestAt(p, r)
        /\ requests' \in [PEs -> Seq(Requests)] /\ Forgetful
        /\ \A q \in PEs : QueueAt(q)'
        /\ Awaits(p, r.seq) => Expected(p, r.op, r.key)
    BY TakenIs
  <2>2. r.key \in Keys /\ r.seq \in Nat \ {0}
    BY <2>1 DEF Requests
  <2>3. r.pe = p
    BY <2>1 DEF RequestAt
  <2>4. r.key[2] \in Nat /\ r.key[1] \in {"B", "G"}
    BY <2>2 DEF Keys
  <2> QED BY <2>1, <2>2, <2>3, <2>4
<1>3. Shape /\ Onward
  BY ServerOnward DEF GInv
<1>4. code \in Seq(Nat)
  <2>1. Len(value) \in Nat /\ <<>> \in Seq(Nat)
    OBVIOUS
  <2>2. <<Len(value)>> \in Seq(Nat)
    BY <2>1
  <2> QED BY <2>1, <2>2
<1>5. /\ DOMAIN kvStore' = DOMAIN kvStore \cup {r.key}
      /\ kvStore'[r.key] = value
      /\ \A k \in DOMAIN kvStore \ {r.key} : kvStore'[k] = kvStore[k]
  BY <1>1 DEF Store
<1>6. replies' \subseteq Replies
  <2>1. Answer(r, "SUCCESS", code) \in Replies
    BY <1>2, <1>4 DEF Answer, Replies, Codes
  <2>2. \A w \in woken : Answer(w, "SUCCESS", told) \in Replies
    BY <1>3 DEF Shape, Answer, Replies, Codes
  <2> QED BY <1>1, <1>3, <2>1, <2>2 DEF Shape
<1>7. Shape'
  BY <1>1, <1>2, <1>3, <1>5, <1>6 DEF Shape, ServerFrame, groupVars
<1>8. OnePlace'
  <2>1. HandsOut(r, "SUCCESS", code, woken, told)
    BY <1>1 DEF HandsOut
  <2> QED BY <2>1, AnswersInPlace
<1>9. \A k \in DOMAIN kvStore' : StoredAt(k)'
  <2> SUFFICES ASSUME NEW k \in DOMAIN kvStore, k # r.key PROVE StoredAt(k)'
    BY <1>5
  <2>1. k \in Keys /\ StoredAt(k) /\ kvStore'[k] = kvStore[k]
    BY <1>3, <1>5 DEF GInv, Shape
  <2> QED BY <1>2, <1>3, <1>7, <2>1, StoredStays
<1>10. r.key[3] = "W" => value = SMEM_GROUP_SET_STR /\ Entered(r.key[1], r.key[2])
  BY <1>5, SameClients DEF StoredAt
<1>11. /\ r.op \in Adds => code[1] \in 1 .. NPEs
       /\ r.op \in Adds /\ code[1] = NPEs => Entered(r.key[1], r.key[2])
  <2> SUFFICES ASSUME r.op \in Adds
               PROVE  /\ code[1] \in 1 .. NPEs
                      /\ code[1] = NPEs => Entered(r.key[1], r.key[2])
    OBVIOUS
  <2>1. PICK S \in SUBSET PEs : S = Arrived(r.key[1], r.key[2])'
    BY DEF Arrived
  <2>2. code[1] \in 1 .. Cardinality(S)
    <3>1. r.key[3] = "A" /\ (r.op = "ADD" => r.key[1] = "B")
          /\ (r.op = "APPEND" => r.key[1] = "G")
      BY <1>2 DEF RequestAt, Adds
    <3>2. CASE r.op = "ADD"
      BY <1>5, <2>1, <3>1, <3>2 DEF StoredAt
    <3>3. CASE r.op = "APPEND"
      BY <1>5, <2>1, <3>1, <3>3 DEF StoredAt
    <3> QED BY <3>2, <3>3 DEF Adds
  <2>3. Cardinality(S) \in 0 .. NPEs /\ (Cardinality(S) = NPEs => S = PEs)
        /\ NPEs \in Nat
    BY CountBound, RanksAreNumbers
  <2>4. code[1] \in 1 .. NPEs /\ (code[1] = NPEs => S = PEs)
    BY <2>2, <2>3
  <2>5. S = PEs => Entered(r.key[1], r.key[2])'
    BY <2>1 DEF Arrived, Entered
  <2> QED BY <2>4, <2>5, SameClients
<1>12. ReplyAt(Answer(r, "SUCCESS", code))
  <2>1. PICK x : x = Answer(r, "SUCCESS", code)
    OBVIOUS
  <2>2. x.pe = p /\ x.seq = r.seq /\ x.value = code
    BY <1>2, <2>1 DEF Answer
  <2>3. r.seq <= seqNo[p]
    BY <1>2 DEF RequestAt
  <2>4. Awaits(p, r.seq) => pc[p] # "get" /\ pc[p] # "data"
    BY <1>2 DEF Expected
  <2>5. ASSUME Awaits(p, r.seq), pc[p] = "add"
        PROVE  /\ code[1] \in 1 .. NPEs
               /\ code[1] = NPEs => Entered(Kind(p), Sn(p))
    <3>1. r.op \in Adds /\ r.key = Key(p, "A")
      BY <1>2, <2>5 DEF Expected
    <3> QED BY <1>11, <3>1 DEF Key
  <2>6. ReplyAt(x)
    BY <2>2, <2>3, <2>4, <2>5 DEF ReplyAt
  <2> QED BY <2>1, <2>6
<1>13. ASSUME NEW w \in woken PROVE ReplyAt(Answer(w, "SUCCESS", told))
  <2>1. PICK x : x = Answer(w, "SUCCESS", told)
    OBVIOUS
  <2>2. x.pe = w.pe /\ x.seq = w.seq /\ x.value = told
    BY <2>1 DEF Answer
  <2>3. WaiterAt(w) /\ w.key = r.key
    BY <1>1 DEF GInv
  <2>4. Awaits(w.pe, w.seq) => pc[w.pe] # "add"
    BY <2>3 DEF WaiterAt, Expected, Adds
  <2>5. ASSUME Awaits(w.pe, w.seq), pc[w.pe] = "get"
        PROVE  told = SMEM_GROUP_SET_STR /\ Entered(Kind(w.pe), Sn(w.pe))
    <3>1. r.key = Key(w.pe, "W")
      BY <2>3, <2>5 DEF WaiterAt, Expected
    <3>2. r.key[3] = "W"
      BY <3>1 DEF Key
    <3>3. r.op # "APPEND"
      BY <1>2, <3>2 DEF RequestAt
    <3>4. told = value
      BY <1>1, <3>3
    <3>5. Kind(w.pe) = r.key[1] /\ Sn(w.pe) = r.key[2]
      BY <3>1 DEF Key
    <3> QED BY <1>10, <3>2, <3>4, <3>5
  <2>7. ASSUME Awaits(w.pe, w.seq), pc[w.pe] = "data"
        PROVE  Gathered(told, Sn(w.pe), PEs)
    <3>1. r.key = Key(w.pe, "A") /\ w.pe \in PEs
      BY <1>3, <2>3, <2>7 DEF WaiterAt, Expected, Shape
    <3>2. Kind(w.pe) = "G"
      BY <2>7, <3>1 DEF GInv, PlaceAt
    <3>3. r.key[1] = "G" /\ r.key[2] = Sn(w.pe) /\ r.key[3] = "A"
      BY <3>1, <3>2 DEF Key
    <3>4. PICK S : S = Arrived("G", r.key[2])' /\ S \subseteq PEs
      BY DEF Arrived
    <3>5. Gathered(value, r.key[2], S)
      BY <1>5, <3>3, <3>4 DEF StoredAt, Gathered
    <3>6. Gathered(value, Sn(w.pe), PEs)
      BY <3>3, <3>4, <3>5, GatheredFromMore
    <3>7. Gathered(<<>>, Sn(w.pe), PEs)
      BY DEF Gathered
    <3> QED BY <1>1, <3>6, <3>7
  <2>6. ReplyAt(x)
    BY <2>2, <2>3, <2>4, <2>5, <2>7 DEF ReplyAt, WaiterAt
  <2> QED BY <2>1, <2>6
<1>14. \A x \in replies' : x \in replies \/ ReplyAt(x)
  BY <1>1, <1>12, <1>13
<1>15. \A w \in waitCtx' : w \in waitCtx
  BY <1>1
<1> QED BY <1>2, <1>7, <1>8, <1>9, <1>14, <1>15, ServerKeeps

LEMMA StoringKeeps ==
    ASSUME GInv, NEW p \in PEs, UNCHANGED groupVars,
           SetHandler(p) \/ AddHandler(p) \/ AppendHandler(p)
    PROVE  GInv'
<1>1. PICK r : r = Head(requests[p])
  OBVIOUS
<1>2. \E value, told, code :
        /\ Update(p, r, value, told, code)
        /\ requests[p] # <<>>
        /\ \/ r.op = "SET" /\ value = r.value /\ told = value /\ code = <<>>
           \/ /\ r.op = "ADD" /\ told = r.value /\ code = value
              /\ value = IF Exists(r.key) THEN <<kvStore[r.key][1] + r.value[1]>>
                         ELSE r.value
           \/ /\ r.op = "APPEND" /\ told = <<>> /\ code = <<Len(value)>>
              /\ value = IF Exists(r.key) THEN kvStore[r.key] \o r.value
                         ELSE r.value
  BY <1>1 DEF SetHandler, AddHandler, AppendHandler, Handle
<1>3. PICK value, told, code :
        /\ Update(p, r, value, told, code)
        /\ requests[p] # <<>>
        /\ \/ r.op = "SET" /\ value = r.value /\ told = value /\ code = <<>>
           \/ /\ r.op = "ADD" /\ told = r.value /\ code = value
              /\ value = IF Exists(r.key) THEN <<kvStore[r.key][1] + r.value[1]>>
                         ELSE r.value
           \/ /\ r.op = "APPEND" /\ told = <<>> /\ code = <<Len(value)>>
              /\ value = IF Exists(r.key) THEN kvStore[r.key] \o r.value
                         ELSE r.value
  BY <1>2
<1>4. ServerFrame /\ Taken(p, r) /\ kvStore' = Store(r.key, value)
  BY <1>1, <1>3 DEF ServerFrame, Taken, Update, Answered
<1>5. value \in Seq(Nat) /\ StoredAt(r.key)'
  BY <1>3, <1>4, UpdateStores
<1>6. /\ told \in Seq(Nat) /\ r.op \notin {"GET", "REMOVE"}
      /\ ~Exists(r.key) => told = value \/ (r.op = "APPEND" /\ told = <<>>)
  <2>1. r.value \in Seq(Nat) /\ <<>> \in Seq(Nat)
    BY <1>4, TakenIs DEF Requests
  <2>2. r.op = "ADD" /\ ~Exists(r.key) => value = r.value
    BY <1>3
  <2>3. /\ r.op \in {"SET", "ADD", "APPEND"}
        /\ r.op = "SET" => told = value
        /\ r.op = "ADD" => told = r.value
        /\ r.op = "APPEND" => told = <<>>
    BY <1>3
  <2>4. value \in Seq(Nat)
    BY <1>5
  <2>5. told \in Seq(Nat)
    BY <2>1, <2>3, <2>4
  <2>6. ~Exists(r.key) => told = value \/ (r.op = "APPEND" /\ told = <<>>)
    BY <2>2, <2>3
  <2> QED BY <2>3, <2>5, <2>6
<1> QED BY <1>3, <1>4, <1>5, <1>6, UpdateKeeps

\* REMOVE and a GET that finds its key answer the request and no other.
LEMMA AnsweringKeeps ==
    ASSUME GInv, ServerFrame, NEW p \in PEs, NEW r, Taken(p, r),
           NEW code \in Codes, NEW value \in Seq(Nat),
           replies' = replies \cup {Answer(r, code, value)},
           UNCHANGED <<late, running, waitCtx>>,
           DOMAIN kvStore' \subseteq DOMAIN kvStore,
           \A k \in DOMAIN kvStore' : kvStore'[k] = kvStore[k],
           \/ r.op = "REMOVE"
           \/ r.op = "GET" /\ Exists(r.key) /\ value = kvStore[r.key]
    PROVE  GInv'
<1>1. /\ r \in Requests /\ RequestAt(p, r)
      /\ requests' \in [PEs -> Seq(Requests)] /\ Forgetful
      /\ \A q \in PEs : QueueAt(q)'
      /\ Awaits(p, r.seq) => Expected(p, r.op, r.key)
  BY TakenIs
<1>2. r.key \in Keys /\ r.seq \in Nat \ {0} /\ r.pe = p /\ r.seq <= seqNo[p]
  BY <1>1 DEF Requests, RequestAt
<1>3. Shape /\ Onward
  BY ServerOnward DEF GInv
<1>4. Answer(r, code, value) \in Replies
  BY <1>2 DEF Answer, Replies
<1>5. Shape'
  BY <1>1, <1>3, <1>4 DEF Shape, ServerFrame, groupVars
<1>6. OnePlace'
  <2>1. PICK woken \in SUBSET waitCtx : woken = {}
    OBVIOUS
  <2>2. HandsOut(r, code, value, woken, value)
    BY <2>1 DEF HandsOut
  <2> QED BY <2>2, AnswersInPlace
<1>7. \A k \in DOMAIN kvStore' : StoredAt(k)'
  <2> SUFFICES ASSUME NEW k \in DOMAIN kvStore' PROVE StoredAt(k)'
    OBVIOUS
  <2>1. k \in Keys /\ StoredAt(k) /\ kvStore'[k] = kvStore[k]
    BY <1>3 DEF GInv, Shape
  <2> QED BY <1>1, <1>3, <1>5, <2>1, StoredStays
<1>8. ReplyAt(Answer(r, code, value))
  <2>1. PICK x : x = Answer(r, code, value)
    OBVIOUS
  <2>2. x.pe = p /\ x.seq = r.seq /\ x.value = value
    BY <1>2, <2>1 DEF Answer
  <2>3. Awaits(p, r.seq) => pc[p] # "add"
    BY <1>1 DEF Expected, Adds
  <2>4. ASSUME Awaits(p, r.seq), pc[p] = "get"
        PROVE  value = SMEM_GROUP_SET_STR /\ Entered(Kind(p), Sn(p))
    <3>1. r.op = "GET" /\ r.key = Key(p, "W")
      BY <1>1, <2>4 DEF Expected
    <3>2. Exists(r.key) /\ value = kvStore[r.key]
      BY <3>1
    <3>3. StoredAt(r.key)
      BY <3>2 DEF GInv, Exists
    <3> QED BY <3>1, <3>2, <3>3 DEF StoredAt, Key
  <2>6. ASSUME Awaits(p, r.seq), pc[p] = "data"
        PROVE  Gathered(value, Sn(p), PEs)
    <3>1. r.op = "GET" /\ r.key = Key(p, "A") /\ Kind(p) = "G"
      BY <1>1, <2>6 DEF Expected, GInv, PlaceAt
    <3>2. Exists(r.key) /\ value = kvStore[r.key]
      BY <3>1
    <3>3. StoredAt(r.key)
      BY <3>2 DEF GInv, Exists
    <3>4. Gathered(value, Sn(p), Arrived("G", Sn(p)))
      BY <3>1, <3>2, <3>3 DEF StoredAt, Key
    <3>5. Arrived("G", Sn(p)) \subseteq PEs
      BY DEF Arrived
    <3> QED BY <3>4, <3>5, GatheredFromMore
  <2>5. ReplyAt(x)
    BY <1>2, <2>2, <2>3, <2>4, <2>6 DEF ReplyAt
  <2> QED BY <2>1, <2>5
<1>9. \A x \in replies' : x \in replies \/ ReplyAt(x)
  BY <1>8
<1> QED BY <1>1, <1>5, <1>6, <1>7, <1>9, ServerKeeps

LEMMA RemoveKeeps ==
    ASSUME GInv, NEW p \in PEs, UNCHANGED groupVars, RemoveHandler(p)
    PROVE  GInv'
<1>1. PICK r : r = Head(requests[p])
  OBVIOUS
<1>2. PICK code \in Codes :
        /\ r.op = "REMOVE" /\ requests[p] # <<>>
        /\ kvStore' = Restrict(kvStore, DOMAIN kvStore \ {r.key})
        /\ Answered(p, {Answer(r, code, <<>>)}) /\ UNCHANGED waitCtx
  BY <1>1 DEF RemoveHandler, Handle, Codes
<1>3. /\ DOMAIN kvStore' \subseteq DOMAIN kvStore
      /\ \A k \in DOMAIN kvStore' : kvStore'[k] = kvStore[k]
  BY <1>2 DEF Restrict
<1>4. /\ ServerFrame /\ Taken(p, r) /\ <<>> \in Seq(Nat)
      /\ replies' = replies \cup {Answer(r, code, <<>>)}
      /\ UNCHANGED <<late, running, waitCtx>>
  BY <1>1, <1>2 DEF ServerFrame, Taken, Answered
<1> QED BY <1>2, <1>3, <1>4, AnsweringKeeps

LEMMA GetKeeps ==
    ASSUME GInv, NEW p \in PEs, UNCHANGED groupVars, GetHandler(p)
    PROVE  GInv'
<1>1. PICK r : r = Head(requests[p])
  OBVIOUS
<1>2. /\ r.op = "GET" /\ requests[p] # <<>> /\ kvStore' = kvStore
      /\ \/ /\ Exists(r.key) /\ UNCHANGED waitCtx
            /\ Answered(p, {Answer(r, "SUCCESS", kvStore[r.key])})
         \/ /\ Answered(p, {})
            /\ waitCtx' = waitCtx \cup {[pe |-> p, seq |-> r.seq, key |-> r.key]}
  BY <1>1 DEF GetHandler, Handle
<1>3. /\ ServerFrame /\ Taken(p, r) /\ UNCHANGED <<late, running>>
  BY <1>1, <1>2 DEF ServerFrame, Taken, Answered
<1>4. CASE /\ Exists(r.key) /\ UNCHANGED waitCtx
           /\ Answered(p, {Answer(r, "SUCCESS", kvStore[r.key])})
  <2>1. PICK value \in Seq(Nat) : value = kvStore[r.key]
    BY <1>4 DEF GInv, Shape, Exists
  <2>2. replies' = replies \cup {Answer(r, "SUCCESS", value)}
    BY <1>4, <2>1 DEF Answered
  <2>3. "SUCCESS" \in Codes
    BY DEF Codes
  <2> QED BY <1>2, <1>3, <1>4, <2>1, <2>2, <2>3, AnsweringKeeps
<1>5. CASE /\ Answered(p, {})
           /\ waitCtx' = waitCtx \cup {[pe |-> p, seq |-> r.seq, key |-> r.key]}
  <2>1. /\ r \in Requests /\ RequestAt(p, r)
        /\ requests' \in [PEs -> Seq(Requests)] /\ Forgetful
        /\ \A q \in PEs : QueueAt(q)'
        /\ Awaits(p, r.seq) => Expected(p, r.op, r.key)
    BY <1>3, TakenIs
  <2>2. r.key \in Keys /\ r.seq \in Nat \ {0} /\ r.pe = p /\ r.seq <= seqNo[p]
    BY <2>1 DEF Requests, RequestAt
  <2>3. PICK v : v = [pe |-> p, seq |-> r.seq, key |-> r.key]
    OBVIOUS
  <2>4. /\ v.pe = p /\ v.seq = r.seq /\ v.key = r.key /\ Same(v, r)
        /\ v \in [pe : PEs, seq : Nat \ {0}, key : Keys]
    BY <2>2, <2>3 DEF Same
  <2>5. replies' = replies /\ waitCtx' = waitCtx \cup {v}
    BY <1>5, <2>3 DEF Answered
  <2>6. Shape /\ Onward
    BY <1>3, ServerOnward DEF GInv
  <2>7. Shape'
    BY <1>2, <1>3, <2>1, <2>4, <2>5, <2>6 DEF Shape, ServerFrame, groupVars
  <2>8. OnePlace'
    BY <1>3, <2>4, <2>5, WaitsInPlace
  <2>9. WaiterAt(v)
    BY <1>2, <2>1, <2>2, <2>4 DEF WaiterAt
  <2>10. \A k \in DOMAIN kvStore' : StoredAt(k)'
    <3> SUFFICES ASSUME NEW k \in DOMAIN kvStore' PROVE StoredAt(k)'
      OBVIOUS
    <3>1. k \in Keys /\ StoredAt(k) /\ kvStore'[k] = kvStore[k]
      BY <1>2, <2>6 DEF GInv, Shape
    <3> QED BY <2>1, <2>6, <2>7, <3>1, StoredStays
  <2> QED BY <1>3, <2>1, <2>5, <2>7, <2>8, <2>9, <2>10, ServerKeeps
<1> QED BY <1>2, <1>4, <1>5

\* Steps of the server that leave the queues alone or empty them.
LEMMA QuietKeeps ==
    ASSUME GInv, ServerFrame, Shape', OnePlace', kvStore' = kvStore,
           \A q \in PEs : requests'[q] \in {requests[q], <<>>},
           \A w \in waitCtx' : w \in waitCtx,
           \A x \in replies' : x \in replies \/ ReplyAt(x)
    PROVE  GInv'
<1>1. Shape /\ Onward
  BY ServerOnward DEF GInv
<1>2. Forgetful
  <2> SUFFICES ASSUME NEW q \in PEs, NEW kind \in {"B", "G"}, NEW sn \in Nat,
                      OnItsWay(q, kind, sn)'
               PROVE  OnItsWay(q, kind, sn)
    BY DEF Forgetful
  <2>1. CASE requests'[q] = requests[q]
    BY <2>1 DEF OnItsWay
  <2>2. CASE requests'[q] = <<>>
    BY <2>2 DEF OnItsWay
  <2> QED BY <2>1, <2>2
<1>3. ASSUME NEW q \in PEs PROVE QueueAt(q)'
  <2>1. CASE requests'[q] = requests[q]
    BY <2>1, SameClients DEF GInv, QueueAt
  <2>2. CASE requests'[q] = <<>>
    BY <2>2 DEF QueueAt
  <2> QED BY <2>1, <2>2
<1>4. \A k \in DOMAIN kvStore' : StoredAt(k)'
  <2> SUFFICES ASSUME NEW k \in DOMAIN kvStore' PROVE StoredAt(k)'
    OBVIOUS
  <2>1. k \in Keys /\ StoredAt(k) /\ kvStore'[k] = kvStore[k]
    BY <1>1 DEF GInv, Shape
  <2> QED BY <1>1, <1>2, <2>1, StoredStays
<1> QED BY <1>3, <1>4, ServerKeeps

LEMMA TimerKeeps ==
    ASSUME GInv, Timer
    PROVE  GInv'
<1>1. PICK v \in waitCtx :
          /\ replies' = replies \cup {Answer(v, "TIMEOUT", <<>>)}
          /\ waitCtx' = waitCtx \ {v}
          /\ TimeOver(Stalled)
          /\ UNCHANGED <<maxLate, running, kvStore, requests, seqNo, pending>>
          /\ UNCHANGED groupVars
  BY DEF Timer, TimerThreadTask
<1>2. PICK x : x = Answer(v, "TIMEOUT", <<>>)
  OBVIOUS
<1>3. x.pe = v.pe /\ x.seq = v.seq /\ x.code = "TIMEOUT" /\ Same(x, v)
  BY <1>2 DEF Answer, Same
<1>4. Shape /\ OnePlace /\ WaiterAt(v)
  BY DEF GInv
<1>5. x \in Replies
  <2>1. v.pe \in PEs /\ v.seq \in Nat \ {0} /\ <<>> \in Seq(Nat)
    BY <1>4 DEF Shape
  <2> QED BY <1>2, <2>1 DEF Answer, Replies, Codes
<1>6. late' \in 0 .. maxLate
  BY <1>1, <1>4 DEF Shape, TimeOver
<1>7. ServerFrame
  BY <1>1 DEF ServerFrame
<1>8. Shape'
  BY <1>1, <1>2, <1>4, <1>5, <1>6 DEF Shape, groupVars
<1>9. OnePlace'
  BY <1>1, <1>2, <1>3, <1>4 DEF OnePlace, Same
<1>10. ReplyAt(x)
  BY <1>3, <1>4 DEF ReplyAt, WaiterAt
<1> QED BY <1>1, <1>2, <1>7, <1>8, <1>9, <1>10, QuietKeeps

LEMMA DropKeeps ==
    ASSUME GInv, NEW p \in PEs, DropReply(p), UNCHANGED groupVars
    PROVE  GInv'
<1>1. /\ \A x \in replies' : x \in replies
      /\ UNCHANGED <<late, maxLate, running, kvStore, waitCtx, requests, seqNo,
                     pending>>
  BY DEF DropReply
<1>2. ServerFrame /\ Shape'
  BY <1>1 DEF GInv, Shape, ServerFrame, groupVars
<1>3. OnePlace'
  BY <1>1 DEF GInv, OnePlace
<1> QED BY <1>1, <1>2, <1>3, QuietKeeps

LEMMA DestroyKeeps ==
    ASSUME GInv, DestroyStore
    PROVE  GInv'
<1>1. /\ running' = FALSE /\ waitCtx' = {} /\ requests' = [p \in PEs |-> <<>>]
      /\ UNCHANGED <<late, maxLate, kvStore, replies, seqNo, pending, groupVars>>
  BY DEF DestroyStore, Shutdown
<1>2. requests' \in [PEs -> Seq(Requests)]
  BY <1>1
<1>3. ServerFrame /\ Shape'
  BY <1>1, <1>2 DEF GInv, Shape, ServerFrame, groupVars
<1>4. OnePlace'
  BY <1>1 DEF GInv, OnePlace
<1>5. \A q \in PEs : requests'[q] = <<>>
  BY <1>1
<1> QED BY <1>1, <1>3, <1>4, <1>5, QuietKeeps

LEMMA NextKeeps ==
    ASSUME GInv, [Next]_vars
    PROVE  GInv'
<1>1. CASE \E p \in PEs : Collective(p)
  BY <1>1, BeginKeeps, AddedKeeps, RemovedKeeps, WaitedKeeps DEF Collective
<1>2. CASE \E p \in PEs : Handler(p) /\ UNCHANGED groupVars
  BY <1>2, StoringKeeps, RemoveKeeps, GetKeeps DEF Handler
<1>3. CASE \E p \in PEs : DropReply(p) /\ UNCHANGED groupVars
  BY <1>3, DropKeeps
<1>4. CASE Timer
  BY <1>4, TimerKeeps
<1>5. CASE DestroyStore
  BY <1>5, DestroyKeeps
<1>6. CASE UNCHANGED vars
  <2>1. ServerFrame /\ UNCHANGED storeVars
    BY <1>6 DEF vars, storeVars, ServerFrame
  <2>2. Shape' /\ OnePlace'
    BY <2>1 DEF GInv, Shape, OnePlace, ServerFrame, groupVars, storeVars
  <2> QED BY <2>1, <2>2, QuietKeeps DEF storeVars
<1> QED BY <1>1, <1>2, <1>3, <1>4, <1>5, <1>6 DEF Next

LEMMA InitGroup == Init => GInv
<1> SUFFICES ASSUME Init PROVE GInv
  OBVIOUS
<1>1. PICK j \in Jobs : program = j.program /\ maxLate = j.late
  BY DEF Init
<1>2. /\ program \in Seq({"B", "G"}) /\ maxLate \in Nat
      /\ Len(program) \in Nat /\ Len(program) > 1
  <2>1. j.program \in Seq({"B", "G"}) /\ j.late \in Nat /\ Len(j.program) > 1
    BY GroupAssumption
  <2> QED BY <1>1, <2>1
<1>3. /\ late = 0 /\ running = TRUE /\ kvStore = <<>> /\ waitCtx = {}
      /\ requests = [p \in PEs |-> <<>>] /\ replies = {}
      /\ seqNo = [p \in PEs |-> 0] /\ pending = [p \in PEs |-> {}]
      /\ started = [p \in PEs |-> 0] /\ results = [p \in PEs |-> <<>>]
      /\ pc = [p \in PEs |-> "idle"] /\ val = [p \in PEs |-> 0]
  BY DEF Init, StoreInit
<1>4. NPEs \in Nat
  BY RanksAreNumbers
<1>5. Shape
  BY <1>2, <1>3, <1>4 DEF Shape
<1>6. OnePlace
  BY <1>3 DEF OnePlace
<1>7. ASSUME NEW p \in PEs PROVE PlaceAt(p) /\ QueueAt(p)
  <2>1. /\ started[p] = 0 /\ pc[p] = "idle" /\ pending[p] = {}
        /\ Len(results[p]) = 0 /\ requests[p] = <<>>
    BY <1>3
  <2>2. PlaceAt(p)
    BY <1>2, <2>1 DEF PlaceAt
  <2> QED BY <2>1, <2>2 DEF QueueAt
<1> QED BY <1>3, <1>5, <1>6, <1>7 DEF GInv

(* The state of the store, of the links and of every PE satisfies GInv. *)
THEOREM GroupInvariant == Spec => []GInv
BY InitGroup, NextKeeps, PTL DEF Spec

(* Requests, answers, waiters and the state of every PE have their types,   *)
(* and a PE waits for exactly one answer while it is in a collective.       *)
THEOREM GroupTypes == Spec => []TypeOK
<1>1. GInv => TypeOK
  <2> SUFFICES ASSUME GInv PROVE TypeOK
    OBVIOUS
  <2>1. Shape
    BY DEF GInv
  <2>2. /\ late \in 0 .. maxLate /\ running \in BOOLEAN
        /\ DOMAIN kvStore \subseteq Keys
        /\ \A k \in DOMAIN kvStore : kvStore[k] \in Seq(Nat)
        /\ waitCtx \subseteq [pe : PEs, seq : Nat, key : Keys]
    BY <2>1 DEF Shape
  <2>3. ASSUME NEW p \in PEs, NEW i \in DOMAIN requests[p], NEW r,
               r = requests[p][i]
        PROVE  /\ r.pe = p /\ r.seq \in 1 .. seqNo[p] /\ r.key \in Keys
               /\ r.op \in {"SET", "GET", "ADD", "REMOVE", "APPEND"}
               /\ r.value \in Seq(Nat)
    <3>1. requests[p] \in Seq(Requests) /\ seqNo[p] \in Nat
      BY <2>1 DEF Shape
    <3>2. r \in Requests
      BY <2>3, <3>1
    <3>3. r.pe = p /\ r.seq <= seqNo[p]
      BY <2>3 DEF GInv, QueueAt, RequestAt
    <3> QED BY <3>1, <3>2, <3>3 DEF Requests
  <2>4. ASSUME NEW p \in PEs
        PROVE  /\ started[p] \in 0 .. Len(program)
               /\ results[p] \in Seq({"OK", "ERROR"})
               /\ pc[p] \in Operations \cup {"idle"}
               /\ val[p] \in 0 .. NPEs
               /\ pending[p] = IF pc[p] = "idle" THEN {} ELSE {seqNo[p]}
               /\ Len(results[p]) = IF pc[p] = "idle" THEN started[p]
                                    ELSE started[p] - 1
    <3>1. /\ started[p] \in Nat /\ results[p] \in Seq({"OK", "ERROR"})
          /\ pc[p] \in Operations \cup {"idle"} /\ val[p] \in 0 .. NPEs
          /\ Len(program) \in Nat
      BY <2>1 DEF Shape
    <3>2. /\ started[p] <= Len(program)
          /\ pending[p] = IF pc[p] = "idle" THEN {} ELSE {seqNo[p]}
          /\ Len(results[p]) = IF pc[p] = "idle" THEN started[p]
                               ELSE started[p] - 1
      BY DEF GInv, PlaceAt
    <3> QED BY <3>1, <3>2
  <2>5. ASSUME NEW r \in replies
        PROVE  /\ r.pe \in PEs /\ r.seq \in 1 .. seqNo[r.pe]
               /\ r.value \in Seq(Nat)
               /\ r.code \in {"SUCCESS", "NOT_EXIST", "TIMEOUT"}
    <3>1. r \in Replies /\ r.seq <= seqNo[r.pe]
      BY <2>1 DEF GInv, ReplyAt, Shape
    <3>2. /\ r.pe \in PEs /\ r.seq \in Nat \ {0} /\ r.value \in Seq(Nat)
          /\ r.code \in {"SUCCESS", "NOT_EXIST", "TIMEOUT"}
      BY <3>1 DEF Replies, Codes
    <3>3. seqNo[r.pe] \in Nat
      BY <2>1, <3>2 DEF Shape
    <3> QED BY <3>1, <3>2, <3>3
  <2> QED BY <2>2, <2>3, <2>4, <2>5 DEF TypeOK
<1> QED BY <1>1, GroupInvariant, PTL

(* A request is answered once: the timer and a wake-up never both answer    *)
(* it, and a waiting request has no answer.                                 *)
THEOREM RequestsAnsweredOnce == Spec => []AnsweredOnce
<1>1. GInv => AnsweredOnce
  BY DEF GInv, OnePlace, AnsweredOnce, Same
<1> QED BY <1>1, GroupInvariant, PTL
-----------------------------------------------------------------------------
(* GroupBarrier implements the control barrier.  A step of a PE begins a    *)
(* collective, goes on in it, or ends it; only the first and the last are   *)
(* seen, and only if the collective is a barrier.                           *)

\* How the last barrier ended, after one collective more.
LEMMA LastBarrierStep ==
    ASSUME NEW p, NEW s \in Seq({"OK", "ERROR"}), results[p] = s, NEW res,
           results'[p] = Append(s, res), UNCHANGED program
    PROVE  LastBarrier(p)' = IF program[Len(s) + 1] = "B" THEN res
                             ELSE LastBarrier(p)
<1> DEFINE n == Len(s) + 1
           M == {i \in DOMAIN s : program[i] = "B"}
           N == {i \in DOMAIN Append(s, res) : program[i] = "B"}
<1>1. /\ n \in Nat /\ n > 0 /\ DOMAIN s = 1 .. n - 1
      /\ DOMAIN Append(s, res) = 1 .. n /\ Append(s, res)[n] = res
      /\ \A i \in 1 .. n - 1 : Append(s, res)[i] = s[i]
  OBVIOUS
<1>2. LastBarrier(p) = IF M = {} THEN "none"
                       ELSE s[CHOOSE i \in M : \A j \in M : j <= i]
  BY DEF LastBarrier
<1>3. LastBarrier(p)' = IF N = {} THEN "none"
                        ELSE Append(s, res)[CHOOSE i \in N : \A j \in N : j <= i]
  BY DEF LastBarrier
<1>4. CASE program[n] = "B"
  <2>1. n \in N /\ \A j \in N : j <= n /\ j \in Nat
    BY <1>1, <1>4
  <2>2. (CHOOSE i \in N : \A j \in N : j <= i) = n
    <3>1. \A i \in N : (\A j \in N : j <= i) => i = n
      BY <1>1, <2>1
    <3> HIDE DEF N, n
    <3> QED BY <2>1, <3>1
  <2> QED BY <1>1, <1>3, <1>4, <2>1, <2>2
<1>5. CASE program[n] # "B"
  <2>1. N = M
    BY <1>1, <1>5
  <2>2. CASE M = {}
    BY <1>2, <1>3, <1>5, <2>1, <2>2
  <2>3. CASE M # {}
    <3>1. M \in SUBSET Nat /\ \A m \in M : m <= n
      BY <1>1
    <3>2. \E i \in M : \A j \in M : j <= i
      <4> HIDE DEF M, n
      <4> QED BY <1>1, <2>3, <3>1, GreatestNatural
    <3>3. (CHOOSE i \in M : \A j \in M : j <= i) \in M
      <4> HIDE DEF M
      <4> QED BY <3>2
    <3>4. PICK c \in M : c = CHOOSE i \in M : \A j \in M : j <= i
      BY <3>3
    <3>5. Append(s, res)[c] = s[c]
      BY <1>1
    <3> QED BY <1>2, <1>3, <1>5, <2>1, <2>3, <3>4, <3>5
  <2> QED BY <2>2, <2>3
<1> QED BY <1>4, <1>5

\* What a step of p is to the barrier.
LEMMA CollectiveSteps ==
    ASSUME GInv, NEW p \in PEs, Collective(p)
    PROVE  \/ Begin(p)
           \/ UNCHANGED <<program, started, results>>
           \/ /\ UNCHANGED <<program, started>> /\ pc[p] # "idle"
              /\ \/ Return(p, "ERROR")
                 \/ Return(p, "OK") /\ (Kind(p) = "B" => Entered("B", Sn(p)))
<1>1. CASE Added(p)
  BY <1>1 DEF Added, Ends, Do, SetOrGet
<1>2. CASE RemovedAdd(p) \/ RemovedWait(p) \/ HasSet(p)
  BY <1>2 DEF RemovedAdd, RemovedWait, HasSet, Ends, Do, SetOrGet
<1>3. CASE HasWaited(p)
  <2>1. PICK o \in Outcomes(p) :
            /\ Ends(p, "get", o)
            /\ \/ Return(p, "ERROR")
               \/ o.code = "SUCCESS" /\ Return(p, "OK")
               \/ Do(p, "data", "GET", Key(p, "A"), <<>>)
    BY <1>3 DEF HasWaited, Opened
  <2>2. pc[p] = "get" /\ UNCHANGED <<program, started>>
    BY <2>1 DEF Ends
  <2>3. o.code = "SUCCESS" => Entered(Kind(p), Sn(p))
    BY <2>2, OutcomeIs
  <2> QED BY <2>1, <2>2, <2>3 DEF Do
<1>4. CASE HasData(p)
  <2>1. pc[p] = "data" /\ UNCHANGED <<program, started>>
        /\ (Return(p, "ERROR") \/ Return(p, "OK"))
    BY <1>4 DEF HasData, Ends
  <2>2. Kind(p) = "G"
    BY <2>1 DEF GInv, PlaceAt
  <2> QED BY <2>1, <2>2
<1> QED BY <1>1, <1>2, <1>3, <1>4 DEF Collective

\* The state of the barrier, PE by PE.
Enters(q) == CountOf("B", started[q])
Leaves(q) == CountOf("B", Len(results[q]))

\* The program does not change, so a PE whose place is the same has the same
\* state in the barrier.
LEMMA SameInBarrier ==
    ASSUME UNCHANGED program, NEW q
    PROVE  /\ started'[q] = started[q] => Enters(q)' = Enters(q)
           /\ results'[q] = results[q] =>
                Leaves(q)' = Leaves(q) /\ LastBarrier(q)' = LastBarrier(q)
<1>1. started'[q] = started[q] => Enters(q)' = Enters(q)
  BY DEF Enters, CountOf
<1>2. results'[q] = results[q] => Leaves(q)' = Leaves(q)
  BY DEF Leaves, CountOf
<1>3. results'[q] = results[q] => LastBarrier(q)' = LastBarrier(q)
  BY DEF LastBarrier
<1> QED BY <1>1, <1>2, <1>3

LEMMA UnseenStep ==
    ASSUME \A q \in PEs : /\ Enters(q)' = Enters(q) /\ Leaves(q)' = Leaves(q)
                          /\ LastBarrier(q)' = LastBarrier(q)
    PROVE  UNCHANGED Barrier!barrierVars
BY DEF Barrier!barrierVars, Enters, Leaves

LEMMA EnterStep ==
    ASSUME NEW p \in PEs, Leaves(p) = Enters(p), Enters(p)' = Enters(p) + 1,
           \A q \in PEs \ {p} : Enters(q)' = Enters(q),
           \A q \in PEs : /\ Leaves(q)' = Leaves(q)
                          /\ LastBarrier(q)' = LastBarrier(q)
    PROVE  Barrier!Enter(p)
BY DEF Barrier!Enter, Barrier!Outside, Enters, Leaves

LEMMA LeaveStep ==
    ASSUME NEW p \in PEs, NEW res, Leaves(p) # Enters(p), Leaves(p)' = Enters(p),
           LastBarrier(p)' = res, \A q \in PEs : Enters(q)' = Enters(q),
           \A q \in PEs \ {p} : /\ Leaves(q)' = Leaves(q)
                                /\ LastBarrier(q)' = LastBarrier(q)
    PROVE  Barrier!Leave(p, res)
BY DEF Barrier!Leave, Barrier!Outside, Enters, Leaves

LEMMA BeginIsEnter ==
    ASSUME GInv, NEW p \in PEs, Begin(p)
    PROVE  Barrier!Enter(p) \/ UNCHANGED Barrier!barrierVars
<1>1. Shape /\ PlaceAt(p) /\ pc[p] = "idle" /\ started[p] < Len(program)
  BY DEF GInv, Begin
<1>2. /\ UNCHANGED <<program, results>> /\ started'[p] = started[p] + 1
      /\ \A q \in PEs \ {p} : started'[q] = started[q]
      /\ started[p] \in Nat
  BY <1>1 DEF Begin, Shape
<1>3. /\ \A q \in PEs : Leaves(q)' = Leaves(q) /\ LastBarrier(q)' = LastBarrier(q)
      /\ \A q \in PEs \ {p} : Enters(q)' = Enters(q)
  BY <1>2, SameInBarrier
<1>4. Leaves(p) = Enters(p)
  BY <1>1 DEF PlaceAt, Leaves, Enters
<1>5. Enters(p)' = CountOf("B", started[p] + 1)
  BY <1>2 DEF Enters, CountOf
<1>6. Enters(p)' = Enters(p) + 1 \/ Enters(p)' = Enters(p)
  BY <1>2, <1>5, CountStep DEF Enters
<1>7. CASE Enters(p)' = Enters(p) + 1
  BY <1>3, <1>4, <1>7, EnterStep
<1>8. CASE Enters(p)' = Enters(p)
  BY <1>3, <1>8, UnseenStep
<1> QED BY <1>6, <1>7, <1>8

LEMMA ReturnIsLeave ==
    ASSUME GInv, NEW p \in PEs, UNCHANGED <<program, started>>, pc[p] # "idle",
           NEW res, Return(p, res)
    PROVE  /\ Kind(p) = "B" => Barrier!Leave(p, res)
           /\ Kind(p) # "B" => UNCHANGED Barrier!barrierVars
<1>1. Shape /\ PlaceAt(p)
  BY DEF GInv
<1>2. PICK s \in Seq({"OK", "ERROR"}) : s = results[p]
  BY <1>1 DEF Shape
<1>3. /\ results'[p] = Append(s, res)
      /\ \A q \in PEs \ {p} : results'[q] = results[q]
  BY <1>1, <1>2 DEF Return, Shape
<1>4. /\ Len(s) \in Nat /\ Len(s) + 1 = started[p] /\ Len(Append(s, res)) = Len(s) + 1
  <2>1. Len(s) = started[p] - 1 /\ started[p] \in Nat /\ Len(s) \in Nat
    BY <1>1, <1>2 DEF PlaceAt, Shape
  <2>2. Len(Append(s, res)) = Len(s) + 1
    OBVIOUS
  <2> QED BY <2>1, <2>2
<1>5. /\ \A q \in PEs : Enters(q)' = Enters(q)
      /\ \A q \in PEs \ {p} : Leaves(q)' = Leaves(q)
                              /\ LastBarrier(q)' = LastBarrier(q)
  BY <1>3, SameInBarrier
<1>6. LastBarrier(p)' = IF Kind(p) = "B" THEN res ELSE LastBarrier(p)
  BY <1>2, <1>3, <1>4, LastBarrierStep DEF Kind
<1>7. Leaves(p) = CountOf("B", Len(s)) /\ Enters(p) = CountOf("B", Len(s) + 1)
  BY <1>2, <1>4 DEF Leaves, Enters
<1>8. Leaves(p)' = CountOf("B", Len(s) + 1)
  BY <1>3, <1>4 DEF Leaves, CountOf
<1>9. /\ Kind(p) = "B" => Enters(p) = Leaves(p) + 1 /\ Leaves(p) \in Nat
      /\ Kind(p) # "B" => Enters(p) = Leaves(p)
  <2>1. Len(s) \in Nat /\ Kind(p) = program[Len(s) + 1]
    BY <1>4 DEF Kind
  <2>2. /\ CountOf("B", Len(s)) \in Nat
        /\ CountOf("B", Len(s) + 1) = IF program[Len(s) + 1] = "B"
                                      THEN CountOf("B", Len(s)) + 1
                                      ELSE CountOf("B", Len(s))
    BY <2>1, CountStep
  <2> QED BY <1>7, <2>1, <2>2
<1>10. CASE Kind(p) = "B"
  <2>1. Leaves(p) # Enters(p)
    BY <1>9, <1>10
  <2> QED BY <1>5, <1>6, <1>7, <1>8, <1>10, <2>1, LeaveStep
<1>11. CASE Kind(p) # "B"
  BY <1>5, <1>6, <1>7, <1>8, <1>9, <1>11, UnseenStep
<1> QED BY <1>10, <1>11

LEMMA BarrierStep ==
    ASSUME GInv, [Next]_vars
    PROVE  [Barrier!BarrierNext]_(Barrier!barrierVars)
<1>1. CASE UNCHANGED <<program, started, results>>
  <2>1. UNCHANGED program /\ \A q \in PEs : started'[q] = started[q]
                                            /\ results'[q] = results[q]
    BY <1>1
  <2> QED BY <2>1, SameInBarrier, UnseenStep
<1>2. CASE \E p \in PEs : Collective(p)
  <2>1. PICK p \in PEs : Collective(p)
    BY <1>2
  <2>2. CASE Begin(p)
    BY <2>2, BeginIsEnter DEF Barrier!BarrierNext
  <2>3. CASE UNCHANGED <<program, started>> /\ pc[p] # "idle" /\ Return(p, "ERROR")
    BY <2>3, ReturnIsLeave DEF Barrier!BarrierNext, Barrier!Fail
  <2>4. CASE /\ UNCHANGED <<program, started>> /\ pc[p] # "idle"
             /\ Return(p, "OK") /\ (Kind(p) = "B" => Entered("B", Sn(p)))
    <3>1. CASE Kind(p) = "B"
      <4>1. \A q \in PEs : Enters(q) >= Enters(p)
        BY <2>4, <3>1 DEF Entered, Sn, Enters
      <4>2. Barrier!Pass(p)
        BY <2>4, <3>1, <4>1, ReturnIsLeave DEF Barrier!Pass, Enters
      <4> QED BY <4>2 DEF Barrier!BarrierNext
    <3>2. CASE Kind(p) # "B"
      BY <2>4, <3>2, ReturnIsLeave
    <3> QED BY <3>1, <3>2
  <2> QED BY <1>1, <2>1, <2>2, <2>3, <2>4, CollectiveSteps
<1>3. CASE UNCHANGED groupVars
  BY <1>1, <1>3 DEF groupVars
<1> QED BY <1>2, <1>3 DEF Next, Timer, DestroyStore, vars

(* GroupBarrier is the control barrier the host library relies on: a PE     *)
(* gets OK only after every PE has entered this very barrier, for any       *)
(* number of PEs, any program of barriers and all-gathers, late answers,    *)
(* expired waits, removed rounds and a store that goes away.                *)
THEOREM BarrierRefined == Spec => ImplementsControlBarrier
<1>1. Init => Barrier!BarrierInit
  <2> SUFFICES ASSUME Init PROVE Barrier!BarrierInit
    OBVIOUS
  <2>1. ASSUME NEW q \in PEs
        PROVE  /\ CountOf("B", started[q]) = 0 /\ CountOf("B", Len(results[q])) = 0
               /\ LastBarrier(q) = "none"
    <3>1. started[q] = 0 /\ results[q] = <<>> /\ Len(results[q]) = 0
          /\ DOMAIN results[q] = {}
      BY DEF Init
    <3>2. {i \in 1 .. 0 : program[i] = "B"} = {}
      OBVIOUS
    <3> QED BY <3>1, <3>2, FS_EmptySet DEF CountOf, LastBarrier
  <2> QED BY <2>1 DEF Barrier!BarrierInit
<1>2. GInv /\ [Next]_vars => [Barrier!BarrierNext]_(Barrier!barrierVars)
  BY BarrierStep
<1> QED BY <1>1, <1>2, GroupInvariant, PTL
        DEF Spec, ImplementsControlBarrier, Barrier!BarrierSpec
-----------------------------------------------------------------------------
(* All-gather.  What a PE receives are contributions of different PEs to    *)
(* its round, by GInv; if there are NPEs of them, they are those of all     *)
(* PEs, and sorting by rank puts each in its place.                         *)

LEMMA RankOfContribution ==
    ASSUME NEW q \in PEs, NEW sn \in Nat
    PROVE  Contribution(q, sn) % NPEs = q
<1>1. NPEs \in Nat \ {0} /\ q \in Nat /\ q < NPEs
  BY RanksAreNumbers
<1>2. NPEs * sn \in Nat
  BY <1>1
<1>3. (NPEs * sn + q) % NPEs = q
  BY <1>1, QuotientIs
<1>4. Contribution(q, sn) = NPEs * sn + q
  BY <1>1, <1>2 DEF Contribution
<1> QED BY <1>3, <1>4

\* f puts the contributions v in order (std::sort).
Sorts(v, f) ==
    \A i, j \in DOMAIN v : i < j =>
        \/ v[f[i]] % NPEs < v[f[j]] % NPEs
        \/ v[f[i]] % NPEs = v[f[j]] % NPEs /\ f[i] < f[j]

LEMMA SortedGather ==
    ASSUME NEW v \in Seq(Nat), Len(v) = NPEs, NEW sn \in Nat,
           Gathered(v, sn, PEs)
    PROVE  SortGatherRecv(v) = [q \in PEs |-> Contribution(q, sn)]
<1>1. /\ DOMAIN v = 1 .. NPEs /\ NPEs \in Nat /\ PEs = 0 .. NPEs - 1
  <2>1. PEs = 0 .. NPEs - 1 /\ NPEs \in Nat
    BY GroupAssumption, RanksAreNumbers
  <2> QED BY <2>1
<1>2. PICK rank \in [1 .. NPEs -> PEs] :
          \A i \in 1 .. NPEs : /\ v[i] = Contribution(rank[i], sn)
                               /\ v[i] % NPEs = rank[i]
  <2>1. \A i \in 1 .. NPEs : \E q \in PEs : /\ v[i] = Contribution(q, sn)
                                            /\ v[i] % NPEs = q
    <3> SUFFICES ASSUME NEW i \in 1 .. NPEs
                 PROVE  \E q \in PEs : /\ v[i] = Contribution(q, sn)
                                       /\ v[i] % NPEs = q
      OBVIOUS
    <3>1. PICK q \in PEs : v[i] = Contribution(q, sn)
      BY <1>1 DEF Gathered
    <3> QED BY <3>1, RankOfContribution
  <2>2. PICK g : g = [i \in 1 .. NPEs |-> v[i] % NPEs]
    OBVIOUS
  <2>3. g \in [1 .. NPEs -> PEs]
    BY <2>1, <2>2
  <2>4. \A i \in 1 .. NPEs : v[i] = Contribution(g[i], sn) /\ v[i] % NPEs = g[i]
    BY <2>1, <2>2
  <2> QED BY <2>3, <2>4
<1>3. \A i, j \in 1 .. NPEs : i # j => rank[i] # rank[j]
  <2>1. \A i, j \in 1 .. NPEs : i # j => v[i] # v[j]
    BY <1>1 DEF Gathered
  <2>2. \A i, j \in 1 .. NPEs : rank[i] = rank[j] => v[i] = v[j]
    BY <1>2
  <2> QED BY <2>1, <2>2
<1>4. \A q \in PEs : \E i \in 1 .. NPEs : rank[i] = q
  <2>1. rank \in Injection(1 .. NPEs, PEs)
    BY <1>3 DEF Injection, IsInjective
  <2>2. Cardinality(1 .. NPEs) = Cardinality(PEs) /\ IsFiniteSet(PEs)
    <3>1. Cardinality(1 .. NPEs) = NPEs
      BY RanksAreNumbers, FS_Interval
    <3> QED BY <3>1, RanksAreNumbers
  <2>3. rank \in Surjection(1 .. NPEs, PEs)
    BY <2>1, <2>2, FS_Injection
  <2> QED BY <2>3 DEF Surjection
<1>5. \E f \in Bijection(DOMAIN v, DOMAIN v) : Sorts(v, f)
  <2>1. PICK f : f = [i \in 1 .. NPEs |-> CHOOSE j \in 1 .. NPEs : rank[j] = i - 1]
    OBVIOUS
  <2>2. \A i \in 1 .. NPEs : i - 1 \in PEs
    BY <1>1
  <2>3. \A i \in 1 .. NPEs : f[i] \in 1 .. NPEs /\ rank[f[i]] = i - 1
    <3> SUFFICES ASSUME NEW i \in 1 .. NPEs
                 PROVE  f[i] \in 1 .. NPEs /\ rank[f[i]] = i - 1
      OBVIOUS
    <3>1. \E j \in 1 .. NPEs : rank[j] = i - 1
      BY <1>4, <2>2
    <3>2. f[i] = CHOOSE j \in 1 .. NPEs : rank[j] = i - 1
      BY <2>1
    <3> QED BY <3>1, <3>2
  <2>4. f \in [1 .. NPEs -> 1 .. NPEs]
    BY <2>1, <2>3
  <2>5. IsInjective(f)
    <3>1. \A a, b \in 1 .. NPEs : f[a] = f[b] => a - 1 = b - 1
      BY <2>3
    <3>2. \A a, b \in 1 .. NPEs : a - 1 = b - 1 => a = b
      OBVIOUS
    <3>3. DOMAIN f = 1 .. NPEs
      BY <2>4
    <3> QED BY <3>1, <3>2, <3>3 DEF IsInjective
  <2>6. \A j \in 1 .. NPEs : \E i \in 1 .. NPEs : f[i] = j
    <3> SUFFICES ASSUME NEW j \in 1 .. NPEs
                 PROVE  \E i \in 1 .. NPEs : f[i] = j
      OBVIOUS
    <3>1. rank[j] \in 0 .. NPEs - 1
      BY <1>1
    <3>2. PICK i \in 1 .. NPEs : rank[j] = i - 1
      <4>1. rank[j] + 1 \in 1 .. NPEs /\ rank[j] = (rank[j] + 1) - 1
        BY <1>1, <3>1
      <4> QED BY <4>1
    <3>3. rank[f[i]] = rank[j] /\ f[i] \in 1 .. NPEs
      BY <2>3, <3>2
    <3> QED BY <1>3, <3>3
  <2>7. f \in Bijection(DOMAIN v, DOMAIN v)
    BY <1>1, <2>4, <2>5, <2>6 DEF Bijection, Injection, Surjection
  <2>8. Sorts(v, f)
    <3>1. \A i \in 1 .. NPEs : v[f[i]] % NPEs = i - 1
      BY <1>2, <2>3
    <3>2. \A i, j \in 1 .. NPEs : i < j => i - 1 < j - 1
      OBVIOUS
    <3> QED BY <1>1, <3>1, <3>2 DEF Sorts
  <2> QED BY <2>7, <2>8
<1>6. PICK f \in Bijection(DOMAIN v, DOMAIN v) :
          /\ Sorts(v, f)
          /\ SortGatherRecv(v) = [i \in PEs |-> v[f[i + 1]]]
  <2>1. PICK g : g = CHOOSE f \in Bijection(DOMAIN v, DOMAIN v) : Sorts(v, f)
    OBVIOUS
  <2>2. g \in Bijection(DOMAIN v, DOMAIN v) /\ Sorts(v, g)
    BY <1>5, <2>1
  <2>3. SortGatherRecv(v) = [i \in PEs |-> v[g[i + 1]]]
    BY <2>1 DEF SortGatherRecv, Sorts
  <2> QED BY <2>2, <2>3
<1>7. /\ f \in [1 .. NPEs -> 1 .. NPEs]
      /\ \A i, j \in 1 .. NPEs : f[i] = f[j] => i = j
  BY <1>1, <1>6 DEF Bijection, Injection, IsInjective
<1>8. \A i \in 1 .. NPEs : rank[f[i]] = i - 1
  <2>1. PICK h : h = [i \in 1 .. NPEs |-> rank[f[i]]]
    OBVIOUS
  <2>2. h \in [1 .. NPEs -> 0 .. NPEs - 1]
    BY <1>1, <1>2, <1>7, <2>1
  <2>3. ASSUME NEW i \in 1 .. NPEs, NEW j \in 1 .. NPEs, i < j
        PROVE  h[i] < h[j]
    <3>0. i # j
      BY <2>3
    <3>1. f[i] \in 1 .. NPEs /\ f[j] \in 1 .. NPEs /\ f[i] # f[j]
      BY <1>7, <3>0
    <3>2. h[i] = v[f[i]] % NPEs /\ h[j] = v[f[j]] % NPEs
      BY <1>2, <2>1, <3>1
    <3>3. h[i] # h[j]
      BY <1>3, <2>1, <3>1
    <3> QED BY <1>1, <1>6, <2>3, <3>2, <3>3 DEF Sorts
  <2>4. \A i \in 1 .. NPEs : h[i] = i - 1
    BY <1>1, <2>2, <2>3, IncreasingIsShift
  <2> QED BY <2>1, <2>4
<1>9. ASSUME NEW q \in PEs PROVE v[f[q + 1]] = Contribution(q, sn)
  <2>1. q + 1 \in 1 .. NPEs /\ (q + 1) - 1 = q
    BY <1>1
  <2>2. f[q + 1] \in 1 .. NPEs /\ rank[f[q + 1]] = q
    BY <1>7, <1>8, <2>1
  <2> QED BY <1>2, <2>2
<1> QED BY <1>6, <1>9

BufInv == DOMAIN recvBuf = PEs /\ GatherExact

LEMMA BufferStep ==
    ASSUME GInv, BufInv, [Next]_vars
    PROVE  BufInv'
<1>1. UNCHANGED program
  BY DEF Next, Collective, Begin, Added, RemovedAdd, RemovedWait, HasSet,
         HasWaited, HasData, Ends, Timer, DestroyStore, vars, groupVars
<1>2. \A n : CountOf("G", n)' = CountOf("G", n)
  BY <1>1 DEF CountOf
<1>3. CASE UNCHANGED recvBuf
  BY <1>2, <1>3 DEF BufInv, GatherExact
<1>4. CASE \E p \in PEs : HasData(p)
  <2>0. PICK p \in PEs : HasData(p)
    BY <1>4
  <2>1. PICK o \in Outcomes(p) :
            /\ Ends(p, "data", o)
            /\ \/ UNCHANGED recvBuf
               \/ /\ o.code = "SUCCESS" /\ Len(o.value) = NPEs
                  /\ recvBuf' = [recvBuf EXCEPT ![p] =
                       [i \in DOMAIN @ \cup {started[p]} |->
                          IF i = started[p] THEN SortGatherRecv(o.value) ELSE @[i]]]
    BY <2>0 DEF HasData
  <2>2. CASE /\ o.code = "SUCCESS" /\ Len(o.value) = NPEs
             /\ recvBuf' = [recvBuf EXCEPT ![p] =
                  [i \in DOMAIN @ \cup {started[p]} |->
                     IF i = started[p] THEN SortGatherRecv(o.value) ELSE @[i]]]
    <3>1. pc[p] = "data" /\ Shape /\ PlaceAt(p)
      BY <2>1 DEF Ends, GInv
    <3>2. Kind(p) = "G" /\ started[p] \in Nat /\ Sn(p) \in Nat
      BY <3>1, RoundType DEF PlaceAt, Shape
    <3>3. Gathered(o.value, Sn(p), PEs)
      BY <2>2, <3>1, OutcomeIs
    <3>4. o.value \in Seq(Nat)
      <4>1. \E r \in replies : r.value = o.value
        BY <2>2 DEF Outcomes, NoAnswer, Mine
      <4> QED BY <3>1, <4>1 DEF Shape, Replies
    <3>5. SortGatherRecv(o.value) = [q \in PEs |-> Contribution(q, Sn(p))]
      BY <2>2, <3>2, <3>3, <3>4, SortedGather
    <3>6. Sn(p) = CountOf("G", started[p])
      BY <3>2 DEF Sn
    <3>7. DOMAIN recvBuf' = PEs
      BY <2>2 DEF BufInv
    <3>8. ASSUME NEW x \in PEs, NEW i \in DOMAIN recvBuf'[x]
          PROVE  recvBuf'[x][i] = [q \in PEs |-> Contribution(q, CountOf("G", i))]
      <4>1. CASE x # p
        <5>1. recvBuf'[x] = recvBuf[x]
          BY <2>2, <4>1 DEF BufInv
        <5> QED BY <5>1 DEF BufInv, GatherExact
      <4>2. CASE x = p
        <5>1. recvBuf'[p] = [j \in DOMAIN recvBuf[p] \cup {started[p]} |->
                   IF j = started[p] THEN SortGatherRecv(o.value)
                   ELSE recvBuf[p][j]]
          BY <2>2 DEF BufInv
        <5>2. CASE i = started[p]
          <6>1. recvBuf'[p][i] = SortGatherRecv(o.value)
            BY <4>2, <5>1, <5>2
          <6> QED BY <3>5, <3>6, <4>2, <5>2, <6>1
        <5>3. CASE i # started[p]
          <6>1. i \in DOMAIN recvBuf[p] /\ recvBuf'[p][i] = recvBuf[p][i]
            BY <4>2, <5>1, <5>3
          <6> QED BY <4>2, <6>1 DEF BufInv, GatherExact
        <5> QED BY <5>2, <5>3
      <4> QED BY <4>1, <4>2
    <3> QED BY <1>2, <3>7, <3>8 DEF BufInv, GatherExact
  <2> QED BY <1>3, <2>1, <2>2
<1>5. \/ UNCHANGED recvBuf
      \/ \E p \in PEs : HasData(p)
  BY DEF Next, Collective, Begin, Added, RemovedAdd, RemovedWait, HasSet,
         HasWaited, Timer, DestroyStore, vars, groupVars
<1> QED BY <1>3, <1>4, <1>5

(* An all-gather that returns OK has given the caller what each PE sent in  *)
(* this very round, in the order of the ranks.                              *)
THEOREM GathersAreExact == Spec => []GatherExact
<1>1. Init => BufInv
  <2> SUFFICES ASSUME Init PROVE BufInv
    OBVIOUS
  <2>1. recvBuf = [p \in PEs |-> <<>>]
    BY DEF Init
  <2> QED BY <2>1 DEF BufInv, GatherExact
<1>2. GInv /\ BufInv /\ [Next]_vars => BufInv'
  BY BufferStep
<1>3. BufInv => GatherExact
  BY DEF BufInv
<1> QED BY <1>1, <1>2, <1>3, GroupInvariant, PTL DEF Spec
-----------------------------------------------------------------------------
(* What holds while no time limit ends too soon.  Then the count of a round *)
(* is exact, all PEs are in the same collective or in two successive ones,  *)
(* and each has one message in the system.  So only the last barrier can    *)
(* fail, under which the store is destroyed, and the first PE to arrive in  *)
(* the round after the next finds and removes the keys of a round.  The     *)
(* parts of the invariant that say so end in E.                             *)

\* p is in round sn of this kind of collective.
At(p, kind, sn) == pc[p] # "idle" /\ Kind(p) = kind /\ Sn(p) = sn
\* The contributions of all PEs to the round p is in have been handled.
Full(p) ==
    \A kind \in {"B", "G"}, sn \in Nat :
        At(p, kind, sn) => Arrived(kind, sn) = PEs
\* p has a request on its way, p is about to be told this count.
Asks(p) == requests[p] # <<>>
Told(p, v) == \E r \in replies : r.pe = p /\ r.value[1] = v

\* What is on its way is what p waits for.
QueueE(p) ==
    \A i \in DOMAIN requests[p] : Awaits(p, requests[p][i].seq)
\* Only the first to arrive removes, and which key it does.
RemovesE(p) ==
    \A kind \in {"B", "G"}, sn \in Nat : At(p, kind, sn) =>
        /\ pc[p] \in {"rmAdd", "rmWait"} => val[p] = 1 /\ sn > REMOVE_INTERVAL
        /\ \A i \in DOMAIN requests[p] :
             /\ pc[p] = "rmAdd" =>
                  requests[p][i].key = <<kind, sn - REMOVE_INTERVAL, "A">>
             /\ pc[p] = "rmWait" =>
                  requests[p][i].key = <<kind, sn - REMOVE_INTERVAL, "W">>
             /\ pc[p] = "set" => requests[p][i].key = <<kind, sn, "W">>
\* Who opens a round or reads its data knows that all have arrived in it, and
\* no collective has failed.
PlaceE(p) ==
    /\ pc[p] \in {"set", "data"} => Full(p)
    /\ \A i \in DOMAIN results[p] : results[p][i] = "OK"
\* Only a round that is not open yet makes a GET wait.
WaiterE(w) == Awaits(w.pe, w.seq) /\ pc[w.pe] = "get"
\* Nothing but a removal fails, and what an answer tells of the round.
ReplyE(r) ==
    /\ Awaits(r.pe, r.seq)
    /\ pc[r.pe] \notin {"rmAdd", "rmWait"} => r.code = "SUCCESS"
    /\ pc[r.pe] = "add" /\ r.value[1] = NPEs => Full(r.pe)
    /\ pc[r.pe] = "get" => Full(r.pe)
    /\ pc[r.pe] = "data" => Len(r.value) = NPEs

\* p returns from a collective only after all have begun it.
InStep == \A p, q \in PEs : Len(results[p]) <= started[q]

\* Somebody has arrived in the round that removes this one.
Superseded(kind, sn) == Arrived(kind, sn + REMOVE_INTERVAL) # {}
\* p, who is in its round, is about to open it; to remove this key.
Opens(p) == (pc[p] = "add" /\ Told(p, NPEs)) \/ (pc[p] = "set" /\ Asks(p))
Removing(p, k) ==
    /\ At(p, k[1], k[2] + REMOVE_INTERVAL)
    /\ \/ pc[p] = "add" /\ Told(p, 1)
       \/ pc[p] = "rmAdd" /\ (k[3] = "W" \/ Asks(p))
       \/ pc[p] = "rmWait" /\ k[3] = "W" /\ Asks(p)

\* The number a round has counted, which is the length of what it collects.
Count(kind, value) == IF kind = "B" THEN value[1] ELSE Len(value)
Counted(kind, sn) ==
    /\ Exists(<<kind, sn, "A">>)
    /\ Count(kind, kvStore[<<kind, sn, "A">>]) = Cardinality(Arrived(kind, sn))
\* Until it is superseded, a round has its count, and when all have arrived it
\* is open or about to be.
RoundE(kind, sn) ==
    ~Superseded(kind, sn) =>
        /\ Arrived(kind, sn) # {} => Counted(kind, sn)
        /\ Arrived(kind, sn) = PEs =>
             \/ Exists(<<kind, sn, "W">>)
             \/ \E p \in PEs : At(p, kind, sn) /\ Opens(p)
\* A key that opens a round is there only when all have arrived, and once the
\* round is superseded somebody is about to remove each key left of it.
KeyE(k) ==
    /\ k[2] > 0
    /\ k[3] = "W" => Arrived(k[1], k[2]) = PEs
    /\ Superseded(k[1], k[2]) => \E p \in PEs : Removing(p, k)

Exact ==
    /\ InStep
    /\ \A p \in PEs : PlaceE(p) /\ QueueE(p) /\ RemovesE(p)
    /\ \A w \in waitCtx : WaiterE(w)
    /\ \A r \in replies : ReplyE(r)
    /\ \A kind \in {"B", "G"}, sn \in Nat \ {0} : RoundE(kind, sn)
    /\ \A k \in DOMAIN kvStore : KeyE(k)

\* The store is gone.
Closed ==
    /\ StoreBounded
    /\ \A p \in PEs : /\ started[p] = Len(program)
                      /\ \A i \in DOMAIN results[p] :
                           results[p][i] = "ERROR" => i = Len(program)

EInv == late = 0 => IF running THEN Exact ELSE Closed

\* What it is for p to be in a round.
LEMMA AtIs ==
    ASSUME GInv, NEW p \in PEs, pc[p] # "idle"
    PROVE  \E kind \in {"B", "G"}, sn \in Nat \ {0} :
             /\ At(p, kind, sn) /\ Kind(p) = kind /\ Sn(p) = sn
             /\ started[p] \in 1 .. Len(program) /\ program[started[p]] = kind
             /\ CountOf(kind, started[p]) = sn
             /\ CountOf(kind, started[p] - 1) = sn - 1
<1>1. /\ started[p] \in 1 .. Len(program)
      /\ Kind(p) \in {"B", "G"} /\ Sn(p) \in Nat
  BY RoundType DEF GInv
<1>2. PICK kind \in {"B", "G"}, sn \in Nat, n \in Nat :
          kind = Kind(p) /\ sn = Sn(p) /\ n + 1 = started[p] /\ n = started[p] - 1
  <2>1. started[p] - 1 \in Nat /\ started[p] - 1 + 1 = started[p]
    BY <1>1
  <2> QED BY <1>1, <2>1
<1>3. program[n + 1] = kind /\ CountOf(kind, n + 1) = sn
  BY <1>2 DEF Kind, Sn
<1>4. CountOf(kind, n) \in Nat /\ sn = CountOf(kind, n) + 1
  BY <1>3, CountStep
<1>5. sn \in Nat \ {0} /\ CountOf(kind, n) = sn - 1
  BY <1>4
<1> QED BY <1>1, <1>2, <1>3, <1>5 DEF At

\* Who has begun the round p is in has begun all that p has.
LEMMA RoundOrder ==
    ASSUME GInv, NEW p \in PEs, pc[p] # "idle", NEW kind, NEW sn,
           At(p, kind, sn), NEW m \in Nat, CountOf(kind, m) >= sn
    PROVE  started[p] <= m
<1>1. /\ started[p] \in 1 .. Len(program) /\ CountOf(kind, started[p] - 1) = sn - 1
      /\ sn \in Nat
  BY AtIs DEF At
<1>2. PICK n \in Nat : n = started[p] - 1 /\ started[p] = n + 1
  BY <1>1
<1>3. CASE m <= n
  <2>1. /\ CountOf(kind, m) <= CountOf(kind, n) /\ CountOf(kind, m) \in Nat
        /\ CountOf(kind, n) = sn - 1
    BY <1>1, <1>2, <1>3, CountMonotone, CountStep
  <2> QED BY <1>1, <2>1
<1> QED BY <1>2, <1>3

\* Who has begun a later round of a kind has arrived in this one: it has one
\* message in the system, and that is not its contribution to this round.
LEMMA LaterArrived ==
    ASSUME GInv, Exact, NEW q \in PEs, NEW kind \in {"B", "G"}, NEW sn \in Nat,
           CountOf(kind, started[q]) > sn
    PROVE  q \in Arrived(kind, sn)
<1>1. CountOf(kind, started[q]) \in Nat
  BY CountStep DEF GInv, Shape
<1>2. ASSUME NEW i \in DOMAIN requests[q], requests[q][i].op \in Adds,
             requests[q][i].key = <<kind, sn, "A">>
      PROVE  FALSE
  <2>1. /\ Awaits(q, requests[q][i].seq)
        /\ Expected(q, requests[q][i].op, requests[q][i].key)
    BY DEF Exact, QueueE, GInv, QueueAt
  <2>2. pc[q] # "idle" /\ pc[q] \in Operations \cup {"idle"}
    BY <2>1 DEF Awaits, GInv, Shape
  <2>3. Key(q, "A") = <<kind, sn, "A">>
    BY <1>2, <2>1, <2>2 DEF Expected, Adds, Operations
  <2>4. Kind(q) = kind /\ Sn(q) = sn
    BY <2>3 DEF Key
  <2>5. CountOf(kind, started[q]) = sn
    BY <2>4 DEF Sn
  <2> QED BY <2>5
<1> QED BY <1>1, <1>2 DEF Arrived, OnItsWay

\* Nobody is two rounds ahead.
LEMMA NobodyAhead ==
    ASSUME GInv, InStep, NEW p \in PEs, NEW kind \in {"B", "G"}, NEW sn \in Nat,
           sn > CountOf(kind, started[p]) + 1
    PROVE  Arrived(kind, sn) = {}
<1> SUFFICES ASSUME NEW q \in PEs, CountOf(kind, started[q]) >= sn PROVE FALSE
  BY DEF Arrived
<1>1. /\ started[p] \in Nat /\ started[q] \in Nat /\ PlaceAt(q)
      /\ CountOf(kind, started[p]) \in Nat
  BY CountStep DEF GInv, Shape
<1>2. started[q] - 1 <= started[p]
  <2>1. Len(results[q]) <= started[p]
    BY DEF InStep
  <2> QED BY <1>1, <2>1 DEF PlaceAt
<1>3. started[q] <= started[p] + 1
  BY <1>1, <1>2
<1>4. CountOf(kind, started[q]) <= CountOf(kind, started[p] + 1)
  BY <1>1, <1>3, CountMonotone
<1>5. CountOf(kind, started[p] + 1) <= CountOf(kind, started[p]) + 1
  BY <1>1, CountStep
<1>6. /\ CountOf(kind, started[q]) \in Nat /\ CountOf(kind, started[p] + 1) \in Nat
  BY <1>1, CountStep
<1> QED BY <1>1, <1>4, <1>5, <1>6

\* Each PE has one message in the system, queued, waiting or answered.
LEMMA OneMessage ==
    ASSUME GInv, Exact, NEW p \in PEs
    PROVE  /\ \A i \in DOMAIN requests[p] : i = 1
           /\ \A w \in waitCtx : w.pe = p =>
                /\ requests[p] = <<>>
                /\ \A r \in replies : r.pe # p
           /\ \A r \in replies : r.pe = p =>
                /\ requests[p] = <<>>
                /\ \A s \in replies : s.pe = p => s = r
           /\ pc[p] = "idle" => /\ requests[p] = <<>>
                                /\ \A r \in replies : r.pe # p
<1>1. /\ OnePlace /\ QueueAt(p) /\ QueueE(p) /\ requests[p] \in Seq(Requests)
      /\ seqNo[p] \in Nat
  BY DEF GInv, Shape, Exact
<1>2. \A i \in DOMAIN requests[p] :
        /\ requests[p][i].pe = p /\ requests[p][i].seq = seqNo[p] /\ pc[p] # "idle"
  BY <1>1 DEF QueueAt, RequestAt, QueueE, Awaits
<1>3. \A w \in waitCtx : w.pe = p => w.seq = seqNo[p] /\ pc[p] # "idle"
  BY DEF Exact, WaiterE, Awaits
<1>4. \A r \in replies : r.pe = p => r.seq = seqNo[p] /\ pc[p] # "idle"
  BY DEF Exact, ReplyE, Awaits
<1>5. DOMAIN requests[p] = {} => requests[p] = <<>>
  <2>1. requests[p] # <<>> => 1 \in DOMAIN requests[p]
    BY <1>1
  <2> QED BY <2>1
<1>6. ASSUME NEW i \in DOMAIN requests[p] PROVE i = 1
  <2>1. i \in Nat /\ 1 \in DOMAIN requests[p] /\ (i = 1 \/ 1 < i)
    BY <1>1
  <2>2. 1 < i => requests[p][1].seq < requests[p][i].seq
    BY <1>1, <2>1 DEF QueueAt
  <2> QED BY <1>1, <1>2, <2>1, <2>2
<1>7. ASSUME NEW w \in waitCtx, w.pe = p
      PROVE  requests[p] = <<>> /\ \A r \in replies : r.pe # p
  <2>1. DOMAIN requests[p] = {}
    BY <1>1, <1>2, <1>3, <1>7 DEF OnePlace, Same
  <2>2. \A r \in replies : r.pe # p
    BY <1>1, <1>3, <1>4, <1>7 DEF OnePlace, Same
  <2> QED BY <1>5, <2>1, <2>2
<1>8. ASSUME NEW r \in replies, r.pe = p
      PROVE  requests[p] = <<>> /\ \A s \in replies : s.pe = p => s = r
  <2>1. DOMAIN requests[p] = {}
    BY <1>1, <1>2, <1>4, <1>8 DEF OnePlace, Same
  <2>2. \A s \in replies : s.pe = p => s = r
    BY <1>1, <1>4, <1>8 DEF OnePlace, Same
  <2> QED BY <1>5, <2>1, <2>2
<1>9. pc[p] = "idle" => requests[p] = <<>> /\ \A r \in replies : r.pe # p
  BY <1>2, <1>4, <1>5
<1> QED BY <1>6, <1>7, <1>8, <1>9

\* Never does everything stand still while somebody waits.
LEMMA NeverStalls ==
    ASSUME GInv, Exact, NoLostWakeup, Stalled, waitCtx # {}
    PROVE  FALSE
<1> DEFINE S == {started[w.pe] : w \in waitCtx}
<1>1. S \in SUBSET Nat /\ S # {}
  BY DEF GInv, Shape
<1>2. PICK w \in waitCtx : \A x \in waitCtx : started[w.pe] <= started[x.pe]
  <2>1. PICK n \in S : \A m \in S : n <= m
    BY <1>1, LeastNatural
  <2> QED BY <2>1
<1>3. PICK p \in PEs : p = w.pe
  BY DEF GInv, Shape
<1>4. pc[p] = "get" /\ Awaits(p, w.seq)
  BY <1>3 DEF Exact, WaiterE
<1>5. PICK kind \in {"B", "G"}, sn \in Nat \ {0} :
        /\ At(p, kind, sn) /\ Kind(p) = kind /\ Sn(p) = sn
        /\ started[p] \in 1 .. Len(program) /\ CountOf(kind, started[p]) = sn
  BY <1>4, AtIs
<1>6. ASSUME NEW q \in PEs
      PROVE  /\ requests[q] = <<>> /\ started[p] <= started[q]
             /\ \A r \in replies : r.pe # q
  <2>1. CASE pending[q] = {}
    <3>1. Finished(q) /\ pc[q] = "idle" /\ Len(results[q]) = started[q]
      BY <2>1 DEF Stalled, GInv, PlaceAt
    <3>2. ~LeftEarly(q)
      <4>1. /\ results[q] \in Seq({"OK", "ERROR"}) /\ Len(program) \in Nat
            /\ Len(program) > 1
        BY DEF GInv, Shape
      <4>2. Len(results[q]) = Len(program) - 1 =>
                results[q][Len(program) - 1] = "OK"
        BY <4>1 DEF Exact, PlaceE
      <4> QED BY <4>2 DEF LeftEarly
    <3>3. started[q] = Len(program)
      BY <3>1, <3>2 DEF Finished
    <3> QED BY <1>5, <3>1, <3>3, OneMessage
  <2>2. CASE pending[q] # {}
    <3>1. PICK x \in waitCtx : x.pe = q
      BY <2>2 DEF Stalled
    <3> QED BY <1>2, <1>3, <3>1, OneMessage
  <2> QED BY <2>1, <2>2
<1>7. Arrived(kind, sn) = PEs
  <2> SUFFICES ASSUME NEW q \in PEs PROVE q \in Arrived(kind, sn)
    BY DEF Arrived
  <2>1. started[p] \in Nat /\ started[q] \in Nat
    BY DEF GInv, Shape
  <2>2. CountOf(kind, started[q]) >= sn
    <3>1. /\ CountOf(kind, started[p]) <= CountOf(kind, started[q])
          /\ CountOf(kind, started[q]) \in Nat
      BY <1>6, <2>1, CountMonotone, CountStep
    <3> QED BY <1>5, <3>1
  <2> QED BY <1>6, <2>2 DEF Arrived, OnItsWay
<1>8. ~Superseded(kind, sn)
  <2>1. sn + REMOVE_INTERVAL \in Nat
        /\ sn + REMOVE_INTERVAL > CountOf(kind, started[p]) + 1
    BY <1>5 DEF REMOVE_INTERVAL
  <2> QED BY <2>1, NobodyAhead DEF Exact, Superseded
<1>9. ~Exists(<<kind, sn, "W">>)
  <2>1. w.key = Key(p, "W")
    BY <1>3, <1>4 DEF GInv, WaiterAt, Expected
  <2> QED BY <1>5, <2>1 DEF Key, NoLostWakeup
<1>10. \A q \in PEs : ~Opens(q)
  BY <1>6 DEF Opens, Told, Asks
<1> QED BY <1>5, <1>7, <1>8, <1>9, <1>10 DEF Exact, RoundE

\* At most four rounds of a kind have keys: the last that somebody has begun
\* and the three before it.
LEMMA ExactBounds ==
    ASSUME GInv, Exact, NEW kind \in {"B", "G"}
    PROVE  Cardinality(Rounds(kind)) <= REMOVE_INTERVAL + 2
<1> DEFINE S == {CountOf(kind, started[q]) : q \in PEs}
<1>1. \A q \in PEs : /\ started[q] \in Nat /\ CountOf(kind, started[q]) \in Nat
                     /\ CountOf(kind, started[q]) <= CountOf(kind, Len(program))
                     /\ CountOf(kind, Len(program)) \in Nat
  <2> TAKE q \in PEs
  <2>1. started[q] \in Nat /\ Len(program) \in Nat /\ started[q] <= Len(program)
    BY DEF GInv, Shape, PlaceAt
  <2> QED BY <2>1, CountStep, CountMonotone
<1>2. PICK M \in S : \A m \in S : m <= M
  <2>1. S \in SUBSET Nat /\ S # {} /\ CountOf(kind, Len(program)) \in Nat
        /\ \A m \in S : m <= CountOf(kind, Len(program))
    <3>1. 0 \in PEs
      <4>1. NPEs \in Nat /\ NPEs > 1 /\ PEs = 0 .. NPEs - 1
        BY RanksAreNumbers, GroupAssumption
      <4> QED BY <4>1
    <3> QED BY <1>1, <3>1
  <2> QED BY <2>1, GreatestNatural
<1>3. PICK e \in PEs : M = CountOf(kind, started[e])
  BY <1>2
<1>4. M \in Nat /\ \A q \in PEs : CountOf(kind, started[q]) <= M
  BY <1>1, <1>2
<1> HIDE DEF S
<1>5. ASSUME NEW k \in DOMAIN kvStore, k[1] = kind
      PROVE  k[2] \in M - 3 .. M
  <2>1. k \in Keys /\ KeyE(k) /\ StoredAt(k)
    BY DEF GInv, Shape, Exact
  <2>2. k[2] \in Nat \ {0} /\ k[3] \in {"A", "W"}
    BY <2>1 DEF Keys, KeyE
  <2>3. \E q \in PEs : CountOf(kind, started[q]) >= k[2]
    <3>1. CASE k[3] = "W"
      BY <1>5, <2>1, <3>1 DEF StoredAt, Entered
    <3>2. CASE k[3] = "A"
      <4>1. 1 .. Cardinality(Arrived(kind, k[2])) # {}
        BY <1>5, <2>1, <3>2 DEF StoredAt
      <4>2. Arrived(kind, k[2]) # {}
        BY <4>1, FS_EmptySet
      <4> QED BY <4>2 DEF Arrived
    <3> QED BY <2>2, <3>1, <3>2
  <2>4. k[2] <= M
    BY <1>1, <1>4, <2>2, <2>3
  <2>5. CASE Superseded(kind, k[2])
    <3>1. PICK q \in PEs : Removing(q, k)
      BY <1>5, <2>1, <2>5 DEF KeyE
    <3>2. At(q, kind, k[2] + 2)
      BY <1>5, <3>1 DEF Removing, REMOVE_INTERVAL
    <3>3. /\ CountOf(kind, started[q]) = k[2] + 2
          /\ pc[q] # "idle" /\ Kind(q) = kind
          /\ started[q] - 1 \in Nat
      BY <3>2, AtIs DEF At
    <3>4. Len(results[q]) = started[q] - 1
      BY <3>3 DEF GInv, PlaceAt
    <3>5. started[e] - 1 <= Len(results[e]) /\ Len(results[e]) <= started[q]
      <4>1. Len(results[e]) \in {started[e], started[e] - 1}
        BY DEF GInv, PlaceAt
      <4> QED BY <1>1, <4>1 DEF Exact, InStep
    <3>6. CountOf(kind, started[e]) <= CountOf(kind, started[q]) + 1
      <4>1. started[e] <= started[q] + 1 /\ started[q] + 1 \in Nat
        BY <1>1, <3>5
      <4>2. /\ CountOf(kind, started[e]) <= CountOf(kind, started[q] + 1)
            /\ CountOf(kind, started[q] + 1) \in Nat
            /\ CountOf(kind, started[q] + 1) <= CountOf(kind, started[q]) + 1
        <5>1. PICK n \in Nat : n = started[q] + 1
          BY <4>1
        <5>2. CountOf(kind, started[e]) <= CountOf(kind, n)
          BY <1>1, <4>1, <5>1, CountMonotone
        <5>3. CountOf(kind, started[q] + 1) = CountOf(kind, n)
          BY <5>1
        <5>4. CountOf(kind, n) \in Nat
          BY <5>1, CountStep
        <5>5. \/ CountOf(kind, started[q] + 1) = CountOf(kind, started[q]) + 1
              \/ CountOf(kind, started[q] + 1) = CountOf(kind, started[q])
          BY <1>1, CountStep
        <5> QED BY <1>1, <5>2, <5>3, <5>4, <5>5
      <4> QED BY <1>1, <4>2
    <3> QED BY <1>3, <1>4, <2>2, <2>4, <3>3, <3>6
  <2>6. CASE ~Superseded(kind, k[2])
    <3>1. e \notin Arrived(kind, k[2] + 2)
      BY <2>6 DEF Superseded, REMOVE_INTERVAL
    <3>2. ~(M > k[2] + 2)
      BY <1>3, <2>2, <3>1, LaterArrived
    <3> QED BY <1>4, <2>2, <2>4, <3>2
  <2> QED BY <2>5, <2>6
<1>6. Rounds(kind) \in SUBSET (M - 3 .. M)
  BY <1>5 DEF Rounds
<1>7. IsFiniteSet(M - 3 .. M) /\ Cardinality(M - 3 .. M) = 4
  <2>1. M - 3 \in Int /\ M \in Int /\ ~(M - 3 > M) /\ M - (M - 3) + 1 = 4
    BY <1>4
  <2> QED BY <2>1, FS_Interval
<1>8. Cardinality(Rounds(kind)) <= 4
  BY <1>6, <1>7, FS_Subset
<1> QED BY <1>8 DEF REMOVE_INTERVAL

\* A PE that does nothing, whose messages stay where they are; the answer to
\* a GET may come.
Still(q) ==
    /\ pc'[q] = pc[q] /\ started'[q] = started[q] /\ val'[q] = val[q]
    /\ results'[q] = results[q]
    /\ seqNo'[q] = seqNo[q] /\ requests'[q] = requests[q]
    /\ pc[q] # "get" => \A r : r.pe = q => (r \in replies' <=> r \in replies)

LEMMA StillSame ==
    ASSUME NEW q \in PEs, UNCHANGED program, Still(q)
    PROVE  /\ \A kind, sn : At(q, kind, sn)' <=> At(q, kind, sn)
           /\ Opens(q)' <=> Opens(q)
           /\ \A k : Removing(q, k)' <=> Removing(q, k)
           /\ QueueE(q) => QueueE(q)'
           /\ RemovesE(q) => RemovesE(q)'
<1>1. \A kind, sn : At(q, kind, sn)' <=> At(q, kind, sn)
  BY DEF Still, At, Kind, Sn, CountOf
<1>2. pc'[q] = pc[q] /\ requests'[q] = requests[q] /\ val'[q] = val[q]
      /\ seqNo'[q] = seqNo[q] /\ (Asks(q)' <=> Asks(q))
  BY DEF Still, Asks
<1>3. pc[q] = "add" => \A v : Told(q, v)' <=> Told(q, v)
  BY DEF Still, Told
<1>4. pc[q] = "add" =>
        /\ Told(q, NPEs)' <=> Told(q, NPEs)
        /\ Told(q, 1)' <=> Told(q, 1)
  BY <1>3 DEF NPEs
<1>5. Opens(q)' <=> Opens(q)
  BY <1>2, <1>4 DEF Opens
<1>6. \A k : Removing(q, k)' <=> Removing(q, k)
  BY <1>1, <1>2, <1>4 DEF Removing, REMOVE_INTERVAL
<1>7. QueueE(q) => QueueE(q)'
  BY <1>2 DEF QueueE, Awaits
<1>8. RemovesE(q) => RemovesE(q)'
  BY <1>1, <1>2 DEF RemovesE, REMOVE_INTERVAL
<1> QED BY <1>1, <1>5, <1>6, <1>7, <1>8

\* Nobody who has arrived in a round goes back.
Arrivals ==
    \A kind \in {"B", "G"}, sn \in Nat :
        Arrived(kind, sn) \subseteq Arrived(kind, sn)'

LEMMA FullStays ==
    ASSUME NEW q \in PEs, UNCHANGED program, Still(q), Arrivals, Full(q)
    PROVE  Full(q)'
<1>1. ASSUME NEW kind \in {"B", "G"}, NEW sn \in Nat, At(q, kind, sn)'
      PROVE  Arrived(kind, sn)' = PEs
  <2>1. Arrived(kind, sn) = PEs
    BY <1>1, StillSame DEF Full
  <2>2. Arrived(kind, sn)' \subseteq PEs
    BY DEF Arrived
  <2> QED BY <2>1, <2>2 DEF Arrivals
<1> QED BY <1>1 DEF Full

\* What is left to show of a step in which only p, its requests and the
\* answers to GETs change.
LEMMA StepExact ==
    ASSUME GInv, Exact, NEW p \in PEs, UNCHANGED program, Arrivals,
           \A q \in PEs \ {p} : Still(q),
           InStep', PlaceE(p)', QueueE(p)', RemovesE(p)',
           \A w \in waitCtx' : (w \in waitCtx /\ w.pe # p) \/ WaiterE(w)',
           \A r \in replies' : (r \in replies /\ r.pe # p) \/ ReplyE(r)',
           \A kind \in {"B", "G"}, sn \in Nat \ {0} : RoundE(kind, sn)',
           \A k \in DOMAIN kvStore' : KeyE(k)'
    PROVE  Exact'
<1>1. ASSUME NEW q \in PEs PROVE PlaceE(q)' /\ QueueE(q)' /\ RemovesE(q)'
  <2>1. CASE q # p
    <3>1. Still(q) /\ PlaceE(q) /\ QueueE(q) /\ RemovesE(q)
      BY <2>1 DEF Exact
    <3>2. PlaceE(q)'
      <4>1. pc'[q] = pc[q] /\ results'[q] = results[q]
        BY <3>1 DEF Still
      <4>2. Full(q) => Full(q)'
        BY <3>1, FullStays
      <4> QED BY <3>1, <4>1, <4>2 DEF PlaceE
    <3> QED BY <3>1, <3>2, StillSame
  <2> QED BY <2>1
<1>2. ASSUME NEW w \in waitCtx' PROVE WaiterE(w)'
  <2>1. CASE w \in waitCtx /\ w.pe # p
    <3>1. WaiterE(w) /\ w.pe \in PEs /\ Still(w.pe)
      BY <2>1 DEF Exact, GInv, Shape
    <3> QED BY <3>1 DEF WaiterE, Awaits, Still
  <2> QED BY <2>1
<1>3. ASSUME NEW r \in replies' PROVE ReplyE(r)'
  <2>1. CASE r \in replies /\ r.pe # p
    <3>1. ReplyE(r) /\ r.pe \in PEs /\ Still(r.pe)
      BY <2>1 DEF Exact, GInv, Shape, Replies
    <3>2. pc'[r.pe] = pc[r.pe] /\ seqNo'[r.pe] = seqNo[r.pe]
      BY <3>1 DEF Still
    <3>3. Full(r.pe) => Full(r.pe)'
      BY <3>1, FullStays
    <3> QED BY <3>1, <3>2, <3>3 DEF ReplyE, Awaits, NPEs
  <2> QED BY <2>1
<1> QED BY <1>1, <1>2, <1>3 DEF Exact

\* A round in which nothing happens.
LEMMA RoundStill ==
    ASSUME NEW p \in PEs, UNCHANGED program, \A q \in PEs \ {p} : Still(q),
           NEW kind \in {"B", "G"}, NEW sn \in Nat, RoundE(kind, sn),
           Arrived(kind, sn)' = Arrived(kind, sn),
           Superseded(kind, sn) => Superseded(kind, sn)',
           ~Superseded(kind, sn)' => \A s \in {"A", "W"} : Exists(<<kind, sn, s>>) =>
               /\ Exists(<<kind, sn, s>>)'
               /\ kvStore'[<<kind, sn, s>>] = kvStore[<<kind, sn, s>>],
           At(p, kind, sn) /\ Opens(p) =>
               (At(p, kind, sn)' /\ Opens(p)') \/ Exists(<<kind, sn, "W">>)'
    PROVE  RoundE(kind, sn)'
<1> SUFFICES ASSUME ~Superseded(kind, sn)'
             PROVE  /\ Arrived(kind, sn)' # {} => Counted(kind, sn)'
                    /\ Arrived(kind, sn)' = PEs =>
                         \/ Exists(<<kind, sn, "W">>)'
                         \/ \E q \in PEs : At(q, kind, sn)' /\ Opens(q)'
  BY DEF RoundE
<1>1. ~Superseded(kind, sn)
  OBVIOUS
<1>2. Arrived(kind, sn)' # {} => Counted(kind, sn)'
  BY <1>1 DEF RoundE, Counted, Count
<1>3. ASSUME Arrived(kind, sn)' = PEs
      PROVE  \/ Exists(<<kind, sn, "W">>)'
             \/ \E q \in PEs : At(q, kind, sn)' /\ Opens(q)'
  <2>1. CASE Exists(<<kind, sn, "W">>)
    BY <2>1
  <2>2. CASE \E q \in PEs : At(q, kind, sn) /\ Opens(q)
    <3>1. PICK q \in PEs : At(q, kind, sn) /\ Opens(q)
      BY <2>2
    <3>2. q # p => At(q, kind, sn)' /\ Opens(q)'
      BY <3>1, StillSame
    <3> QED BY <3>1, <3>2
  <2> QED BY <1>1, <1>3, <2>1, <2>2 DEF RoundE
<1> QED BY <1>2, <1>3

\* A key that is kept.
LEMMA KeyStill ==
    ASSUME NEW p \in PEs, UNCHANGED program, Arrivals,
           \A q \in PEs \ {p} : Still(q),
           NEW k \in Keys, KeyE(k),
           Superseded(k[1], k[2])' =>
               Removing(p, k)' \/ (Superseded(k[1], k[2]) /\ ~Removing(p, k))
    PROVE  KeyE(k)'
<1>1. k[1] \in {"B", "G"} /\ k[2] \in Nat
  BY DEF Keys
<1>2. k[3] = "W" => Arrived(k[1], k[2])' = PEs
  <2>1. Arrived(k[1], k[2])' \subseteq PEs
    BY DEF Arrived
  <2>2. Arrived(k[1], k[2]) \subseteq Arrived(k[1], k[2])'
    BY <1>1 DEF Arrivals
  <2> QED BY <2>1, <2>2 DEF KeyE
<1>3. Superseded(k[1], k[2])' => \E q \in PEs : Removing(q, k)'
  <2> SUFFICES ASSUME Superseded(k[1], k[2])', ~Removing(p, k)'
               PROVE  \E q \in PEs : Removing(q, k)'
    OBVIOUS
  <2>1. PICK q \in PEs : Removing(q, k)
    BY DEF KeyE
  <2> QED BY <2>1, StillSame
<1> QED BY <1>2, <1>3 DEF KeyE

\* What is left to show of a step of p in its collective.
LEMMA ClientExact ==
    ASSUME GInv, Exact, NEW p \in PEs,
           UNCHANGED <<program, kvStore, waitCtx>>,
           \A q \in PEs \ {p} : Still(q),
           \A kind \in {"B", "G"}, sn \in Nat : Arrived(kind, sn)' = Arrived(kind, sn),
           \A w \in waitCtx : w.pe # p,
           \A r \in replies' : r \in replies /\ r.pe # p,
           InStep', PlaceE(p)', QueueE(p)', RemovesE(p)',
           \A kind \in {"B", "G"}, sn \in Nat : At(p, kind, sn) /\ Opens(p) =>
               At(p, kind, sn)' /\ Opens(p)',
           \A k \in DOMAIN kvStore : Removing(p, k) => Removing(p, k)'
    PROVE  Exact'
<1>1. Arrivals
  BY DEF Arrivals
<1>2. \A kind \in {"B", "G"}, sn \in Nat : Superseded(kind, sn)' <=> Superseded(kind, sn)
  BY DEF Superseded, REMOVE_INTERVAL
<1>3. ASSUME NEW kind \in {"B", "G"}, NEW sn \in Nat \ {0} PROVE RoundE(kind, sn)'
  <2>1. sn \in Nat /\ RoundE(kind, sn)
    BY DEF Exact
  <2>2. \A k : Exists(k)' <=> Exists(k)
    BY DEF Exists
  <2> QED BY <1>2, <2>1, <2>2, RoundStill
<1>4. ASSUME NEW k \in DOMAIN kvStore' PROVE KeyE(k)'
  <2>1. k \in DOMAIN kvStore /\ k \in Keys /\ KeyE(k)
    BY DEF Exact, GInv, Shape
  <2>2. k[1] \in {"B", "G"} /\ k[2] \in Nat
    BY <2>1 DEF Keys
  <2> QED BY <1>1, <1>2, <2>1, <2>2, KeyStill
<1> QED BY <1>1, <1>3, <1>4, StepExact

\* The outcome o is the answer p has in the system.
Reads(p, o) ==
    /\ \E r \in replies :
         r.pe = p /\ ReplyE(r) /\ o.code = r.code /\ o.value = r.value
    /\ \A v : Told(p, v) => o.value[1] = v

\* A wait ends with the answer to its request.
LEMMA EndsExact ==
    ASSUME GInv, Exact, running, late = 0, late' = 0, NEW p \in PEs,
           NEW op \in Operations, NEW o \in Outcomes(p), Ends(p, op, o)
    PROVE  /\ UNCHANGED <<program, started, kvStore, waitCtx, running>>
           /\ pc[p] = op /\ pc[p] # "idle"
           /\ Reads(p, o)
           /\ \A r \in replies' : r \in replies /\ r.pe # p
           /\ \A r \in replies : r.pe # p => r \in replies'
           /\ requests[p] = <<>> /\ \A w \in waitCtx : w.pe # p
<1>1. UNCHANGED <<program, started, kvStore, waitCtx, running>> /\ pc[p] = op
      /\ pc[p] # "idle"
  BY DEF Ends, serverVars, Operations
<1>2. o # NoAnswer
  <2>1. o = NoAnswer => TimeOver(~running)
    BY DEF Ends, WaitEnds
  <2>2. ~TimeOver(~running)
    BY DEF TimeOver
  <2> QED BY <2>1, <2>2
<1>3. PICK r \in replies :
        r.pe = p /\ o = [code |-> r.code, value |-> r.value, read |-> {r}]
  BY <1>2 DEF Outcomes, Mine
<1>4. replies' = replies \ {r} /\ ReplyE(r)
  BY <1>3 DEF Ends, WaitEnds, Exact
<1>5. requests[p] = <<>> /\ \A s \in replies : s.pe = p => s = r
  BY <1>3, OneMessage
<1>6. \A w \in waitCtx : w.pe # p
  BY <1>3, OneMessage
<1> QED BY <1>1, <1>3, <1>4, <1>5, <1>6 DEF Reads, Told

\* p goes on to another store operation of its round.
LEMMA DoExact ==
    ASSUME GInv, Exact, running, late = 0, late' = 0, NEW p \in PEs,
           NEW was \in Operations, NEW o \in Outcomes(p), Ends(p, was, o),
           NEW op \in Operations \ {"add"}, NEW request \in {"SET", "GET", "REMOVE"},
           NEW key, NEW value, Do(p, op, request, key, value),
           val' \in [PEs -> 0 .. NPEs],
           \A q \in PEs \ {p} : val'[q] = val[q],
           op \in {"set", "data"} => Full(p),
           op \in {"rmAdd", "rmWait"} => val'[p] = 1 /\ Sn(p) > REMOVE_INTERVAL,
           op = "rmAdd" => key = <<Kind(p), Sn(p) - REMOVE_INTERVAL, "A">>,
           op = "rmWait" => key = <<Kind(p), Sn(p) - REMOVE_INTERVAL, "W">>,
           op = "set" => key = Key(p, "W"),
           Opens(p) => op = "set",
           \A k \in DOMAIN kvStore : Removing(p, k) =>
               op = "rmAdd" \/ (op = "rmWait" /\ k[3] = "W")
    PROVE  Exact'
<1>1. /\ UNCHANGED <<program, started, kvStore, waitCtx, running>>
      /\ pc[p] # "idle"
      /\ \A r \in replies' : r \in replies /\ r.pe # p
      /\ \A r \in replies : r.pe # p => r \in replies'
      /\ requests[p] = <<>> /\ \A w \in waitCtx : w.pe # p
  BY EndsExact
<1>2. Shape
  BY DEF GInv
<1>3. PICK r : /\ r.seq = seqNo[p] + 1 /\ r.op = request /\ r.key = key
               /\ requests' = [requests EXCEPT ![p] = Append(@, r)]
  BY DEF Do, Send
<1>4. requests'[p] = <<r>> /\ \A q \in PEs \ {p} : requests'[q] = requests[q]
  BY <1>1, <1>2, <1>3 DEF Shape
<1>5. /\ results' = results /\ pc'[p] = op /\ seqNo'[p] = seqNo[p] + 1
      /\ \A q \in PEs \ {p} : pc'[q] = pc[q] /\ seqNo'[q] = seqNo[q]
  BY <1>2 DEF Do, Send, Shape
<1>6. op # "idle" /\ op # "add"
  BY DEF Operations
<1>7. DOMAIN requests'[p] = {1} /\ requests'[p][1] = r
  BY <1>4
<1>8. \A q \in PEs \ {p} : Still(q)
  BY <1>1, <1>4, <1>5 DEF Still
<1>9. \A kind \in {"B", "G"}, sn \in Nat : Arrived(kind, sn)' = Arrived(kind, sn)
  <2> TAKE kind \in {"B", "G"}, sn \in Nat
  <2>1. request \notin Adds
    BY DEF Adds
  <2>2. DOMAIN requests[p] = {}
    BY <1>1
  <2>3. \A q \in PEs : OnItsWay(q, kind, sn)' <=> OnItsWay(q, kind, sn)
    <3> TAKE q \in PEs
    <3>1. CASE q = p
      BY <1>3, <1>7, <2>1, <2>2, <3>1 DEF OnItsWay
    <3>2. CASE q # p
      <4>1. requests'[q] = requests[q]
        BY <1>4, <3>2
      <4> QED BY <4>1 DEF OnItsWay
    <3> QED BY <3>1, <3>2
  <2>4. \A q : CountOf(kind, started[q])' = CountOf(kind, started[q])
    BY <1>1 DEF CountOf
  <2> QED BY <2>3, <2>4 DEF Arrived
<1>10. InStep'
  BY <1>1, <1>5 DEF Exact, InStep
<1>11. \A kind, sn : At(p, kind, sn)' <=> At(p, kind, sn)
  BY <1>1, <1>5, <1>6 DEF At, Kind, Sn, CountOf
<1>12. PlaceE(p)'
  <2>1. op \in {"set", "data"} => Full(p)'
    BY <1>9, <1>11 DEF Full
  <2>2. \A i \in DOMAIN results'[p] : results'[p][i] = "OK"
    BY <1>5 DEF Exact, PlaceE
  <2> QED BY <1>5, <2>1, <2>2 DEF PlaceE
<1>13. QueueE(p)'
  BY <1>3, <1>5, <1>6, <1>7 DEF QueueE, Awaits
<1>14. RemovesE(p)'
  <2> SUFFICES ASSUME NEW kind \in {"B", "G"}, NEW sn \in Nat, At(p, kind, sn)
               PROVE  /\ op \in {"rmAdd", "rmWait"} => val'[p] = 1 /\ sn > REMOVE_INTERVAL
                      /\ op = "rmAdd" => key = <<kind, sn - REMOVE_INTERVAL, "A">>
                      /\ op = "rmWait" => key = <<kind, sn - REMOVE_INTERVAL, "W">>
                      /\ op = "set" => key = <<kind, sn, "W">>
    BY <1>3, <1>5, <1>7, <1>11 DEF RemovesE, REMOVE_INTERVAL
  <2>1. Kind(p) = kind /\ Sn(p) = sn
    BY DEF At
  <2> QED BY <2>1 DEF Key
<1>15. Asks(p)'
  BY <1>4 DEF Asks
<1>16. \A kind \in {"B", "G"}, sn \in Nat : At(p, kind, sn) /\ Opens(p) =>
           At(p, kind, sn)' /\ Opens(p)'
  <2>1. op = "set" => Opens(p)'
    BY <1>5, <1>15 DEF Opens
  <2> QED BY <1>11, <2>1
<1>17. \A k \in DOMAIN kvStore : Removing(p, k) => Removing(p, k)'
  <2> SUFFICES ASSUME NEW k \in DOMAIN kvStore, Removing(p, k) PROVE Removing(p, k)'
    OBVIOUS
  <2>1. At(p, k[1], k[2] + REMOVE_INTERVAL)'
    BY <1>11 DEF Removing, REMOVE_INTERVAL
  <2> QED BY <1>5, <1>15, <2>1 DEF Removing, REMOVE_INTERVAL
<1> QED BY <1>1, <1>8, <1>9, <1>10, <1>12, <1>13, <1>14, <1>16, <1>17, ClientExact

\* A collective that all have arrived in ends well.
LEMMA ReturnExact ==
    ASSUME GInv, Exact, running, late = 0, late' = 0, NEW p \in PEs,
           NEW was \in Operations, NEW o \in Outcomes(p), Ends(p, was, o),
           Return(p, "OK"), UNCHANGED val, Full(p), was \in {"get", "data"}
    PROVE  Exact'
<1>1. /\ UNCHANGED <<program, started, kvStore, waitCtx, running>>
      /\ pc[p] = was /\ pc[p] # "idle"
      /\ \A r \in replies' : r \in replies /\ r.pe # p
      /\ \A r \in replies : r.pe # p => r \in replies'
      /\ requests[p] = <<>> /\ \A w \in waitCtx : w.pe # p
  BY EndsExact
<1>2. Shape /\ PlaceAt(p) /\ results[p] \in Seq({"OK", "ERROR"})
  BY DEF GInv, Shape
<1>3. /\ pc'[p] = "idle" /\ results'[p] = Append(results[p], "OK")
      /\ UNCHANGED <<seqNo, requests>>
      /\ \A q \in PEs \ {p} : pc'[q] = pc[q] /\ results'[q] = results[q]
  BY <1>2 DEF Return, Idle, Shape
<1>4. \A q \in PEs \ {p} : Still(q)
  BY <1>1, <1>3 DEF Still
<1>5. \A kind \in {"B", "G"}, sn \in Nat : Arrived(kind, sn)' = Arrived(kind, sn)
  BY <1>1, <1>3 DEF Arrived, OnItsWay, CountOf
<1>6. InStep'
  <2>1. \A q \in PEs : started[p] <= started[q]
    <3>1. PICK kind \in {"B", "G"}, sn \in Nat \ {0} : At(p, kind, sn)
      BY <1>1, AtIs
    <3>2. Arrived(kind, sn) = PEs
      BY <3>1 DEF Full
    <3>3. \A q \in PEs : CountOf(kind, started[q]) >= sn /\ started[q] \in Nat
      BY <1>2, <3>2 DEF Arrived, Shape
    <3> QED BY <1>1, <3>1, <3>3, RoundOrder
  <2>2. Len(results'[p]) = started[p]
    <3>1. Len(results'[p]) = Len(results[p]) + 1 /\ Len(results[p]) = started[p] - 1
      BY <1>1, <1>2, <1>3 DEF PlaceAt
    <3>2. started[p] \in Nat
      BY <1>2 DEF Shape
    <3> QED BY <3>1, <3>2
  <2>3. ASSUME NEW q \in PEs, NEW x \in PEs
        PROVE  Len(results'[q]) <= started'[x]
    <3>1. CASE q = p
      BY <1>1, <2>1, <2>2, <3>1
    <3>2. CASE q # p
      BY <1>1, <1>3, <3>2 DEF Exact, InStep
    <3> QED BY <3>1, <3>2
  <2> QED BY <2>3 DEF InStep
<1>7. PlaceE(p)'
  <2>1. \A i \in DOMAIN results[p] : results[p][i] = "OK"
    BY DEF Exact, PlaceE
  <2>2. \A i \in DOMAIN results'[p] : results'[p][i] = "OK"
    BY <1>2, <1>3, <2>1
  <2> QED BY <1>3, <2>2 DEF PlaceE
<1>8. QueueE(p)' /\ RemovesE(p)'
  BY <1>1, <1>3 DEF QueueE, RemovesE, At
<1>9. ~Opens(p) /\ \A k : ~Removing(p, k)
  BY <1>1 DEF Opens, Removing
<1> QED BY <1>1, <1>4, <1>5, <1>6, <1>7, <1>8, <1>9, ClientExact

\* A PE begins its next collective.
LEMMA BeginExact ==
    ASSUME GInv, Exact, running, NEW p \in PEs, Begin(p)
    PROVE  Exact'
<1>1. Shape /\ PlaceAt(p) /\ pc[p] = "idle" /\ started[p] < Len(program)
  BY DEF GInv, Begin
<1>2. /\ requests[p] = <<>> /\ \A r \in replies : r.pe # p
      /\ \A w \in waitCtx : w.pe # p
  <2>1. \A w \in waitCtx : w.pe # p
    BY <1>1 DEF Exact, WaiterE
  <2> QED BY <1>1, <2>1, OneMessage
<1>3. PICK n \in Nat, kind \in {"B", "G"}, sn \in Nat :
          /\ n = started[p] + 1 /\ kind = program[started[p] + 1]
          /\ sn = CountOf(kind, n)
  <2>1. started[p] \in Nat /\ program \in Seq({"B", "G"}) /\ Len(program) \in Nat
    BY <1>1 DEF Shape
  <2>2. program[started[p] + 1] \in {"B", "G"}
    BY <1>1, <2>1
  <2> QED BY <2>1, <2>2, CountStep
<1>4. /\ UNCHANGED <<program, results, val, late, serverVars, replies>>
      /\ pc' = [pc EXCEPT ![p] = "add"] /\ started' = [started EXCEPT ![p] = n]
  BY <1>3 DEF Begin
<1>5. PICK r : /\ r.seq = seqNo[p] + 1 /\ r.op \in Adds /\ r.key = <<kind, sn, "A">>
               /\ requests' = [requests EXCEPT ![p] = Append(@, r)]
               /\ seqNo' = [seqNo EXCEPT ![p] = seqNo[p] + 1]
  <2>1. PICK op, value : op \in Adds /\ Send(p, op, <<kind, sn, "A">>, value)
    <3>1. (IF kind = "B" THEN "ADD" ELSE "APPEND") \in Adds
      BY DEF Adds
    <3>2. Send(p, IF kind = "B" THEN "ADD" ELSE "APPEND", <<kind, sn, "A">>,
               IF kind = "B" THEN <<1>> ELSE <<Contribution(p, sn)>>)
      BY <1>3 DEF Begin
    <3> QED BY <3>1, <3>2
  <2> DEFINE r == [pe |-> p, seq |-> seqNo[p] + 1, op |-> op,
                   key |-> <<kind, sn, "A">>, value |-> value]
  <2>2. /\ requests' = [requests EXCEPT ![p] = Append(@, r)]
        /\ seqNo' = [seqNo EXCEPT ![p] = seqNo[p] + 1]
    BY <2>1 DEF Send
  <2>3. r.seq = seqNo[p] + 1 /\ r.op \in Adds /\ r.key = <<kind, sn, "A">>
    BY <2>1
  <2> HIDE DEF r
  <2> QED BY <2>2, <2>3
<1>6. /\ pc'[p] = "add" /\ started'[p] = n /\ seqNo'[p] = seqNo[p] + 1
      /\ requests'[p] = <<r>>
      /\ \A q \in PEs \ {p} : /\ pc'[q] = pc[q] /\ started'[q] = started[q]
                              /\ seqNo'[q] = seqNo[q] /\ requests'[q] = requests[q]
  BY <1>1, <1>2, <1>4, <1>5 DEF Shape
<1>7. DOMAIN requests'[p] = {1} /\ requests'[p][1] = r /\ DOMAIN requests[p] = {}
  BY <1>2, <1>6
<1>8. \A q \in PEs \ {p} : Still(q)
  BY <1>4, <1>6 DEF Still
<1>9. ASSUME NEW knd \in {"B", "G"}, NEW s \in Nat
      PROVE  Arrived(knd, s)' = Arrived(knd, s)
  <2>1. /\ CountOf(knd, started[p]) \in Nat
        /\ CountOf(knd, n) = IF knd = kind THEN CountOf(knd, started[p]) + 1
                             ELSE CountOf(knd, started[p])
    BY <1>1, <1>3, CountStep DEF Shape
  <2>2. \A q \in PEs \ {p} : CountOf(knd, started[q])' = CountOf(knd, started[q])
    BY <1>4, <1>6 DEF CountOf
  <2>3. CountOf(knd, started[p])' = CountOf(knd, n)
    BY <1>4, <1>6 DEF CountOf
  <2>4. OnItsWay(p, knd, s)' <=> knd = kind /\ s = sn
    BY <1>5, <1>7 DEF OnItsWay
  <2>5. ~OnItsWay(p, knd, s)
    BY <1>7 DEF OnItsWay
  <2>6. \A q \in PEs \ {p} : OnItsWay(q, knd, s)' <=> OnItsWay(q, knd, s)
    <3> TAKE q \in PEs \ {p}
    <3>1. requests'[q] = requests[q]
      BY <1>6
    <3> QED BY <3>1 DEF OnItsWay
  <2>7. /\ CountOf(knd, started[p])' >= s /\ ~OnItsWay(p, knd, s)'
           <=> CountOf(knd, started[p]) >= s
    <3>1. CASE knd = kind
      BY <1>3, <2>1, <2>3, <2>4, <3>1
    <3>2. CASE knd # kind
      BY <2>1, <2>3, <2>4, <3>2
    <3> QED BY <3>1, <3>2
  <2> QED BY <2>2, <2>5, <2>6, <2>7 DEF Arrived
<1>10. InStep'
  <2>1. ASSUME NEW q \in PEs, NEW x \in PEs
        PROVE  Len(results'[q]) <= started'[x]
    <3>1. Len(results[q]) <= started[x] /\ started[x] \in Nat
          /\ results[q] \in Seq({"OK", "ERROR"})
      BY <1>1 DEF Exact, InStep, Shape
    <3>2. started[x] <= started'[x] /\ started'[x] \in Nat
      BY <1>3, <1>6, <3>1
    <3> QED BY <1>4, <3>1, <3>2
  <2> QED BY <2>1 DEF InStep
<1>11. PlaceE(p)'
  BY <1>4, <1>6 DEF Exact, PlaceE
<1>12. QueueE(p)' /\ RemovesE(p)'
  BY <1>5, <1>6, <1>7 DEF QueueE, RemovesE, Awaits
<1>13. (\A knd, s : ~At(p, knd, s)) /\ \A k : ~Removing(p, k)
  BY <1>1 DEF At, Removing
<1> QED BY <1>2, <1>4, <1>8, <1>9, <1>10, <1>11, <1>12, <1>13, ClientExact DEF serverVars

LEMMA AddedExact ==
    ASSUME GInv, Exact, running, late = 0, late' = 0, NEW p \in PEs, Added(p)
    PROVE  Exact'
<1>1. PICK o \in Outcomes(p) :
          /\ Ends(p, "add", o)
          /\ IF o.code # "SUCCESS" THEN Return(p, "ERROR") /\ UNCHANGED val
             ELSE /\ val' = [val EXCEPT ![p] = o.value[1]]
                  /\ IF Removes(p, o.value[1]) = {} THEN SetOrGet(p, o.value[1])
                     ELSE \E sn \in Removes(p, o.value[1]) :
                            Do(p, "rmAdd", "REMOVE", <<Kind(p), sn, "A">>, <<>>)
  BY DEF Added
<1>2. "add" \in Operations /\ pc[p] = "add" /\ pc[p] # "idle" /\ Shape
  BY <1>1 DEF GInv, Ends, Operations
<1>3. PICK r \in replies : /\ r.pe = p /\ ReplyE(r) /\ o.code = r.code
                           /\ o.value = r.value
  <2>1. Reads(p, o)
    BY <1>1, <1>2, EndsExact
  <2> QED BY <2>1 DEF Reads
<1>4. o.code = "SUCCESS" /\ (o.value[1] = NPEs => Full(p))
  BY <1>2, <1>3 DEF ReplyE
<1>5. PICK v : v = o.value[1]
  OBVIOUS
<1>6. v \in 1 .. NPEs /\ NPEs \in Nat /\ NPEs > 1
  BY <1>2, <1>4, <1>5, OutcomeIs, RanksAreNumbers
<1>7. /\ val' \in [PEs -> 0 .. NPEs] /\ val'[p] = v
      /\ \A q \in PEs \ {p} : val'[q] = val[q]
  <2>1. val' = [val EXCEPT ![p] = v]
    BY <1>1, <1>4, <1>5
  <2> QED BY <1>2, <1>6, <2>1 DEF Shape
<1>8. (Opens(p) => v = NPEs) /\ \A k : Removing(p, k) => v = 1
  <2>1. \A n : Told(p, n) => o.value[1] = n
    <3>1. Reads(p, o)
      BY <1>1, <1>2, EndsExact
    <3> QED BY <3>1 DEF Reads
  <2> QED BY <1>2, <1>5, <2>1 DEF Opens, Removing
<1>9. CASE Removes(p, v) = {}
  <2>1. SetOrGet(p, v)
    BY <1>1, <1>4, <1>5, <1>9
  <2>2. \A k \in DOMAIN kvStore : ~Removing(p, k)
    <3> SUFFICES ASSUME NEW k \in DOMAIN kvStore, Removing(p, k) PROVE FALSE
      OBVIOUS
    <3>1. k[2] \in Nat \ {0}
      BY DEF GInv, Shape, Keys, Exact, KeyE
    <3>2. v = 1 /\ Sn(p) = k[2] + 2
      BY <1>8 DEF Removing, At, REMOVE_INTERVAL
    <3>3. Removes(p, v) # {}
      BY <3>1, <3>2 DEF Removes, REMOVE_INTERVAL
    <3> QED BY <1>9, <3>3
  <2>3. CASE v = NPEs
    <3>1. Do(p, "set", "SET", Key(p, "W"), SMEM_GROUP_SET_STR) /\ Full(p)
      BY <1>4, <1>5, <2>1, <2>3 DEF SetOrGet
    <3> QED BY <1>1, <1>2, <1>7, <2>2, <3>1, DoExact DEF Operations
  <2>4. CASE v # NPEs
    <3>1. Do(p, "get", "GET", Key(p, "W"), <<>>)
      BY <2>1, <2>4 DEF SetOrGet
    <3> QED BY <1>1, <1>2, <1>7, <1>8, <2>2, <2>4, <3>1, DoExact DEF Operations
  <2> QED BY <2>3, <2>4
<1>10. CASE Removes(p, v) # {}
  <2>1. v = 1 /\ Sn(p) > REMOVE_INTERVAL /\ Removes(p, v) = {Sn(p) - REMOVE_INTERVAL}
    BY <1>10 DEF Removes
  <2>2. Do(p, "rmAdd", "REMOVE", <<Kind(p), Sn(p) - REMOVE_INTERVAL, "A">>, <<>>)
    BY <1>1, <1>4, <1>5, <1>10, <2>1
  <2>3. ~Opens(p)
    BY <1>6, <1>8, <2>1
  <2> QED BY <1>1, <1>2, <1>7, <2>1, <2>2, <2>3, DoExact DEF Operations
<1> QED BY <1>9, <1>10

LEMMA RemovedExact ==
    ASSUME GInv, Exact, running, late = 0, late' = 0, NEW p \in PEs,
           RemovedAdd(p) \/ RemovedWait(p)
    PROVE  Exact'
<1>1. pc[p] \in {"rmAdd", "rmWait"} /\ pc[p] # "idle" /\ Shape
  BY DEF RemovedAdd, RemovedWait, Ends, GInv
<1>2. val[p] = 1 /\ Sn(p) > REMOVE_INTERVAL
  <2>1. PICK kind \in {"B", "G"}, sn \in Nat \ {0} : At(p, kind, sn) /\ Sn(p) = sn
    BY <1>1, AtIs
  <2> QED BY <1>1, <2>1 DEF Exact, RemovesE
<1>3. NPEs \in Nat /\ NPEs > 1 /\ val \in [PEs -> 0 .. NPEs] /\ ~Opens(p)
  BY <1>1, RanksAreNumbers DEF Shape, Opens
<1>4. CASE RemovedAdd(p)
  <2>1. PICK o \in Outcomes(p) :
            /\ Ends(p, "rmAdd", o) /\ UNCHANGED val
            /\ \E sn \in Removes(p, val[p]) :
                 Do(p, "rmWait", "REMOVE", <<Kind(p), sn, "W">>, <<>>)
    BY <1>4 DEF RemovedAdd
  <2>2. "rmAdd" \in Operations /\ pc[p] = "rmAdd"
    BY <2>1 DEF Ends, Operations
  <2>3. Do(p, "rmWait", "REMOVE", <<Kind(p), Sn(p) - REMOVE_INTERVAL, "W">>, <<>>)
    BY <1>2, <2>1 DEF Removes
  <2>4. \A k : Removing(p, k) => k[3] = "W"
    <3>1. ~Asks(p)
      BY <2>1, <2>2, EndsExact DEF Asks
    <3> QED BY <2>2, <3>1 DEF Removing
  <2> QED BY <1>2, <1>3, <2>1, <2>2, <2>3, <2>4, DoExact DEF Operations
<1>5. CASE RemovedWait(p)
  <2>1. PICK o \in Outcomes(p) :
            Ends(p, "rmWait", o) /\ UNCHANGED val /\ SetOrGet(p, val[p])
    BY <1>5 DEF RemovedWait
  <2>2. "rmWait" \in Operations /\ pc[p] = "rmWait"
    BY <2>1 DEF Ends, Operations
  <2>3. Do(p, "get", "GET", Key(p, "W"), <<>>)
    BY <1>2, <1>3, <2>1 DEF SetOrGet
  <2>4. \A k : ~Removing(p, k)
    <3>1. ~Asks(p)
      BY <2>1, <2>2, EndsExact DEF Asks
    <3> QED BY <2>2, <3>1 DEF Removing
  <2> QED BY <1>3, <2>1, <2>2, <2>3, <2>4, DoExact DEF Operations
<1> QED BY <1>4, <1>5

LEMMA WaitedExact ==
    ASSUME GInv, Exact, running, late = 0, late' = 0, NEW p \in PEs,
           HasSet(p) \/ HasWaited(p) \/ HasData(p)
    PROVE  Exact'
<1>1. PICK was \in {"set", "get", "data"}, o \in Outcomes(p) :
          /\ Ends(p, was, o) /\ UNCHANGED val
          /\ was = "set" =>
               IF o.code # "SUCCESS" THEN Return(p, "ERROR")
               ELSE Do(p, "get", "GET", Key(p, "W"), <<>>)
          /\ was = "get" =>
               IF o.code # "SUCCESS" \/ o.value # SMEM_GROUP_SET_STR THEN Return(p, "ERROR")
               ELSE IF Kind(p) = "B" THEN Return(p, "OK")
               ELSE Do(p, "data", "GET", Key(p, "A"), <<>>)
          /\ was = "data" =>
               IF o.code # "SUCCESS" \/ Len(o.value) # NPEs THEN Return(p, "ERROR")
               ELSE Return(p, "OK")
  BY DEF HasSet, HasWaited, HasData, Opened
<1>2. was \in Operations /\ pc[p] = was /\ pc[p] # "idle"
  BY <1>1 DEF Operations, Ends
<1>3. PICK r \in replies : /\ r.pe = p /\ ReplyE(r) /\ o.code = r.code
                           /\ o.value = r.value
  <2>1. Reads(p, o)
    BY <1>1, <1>2, EndsExact
  <2> QED BY <2>1 DEF Reads
<1>4. /\ o.code = "SUCCESS" /\ (was = "get" => Full(p))
      /\ was = "data" => Len(o.value) = NPEs
  BY <1>2, <1>3 DEF ReplyE
<1>5. was = "data" => Full(p)
  BY <1>2 DEF Exact, PlaceE
<1>6. val \in [PEs -> 0 .. NPEs] /\ ~Opens(p) /\ \A k : ~Removing(p, k)
  <2>1. ~Asks(p)
    BY <1>1, <1>2, EndsExact DEF Asks
  <2> QED BY <1>2, <2>1 DEF GInv, Shape, Opens, Removing
<1>7. CASE was = "set"
  <2>1. Do(p, "get", "GET", Key(p, "W"), <<>>)
    BY <1>1, <1>4, <1>7
  <2> QED BY <1>1, <1>2, <1>6, <2>1, DoExact DEF Operations
<1>8. CASE was = "get"
  <2>1. o.value = SMEM_GROUP_SET_STR
    BY <1>2, <1>4, <1>8, OutcomeIs
  <2>2. CASE Kind(p) = "B"
    <3>1. Return(p, "OK")
      BY <1>1, <1>4, <1>8, <2>1, <2>2
    <3> QED BY <1>1, <1>2, <1>4, <1>8, <3>1, ReturnExact
  <2>3. CASE Kind(p) # "B"
    <3>1. Do(p, "data", "GET", Key(p, "A"), <<>>)
      BY <1>1, <1>4, <1>8, <2>1, <2>3
    <3> QED BY <1>1, <1>2, <1>4, <1>6, <1>8, <3>1, DoExact DEF Operations
  <2> QED BY <2>2, <2>3
<1>9. CASE was = "data"
  <2>1. Return(p, "OK")
    BY <1>1, <1>4, <1>9
  <2> QED BY <1>1, <1>2, <1>5, <1>9, <2>1, ReturnExact
<1> QED BY <1>7, <1>8, <1>9

\* The steps of the PEs.
LEMMA CollectiveExact ==
    ASSUME GInv, Exact, running, late = 0, late' = 0, NEW p \in PEs, Collective(p)
    PROVE  Exact'
BY BeginExact, AddedExact, RemovedExact, WaitedExact DEF Collective

\* The steps of the server leave every PE where it is.
LEMMA ServerAt ==
    ASSUME ServerFrame, NEW q \in PEs
    PROVE  /\ \A kind, sn : At(q, kind, sn)' <=> At(q, kind, sn)
           /\ pc'[q] = pc[q] /\ seqNo'[q] = seqNo[q]
           /\ Arrivals /\ Full(q) => Full(q)'
<1>1. \A kind, sn : At(q, kind, sn)' <=> At(q, kind, sn)
  BY DEF ServerFrame, groupVars, At, Kind, Sn, CountOf
<1>2. ASSUME Arrivals, Full(q) PROVE Full(q)'
  <2>1. ASSUME NEW kind \in {"B", "G"}, NEW sn \in Nat, At(q, kind, sn)'
        PROVE  Arrived(kind, sn)' = PEs
    <3>1. Arrived(kind, sn) = PEs
      BY <1>1, <1>2, <2>1 DEF Full
    <3>2. Arrived(kind, sn)' \subseteq PEs
      BY DEF Arrived
    <3> QED BY <1>2, <3>1, <3>2 DEF Arrivals
  <2> QED BY <2>1 DEF Full
<1> QED BY <1>1, <1>2 DEF ServerFrame, groupVars

\* The request taken is the only message of p; if it is a contribution, one
\* PE more has arrived in its round.
LEMMA TakenExact ==
    ASSUME GInv, Exact, ServerFrame, NEW p \in PEs, NEW r, Taken(p, r)
    PROVE  /\ requests'[p] = <<>> /\ requests[p] # <<>>
           /\ r.pe = p /\ Awaits(p, r.seq) /\ pc[p] # "idle"
           /\ Expected(p, r.op, r.key)
           /\ 1 \in DOMAIN requests[p] /\ requests[p][1] = r
           /\ \A q \in PEs \ {p} : requests'[q] = requests[q]
           /\ \A x \in replies : x.pe # p
           /\ \A w \in waitCtx : w.pe # p
           /\ Arrivals
           /\ \A kind \in {"B", "G"}, sn \in Nat :
                \/ Arrived(kind, sn)' = Arrived(kind, sn)
                \/ r.op \in Adds /\ r.key = <<kind, sn, "A">>
<1>1. /\ 1 \in DOMAIN requests[p] /\ requests[p][1] = r /\ RequestAt(p, r)
      /\ requests' \in [PEs -> Seq(Requests)]
      /\ \A q \in PEs \ {p} : requests'[q] = requests[q]
      /\ \A i \in DOMAIN requests'[p] : i + 1 \in DOMAIN requests[p] /\ 1 < i + 1
  BY TakenIs
<1>2. requests[p] # <<>>
  BY DEF Taken
<1>3. r.pe = p /\ Awaits(p, r.seq) /\ Expected(p, r.op, r.key)
  <2>1. Awaits(p, r.seq)
    BY <1>1 DEF Exact, QueueE
  <2> QED BY <1>1, <2>1, TakenIs DEF RequestAt
<1>4. pc[p] # "idle"
  BY <1>3 DEF Awaits
<1>5. requests'[p] = <<>>
  <2>1. DOMAIN requests'[p] = {}
    BY <1>1, OneMessage
  <2>2. requests'[p] \in Seq(Requests)
    BY <1>1
  <2>3. requests'[p] # <<>> => 1 \in DOMAIN requests'[p]
    BY <2>2
  <2> QED BY <2>1, <2>3
<1>6. (\A x \in replies : x.pe # p) /\ \A w \in waitCtx : w.pe # p
  BY <1>2, OneMessage
<1>7. \A q : \A kind : CountOf(kind, started[q])' = CountOf(kind, started[q])
  BY DEF ServerFrame, groupVars, CountOf
<1>8. \A i \in DOMAIN requests[p] : requests[p][i] = r
  BY <1>1, OneMessage
<1>9. ASSUME NEW kind \in {"B", "G"}, NEW sn \in Nat
      PROVE  /\ Arrived(kind, sn) \subseteq Arrived(kind, sn)'
             /\ \/ Arrived(kind, sn)' = Arrived(kind, sn)
                \/ r.op \in Adds /\ r.key = <<kind, sn, "A">>
  <2>1. \A q \in PEs \ {p} : OnItsWay(q, kind, sn)' <=> OnItsWay(q, kind, sn)
    <3> TAKE q \in PEs \ {p}
    <3>1. requests'[q] = requests[q]
      BY <1>1
    <3> QED BY <3>1 DEF OnItsWay
  <2>2. ~OnItsWay(p, kind, sn)'
    BY <1>5 DEF OnItsWay
  <2>3. OnItsWay(p, kind, sn) => r.op \in Adds /\ r.key = <<kind, sn, "A">>
    BY <1>8 DEF OnItsWay
  <2> QED BY <1>7, <2>1, <2>2, <2>3 DEF Arrived
<1>10. Arrivals
  BY <1>9 DEF Arrivals
<1> QED BY <1>1, <1>2, <1>3, <1>4, <1>5, <1>6, <1>9, <1>10

\* What is left to show of a handler: it answers the request it has taken
\* and PEs that wait for a key.
LEMMA ServerExact ==
    ASSUME GInv, Exact, ServerFrame, NEW p \in PEs, NEW r, Taken(p, r),
           replies \subseteq replies',
           \A x \in replies' : \/ x \in replies
                               \/ ReplyE(x)' /\ (x.pe = p \/ pc[x.pe] = "get"),
           \A w \in waitCtx' : w \in waitCtx \/ WaiterE(w)',
           (\A q \in PEs \ {p} : Still(q)) =>
             /\ \A kind \in {"B", "G"}, sn \in Nat \ {0} : RoundE(kind, sn)'
             /\ \A k \in DOMAIN kvStore' : KeyE(k)'
    PROVE  Exact'
<1>1. /\ requests'[p] = <<>> /\ Arrivals
      /\ \A q \in PEs \ {p} : requests'[q] = requests[q]
      /\ \A x \in replies : x.pe # p
      /\ \A w \in waitCtx : w.pe # p
  BY TakenExact
<1>2. UNCHANGED <<program, started, results, pc, val, seqNo>>
  BY DEF ServerFrame, groupVars
<1>3. \A q \in PEs \ {p} : Still(q)
  <2> TAKE q \in PEs \ {p}
  <2>1. pc[q] # "get" => \A x : x.pe = q => (x \in replies' <=> x \in replies)
    OBVIOUS
  <2> QED BY <1>1, <1>2, <2>1 DEF Still
<1>4. InStep'
  BY <1>2 DEF Exact, InStep
<1>5. PlaceE(p)'
  <2>1. Full(p) => Full(p)'
    BY <1>1, ServerAt
  <2> QED BY <1>2, <2>1 DEF Exact, PlaceE
<1>6. QueueE(p)'
  BY <1>1 DEF QueueE
<1>7. RemovesE(p)'
  <2>1. \A kind, sn : At(p, kind, sn)' <=> At(p, kind, sn)
    BY ServerAt
  <2>2. DOMAIN requests'[p] = {}
    BY <1>1
  <2> QED BY <1>2, <2>1, <2>2 DEF Exact, RemovesE, REMOVE_INTERVAL
<1> QED BY <1>1, <1>2, <1>3, <1>4, <1>5, <1>6, <1>7, StepExact

\* A count or a contribution is stored.
LEMMA AddExact ==
    ASSUME GInv, Exact, ServerFrame, NEW p \in PEs, NEW r, Taken(p, r),
           r.op \in Adds, NEW value, NEW told, NEW code,
           Update(p, r, value, told, code),
           Count(r.key[1], value) = IF Exists(r.key)
                                    THEN Count(r.key[1], kvStore[r.key]) + 1 ELSE 1,
           code[1] = Count(r.key[1], value)
    PROVE  Exact'
<1>1. /\ requests[p] # <<>> /\ r.pe = p /\ Awaits(p, r.seq) /\ pc[p] # "idle"
      /\ Expected(p, r.op, r.key)
      /\ \A x \in replies : x.pe # p
      /\ Arrivals
      /\ \A kind \in {"B", "G"}, sn \in Nat :
           \/ Arrived(kind, sn)' = Arrived(kind, sn)
           \/ r.op \in Adds /\ r.key = <<kind, sn, "A">>
  BY TakenExact
<1>2. pc[p] = "add" /\ r.key = Key(p, "A")
  <2>1. pc[p] \in Operations
    BY <1>1 DEF GInv, Shape
  <2> QED BY <1>1, <2>1 DEF Expected, Adds, Operations
<1>3. PICK kind \in {"B", "G"}, sn \in Nat \ {0} :
        /\ At(p, kind, sn) /\ Kind(p) = kind /\ Sn(p) = sn
        /\ CountOf(kind, started[p]) = sn
  BY <1>1, AtIs
<1>4. PICK key \in Keys : key = <<kind, sn, "A">>
  BY DEF Keys
<1>5. r.key = key /\ sn \in Nat
  BY <1>2, <1>3, <1>4 DEF Key
<1>6. /\ Arrived(kind, sn)' = Arrived(kind, sn) \cup {p}
      /\ Cardinality(Arrived(kind, sn)') = Cardinality(Arrived(kind, sn)) + 1
  BY <1>4, <1>5, TakenArrives
<1>7. Arrived(kind, sn + 2) = {}
  BY <1>3, NobodyAhead DEF Exact
<1>8. ~Superseded(kind, sn) /\ ~Superseded(kind, sn)'
  <2>1. sn + 2 \in Nat /\ <<kind, sn + 2, "A">> # key
    BY <1>4
  <2>2. Arrived(kind, sn + 2)' = Arrived(kind, sn + 2)
    BY <1>1, <1>5, <2>1
  <2> QED BY <1>7, <2>2 DEF Superseded, REMOVE_INTERVAL
<1>9. /\ Count(kind, value) = Cardinality(Arrived(kind, sn)')
      /\ Arrived(kind, sn) = {} => Count(kind, value) = 1
  <2>1. CASE Arrived(kind, sn) = {}
    <3>1. ~Exists(key)
      <4> SUFFICES ASSUME key \in DOMAIN kvStore PROVE FALSE
        BY DEF Exists
      <4>1. StoredAt(key)
        BY DEF GInv
      <4>2. 1 .. Cardinality(Arrived(kind, sn)) # {}
        BY <1>4, <4>1 DEF StoredAt
      <4> QED BY <2>1, <4>2, FS_EmptySet
    <3>2. Cardinality(Arrived(kind, sn)) = 0
      BY <2>1, FS_EmptySet
    <3> QED BY <1>4, <1>5, <1>6, <3>1, <3>2
  <2>2. CASE Arrived(kind, sn) # {}
    <3>1. Counted(kind, sn)
      BY <1>8, <2>2 DEF Exact, RoundE
    <3> QED BY <1>4, <1>5, <1>6, <2>2, <3>1 DEF Counted
  <2> QED BY <2>1, <2>2
<1>10. /\ waitCtx' = waitCtx
       /\ replies' = replies \cup {Answer(r, "SUCCESS", code)}
       /\ kvStore' = Store(key, value)
  <2>1. \A w \in waitCtx : w.key # key
    <3> TAKE w \in waitCtx
    <3>1. w.key = Key(w.pe, "W")
      BY DEF Exact, WaiterE, GInv, WaiterAt, Expected
    <3> QED BY <1>4, <3>1 DEF Key
  <2>2. Waiters(key) = {}
    BY <2>1 DEF Waiters
  <2>3. waitCtx' = waitCtx \ {}
    BY <1>5, <2>2 DEF Update
  <2>4. replies' = replies \cup ({Answer(r, "SUCCESS", code)} \cup {})
    BY <1>5, <2>2 DEF Update, Answered
  <2> QED BY <1>5, <2>3, <2>4 DEF Update
<1>11. PICK x : x = Answer(r, "SUCCESS", code)
  OBVIOUS
<1>12. /\ x.pe = p /\ x.seq = r.seq /\ x.code = "SUCCESS" /\ x.value = code
       /\ x \in replies'
  BY <1>1, <1>10, <1>11 DEF Answer
<1>13. code[1] = Cardinality(Arrived(kind, sn)') /\ (Arrived(kind, sn) = {} => code[1] = 1)
  BY <1>4, <1>5, <1>9
<1>14. code[1] = NPEs <=> Arrived(kind, sn)' = PEs
  <2>1. Arrived(kind, sn)' \in SUBSET PEs
    BY DEF Arrived
  <2> QED BY <1>13, <2>1, CountBound, RanksAreNumbers
<1>15. pc'[p] = "add" /\ \A knd, s : At(p, knd, s)' <=> At(p, knd, s)
  BY <1>2, ServerAt
<1>16. \A knd, s : At(p, knd, s) => knd = kind /\ s = sn
  BY <1>3 DEF At
<1>17. ReplyE(x)'
  <2>1. Awaits(p, r.seq)'
    BY <1>1, <1>15, ServerAt DEF Awaits
  <2>2. code[1] = NPEs => Full(p)'
    BY <1>14, <1>15, <1>16 DEF Full
  <2> QED BY <1>12, <1>15, <2>1, <2>2 DEF ReplyE, NPEs
<1>18. Told(p, code[1])'
  BY <1>12 DEF Told
<1>19. ~Opens(p) /\ \A k : ~Removing(p, k)
  BY <1>1, <1>2 DEF Opens, Removing, Told
<1>20. \A k : k # key /\ k \in DOMAIN kvStore =>
         k \in DOMAIN kvStore' /\ kvStore'[k] = kvStore[k]
  BY <1>10 DEF Store
<1>21. ASSUME NEW knd \in {"B", "G"}, NEW s \in Nat \ {0},
              \A q \in PEs \ {p} : Still(q)
       PROVE  RoundE(knd, s)'
  <2>1. CASE knd = kind /\ s = sn
    <3>1. Counted(kind, sn)'
      <4>1. key \in DOMAIN kvStore' /\ kvStore'[key] = value
        BY <1>10 DEF Store
      <4> QED BY <1>4, <1>9, <4>1 DEF Counted, Exists, Count
    <3>2. Arrived(kind, sn)' = PEs => At(p, kind, sn)' /\ Opens(p)'
      <4>1. code[1] = NPEs => Opens(p)'
        BY <1>15, <1>18 DEF Opens, NPEs
      <4> QED BY <1>3, <1>14, <1>15, <4>1
    <3> QED BY <2>1, <3>1, <3>2 DEF RoundE
  <2>2. CASE ~(knd = kind /\ s = sn)
    <3>1. s \in Nat /\ RoundE(knd, s) /\ <<knd, s, "A">> # key /\ <<knd, s, "W">> # key
      BY <1>4, <2>2 DEF Exact
    <3>2. Arrived(knd, s)' = Arrived(knd, s)
      BY <1>1, <1>5, <3>1
    <3>3. Superseded(knd, s) => Superseded(knd, s)'
      <4>1. Arrived(knd, s + 2) \subseteq Arrived(knd, s + 2)'
        BY <1>1, <3>1 DEF Arrivals
      <4> QED BY <4>1 DEF Superseded, REMOVE_INTERVAL
    <3>4. \A t \in {"A", "W"} : Exists(<<knd, s, t>>) =>
            /\ Exists(<<knd, s, t>>)'
            /\ kvStore'[<<knd, s, t>>] = kvStore[<<knd, s, t>>]
      BY <1>20, <3>1 DEF Exists
    <3>5. UNCHANGED program
      BY DEF ServerFrame, groupVars
    <3> QED BY <1>19, <1>21, <3>1, <3>2, <3>3, <3>4, <3>5, RoundStill
  <2> QED BY <2>1, <2>2
<1>22. ASSUME NEW k \in DOMAIN kvStore', \A q \in PEs \ {p} : Still(q)
       PROVE  KeyE(k)'
  <2>1. CASE k = key
    BY <1>4, <1>8, <2>1 DEF KeyE
  <2>2. CASE k # key
    <3>1. k \in DOMAIN kvStore /\ k \in Keys /\ KeyE(k)
      <4>1. k \in DOMAIN kvStore
        BY <1>10, <2>2 DEF Store
      <4> QED BY <4>1 DEF Exact, GInv, Shape
    <3>2. Superseded(k[1], k[2])' => Removing(p, k)' \/ Superseded(k[1], k[2])
      <4>1. PICK knd \in {"B", "G"}, s \in Nat : knd = k[1] /\ s = k[2]
        BY <3>1 DEF Keys
      <4>2. s + 2 \in Nat
        OBVIOUS
      <4>3. CASE knd = kind /\ s + 2 = sn
        <5>1. CASE Arrived(kind, sn) = {}
          <6>1. At(p, k[1], k[2] + 2)'
            BY <1>3, <1>15, <4>1, <4>3
          <6>2. Told(p, 1)'
            BY <1>13, <1>18, <5>1
          <6> QED BY <1>15, <6>1, <6>2 DEF Removing, REMOVE_INTERVAL
        <5>2. CASE Arrived(kind, sn) # {}
          BY <4>1, <4>3, <5>2 DEF Superseded, REMOVE_INTERVAL
        <5> QED BY <5>1, <5>2
      <4>4. CASE ~(knd = kind /\ s + 2 = sn)
        <5>1. Arrived(knd, s + 2)' = Arrived(knd, s + 2)
          BY <1>1, <1>4, <1>5, <4>2, <4>4
        <5> QED BY <4>1, <5>1 DEF Superseded, REMOVE_INTERVAL
      <4> QED BY <4>3, <4>4
    <3>3. UNCHANGED program
      BY DEF ServerFrame, groupVars
    <3> QED BY <1>1, <1>19, <1>22, <3>1, <3>2, <3>3, KeyStill
  <2> QED BY <2>1, <2>2
<1> QED BY <1>10, <1>11, <1>12, <1>17, <1>21, <1>22, ServerExact

\* The round is opened, and who waits for that is woken.
LEMMA SetExact ==
    ASSUME GInv, Exact, ServerFrame, NEW p \in PEs, NEW r, Taken(p, r),
           r.op = "SET", NEW value, NEW told, NEW code,
           Update(p, r, value, told, code)
    PROVE  Exact'
<1>1. /\ requests[p] # <<>> /\ r.pe = p /\ Awaits(p, r.seq) /\ pc[p] # "idle"
      /\ Expected(p, r.op, r.key)
      /\ 1 \in DOMAIN requests[p] /\ requests[p][1] = r
      /\ \A x \in replies : x.pe # p
      /\ Arrivals
      /\ \A kind \in {"B", "G"}, sn \in Nat :
           \/ Arrived(kind, sn)' = Arrived(kind, sn)
           \/ r.op \in Adds /\ r.key = <<kind, sn, "A">>
  BY TakenExact
<1>2. pc[p] = "set"
  <2>1. pc[p] \in Operations
    BY <1>1 DEF GInv, Shape
  <2> QED BY <1>1, <2>1 DEF Expected, Adds, Operations
<1>3. PICK kind \in {"B", "G"}, sn \in Nat \ {0} :
        At(p, kind, sn) /\ CountOf(kind, started[p]) = sn
  BY <1>1, AtIs
<1>4. PICK key \in Keys : key = <<kind, sn, "W">>
  BY DEF Keys
<1>5. r.key = key /\ sn \in Nat /\ Arrived(kind, sn) = PEs
  BY <1>1, <1>2, <1>3, <1>4 DEF Exact, RemovesE, PlaceE, Full
<1>6. \A knd \in {"B", "G"}, s \in Nat : Arrived(knd, s)' = Arrived(knd, s)
  BY <1>1 DEF Adds
<1>7. \A knd \in {"B", "G"}, s \in Nat : Superseded(knd, s)' <=> Superseded(knd, s)
  BY <1>6 DEF Superseded, REMOVE_INTERVAL
<1>8. ~Superseded(kind, sn)
  <2>1. Arrived(kind, sn + 2) = {}
    BY <1>3, NobodyAhead DEF Exact
  <2> QED BY <2>1 DEF Superseded, REMOVE_INTERVAL
<1>9. /\ waitCtx' \subseteq waitCtx /\ kvStore' = Store(key, value)
      /\ replies \subseteq replies'
      /\ \A x \in replies' : \/ x \in replies
                             \/ x = Answer(r, "SUCCESS", code)
                             \/ \E w \in waitCtx : w.key = key /\ x = Answer(w, "SUCCESS", told)
  BY <1>5 DEF Update, Answered, Waiters
<1>10. ASSUME NEW w \in waitCtx, w.key = key
       PROVE  w.pe \in PEs /\ Full(w.pe)
  <2>1. /\ w.pe \in PEs /\ pc[w.pe] = "get" /\ Awaits(w.pe, w.seq)
    BY DEF Exact, WaiterE, GInv, Shape
  <2>2. w.key = Key(w.pe, "W")
    BY <2>1 DEF GInv, WaiterAt, Expected
  <2>3. Kind(w.pe) = kind /\ Sn(w.pe) = sn
    BY <1>4, <1>10, <2>2 DEF Key
  <2> QED BY <1>5, <2>1, <2>3 DEF Full, At
<1>11. ASSUME NEW x \in replies'
       PROVE  \/ x \in replies
              \/ ReplyE(x)' /\ (x.pe = p \/ pc[x.pe] = "get")
  <2>1. CASE x = Answer(r, "SUCCESS", code)
    <3>1. x.pe = p /\ x.seq = r.seq /\ x.code = "SUCCESS"
      BY <1>1, <2>1 DEF Answer
    <3>2. pc'[p] = "set" /\ Awaits(p, r.seq)'
      BY <1>1, <1>2, ServerAt DEF Awaits
    <3> QED BY <3>1, <3>2 DEF ReplyE
  <2>2. CASE \E w \in waitCtx : w.key = key /\ x = Answer(w, "SUCCESS", told)
    <3>1. PICK w \in waitCtx : w.key = key /\ x = Answer(w, "SUCCESS", told)
      BY <2>2
    <3>2. x.pe = w.pe /\ x.seq = w.seq /\ x.code = "SUCCESS"
      BY <3>1 DEF Answer
    <3>3. w.pe \in PEs /\ pc[w.pe] = "get" /\ Awaits(w.pe, w.seq) /\ Full(w.pe)
      BY <1>10, <3>1 DEF Exact, WaiterE
    <3>4. pc'[w.pe] = "get" /\ Awaits(w.pe, w.seq)' /\ Full(w.pe)'
      BY <1>1, <3>3, ServerAt DEF Awaits
    <3> QED BY <3>2, <3>3, <3>4 DEF ReplyE
  <2> QED BY <1>9, <2>1, <2>2
<1>12. \A k \in DOMAIN kvStore : k # key =>
         k \in DOMAIN kvStore' /\ kvStore'[k] = kvStore[k]
  BY <1>9 DEF Store
<1>13. Exists(key)'
  BY <1>9 DEF Exists, Store
<1>14. \A knd, s : At(p, knd, s) => knd = kind /\ s = sn
  BY <1>3 DEF At
<1>15. \A k : ~Removing(p, k)
  BY <1>2 DEF Removing
<1>16. UNCHANGED program
  BY DEF ServerFrame, groupVars
<1>17. ASSUME NEW knd \in {"B", "G"}, NEW s \in Nat \ {0},
              \A q \in PEs \ {p} : Still(q)
       PROVE  RoundE(knd, s)'
  <2>1. s \in Nat /\ RoundE(knd, s) /\ <<knd, s, "A">> # key
    BY <1>4 DEF Exact
  <2>2. Arrived(knd, s)' = Arrived(knd, s) /\ (Superseded(knd, s)' <=> Superseded(knd, s))
    BY <1>6, <1>7, <2>1
  <2>3. CASE knd = kind /\ s = sn
    <3>1. Exists(<<kind, sn, "W">>)'
      BY <1>4, <1>13
    <3>2. Counted(kind, sn) => Counted(kind, sn)'
      <4>1. Exists(<<kind, sn, "A">>) => /\ Exists(<<kind, sn, "A">>)'
                                         /\ kvStore'[<<kind, sn, "A">>] = kvStore[<<kind, sn, "A">>]
        BY <1>12, <2>1, <2>3 DEF Exists
      <4> QED BY <2>2, <2>3, <4>1 DEF Counted, Count
    <3> QED BY <2>1, <2>2, <2>3, <3>1, <3>2 DEF RoundE
  <2>4. CASE ~(knd = kind /\ s = sn)
    <3>1. <<knd, s, "W">> # key
      BY <1>4, <2>4
    <3>2. \A t \in {"A", "W"} : Exists(<<knd, s, t>>) =>
            /\ Exists(<<knd, s, t>>)'
            /\ kvStore'[<<knd, s, t>>] = kvStore[<<knd, s, t>>]
      BY <1>12, <2>1, <3>1 DEF Exists
    <3>3. ~At(p, knd, s)
      BY <1>14, <2>4
    <3> QED BY <1>16, <1>17, <2>1, <2>2, <3>2, <3>3, RoundStill
  <2> QED BY <2>3, <2>4
<1>18. ASSUME NEW k \in DOMAIN kvStore', \A q \in PEs \ {p} : Still(q)
       PROVE  KeyE(k)'
  <2>1. CASE k = key
    <3>1. ~Superseded(kind, sn)' /\ Arrived(kind, sn)' = PEs
      BY <1>5, <1>6, <1>7, <1>8
    <3> QED BY <1>4, <2>1, <3>1 DEF KeyE
  <2>2. CASE k # key
    <3>1. k \in DOMAIN kvStore
      BY <1>9, <2>2 DEF Store
    <3>2. k \in Keys /\ KeyE(k)
      BY <3>1 DEF Exact, GInv, Shape
    <3>3. Superseded(k[1], k[2])' => Superseded(k[1], k[2])
      <4>1. PICK knd \in {"B", "G"}, s \in Nat : knd = k[1] /\ s = k[2]
        BY <3>2 DEF Keys
      <4> QED BY <1>7, <4>1
    <3> QED BY <1>1, <1>15, <1>16, <1>18, <3>2, <3>3, KeyStill
  <2> QED BY <2>1, <2>2
<1> QED BY <1>9, <1>11, <1>17, <1>18, ServerExact

LEMMA StoringExact ==
    ASSUME GInv, Exact, NEW p \in PEs, UNCHANGED groupVars,
           SetHandler(p) \/ AddHandler(p) \/ AppendHandler(p)
    PROVE  Exact'
<1>1. PICK r : r = Head(requests[p])
  OBVIOUS
<1>2. \E value, told, code :
        /\ Update(p, r, value, told, code)
        /\ requests[p] # <<>>
        /\ \/ r.op = "SET"
           \/ /\ r.op = "ADD" /\ code = value
              /\ value = IF Exists(r.key) THEN <<kvStore[r.key][1] + r.value[1]>>
                         ELSE r.value
           \/ /\ r.op = "APPEND" /\ code = <<Len(value)>>
              /\ value = IF Exists(r.key) THEN kvStore[r.key] \o r.value
                         ELSE r.value
  BY <1>1 DEF SetHandler, AddHandler, AppendHandler, Handle
<1>3. PICK value, told, code :
        /\ Update(p, r, value, told, code)
        /\ requests[p] # <<>>
        /\ \/ r.op = "SET"
           \/ /\ r.op = "ADD" /\ code = value
              /\ value = IF Exists(r.key) THEN <<kvStore[r.key][1] + r.value[1]>>
                         ELSE r.value
           \/ /\ r.op = "APPEND" /\ code = <<Len(value)>>
              /\ value = IF Exists(r.key) THEN kvStore[r.key] \o r.value
                         ELSE r.value
  BY <1>2
<1>4. ServerFrame /\ Taken(p, r)
  BY <1>1, <1>3 DEF ServerFrame, Taken, Update, Answered
<1>5. r \in Requests /\ RequestAt(p, r)
  BY <1>4, TakenIs
<1>6. CASE r.op = "SET"
  BY <1>3, <1>4, <1>6, SetExact
<1>7. CASE r.op = "ADD"
  <2>1. r.key[1] = "B" /\ r.value = <<1>> /\ r.op \in Adds
    BY <1>5, <1>7 DEF RequestAt, Adds
  <2>2. code = value /\ value = IF Exists(r.key) THEN <<kvStore[r.key][1] + 1>> ELSE <<1>>
    BY <1>3, <1>7, <2>1
  <2>3. value[1] = IF Exists(r.key) THEN kvStore[r.key][1] + 1 ELSE 1
    BY <2>2
  <2>4. /\ Count(r.key[1], value) = IF Exists(r.key)
                                    THEN Count(r.key[1], kvStore[r.key]) + 1 ELSE 1
        /\ code[1] = Count(r.key[1], value)
    BY <2>1, <2>2, <2>3 DEF Count
  <2> QED BY <1>3, <1>4, <2>1, <2>4, AddExact
<1>8. CASE r.op = "APPEND"
  <2>1. r.key[1] = "G" /\ r.op \in Adds /\ r.value \in Seq(Nat) /\ Len(r.value) = 1
    BY <1>5, <1>8 DEF RequestAt, Adds, Requests
  <2>2. code = <<Len(value)>>
        /\ value = IF Exists(r.key) THEN kvStore[r.key] \o r.value ELSE r.value
    BY <1>3, <1>8
  <2>3. Len(value) = IF Exists(r.key) THEN Len(kvStore[r.key]) + 1 ELSE 1
    <3>1. Exists(r.key) => kvStore[r.key] \in Seq(Nat)
      BY DEF GInv, Shape, Exists
    <3> QED BY <2>1, <2>2, <3>1, ConcatLength
  <2>4. /\ Count(r.key[1], value) = IF Exists(r.key)
                                    THEN Count(r.key[1], kvStore[r.key]) + 1 ELSE 1
        /\ code[1] = Count(r.key[1], value)
    BY <2>1, <2>2, <2>3 DEF Count
  <2> QED BY <1>3, <1>4, <2>1, <2>4, AddExact
<1> QED BY <1>3, <1>6, <1>7, <1>8

\* A key is removed: somebody has arrived two rounds later.
LEMMA RemoveExact ==
    ASSUME GInv, Exact, NEW p \in PEs, UNCHANGED groupVars, RemoveHandler(p)
    PROVE  Exact'
<1>1. PICK r : r = Head(requests[p])
  OBVIOUS
<1>2. PICK code :
        /\ r.op = "REMOVE" /\ requests[p] # <<>>
        /\ kvStore' = Restrict(kvStore, DOMAIN kvStore \ {r.key})
        /\ Answered(p, {Answer(r, code, <<>>)}) /\ UNCHANGED waitCtx
  BY <1>1 DEF RemoveHandler, Handle
<1>3. /\ ServerFrame /\ Taken(p, r)
      /\ replies' = replies \cup {Answer(r, code, <<>>)}
      /\ UNCHANGED waitCtx
  BY <1>1, <1>2 DEF ServerFrame, Taken, Answered
<1>4. /\ r.pe = p /\ Awaits(p, r.seq) /\ pc[p] # "idle"
      /\ Expected(p, r.op, r.key)
      /\ 1 \in DOMAIN requests[p] /\ requests[p][1] = r
      /\ \A x \in replies : x.pe # p
      /\ Arrivals
      /\ \A kind \in {"B", "G"}, sn \in Nat :
           \/ Arrived(kind, sn)' = Arrived(kind, sn)
           \/ r.op \in Adds /\ r.key = <<kind, sn, "A">>
  BY <1>3, TakenExact
<1>5. pc[p] \in {"rmAdd", "rmWait"}
  <2>1. pc[p] \in Operations
    BY <1>4 DEF GInv, Shape
  <2> QED BY <1>2, <1>4, <2>1 DEF Expected, Adds, Operations
<1>6. PICK kind \in {"B", "G"}, sn \in Nat \ {0} :
        At(p, kind, sn) /\ CountOf(kind, started[p]) = sn
  BY <1>4, AtIs
<1>7. /\ sn > 2 /\ sn \in Nat
      /\ pc[p] = "rmAdd" => r.key = <<kind, sn - 2, "A">>
      /\ pc[p] = "rmWait" => r.key = <<kind, sn - 2, "W">>
  BY <1>4, <1>5, <1>6 DEF Exact, RemovesE, REMOVE_INTERVAL
<1>8. \A knd \in {"B", "G"}, s \in Nat : Arrived(knd, s)' = Arrived(knd, s)
  BY <1>2, <1>4 DEF Adds
<1>9. \A knd \in {"B", "G"}, s \in Nat : Superseded(knd, s)' <=> Superseded(knd, s)
  BY <1>8 DEF Superseded, REMOVE_INTERVAL
<1>10. Superseded(kind, sn - 2)
  <2>1. ~OnItsWay(p, kind, sn)
    <3>1. \A i \in DOMAIN requests[p] : requests[p][i] = r
      BY <1>4, OneMessage
    <3> QED BY <1>2, <3>1 DEF OnItsWay, Adds
  <2>2. p \in Arrived(kind, sn)
    BY <1>6, <2>1 DEF Arrived
  <2>3. sn - 2 + 2 = sn
    BY <1>7
  <2> QED BY <2>2, <2>3 DEF Superseded, REMOVE_INTERVAL
<1>11. \A k \in DOMAIN kvStore : k # r.key =>
         k \in DOMAIN kvStore' /\ kvStore'[k] = kvStore[k]
  BY <1>2 DEF Restrict
<1>12. DOMAIN kvStore' \subseteq DOMAIN kvStore /\ r.key \notin DOMAIN kvStore'
  BY <1>2 DEF Restrict
<1>13. pc'[p] = pc[p] /\ (\A knd, s : At(p, knd, s)' <=> At(p, knd, s))
  BY <1>3, ServerAt
<1>14. ~Opens(p)
  BY <1>5 DEF Opens
<1>15. UNCHANGED program
  BY <1>3 DEF ServerFrame, groupVars
<1>16. ASSUME NEW x \in replies', x \notin replies
       PROVE  ReplyE(x)' /\ x.pe = p
  <2>1. x.pe = p /\ x.seq = r.seq
    BY <1>3, <1>4, <1>16 DEF Answer
  <2>2. Awaits(p, r.seq)'
    BY <1>3, <1>4, <1>13, ServerAt DEF Awaits
  <2> QED BY <1>5, <1>13, <2>1, <2>2 DEF ReplyE
<1>17. ASSUME NEW knd \in {"B", "G"}, NEW s \in Nat \ {0},
              \A q \in PEs \ {p} : Still(q)
       PROVE  RoundE(knd, s)'
  <2>1. s \in Nat /\ RoundE(knd, s)
    BY DEF Exact
  <2>2. Arrived(knd, s)' = Arrived(knd, s) /\ (Superseded(knd, s)' <=> Superseded(knd, s))
    BY <1>8, <1>9, <2>1
  <2>3. ~Superseded(knd, s)' => \A t \in {"A", "W"} : Exists(<<knd, s, t>>) =>
          /\ Exists(<<knd, s, t>>)'
          /\ kvStore'[<<knd, s, t>>] = kvStore[<<knd, s, t>>]
    <3> SUFFICES ASSUME ~Superseded(knd, s), NEW t \in {"A", "W"}
                 PROVE  <<knd, s, t>> # r.key
      BY <1>11, <2>2 DEF Exists
    <3>1. ~(knd = kind /\ s = sn - 2)
      BY <1>10
    <3> QED BY <1>5, <1>7, <3>1
  <2> QED BY <1>14, <1>15, <1>17, <2>1, <2>2, <2>3, RoundStill
<1>18. ASSUME NEW k \in DOMAIN kvStore', \A q \in PEs \ {p} : Still(q)
       PROVE  KeyE(k)'
  <2>1. k \in DOMAIN kvStore /\ k \in Keys /\ KeyE(k) /\ k # r.key
    BY <1>12 DEF Exact, GInv, Shape
  <2>2. Superseded(k[1], k[2])' => Superseded(k[1], k[2])
    <3>1. PICK knd \in {"B", "G"}, s \in Nat : knd = k[1] /\ s = k[2]
      BY <2>1 DEF Keys
    <3> QED BY <1>9, <3>1
  <2>3. Removing(p, k) => Removing(p, k)'
    <3> SUFFICES ASSUME Removing(p, k) PROVE Removing(p, k)'
      OBVIOUS
    <3>1. At(p, k[1], k[2] + 2)
      BY DEF Removing, REMOVE_INTERVAL
    <3>2. k[1] = kind /\ k[2] + 2 = sn /\ k[2] \in Nat
          /\ k[3] \in {"A", "W"} /\ k = <<k[1], k[2], k[3]>>
      BY <1>6, <2>1, <3>1 DEF At, Keys
    <3>3. k[2] = sn - 2
      BY <1>7, <3>2
    <3>4. pc[p] = "rmAdd" /\ k[3] = "W"
      BY <1>5, <1>7, <2>1, <3>2, <3>3 DEF Removing
    <3>5. At(p, k[1], k[2] + 2)'
      BY <1>13, <3>1
    <3> QED BY <1>13, <3>4, <3>5 DEF Removing, REMOVE_INTERVAL
  <2> QED BY <1>4, <1>15, <1>18, <2>1, <2>2, <2>3, KeyStill
<1> QED BY <1>3, <1>16, <1>17, <1>18, ServerExact

\* A GET reads what all have stored, or waits for its round to open.
LEMMA GetExact ==
    ASSUME GInv, Exact, NEW p \in PEs, UNCHANGED groupVars, GetHandler(p)
    PROVE  Exact'
<1>1. PICK r : r = Head(requests[p])
  OBVIOUS
<1>2. /\ r.op = "GET" /\ requests[p] # <<>> /\ kvStore' = kvStore
      /\ \/ /\ Exists(r.key) /\ UNCHANGED waitCtx
            /\ Answered(p, {Answer(r, "SUCCESS", kvStore[r.key])})
         \/ /\ ~Exists(r.key) /\ Answered(p, {})
            /\ waitCtx' = waitCtx \cup {[pe |-> p, seq |-> r.seq, key |-> r.key]}
  BY <1>1 DEF GetHandler, Handle
<1>3. ServerFrame /\ Taken(p, r)
  BY <1>1, <1>2 DEF ServerFrame, Taken, Answered
<1>4. /\ r.pe = p /\ Awaits(p, r.seq) /\ pc[p] # "idle"
      /\ Expected(p, r.op, r.key)
      /\ \A x \in replies : x.pe # p
      /\ Arrivals
      /\ \A kind \in {"B", "G"}, sn \in Nat :
           \/ Arrived(kind, sn)' = Arrived(kind, sn)
           \/ r.op \in Adds /\ r.key = <<kind, sn, "A">>
  BY <1>3, TakenExact
<1>5. \/ pc[p] = "get" /\ r.key = Key(p, "W")
      \/ pc[p] = "data" /\ r.key = Key(p, "A")
  <2>1. pc[p] \in Operations
    BY <1>4 DEF GInv, Shape
  <2> QED BY <1>2, <1>4, <2>1 DEF Expected, Adds, Operations
<1>6. PICK kind \in {"B", "G"}, sn \in Nat \ {0} :
        /\ At(p, kind, sn) /\ Kind(p) = kind /\ Sn(p) = sn
        /\ CountOf(kind, started[p]) = sn
  BY <1>4, AtIs
<1>7. \A knd \in {"B", "G"}, s \in Nat : Arrived(knd, s)' = Arrived(knd, s)
  BY <1>2, <1>4 DEF Adds
<1>8. \A knd \in {"B", "G"}, s \in Nat : Superseded(knd, s)' <=> Superseded(knd, s)
  BY <1>7 DEF Superseded, REMOVE_INTERVAL
<1>9. pc'[p] = pc[p] /\ Awaits(p, r.seq)' /\ (Full(p) => Full(p)')
  BY <1>3, <1>4, ServerAt DEF Awaits
<1>10. pc[p] = "get" /\ Exists(r.key) => Full(p)
  <2> SUFFICES ASSUME pc[p] = "get", Exists(r.key) PROVE Full(p)
    OBVIOUS
  <2>1. r.key = <<kind, sn, "W">> /\ r.key \in DOMAIN kvStore
    BY <1>5, <1>6 DEF Key, Exists
  <2>2. KeyE(r.key)
    BY <2>1 DEF Exact
  <2>3. Arrived(kind, sn) = PEs
    BY <2>1, <2>2 DEF KeyE
  <2> QED BY <1>6, <2>3 DEF Full, At
<1>11. pc[p] = "data" => Exists(r.key) /\ Len(kvStore[r.key]) = NPEs
  <2> SUFFICES ASSUME pc[p] = "data" PROVE Exists(r.key) /\ Len(kvStore[r.key]) = NPEs
    OBVIOUS
  <2>1. kind = "G" /\ r.key = <<kind, sn, "A">>
    BY <1>5, <1>6 DEF Key, GInv, PlaceAt
  <2>2. Arrived(kind, sn) = PEs
    BY <1>6 DEF Exact, PlaceE, Full
  <2>3. ~Superseded(kind, sn)
    <3>1. Arrived(kind, sn + 2) = {}
      BY <1>6, NobodyAhead DEF Exact
    <3> QED BY <3>1 DEF Superseded, REMOVE_INTERVAL
  <2>4. Counted(kind, sn)
    <3>1. RoundE(kind, sn) /\ PEs # {}
      BY <1>6 DEF Exact
    <3> QED BY <2>2, <2>3, <3>1 DEF RoundE
  <2> QED BY <2>1, <2>2, <2>4, RanksAreNumbers DEF Counted, Count
<1>12. replies \subseteq replies'
  BY <1>2 DEF Answered
<1>13. ASSUME NEW x \in replies', x \notin replies
       PROVE  ReplyE(x)' /\ x.pe = p
  <2>1. Exists(r.key) /\ x = Answer(r, "SUCCESS", kvStore[r.key])
    BY <1>2, <1>13 DEF Answered
  <2>2. x.pe = p /\ x.seq = r.seq /\ x.code = "SUCCESS" /\ x.value = kvStore[r.key]
    BY <1>4, <2>1 DEF Answer
  <2>3. pc[p] = "data" => Len(x.value) = NPEs
    BY <1>11, <2>2
  <2> QED BY <1>5, <1>9, <1>10, <2>1, <2>2, <2>3 DEF ReplyE, NPEs
<1>14. ASSUME NEW w \in waitCtx', w \notin waitCtx
       PROVE  WaiterE(w)'
  <2>1. ~Exists(r.key) /\ w = [pe |-> p, seq |-> r.seq, key |-> r.key]
    BY <1>2, <1>14
  <2>2. pc[p] = "get"
    BY <1>5, <1>11, <2>1
  <2> QED BY <1>9, <2>1, <2>2 DEF WaiterE
<1>15. ~Opens(p) /\ \A k : ~Removing(p, k)
  BY <1>5 DEF Opens, Removing
<1>16. UNCHANGED program
  BY <1>3 DEF ServerFrame, groupVars
<1>17. ASSUME NEW knd \in {"B", "G"}, NEW s \in Nat \ {0},
              \A q \in PEs \ {p} : Still(q)
       PROVE  RoundE(knd, s)'
  <2>1. s \in Nat /\ RoundE(knd, s)
    BY DEF Exact
  <2>2. \A k : Exists(k) => Exists(k)' /\ kvStore'[k] = kvStore[k]
    BY <1>2 DEF Exists
  <2> QED BY <1>7, <1>8, <1>15, <1>16, <1>17, <2>1, <2>2, RoundStill
<1>18. ASSUME NEW k \in DOMAIN kvStore', \A q \in PEs \ {p} : Still(q)
       PROVE  KeyE(k)'
  <2>1. k \in Keys /\ KeyE(k)
    BY <1>2 DEF Exact, GInv, Shape
  <2>2. Superseded(k[1], k[2])' => Superseded(k[1], k[2])
    <3>1. PICK knd \in {"B", "G"}, s \in Nat : knd = k[1] /\ s = k[2]
      BY <2>1 DEF Keys
    <3> QED BY <1>8, <3>1
  <2> QED BY <1>4, <1>15, <1>16, <1>18, <2>1, <2>2, KeyStill
<1> QED BY <1>3, <1>12, <1>13, <1>14, <1>17, <1>18, ServerExact

\* The handlers of the server.
LEMMA HandlerExact ==
    ASSUME GInv, Exact, NEW p \in PEs, Handler(p), UNCHANGED groupVars
    PROVE  Exact'
BY StoringExact, RemoveExact, GetExact DEF Handler

LEMMA InitExact == Init => EInv
<1> SUFFICES ASSUME Init PROVE Exact
  BY DEF EInv, Init, StoreInit
<1>1. /\ kvStore = <<>> /\ waitCtx = {} /\ replies = {}
      /\ \A p \in PEs : /\ requests[p] = <<>> /\ started[p] = 0
                        /\ results[p] = <<>> /\ pc[p] = "idle"
  BY DEF Init, StoreInit
<1>2. \A p, q \in PEs : Len(results[p]) <= started[q]
  BY <1>1
<1>3. \A p \in PEs : PlaceE(p) /\ QueueE(p) /\ RemovesE(p)
  BY <1>1 DEF PlaceE, QueueE, RemovesE, At
<1>4. ASSUME NEW kind \in {"B", "G"}, NEW sn \in Nat \ {0}
      PROVE  RoundE(kind, sn)
  <2>1. CountOf(kind, 0) = 0
    <3>1. {i \in 1 .. 0 : program[i] = kind} = {}
      OBVIOUS
    <3> QED BY <3>1, FS_EmptySet DEF CountOf
  <2>2. \A q \in PEs : ~(CountOf(kind, started[q]) >= sn)
    BY <1>1, <2>1
  <2>3. Arrived(kind, sn) = {}
    BY <2>2 DEF Arrived
  <2>4. PEs # {}
    <3>1. NPEs \in Nat /\ NPEs > 1 /\ PEs = 0 .. NPEs - 1
      BY RanksAreNumbers, GroupAssumption
    <3> QED BY <3>1
  <2> QED BY <2>3, <2>4 DEF RoundE
<1>5. DOMAIN kvStore = {}
  BY <1>1
<1> QED BY <1>1, <1>2, <1>3, <1>4, <1>5 DEF Exact, InStep

\* Nothing changes.
LEMMA StutterExact ==
    ASSUME GInv, Exact, UNCHANGED vars
    PROVE  Exact'
<1>1. PICK p \in PEs : p = 0
  <2>1. NPEs \in Nat /\ NPEs > 1 /\ PEs = 0 .. NPEs - 1
    BY RanksAreNumbers, GroupAssumption
  <2> QED BY <2>1
<1>2. UNCHANGED <<storeVars, groupVars>>
  BY DEF vars
<1>3. UNCHANGED <<kvStore, waitCtx, requests, replies, seqNo, pending, program,
                  started, results, pc, val>>
  BY <1>2 DEF storeVars, groupVars
<1>4. \A q \in PEs : Still(q)
  BY <1>3 DEF Still
<1>5. \A kind \in {"B", "G"}, sn \in Nat : Arrived(kind, sn)' = Arrived(kind, sn)
  BY <1>3 DEF Arrived, OnItsWay, CountOf
<1>6. Arrivals /\ \A kind \in {"B", "G"}, sn \in Nat : Superseded(kind, sn)' <=> Superseded(kind, sn)
  BY <1>5 DEF Arrivals, Superseded, REMOVE_INTERVAL
<1>7. PlaceE(p)' /\ QueueE(p)' /\ RemovesE(p)' /\ InStep'
  <2>1. (Full(p) => Full(p)') /\ (QueueE(p) => QueueE(p)') /\ (RemovesE(p) => RemovesE(p)')
    BY <1>3, <1>4, <1>6, FullStays, StillSame
  <2> QED BY <1>3, <2>1 DEF Exact, PlaceE, InStep
<1>8. \A w \in waitCtx' : WaiterE(w)'
  BY <1>3 DEF Exact, WaiterE, Awaits
<1>9. ASSUME NEW r \in replies' PROVE ReplyE(r)'
  <2>1. r \in replies /\ r.pe \in PEs /\ ReplyE(r)
    BY <1>3 DEF Exact, GInv, Shape, Replies
  <2>2. Full(r.pe) => Full(r.pe)'
    BY <1>3, <1>4, <1>6, <2>1, FullStays
  <2> QED BY <1>3, <2>1, <2>2 DEF ReplyE, Awaits, NPEs
<1>10. ASSUME NEW kind \in {"B", "G"}, NEW sn \in Nat \ {0} PROVE RoundE(kind, sn)'
  <2>1. sn \in Nat /\ RoundE(kind, sn)
    BY DEF Exact
  <2>2. \A k : Exists(k)' <=> Exists(k)
    BY <1>3 DEF Exists
  <2>3. At(p, kind, sn) /\ Opens(p) => At(p, kind, sn)' /\ Opens(p)'
    BY <1>3, <1>4, StillSame
  <2> QED BY <1>3, <1>4, <1>5, <1>6, <2>1, <2>2, <2>3, RoundStill
<1>11. ASSUME NEW k \in DOMAIN kvStore' PROVE KeyE(k)'
  <2>1. k \in Keys /\ KeyE(k)
    BY <1>3 DEF Exact, GInv, Shape
  <2>2. Superseded(k[1], k[2])' => Superseded(k[1], k[2])
    <3>1. PICK knd \in {"B", "G"}, s \in Nat : knd = k[1] /\ s = k[2]
      BY <2>1 DEF Keys
    <3> QED BY <1>6, <3>1
  <2>3. Removing(p, k) => Removing(p, k)'
    BY <1>3, <1>4, StillSame
  <2> QED BY <1>3, <1>4, <1>6, <2>1, <2>2, <2>3, KeyStill
<1> QED BY <1>3, <1>4, <1>6, <1>7, <1>8, <1>9, <1>10, <1>11, StepExact

\* No time limit that has ended too soon is forgotten.
LEMMA LateGrows ==
    ASSUME GInv, [Next]_vars
    PROVE  late' = late \/ late' = late + 1
<1>1. CASE \E p \in PEs : Collective(p)
  BY <1>1 DEF Collective, Begin, Added, RemovedAdd, RemovedWait, HasSet, HasWaited,
     HasData, Ends, WaitEnds, TimeOver
<1>2. CASE \E p \in PEs : Handler(p)
  BY <1>2 DEF Handler, SetHandler, AddHandler, AppendHandler, RemoveHandler,
     GetHandler, Update, Answered
<1>3. CASE (\E p \in PEs : DropReply(p)) \/ Timer \/ DestroyStore
  BY <1>3 DEF DropReply, Timer, TimerThreadTask, TimeOver, DestroyStore, Shutdown
<1>4. CASE UNCHANGED vars
  BY <1>4 DEF vars, storeVars
<1> QED BY <1>1, <1>2, <1>3, <1>4 DEF Next

\* PE 0 leaves the last barrier only when all are in it.
LEMMA DestroyExact ==
    ASSUME GInv, Exact, late = 0, DestroyStore
    PROVE  Closed'
<1>1. /\ UNCHANGED <<late, kvStore, program, started, results>>
      /\ Len(results[0]) = Len(program) /\ 0 \in PEs
  <2>1. NPEs \in Nat /\ NPEs > 1 /\ PEs = 0 .. NPEs - 1
    BY RanksAreNumbers, GroupAssumption
  <2> QED BY <2>1 DEF DestroyStore, Shutdown, groupVars
<1>2. StoreBounded'
  <2>1. \A kind \in {"B", "G"} : Rounds(kind)' = Rounds(kind)
    BY <1>1 DEF Rounds
  <2> QED BY <2>1, ExactBounds DEF StoreBounded, REMOVE_INTERVAL
<1>3. ASSUME NEW q \in PEs PROVE started[q] = Len(program)
  <2>1. Len(program) <= started[q]
    BY <1>1 DEF Exact, InStep
  <2>2. started[q] <= Len(program) /\ started[q] \in Nat /\ Len(program) \in Nat
    BY DEF GInv, PlaceAt, Shape
  <2> QED BY <2>1, <2>2
<1>4. \A q \in PEs : \A i \in DOMAIN results[q] : results[q][i] = "OK"
  BY DEF Exact, PlaceE
<1> QED BY <1>1, <1>2, <1>3, <1>4 DEF Closed

\* After the store is gone the PEs only return from the last barrier.
LEMMA ClosedStays ==
    ASSUME GInv, late = 0, late' = 0, ~running, Closed, [Next]_vars
    PROVE  ~running' /\ Closed'
<1>1. ~running' /\ kvStore' = kvStore
  <2>1. CASE \E p \in PEs : Collective(p)
    BY <2>1, CollectiveKeepsServer DEF serverVars
  <2>2. CASE \E p \in PEs : Handler(p)
    BY <2>2 DEF Handler, SetHandler, AddHandler, AppendHandler, RemoveHandler,
       GetHandler, Handle
  <2>3. CASE (\E p \in PEs : DropReply(p)) \/ Timer \/ DestroyStore
    BY <2>3 DEF DropReply, Timer, TimerThreadTask, DestroyStore, Shutdown
  <2>4. CASE UNCHANGED vars
    BY <2>4 DEF vars, storeVars
  <2> QED BY <2>1, <2>2, <2>3, <2>4 DEF Next
<1>2. StoreBounded'
  <2>1. \A kind \in {"B", "G"} : Rounds(kind)' = Rounds(kind)
    BY <1>1 DEF Rounds
  <2> QED BY <2>1 DEF Closed, StoreBounded, REMOVE_INTERVAL
<1>3. program' = program /\ started' = started /\ results' = results => Closed'
  BY <1>2 DEF Closed
<1>4. CASE \E p \in PEs : Collective(p)
  <2>1. PICK p \in PEs : Collective(p)
    BY <1>4
  <2>2. started[p] = Len(program) /\ started[p] \in Nat
    BY DEF Closed, GInv, Shape
  <2>3. ~Begin(p)
    BY <2>2 DEF Begin
  <2>4. CASE UNCHANGED <<program, started, results>>
    BY <1>1, <1>3, <2>4
  <2>5. CASE /\ UNCHANGED <<program, started>> /\ pc[p] # "idle"
             /\ Return(p, "ERROR") \/ Return(p, "OK")
    <3>1. results \in [PEs -> Seq({"OK", "ERROR"})] /\ Len(results[p]) = started[p] - 1
      BY <2>5 DEF GInv, Shape, PlaceAt
    <3>2. PICK res \in {"OK", "ERROR"} :
            results' = [results EXCEPT ![p] = Append(results[p], res)]
      BY <2>5 DEF Return
    <3>3. \A q \in PEs \ {p} : results'[q] = results[q]
      BY <3>1, <3>2
    <3>4. results'[p] = Append(results[p], res) /\ results[p] \in Seq({"OK", "ERROR"})
      BY <3>1, <3>2
    <3>5. \A i \in DOMAIN results'[p] :
            i = Len(program) \/ (i \in DOMAIN results[p] /\ results'[p][i] = results[p][i])
      <4> SUFFICES ASSUME NEW i \in DOMAIN results'[p], i # Len(program)
                   PROVE  i \in DOMAIN results[p] /\ results'[p][i] = results[p][i]
        OBVIOUS
      <4>1. Len(results[p]) \in Nat /\ Len(results[p]) + 1 = Len(program)
        BY <2>2, <3>1, <3>4
      <4>2. i \in 1 .. Len(results[p]) + 1
        BY <3>4
      <4>3. i \in 1 .. Len(results[p])
        BY <4>1, <4>2
      <4> QED BY <3>4, <4>3
    <3>6. \A q \in PEs : \A i \in DOMAIN results'[q] :
            results'[q][i] = "ERROR" => i = Len(program)
      BY <3>3, <3>5 DEF Closed
    <3>7. program' = program /\ \A q \in PEs : started'[q] = Len(program)
      BY <2>5 DEF Closed
    <3> QED BY <1>1, <1>2, <3>6, <3>7 DEF Closed
  <2> QED BY <2>1, <2>3, <2>4, <2>5, CollectiveSteps
<1>5. CASE ~\E p \in PEs : Collective(p)
  <2>1. UNCHANGED <<program, started, results>>
    BY <1>5 DEF Next, Timer, DestroyStore, groupVars, vars
  <2> QED BY <1>1, <1>3, <2>1
<1> QED BY <1>1, <1>4, <1>5

\* The store serves the PEs.
LEMMA RunningStays ==
    ASSUME GInv, NoLostWakeup, Exact, running, late = 0, late' = 0, [Next]_vars
    PROVE  IF running' THEN Exact' ELSE Closed'
<1>1. CASE \E p \in PEs : Collective(p)
  BY <1>1, CollectiveExact, CollectiveKeepsServer DEF serverVars
<1>2. CASE \E p \in PEs : Handler(p) /\ UNCHANGED groupVars
  <2>1. running' = running
    BY <1>2 DEF Handler, SetHandler, AddHandler, AppendHandler, RemoveHandler,
       GetHandler, Update, Answered
  <2> QED BY <1>2, <2>1, HandlerExact
<1>3. CASE \E p \in PEs : DropReply(p)
  <2>1. PICK p \in PEs, r \in replies : r.pe = p /\ r.seq \notin pending[p]
    BY <1>3 DEF DropReply
  <2>2. Awaits(p, r.seq)
    BY <2>1 DEF Exact, ReplyE
  <2> QED BY <2>1, <2>2 DEF Awaits, GInv, PlaceAt
<1>4. CASE Timer
  <2>1. Stalled /\ waitCtx # {}
    BY <1>4 DEF Timer, TimerThreadTask, TimeOver
  <2> QED BY <2>1, NeverStalls
<1>5. CASE DestroyStore
  <2>1. ~running'
    BY <1>5 DEF DestroyStore, Shutdown
  <2> QED BY <1>5, <2>1, DestroyExact
<1>6. CASE UNCHANGED vars
  <2>1. running' = running
    BY <1>6 DEF vars, storeVars
  <2> QED BY <1>6, <2>1, StutterExact
<1> QED BY <1>1, <1>2, <1>3, <1>4, <1>5, <1>6 DEF Next

LEMMA NextExact ==
    ASSUME GInv, NoLostWakeup, EInv, [Next]_vars
    PROVE  EInv'
<1> SUFFICES ASSUME late' = 0 PROVE IF running' THEN Exact' ELSE Closed'
  BY DEF EInv
<1>1. late = 0
  <2>1. late \in Nat
    BY DEF GInv, Shape
  <2> QED BY <2>1, LateGrows
<1>2. CASE running
  BY <1>1, <1>2, RunningStays DEF EInv
<1>3. CASE ~running
  BY <1>1, <1>3, ClosedStays DEF EInv
<1> QED BY <1>2, <1>3

(* While no time limit ends too soon, counts are exact, the PEs are at most *)
(* one collective apart and each has one message in the system; and when    *)
(* the store is destroyed, all are in the last barrier.                     *)
THEOREM ExactInvariant == Spec => []EInv
<1>1. Init => EInv
  BY InitExact
<1>2. GInv /\ NoLostWakeup /\ EInv /\ [Next]_vars => EInv'
  BY NextExact
<1> QED BY <1>1, <1>2, GroupInvariant, NeverLosesWakeup, PTL DEF Spec

(* The store does not grow with the number of collectives: while nothing    *)
(* times out, at most REMOVE_INTERVAL + 2 rounds of a kind have keys.       *)
THEOREM StoreStaysBounded == Spec => []StoreBounded
<1>1. GInv /\ EInv => StoreBounded
  BY ExactBounds DEF EInv, Closed, StoreBounded
<1> QED BY <1>1, ExactInvariant, GroupInvariant, PTL

(* While nothing times out, only the last barrier of finalize can fail, and *)
(* only because PE 0 has left it and destroyed the store under the others;  *)
(* even then they have all arrived in it.                                   *)
THEOREM OnlyLastBarrierMayFail == Spec => []OnlyLastBarrierFails
<1>1. EInv => OnlyLastBarrierFails
  <2> SUFFICES ASSUME EInv, late = 0, NEW p \in PEs, NEW i \in DOMAIN results[p],
                      results[p][i] = "ERROR"
               PROVE  /\ i = Len(program) /\ ~running
                      /\ \A q \in PEs : started[q] = Len(program)
    BY DEF OnlyLastBarrierFails
  <2>1. ~running
    BY DEF EInv, Exact, PlaceE
  <2> QED BY <2>1 DEF EInv, Closed
<1> QED BY <1>1, ExactInvariant, PTL
=============================================================================
