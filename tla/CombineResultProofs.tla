------------------------- MODULE CombineResultProofs -------------------------
(***************************************************************************)
(* Proof that a Combine completion that says OK is exact: for any grid, any *)
(* plan and any interleaving, every row of the owner is in place and is the *)
(* sum of exactly its journal contributors.  The invariants follow a task   *)
(* through its block: the sources fetched for it, its result PUT, and the   *)
(* share of the tasks that is behind the block.                             *)
(***************************************************************************)
EXTENDS CombineVerdictProofs, NaturalFacts, FiniteSetTheorems

\* What the result of task t must be.
ExactRows(t) == [w \in Workers |->
                    IF w \in Contributors(t) THEN "cur" ELSE "none"]

\* The tasks of block b.
Owns(b, t) == IF AllTwo THEN FirstTask(b) <= t /\ t < EndTask(b)
              ELSE t % NB = b

\* The sources of block b's current task whose GET has been issued.
Got(b) == {w \in Workers : fetched[b][w] # "none"}

\* The first n sources of the chain of block b's task.
FirstOf(b, n) == {CurChain(b)[i] : i \in 1 .. n}

\* A slot is reused after its ACK only.
SlotInv == \A w \in Workers : slot[w] # "cur" => ack[w] # "none"

\* The places from which the block begins its next task, with nothing fetched.
Fresh(b) == syncs[b] < 3 \/ pc[b] \in {"bar3", "read3", "poll", "offset",
                                       "flag", "begin"}

\* The rows being collected are those of the first sources of the chain (on
\* the two-contributor path), or of as many different ones as were issued.
GotInv(b) ==
    /\ Fresh(b) => fetched[b] = Empty /\ order[b] = <<>>
    /\ pc[b] = "find" =>
           /\ Got(b) \subseteq Contributors(task[b])
           /\ Cardinality(Got(b)) = Len(order[b])
           /\ AllTwo => Got(b) = FirstOf(b, Len(order[b]))
    /\ \A w \in Workers : fetched[b][w] \in {"none", "pending", "cur"}

\* The block is at one of its tasks or past them; every result on its way is
\* exact; and every task it has left behind is in place or on its way.
DoneInv(b) ==
    /\ IF AllTwo THEN FirstTask(b) <= task[b] ELSE task[b] % NB = b
    /\ \A p \in puts[b] : p.rows = ExactRows(p.task)
    /\ \A t \in Tasks : Owns(b, t) /\ t < task[b] =>
           Exact(t) \/ \E p \in puts[b] : p.task = t

\* A block that has stopped working has done all of its tasks, or the launch
\* has failed; it has certainly failed if the block skipped the work.
Stopped == {"bar4", "final", "acks", "completions", "done"}
EndInv(b) ==
    /\ pc[b] \in Stopped \cup {"quiet"} =>
           status # "OK" \/ task[b] >= EndTask(b)
    /\ pc[b] \in Stopped /\ syncs[b] = 2 => status # "OK"

\* When the launch has been closed as a success every result is in place.
FinalInv == Closed /\ final = "OK" => \A t \in Tasks : Exact(t)

RInv == /\ VInv /\ SlotInv /\ FinalInv
        /\ \A b \in Blocks : GotInv(b) /\ DoneInv(b) /\ EndInv(b)

-----------------------------------------------------------------------------
(* The partition of the tasks over the blocks. *)

\* Every task of the launch is a task of some block, on either path.
LEMMA EveryTaskOwned ==
    ASSUME NEW t \in Tasks
    PROVE  \E b \in Blocks : Owns(b, t) /\ t < EndTask(b)
PROOF
<1>1. /\ NB \in Nat \ {0} /\ t \in Nat /\ TotalTasks \in Nat
      /\ t < TotalTasks
      BY ShapeAssumption DEF Tasks, TotalTasks
<1>2. CASE ~AllTwo
  <2>1. t % NB \in Blocks BY <1>1 DEF Blocks
  <2> QED BY <1>1, <1>2, <2>1 DEF Owns, EndTask
<1>3. CASE AllTwo
  <2>1. /\ Share \in Nat /\ Extra \in Nat /\ Extra < NB
        /\ TotalTasks = NB * Share + Extra
        BY <1>1 DEF Share, Extra
  <2> DEFINE S == Share + 1
             Long == Extra * S
  <2>2. Long \in Nat /\ S \in Nat \ {0} BY <2>1
  <2>3. CASE t < Long
    <3> DEFINE b == t \div S
               r == t % S
    <3>1. b \in Nat /\ r \in Nat /\ r < S /\ t = S * b + r
          BY <1>1, <2>2, Division
    <3> HIDE DEF b, r
    <3>2. b < Extra
      <4> SUFFICES ASSUME b >= Extra PROVE FALSE BY <2>1, <3>1
      <4>1. S * b >= S * Extra BY <2>1, <2>2, <3>1
      <4> QED BY <2>1, <2>2, <2>3, <3>1, <4>1
    <3>3. FirstTask(b) = Share * b + b /\ EndTask(b) = Share * b + b + Share + 1
          BY <1>3, <2>1, <3>1, <3>2 DEF FirstTask, EndTask
    <3>4. S * b = Share * b + b /\ Share * b \in Nat BY <2>1, <3>1
    <3>5. b \in Blocks BY <1>1, <2>1, <3>1, <3>2 DEF Blocks
    <3>6. Owns(b, t) /\ t < EndTask(b)
          BY <1>3, <2>1, <3>1, <3>3, <3>4 DEF Owns
    <3> QED BY <3>5, <3>6
  <2>4. CASE ~ (t < Long)
    <3>1. NB * Share = Extra * Share + (NB - Extra) * Share
          BY <1>1, <2>1
    <3>2. Long = Extra * Share + Extra BY <2>1
    <3>3. t - Long \in Nat /\ t - Long < (NB - Extra) * Share
          BY <1>1, <2>1, <2>2, <2>4, <3>1, <3>2
    <3>4. Share \in Nat \ {0}
      <4>1. (NB - Extra) * 0 = 0 BY <1>1, <2>1
      <4> QED BY <2>1, <3>3, <4>1
    <3> DEFINE u == t - Long
               q == u \div Share
               r == u % Share
               b == Extra + q
    <3>5. /\ q \in Nat /\ r \in Nat /\ r < Share /\ u = Share * q + r
          BY <3>3, <3>4, Division
    <3> HIDE DEF q, r
    <3>6. q < NB - Extra
      <4> SUFFICES ASSUME q >= NB - Extra PROVE FALSE BY <1>1, <2>1, <3>5
      <4>1. Share * q >= Share * (NB - Extra) BY <1>1, <2>1, <3>5
      <4> QED BY <1>1, <2>1, <3>3, <3>5, <4>1
    <3>7. b \in Blocks /\ ~ (b < Extra) /\ b \in Nat
          BY <1>1, <2>1, <3>5, <3>6 DEF Blocks
    <3>8. /\ FirstTask(b) = Share * b + Extra
          /\ EndTask(b) = Share * b + Extra + Share
          BY <1>3, <2>1, <3>7 DEF FirstTask, EndTask
    <3>9. Share * b = Extra * Share + Share * q BY <2>1, <3>5
    <3>10. Extra * Share \in Nat /\ Share * q \in Nat BY <2>1, <3>5
    <3>11. t = Extra * Share + Extra + Share * q + r
           BY <1>1, <2>1, <2>2, <3>2, <3>5, <3>10
    <3>12. Owns(b, t) /\ t < EndTask(b)
           BY <1>3, <2>1, <3>5, <3>8, <3>9, <3>10, <3>11 DEF Owns
    <3> QED BY <3>7, <3>12
  <2> QED BY <2>3, <2>4
<1> QED BY <1>2, <1>3

\* The next task of a block: it leaves exactly one of its tasks behind.
LEMMA NextTask ==
    ASSUME NEW b \in Blocks, NEW k \in Nat,
           IF AllTwo THEN FirstTask(b) <= k ELSE k % NB = b
    PROVE  /\ IF AllTwo THEN FirstTask(b) <= k + TaskStep
                        ELSE (k + TaskStep) % NB = b
           /\ \A t \in Tasks : Owns(b, t) /\ t < k + TaskStep => t < k \/ t = k
PROOF
<1>1. NB \in Nat \ {0} /\ FirstTask(b) \in Nat /\ (\A t \in Tasks : t \in Nat)
      BY ShapeAssumption, TaskRange DEF Tasks
<1>2. CASE AllTwo BY <1>1, <1>2 DEF TaskStep
<1>3. CASE ~AllTwo
  <2>1. (k + NB) % NB = b BY <1>1, <1>3, RemainderOfStep
  <2>2. ASSUME NEW t \in Tasks, t % NB = b, t < k + NB PROVE t < k \/ t = k
        BY <1>1, <1>3, <2>2, SameRemainder
  <2> QED BY <1>3, <2>1, <2>2 DEF TaskStep, Owns
<1> QED BY <1>2, <1>3

-----------------------------------------------------------------------------
(* The sources of a task. *)

\* The contributors of a task are as many as its chain is long.
LEMMA ContributorsCounted ==
    ASSUME NEW t \in Tasks
    PROVE  /\ IsFiniteSet(Contributors(t))
           /\ Cardinality(Contributors(t)) = Len(Chain[t \div Tiles])
PROOF
<1> DEFINE c == Chain[t \div Tiles]
           n == Len(c)
           f == [i \in 1 .. n |-> c[i]]
<1>1. /\ c \in Seq(Workers) /\ n \in Nat
      /\ \A i, j \in 1 .. n : c[i] = c[j] => i = j
      BY AccOfTask, ShapeAssumption
<1>2. Contributors(t) = {c[i] : i \in 1 .. n} BY DEF Contributors
<1> HIDE DEF c, n
<1>3. f \in [1 .. n -> Contributors(t)] BY <1>2
<1>4. /\ \A i, j \in 1 .. n : f[i] = f[j] => i = j
      /\ \A w \in Contributors(t) : \E i \in 1 .. n : f[i] = w
      BY <1>1, <1>2
<1>5. f \in Bijection(1 .. n, Contributors(t))
      BY <1>3, <1>4 DEF Bijection, Injection, IsInjective, Surjection
<1>6. ExistsBijection(1 .. n, Contributors(t))
      BY <1>5 DEF ExistsBijection
<1>7. IsFiniteSet(Contributors(t)) BY <1>1, <1>6, FS_NatBijection
<1>8. Cardinality(Contributors(t)) = n BY <1>1, <1>6, FS_CountingElements
<1> QED BY <1>7, <1>8 DEF c, n

\* Issuing the GET of a contributor not yet seen adds one source.
LEMMA GotOneMore ==
    ASSUME IInv, NEW b \in Blocks, pc[b] = "find", NEW w \in Workers,
           w \in Contributors(task[b]), fetched[b][w] = "none",
           Got(b) \subseteq Contributors(task[b]),
           Cardinality(Got(b)) = Len(order[b]), IssueGet(b, w)
    PROVE  /\ Got(b)' = Got(b) \cup {w}
           /\ Got(b)' \subseteq Contributors(task[b])
           /\ Len(order'[b]) = Len(order[b]) + 1
           /\ Cardinality(Got(b)') = Len(order'[b])
PROOF
<1>1. /\ fetched \in [Blocks -> [Workers -> Fetch]]
      /\ order \in [Blocks -> Seq(Workers)] /\ ReduceTypes /\ PlaceAt(b)
      BY DEF IInv, TypeOK, ReduceTypes, ControlInv, BlockAt
<1>2. task[b] \in Tasks BY <1>1, ChainType
<1>3. Got(b)' = Got(b) \cup {w} BY <1>1 DEF Got, IssueGet
<1>4. order'[b] = Append(order[b], w) BY <1>1 DEF IssueGet
<1>5. Len(order'[b]) = Len(order[b]) + 1 /\ Len(order[b]) \in Nat
      BY <1>1, <1>4
<1>6. IsFiniteSet(Got(b)) BY <1>2, ContributorsCounted, FS_Subset
<1>7. w \notin Got(b) BY DEF Got
<1>8. Cardinality(Got(b)') = Cardinality(Got(b)) + 1
      BY <1>3, <1>6, <1>7, FS_AddElement
<1> QED BY <1>3, <1>5, <1>8

\* When nothing is pending and nobody is missing the collected rows are exact.
LEMMA AllGotIsExact ==
    ASSUME IInv, NEW b \in Blocks, pc[b] = "find", GotInv(b),
           ~More(b), Pending(b) = {}
    PROVE  task[b] \in Tasks /\ fetched[b] = ExactRows(task[b])
PROOF
<1>1. /\ fetched[b] \in [Workers -> Fetch]
      /\ order[b] \in Seq(Workers) /\ ReduceTypes /\ PlaceAt(b)
      BY DEF IInv, TypeOK, ReduceTypes, ControlInv, BlockAt
<1>2. task[b] \in Tasks BY <1>1, ChainType
<1>3. /\ Got(b) \subseteq Contributors(task[b])
      /\ Cardinality(Got(b)) = Len(order[b])
      BY DEF GotInv
<1>4. Len(CurChain(b)) \in Nat /\ Len(order[b]) \in Nat
      BY <1>1, ChainType
<1>5. Len(order[b]) >= Cardinality(Contributors(task[b]))
      BY <1>2, <1>4, ContributorsCounted DEF More, CurChain
<1>6. Got(b) = Contributors(task[b])
  <2>1. /\ IsFiniteSet(Contributors(task[b]))
        /\ Cardinality(Contributors(task[b])) \in Nat
        BY <1>2, ContributorsCounted, FS_CardinalityType
  <2>2. Cardinality(Got(b)) <= Cardinality(Contributors(task[b]))
        BY <1>3, <2>1, FS_Subset
  <2>3. Cardinality(Got(b)) = Cardinality(Contributors(task[b]))
        BY <1>3, <1>4, <1>5, <2>1, <2>2
  <2> QED BY <1>3, <2>1, <2>3, FS_Subset
<1>7. \A w \in Workers :
          fetched[b][w] = IF w \in Contributors(task[b]) THEN "cur" ELSE "none"
      BY <1>6 DEF Got, GotInv, Pending
<1> QED BY <1>1, <1>2, <1>7 DEF ExactRows

-----------------------------------------------------------------------------
(* What the steps of the kernel leave alone. *)

\* The steps that touch what a block reduces.
LEMMA DataKept ==
    ASSUME NEW b \in Blocks, BlockStep(b),
           ~BeginTask(b), ~FindReady(b), ~WaitNext(b), ~PutResult(b)
    PROVE  UNCHANGED <<reduceVars, result>>
PROOF
BY DEF BlockStep, Prelude, LeaveBarrier, ReadStatus, ValidateIndex,
   SetFailureRead, SetFailureWrite, MarkIndexDone, StoreIndexDone,
   PollSource, AcceptOffset, AcceptFlag, PollDone, Quiet, CloseJournal,
   PublishAck, PublishCompletion, reduceVars, outVars

\* A step of a block leaves the chains the others are collecting alone.
LEMMA OrderKept ==
    ASSUME IInv, NEW b \in Blocks, BlockStep(b) \/ Transfer(b) \/ Timeout(b),
           NEW c \in Blocks, c # b
    PROVE  order'[c] = order[c]
PROOF
<1>0. order \in [Blocks -> Seq(Workers)] BY DEF IInv, TypeOK, ReduceTypes
<1>1. CASE Transfer(b) \/ Timeout(b)
      BY <1>1 DEF Transfer, Timeout, LandGet, LandPut, PollTimeout,
         FindTimeout, reduceVars
<1>2. CASE BeginTask(b) \/ FindReady(b) \/ WaitNext(b) \/ PutResult(b)
      BY <1>0, <1>2 DEF BeginTask, FindReady, WaitNext, PutResult, IssueGet
<1> QED BY <1>1, <1>2, DataKept DEF reduceVars

\* A slot is reused only after its ACK, and the ACK stays.
LEMMA NextSlot ==
    ASSUME IInv, SlotInv, [Next]_vars
    PROVE  SlotInv'
PROOF
<1>0. /\ slot \in [Workers -> {"cur", "next"}] /\ final \in Statuses
      BY DEF IInv, TypeOK, WorkerTypes, WordTypes
<1>1. ASSUME NEW w \in Workers, ack[w] # "none" PROVE ack'[w] # "none"
  <2>1. CASE Prelude(0) \/ CloseJournal(0)
        BY <1>1, <2>1 DEF Prelude, CloseJournal, outVars
  <2>2. CASE RecordsKept BY <1>0, <1>1, <2>2 DEF RecordsKept, Statuses
  <2> QED BY <2>1, <2>2, JournalSteps
<1>2. ASSUME NEW w \in Workers, slot'[w] # "cur" PROVE ack[w] # "none"
  <2>1. CASE UNCHANGED slot BY <1>2, <2>1 DEF SlotInv
  <2>2. ASSUME NEW v \in Workers, ReuseSlot(v) PROVE ack[w] # "none"
        BY <1>0, <1>2, <2>2 DEF ReuseSlot, SlotInv
  <2>3. CASE UNCHANGED vars BY <2>1, <2>3 DEF vars, workerVars
  <2>4. CASE \E v \in Workers : WorkerStep(v)
        BY <2>1, <2>4 DEF WorkerStep, PutReady, PutNotice
  <2>5. ASSUME NEW b \in Blocks, BlockStep(b) \/ Transfer(b) \/ Timeout(b)
        PROVE  UNCHANGED slot
        BY <2>5, WorkersKept DEF workerVars
  <2> QED BY <2>1, <2>2, <2>3, <2>4, <2>5 DEF Next
<1> QED BY <1>1, <1>2 DEF SlotInv

-----------------------------------------------------------------------------
(* The collection of a task's rows. *)

\* Control steps take a block into the reduction only with nothing fetched.
LEMMA FreshKept ==
    ASSUME IInv, NEW b \in Blocks, BlockStep(b) \/ Timeout(b),
           ~BeginTask(b), ~PutResult(b)
    PROVE  (Fresh(b)' => Fresh(b)) /\ (pc'[b] = "find" => pc[b] = "find")
PROOF
<1> USE DEF Goto, Arrive, Fresh
<1>0. /\ pc \in [Blocks -> PCs] /\ syncs \in [Blocks -> 0 .. 4]
      /\ SyncsAt(b) /\ pc[b] \in PCs /\ syncs[b] \in 0 .. 4
      BY DEF IInv, TypeOK, ControlTypes, ControlInv, BlockAt
<1>1. CASE Prelude(b) \/ LeaveBarrier(b)
      BY <1>0, <1>1 DEF Prelude, LeaveBarrier, SyncsAt
<1>2. CASE ReadStatus(b) \/ ValidateIndex(b)
      BY <1>0, <1>2 DEF ReadStatus, ValidateIndex, SyncsAt
<1>3. CASE SetFailureRead(b) \/ SetFailureWrite(b)
      BY <1>0, <1>3 DEF SetFailureRead, SetFailureWrite, AfterFailure, SyncsAt
<1>4. CASE MarkIndexDone(b) \/ StoreIndexDone(b)
      BY <1>0, <1>4 DEF MarkIndexDone, StoreIndexDone, SyncsAt
<1>5. CASE (\E s \in Workers : PollSource(b, s)) \/ AcceptOffset(b)
            \/ AcceptFlag(b) \/ PollDone(b)
      BY <1>0, <1>5 DEF PollSource, AcceptOffset, AcceptFlag, PollDone, SyncsAt
<1>6. CASE FindReady(b) \/ WaitNext(b) \/ Quiet(b) \/ Timeout(b)
      BY <1>0, <1>6 DEF FindReady, WaitNext, Quiet, Timeout, PollTimeout,
                        FindTimeout, SyncsAt
<1>7. CASE \/ CloseJournal(b)
           \/ \E s \in Workers : PublishAck(b, s) \/ PublishCompletion(b, s)
      BY <1>0, <1>7 DEF CloseJournal, PublishAck, PublishCompletion, SyncsAt
<1> QED BY <1>1, <1>2, <1>3, <1>4, <1>5, <1>6, <1>7 DEF BlockStep

\* The rows of a block that steps: one more source, or a new task.
LEMMA GotStep ==
    ASSUME IInv, SlotInv, FetchInv', NEW b \in Blocks, GotInv(b),
           BlockStep(b) \/ Transfer(b) \/ Timeout(b)
    PROVE  GotInv(b)'
PROOF
<1>0. /\ fetched \in [Blocks -> [Workers -> Fetch]]
      /\ order \in [Blocks -> Seq(Workers)]
      /\ scan[b] \in Nat \ {0} /\ Len(order[b]) \in Nat
      /\ pc \in [Blocks -> PCs] /\ SyncsAt(b) /\ PlaceAt(b) /\ ReduceTypes
      BY DEF IInv, TypeOK, ReduceTypes, ControlTypes, ControlInv, BlockAt
<1>1. ASSUME UNCHANGED <<fetched, order, task>>, Fresh(b)' => Fresh(b),
             pc'[b] = "find" => pc[b] = "find"
      PROVE  GotInv(b)'
      BY <1>1 DEF GotInv, Got, FirstOf, CurChain
<1>2. CASE BeginTask(b)
  <2>1. pc[b] = "begin" /\ UNCHANGED <<fetched, order, task>>
        BY <1>2 DEF BeginTask
  <2>2. fetched[b] = Empty /\ order[b] = <<>> BY <2>1 DEF GotInv, Fresh
  <2>3. Got(b)' = {} /\ Len(order'[b]) = 0
        BY <2>1, <2>2 DEF Got, Empty
  <2>4. Cardinality({}) = 0 BY FS_EmptySet
  <2>5. FirstOf(b, 0)' = {} BY DEF FirstOf
  <2> QED BY <2>1, <2>2, <2>3, <2>4, <2>5 DEF GotInv
<1>3. ASSUME NEW w \in Workers, pc[b] = "find", pc'[b] = "find",
             UNCHANGED <<task, syncs>>, w \in Contributors(task[b]),
             fetched[b][w] = "none", IssueGet(b, w),
             AllTwo => w = NextInChain(b)
      PROVE  GotInv(b)'
  <2>1. /\ Got(b)' = Got(b) \cup {w}
        /\ Got(b)' \subseteq Contributors(task[b])
        /\ Len(order'[b]) = Len(order[b]) + 1
        /\ Cardinality(Got(b)') = Len(order'[b])
        BY <1>3, GotOneMore DEF GotInv
  <2>2. AllTwo => Got(b)' = FirstOf(b, Len(order[b]))'
    <3> SUFFICES ASSUME AllTwo PROVE Got(b)' = FirstOf(b, Len(order[b]))'
        OBVIOUS
    <3> DEFINE n == Len(order[b])
               c == CurChain(b)
    <3>1. CurChain(b)' = c BY <1>3 DEF CurChain
    <3>2. Got(b) = {c[i] : i \in 1 .. n} BY <1>3 DEF GotInv, FirstOf
    <3>3. w = c[n + 1] BY <1>3 DEF NextInChain
    <3>4. {c[i] : i \in 1 .. n} \cup {c[n + 1]} = {c[i] : i \in 1 .. n + 1}
      <4> HIDE DEF c, n
      <4>1. n \in Nat BY <1>0 DEF n
      <4>2. 1 .. n + 1 = (1 .. n) \cup {n + 1} BY <4>1
      <4> QED BY <4>2
    <3>5. FirstOf(b, Len(order[b]))' = {c[i] : i \in 1 .. n + 1}
          BY <2>1, <3>1 DEF FirstOf
    <3> QED BY <2>1, <3>2, <3>3, <3>4, <3>5
  <2>3. ~Fresh(b)' BY <1>0, <1>3 DEF Fresh, SyncsAt
  <2>4. \A v \in Workers : fetched'[b][v] \in {"none", "pending", "cur"}
    <3>1. fetched'[b][w] \in {"pending", "pendingjunk"}
          BY <1>0, <1>3 DEF IssueGet
    <3>2. fetched'[b][w] # "pendingjunk"
          BY <3>1 DEF FetchInv, BlockFetch
    <3> QED BY <1>0, <1>3, <3>1, <3>2 DEF IssueGet, GotInv
  <2> QED BY <1>3, <2>1, <2>2, <2>3, <2>4 DEF GotInv
<1>4. CASE FindReady(b)
  <2> DEFINE w == CurChain(b)[scan[b]]
  <2>1. pc[b] = "find" /\ ~AllTwo /\ UNCHANGED <<task, syncs>>
        BY <1>4 DEF FindReady
  <2>2. CASE UNCHANGED <<fetched, order>>
    <3>1. BlockStep(b) /\ ~BeginTask(b) /\ ~PutResult(b)
          BY <1>4 DEF BlockStep, FindReady, BeginTask, PutResult
    <3> QED BY <1>1, <2>1, <2>2, <3>1, FreshKept
  <2>3. CASE /\ scan[b] <= Len(CurChain(b)) /\ Unseen(b, w)
             /\ IssueGet(b, w) /\ UNCHANGED pc
    <3>1. w \in Workers BY <1>0, <2>1, <2>3, ChainType
    <3>2. w \in Contributors(task[b])
      <4>1. scan[b] \in 1 .. Len(CurChain(b)) BY <1>0, <2>1, <2>3, ChainType
      <4> QED BY <4>1 DEF Contributors, CurChain
    <3> QED BY <1>3, <2>1, <2>3, <3>1, <3>2 DEF Unseen
  <2> QED BY <1>4, <2>2, <2>3 DEF FindReady
<1>5. CASE WaitNext(b)
  <2> DEFINE w == NextInChain(b)
             n == Len(order[b])
  <2>1. pc[b] = "find" /\ AllTwo /\ More(b) /\ UNCHANGED <<task, syncs>>
        BY <1>5 DEF WaitNext
  <2>2. CASE UNCHANGED <<fetched, order>>
    <3>1. BlockStep(b) /\ ~BeginTask(b) /\ ~PutResult(b)
          BY <1>5 DEF BlockStep, WaitNext, BeginTask, PutResult
    <3> QED BY <1>1, <2>1, <2>2, <3>1, FreshKept
  <2>3. CASE IssueGet(b, w) /\ UNCHANGED pc
    <3>1. n + 1 \in 1 .. Len(CurChain(b))
          BY <1>0, <2>1, ChainType DEF More
    <3>2. w \in Workers BY <1>0, <2>1, <3>1, ChainType DEF NextInChain
    <3>3. w \in Contributors(task[b])
          BY <3>1 DEF NextInChain, Contributors, CurChain
    <3>4. fetched[b][w] = "none"
      <4>1. task[b] \div Tiles \in Accs BY <1>0, <2>1, ChainType, AccOfTask
      <4>2. \A i, j \in 1 .. Len(CurChain(b)) :
                CurChain(b)[i] = CurChain(b)[j] => i = j
            BY <4>1, ShapeAssumption DEF CurChain
      <4>3. \A i \in 1 .. n : i \in 1 .. Len(CurChain(b)) /\ i # n + 1
            BY <1>0, <2>1, ChainType DEF More
      <4>4. w \notin FirstOf(b, n)
            BY <3>1, <4>2, <4>3 DEF FirstOf, NextInChain
      <4>5. Got(b) = FirstOf(b, n) BY <2>1 DEF GotInv
      <4> QED BY <3>2, <4>4, <4>5 DEF Got
    <3> QED BY <1>3, <2>1, <2>3, <3>2, <3>3, <3>4
  <2> QED BY <1>5, <2>2, <2>3 DEF WaitNext
<1>6. CASE PutResult(b)
  <2>1. fetched'[b] = Empty /\ order'[b] = <<>> /\ pc'[b] = "begin"
        BY <1>0, <1>6 DEF PutResult, Goto
  <2> QED BY <2>1 DEF GotInv, Empty
<1>7. ASSUME NEW w \in Workers, LandGet(b, w) PROVE GotInv(b)'
  <2>1. /\ w \in Pending(b) /\ UNCHANGED <<pc, syncs, order, task>>
        /\ fetched' = [fetched EXCEPT ![b][w] =
                          IF @ = "pendingjunk" THEN "junk" ELSE slot[w]]
        BY <1>7 DEF LandGet
  <2>2. fetched[b][w] = "pending" BY <2>1 DEF Pending, GotInv
  <2>3. slot[w] = "cur"
        BY <2>1, FlightBeforeAcks DEF AckAfterTransfers, SlotInv
  <2>4. /\ fetched'[b][w] = "cur"
        /\ \A v \in Workers \ {w} : fetched'[b][v] = fetched[b][v]
        BY <1>0, <2>1, <2>2, <2>3
  <2>5. Got(b)' = Got(b) BY <2>2, <2>4 DEF Got
  <2>6. ~Fresh(b) BY <2>2 DEF GotInv, Empty
  <2> QED BY <2>1, <2>4, <2>5, <2>6 DEF GotInv, Fresh, FirstOf, CurChain
<1>8. ASSUME NEW p \in puts[b], LandPut(b, p) PROVE GotInv(b)'
      BY <1>1, <1>8 DEF LandPut, Fresh
<1>9. CASE Timeout(b)
      BY <1>1, <1>9, FreshKept DEF Timeout, PollTimeout, FindTimeout,
         reduceVars, BeginTask, PutResult
<1>10. ASSUME BlockStep(b), ~BeginTask(b), ~FindReady(b), ~WaitNext(b),
              ~PutResult(b)
       PROVE  GotInv(b)'
       BY <1>1, <1>10, FreshKept, DataKept DEF reduceVars
<1> QED BY <1>2, <1>4, <1>5, <1>6, <1>7, <1>8, <1>9, <1>10 DEF Transfer

-----------------------------------------------------------------------------
(* Tasks left behind. *)

\* A result that is in place stays so: what lands is exact too.
LEMMA ExactStays ==
    ASSUME IInv, \A c \in Blocks : DoneInv(c), [Next]_vars,
           NEW t \in Tasks, Exact(t)
    PROVE  Exact(t)'
PROOF
<1>0. result \in [Tasks -> [rows : [Workers -> Fetch], order : Seq(Workers)]]
      BY DEF IInv, TypeOK, OutTypes
<1>1. ASSUME UNCHANGED result PROVE Exact(t)' BY <1>1 DEF Exact
<1>2. ASSUME NEW b \in Blocks, NEW p \in puts[b], LandPut(b, p)
      PROVE  Exact(t)'
      BY <1>0, <1>2 DEF LandPut, DoneInv, Exact, ExactRows
<1>3. ASSUME NEW b \in Blocks, BlockStep(b) PROVE UNCHANGED result
      BY <1>3, DataKept DEF BeginTask, FindReady, WaitNext, PutResult, outVars
<1>4. ASSUME NEW b \in Blocks,
             Timeout(b) \/ \E w \in Workers : LandGet(b, w)
      PROVE  UNCHANGED result
      BY <1>4 DEF Timeout, PollTimeout, FindTimeout, LandGet, outVars
<1>5. CASE UNCHANGED <<blockVars, wordVars, outVars>>
      BY <1>1, <1>5 DEF outVars
<1> QED BY <1>1, <1>2, <1>3, <1>4, <1>5, StepIsOfOneBlock DEF Transfer

\* The tasks behind a block that steps are in place or on their way.
LEMMA DoneStep ==
    ASSUME IInv, \A c \in Blocks : DoneInv(c), [Next]_vars,
           NEW b \in Blocks, GotInv(b),
           BlockStep(b) \/ Transfer(b) \/ Timeout(b)
    PROVE  DoneInv(b)'
PROOF
<1>0. /\ DoneInv(b) /\ task \in [Blocks -> Nat]
      /\ puts \in [Blocks -> SUBSET Put]
      /\ result \in [Tasks -> [rows : [Workers -> Fetch], order : Seq(Workers)]]
      BY DEF IInv, TypeOK, ReduceTypes, OutTypes
<1>1. ASSUME UNCHANGED <<task, puts>> PROVE DoneInv(b)'
      BY <1>0, <1>1, ExactStays DEF DoneInv, ExactRows, Owns
<1>2. CASE PutResult(b)
  <2> DEFINE p == [task |-> task[b], rows |-> fetched[b], order |-> order[b]]
  <2>1. pc[b] = "find" /\ ~More(b) /\ Pending(b) = {} BY <1>2 DEF PutResult
  <2>2. task[b] \in Tasks /\ fetched[b] = ExactRows(task[b])
        BY <2>1, AllGotIsExact
  <2>3. task'[b] = task[b] + TaskStep /\ puts'[b] = puts[b] \cup {p}
        BY <1>0, <1>2 DEF PutResult
  <2>4. p.task = task[b] /\ p.rows = ExactRows(p.task) BY <2>2
  <2> HIDE DEF p
  <2>5. \A q \in puts'[b] : q.rows = ExactRows(q.task)
        BY <1>0, <2>3, <2>4 DEF DoneInv
  <2>6. /\ IF AllTwo THEN FirstTask(b) <= task'[b] ELSE task'[b] % NB = b
        /\ \A t \in Tasks : Owns(b, t) /\ t < task'[b] =>
               t < task[b] \/ t = task[b]
        BY <1>0, <2>3, NextTask DEF DoneInv
  <2>7. ASSUME NEW t \in Tasks, Owns(b, t), t < task'[b]
        PROVE  Exact(t)' \/ \E q \in puts'[b] : q.task = t
    <3>1. CASE t = task[b] BY <2>3, <2>4, <3>1
    <3>2. CASE t < task[b]
      <4>1. Exact(t) \/ \E q \in puts[b] : q.task = t
            BY <1>0, <2>7, <3>2 DEF DoneInv
      <4> QED BY <2>3, <4>1, ExactStays
    <3> QED BY <2>6, <2>7, <3>1, <3>2
  <2> QED BY <2>5, <2>6, <2>7 DEF DoneInv, ExactRows, Owns
<1>3. ASSUME NEW p \in puts[b], LandPut(b, p) PROVE DoneInv(b)'
  <2>1. UNCHANGED task /\ puts'[b] = puts[b] \ {p}
        BY <1>0, <1>3 DEF LandPut
  <2>2. p.task \in Tasks /\ p.rows = ExactRows(p.task)
        BY <1>0, <1>3 DEF DoneInv, Put
  <2>3. Exact(p.task)'
        BY <1>0, <1>3, <2>2 DEF LandPut, Exact, ExactRows
  <2>4. ASSUME NEW t \in Tasks, Owns(b, t), t < task[b]
        PROVE  Exact(t)' \/ \E q \in puts'[b] : q.task = t
    <3>1. CASE Exact(t) BY <3>1, ExactStays
    <3>2. ASSUME NEW q \in puts[b], q.task = t
          PROVE  Exact(t)' \/ \E r \in puts'[b] : r.task = t
      <4>1. CASE q = p BY <2>3, <3>2, <4>1
      <4>2. CASE q # p BY <2>1, <3>2, <4>2
      <4> QED BY <4>1, <4>2
    <3> QED BY <1>0, <2>4, <3>1, <3>2 DEF DoneInv
  <2> QED BY <1>0, <2>1, <2>4 DEF DoneInv, ExactRows, Owns
<1>4. CASE BlockStep(b) /\ ~PutResult(b)
      BY <1>1, <1>4, DataKept DEF BeginTask, FindReady, WaitNext, reduceVars
<1>5. CASE Timeout(b) \/ \E w \in Workers : LandGet(b, w)
      BY <1>1, <1>5 DEF Timeout, PollTimeout, FindTimeout, LandGet, reduceVars
<1> QED BY <1>2, <1>3, <1>4, <1>5 DEF Transfer

\* A block stops working with a failed status word or at the end of its
\* tasks.
LEMMA EndStep ==
    ASSUME IInv, [Next]_vars, NEW b \in Blocks, EndInv(b),
           BlockStep(b) \/ Transfer(b) \/ Timeout(b)
    PROVE  EndInv(b)'
PROOF
<1> USE DEF Goto, Arrive, EndInv, Stopped, reduceVars, wordVars
<1>0. /\ pc \in [Blocks -> PCs] /\ syncs \in [Blocks -> 0 .. 4]
      /\ SyncsAt(b) /\ PlaceAt(b) /\ pc[b] \in PCs /\ syncs[b] \in 0 .. 4
      BY DEF IInv, TypeOK, ControlTypes, ControlInv, BlockAt
<1>1. status # "OK" => status' # "OK" BY FailureStaysStep
<1>2. CASE BeginTask(b)
      BY <1>0, <1>1, <1>2 DEF BeginTask
<1>3. CASE FindReady(b) \/ WaitNext(b)
      BY <1>0, <1>1, <1>3 DEF FindReady, WaitNext
<1>4. CASE PutResult(b) BY <1>0, <1>1, <1>4 DEF PutResult
<1>5. CASE Transfer(b) BY <1>0, <1>1, <1>5 DEF Transfer, LandGet, LandPut
<1>6. CASE Timeout(b)
      BY <1>0, <1>1, <1>6 DEF Timeout, PollTimeout, FindTimeout
<1>7. CASE Prelude(b) BY <1>0, <1>1, <1>7 DEF Prelude
<1>8. CASE LeaveBarrier(b) BY <1>0, <1>1, <1>8 DEF LeaveBarrier
<1>9. CASE ReadStatus(b) BY <1>0, <1>1, <1>9 DEF ReadStatus
<1>10. CASE ValidateIndex(b) BY <1>0, <1>1, <1>10 DEF ValidateIndex
<1>11. CASE SetFailureRead(b)
       BY <1>0, <1>1, <1>11 DEF SetFailureRead, AfterFailure
<1>12. CASE SetFailureWrite(b)
       BY <1>0, <1>1, <1>12 DEF SetFailureWrite, AfterFailure, PlaceAt
<1>13. CASE MarkIndexDone(b) \/ StoreIndexDone(b)
       BY <1>0, <1>1, <1>13 DEF MarkIndexDone, StoreIndexDone
<1>14. CASE (\E s \in Workers : PollSource(b, s)) \/ AcceptOffset(b)
            \/ AcceptFlag(b) \/ PollDone(b)
       BY <1>0, <1>1, <1>14 DEF PollSource, AcceptOffset, AcceptFlag, PollDone
<1>15. CASE Quiet(b) BY <1>0, <1>1, <1>15 DEF Quiet, SyncsAt
<1>16. CASE CloseJournal(b) BY <1>0, <1>1, <1>16 DEF CloseJournal
<1>17. CASE \E s \in Workers : PublishAck(b, s) \/ PublishCompletion(b, s)
       BY <1>0, <1>1, <1>17 DEF PublishAck, PublishCompletion
<1> QED BY <1>2, <1>3, <1>4, <1>5, <1>6, <1>7, <1>8, <1>9, <1>10, <1>11,
           <1>12, <1>13, <1>14, <1>15, <1>16, <1>17 DEF BlockStep

\* The parts of the invariant that speak of one block are kept.
LEMMA NextBlocks ==
    ASSUME RInv, [Next]_vars, FetchInv', NEW c \in Blocks
    PROVE  GotInv(c)' /\ DoneInv(c)' /\ EndInv(c)'
PROOF
<1>0. /\ IInv /\ SlotInv /\ GotInv(c) /\ EndInv(c)
      /\ \A b \in Blocks : DoneInv(b)
      BY DEF RInv, VInv
<1>1. ASSUME pc'[c] = pc[c], syncs'[c] = syncs[c], task'[c] = task[c],
             fetched'[c] = fetched[c], order'[c] = order[c], puts'[c] = puts[c]
      PROVE  GotInv(c)' /\ DoneInv(c)' /\ EndInv(c)'
  <2>1. GotInv(c)'
        BY <1>0, <1>1 DEF GotInv, Got, Fresh, FirstOf, CurChain
  <2>2. DoneInv(c)'
        BY <1>0, <1>1, ExactStays DEF DoneInv, ExactRows, Owns
  <2>3. EndInv(c)' BY <1>0, <1>1, FailureStaysStep DEF EndInv
  <2> QED BY <2>1, <2>2, <2>3
<1>2. CASE UNCHANGED <<blockVars, wordVars, outVars>>
      BY <1>1, <1>2 DEF blockVars
<1>3. ASSUME NEW b \in Blocks, BlockStep(b) \/ Transfer(b) \/ Timeout(b),
             OthersKept(b)
      PROVE  GotInv(c)' /\ DoneInv(c)' /\ EndInv(c)'
  <2>1. CASE b = c BY <1>0, <1>3, <2>1, GotStep, DoneStep, EndStep
  <2>2. CASE b # c BY <1>0, <1>1, <1>3, <2>2, OrderKept DEF OthersKept
  <2> QED BY <2>1, <2>2
<1> QED BY <1>0, <1>2, <1>3, StepIsOfOneBlock

\* At the close of a successful launch every block has arrived at the last
\* SyncAll with its tasks done and nothing in flight.
LEMMA CloseIsExact ==
    ASSUME RInv, pc[0] = "final", status = "OK", NEW t \in Tasks
    PROVE  Exact(t)
PROOF
<1>1. PICK b \in Blocks : Owns(b, t) /\ t < EndTask(b) BY EveryTaskOwned
<1>2. /\ SyncsAt(0) /\ Left(0) <= syncs[b] /\ SyncsAt(b) /\ FlightAt(b)
      /\ syncs[b] \in 0 .. 4 /\ pc[b] \in PCs /\ task[b] \in Nat
      BY BlockZero DEF RInv, VInv, IInv, ControlInv, BlockAt, BarrierInv,
         TypeOK, ControlTypes, ReduceTypes
<1>3. syncs[0] = 4
      BY <1>2, BlockZero DEF RInv, EndInv, Stopped, SyncsAt
<1>4. syncs[b] = 4 BY <1>2, <1>3 DEF Left, Bars
<1>5. pc[b] \in Stopped /\ puts[b] = {}
      BY <1>2, <1>4 DEF SyncsAt, FlightAt, PCs, Stopped
<1>6. task[b] >= EndTask(b) BY <1>5 DEF RInv, EndInv
<1>7. t < task[b] BY <1>1, <1>2, <1>6, TaskRange DEF Tasks
<1> QED BY <1>1, <1>5, <1>7 DEF RInv, DoneInv

\* What a successful close found is still true afterwards.
LEMMA NextFinal ==
    ASSUME RInv, [Next]_vars
    PROVE  FinalInv'
PROOF
<1>0. IInv /\ JournalInv /\ FinalInv /\ \A c \in Blocks : DoneInv(c)
      BY DEF RInv, VInv
<1>1. CASE Prelude(0) BY <1>0, <1>1, PreludeJudges DEF FinalInv
<1>2. CASE CloseJournal(0)
  <2>1. pc[0] = "final" /\ (final' = "OK" => status = "OK")
        BY <1>2 DEF CloseJournal
  <2> QED BY <1>0, <2>1, CloseIsExact, ExactStays DEF FinalInv
<1>3. CASE RecordsKept
      BY <1>0, <1>3, ExactStays DEF RecordsKept, FinalInv
<1> QED BY <1>0, <1>1, <1>2, <1>3, JournalSteps

\* The invariant holds initially ...
LEMMA InitRInv == Init => RInv
PROOF
<1> SUFFICES ASSUME Init PROVE RInv OBVIOUS
<1>1. VInv BY InitVInv
<1>2. SlotInv BY DEF Init, SlotInv
<1>3. FinalInv BY BlockZero DEF Init, FinalInv, Closed
<1>4. ASSUME NEW b \in Blocks PROVE GotInv(b) /\ DoneInv(b) /\ EndInv(b)
  <2>1. GotInv(b) BY DEF Init, GotInv, Empty
  <2>2. EndInv(b) BY DEF Init, EndInv, Stopped
  <2>3. IF AllTwo THEN FirstTask(b) <= task[b] ELSE task[b] % NB = b
    <3>1. task[b] = FirstTask(b) /\ FirstTask(b) \in Nat
          BY TaskRange DEF Init
    <3>2. b % NB = b
      <4>1. b \in Nat /\ NB \in Nat /\ b < NB BY ShapeAssumption DEF Blocks
      <4> QED BY <4>1
    <3> QED BY <3>1, <3>2 DEF FirstTask
  <2>4. ASSUME NEW t \in Tasks, Owns(b, t), t < task[b] PROVE FALSE
    <3>1. task[b] = FirstTask(b) /\ FirstTask(b) \in Nat /\ t \in Nat
          BY TaskRange DEF Init, Tasks
    <3>2. CASE AllTwo BY <2>4, <3>1, <3>2 DEF Owns
    <3>3. CASE ~AllTwo
      <4>1. t % NB = b /\ t < b /\ b \in Nat /\ b < NB /\ NB \in Nat
            BY <2>4, <3>1, <3>3, ShapeAssumption DEF Owns, FirstTask, Blocks
      <4>2. t % NB = t BY <3>1, <4>1
      <4> QED BY <3>1, <4>1, <4>2
    <3> QED BY <3>2, <3>3
  <2>5. puts[b] = {} BY DEF Init
  <2> QED BY <2>1, <2>2, <2>3, <2>4, <2>5 DEF DoneInv
<1> QED BY <1>1, <1>2, <1>3, <1>4 DEF RInv

\* ... and is kept by every step.
LEMMA NextRInv == RInv /\ [Next]_vars => RInv'
PROOF
<1> SUFFICES ASSUME RInv, [Next]_vars PROVE RInv' OBVIOUS
<1>1. VInv' BY NextVInv DEF RInv
<1>2. SlotInv' BY NextSlot DEF RInv, VInv
<1>3. FinalInv' BY NextFinal
<1>4. \A c \in Blocks : GotInv(c)' /\ DoneInv(c)' /\ EndInv(c)'
      BY <1>1, NextBlocks DEF VInv
<1> QED BY <1>1, <1>2, <1>3, <1>4 DEF RInv

-----------------------------------------------------------------------------
(* The theorems. *)

\* The invariant of the results is an invariant of the kernel.
THEOREM ResultInvariant == Spec => []RInv
PROOF
<1>1. Init => RInv BY InitRInv
<1>2. RInv /\ [Next]_vars => RInv' BY NextRInv
<1> QED BY <1>1, <1>2, PTL DEF Spec

\* A completion that says OK is published only when every row of that owner
\* is in place and is the sum of exactly its journal contributors of this
\* wave: for any number of workers, blocks, accumulators and tiles, any
\* reduction chains, on either path, and however blocks, transfers and slot
\* reuse interleave.
THEOREM CompletionsAreExact == Spec => []CompletionIsExact
PROOF
<1>1. RInv => CompletionIsExact
  <2> SUFFICES ASSUME RInv, NEW o \in Workers, completion[o] = "OK",
                      NEW t \in Tasks
               PROVE  Exact(t)
      BY DEF CompletionIsExact
  <2>1. Closed /\ final = "OK" BY DEF RInv, VInv, JournalInv
  <2> QED BY <2>1 DEF RInv, FinalInv
<1> QED BY <1>1, ResultInvariant, PTL

=============================================================================
