------------------------- MODULE CombineKernelProofs -------------------------
(***************************************************************************)
(* Proofs about CombineKernel, for every number of workers, blocks, tiles   *)
(* and every reduction plan.                                                *)
(***************************************************************************)
EXTENDS CombineKernel, TLAPS

Bars == {"bar1", "bar2", "bar3", "bar4"}

\* The SyncAlls a block has been let out of.
Left(b) == IF pc[b] \in Bars THEN syncs[b] - 1 ELSE syncs[b]

\* How many SyncAlls a block has arrived at, by where it is.  "bar4" and what
\* follows is reached from the first status check, the third SyncAll's check
\* or the end of the work.
SyncsAt(b) ==
    /\ pc[b] = "prelude" => syncs[b] = 0
    /\ pc[b] \in {"bar1", "read1", "validate"} => syncs[b] = 1
    /\ pc[b] \in {"failread", "failwrite"} => syncs[b] \in {1, 3}
    /\ pc[b] \in {"bar2", "mark", "markstore"} => syncs[b] = 2
    /\ pc[b] \in {"bar3", "read3", "poll", "offset", "flag", "begin", "find",
                  "quiet"} => syncs[b] = 3
    /\ pc[b] \in {"bar4", "final", "acks", "completions", "done"} =>
           syncs[b] \in {2, 4}

\* Only block 0 marks the index, closes the journal and publishes; a
\* SetFailure in progress has a failure to report; a search has a task.
PlaceAt(b) ==
    /\ pc[b] \in {"markstore", "final", "acks", "completions"} => b = 0
    /\ pc[b] \in {"failread", "failwrite"} => failure[b] # "OK"
    /\ pc[b] = "find" => task[b] < EndTask(b)

\* Transfers are in flight only between the third and the last SyncAll.
FlightAt(b) ==
    Pending(b) # {} \/ puts[b] # {} =>
        /\ syncs[b] = 3
        /\ pc[b] \in {"begin", "find", "quiet", "failread", "failwrite"}

BlockAt(b) == SyncsAt(b) /\ PlaceAt(b) /\ FlightAt(b)

ControlInv == \A b \in Blocks : BlockAt(b)

\* Nobody has left a SyncAll that somebody has not arrived at.
BarrierInv == \A b, c \in Blocks : Left(b) <= syncs[c]

\* Before block 0 has started nobody has failed; nobody writes the status
\* word between block 0's load and store of its cacheline; the records are
\* published by block 0.
WordInv ==
    /\ pc[0] = "prelude" => status = "OK"
    /\ pc[0] = "markstore" => line = status
    /\ (\E w \in Workers : ack[w] # "none") =>
           pc[0] \in {"acks", "completions", "done"}

IInv == TypeOK /\ ControlInv /\ BarrierInv /\ WordInv

-----------------------------------------------------------------------------
(* Arithmetic of the task partition. *)

\* A task number divided by the tiles of a row is an accumulator.
LEMMA AccOfTask ==
    ASSUME NEW t \in Tasks
    PROVE  t \div Tiles \in Accs
PROOF
<1> DEFINE q == t \div Tiles
<1>1. NA \in Nat /\ Tiles \in Nat \ {0} /\ t \in Nat /\ t < NA * Tiles
      BY ShapeAssumption DEF Tasks
<1>2. q \in Nat /\ q * Tiles <= t
      BY <1>1
<1>3. ~ (q >= NA)
  <2> SUFFICES ASSUME q >= NA PROVE FALSE OBVIOUS
  <2>1. q * Tiles >= NA * Tiles BY <1>1, <1>2
  <2> QED BY <2>1, <1>1, <1>2
<1> QED BY <1>1, <1>2, <1>3 DEF Accs

\* The range of tasks of a block stays inside the launch's tasks.
LEMMA TaskRange ==
    ASSUME NEW b \in Blocks
    PROVE  /\ FirstTask(b) \in Nat /\ EndTask(b) \in Nat /\ TaskStep \in Nat
           /\ EndTask(b) <= NA * Tiles
PROOF
<1>1. NA \in Nat /\ Tiles \in Nat /\ NB \in Nat \ {0} /\ b \in Nat /\ b < NB
      BY ShapeAssumption DEF Blocks
<1>2. TotalTasks \in Nat
      BY <1>1 DEF TotalTasks
<1>3. /\ Share \in Nat /\ Extra \in Nat
      /\ TotalTasks = NB * Share + Extra
      BY <1>1, <1>2 DEF Share, Extra
<1>4. CASE ~AllTwo
      BY <1>1, <1>2, <1>4 DEF FirstTask, EndTask, TaskStep, TotalTasks
<1>5. CASE AllTwo
  <2>1. Share * b \in Nat /\ Share * b + Share <= NB * Share
    <3>1. Share * (b + 1) <= Share * NB BY <1>1, <1>3
    <3>2. Share * (b + 1) = Share * b + Share BY <1>1, <1>3
    <3>3. Share * b \in Nat BY <1>1, <1>3
    <3> QED BY <3>1, <3>2, <3>3, <1>1, <1>3
  <2> DEFINE p == Share * b
  <2>2. /\ FirstTask(b) = p + (IF b < Extra THEN b ELSE Extra)
        /\ EndTask(b) = FirstTask(b) + Share + (IF b < Extra THEN 1 ELSE 0)
        /\ TaskStep = 1
        BY <1>5 DEF FirstTask, EndTask, TaskStep
  <2> HIDE DEF p
  <2>3. p \in Nat /\ p + Share <= TotalTasks - Extra
        BY <2>1, <1>1, <1>2, <1>3 DEF p
  <2> QED BY <2>2, <2>3, <1>1, <1>2, <1>3 DEF TotalTasks
<1> QED BY <1>4, <1>5

-----------------------------------------------------------------------------
(* Type correctness. *)

\* A step that leaves a group of variables alone keeps its types.
LEMMA TypeFrame ==
    /\ WorkerTypes /\ UNCHANGED <<launch, workerVars>> => WorkerTypes'
    /\ ControlTypes /\ UNCHANGED <<pc, syncs, failure, target>> => ControlTypes'
    /\ ReduceTypes /\ UNCHANGED reduceVars => ReduceTypes'
    /\ WordTypes /\ UNCHANGED wordVars => WordTypes'
    /\ OutTypes /\ UNCHANGED outVars => OutTypes'
PROOF
<1>1. WorkerTypes /\ UNCHANGED <<launch, workerVars>> => WorkerTypes'
      BY DEF WorkerTypes, workerVars
<1>2. ControlTypes /\ UNCHANGED <<pc, syncs, failure, target>> => ControlTypes'
      BY DEF ControlTypes
<1>3. ReduceTypes /\ UNCHANGED reduceVars => ReduceTypes'
      BY DEF ReduceTypes, reduceVars
<1>4. WordTypes /\ UNCHANGED wordVars => WordTypes'
      BY DEF WordTypes, wordVars
<1>5. OutTypes /\ UNCHANGED outVars => OutTypes'
      BY DEF OutTypes, outVars
<1> QED BY <1>1, <1>2, <1>3, <1>4, <1>5

\* The initial states have the types of TypeOK.
LEMMA InitType == Init => TypeOK
PROOF
<1> SUFFICES ASSUME Init PROVE TypeOK OBVIOUS
<1>1. WorkerTypes BY DEF Init, WorkerTypes
<1>2. ControlTypes
      BY ShapeAssumption DEF Init, ControlTypes, PCs, Statuses, Workers
<1>3. ReduceTypes
  <2>1. task \in [Blocks -> Nat] BY TaskRange DEF Init
  <2> QED BY <2>1 DEF Init, ReduceTypes, Empty, Fetch
<1>4. WordTypes
  <2>1. journal \in JournalStates BY LaunchAssumption DEF Init
  <2> QED BY <2>1 DEF Init, WordTypes, Statuses
<1>5. OutTypes BY DEF Init, OutTypes, NoRow, Empty, Fetch
<1> QED BY <1>1, <1>2, <1>3, <1>4, <1>5 DEF TypeOK

\* A block in "find" has a task of the launch, and its chain.
LEMMA ChainType ==
    ASSUME ReduceTypes, NEW b \in Blocks, pc[b] = "find", PlaceAt(b)
    PROVE  /\ task[b] \in Tasks
           /\ CurChain(b) \in Seq(Workers)
           /\ Len(CurChain(b)) \in Nat
           /\ \A i \in 1 .. Len(CurChain(b)) : CurChain(b)[i] \in Workers
PROOF
<1>1. task[b] \in Nat /\ task[b] < EndTask(b) BY DEF ReduceTypes, PlaceAt
<1>2. task[b] \in Tasks BY <1>1, TaskRange, ShapeAssumption DEF Tasks
<1>3. CurChain(b) \in Seq(Workers)
      BY <1>2, AccOfTask, ShapeAssumption DEF CurChain
<1> QED BY <1>2, <1>3

\* Issuing the GET of a worker keeps the types of what it changes.
LEMMA IssueGetType ==
    ASSUME ReduceTypes, NEW b \in Blocks, NEW w \in Workers, IssueGet(b, w),
           UNCHANGED <<task, puts>>
    PROVE  ReduceTypes'
PROOF
BY DEF ReduceTypes, IssueGet, Fetch

\* A step of FindReadyContributor keeps the types.
LEMMA FindReadyType ==
    ASSUME ReduceTypes, NEW b \in Blocks, PlaceAt(b), FindReady(b)
    PROVE  ReduceTypes'
PROOF
<1>1. pc[b] = "find" /\ UNCHANGED <<task, puts>> BY DEF FindReady
<1>2. scan[b] \in Nat \ {0} BY DEF ReduceTypes
<1>3. CASE scan[b] <= Len(CurChain(b))
  <2> DEFINE w == CurChain(b)[scan[b]]
  <2>1. w \in Workers BY <1>1, <1>2, <1>3, ChainType
  <2>2. CASE Unseen(b, w) /\ srcReady[w]
    <3>1. IssueGet(b, w) BY <1>3, <2>2 DEF FindReady
    <3> QED BY <3>1, <2>1, <1>1, IssueGetType
  <2>3. CASE ~ (Unseen(b, w) /\ srcReady[w])
    <3>1. UNCHANGED <<fetched, order>> /\ scan' = [scan EXCEPT ![b] = @ + 1]
          BY <1>3, <2>3 DEF FindReady
    <3> QED BY <3>1, <1>1 DEF ReduceTypes
  <2> QED BY <2>2, <2>3
<1>4. CASE ~ (scan[b] <= Len(CurChain(b)))
  <2>1. UNCHANGED <<fetched, order>> /\ scan' = [scan EXCEPT ![b] = 1]
        BY <1>4 DEF FindReady
  <2> QED BY <2>1, <1>1 DEF ReduceTypes
<1> QED BY <1>3, <1>4

\* A step of WaitSourceReady keeps the types.
LEMMA WaitNextType ==
    ASSUME ReduceTypes, NEW b \in Blocks, PlaceAt(b), WaitNext(b)
    PROVE  ReduceTypes'
PROOF
<1>1. pc[b] = "find" /\ More(b) /\ UNCHANGED <<task, puts>> BY DEF WaitNext
<1>2. Len(order[b]) \in Nat BY DEF ReduceTypes
<1>3. NextInChain(b) \in Workers
      BY <1>1, <1>2, ChainType DEF More, NextInChain
<1>4. CASE srcReady[NextInChain(b)]
      BY <1>1, <1>3, <1>4, IssueGetType DEF WaitNext
<1>5. CASE ~srcReady[NextInChain(b)]
      BY <1>1, <1>5 DEF ReduceTypes, WaitNext
<1> QED BY <1>4, <1>5

\* Putting a result keeps the types: the task is one of the launch.
LEMMA PutResultType ==
    ASSUME ReduceTypes, NEW b \in Blocks, PlaceAt(b), PutResult(b)
    PROVE  ReduceTypes'
PROOF
<1>1. pc[b] = "find" BY DEF PutResult
<1>2. task[b] \in Tasks /\ TaskStep \in Nat BY <1>1, ChainType, TaskRange
<1>3. [task |-> task[b], rows |-> fetched[b], order |-> order[b]] \in Put
      BY <1>2 DEF ReduceTypes, Put
<1>4. puts' \in [Blocks -> SUBSET Put] BY <1>3 DEF ReduceTypes, PutResult
<1>5. task' \in [Blocks -> Nat] BY <1>2 DEF ReduceTypes, PutResult
<1>6. fetched' \in [Blocks -> [Workers -> Fetch]]
      BY DEF ReduceTypes, PutResult, Empty, Fetch
<1> QED BY <1>4, <1>5, <1>6 DEF ReduceTypes, PutResult

\* Every step of a block keeps the types; the relation between place and
\* SyncAlls is needed for the bound on syncs, and the task of a search for
\* the chain it walks.
LEMMA BlockType ==
    ASSUME TypeOK, NEW b \in Blocks, SyncsAt(b), PlaceAt(b), BlockStep(b)
    PROVE  TypeOK'
PROOF
<1> USE DEF TypeOK, Goto, Arrive, reduceVars, workerVars, wordVars, outVars
<1>1. CASE Prelude(b)
  <2>1. ControlTypes' BY <1>1 DEF ControlTypes, Prelude, SyncsAt, PCs
  <2>2. WordTypes'
    <3>1. launch.planVerdict \in Statuses
          BY LaunchAssumption DEF WorkerTypes
    <3>2. status' \in Statuses
          BY <1>1, <3>1 DEF WordTypes, Prelude, Statuses
    <3>3. journal' \in JournalStates
          BY <1>1 DEF WordTypes, Prelude, JournalStates
    <3>4. srcReady' \in [Workers -> BOOLEAN]
          BY <1>1 DEF WordTypes, Prelude
    <3>5. srcOffset' \in [Workers -> {"junk", "slot"}]
          BY <1>1 DEF WordTypes, Prelude
    <3>6. UNCHANGED <<line, final>> BY <1>1 DEF Prelude
    <3> QED BY <3>2, <3>3, <3>4, <3>5, <3>6 DEF WordTypes
  <2> QED BY <1>1, <2>1, <2>2, TypeFrame DEF TypeOK, Prelude
<1>2. CASE LeaveBarrier(b)
  <2>1. ControlTypes' BY <1>2 DEF ControlTypes, LeaveBarrier, SyncsAt, PCs
  <2> QED BY <1>2, <2>1, TypeFrame DEF TypeOK, LeaveBarrier
<1>3. CASE ReadStatus(b)
  <2>1. ControlTypes' BY <1>3 DEF ControlTypes, ReadStatus, SyncsAt, PCs
  <2> QED BY <1>3, <2>1, TypeFrame DEF TypeOK, ReadStatus
<1>4. CASE ValidateIndex(b)
  <2>1. ControlTypes' BY <1>4 DEF ControlTypes, ValidateIndex, SyncsAt, PCs,
        Statuses
  <2> QED BY <1>4, <2>1, TypeFrame DEF TypeOK, ValidateIndex
<1>5. CASE SetFailureRead(b)
  <2>1. ControlTypes' BY <1>5 DEF ControlTypes, SetFailureRead, AfterFailure,
        SyncsAt, PCs
  <2> QED BY <1>5, <2>1, TypeFrame DEF TypeOK, SetFailureRead
<1>6. CASE SetFailureWrite(b)
  <2>1. ControlTypes' BY <1>6 DEF ControlTypes, SetFailureWrite, AfterFailure,
        SyncsAt, PCs
  <2>2. WordTypes' BY <1>6 DEF WordTypes, ControlTypes, SetFailureWrite
  <2> QED BY <1>6, <2>1, <2>2, TypeFrame DEF TypeOK, SetFailureWrite
<1>7. CASE MarkIndexDone(b)
  <2>1. ControlTypes' BY <1>7 DEF ControlTypes, MarkIndexDone, SyncsAt, PCs
  <2>2. WordTypes' BY <1>7 DEF WordTypes, MarkIndexDone
  <2> QED BY <1>7, <2>1, <2>2, TypeFrame DEF TypeOK, MarkIndexDone
<1>8. CASE StoreIndexDone(b)
  <2>1. ControlTypes' BY <1>8 DEF ControlTypes, StoreIndexDone, SyncsAt, PCs
  <2>2. WordTypes' BY <1>8 DEF WordTypes, StoreIndexDone
  <2> QED BY <1>8, <2>1, <2>2, TypeFrame DEF TypeOK, StoreIndexDone
<1>9. CASE \E s \in Workers : PollSource(b, s)
  <2>1. ControlTypes'
    <3>1. PICK s \in Workers : PollSource(b, s) BY <1>9
    <3>2. pub[s].verdict \in Statuses
          BY LaunchAssumption DEF WorkerTypes
    <3>3. ReadyVerdict(s) \in Statuses
          BY <3>2 DEF ReadyVerdict, Statuses
    <3> QED BY <3>1, <3>3 DEF ControlTypes, PollSource, PCs
  <2> QED BY <1>9, <2>1, TypeFrame DEF TypeOK, PollSource
<1>10. CASE AcceptOffset(b)
  <2>1. ControlTypes' BY <1>10 DEF ControlTypes, AcceptOffset, SyncsAt, PCs
  <2>2. WordTypes' BY <1>10 DEF WordTypes, ControlTypes, AcceptOffset
  <2> QED BY <1>10, <2>1, <2>2, TypeFrame DEF TypeOK, AcceptOffset
<1>11. CASE AcceptFlag(b)
  <2>1. ControlTypes' BY <1>11 DEF ControlTypes, AcceptFlag, SyncsAt, PCs
  <2>2. WordTypes' BY <1>11 DEF WordTypes, ControlTypes, AcceptFlag
  <2> QED BY <1>11, <2>1, <2>2, TypeFrame DEF TypeOK, AcceptFlag
<1>12. CASE PollDone(b)
  <2>1. ControlTypes' BY <1>12 DEF ControlTypes, PollDone, SyncsAt, PCs
  <2> QED BY <1>12, <2>1, TypeFrame DEF TypeOK, PollDone
<1>13. CASE BeginTask(b)
  <2>1. ControlTypes' BY <1>13 DEF ControlTypes, BeginTask, SyncsAt, PCs
  <2>2. ReduceTypes' BY <1>13 DEF ReduceTypes, BeginTask
  <2> QED BY <1>13, <2>1, <2>2, TypeFrame DEF TypeOK, BeginTask
<1>14. CASE FindReady(b)
  <2>1. ControlTypes' BY <1>14 DEF ControlTypes, FindReady, SyncsAt, PCs
  <2>2. ReduceTypes' BY <1>14, FindReadyType DEF TypeOK
  <2> QED BY <1>14, <2>1, <2>2, TypeFrame DEF TypeOK, FindReady
<1>15. CASE WaitNext(b)
  <2>1. ControlTypes' BY <1>15 DEF ControlTypes, WaitNext, SyncsAt, PCs
  <2>2. ReduceTypes' BY <1>15, WaitNextType DEF TypeOK
  <2> QED BY <1>15, <2>1, <2>2, TypeFrame DEF TypeOK, WaitNext
<1>16. CASE PutResult(b)
  <2>1. ControlTypes' BY <1>16 DEF ControlTypes, PutResult, SyncsAt, PCs
  <2>2. ReduceTypes' BY <1>16, PutResultType DEF TypeOK
  <2> QED BY <1>16, <2>1, <2>2, TypeFrame DEF TypeOK, PutResult
<1>17. CASE Quiet(b)
  <2>1. ControlTypes' BY <1>17 DEF ControlTypes, Quiet, SyncsAt, PCs
  <2> QED BY <1>17, <2>1, TypeFrame DEF TypeOK, Quiet
<1>18. CASE CloseJournal(b)
  <2>1. ControlTypes' BY <1>18 DEF ControlTypes, CloseJournal, SyncsAt, PCs
  <2>2. WordTypes' BY <1>18 DEF WordTypes, CloseJournal, Statuses, JournalStates
  <2> QED BY <1>18, <2>1, <2>2, TypeFrame DEF TypeOK, CloseJournal
<1>19. CASE \E s \in Workers : PublishAck(b, s)
  <2>1. ControlTypes' BY <1>19 DEF ControlTypes, PublishAck, SyncsAt, PCs
  <2>2. OutTypes' BY <1>19 DEF OutTypes, WordTypes, PublishAck
  <2> QED BY <1>19, <2>1, <2>2, TypeFrame DEF TypeOK, PublishAck
<1>20. CASE \E s \in Workers : PublishCompletion(b, s)
  <2>1. ControlTypes' BY <1>20 DEF ControlTypes, PublishCompletion, SyncsAt, PCs
  <2>2. OutTypes' BY <1>20 DEF OutTypes, WordTypes, PublishCompletion
  <2> QED BY <1>20, <2>1, <2>2, TypeFrame DEF TypeOK, PublishCompletion
<1> QED BY <1>1, <1>2, <1>3, <1>4, <1>5, <1>6, <1>7, <1>8, <1>9, <1>10, <1>11,
      <1>12, <1>13, <1>14, <1>15, <1>16, <1>17, <1>18, <1>19, <1>20
            DEF BlockStep

\* Every step keeps the types.
LEMMA NextType ==
    ASSUME TypeOK, ControlInv, [Next]_vars
    PROVE  TypeOK'
PROOF
<1> USE DEF TypeOK, workerVars, blockVars, reduceVars, wordVars, outVars
<1>1. ASSUME UNCHANGED vars PROVE TypeOK'
      BY <1>1, TypeFrame DEF vars
<1>2. ASSUME NEW w \in Workers, WorkerStep(w) \/ ReuseSlot(w) PROVE TypeOK'
  <2>1. WorkerTypes'
        BY <1>2 DEF WorkerTypes, WorkerStep, PutReady, PutNotice, ReuseSlot
  <2> QED BY <1>2, <2>1, TypeFrame
          DEF WorkerStep, PutReady, PutNotice, ReuseSlot
<1>3. ASSUME NEW b \in Blocks, BlockStep(b) PROVE TypeOK'
      BY <1>3, BlockType DEF ControlInv, BlockAt
<1>4. ASSUME NEW b \in Blocks, Transfer(b) PROVE TypeOK'
  <2>1. CASE \E w \in Workers : LandGet(b, w)
    <3>1. ReduceTypes' BY <2>1 DEF ReduceTypes, WorkerTypes, LandGet, Fetch
    <3> QED BY <2>1, <3>1, TypeFrame DEF LandGet
  <2>2. CASE \E p \in puts[b] : LandPut(b, p)
    <3>1. ReduceTypes' BY <2>2 DEF ReduceTypes, LandPut
    <3>2. OutTypes' BY <2>2 DEF OutTypes, ReduceTypes, LandPut, Put
    <3> QED BY <2>2, <3>1, <3>2, TypeFrame DEF LandPut
  <2> QED BY <1>4, <2>1, <2>2 DEF Transfer
<1>5. ASSUME NEW b \in Blocks, Timeout(b) PROVE TypeOK'
  <2>1. ControlTypes'
        BY <1>5 DEF ControlTypes, Timeout, PollTimeout, FindTimeout, Goto,
                    PCs, Statuses
  <2> QED BY <1>5, <2>1, TypeFrame DEF Timeout, PollTimeout, FindTimeout
<1> QED BY <1>1, <1>2, <1>3, <1>4, <1>5 DEF Next

-----------------------------------------------------------------------------
(* The SyncAlls order the phases. *)

\* What a step of block b may do to the control state: the other blocks are
\* left alone, arrivals are never taken back, and b leaves a SyncAll only
\* when everybody has arrived at it.
OthersKept(b) ==
    \A c \in Blocks \ {b} :
        /\ pc'[c] = pc[c] /\ syncs'[c] = syncs[c] /\ failure'[c] = failure[c]
        /\ task'[c] = task[c] /\ fetched'[c] = fetched[c] /\ puts'[c] = puts[c]

ArrivalKept(b) ==
    /\ syncs[b] <= syncs'[b]
    /\ \/ Left(b)' = Left(b)
       \/ \A c \in Blocks : Left(b)' <= syncs[c]

BlockShape(b) == OthersKept(b) /\ ArrivalKept(b) /\ BlockAt(b)'

\* Every step of a block has that shape.
LEMMA BlockStepShape ==
    ASSUME TypeOK, NEW b \in Blocks, BlockAt(b), BlockStep(b)
    PROVE  BlockShape(b)
PROOF
<1> USE DEF TypeOK, ControlTypes, ReduceTypes, Goto, Arrive, Left, Bars,
            reduceVars
<1>0. /\ pc[b] \in PCs /\ syncs[b] \in 0 .. 4
      /\ SyncsAt(b) /\ PlaceAt(b) /\ FlightAt(b)
      BY DEF BlockAt
<1>1. CASE Prelude(b)
  <2>1. OthersKept(b) BY <1>1 DEF OthersKept, Prelude
  <2>2. ArrivalKept(b) BY <1>1, <1>0 DEF ArrivalKept, SyncsAt, Prelude
  <2>3. SyncsAt(b)' BY <1>1, <1>0 DEF SyncsAt, Prelude
  <2>4. PlaceAt(b)' BY <1>1, <1>0 DEF PlaceAt, Prelude
  <2>5. FlightAt(b)' BY <1>1, <1>0 DEF FlightAt, SyncsAt, Pending, Prelude
  <2> QED BY <2>1, <2>2, <2>3, <2>4, <2>5 DEF BlockShape, BlockAt
<1>2. CASE LeaveBarrier(b)
  <2>1. OthersKept(b) BY <1>2 DEF OthersKept, LeaveBarrier, AllArrived
  <2>2. ArrivalKept(b) BY <1>2, <1>0 DEF ArrivalKept, SyncsAt, LeaveBarrier,
        AllArrived
  <2>3. SyncsAt(b)' BY <1>2, <1>0 DEF SyncsAt, LeaveBarrier, AllArrived
  <2>4. PlaceAt(b)' BY <1>2, <1>0 DEF PlaceAt, LeaveBarrier, AllArrived
  <2>5. FlightAt(b)' BY <1>2, <1>0 DEF FlightAt, SyncsAt, Pending,
        LeaveBarrier, AllArrived
  <2> QED BY <2>1, <2>2, <2>3, <2>4, <2>5 DEF BlockShape, BlockAt
<1>3. CASE ReadStatus(b)
  <2>1. OthersKept(b) BY <1>3 DEF OthersKept, ReadStatus
  <2>2. ArrivalKept(b) BY <1>3, <1>0 DEF ArrivalKept, SyncsAt, ReadStatus
  <2>3. SyncsAt(b)' BY <1>3, <1>0 DEF SyncsAt, ReadStatus
  <2>4. PlaceAt(b)' BY <1>3, <1>0 DEF PlaceAt, ReadStatus
  <2>5. FlightAt(b)' BY <1>3, <1>0 DEF FlightAt, SyncsAt, Pending, ReadStatus
  <2> QED BY <2>1, <2>2, <2>3, <2>4, <2>5 DEF BlockShape, BlockAt
<1>4. CASE ValidateIndex(b)
  <2>1. OthersKept(b) BY <1>4 DEF OthersKept, ValidateIndex
  <2>2. ArrivalKept(b) BY <1>4, <1>0 DEF ArrivalKept, SyncsAt, ValidateIndex
  <2>3. SyncsAt(b)' BY <1>4, <1>0 DEF SyncsAt, ValidateIndex
  <2>4. PlaceAt(b)' BY <1>4, <1>0 DEF PlaceAt, ValidateIndex
  <2>5. FlightAt(b)' BY <1>4, <1>0 DEF FlightAt, SyncsAt, Pending, ValidateIndex
  <2> QED BY <2>1, <2>2, <2>3, <2>4, <2>5 DEF BlockShape, BlockAt
<1>5. CASE SetFailureRead(b)
  <2>1. OthersKept(b) BY <1>5 DEF OthersKept, SetFailureRead, AfterFailure
  <2>2. ArrivalKept(b) BY <1>5, <1>0 DEF ArrivalKept, SyncsAt, SetFailureRead,
        AfterFailure
  <2>3. SyncsAt(b)' BY <1>5, <1>0 DEF SyncsAt, SetFailureRead, AfterFailure
  <2>4. PlaceAt(b)' BY <1>5, <1>0 DEF PlaceAt, SetFailureRead, AfterFailure
  <2>5. FlightAt(b)' BY <1>5, <1>0 DEF FlightAt, SyncsAt, Pending,
        SetFailureRead, AfterFailure
  <2> QED BY <2>1, <2>2, <2>3, <2>4, <2>5 DEF BlockShape, BlockAt
<1>6. CASE SetFailureWrite(b)
  <2>1. OthersKept(b) BY <1>6 DEF OthersKept, SetFailureWrite, AfterFailure
  <2>2. ArrivalKept(b) BY <1>6, <1>0 DEF ArrivalKept, SyncsAt,
        SetFailureWrite, AfterFailure
  <2>3. SyncsAt(b)' BY <1>6, <1>0 DEF SyncsAt, SetFailureWrite, AfterFailure
  <2>4. PlaceAt(b)' BY <1>6, <1>0 DEF PlaceAt, SetFailureWrite, AfterFailure
  <2>5. FlightAt(b)' BY <1>6, <1>0 DEF FlightAt, SyncsAt, Pending,
        SetFailureWrite, AfterFailure
  <2> QED BY <2>1, <2>2, <2>3, <2>4, <2>5 DEF BlockShape, BlockAt
<1>7. CASE MarkIndexDone(b)
  <2>1. OthersKept(b) BY <1>7 DEF OthersKept, MarkIndexDone
  <2>2. ArrivalKept(b) BY <1>7, <1>0 DEF ArrivalKept, SyncsAt, MarkIndexDone
  <2>3. SyncsAt(b)' BY <1>7, <1>0 DEF SyncsAt, MarkIndexDone
  <2>4. PlaceAt(b)' BY <1>7, <1>0 DEF PlaceAt, MarkIndexDone
  <2>5. FlightAt(b)' BY <1>7, <1>0 DEF FlightAt, SyncsAt, Pending, MarkIndexDone
  <2> QED BY <2>1, <2>2, <2>3, <2>4, <2>5 DEF BlockShape, BlockAt
<1>8. CASE StoreIndexDone(b)
  <2>1. OthersKept(b) BY <1>8 DEF OthersKept, StoreIndexDone
  <2>2. ArrivalKept(b) BY <1>8, <1>0 DEF ArrivalKept, SyncsAt, StoreIndexDone
  <2>3. SyncsAt(b)' BY <1>8, <1>0 DEF SyncsAt, StoreIndexDone
  <2>4. PlaceAt(b)' BY <1>8, <1>0 DEF PlaceAt, StoreIndexDone
  <2>5. FlightAt(b)' BY <1>8, <1>0 DEF FlightAt, SyncsAt, Pending,
        StoreIndexDone
  <2> QED BY <2>1, <2>2, <2>3, <2>4, <2>5 DEF BlockShape, BlockAt
<1>9. CASE \E s \in Workers : PollSource(b, s)
  <2>1. OthersKept(b) BY <1>9 DEF OthersKept, PollSource
  <2>2. ArrivalKept(b) BY <1>9, <1>0 DEF ArrivalKept, SyncsAt, PollSource
  <2>3. SyncsAt(b)' BY <1>9, <1>0 DEF SyncsAt, PollSource
  <2>4. PlaceAt(b)' BY <1>9, <1>0 DEF PlaceAt, PollSource
  <2>5. FlightAt(b)' BY <1>9, <1>0 DEF FlightAt, SyncsAt, Pending, PollSource
  <2> QED BY <2>1, <2>2, <2>3, <2>4, <2>5 DEF BlockShape, BlockAt
<1>10. CASE AcceptOffset(b)
  <2>1. OthersKept(b) BY <1>10 DEF OthersKept, AcceptOffset
  <2>2. ArrivalKept(b) BY <1>10, <1>0 DEF ArrivalKept, SyncsAt, AcceptOffset
  <2>3. SyncsAt(b)' BY <1>10, <1>0 DEF SyncsAt, AcceptOffset
  <2>4. PlaceAt(b)' BY <1>10, <1>0 DEF PlaceAt, AcceptOffset
  <2>5. FlightAt(b)' BY <1>10, <1>0 DEF FlightAt, SyncsAt, Pending, AcceptOffset
  <2> QED BY <2>1, <2>2, <2>3, <2>4, <2>5 DEF BlockShape, BlockAt
<1>11. CASE AcceptFlag(b)
  <2>1. OthersKept(b) BY <1>11 DEF OthersKept, AcceptFlag
  <2>2. ArrivalKept(b) BY <1>11, <1>0 DEF ArrivalKept, SyncsAt, AcceptFlag
  <2>3. SyncsAt(b)' BY <1>11, <1>0 DEF SyncsAt, AcceptFlag
  <2>4. PlaceAt(b)' BY <1>11, <1>0 DEF PlaceAt, AcceptFlag
  <2>5. FlightAt(b)' BY <1>11, <1>0 DEF FlightAt, SyncsAt, Pending, AcceptFlag
  <2> QED BY <2>1, <2>2, <2>3, <2>4, <2>5 DEF BlockShape, BlockAt
<1>12. CASE PollDone(b)
  <2>1. OthersKept(b) BY <1>12 DEF OthersKept, PollDone
  <2>2. ArrivalKept(b) BY <1>12, <1>0 DEF ArrivalKept, SyncsAt, PollDone
  <2>3. SyncsAt(b)' BY <1>12, <1>0 DEF SyncsAt, PollDone
  <2>4. PlaceAt(b)' BY <1>12, <1>0 DEF PlaceAt, PollDone
  <2>5. FlightAt(b)' BY <1>12, <1>0 DEF FlightAt, SyncsAt, Pending, PollDone
  <2> QED BY <2>1, <2>2, <2>3, <2>4, <2>5 DEF BlockShape, BlockAt
<1>13. CASE BeginTask(b)
  <2>1. OthersKept(b) BY <1>13 DEF OthersKept, BeginTask
  <2>2. ArrivalKept(b) BY <1>13, <1>0 DEF ArrivalKept, SyncsAt, BeginTask
  <2>3. SyncsAt(b)' BY <1>13, <1>0 DEF SyncsAt, BeginTask
  <2>4. PlaceAt(b)' BY <1>13, <1>0, TaskRange DEF PlaceAt, BeginTask
  <2>5. FlightAt(b)' BY <1>13, <1>0 DEF FlightAt, SyncsAt, Pending, BeginTask
  <2> QED BY <2>1, <2>2, <2>3, <2>4, <2>5 DEF BlockShape, BlockAt
<1>14. CASE FindReady(b)
  <2>1. OthersKept(b) BY <1>14 DEF OthersKept, FindReady, IssueGet
  <2>2. ArrivalKept(b) BY <1>14, <1>0 DEF ArrivalKept, SyncsAt, FindReady,
        IssueGet
  <2>3. SyncsAt(b)' BY <1>14, <1>0 DEF SyncsAt, FindReady, IssueGet
  <2>4. PlaceAt(b)' BY <1>14, <1>0 DEF PlaceAt, FindReady, IssueGet
  <2>5. FlightAt(b)' BY <1>14, <1>0 DEF FlightAt, SyncsAt, Pending, FindReady,
        IssueGet
  <2> QED BY <2>1, <2>2, <2>3, <2>4, <2>5 DEF BlockShape, BlockAt
<1>15. CASE WaitNext(b)
  <2>1. OthersKept(b) BY <1>15 DEF OthersKept, WaitNext, IssueGet
  <2>2. ArrivalKept(b) BY <1>15, <1>0 DEF ArrivalKept, SyncsAt, WaitNext,
        IssueGet
  <2>3. SyncsAt(b)' BY <1>15, <1>0 DEF SyncsAt, WaitNext, IssueGet
  <2>4. PlaceAt(b)' BY <1>15, <1>0 DEF PlaceAt, WaitNext, IssueGet
  <2>5. FlightAt(b)' BY <1>15, <1>0 DEF FlightAt, SyncsAt, Pending, WaitNext,
        IssueGet
  <2> QED BY <2>1, <2>2, <2>3, <2>4, <2>5 DEF BlockShape, BlockAt
<1>16. CASE PutResult(b)
  <2>1. OthersKept(b) BY <1>16 DEF OthersKept, PutResult
  <2>2. ArrivalKept(b) BY <1>16, <1>0 DEF ArrivalKept, SyncsAt, PutResult
  <2>3. SyncsAt(b)' BY <1>16, <1>0 DEF SyncsAt, PutResult
  <2>4. PlaceAt(b)' BY <1>16, <1>0 DEF PlaceAt, PutResult
  <2>5. FlightAt(b)' BY <1>16, <1>0 DEF FlightAt, SyncsAt, Pending, PutResult
  <2> QED BY <2>1, <2>2, <2>3, <2>4, <2>5 DEF BlockShape, BlockAt
<1>17. CASE Quiet(b)
  <2>1. OthersKept(b) BY <1>17 DEF OthersKept, Quiet
  <2>2. ArrivalKept(b) BY <1>17, <1>0 DEF ArrivalKept, SyncsAt, Quiet
  <2>3. SyncsAt(b)' BY <1>17, <1>0 DEF SyncsAt, Quiet
  <2>4. PlaceAt(b)' BY <1>17, <1>0 DEF PlaceAt, Quiet
  <2>5. FlightAt(b)' BY <1>17, <1>0 DEF FlightAt, SyncsAt, Pending, Quiet
  <2> QED BY <2>1, <2>2, <2>3, <2>4, <2>5 DEF BlockShape, BlockAt
<1>18. CASE CloseJournal(b)
  <2>1. OthersKept(b) BY <1>18 DEF OthersKept, CloseJournal
  <2>2. ArrivalKept(b) BY <1>18, <1>0 DEF ArrivalKept, SyncsAt, CloseJournal
  <2>3. SyncsAt(b)' BY <1>18, <1>0 DEF SyncsAt, CloseJournal
  <2>4. PlaceAt(b)' BY <1>18, <1>0 DEF PlaceAt, CloseJournal
  <2>5. FlightAt(b)' BY <1>18, <1>0 DEF FlightAt, SyncsAt, Pending, CloseJournal
  <2> QED BY <2>1, <2>2, <2>3, <2>4, <2>5 DEF BlockShape, BlockAt
<1>19. CASE \E s \in Workers : PublishAck(b, s)
  <2>1. OthersKept(b) BY <1>19 DEF OthersKept, PublishAck
  <2>2. ArrivalKept(b) BY <1>19, <1>0 DEF ArrivalKept, SyncsAt, PublishAck
  <2>3. SyncsAt(b)' BY <1>19, <1>0 DEF SyncsAt, PublishAck
  <2>4. PlaceAt(b)' BY <1>19, <1>0 DEF PlaceAt, PublishAck
  <2>5. FlightAt(b)' BY <1>19, <1>0 DEF FlightAt, SyncsAt, Pending, PublishAck
  <2> QED BY <2>1, <2>2, <2>3, <2>4, <2>5 DEF BlockShape, BlockAt
<1>20. CASE \E s \in Workers : PublishCompletion(b, s)
  <2>1. OthersKept(b) BY <1>20 DEF OthersKept, PublishCompletion
  <2>2. ArrivalKept(b) BY <1>20, <1>0 DEF ArrivalKept, SyncsAt,
        PublishCompletion
  <2>3. SyncsAt(b)' BY <1>20, <1>0 DEF SyncsAt, PublishCompletion
  <2>4. PlaceAt(b)' BY <1>20, <1>0 DEF PlaceAt, PublishCompletion
  <2>5. FlightAt(b)' BY <1>20, <1>0 DEF FlightAt, SyncsAt, Pending,
        PublishCompletion
  <2> QED BY <2>1, <2>2, <2>3, <2>4, <2>5 DEF BlockShape, BlockAt
<1> QED BY BlockStep(b), <1>1, <1>2, <1>3, <1>4, <1>5, <1>6, <1>7, <1>8, <1>9,
      <1>10, <1>11, <1>12, <1>13, <1>14, <1>15, <1>16, <1>17, <1>18, <1>19,
            <1>20 DEF BlockStep

\* So has a transfer that lands and a deadline that passes.
LEMMA TransferShape ==
    ASSUME TypeOK, NEW b \in Blocks, BlockAt(b), Transfer(b) \/ Timeout(b)
    PROVE  BlockShape(b)
PROOF
<1> USE DEF TypeOK, ControlTypes, ReduceTypes, Goto, Left, Bars, reduceVars
<1>0. /\ pc[b] \in PCs /\ syncs[b] \in 0 .. 4
      /\ SyncsAt(b) /\ PlaceAt(b) /\ FlightAt(b)
      BY DEF BlockAt
<1>1. CASE \E w \in Workers : LandGet(b, w)
  <2>1. OthersKept(b) BY <1>1 DEF OthersKept, LandGet
  <2>2. ArrivalKept(b) BY <1>1, <1>0 DEF ArrivalKept, SyncsAt, LandGet
  <2>3. SyncsAt(b)' BY <1>1, <1>0 DEF SyncsAt, LandGet
  <2>4. PlaceAt(b)' BY <1>1, <1>0 DEF PlaceAt, LandGet
  <2>5. FlightAt(b)' BY <1>1, <1>0 DEF FlightAt, SyncsAt, Pending, LandGet
  <2> QED BY <2>1, <2>2, <2>3, <2>4, <2>5 DEF BlockShape, BlockAt
<1>2. CASE \E p \in puts[b] : LandPut(b, p)
  <2>1. OthersKept(b) BY <1>2 DEF OthersKept, LandPut
  <2>2. ArrivalKept(b) BY <1>2, <1>0 DEF ArrivalKept, SyncsAt, LandPut
  <2>3. SyncsAt(b)' BY <1>2, <1>0 DEF SyncsAt, LandPut
  <2>4. PlaceAt(b)' BY <1>2, <1>0 DEF PlaceAt, LandPut
  <2>5. FlightAt(b)' BY <1>2, <1>0 DEF FlightAt, SyncsAt, Pending, LandPut
  <2> QED BY <2>1, <2>2, <2>3, <2>4, <2>5 DEF BlockShape, BlockAt
<1>3. CASE PollTimeout(b)
  <2>1. OthersKept(b) BY <1>3 DEF OthersKept, PollTimeout
  <2>2. ArrivalKept(b) BY <1>3, <1>0 DEF ArrivalKept, SyncsAt, PollTimeout
  <2>3. SyncsAt(b)' BY <1>3, <1>0 DEF SyncsAt, PollTimeout
  <2>4. PlaceAt(b)' BY <1>3, <1>0 DEF PlaceAt, PollTimeout
  <2>5. FlightAt(b)' BY <1>3, <1>0 DEF FlightAt, SyncsAt, Pending, PollTimeout
  <2> QED BY <2>1, <2>2, <2>3, <2>4, <2>5 DEF BlockShape, BlockAt
<1>4. CASE FindTimeout(b)
  <2>1. OthersKept(b) BY <1>4 DEF OthersKept, FindTimeout
  <2>2. ArrivalKept(b) BY <1>4, <1>0 DEF ArrivalKept, SyncsAt, FindTimeout
  <2>3. SyncsAt(b)' BY <1>4, <1>0 DEF SyncsAt, FindTimeout
  <2>4. PlaceAt(b)' BY <1>4, <1>0 DEF PlaceAt, FindTimeout
  <2>5. FlightAt(b)' BY <1>4, <1>0 DEF FlightAt, SyncsAt, Pending, FindTimeout
  <2> QED BY <2>1, <2>2, <2>3, <2>4, <2>5 DEF BlockShape, BlockAt
<1> QED BY <1>1, <1>2, <1>3, <1>4 DEF Transfer, Timeout

\* A step of that shape keeps the control and the barrier invariant.
LEMMA ShapeKeeps ==
    ASSUME TypeOK, TypeOK', ControlInv, BarrierInv,
           NEW b \in Blocks, BlockShape(b)
    PROVE  ControlInv' /\ BarrierInv'
PROOF
<1>1. OthersKept(b) /\ ArrivalKept(b) /\ BlockAt(b)' BY DEF BlockShape
<1>2. ASSUME NEW c \in Blocks, c # b PROVE BlockAt(c)' /\ Left(c)' = Left(c)
      BY <1>1, <1>2 DEF OthersKept, ControlInv, BlockAt, SyncsAt, PlaceAt,
                        FlightAt, Pending, Left
<1>3. \A c \in Blocks : syncs[c] \in 0 .. 4 /\ syncs'[c] \in 0 .. 4
      BY DEF TypeOK, ControlTypes
<1>4. ASSUME NEW c \in Blocks PROVE syncs[c] <= syncs'[c]
      BY <1>1, <1>3 DEF OthersKept, ArrivalKept
<1>5. ASSUME NEW c \in Blocks, NEW d \in Blocks PROVE Left(c)' <= syncs'[d]
  <2>1. Left(c) \in Int /\ Left(c)' \in Int BY <1>3 DEF Left
  <2>2. Left(c)' <= syncs[d]
        BY <1>1, <1>2, <2>1 DEF ArrivalKept, BarrierInv
  <2> QED BY <2>1, <2>2, <1>3, <1>4
<1> QED BY <1>1, <1>2, <1>5 DEF ControlInv, BarrierInv

-----------------------------------------------------------------------------
(* The status word. *)

\* While block 0 has not started, or is between the load and the store of the
\* status line, no block is in the middle of a SetFailure.
LEMMA NoConcurrentFailure ==
    ASSUME TypeOK, ControlInv, BarrierInv, NEW b \in Blocks,
    pc[b] = "failwrite",
           0 \in Blocks
    PROVE  pc[0] \notin {"prelude", "markstore"}
PROOF
<1>1. SyncsAt(b) /\ SyncsAt(0) BY DEF ControlInv, BlockAt
<1>2. Left(b) <= syncs[0] /\ Left(0) <= syncs[b] BY DEF BarrierInv
<1> QED BY <1>1, <1>2 DEF SyncsAt, Left, Bars

\* Block 0 exists.
LEMMA BlockZero == 0 \in Blocks
PROOF
BY ShapeAssumption DEF Blocks

\* The invariant of the status word is kept.
LEMMA NextWord ==
    ASSUME IInv, [Next]_vars
    PROVE  WordInv'
PROOF
<1> USE BlockZero DEF Goto, Arrive
<1>0. TypeOK /\ ControlInv /\ BarrierInv /\ WordInv BY DEF IInv
<1>1. ASSUME UNCHANGED vars PROVE WordInv'
      BY <1>0, <1>1 DEF WordInv, vars, blockVars, wordVars, outVars
<1>2. ASSUME NEW w \in Workers, WorkerStep(w) \/ ReuseSlot(w) PROVE WordInv'
      BY <1>0, <1>2 DEF WordInv, WorkerStep, PutReady, PutNotice, ReuseSlot,
                        blockVars, wordVars, outVars
<1>3. ASSUME NEW b \in Blocks, BlockStep(b) PROVE WordInv'
  <2> USE DEF TypeOK, ControlTypes, WordInv, wordVars, outVars
  <2>0. SyncsAt(b) /\ PlaceAt(b) BY <1>0 DEF ControlInv, BlockAt
  <2>1. CASE Prelude(b)
        BY <1>0, <2>1 DEF Prelude
  <2>2. CASE LeaveBarrier(b)
        BY <1>0, <2>2 DEF LeaveBarrier
  <2>3. CASE ReadStatus(b)
        BY <1>0, <2>3 DEF ReadStatus
  <2>4. CASE ValidateIndex(b)
        BY <1>0, <2>4 DEF ValidateIndex
  <2>5. CASE SetFailureRead(b)
        BY <1>0, <2>5 DEF SetFailureRead, AfterFailure
  <2>6. CASE SetFailureWrite(b)
        BY <1>0, <2>6, NoConcurrentFailure DEF SetFailureWrite, AfterFailure
  <2>7. CASE MarkIndexDone(b)
        BY <1>0, <2>7 DEF MarkIndexDone
  <2>8. CASE StoreIndexDone(b)
        BY <1>0, <2>8, <2>0 DEF StoreIndexDone, PlaceAt
  <2>9. CASE \E s \in Workers : PollSource(b, s)
        BY <1>0, <2>9 DEF PollSource
  <2>10. CASE AcceptOffset(b)
        BY <1>0, <2>10 DEF AcceptOffset
  <2>11. CASE AcceptFlag(b)
        BY <1>0, <2>11 DEF AcceptFlag
  <2>12. CASE PollDone(b)
        BY <1>0, <2>12 DEF PollDone
  <2>13. CASE BeginTask(b)
        BY <1>0, <2>13 DEF BeginTask
  <2>14. CASE FindReady(b)
        BY <1>0, <2>14 DEF FindReady, IssueGet
  <2>15. CASE WaitNext(b)
        BY <1>0, <2>15 DEF WaitNext, IssueGet
  <2>16. CASE PutResult(b)
        BY <1>0, <2>16 DEF PutResult
  <2>17. CASE Quiet(b)
        BY <1>0, <2>17 DEF Quiet
  <2>18. CASE CloseJournal(b)
        BY <1>0, <2>18, <2>0 DEF CloseJournal, PlaceAt
  <2>19. CASE \E s \in Workers : PublishAck(b, s)
        BY <1>0, <2>19, <2>0 DEF PublishAck, PlaceAt
  <2>20. CASE \E s \in Workers : PublishCompletion(b, s)
        BY <1>0, <2>20, <2>0 DEF PublishCompletion, PlaceAt
  <2> QED BY <1>3, <2>1, <2>2, <2>3, <2>4, <2>5, <2>6, <2>7, <2>8, <2>9,
        <2>10, <2>11, <2>12, <2>13, <2>14, <2>15, <2>16, <2>17, <2>18, <2>19,
              <2>20 DEF BlockStep
<1>4. ASSUME NEW b \in Blocks, Transfer(b) \/ Timeout(b) PROVE WordInv'
      BY <1>0, <1>4 DEF Transfer, Timeout, LandGet, LandPut, PollTimeout,
                        FindTimeout, WordInv, TypeOK, ControlTypes, wordVars,
                        outVars
<1> QED BY <1>1, <1>2, <1>3, <1>4 DEF Next

\* The inductive invariant holds initially ...
LEMMA InitIInv == Init => IInv
PROOF
<1> SUFFICES ASSUME Init PROVE IInv OBVIOUS
<1>1. TypeOK BY InitType
<1>2. ControlInv
      BY DEF Init, ControlInv, BlockAt, SyncsAt, PlaceAt, FlightAt, Pending,
             Empty
<1>3. BarrierInv BY DEF Init, BarrierInv, Left, Bars
<1>4. WordInv BY BlockZero DEF Init, WordInv
<1> QED BY <1>1, <1>2, <1>3, <1>4 DEF IInv

\* ... and is kept by every step.
LEMMA NextIInv == IInv /\ [Next]_vars => IInv'
PROOF
<1> SUFFICES ASSUME IInv, [Next]_vars PROVE IInv' OBVIOUS
<1>0. TypeOK /\ ControlInv /\ BarrierInv BY DEF IInv
<1>1. TypeOK' BY <1>0, NextType
<1>2. WordInv' BY NextWord
<1>3. ControlInv' /\ BarrierInv'
  <2>1. ASSUME UNCHANGED blockVars PROVE ControlInv' /\ BarrierInv'
        BY <1>0, <2>1 DEF ControlInv, BarrierInv, BlockAt, SyncsAt, PlaceAt,
                          FlightAt, Pending, Left, blockVars
  <2>2. ASSUME NEW b \in Blocks, BlockStep(b) \/ Transfer(b) \/ Timeout(b)
        PROVE  ControlInv' /\ BarrierInv'
    <3>1. BlockAt(b) BY <1>0 DEF ControlInv
    <3>2. BlockShape(b)
          BY <1>0, <2>2, <3>1, BlockStepShape, TransferShape
    <3> QED BY <1>0, <1>1, <3>2, ShapeKeeps
  <2>3. CASE UNCHANGED vars BY <2>1, <2>3 DEF vars
  <2>4. CASE \E w \in Workers : WorkerStep(w) \/ ReuseSlot(w)
    <3>1. UNCHANGED blockVars
          BY <2>4 DEF WorkerStep, PutReady, PutNotice, ReuseSlot
    <3> QED BY <2>1, <3>1
  <2> QED BY <2>2, <2>3, <2>4 DEF Next
<1> QED BY <1>1, <1>2, <1>3 DEF IInv

\* No ACK is published while a transfer is in flight: block 0 has left the
\* last SyncAll by then, and a block arrives there with nothing in flight.
LEMMA FlightBeforeAcks == IInv => AckAfterTransfers
PROOF
<1> SUFFICES ASSUME IInv, \E w \in Workers : ack[w] # "none",
                    NEW b \in Blocks, Pending(b) # {} \/ puts[b] # {}
             PROVE  FALSE
    BY DEF AckAfterTransfers
<1>1. pc[0] \in {"acks", "completions", "done"} BY DEF IInv, WordInv
<1>2. SyncsAt(0) /\ FlightAt(b)
      BY BlockZero DEF IInv, ControlInv, BlockAt
<1>3. Left(0) <= syncs[b] /\ Left(b) <= syncs[0]
      BY BlockZero DEF IInv, BarrierInv
<1> QED BY <1>1, <1>2, <1>3 DEF SyncsAt, FlightAt, Left, Bars

\* The steps that write the status word.
LEMMA StatusWriters ==
    ASSUME [Next]_vars, status' # status
    PROVE  \E b \in Blocks : \/ Prelude(b) /\ b = 0
                             \/ SetFailureWrite(b)
                             \/ StoreIndexDone(b)
                             \/ CloseJournal(b)
PROOF
<1>1. ASSUME NEW b \in Blocks, BlockStep(b)
      PROVE  \/ Prelude(b) /\ b = 0
             \/ SetFailureWrite(b)
             \/ StoreIndexDone(b)
             \/ CloseJournal(b)
      BY <1>1 DEF BlockStep, Prelude, LeaveBarrier, ReadStatus,
         ValidateIndex, SetFailureRead, MarkIndexDone, PollSource,
         AcceptOffset, AcceptFlag, PollDone, BeginTask, FindReady,
         WaitNext, PutResult, Quiet, PublishAck, PublishCompletion,
         wordVars
<1>2. CASE \E w \in Workers : WorkerStep(w) \/ ReuseSlot(w)
      BY <1>2 DEF WorkerStep, PutReady, PutNotice, ReuseSlot, wordVars
<1>3. CASE \E b \in Blocks : Transfer(b) \/ Timeout(b)
      BY <1>3 DEF Transfer, Timeout, LandGet, LandPut, PollTimeout,
                  FindTimeout, wordVars
<1>4. CASE UNCHANGED vars BY <1>4 DEF vars, wordVars
<1> QED BY <1>1, <1>2, <1>3, <1>4 DEF Next

\* A failure of the launch is never overwritten with success, step by step.
LEMMA FailureStaysStep ==
    ASSUME IInv, [Next]_vars, status # "OK"
    PROVE  status' # "OK"
PROOF
<1>0. /\ pc[0] # "prelude"
      /\ pc[0] = "markstore" => line = status
      BY DEF IInv, WordInv
<1> SUFFICES ASSUME status' # status PROVE status' # "OK" OBVIOUS
<1>1. PICK b \in Blocks : \/ Prelude(b) /\ b = 0
                          \/ SetFailureWrite(b)
                          \/ StoreIndexDone(b)
                          \/ CloseJournal(b)
      BY StatusWriters
<1>2. PlaceAt(b) BY DEF IInv, ControlInv, BlockAt
<1> QED BY <1>0, <1>1, <1>2 DEF PlaceAt, Prelude, SetFailureWrite,
           StoreIndexDone, CloseJournal

-----------------------------------------------------------------------------
(* The theorems. *)

\* The inductive invariant is an invariant of the kernel.
THEOREM Inductive == Spec => []IInv
PROOF
<1>1. Init => IInv BY InitIInv
<1>2. IInv /\ [Next]_vars => IInv' BY NextIInv
<1> QED BY <1>1, <1>2, PTL DEF Spec

\* The kernel keeps its types: for any grid and any plan no block arrives at
\* more SyncAlls than the kernel has, and no task leaves the launch.
THEOREM TypeCorrect == Spec => []TypeOK
PROOF
<1>1. IInv => TypeOK BY DEF IInv
<1> QED BY <1>1, Inductive, PTL

\* No source ACK, which releases the worker's partial slot, is published
\* while any block still has a GET or a result PUT in flight, whatever the
\* number of blocks and whichever of them fail or time out.
THEOREM AcksFollowTransfers == Spec => []AckAfterTransfers
PROOF
<1>1. IInv => AckAfterTransfers BY FlightBeforeAcks
<1> QED BY <1>1, Inductive, PTL

\* A failure of the launch is never overwritten with success: not by block
\* 0's start, not by its write of the timestamp that shares the line, not by
\* the end of the kernel.
THEOREM FailuresStick == Spec => FailureSticks
PROOF
<1>1. IInv /\ [Next]_vars => [status # "OK" => status' # "OK"]_vars
      BY FailureStaysStep
<1> QED BY <1>1, Inductive, PTL DEF Spec, FailureSticks

\* The kernel drives the journal slot only through transitions the host's
\* table allows: it takes a sealed journal and closes an active one.
THEOREM RefinesJournalSlot == Spec => JournalLifeCycle
PROOF
<1>1. Init => Journal!Init
      BY LaunchAssumption DEF Init, Journal!Init, JournalStates,
         Journal!JournalStates
<1>2. [Next]_vars => [Journal!Next]_journal
  <2> SUFFICES ASSUME Next, journal' # journal PROVE Journal!Next
      BY DEF vars, wordVars
  <2>1. ASSUME NEW b \in Blocks, BlockStep(b) PROVE Journal!Next
    <3>1. Prelude(b) \/ CloseJournal(b)
          BY <2>1 DEF BlockStep, LeaveBarrier, ReadStatus,
             ValidateIndex, SetFailureRead, SetFailureWrite, MarkIndexDone,
             StoreIndexDone, PollSource, AcceptOffset, AcceptFlag, PollDone,
             BeginTask, FindReady, WaitNext, PutResult, Quiet, PublishAck,
             PublishCompletion, wordVars
    <3> QED BY <3>1 DEF Prelude, TakesJournal, CloseJournal, Journal!Next,
            Journal!JournalStates, Journal!ValidJournalTransition
  <2>2. CASE \E w \in Workers : WorkerStep(w) \/ ReuseSlot(w)
        BY <2>2 DEF WorkerStep, PutReady, PutNotice, ReuseSlot, wordVars
  <2>3. CASE \E b \in Blocks : Transfer(b) \/ Timeout(b)
        BY <2>3 DEF Transfer, Timeout, LandGet, LandPut, PollTimeout,
                    FindTimeout, wordVars
  <2> QED BY <2>1, <2>2, <2>3 DEF Next
<1> QED BY <1>1, <1>2, PTL DEF Spec, JournalLifeCycle, Journal!Spec

=============================================================================
