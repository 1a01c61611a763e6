------------------------- MODULE CombineVerdictProofs -------------------------
(***************************************************************************)
(* Proofs about what a Combine launch decides and what it touches: the      *)
(* verdict it publishes, the failures it may report, the sources it fetches *)
(* from and the plans it leaves alone.  They add five invariants to the     *)
(* inductive invariant IInv of CombineKernelProofs.                         *)
(***************************************************************************)
EXTENDS CombineKernelProofs

\* The launch takes the journal, and the launch passes all of block 0's
\* checks.
Took == /\ launch.launchValid /\ launch.sameWave /\ launch.headerSound
        /\ launch.journal = "DISPATCH_SEALED"
Sound == Took /\ launch.badRegistration = W /\ launch.planVerdict = "OK"

\* Block 0 has made its checks; it has closed the journal.
Begun == pc[0] # "prelude"
Closed == pc[0] \in {"acks", "completions", "done"}

\* How a launch that did not take the journal leaves it: an active one that
\* has the ids of its wave is aborted.
RefusedJournal == IF launch.sameWave /\ launch.journal = "COMBINE_ACTIVE"
        THEN "ABORTED" ELSE launch.journal

\* What the journal holds between the steps of block 0 that write it, that a
\* launch with anything wrong has failed as soon as block 0 has looked, and
\* that records are published after the close and carry its verdict.
JournalInv ==
    /\ ~Begun => journal = launch.journal
    /\ Begun /\ ~Closed =>
           journal = IF Took THEN "COMBINE_ACTIVE" ELSE launch.journal
    /\ Begun /\ ~Sound => status # "OK"
    /\ Closed => (final = "OK" <=> journal = "COMPLETE" /\ Took)
    /\ Closed /\ ~Took => journal = RefusedJournal
    /\ \A w \in Workers : /\ ack[w] # "none" => Closed /\ ack[w] = final
                          /\ completion[w] # "none" =>
                                 Closed /\ completion[w] = final

\* The notice of a READY is never visible before it.
NoticeInv ==
    \A w \in Workers : /\ sent[w] # "idle" => ready[w] = "fresh"
                       /\ notice[w] = "fresh" => sent[w] = "done"

\* In a wave without fault only the deadline is ever reported.
AbortInv ==
    WellFormed => /\ status \in {"OK", "NOT_READY"}
                  /\ \A b \in Blocks : failure[b] \in {"OK", "NOT_READY"}

\* The places of a block that has got past the status check after the third
\* SyncAll, and a block that has fetched nothing and is not about to.
Reducing == {"poll", "offset", "flag", "begin", "find", "quiet"}
Untouched(b) == /\ pc[b] \notin Reducing
                /\ pc[b] \in {"failread", "failwrite"} => syncs[b] = 1
                /\ fetched[b] = Empty /\ puts[b] = {}

\* Once the block that owns a damaged cell is past the validation the launch
\* has failed, so no block gets past the third status check.
DamageInv ==
    /\ \A cell \in launch.badCells : syncs[cell % NB] >= 2 => status # "OK"
    /\ launch.badCells # {} => \A b \in Blocks : Untouched(b)

\* The READY of this wave was announced and is one ValidateReady accepts.
Accepted(w) == /\ notice[w] = "fresh" /\ ready[w] = "fresh"
               /\ pub[w].digest /\ pub[w].verdict = "OK"

\* Blocks work only in a launch that passed the checks; a poller is setting
\* the offset and then the flag of a source it has accepted; and nothing is
\* fetched that is not accepted.
Idle == {"prelude", "bar1", "read1", "bar4", "final", "acks", "completions",
         "done"}
BlockFetch(b) ==
    /\ pc[b] \notin Idle => Sound
    /\ pc[b] \in {"offset", "flag"} => Accepted(target[b])
    /\ pc[b] = "flag" => srcOffset[target[b]] = "slot"
    /\ \A w \in Workers : fetched[b][w] # "none" =>
           Accepted(w) /\ fetched[b][w] \notin {"junk", "pendingjunk"}

\* In a sound launch the flag of a source says that its offset is written and
\* its READY was accepted.
FlagInv == Begun /\ Sound =>
    \A w \in Workers : srcReady[w] => srcOffset[w] = "slot" /\ Accepted(w)

FetchInv == FlagInv /\ \A b \in Blocks : BlockFetch(b)

-----------------------------------------------------------------------------
(* What the steps of the kernel leave alone. *)

\* The blocks write nothing of the workers.
LEMMA WorkersKept ==
    ASSUME NEW b \in Blocks, BlockStep(b) \/ Transfer(b) \/ Timeout(b)
    PROVE  UNCHANGED <<launch, workerVars>>
PROOF
<1>1. CASE BlockStep(b)
      BY <1>1 DEF BlockStep, Prelude, LeaveBarrier, ReadStatus, ValidateIndex,
         SetFailureRead, SetFailureWrite, MarkIndexDone, StoreIndexDone,
         PollSource, AcceptOffset, AcceptFlag, PollDone, BeginTask, FindReady,
         WaitNext, PutResult, Quiet, CloseJournal, PublishAck,
         PublishCompletion
<1>2. CASE Transfer(b) \/ Timeout(b)
      BY <1>2 DEF Transfer, Timeout, LandGet, LandPut, PollTimeout, FindTimeout
<1> QED BY <1>1, <1>2

\* The conditions of the launch and what the hosts prepared never change.
LEMMA LaunchKept ==
    ASSUME [Next]_vars
    PROVE  UNCHANGED <<launch, pub>>
PROOF
<1> USE DEF workerVars
<1>1. CASE UNCHANGED vars BY <1>1 DEF vars
<1>2. CASE \E w \in Workers : WorkerStep(w) \/ ReuseSlot(w)
      BY <1>2 DEF WorkerStep, PutReady, PutNotice, ReuseSlot
<1> QED BY <1>1, <1>2, WorkersKept DEF Next

\* A step is a step of one block that leaves the other blocks alone, or
\* leaves all the blocks and the words they share alone.
LEMMA StepIsOfOneBlock ==
    ASSUME IInv, [Next]_vars
    PROVE  \/ UNCHANGED <<blockVars, wordVars, outVars>>
           \/ \E b \in Blocks :
                  /\ BlockStep(b) \/ Transfer(b) \/ Timeout(b)
                  /\ OthersKept(b) /\ BlockAt(b)
PROOF
<1>1. CASE UNCHANGED vars BY <1>1 DEF vars
<1>2. CASE \E w \in Workers : WorkerStep(w) \/ ReuseSlot(w)
      BY <1>2 DEF WorkerStep, PutReady, PutNotice, ReuseSlot, outVars
<1>3. ASSUME NEW b \in Blocks, BlockStep(b) \/ Transfer(b) \/ Timeout(b)
      PROVE  OthersKept(b) /\ BlockAt(b)
  <2>1. TypeOK /\ BlockAt(b) BY DEF IInv, ControlInv
  <2> QED BY <1>3, <2>1, BlockStepShape, TransferShape DEF BlockShape
<1> QED BY <1>1, <1>2, <1>3 DEF Next

\* A step that neither starts nor ends the launch: the journal and the final
\* verdict stay, and a record that appears carries the final verdict.
RecordsKept ==
    /\ Begun' <=> Begun
    /\ Closed' <=> Closed
    /\ UNCHANGED <<journal, final>>
    /\ \A w \in Workers :
           /\ ack'[w] # ack[w] => Closed /\ ack'[w] = final
           /\ completion'[w] # completion[w] =>
                  Closed /\ completion'[w] = final

\* Only block 0's first and last steps write the journal.
LEMMA JournalSteps ==
    ASSUME IInv, [Next]_vars
    PROVE  Prelude(0) \/ CloseJournal(0) \/ RecordsKept
PROOF
<1> USE BlockZero DEF Goto, Arrive, Begun, Closed, RecordsKept
<1>0. /\ pc \in [Blocks -> PCs] /\ ack \in [Workers -> Statuses \cup {"none"}]
      /\ completion \in [Workers -> Statuses \cup {"none"}]
      BY DEF IInv, TypeOK, ControlTypes, OutTypes
<1>1. CASE UNCHANGED vars
      BY <1>1 DEF vars, blockVars, wordVars, outVars
<1>2. CASE \E w \in Workers : WorkerStep(w) \/ ReuseSlot(w)
      BY <1>2 DEF WorkerStep, PutReady, PutNotice, ReuseSlot, blockVars,
                  wordVars, outVars
<1>3. ASSUME NEW b \in Blocks, BlockStep(b)
      PROVE  Prelude(0) \/ CloseJournal(0) \/ RecordsKept
  <2> USE DEF wordVars, outVars
  <2>0. PlaceAt(b) /\ SyncsAt(b) BY DEF IInv, ControlInv, BlockAt
  <2>1. CASE Prelude(b)
        BY <1>0, <2>1 DEF Prelude
  <2>2. CASE LeaveBarrier(b)
        BY <1>0, <2>2 DEF LeaveBarrier
  <2>3. CASE ReadStatus(b)
        BY <1>0, <2>3 DEF ReadStatus
  <2>4. CASE ValidateIndex(b)
        BY <1>0, <2>4 DEF ValidateIndex
  <2>5. CASE SetFailureRead(b)
        BY <1>0, <2>5 DEF SetFailureRead, AfterFailure
  <2>6. CASE SetFailureWrite(b)
        BY <1>0, <2>6 DEF SetFailureWrite, AfterFailure
  <2>7. CASE MarkIndexDone(b)
        BY <1>0, <2>7 DEF MarkIndexDone
  <2>8. CASE StoreIndexDone(b)
        BY <1>0, <2>8 DEF StoreIndexDone
  <2>9. CASE \E s \in Workers : PollSource(b, s)
        BY <1>0, <2>9 DEF PollSource
  <2>10. CASE AcceptOffset(b)
        BY <1>0, <2>10 DEF AcceptOffset
  <2>11. CASE AcceptFlag(b)
        BY <1>0, <2>11 DEF AcceptFlag
  <2>12. CASE PollDone(b)
        BY <1>0, <2>12 DEF PollDone
  <2>13. CASE BeginTask(b)
        BY <1>0, <2>13 DEF BeginTask
  <2>14. CASE FindReady(b)
        BY <1>0, <2>14 DEF FindReady
  <2>15. CASE WaitNext(b)
        BY <1>0, <2>15 DEF WaitNext
  <2>16. CASE PutResult(b)
        BY <1>0, <2>16 DEF PutResult
  <2>17. CASE Quiet(b)
        BY <1>0, <2>17 DEF Quiet
  <2>18. CASE CloseJournal(b)
        BY <2>18, <2>0 DEF CloseJournal, PlaceAt
  <2>19. CASE \E s \in Workers : PublishAck(b, s)
        BY <1>0, <2>0, <2>19 DEF PublishAck, PlaceAt
  <2>20. CASE \E s \in Workers : PublishCompletion(b, s)
        BY <1>0, <2>0, <2>20 DEF PublishCompletion, PlaceAt
  <2> QED BY <1>3, <2>1, <2>2, <2>3, <2>4, <2>5, <2>6, <2>7, <2>8, <2>9,
        <2>10, <2>11, <2>12, <2>13, <2>14, <2>15, <2>16, <2>17, <2>18, <2>19,
              <2>20 DEF BlockStep
<1>4. ASSUME NEW b \in Blocks, Transfer(b) \/ Timeout(b)
      PROVE  RecordsKept
      BY <1>0, <1>4 DEF Transfer, Timeout, LandGet, LandPut, PollTimeout,
                        FindTimeout, wordVars, outVars
<1> QED BY <1>1, <1>2, <1>3, <1>4 DEF Next

-----------------------------------------------------------------------------
(* The verdict of the launch. *)

\* Block 0's checks succeed only in a sound launch.
LEMMA PreludeJudges ==
    ASSUME IInv, JournalInv, Prelude(0)
    PROVE  /\ Begun' /\ ~Closed' /\ ~Begun /\ ~Closed
           /\ journal' = IF Took THEN "COMBINE_ACTIVE" ELSE launch.journal
           /\ status' = "OK" <=> Sound
           /\ UNCHANGED <<launch, final, ack, completion>>
PROOF
<1>1. pc[0] = "prelude" /\ pc'[0] = "bar1"
      BY BlockZero DEF IInv, TypeOK, ControlTypes, Prelude, Arrive, Goto
<1>2. journal = launch.journal BY <1>1 DEF JournalInv, Begun
<1>3. launch.badRegistration \in 0 .. W
      BY LaunchAssumption DEF IInv, TypeOK, WorkerTypes
<1>4. W \in Nat BY ShapeAssumption
<1>5. status' = "OK" <=> Sound
      BY <1>2, <1>3, <1>4 DEF Prelude, TakesJournal, Sound, Took
<1> QED BY <1>1, <1>2, <1>5 DEF Prelude, TakesJournal, Took, Begun, Closed,
           outVars

\* The invariant of the journal is kept.
LEMMA NextJournal ==
    ASSUME IInv, JournalInv, [Next]_vars
    PROVE  JournalInv'
PROOF
<1>0. UNCHANGED launch /\ (Took' <=> Took) /\ (Sound' <=> Sound)
      BY LaunchKept DEF Took, Sound
<1>1. CASE Prelude(0)
  <2>1. \A w \in Workers : ack[w] = "none" /\ completion[w] = "none"
        BY <1>1, PreludeJudges DEF JournalInv
  <2> QED BY <1>0, <1>1, <2>1, PreludeJudges DEF JournalInv
<1>2. CASE CloseJournal(0)
  <2>1. pc[0] = "final" /\ pc'[0] = "acks"
        BY <1>2, BlockZero DEF CloseJournal, IInv, TypeOK, ControlTypes, Goto
  <2>2. Begun /\ ~Closed /\ Begun' /\ Closed' BY <2>1 DEF Begun, Closed
  <2>3. \A w \in Workers : ack[w] = "none" /\ completion[w] = "none"
        BY <2>2 DEF JournalInv
  <2>4. UNCHANGED <<ack, completion>> BY <1>2 DEF CloseJournal, outVars
  <2>5. ~Took => status # "OK" BY <2>2 DEF JournalInv, Sound
  <2>6. journal = IF Took THEN "COMBINE_ACTIVE" ELSE launch.journal
        BY <2>2 DEF JournalInv
  <2>7. final' = "OK" <=> journal' = "COMPLETE" /\ Took
        BY <1>2, <2>5, <2>6 DEF CloseJournal, Took
  <2>8. ~Sound => status' # "OK"
        BY <2>2, FailureStaysStep DEF JournalInv
  <2>9. ~Took => journal' = RefusedJournal
        BY <1>2, <2>5, <2>6 DEF CloseJournal, RefusedJournal
  <2>10. RefusedJournal' = RefusedJournal BY <1>0 DEF RefusedJournal
  <2> QED BY <1>0, <2>2, <2>3, <2>4, <2>7, <2>8, <2>9, <2>10 DEF JournalInv
<1>3. CASE RecordsKept
  <2>1. Begun' /\ ~Sound' => status' # "OK"
        BY <1>0, <1>3, FailureStaysStep DEF JournalInv, RecordsKept
  <2>2. RefusedJournal' = RefusedJournal BY <1>0 DEF RefusedJournal
  <2> QED BY <1>0, <1>3, <2>1, <2>2 DEF JournalInv, RecordsKept
<1> QED BY <1>1, <1>2, <1>3, JournalSteps

-----------------------------------------------------------------------------
(* Only a deadline aborts a wave without fault. *)

\* A READY is visible before its notice.
LEMMA NextNotice ==
    ASSUME IInv, NoticeInv, [Next]_vars
    PROVE  NoticeInv'
PROOF
<1> USE DEF workerVars
<1>0. WorkerTypes BY DEF IInv, TypeOK
<1>1. ASSUME UNCHANGED workerVars PROVE NoticeInv' BY <1>1 DEF NoticeInv
<1>2. CASE UNCHANGED vars BY <1>1, <1>2 DEF vars
<1>3. ASSUME NEW w \in Workers, PutReady(w) \/ PutNotice(w) \/ ReuseSlot(w)
      PROVE  NoticeInv'
      BY <1>0, <1>3 DEF NoticeInv, WorkerTypes, PutReady, PutNotice, ReuseSlot
<1> QED BY <1>1, <1>2, <1>3, WorkersKept DEF Next, WorkerStep

\* The code a block is about to report comes from the index check, a READY
\* it refused or a deadline.
LEMMA FailureWriters ==
    ASSUME IInv, NEW b \in Blocks, BlockStep(b) \/ Transfer(b) \/ Timeout(b),
           failure'[b] # failure[b]
    PROVE  \/ \E cell \in launch.badCells : cell % NB = b
           \/ \E s \in Workers : /\ NoticeCurrent(s) /\ ReadyVerdict(s) # "OK"
                                 /\ failure'[b] = ReadyVerdict(s)
           \/ failure'[b] = "NOT_READY"
PROOF
<1>0. failure \in [Blocks -> Statuses] BY DEF IInv, TypeOK, ControlTypes
<1>1. ASSUME BlockStep(b)
      PROVE  ValidateIndex(b) \/ \E s \in Workers : PollSource(b, s)
      BY <1>1 DEF BlockStep, Prelude, LeaveBarrier, ReadStatus,
         SetFailureRead, SetFailureWrite, MarkIndexDone, StoreIndexDone,
         AcceptOffset, AcceptFlag, PollDone, BeginTask, FindReady,
         WaitNext, PutResult, Quiet, CloseJournal, PublishAck,
         PublishCompletion
<1>2. CASE ValidateIndex(b) BY <1>2 DEF ValidateIndex
<1>3. CASE \E s \in Workers : PollSource(b, s)
      BY <1>0, <1>3 DEF PollSource
<1>4. CASE Transfer(b) BY <1>4 DEF Transfer, LandGet, LandPut
<1>5. CASE Timeout(b) BY <1>0, <1>5 DEF Timeout, PollTimeout, FindTimeout
<1> QED BY <1>1, <1>2, <1>3, <1>4, <1>5

\* In a wave without fault nothing but the deadline is reported.
LEMMA NextAbort ==
    ASSUME IInv, JournalInv, NoticeInv, AbortInv, [Next]_vars
    PROVE  AbortInv'
PROOF
<1>0. UNCHANGED <<launch, pub>> BY LaunchKept
<1>1. WellFormed' <=> WellFormed BY <1>0 DEF WellFormed
<1> SUFFICES ASSUME WellFormed
             PROVE  /\ status' \in {"OK", "NOT_READY"}
                    /\ \A b \in Blocks : failure'[b] \in {"OK", "NOT_READY"}
    BY <1>1 DEF AbortInv
<1>2. /\ status \in {"OK", "NOT_READY"}
      /\ \A b \in Blocks : failure[b] \in {"OK", "NOT_READY"}
      BY DEF AbortInv
<1>3. Sound /\ Took BY DEF WellFormed, Sound, Took
<1>4. ASSUME status' # status PROVE status' \in {"OK", "NOT_READY"}
  <2>1. PICK b \in Blocks : \/ Prelude(b) /\ b = 0
                            \/ SetFailureWrite(b)
                            \/ StoreIndexDone(b)
                            \/ CloseJournal(b)
        BY <1>4, StatusWriters
  <2>2. PlaceAt(b) BY DEF IInv, ControlInv, BlockAt
  <2>3. CASE Prelude(b) /\ b = 0 BY <1>3, <2>3, PreludeJudges
  <2>4. CASE SetFailureWrite(b) BY <1>2, <2>4 DEF SetFailureWrite
  <2>5. CASE StoreIndexDone(b)
        BY <1>2, <2>2, <2>5 DEF StoreIndexDone, PlaceAt, IInv, WordInv
  <2>6. CASE CloseJournal(b)
    <3>1. pc[0] = "final" BY <2>2, <2>6 DEF CloseJournal, PlaceAt
    <3>2. journal = "COMBINE_ACTIVE"
          BY <1>3, <3>1 DEF JournalInv, Begun, Closed
    <3> QED BY <1>2, <1>3, <2>6, <3>2 DEF CloseJournal, Took
  <2> QED BY <2>1, <2>3, <2>4, <2>5, <2>6
<1>5. ASSUME NEW b \in Blocks PROVE failure'[b] \in {"OK", "NOT_READY"}
  <2>1. CASE UNCHANGED <<blockVars, wordVars, outVars>>
        BY <1>2, <2>1 DEF blockVars
  <2>2. ASSUME NEW c \in Blocks, BlockStep(c) \/ Transfer(c) \/ Timeout(c),
               OthersKept(c)
        PROVE  failure'[b] \in {"OK", "NOT_READY"}
    <3>1. CASE c # b BY <1>2, <2>2, <3>1 DEF OthersKept
    <3>2. CASE c = b /\ failure'[b] # failure[b]
      <4>1. ASSUME NEW s \in Workers, NoticeCurrent(s)
            PROVE  ReadyVerdict(s) = "OK"
            BY <4>1 DEF NoticeInv, NoticeCurrent, ReadyVerdict, WellFormed
      <4>2. launch.badCells = {} BY DEF WellFormed
      <4> QED BY <2>2, <3>2, <4>1, <4>2, FailureWriters
    <3> QED BY <1>2, <3>1, <3>2
  <2> QED BY <2>1, <2>2, StepIsOfOneBlock
<1> QED BY <1>2, <1>4, <1>5

-----------------------------------------------------------------------------
(* A damaged plan. *)

\* A block arrives at its second SyncAll with a failed status word, or with
\* its share of the index found sound.
LEMMA SecondArrival ==
    ASSUME IInv, NEW b \in Blocks, BlockStep(b) \/ Transfer(b) \/ Timeout(b),
           syncs[b] < 2, syncs'[b] >= 2
    PROVE  status' # "OK" \/ ~ \E cell \in launch.badCells : cell % NB = b
PROOF
<1> USE DEF Goto, Arrive, wordVars, reduceVars
<1>0. /\ syncs \in [Blocks -> 0 .. 4] /\ SyncsAt(b) /\ PlaceAt(b)
      BY DEF IInv, TypeOK, ControlTypes, ControlInv, BlockAt
<1>1. BlockStep(b) \/ UNCHANGED syncs
      BY DEF Transfer, Timeout, LandGet, LandPut, PollTimeout, FindTimeout
<1>2. ReadStatus(b) \/ ValidateIndex(b) \/ SetFailureRead(b)
        \/ SetFailureWrite(b)
      BY <1>0, <1>1 DEF BlockStep, Prelude, LeaveBarrier, MarkIndexDone,
         StoreIndexDone, PollSource, AcceptOffset, AcceptFlag, PollDone,
         BeginTask, FindReady, WaitNext, PutResult, Quiet, CloseJournal,
         PublishAck, PublishCompletion, SyncsAt
<1>3. CASE ReadStatus(b) BY <1>0, <1>3 DEF ReadStatus
<1>4. CASE ValidateIndex(b) BY <1>0, <1>4 DEF ValidateIndex
<1>5. CASE SetFailureRead(b) BY <1>0, <1>5 DEF SetFailureRead
<1>6. CASE SetFailureWrite(b)
      BY <1>0, <1>6 DEF SetFailureWrite, PlaceAt
<1> QED BY <1>2, <1>3, <1>4, <1>5, <1>6

\* In a damaged plan a block never gets as far as fetching: at the third
\* status check the owner of the damaged cell is past its validation.
LEMMA UntouchedStep ==
    ASSUME IInv, NEW b \in Blocks, BlockStep(b) \/ Transfer(b) \/ Timeout(b),
           Untouched(b), NEW cell \in Nat, cell % NB \in Blocks,
           syncs[cell % NB] >= 2 => status # "OK"
    PROVE  Untouched(b)'
PROOF
<1> USE DEF Goto, Arrive, reduceVars, Untouched, Reducing
<1>0. /\ pc[b] \in PCs /\ pc \in [Blocks -> PCs] /\ syncs \in [Blocks -> 0 .. 4]
      /\ SyncsAt(b) /\ PlaceAt(b)
      BY DEF IInv, TypeOK, ControlTypes, ControlInv, BlockAt
<1>1. pc[b] = "read3" => status # "OK"
  <2>1. Left(b) <= syncs[cell % NB] BY DEF IInv, BarrierInv
  <2> QED BY <1>0, <2>1 DEF Left, Bars, SyncsAt
<1>2. CASE Transfer(b)
      BY <1>2 DEF Transfer, LandGet, Pending, Empty
<1>3. CASE Timeout(b) BY <1>3 DEF Timeout, PollTimeout, FindTimeout
<1>4. CASE LeaveBarrier(b) BY <1>0, <1>4 DEF LeaveBarrier
<1>5. CASE ReadStatus(b) BY <1>0, <1>1, <1>5 DEF ReadStatus
<1>6. CASE ValidateIndex(b) BY <1>0, <1>6 DEF ValidateIndex, SyncsAt
<1>7. CASE SetFailureRead(b)
      BY <1>0, <1>7 DEF SetFailureRead, AfterFailure
<1>8. CASE SetFailureWrite(b)
      BY <1>0, <1>8 DEF SetFailureWrite, AfterFailure
<1>9. CASE Prelude(b) BY <1>0, <1>9 DEF Prelude
<1>10. CASE MarkIndexDone(b) BY <1>0, <1>10 DEF MarkIndexDone
<1>11. CASE StoreIndexDone(b) BY <1>0, <1>11 DEF StoreIndexDone
<1>12. CASE CloseJournal(b) BY <1>0, <1>12 DEF CloseJournal
<1>13. CASE \E s \in Workers : PublishAck(b, s) \/ PublishCompletion(b, s)
       BY <1>0, <1>13 DEF PublishAck, PublishCompletion
<1>14. CASE \/ \E s \in Workers : PollSource(b, s)
            \/ AcceptOffset(b) \/ AcceptFlag(b) \/ PollDone(b) \/ BeginTask(b)
            \/ FindReady(b) \/ WaitNext(b) \/ PutResult(b) \/ Quiet(b)
       BY <1>14 DEF PollSource, AcceptOffset, AcceptFlag, PollDone, BeginTask,
          FindReady, WaitNext, PutResult, Quiet
<1> QED BY <1>2, <1>3, <1>4, <1>5, <1>6, <1>7, <1>8, <1>9, <1>10, <1>11,
           <1>12, <1>13, <1>14 DEF BlockStep

\* The invariant of damaged plans is kept.
LEMMA NextDamage ==
    ASSUME IInv, DamageInv, [Next]_vars
    PROVE  DamageInv'
PROOF
<1>0. UNCHANGED launch BY LaunchKept
<1>1. \A cell \in launch.badCells : cell \in Nat /\ cell % NB \in Blocks
  <2>1. launch.badCells \subseteq Nat
        BY LaunchAssumption DEF IInv, TypeOK, WorkerTypes
  <2> QED BY <2>1, ShapeAssumption DEF Blocks
<1>2. /\ \A cell \in launch.badCells : syncs[cell % NB] >= 2 => status # "OK"
      /\ launch.badCells # {} => \A b \in Blocks : Untouched(b)
      BY DEF DamageInv
<1>3. \A c \in Blocks : syncs[c] \in 0 .. 4
      BY DEF IInv, TypeOK, ControlTypes
<1>4. /\ \A cell \in launch.badCells : syncs'[cell % NB] >= 2 => status' # "OK"
      /\ launch.badCells # {} => \A b \in Blocks : Untouched(b)'
  <2>1. CASE UNCHANGED <<blockVars, wordVars, outVars>>
        BY <1>2, <2>1 DEF Untouched, blockVars, wordVars
  <2>2. ASSUME NEW b \in Blocks, BlockStep(b) \/ Transfer(b) \/ Timeout(b),
               OthersKept(b)
        PROVE  \A cell \in launch.badCells :
                   syncs'[cell % NB] >= 2 => status' # "OK"
    <3>1. ASSUME NEW cell \in launch.badCells, syncs'[cell % NB] >= 2
          PROVE  status' # "OK"
      <4>1. CASE syncs[cell % NB] >= 2
            BY <1>2, <4>1, FailureStaysStep
      <4>2. CASE ~ (syncs[cell % NB] >= 2)
        <5>1. cell % NB = b
              BY <1>1, <2>2, <3>1, <4>2 DEF OthersKept
        <5>2. syncs[b] < 2 BY <1>3, <4>2, <5>1
        <5> QED BY <2>2, <3>1, <5>1, <5>2, SecondArrival
      <4> QED BY <4>1, <4>2
    <3> QED BY <3>1
  <2>3. ASSUME NEW b \in Blocks, BlockStep(b) \/ Transfer(b) \/ Timeout(b),
               OthersKept(b), NEW cell \in launch.badCells, NEW c \in Blocks
        PROVE  Untouched(c)'
    <3>1. CASE c = b BY <1>1, <1>2, <2>3, <3>1, UntouchedStep
    <3>2. CASE c # b BY <1>2, <2>3, <3>2 DEF OthersKept, Untouched
    <3> QED BY <3>1, <3>2
  <2> QED BY <2>1, <2>2, <2>3, StepIsOfOneBlock
<1> QED BY <1>0, <1>4 DEF DamageInv

-----------------------------------------------------------------------------
(* Only accepted sources are fetched. *)

\* A source once accepted stays so.
LEMMA AcceptedStays ==
    ASSUME IInv, NoticeInv, [Next]_vars, NEW w \in Workers, Accepted(w)
    PROVE  Accepted(w)'
PROOF
<1> USE DEF workerVars
<1>0. WorkerTypes BY DEF IInv, TypeOK
<1>1. ASSUME UNCHANGED workerVars PROVE Accepted(w)' BY <1>1 DEF Accepted
<1>2. CASE UNCHANGED vars BY <1>1, <1>2 DEF vars
<1>3. ASSUME NEW v \in Workers, PutReady(v) \/ PutNotice(v) \/ ReuseSlot(v)
      PROVE  Accepted(w)'
      BY <1>0, <1>3 DEF Accepted, WorkerTypes, PutReady, PutNotice, ReuseSlot
<1> QED BY <1>1, <1>2, <1>3, WorkersKept DEF Next, WorkerStep

\* A block that works knows that block 0 has made its checks.
LEMMA WorkingIsBegun ==
    ASSUME IInv, NEW b \in Blocks, pc[b] \notin {"prelude", "bar1"}
    PROVE  Begun
PROOF
<1>1. /\ SyncsAt(b) /\ SyncsAt(0) /\ Left(b) <= syncs[0]
      /\ syncs[b] \in 0 .. 4 /\ pc[b] \in PCs
      BY BlockZero DEF IInv, ControlInv, BlockAt, BarrierInv, TypeOK,
         ControlTypes
<1> QED BY <1>1 DEF SyncsAt, Left, Bars, Begun, PCs

\* Issuing the GET of a source whose flag is set, in a launch that works.
LEMMA GetIsAccepted ==
    ASSUME IInv, FetchInv, NEW b \in Blocks, pc[b] = "find",
           NEW w \in Workers, srcReady[w], IssueGet(b, w)
    PROVE  \A v \in Workers : fetched'[b][v] # "none" =>
               Accepted(v) /\ fetched'[b][v] \notin {"junk", "pendingjunk"}
PROOF
<1>1. Begun /\ Sound BY WorkingIsBegun DEF FetchInv, BlockFetch, Idle
<1>2. srcOffset[w] = "slot" /\ Accepted(w) BY <1>1 DEF FetchInv, FlagInv
<1>3. \A v \in Workers : fetched[b][v] # "none" =>
          Accepted(v) /\ fetched[b][v] \notin {"junk", "pendingjunk"}
      BY DEF FetchInv, BlockFetch
<1>4. fetched \in [Blocks -> [Workers -> Fetch]]
      BY DEF IInv, TypeOK, ReduceTypes
<1> QED BY <1>2, <1>3, <1>4 DEF IssueGet

\* What a block has fetched after its step was fetched from accepted sources.
LEMMA FetchedStep ==
    ASSUME IInv, FetchInv, NEW b \in Blocks,
           BlockStep(b) \/ Transfer(b) \/ Timeout(b)
    PROVE  \A v \in Workers : fetched'[b][v] # "none" =>
               Accepted(v) /\ fetched'[b][v] \notin {"junk", "pendingjunk"}
PROOF
<1>0. /\ \A v \in Workers : fetched[b][v] # "none" =>
             Accepted(v) /\ fetched[b][v] \notin {"junk", "pendingjunk"}
      /\ fetched \in [Blocks -> [Workers -> Fetch]]
      /\ slot \in [Workers -> {"cur", "next"}]
      /\ PlaceAt(b) /\ scan[b] \in Nat \ {0} /\ Len(order[b]) \in Nat
      BY DEF FetchInv, BlockFetch, IInv, TypeOK, ReduceTypes, WorkerTypes,
             ControlInv, BlockAt
<1>1. ASSUME UNCHANGED fetched
      PROVE  \A v \in Workers : fetched'[b][v] # "none" =>
                 Accepted(v) /\ fetched'[b][v] \notin {"junk", "pendingjunk"}
      BY <1>0, <1>1
<1>2. CASE FindReady(b)
  <2>1. pc[b] = "find" /\ ReduceTypes BY <1>2 DEF FindReady, IInv, TypeOK
  <2>2. \/ UNCHANGED fetched
        \/ /\ scan[b] <= Len(CurChain(b)) /\ srcReady[CurChain(b)[scan[b]]]
           /\ IssueGet(b, CurChain(b)[scan[b]])
        BY <1>2 DEF FindReady
  <2>3. scan[b] <= Len(CurChain(b)) => CurChain(b)[scan[b]] \in Workers
        BY <1>0, <2>1, ChainType
  <2> QED BY <1>1, <2>1, <2>2, <2>3, GetIsAccepted
<1>3. CASE WaitNext(b)
  <2>1. pc[b] = "find" /\ ReduceTypes /\ More(b)
        BY <1>3 DEF WaitNext, IInv, TypeOK
  <2>2. \/ UNCHANGED fetched
        \/ srcReady[NextInChain(b)] /\ IssueGet(b, NextInChain(b))
        BY <1>3 DEF WaitNext
  <2>3. NextInChain(b) \in Workers
        BY <1>0, <2>1, ChainType DEF More, NextInChain
  <2> QED BY <1>1, <2>1, <2>2, <2>3, GetIsAccepted
<1>4. CASE PutResult(b) BY <1>0, <1>4 DEF PutResult, Empty
<1>5. CASE \E w \in Workers : LandGet(b, w)
      BY <1>0, <1>5 DEF LandGet, Pending
<1>6. CASE \E p \in puts[b] : LandPut(b, p) BY <1>1, <1>6 DEF LandPut
<1>7. CASE Timeout(b)
      BY <1>1, <1>7 DEF Timeout, PollTimeout, FindTimeout, reduceVars
<1>8. ASSUME BlockStep(b), ~FindReady(b), ~WaitNext(b), ~PutResult(b)
      PROVE  UNCHANGED fetched
      BY <1>8 DEF BlockStep, Prelude, LeaveBarrier, ReadStatus, ValidateIndex,
         SetFailureRead, SetFailureWrite, MarkIndexDone, StoreIndexDone,
         PollSource, AcceptOffset, AcceptFlag, PollDone, BeginTask, Quiet,
         CloseJournal, PublishAck, PublishCompletion, reduceVars
<1> QED BY <1>1, <1>2, <1>3, <1>4, <1>5, <1>6, <1>7, <1>8 DEF Transfer

\* The flag of a source is set after its offset, by a poller that accepted it.
LEMMA NextFlag ==
    ASSUME IInv, JournalInv, NoticeInv, FetchInv, [Next]_vars
    PROVE  FlagInv'
PROOF
<1>0. UNCHANGED <<launch, pub>> /\ (Sound' <=> Sound)
      BY LaunchKept DEF Sound, Took
<1> SUFFICES ASSUME Begun', Sound, NEW w \in Workers, srcReady'[w]
             PROVE  srcOffset'[w] = "slot" /\ Accepted(w)'
    BY <1>0 DEF FlagInv
<1>1. WordTypes /\ ControlTypes BY DEF IInv, TypeOK
<1>2. CASE Prelude(0)
  <2>1. journal = launch.journal BY <1>2, PreludeJudges DEF JournalInv
  <2>2. w < launch.badRegistration
        BY ShapeAssumption DEF Sound, Workers
  <2>3. ResetsScratch(w)
        BY <2>1, <2>2 DEF ResetsScratch, TakesJournal, Sound, Took
  <2> QED BY <1>1, <1>2, <2>3 DEF Prelude, WordTypes
<1>3. ASSUME ~Prelude(0) PROVE Begun
      BY <1>3, JournalSteps, BlockZero DEF RecordsKept, CloseJournal, Begun
<1>4. ASSUME ~Prelude(0)
      PROVE  \/ UNCHANGED <<srcReady, srcOffset>>
             \/ \E b \in Blocks : AcceptOffset(b) \/ AcceptFlag(b)
  <2>1. ASSUME NEW b \in Blocks, BlockStep(b), ~AcceptOffset(b), ~AcceptFlag(b)
        PROVE  UNCHANGED <<srcReady, srcOffset>>
        BY <1>4, <2>1 DEF BlockStep, Prelude, LeaveBarrier, ReadStatus,
           ValidateIndex, SetFailureRead, SetFailureWrite, MarkIndexDone,
           StoreIndexDone, PollSource, PollDone, BeginTask, FindReady,
           WaitNext, PutResult, Quiet, CloseJournal, PublishAck,
           PublishCompletion, wordVars
  <2>2. ASSUME NEW b \in Blocks, Transfer(b) \/ Timeout(b)
        PROVE  UNCHANGED <<srcReady, srcOffset>>
        BY <2>2 DEF Transfer, Timeout, LandGet, LandPut, PollTimeout,
                    FindTimeout, wordVars
  <2>3. CASE UNCHANGED <<blockVars, wordVars, outVars>>
        BY <2>3 DEF wordVars
  <2> QED BY <2>1, <2>2, <2>3, StepIsOfOneBlock
<1>5. ASSUME ~Prelude(0), srcReady[w]
      PROVE  srcOffset'[w] = "slot" /\ Accepted(w)'
  <2>1. srcOffset[w] = "slot" /\ Accepted(w)
        BY <1>3, <1>5 DEF FetchInv, FlagInv
  <2> QED BY <1>1, <1>4, <1>5, <2>1, AcceptedStays
          DEF AcceptOffset, AcceptFlag, WordTypes, ControlTypes
<1>6. ASSUME ~Prelude(0), ~srcReady[w]
      PROVE  srcOffset'[w] = "slot" /\ Accepted(w)'
  <2>1. PICK b \in Blocks : AcceptFlag(b)
        BY <1>4, <1>6 DEF AcceptOffset
  <2>2. target[b] = w BY <1>1, <1>6, <2>1 DEF AcceptFlag, WordTypes
  <2>3. srcOffset[w] = "slot" /\ Accepted(w)
        BY <2>1, <2>2 DEF AcceptFlag, FetchInv, BlockFetch
  <2> QED BY <2>1, <2>3, AcceptedStays DEF AcceptFlag
<1> QED BY <1>2, <1>5, <1>6

\* A written offset is kept by every step but block 0's first.
LEMMA OffsetStays ==
    ASSUME IInv, [Next]_vars, Begun, NEW w \in Workers, srcOffset[w] = "slot"
    PROVE  srcOffset'[w] = "slot"
PROOF
<1>0. WordTypes /\ ControlTypes BY DEF IInv, TypeOK
<1>1. ASSUME NEW b \in Blocks, BlockStep(b) PROVE srcOffset'[w] = "slot"
      BY <1>0, <1>1 DEF BlockStep, Prelude, LeaveBarrier, ReadStatus,
         ValidateIndex, SetFailureRead, SetFailureWrite, MarkIndexDone,
         StoreIndexDone, PollSource, AcceptOffset, AcceptFlag, PollDone,
         BeginTask, FindReady, WaitNext, PutResult, Quiet, CloseJournal,
         PublishAck, PublishCompletion, wordVars, Begun, WordTypes,
         ControlTypes
<1>2. ASSUME NEW b \in Blocks, Transfer(b) \/ Timeout(b)
      PROVE  srcOffset'[w] = "slot"
      BY <1>2 DEF Transfer, Timeout, LandGet, LandPut, PollTimeout,
                  FindTimeout, wordVars
<1>3. CASE UNCHANGED <<blockVars, wordVars, outVars>> BY <1>3 DEF wordVars
<1> QED BY <1>1, <1>2, <1>3, StepIsOfOneBlock

\* The step of a block keeps its part of FetchInv.  A block starts to work
\* when it reads an OK status after the first SyncAll, which only a sound
\* launch has; a poller goes on with a source it has accepted.
LEMMA PollStep ==
    ASSUME IInv, JournalInv, FetchInv, NEW b \in Blocks,
           BlockStep(b) \/ Transfer(b) \/ Timeout(b)
    PROVE  /\ pc'[b] \notin Idle => Sound
           /\ pc'[b] \in {"offset", "flag"} => Accepted(target'[b])
           /\ pc'[b] = "flag" => srcOffset'[target'[b]] = "slot"
           /\ \A c \in Blocks \ {b} : target'[c] = target[c]
PROOF
<1> USE DEF Goto, Arrive, Idle, reduceVars, wordVars
<1>0. /\ pc \in [Blocks -> PCs] /\ pc[b] \in PCs
      /\ target \in [Blocks -> Workers]
      /\ ready \in [Workers -> {"stale", "fresh"}]
      /\ srcOffset \in [Workers -> {"junk", "slot"}]
      BY DEF IInv, TypeOK, ControlTypes, WorkerTypes, WordTypes
<1>1. /\ pc[b] \notin Idle => Sound
      /\ pc[b] \in {"offset", "flag"} => Accepted(target[b])
      BY DEF FetchInv, BlockFetch
<1>2. pc[b] = "read1" /\ status = "OK" => Sound
      BY WorkingIsBegun DEF JournalInv
<1>3. CASE ReadStatus(b) BY <1>0, <1>1, <1>2, <1>3 DEF ReadStatus
<1>4. CASE \E s \in Workers : PollSource(b, s)
  <2>1. PICK s \in Workers : PollSource(b, s) BY <1>4
  <2>2. NoticeCurrent(s) /\ (ReadyVerdict(s) = "OK" => Accepted(s))
        BY <1>0, <2>1 DEF PollSource, NoticeCurrent, ReadyVerdict, Accepted
  <2> QED BY <1>0, <1>1, <2>1, <2>2 DEF PollSource
<1>5. CASE AcceptOffset(b) BY <1>0, <1>1, <1>5 DEF AcceptOffset
<1>6. CASE AcceptFlag(b) BY <1>0, <1>1, <1>6 DEF AcceptFlag
<1>7. CASE Transfer(b)
  <2>1. UNCHANGED <<pc, target, srcOffset>>
        BY <1>7 DEF Transfer, LandGet, LandPut
  <2> QED BY <1>1, <2>1 DEF FetchInv, BlockFetch
<1>8. CASE Timeout(b)
      BY <1>0, <1>1, <1>8 DEF Timeout, PollTimeout, FindTimeout
<1>9. CASE Prelude(b) BY <1>0, <1>1, <1>9 DEF Prelude
<1>10. CASE LeaveBarrier(b) BY <1>0, <1>1, <1>10 DEF LeaveBarrier
<1>11. CASE ValidateIndex(b) BY <1>0, <1>1, <1>11 DEF ValidateIndex
<1>12. CASE SetFailureRead(b)
       BY <1>0, <1>1, <1>12 DEF SetFailureRead, AfterFailure
<1>13. CASE SetFailureWrite(b)
       BY <1>0, <1>1, <1>13 DEF SetFailureWrite, AfterFailure
<1>14. CASE MarkIndexDone(b) \/ StoreIndexDone(b)
       BY <1>0, <1>1, <1>14 DEF MarkIndexDone, StoreIndexDone
<1>15. CASE PollDone(b) \/ BeginTask(b)
       BY <1>0, <1>1, <1>15 DEF PollDone, BeginTask
<1>16. CASE FindReady(b) BY <1>0, <1>1, <1>16 DEF FindReady
<1>17. CASE WaitNext(b) BY <1>0, <1>1, <1>17 DEF WaitNext
<1>18. CASE PutResult(b) \/ Quiet(b) BY <1>0, <1>1, <1>18 DEF PutResult, Quiet
<1>19. CASE CloseJournal(b) BY <1>0, <1>1, <1>19 DEF CloseJournal
<1>20. CASE \E s \in Workers : PublishAck(b, s) \/ PublishCompletion(b, s)
       BY <1>0, <1>1, <1>20 DEF PublishAck, PublishCompletion
<1> QED BY <1>3, <1>4, <1>5, <1>6, <1>7, <1>8, <1>9, <1>10, <1>11, <1>12,
           <1>13, <1>14, <1>15, <1>16, <1>17, <1>18, <1>19, <1>20
        DEF BlockStep

\* The invariant of what is fetched is kept.
LEMMA NextFetch ==
    ASSUME IInv, JournalInv, NoticeInv, FetchInv, [Next]_vars
    PROVE  FetchInv'
PROOF
<1>0. UNCHANGED <<launch, pub>> /\ (Sound' <=> Sound)
      BY LaunchKept DEF Sound, Took
<1>1. FlagInv' BY NextFlag
<1>2. \A b \in Blocks : target[b] \in Workers
      BY DEF IInv, TypeOK, ControlTypes
<1>3. ASSUME NEW c \in Blocks,
             pc'[c] = pc[c], target'[c] = target[c], fetched'[c] = fetched[c]
      PROVE  BlockFetch(c)'
  <2>1. BlockFetch(c) BY DEF FetchInv
  <2>2. \A w \in Workers : pc[c] \in {"offset", "flag"} /\ w = target[c] =>
            Accepted(w)'
        BY <2>1, AcceptedStays DEF BlockFetch
  <2>3. pc[c] = "flag" => srcOffset'[target[c]] = "slot"
        BY <1>2, <2>1, WorkingIsBegun, OffsetStays DEF BlockFetch
  <2>4. \A w \in Workers : fetched[c][w] # "none" => Accepted(w)'
        BY <2>1, AcceptedStays DEF BlockFetch
  <2> QED BY <1>0, <1>2, <1>3, <2>1, <2>2, <2>3, <2>4 DEF BlockFetch, Accepted
<1>4. ASSUME NEW b \in Blocks, BlockStep(b) \/ Transfer(b) \/ Timeout(b)
      PROVE  BlockFetch(b)'
  <2>1. UNCHANGED <<notice, ready>> BY <1>4, WorkersKept DEF workerVars
  <2>2. \A w \in Workers : Accepted(w)' <=> Accepted(w)
        BY <1>0, <2>1 DEF Accepted
  <2>3. Accepted(target'[b]) <=> Accepted(target[b])'
        BY <1>0, <2>1 DEF Accepted
  <2> QED BY <1>0, <1>4, <2>2, <2>3, PollStep, FetchedStep DEF BlockFetch
<1>5. \A b \in Blocks : BlockFetch(b)'
  <2>1. CASE UNCHANGED <<blockVars, wordVars, outVars>>
        BY <1>3, <2>1 DEF blockVars
  <2>2. ASSUME NEW b \in Blocks, BlockStep(b) \/ Transfer(b) \/ Timeout(b),
               OthersKept(b), NEW c \in Blocks
        PROVE  BlockFetch(c)'
    <3>1. CASE c = b BY <1>4, <2>2, <3>1
    <3>2. CASE c # b BY <1>3, <2>2, <3>2, PollStep DEF OthersKept
    <3> QED BY <3>1, <3>2
  <2> QED BY <2>1, <2>2, StepIsOfOneBlock
<1> QED BY <1>1, <1>5 DEF FetchInv

-----------------------------------------------------------------------------
(* The invariants together, and the theorems. *)

VInv == IInv /\ JournalInv /\ NoticeInv /\ AbortInv /\ DamageInv /\ FetchInv

\* The invariants hold initially ...
LEMMA InitVInv == Init => VInv
PROOF
<1> SUFFICES ASSUME Init PROVE VInv OBVIOUS
<1>1. IInv BY InitIInv
<1>2. JournalInv BY BlockZero DEF Init, JournalInv, Begun, Closed
<1>3. NoticeInv BY DEF Init, NoticeInv
<1>4. AbortInv BY DEF Init, AbortInv
<1>5. DamageInv
  <2>1. \A cell \in launch.badCells : cell % NB \in Blocks
    <3>1. launch.badCells \subseteq Nat BY LaunchAssumption DEF Init
    <3> QED BY <3>1, ShapeAssumption DEF Blocks
  <2>2. \A cell \in launch.badCells : syncs[cell % NB] = 0
        BY <2>1 DEF Init
  <2> QED BY <2>2 DEF Init, DamageInv, Untouched, Reducing
<1>6. FetchInv
      BY BlockZero DEF Init, FetchInv, FlagInv, BlockFetch, Begun, Idle, Empty
<1> QED BY <1>1, <1>2, <1>3, <1>4, <1>5, <1>6 DEF VInv

\* ... and are kept by every step.
LEMMA NextVInv == VInv /\ [Next]_vars => VInv'
PROOF
BY NextIInv, NextJournal, NextNotice, NextAbort, NextDamage, NextFetch DEF VInv

\* The five invariants are invariants of the kernel.
THEOREM VerdictInvariant == Spec => []VInv
PROOF
<1>1. Init => VInv BY InitVInv
<1>2. VInv /\ [Next]_vars => VInv' BY NextVInv
<1> QED BY <1>1, <1>2, PTL DEF Spec

\* Every ACK and completion carries the one verdict of the launch, and it is
\* OK exactly when this launch took the sealed journal of its wave and
\* completed it.  It says nothing of a journal the launch was refused: that
\* is ForeignJournalStays.
THEOREM VerdictIsOne == Spec => []OneVerdict
PROOF
<1>1. VInv => OneVerdict BY DEF VInv, JournalInv, OneVerdict, Took
<1> QED BY <1>1, VerdictInvariant, PTL

\* A launch never writes the journal of another wave, and of the journals of
\* its own wave only the sealed one it takes and an active one it finds,
\* which it aborts.
THEOREM ForeignJournalStays == Spec => []ForeignJournalUntouched
PROOF
<1>1. VInv => ForeignJournalUntouched
  <2> SUFFICES ASSUME VInv, journal # launch.journal, ~Took
               PROVE  /\ launch.sameWave /\ launch.journal = "COMBINE_ACTIVE"
                      /\ journal = "ABORTED"
      BY DEF ForeignJournalUntouched, Took
  <2>1. Closed BY DEF VInv, JournalInv
  <2> QED BY <2>1 DEF VInv, JournalInv, RefusedJournal
<1> QED BY <1>1, VerdictInvariant, PTL

\* However many blocks and workers there are, and however the notices arrive,
\* a wave in which nothing is wrong is aborted by the deadline or not at all.
THEOREM OnlyDeadlineAborts == Spec => []NoSpuriousAbort
PROOF
<1>1. VInv => NoSpuriousAbort BY DEF VInv, AbortInv, NoSpuriousAbort
<1> QED BY <1>1, VerdictInvariant, PTL

\* A plan with a damaged cell is never reduced, whichever block's share the
\* cell is in: the SyncAlls and the status word stop every block in time.
THEOREM DamageIsContained == Spec => []DamagedPlanUntouched
PROOF
<1>1. VInv => DamagedPlanUntouched
      BY DEF VInv, DamageInv, Untouched, DamagedPlanUntouched
<1> QED BY <1>1, VerdictInvariant, PTL

\* No block ever fetches from a source whose READY of this wave has not been
\* announced and accepted, nor through an offset not yet written, whatever an
\* earlier wave left in the scratch.
THEOREM FetchesAreAccepted == Spec => []FetchOnlyAccepted
PROOF
<1>1. VInv => FetchOnlyAccepted
  <2> SUFFICES ASSUME VInv, NEW b \in Blocks, NEW w \in Workers,
                      fetched[b][w] # "none"
               PROVE  /\ fetched[b][w] \notin {"junk", "pendingjunk"}
                      /\ notice[w] = "fresh" /\ ready[w] = "fresh"
                      /\ pub[w] \in [digest : {TRUE}, verdict : {"OK"}]
      BY DEF FetchOnlyAccepted
  <2>1. Accepted(w) /\ fetched[b][w] \notin {"junk", "pendingjunk"}
        BY DEF VInv, FetchInv, BlockFetch
  <2>2. pub[w] \in [digest : BOOLEAN, verdict : Statuses]
        BY LaunchAssumption DEF VInv, IInv, TypeOK, WorkerTypes
  <2> QED BY <2>1, <2>2 DEF Accepted
<1> QED BY <1>1, VerdictInvariant, PTL

=============================================================================
