---------------------------- MODULE CombineKernel ----------------------------
(***************************************************************************)
(* One launch of the Pull V2 Combine kernel.  The workers push a READY      *)
(* record and then a notice to the INC; on the INC a grid of AIV blocks     *)
(* validates the sealed plan, polls the notices, pulls every contributor's  *)
(* partial row, reduces it, puts the result to its owner, and block 0       *)
(* closes the journal and publishes the source ACKs and owner completions.  *)
(*                                                                          *)
(* Data abstraction: what a GET returns is "cur" (the row of this wave, at  *)
(* the offset its READY names), "next" (the worker has reused the slot) or  *)
(* "junk" (read through an offset the READY did not give).  A task is one   *)
(* tile of one accumulator.                                                 *)
(***************************************************************************)
EXTENDS Integers, Sequences, FiniteSets

CONSTANTS
    W,            \* worker_count
    NB,           \* block_dim of the launch on the INC
    NA,           \* accumulator_count
    Tiles,        \* tiles_per_row
    Chain,        \* accumulator -> its contributors in pull_next order
    Owner,        \* accumulator -> owner rank of its result
    Launches,     \* the launch conditions to start from
    Publications  \* what a worker may have written as READY and notice

Workers == 0 .. W - 1
Blocks  == 0 .. NB - 1
Accs    == 0 .. NA - 1
Tasks   == 0 .. (NA * Tiles) - 1

Statuses == {"OK", "INVALID_ARGUMENT", "INVALID_JOURNAL",
             "INVALID_REGISTRATION", "INVALID_READY", "COOKIE_MISMATCH",
             "STALE_EPOCH", "SIZE_OVERFLOW", "CAPACITY_EXCEEDED",
             "NOT_READY", "INVALID_STATE"}

JournalStates == {"FREE", "DISPATCH_OPEN", "DISPATCH_SEALED",
                  "COMBINE_ACTIVE", "COMPLETE", "ABORTED"}

ASSUME ShapeAssumption ==
    /\ W \in Nat \ {0} /\ NB \in Nat \ {0} /\ NA \in Nat /\ Tiles \in Nat \ {0}
    /\ Chain \in [Accs -> Seq(Workers)]
    /\ \A a \in Accs : \A i, j \in 1 .. Len(Chain[a]) :
           Chain[a][i] = Chain[a][j] => i = j
    /\ Owner \in [Accs -> Workers]

ASSUME LaunchAssumption ==
    /\ Launches \subseteq [launchValid : BOOLEAN,
                           sameWave : BOOLEAN,     \* the ids of the header
                           headerSound : BOOLEAN,  \* all else it holds
                           badRegistration : 0 .. W, planVerdict : Statuses,
                           journal : JournalStates, badCells : SUBSET Nat,
                           bounded : BOOLEAN]  \* spin_cap can be reached
    /\ Publications \subseteq [digest : BOOLEAN, verdict : Statuses]

-----------------------------------------------------------------------------
VARIABLES
    launch,     \* the conditions this launch was made under (never changes)
    pub,        \* worker -> the READY and notice its host prepared
    \* INC memory written by the workers and by the INC
    ready,      \* source -> READY record in the ring slot: "stale" | "fresh"
    notice,     \* source -> notice line: "none" | "stale" | "fresh"
    journal,    \* state of the journal slot
    status,     \* the shared status word
    srcReady,   \* source_ready_state: source -> flag
    srcOffset,  \* source_payload_offsets: source -> "junk" | "slot"
    \* per block
    pc, syncs,  \* control, and how many SyncAll the block has arrived at
    failure,    \* the code a SetFailure in progress will write
    target,     \* the source a poller is accepting
    task,       \* the loop variable over the tasks of the block
    scan,       \* cursor of FindReadyContributor along the chain
    fetched,    \* source -> "none" | "pending" | what the GET returned
    order,      \* the sources of fetched in the order they are added
    puts,       \* result PUTs issued and not yet visible at the owner
    line,       \* block 0's private copy of the status line
    final,      \* block 0's final_status
    \* workers
    slot,       \* what the worker's registered partial slot holds
    sent,       \* how far the worker's kernel is: "idle" | "ready" | "done"
    result,     \* task -> what the owner's output row holds
    ack,        \* source -> status of its ACK, or "none"
    completion  \* owner -> status of its completion, or "none"

workerVars == <<pub, ready, notice, slot, sent>>
blockVars  == <<pc, syncs, failure, target, task, scan, fetched, order, puts>>
wordVars   == <<journal, status, srcReady, srcOffset, line, final>>
outVars    == <<result, ack, completion>>
vars == <<launch, workerVars, blockVars, wordVars, outVars>>

Fetch  == {"none", "pending", "pendingjunk", "cur", "next", "junk"}
Empty  == [w \in Workers |-> "none"]
Put    == [task : Tasks, rows : [Workers -> Fetch], order : Seq(Workers)]
NoRow  == [rows |-> Empty, order |-> <<>>]

PCs == {"prelude", "bar1", "read1", "validate", "bar2", "mark", "markstore",
        "bar3", "read3", "poll", "offset", "flag", "begin", "find", "quiet",
        "bar4", "final", "acks", "completions", "done"}
     \cup {"failread", "failwrite"}

\* all_two_contributors: selects the in-order two-contributor pipeline.
AllTwo == NA # 0 /\ \A a \in Accs : Len(Chain[a]) = 2

\* The tasks of a block: strided on the generic path, one contiguous range
\* on the two-contributor path, whose first blocks take one extra task each.
TotalTasks == NA * Tiles
Share == TotalTasks \div NB
Extra == TotalTasks % NB
FirstTask(b) == IF ~AllTwo THEN b
                ELSE Share * b + (IF b < Extra THEN b ELSE Extra)

\* Variant of EndTask that drops the remainder of the division.
EndTaskNoExtra(b) == IF ~AllTwo THEN TotalTasks ELSE FirstTask(b) + Share

EndTask(b) == IF ~AllTwo THEN TotalTasks
              ELSE FirstTask(b) + Share + (IF b < Extra THEN 1 ELSE 0)
TaskStep == IF AllTwo THEN 1 ELSE NB

CurChain(b) == Chain[task[b] \div Tiles]
Pending(b) == {w \in Workers : fetched[b][w] \in {"pending", "pendingjunk"}}

Init ==
    /\ launch \in Launches
    /\ pub \in [Workers -> Publications]
    /\ ready = [w \in Workers |-> "stale"]
    /\ notice \in {[w \in Workers |-> "none"], [w \in Workers |-> "stale"]}
    /\ journal = launch.journal
    /\ status = "OK"
    /\ srcReady \in {[w \in Workers |-> FALSE], [w \in Workers |-> TRUE]}
    /\ srcOffset = [w \in Workers |-> "junk"]
    /\ pc = [b \in Blocks |-> "prelude"]
    /\ syncs = [b \in Blocks |-> 0]
    /\ failure = [b \in Blocks |-> "OK"]
    /\ target = [b \in Blocks |-> 0]
    /\ task = [b \in Blocks |-> FirstTask(b)]
    /\ scan = [b \in Blocks |-> 1]
    /\ fetched = [b \in Blocks |-> Empty]
    /\ order = [b \in Blocks |-> <<>>]
    /\ puts = [b \in Blocks |-> {}]
    /\ line = "OK"
    /\ final = "OK"
    /\ slot = [w \in Workers |-> "cur"]
    /\ sent = [w \in Workers |-> "idle"]
    /\ result = [t \in Tasks |-> NoRow]
    /\ ack = [w \in Workers |-> "none"]
    /\ completion = [w \in Workers |-> "none"]

-----------------------------------------------------------------------------
(* Workers. *)

\* The 128-byte READY descriptor is put to the INC and made visible first.
PutReady(w) ==
    /\ launch.launchValid /\ sent[w] = "idle"
    /\ ready' = [ready EXCEPT ![w] = "fresh"]
    /\ sent' = [sent EXCEPT ![w] = "ready"]
    /\ UNCHANGED <<launch, pub, notice, slot, blockVars, wordVars, outVars>>

\* Variant of PutNotice: the notice overtakes the READY it announces.
PutNoticeFirst(w) ==
    /\ launch.launchValid /\ sent[w] = "idle"
    /\ notice' = [notice EXCEPT ![w] = "fresh"]
    /\ sent' = [sent EXCEPT ![w] = "done"]
    /\ UNCHANGED <<launch, pub, ready, slot, blockVars, wordVars, outVars>>

\* PublishReadyNoticeToInc: one cacheline, the release point of the READY.
PutNotice(w) ==
    /\ sent[w] = "ready"
    /\ notice' = [notice EXCEPT ![w] = "fresh"]
    /\ sent' = [sent EXCEPT ![w] = "done"]
    /\ UNCHANGED <<launch, pub, ready, slot, blockVars, wordVars, outVars>>

\* The source ACK releases the partial slot: the worker fills it for a later
\* wave.
ReuseSlot(w) ==
    /\ ack[w] # "none" /\ sent[w] = "done" /\ slot[w] = "cur"
    /\ slot' = [slot EXCEPT ![w] = "next"]
    /\ UNCHANGED <<launch, pub, ready, notice, sent, blockVars, wordVars,
                   outVars>>

-----------------------------------------------------------------------------
(* The INC grid: control helpers. *)

Goto(b, l) == pc' = [pc EXCEPT ![b] = l]

\* Arrive at a SyncAll: the barrier counts arrivals, not call sites.
Arrive(b, l) == Goto(b, l) /\ syncs' = [syncs EXCEPT ![b] = @ + 1]

\* Variant of AllArrived that drops the second SyncAll.
AllArrivedButSecond(b) ==
    pc[b] = "bar2" \/ \A c \in Blocks : syncs[c] >= syncs[b]

AllArrived(b) == \A c \in Blocks : syncs[c] >= syncs[b]

reduceVars == <<task, scan, fetched, order, puts>>

\* Variants: the journal is taken in any state; the scratch is never reset.
TakesAnyJournal ==
    launch.launchValid /\ launch.sameWave /\ launch.headerSound
KeepsScratch(w) == FALSE

\* journal_identity: a sealed journal of exactly this wave (magic, generation,
\* sequence and cookie) is taken, if the rest of its header is sound too
\* (ABI, size, wave, ring slot, counts, status and flags).
TakesJournal ==
    /\ launch.launchValid /\ launch.sameWave /\ launch.headerSound
    /\ journal = "DISPATCH_SEALED"

\* The loop over the registrations resets the scratch of a source and stops
\* at the first registration that is not valid.
ResetsScratch(w) == TakesJournal /\ w < launch.badRegistration

\* Block 0 checks the launch, takes the journal, resets the per-source
\* scratch and checks the plan's totals; the others go straight to SyncAll.
Prelude(b) ==
    LET verdict == IF ~launch.launchValid THEN "INVALID_ARGUMENT"
                   ELSE IF ~TakesJournal THEN "INVALID_JOURNAL"
                   ELSE IF launch.badRegistration < W
                        THEN "INVALID_REGISTRATION"
                   ELSE launch.planVerdict
    IN
    /\ pc[b] = "prelude"
    /\ IF b = 0
       THEN /\ status' = verdict
            /\ journal' = IF TakesJournal THEN "COMBINE_ACTIVE" ELSE journal
            /\ srcReady' = [w \in Workers |-> srcReady[w] /\ ~ResetsScratch(w)]
            /\ srcOffset' = [w \in Workers |->
                              IF ResetsScratch(w) THEN "junk" ELSE srcOffset[w]]
       ELSE UNCHANGED <<status, journal, srcReady, srcOffset>>
    /\ Arrive(b, "bar1")
    /\ UNCHANGED <<launch, workerVars, failure, target, reduceVars, line,
                   final, outVars>>

\* Leave a SyncAll once every block has arrived at as many of them.
LeaveBarrier(b) ==
    /\ pc[b] \in {"bar1", "bar2", "bar3", "bar4"}
    /\ AllArrived(b)
    /\ Goto(b, CASE pc[b] = "bar1" -> "read1"
                 [] pc[b] = "bar2" -> "mark"
                 [] pc[b] = "bar3" -> "read3"
                 [] OTHER -> IF b = 0 THEN "final" ELSE "done")
    /\ UNCHANGED <<launch, workerVars, syncs, failure, target, reduceVars,
                   wordVars, outVars>>

\* After the first and the third SyncAll a block reads the status word and
\* jumps to finalize, whose SyncAll it then arrives at, if it is a failure.
ReadStatus(b) ==
    /\ pc[b] \in {"read1", "read3"}
    /\ IF status # "OK"
       THEN Arrive(b, "bar4")
       ELSE /\ Goto(b, IF pc[b] = "read1" THEN "validate" ELSE "poll")
            /\ UNCHANGED syncs
    /\ UNCHANGED <<launch, workerVars, failure, target, reduceVars, wordVars,
                   outVars>>

\* Validation of this block's share of the sealed index.
ValidateIndex(b) ==
    /\ pc[b] = "validate"
    /\ IF \E cell \in launch.badCells : cell % NB = b
       THEN /\ failure' = [failure EXCEPT ![b] = "INVALID_JOURNAL"]
            /\ Goto(b, "failread")
            /\ UNCHANGED syncs
       ELSE Arrive(b, "bar2") /\ UNCHANGED failure
    /\ UNCHANGED <<launch, workerVars, target, reduceVars, wordVars, outVars>>

\* Variant of AfterFailure: every failure goes to the second SyncAll.
AfterFailureRestart(b) == Arrive(b, "bar2")

\* Where a block goes when its SetFailure is over: an index failure still
\* goes to the second SyncAll, a polling or reduction failure ends the work.
AfterFailure(b) ==
    IF syncs[b] = 1 THEN Arrive(b, "bar2")
    ELSE Goto(b, "quiet") /\ UNCHANGED syncs

\* SetFailure is a read of the status word ...
SetFailureRead(b) ==
    /\ pc[b] = "failread"
    /\ IF status = "OK"
       THEN Goto(b, "failwrite") /\ UNCHANGED syncs
       ELSE AfterFailure(b)
    /\ UNCHANGED <<launch, workerVars, failure, target, reduceVars, wordVars,
                   outVars>>

\* ... and then a write of it, not one atomic step.
SetFailureWrite(b) ==
    /\ pc[b] = "failwrite"
    /\ status' = failure[b]
    /\ AfterFailure(b)
    /\ UNCHANGED <<launch, workerVars, failure, target, reduceVars, journal,
                   srcReady, srcOffset, line, final, outVars>>

\* Block 0 writes plan_index_done, which shares a cacheline with status: it
\* loads the line ...
MarkIndexDone(b) ==
    /\ pc[b] = "mark"
    /\ IF b = 0
       THEN line' = status /\ Goto(b, "markstore") /\ UNCHANGED syncs
       ELSE Arrive(b, "bar3") /\ UNCHANGED line
    /\ UNCHANGED <<launch, workerVars, failure, target, reduceVars, journal,
                   status, srcReady, srcOffset, final, outVars>>

\* ... and writes the whole line back.
StoreIndexDone(b) ==
    /\ pc[b] = "markstore"
    /\ status' = line
    /\ Arrive(b, "bar3")
    /\ UNCHANGED <<launch, workerVars, failure, target, reduceVars, journal,
                   srcReady, srcOffset, line, final, outVars>>

-----------------------------------------------------------------------------
(* Polling.  Source s is polled by block s % NB only. *)

\* Variants of Owned: without the stride over the sources; without those
\* of block 0.
OwnedFirst(b) == {s \in Workers : s = b}
OwnedByOthers(b) == {s \in Workers : s % NB = b /\ b > 0}

Owned(b) == {s \in Workers : s % NB = b}
Remaining(b) == {s \in Owned(b) : ~srcReady[s]}

\* A notice of another wave in the reused ring slot is skipped.
NoticeCurrent(s) == notice[s] = "fresh"

\* ReadyNoticeValid and ValidateReady: a notice of this wave with a bad
\* digest, or that points to a READY of another wave, fails the launch.
ReadyVerdict(s) ==
    IF ~pub[s].digest THEN "INVALID_READY"
    ELSE IF ready[s] = "stale" THEN "COOKIE_MISMATCH"
    ELSE pub[s].verdict

\* One look at the notice of a source still missing.  The status word is
\* looked at between the passes over the sources only, so a source may still
\* be accepted, or refused, after another block has failed.
PollSource(b, s) ==
    LET verdict == ReadyVerdict(s)
    IN
    /\ pc[b] = "poll"
    /\ s \in Remaining(b) /\ NoticeCurrent(s)
    /\ IF verdict = "OK"
       THEN /\ target' = [target EXCEPT ![b] = s]
            /\ Goto(b, "offset")
            /\ UNCHANGED failure
       ELSE /\ failure' = [failure EXCEPT ![b] = verdict]
            /\ Goto(b, "failread")
            /\ UNCHANGED target
    /\ UNCHANGED <<launch, workerVars, syncs, reduceVars, wordVars, outVars>>

\* The payload offset is written and flushed ...
AcceptOffset(b) ==
    /\ pc[b] = "offset"
    /\ srcOffset' = [srcOffset EXCEPT ![target[b]] = "slot"]
    /\ Goto(b, "flag")
    /\ UNCHANGED <<launch, workerVars, syncs, failure, target, reduceVars,
                   journal, status, srcReady, line, final, outVars>>

\* ... before the flag that lets every block use it.
AcceptFlag(b) ==
    /\ pc[b] = "flag"
    /\ srcReady' = [srcReady EXCEPT ![target[b]] = TRUE]
    /\ Goto(b, "poll")
    /\ UNCHANGED <<launch, workerVars, syncs, failure, target, reduceVars,
                   journal, status, srcOffset, line, final, outVars>>

\* Every owned source is ready, or someone has failed.
PollDone(b) ==
    /\ pc[b] = "poll"
    /\ Remaining(b) = {} \/ status # "OK"
    /\ Goto(b, IF status = "OK" THEN "begin" ELSE "quiet")
    /\ UNCHANGED <<launch, workerVars, syncs, failure, target, reduceVars,
                   wordVars, outVars>>

\* Variant of PollTimeout: a poll loop without deadline.
PollForever(b) == FALSE

\* spin_cap cycles have passed.
PollTimeout(b) ==
    /\ launch.bounded
    /\ pc[b] = "poll" /\ Remaining(b) # {} /\ status = "OK"
    /\ failure' = [failure EXCEPT ![b] = "NOT_READY"]
    /\ Goto(b, "failread")
    /\ UNCHANGED <<launch, workerVars, syncs, target, reduceVars, wordVars,
                   outVars>>

-----------------------------------------------------------------------------
(* Reduction of the block's tasks. *)

\* The next task, or the end of the work.  The two-contributor path looks at
\* the status word before each task.
BeginTask(b) ==
    /\ pc[b] = "begin"
    /\ Goto(b, IF task[b] >= EndTask(b) \/ (AllTwo /\ status # "OK")
               THEN "quiet" ELSE "find")
    /\ scan' = [scan EXCEPT ![b] = 1]
    /\ UNCHANGED <<launch, workerVars, syncs, failure, target, task, fetched,
                   order, puts, wordVars, outVars>>

NextInChain(b) == CurChain(b)[Len(order[b]) + 1]

\* Start the GET of source w.
IssueGet(b, w) ==
    /\ fetched' = [fetched EXCEPT ![b][w] =
                   IF srcOffset[w] = "slot" THEN "pending" ELSE "pendingjunk"]
    /\ order' = [order EXCEPT ![b] = Append(@, w)]
    /\ scan' = [scan EXCEPT ![b] = 1]

More(b) == Len(order[b]) < Len(CurChain(b))

\* Variant of Unseen that forgets the sources already added.
AnySource(b, w) == TRUE

\* SeenSource: a source is added once.
Unseen(b, w) == fetched[b][w] = "none"

\* FindReadyContributor, one element of the chain at a time: take the first
\* source found ready and not yet seen; look at the status word at the end
\* of each pass.  The previous GET has landed before the next is looked for.
FindReady(b) ==
    /\ pc[b] = "find" /\ ~AllTwo /\ More(b) /\ Pending(b) = {}
    /\ IF scan[b] <= Len(CurChain(b))
       THEN LET w == CurChain(b)[scan[b]] IN
            /\ IF Unseen(b, w) /\ srcReady[w]
               THEN IssueGet(b, w)
               ELSE /\ scan' = [scan EXCEPT ![b] = @ + 1]
                    /\ UNCHANGED <<fetched, order>>
            /\ UNCHANGED pc
       ELSE /\ scan' = [scan EXCEPT ![b] = 1]
            /\ IF status = "OK" THEN UNCHANGED pc ELSE Goto(b, "quiet")
            /\ UNCHANGED <<fetched, order>>
    /\ UNCHANGED <<launch, workerVars, syncs, failure, target, task, puts,
                   wordVars, outVars>>

\* WaitSourceReady on the two-contributor path: the sources of the chain in
\* order, the second GET issued while the first is in flight.
WaitNext(b) ==
    /\ pc[b] = "find" /\ AllTwo /\ More(b)
    /\ IF srcReady[NextInChain(b)]
       THEN IssueGet(b, NextInChain(b)) /\ UNCHANGED pc
       ELSE /\ status # "OK"
            /\ Goto(b, "quiet")
            /\ UNCHANGED <<fetched, order, scan>>
    /\ UNCHANGED <<launch, workerVars, syncs, failure, target, task, puts,
                   wordVars, outVars>>

\* spin_cap cycles have passed without the source that is looked for.
FindTimeout(b) ==
    /\ launch.bounded
    /\ pc[b] = "find" /\ More(b)
    /\ IF AllTwo THEN ~srcReady[NextInChain(b)]
                 ELSE Pending(b) = {} /\ scan[b] = 1
    /\ failure' = [failure EXCEPT ![b] = "NOT_READY"]
    /\ Goto(b, "failread")
    /\ UNCHANGED <<launch, workerVars, syncs, target, reduceVars, wordVars,
                   outVars>>

\* The data of a GET arrives in the unified buffer.
LandGet(b, w) ==
    /\ w \in Pending(b)
    /\ fetched' = [fetched EXCEPT ![b][w] =
                      IF @ = "pendingjunk" THEN "junk" ELSE slot[w]]
    /\ UNCHANGED <<launch, workerVars, pc, syncs, failure, target, task, scan,
                   order, puts, wordVars, outVars>>

\* Every contributor is added: the result is put to its owner.
PutResult(b) ==
    /\ pc[b] = "find" /\ ~More(b) /\ Pending(b) = {}
    /\ puts' = [puts EXCEPT ![b] = @ \cup
                   {[task |-> task[b], rows |-> fetched[b],
                     order |-> order[b]]}]
    /\ task' = [task EXCEPT ![b] = @ + TaskStep]
    /\ fetched' = [fetched EXCEPT ![b] = Empty]
    /\ order' = [order EXCEPT ![b] = <<>>]
    /\ Goto(b, "begin")
    /\ UNCHANGED <<launch, workerVars, syncs, failure, target, scan, wordVars,
                   outVars>>

\* A result PUT becomes visible in the owner's output.
LandPut(b, p) ==
    /\ p \in puts[b]
    /\ result' = [result EXCEPT ![p.task] =
                     [rows |-> p.rows, order |-> p.order]]
    /\ puts' = [puts EXCEPT ![b] = @ \ {p}]
    /\ UNCHANGED <<launch, workerVars, pc, syncs, failure, target, task, scan,
                   fetched, order, wordVars, ack, completion>>

\* Variant of Quiet without the wait for the transfers.
LeaveEarly(b) ==
    /\ pc[b] = "quiet"
    /\ Arrive(b, "bar4")
    /\ UNCHANGED <<launch, workerVars, failure, target, reduceVars, wordVars,
                   outVars>>

\* aclshmemx_mte_quiet and the event waits before it: the block arrives at
\* the last SyncAll with no GET and no PUT in flight.
Quiet(b) ==
    /\ pc[b] = "quiet" /\ Pending(b) = {} /\ puts[b] = {}
    /\ Arrive(b, "bar4")
    /\ UNCHANGED <<launch, workerVars, failure, target, reduceVars, wordVars,
                   outVars>>

-----------------------------------------------------------------------------
(* Finalize: block 0 closes the journal, then publishes the records. *)

\* Variant of CloseJournal that completes the journal of a failed wave.
CloseAsComplete(b) ==
    /\ pc[b] = "final"
    /\ journal' = IF launch.sameWave /\ journal = "COMBINE_ACTIVE"
                  THEN "COMPLETE" ELSE journal
    /\ final' = status
    /\ Goto(b, "acks")
    /\ UNCHANGED <<launch, workerVars, syncs, failure, target, reduceVars,
                   status, srcReady, srcOffset, line, outVars>>

\* Variant of CloseJournal that does not look whose active journal it is.
CloseAnyActive(b) ==
    LET mine == journal = "COMBINE_ACTIVE"
        verdict == IF ~mine /\ status = "OK" THEN "INVALID_STATE" ELSE status
    IN
    /\ pc[b] = "final"
    /\ journal' = IF ~mine THEN journal
                  ELSE IF status = "OK" THEN "COMPLETE" ELSE "ABORTED"
    /\ final' = verdict
    /\ status' = verdict
    /\ Goto(b, "acks")
    /\ UNCHANGED <<launch, workerVars, syncs, failure, target, reduceVars,
                   srcReady, srcOffset, line, outVars>>

\* A journal with this wave's ids that is COMBINE_ACTIVE is closed, whether or
\* not it is this launch that made it so.
CloseJournal(b) ==
    LET mine == launch.sameWave /\ journal = "COMBINE_ACTIVE"
        verdict == IF ~mine /\ status = "OK" THEN "INVALID_STATE" ELSE status
    IN
    /\ pc[b] = "final"
    /\ journal' = IF ~mine THEN journal
                  ELSE IF status = "OK" THEN "COMPLETE" ELSE "ABORTED"
    /\ final' = verdict
    /\ status' = verdict
    /\ Goto(b, "acks")
    /\ UNCHANGED <<launch, workerVars, syncs, failure, target, reduceVars,
                   srcReady, srcOffset, line, outVars>>

\* The source ACKs in rank order ...
PublishAck(b, s) ==
    /\ pc[b] = "acks"
    /\ ack[s] = "none" /\ \A r \in Workers : r < s => ack[r] # "none"
    /\ ack' = [ack EXCEPT ![s] = final]
    /\ Goto(b, IF s = W - 1 THEN "completions" ELSE "acks")
    /\ UNCHANGED <<launch, workerVars, syncs, failure, target, reduceVars,
                   wordVars, result, completion>>

\* ... and then the owner completions.
PublishCompletion(b, o) ==
    /\ pc[b] = "completions"
    /\ completion[o] = "none"
    /\ \A r \in Workers : r < o => completion[r] # "none"
    /\ completion' = [completion EXCEPT ![o] = final]
    /\ Goto(b, IF o = W - 1 THEN "done" ELSE "completions")
    /\ UNCHANGED <<launch, workerVars, syncs, failure, target, reduceVars,
                   wordVars, result, ack>>

-----------------------------------------------------------------------------

WorkerStep(w) == PutReady(w) \/ PutNotice(w)

BlockStep(b) ==
    \/ Prelude(b) \/ LeaveBarrier(b) \/ ReadStatus(b) \/ ValidateIndex(b)
    \/ SetFailureRead(b) \/ SetFailureWrite(b)
    \/ MarkIndexDone(b) \/ StoreIndexDone(b)
    \/ \E s \in Workers : PollSource(b, s)
    \/ AcceptOffset(b) \/ AcceptFlag(b) \/ PollDone(b)
    \/ BeginTask(b) \/ FindReady(b) \/ WaitNext(b) \/ PutResult(b) \/ Quiet(b)
    \/ CloseJournal(b)
    \/ \E s \in Workers : PublishAck(b, s) \/ PublishCompletion(b, s)

Transfer(b) ==
    \/ \E w \in Workers : LandGet(b, w)
    \/ \E p \in puts[b] : LandPut(b, p)

Timeout(b) == PollTimeout(b) \/ FindTimeout(b)

Next ==
    \/ \E w \in Workers : WorkerStep(w) \/ ReuseSlot(w)
    \/ \E b \in Blocks : BlockStep(b) \/ Transfer(b) \/ Timeout(b)

\* Blocks run, transfers finish and clocks advance; workers need not appear.
\* A spin loop that checks its deadline again and again meets it: the check
\* at the head of FindReadyContributor's loop is not continuously enabled.
Fairness == \A b \in Blocks : /\ WF_vars(BlockStep(b))
                              /\ WF_vars(Transfer(b))
                              /\ SF_vars(Timeout(b))

Spec == Init /\ [][Next]_vars
FairSpec == Spec /\ Fairness

-----------------------------------------------------------------------------
(* Properties. *)

WorkerTypes ==
    /\ launch \in Launches /\ pub \in [Workers -> Publications]
    /\ ready \in [Workers -> {"stale", "fresh"}]
    /\ notice \in [Workers -> {"none", "stale", "fresh"}]
    /\ slot \in [Workers -> {"cur", "next"}]
    /\ sent \in [Workers -> {"idle", "ready", "done"}]

ControlTypes ==
    /\ pc \in [Blocks -> PCs] /\ syncs \in [Blocks -> 0 .. 4]
    /\ failure \in [Blocks -> Statuses] /\ target \in [Blocks -> Workers]

ReduceTypes ==
    /\ task \in [Blocks -> Nat] /\ scan \in [Blocks -> Nat \ {0}]
    /\ fetched \in [Blocks -> [Workers -> Fetch]]
    /\ order \in [Blocks -> Seq(Workers)]
    /\ puts \in [Blocks -> SUBSET Put]

WordTypes ==
    /\ journal \in JournalStates
    /\ status \in Statuses /\ line \in Statuses /\ final \in Statuses
    /\ srcReady \in [Workers -> BOOLEAN]
    /\ srcOffset \in [Workers -> {"junk", "slot"}]

OutTypes ==
    /\ result \in [Tasks -> [rows : [Workers -> Fetch], order : Seq(Workers)]]
    /\ ack \in [Workers -> Statuses \cup {"none"}]
    /\ completion \in [Workers -> Statuses \cup {"none"}]

\* Every variable keeps to its set; in particular no block ever arrives at
\* more than the kernel's four SyncAlls.
TypeOK == WorkerTypes /\ ControlTypes /\ ReduceTypes /\ WordTypes /\ OutTypes

Contributors(t) == LET c == Chain[t \div Tiles]
                   IN  {c[i] : i \in 1 .. Len(c)}

\* What the owner of task t must find: this wave's row of every contributor
\* the journal names, once, and of nobody else.
Exact(t) == result[t].rows = [w \in Workers |->
                          IF w \in Contributors(t) THEN "cur" ELSE "none"]

\* An owner completion that says OK is published only when every row of that
\* owner is in place and is the sum of exactly its journal contributors.
CompletionIsExact ==
    \A o \in Workers : completion[o] = "OK" =>
        \A t \in Tasks : Owner[t \div Tiles] = o => Exact(t)

\* A source ACK releases the partial slot, so none is published while a GET
\* or a result PUT is in flight, whatever the outcome of the wave.
AckAfterTransfers ==
    (\E w \in Workers : ack[w] # "none") =>
        \A b \in Blocks : Pending(b) = {} /\ puts[b] = {}

\* The wave is all or nothing: every record published carries one verdict,
\* and it is OK exactly when this launch completed the journal.
OneVerdict ==
    \A v \in ({ack[w] : w \in Workers} \cup {completion[w] : w \in Workers})
                \ {"none"} :
        /\ v = final
        /\ v = "OK" <=> (journal = "COMPLETE" /\ launch.sameWave
                           /\ launch.journal = "DISPATCH_SEALED"
                           /\ launch.launchValid /\ launch.headerSound)

\* The journal of another wave, and one this launch was refused, keep the
\* state they were found in.  The one exception the code makes is a journal
\* of this very wave that some launch has already made COMBINE_ACTIVE: a
\* second launch of the wave is refused and aborts it.
ForeignJournalUntouched ==
    journal # launch.journal =>
        /\ launch.sameWave
        /\ \/ /\ launch.launchValid /\ launch.headerSound
              /\ launch.journal = "DISPATCH_SEALED"
           \/ launch.journal = "COMBINE_ACTIVE" /\ journal = "ABORTED"

\* Nothing is fetched from a source before the READY of this wave that its
\* notice announces has been accepted: a flag left over from an earlier wave
\* or an offset not yet written is never used.
FetchOnlyAccepted ==
    \A b \in Blocks : \A w \in Workers :
        fetched[b][w] # "none" =>
            /\ fetched[b][w] \notin {"junk", "pendingjunk"}
            /\ notice[w] = "fresh" /\ ready[w] = "fresh"
            /\ pub[w] \in [digest : {TRUE}, verdict : {"OK"}]

\* A wave in which nothing is wrong (valid launch, sound index, well-formed
\* READYs) can only be aborted by a timeout: stale notices, records half
\* published and the races between the blocks never abort it.
WellFormed == /\ launch.launchValid /\ launch.sameWave /\ launch.headerSound
              /\ launch.journal = "DISPATCH_SEALED"
              /\ launch.badRegistration = W /\ launch.planVerdict = "OK"
              /\ launch.badCells = {}
              /\ \A w \in Workers : pub[w].digest /\ pub[w].verdict = "OK"
NoSpuriousAbort == WellFormed => status \in {"OK", "NOT_READY"}

\* A plan with a damaged cell is never reduced: the block that finds it and
\* the blocks that do not agree, through the status word, before anything is
\* fetched.
DamagedPlanUntouched ==
    launch.badCells # {} =>
        \A b \in Blocks : fetched[b] = Empty /\ puts[b] = {}

\* Once the launch has failed the failure is never lost, although status is
\* written by unsynchronised blocks and shares its line with timestamps.
FailureSticks == [][status # "OK" => status' # "OK"]_vars

Terminated == \A b \in Blocks : pc[b] = "done"

\* The kernel terminates, whatever the workers do and whatever is wrong with
\* the plan: every block reaches the end, which block 0 does only after the
\* journal is closed and the last record published.
Termination == <>Terminated

\* The same for a plan whose index is sound: no deadline, failed check or
\* faulty READY leaves a block behind at a SyncAll.
TerminatesIfSound ==
    launch.badCells = {} /\ launch.bounded => <>Terminated

\* With no deadline, a well-formed wave whose workers all publish ends
\* COMPLETE: no block waits for a source that only a waiting block polls.
AllPublish == \A w \in Workers : sent[w] = "done"
Completes ==
    WellFormed /\ ~launch.bounded /\ <>AllPublish
        => <>[](journal = "COMPLETE" /\ Terminated)

\* Each result is accumulated in the order of the sealed reduction chain.
ChainOrder == \A t \in Tasks :
    result[t].order \in {<<>>, Chain[t \div Tiles]}

\* The journal goes through the life cycle of a journal slot.
Journal == INSTANCE JournalSlot WITH state <- journal
JournalLifeCycle == Journal!Spec
=============================================================================
