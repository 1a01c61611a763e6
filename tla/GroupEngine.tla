----------------------------- MODULE GroupEngine -----------------------------
(***************************************************************************)
(* SmemNetGroupEngine: the barrier and the all-gather that all PEs of a job *)
(* run over the configuration store, and the end of the job.  PE 0 hosts    *)
(* the store.  Every PE runs the same program of collectives.  The last two *)
(* are the barriers of finalize: a PE whose first one fails leaves finalize *)
(* there, and after the second one PE 0 shuts the store down (what finalize *)
(* releases between the two succeeds).  Any other collective that fails is  *)
(* reported to its caller, which goes on.                                   *)
(***************************************************************************)
EXTENDS ConfigStore, FiniteSets

CONSTANT Jobs   \* programs of "B" (barrier) and "G" (all-gather), and how many
                \* of their time limits may end too soon

REMOVE_INTERVAL == 2
NPEs == Cardinality(PEs)

ASSUME GroupAssumption ==
    /\ IsFiniteSet(PEs) /\ PEs = 0 .. NPEs - 1 /\ NPEs > 1
    /\ Jobs \subseteq [program : Seq({"B", "G"}), late : Nat]
    /\ \A j \in Jobs : LET n == Len(j.program)
                       IN  n > 1 /\ j.program[n - 1] = "B" /\ j.program[n] = "B"

VARIABLES
    program,  \* the program of this job
    started,  \* PE -> collectives it has begun
    results,  \* PE -> how each collective it has finished ended
    pc,       \* PE -> the store operation it waits for, or "idle"
    val,      \* PE -> what its ADD or APPEND returned
    recvBuf   \* PE -> collective -> what an all-gather gave it

groupVars == <<program, started, results, pc, val, recvBuf>>
vars == <<storeVars, groupVars>>

Operations == {"add", "rmAdd", "rmWait", "set", "get", "data"}

Init ==
    /\ StoreInit
    /\ \E j \in Jobs : program = j.program /\ maxLate = j.late
    /\ started = [p \in PEs |-> 0]
    /\ results = [p \in PEs |-> <<>>]
    /\ pc = [p \in PEs |-> "idle"]
    /\ val = [p \in PEs |-> 0]
    /\ recvBuf = [p \in PEs |-> <<>>]

\* How many collectives of a kind are among the first n: barrierGroupSn_ and
\* allGatherGroupSn_ count these.
CountOf(kind, n) == Cardinality({i \in 1 .. n : program[i] = kind})

Kind(p) == program[started[p]]
Sn(p) == CountOf(Kind(p), started[p])
\* The key of this round that counts or collects ("A"), or opens it ("W").
Key(p, suffix) == <<Kind(p), Sn(p), suffix>>

\* Values in the store are sequences of numbers: a count, SMEM_GROUP_SET_STR,
\* or the contributions to an all-gather, each a number that tells the rank
\* it starts with and the round it was sent in.
SMEM_GROUP_SET_STR == <<0>>
Contribution(p, sn) == p + NPEs * sn

\* The first barrier of finalize has failed on p: finalize returns.
LeftEarly(p) == /\ Len(results[p]) = Len(program) - 1
                /\ results[p][Len(program) - 1] # "OK"

Finished(p) == Len(results[p]) = Len(program) \/ LeftEarly(p)

\* The head of GroupBarrier and GroupAllGather, up to the ADD or APPEND.
Begin(p) ==
    /\ pc[p] = "idle" /\ started[p] < Len(program) /\ ~LeftEarly(p)
    /\ started' = [started EXCEPT ![p] = @ + 1]
    /\ pc' = [pc EXCEPT ![p] = "add"]
    /\ LET kind == program[started[p] + 1]
           sn == CountOf(kind, started[p] + 1)
       IN  Send(p, IF kind = "B" THEN "ADD" ELSE "APPEND", <<kind, sn, "A">>,
                IF kind = "B" THEN <<1>> ELSE <<Contribution(p, sn)>>)
    /\ UNCHANGED <<program, results, val, recvBuf, late, serverVars, replies>>

\* The wait for operation op ends with outcome o.
Ends(p, op, o) ==
    /\ pc[p] = op
    /\ o \in Outcomes(p)
    /\ WaitEnds(p, o)
    /\ UNCHANGED <<program, started, serverVars>>

Do(p, op, request, key, value) ==
    /\ pc' = [pc EXCEPT ![p] = op]
    /\ Send(p, request, key, value)
    /\ UNCHANGED results

\* The collective is over.
Return(p, result) ==
    /\ pc' = [pc EXCEPT ![p] = "idle"]
    /\ results' = [results EXCEPT ![p] = Append(@, result)]
    /\ Idle(p)

\* Variant of SetOrGet that opens the round one PE too early.
OpensEarly(p, v) ==
    IF v >= NPEs - 1 THEN Do(p, "set", "SET", Key(p, "W"), SMEM_GROUP_SET_STR)
    ELSE Do(p, "get", "GET", Key(p, "W"), <<>>)

\* The last PE to arrive opens the round, the others wait for it.
SetOrGet(p, v) ==
    IF v = NPEs THEN Do(p, "set", "SET", Key(p, "W"), SMEM_GROUP_SET_STR)
    ELSE Do(p, "get", "GET", Key(p, "W"), <<>>)

\* Variant of Removes that removes the previous round.
RemovesPrevious(p, v) == IF v = 1 /\ Sn(p) > 1 THEN {Sn(p) - 1} ELSE {}

\* Variant of Removes that never cleans up.
RemovesNothing(p, v) == {}

\* The first PE to arrive removes the round before the last.
Removes(p, v) ==
    IF v = 1 /\ Sn(p) > REMOVE_INTERVAL THEN {Sn(p) - REMOVE_INTERVAL} ELSE {}

Added(p) ==
    \E o \in Outcomes(p) :
        /\ Ends(p, "add", o)
        /\ IF o.code # "SUCCESS" THEN Return(p, "ERROR") /\ UNCHANGED val
           ELSE /\ val' = [val EXCEPT ![p] = o.value[1]]
                /\ IF Removes(p, o.value[1]) = {} THEN SetOrGet(p, o.value[1])
                   ELSE \E sn \in Removes(p, o.value[1]) :
                          Do(p, "rmAdd", "REMOVE", <<Kind(p), sn, "A">>, <<>>)
        /\ UNCHANGED recvBuf

\* Whether the removals succeed is ignored.
RemovedAdd(p) ==
    \E o \in Outcomes(p) :
        /\ Ends(p, "rmAdd", o)
        /\ \E sn \in Removes(p, val[p]) :
               Do(p, "rmWait", "REMOVE", <<Kind(p), sn, "W">>, <<>>)
        /\ UNCHANGED <<val, recvBuf>>

RemovedWait(p) ==
    \E o \in Outcomes(p) :
        /\ Ends(p, "rmWait", o)
        /\ SetOrGet(p, val[p])
        /\ UNCHANGED <<val, recvBuf>>

HasSet(p) ==
    \E o \in Outcomes(p) :
        /\ Ends(p, "set", o)
        /\ IF o.code # "SUCCESS" THEN Return(p, "ERROR")
           ELSE Do(p, "get", "GET", Key(p, "W"), <<>>)
        /\ UNCHANGED <<val, recvBuf>>

\* The wait for the round to open has ended well.
Opened(o) == o.code = "SUCCESS" /\ o.value = SMEM_GROUP_SET_STR

HasWaited(p) ==
    \E o \in Outcomes(p) :
        /\ Ends(p, "get", o)
        /\ IF ~Opened(o) THEN Return(p, "ERROR")
           ELSE IF Kind(p) = "B" THEN Return(p, "OK")
           ELSE Do(p, "data", "GET", Key(p, "A"), <<>>)
        /\ UNCHANGED <<val, recvBuf>>

\* Variant of SortGatherRecv that keeps the order of arrival.
ArrivalOrder(output) == [i \in PEs |-> output[i + 1]]

\* Contributions are put in the order of the ranks they start with, and of
\* their arrival.
SortGatherRecv(output) ==
    LET rank(i) == output[i] % NPEs
        order == CHOOSE f \in Bijection(DOMAIN output, DOMAIN output) :
                     \A i, j \in DOMAIN output : i < j =>
                         \/ rank(f[i]) < rank(f[j])
                         \/ rank(f[i]) = rank(f[j]) /\ f[i] < f[j]
    IN  [i \in PEs |-> output[order[i + 1]]]

HasData(p) ==
    \E o \in Outcomes(p) :
        /\ Ends(p, "data", o)
        /\ IF o.code # "SUCCESS" \/ Len(o.value) # NPEs
           THEN Return(p, "ERROR") /\ UNCHANGED recvBuf
           ELSE /\ Return(p, "OK")
                /\ recvBuf' = [recvBuf EXCEPT ![p] =
                       [i \in DOMAIN @ \cup {started[p]} |->
                          IF i = started[p] THEN SortGatherRecv(o.value) ELSE @[i]]]
        /\ UNCHANGED val

\* PE 0 leaves the last barrier of finalize and destroys the store.  If the
\* barrier fails, finalize returns and the store stays.
DestroyStore ==
    /\ Len(results[0]) = Len(program) /\ results[0][Len(program)] = "OK"
    /\ Shutdown
    /\ UNCHANGED groupVars

Collective(p) ==
    \/ Begin(p) \/ Added(p) \/ RemovedAdd(p) \/ RemovedWait(p)
    \/ HasSet(p) \/ HasWaited(p) \/ HasData(p)

AllDone == \A p \in PEs : Finished(p)

\* Nothing moves: each PE has finished or waits in the store for a key.
Stalled ==
    \A p \in PEs :
        IF pending[p] = {} THEN Finished(p)
        ELSE \E w \in waitCtx : w.pe = p /\ w.seq \in pending[p]

Timer == TimerThreadTask(Stalled) /\ UNCHANGED groupVars

Next ==
    \/ \E p \in PEs : Collective(p)
    \/ \E p \in PEs : (Handler(p) \/ DropReply(p)) /\ UNCHANGED groupVars
    \/ Timer
    \/ DestroyStore

Spec == Init /\ [][Next]_vars

(* Each PE goes on, each link delivers, the server serves each link and its *)
(* timer thread runs.                                                       *)
Fairness ==
    /\ \A p \in PEs : WF_vars(Collective(p))
    /\ \A p \in PEs : WF_vars(Handler(p) /\ UNCHANGED groupVars)
    /\ WF_vars(Timer)

FairSpec == Spec /\ Fairness
-----------------------------------------------------------------------------
Keys == {"B", "G"} \X Nat \X {"A", "W"}

(* Requests, answers, waiters and the state of every PE have their types,   *)
(* and a PE waits for exactly one answer while it is in a collective.       *)
TypeOK ==
    /\ late \in 0 .. maxLate /\ running \in BOOLEAN
    /\ DOMAIN kvStore \subseteq Keys
    /\ \A k \in DOMAIN kvStore : kvStore[k] \in Seq(Nat)
    /\ waitCtx \subseteq [pe : PEs, seq : Nat, key : Keys]
    /\ \A p \in PEs :
         /\ \A i \in DOMAIN requests[p] : LET r == requests[p][i] IN
              /\ r.pe = p /\ r.seq \in 1 .. seqNo[p] /\ r.key \in Keys
              /\ r.op \in {"SET", "GET", "ADD", "REMOVE", "APPEND"}
              /\ r.value \in Seq(Nat)
         /\ started[p] \in 0 .. Len(program)
         /\ results[p] \in Seq({"OK", "ERROR"})
         /\ pc[p] \in Operations \cup {"idle"}
         /\ val[p] \in 0 .. NPEs
         /\ pending[p] = IF pc[p] = "idle" THEN {} ELSE {seqNo[p]}
         /\ Len(results[p]) = IF pc[p] = "idle" THEN started[p] ELSE started[p] - 1
    /\ \A r \in replies :
         /\ r.pe \in PEs /\ r.seq \in 1 .. seqNo[r.pe] /\ r.value \in Seq(Nat)
         /\ r.code \in {"SUCCESS", "NOT_EXIST", "TIMEOUT"}

\* How the last barrier of p ended.
LastBarrier(p) ==
    LET mine == {i \in DOMAIN results[p] : program[i] = "B"}
    IN  IF mine = {} THEN "none"
        ELSE results[p][CHOOSE i \in mine : \A j \in mine : j <= i]

Barrier == INSTANCE ControlBarrier WITH
    entered <- [p \in PEs |-> CountOf("B", started[p])],
    left <- [p \in PEs |-> CountOf("B", Len(results[p]))],
    result <- [p \in PEs |-> LastBarrier(p)]

(* GroupBarrier is the control barrier the host library relies on: a PE     *)
(* gets OK only after all PEs have entered this barrier, through any number *)
(* of barriers, with late answers, expired waits and removed rounds.        *)
ImplementsControlBarrier == Barrier!BarrierSpec

(* An all-gather that returns OK has given the caller what each PE sent in  *)
(* this very round, in the order of the ranks.                              *)
GatherExact ==
    \A p \in PEs : \A i \in DOMAIN recvBuf[p] :
        recvBuf[p][i] = [q \in PEs |-> Contribution(q, CountOf("G", i))]

(* No GET waits for a key the store has: a handler that creates the key     *)
(* wakes the waiters in the same critical section, and the others need not. *)
NoLostWakeup == \A w \in waitCtx : ~Exists(w.key)

(* A request is answered once: it is queued, waits, or has its answer, and  *)
(* the timer and a wake-up never both answer it.                            *)
AnsweredOnce ==
    /\ \A r, s \in replies : r.pe = s.pe /\ r.seq = s.seq => r = s
    /\ \A w \in waitCtx : \A r \in replies : ~(r.pe = w.pe /\ r.seq = w.seq)

\* The rounds of a kind that have keys in the store.
Rounds(kind) == {k[2] : k \in {key \in DOMAIN kvStore : key[1] = kind}}

(* The store does not grow with the number of collectives: while nothing    *)
(* times out, at most REMOVE_INTERVAL + 2 rounds of a kind have keys.       *)
StoreBounded ==
    late = 0 => \A kind \in {"B", "G"} :
                   Cardinality(Rounds(kind)) <= REMOVE_INTERVAL + 2

(* While nothing times out, only the last barrier of finalize can fail, and *)
(* only because PE 0 has left it and destroyed the store under the others   *)
(* (aclshmemi_finalize_impl); even then they have all arrived in it.        *)
OnlyLastBarrierFails ==
    late = 0 => \A p \in PEs : \A i \in DOMAIN results[p] :
        results[p][i] = "ERROR" =>
            /\ i = Len(program) /\ ~running
            /\ \A q \in PEs : started[q] = Len(program)

(* Every PE gets to the end of its program, or out of finalize at its first *)
(* barrier: every collective call returns on every PE, whatever times out.  *)
AlwaysReturns == <>AllDone
=============================================================================
