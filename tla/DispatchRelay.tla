---------------------------- MODULE DispatchRelay ----------------------------
(***************************************************************************)
(* One Pull V2 Dispatch launch on the INC around the parse that module      *)
(* DispatchParse models: block 0 reserves the journal slot; after the       *)
(* prefix the blocks take the roles of layout producer, metadata sideband   *)
(* and hidden relay, which run without a barrier between them; then block 0 *)
(* collects the errors, seals or aborts the journal, and publishes the      *)
(* destination completions and, last, the source ACKs.                      *)
(*                                                                          *)
(* Data abstraction: a (source, channel) is one transfer; what a            *)
(* destination holds of it is "cur" (this wave's rows), "next" (the worker  *)
(* has reused the source slot) or "junk" (placed by an unwritten layout).   *)
(***************************************************************************)
EXTENDS Integers, FiniteSets

CONSTANTS
    W,           \* worker_count
    NB,          \* blocks of the launch
    Channels,    \* channels_per_source
    Dest,        \* source -> destinations of its tokens ({}: no tokens)
    Uniform,     \* the journal carries the uniform-destinations flag
    Multiple8,   \* every token_count is a multiple of eight
    AlignedRows, \* row_bytes is a multiple of the cacheline
    Launches,    \* the launch conditions to start from
    SpinBounds   \* may spin_cap be reached? (a set of Booleans)

Sources == 0 .. W - 1
Blocks  == 0 .. NB - 1
Chans   == 0 .. Channels - 1

Cohort == NB \div W
Active == Cohort * W            \* active_parser_blocks
RelayCount == W * Channels      \* required_channels
SideBegin == Active - W         \* uniform_sideband_begin

Statuses == {"OK", "INVALID_ARGUMENT", "INVALID_STATE", "INVALID_READY",
             "CAPACITY_EXCEEDED", "READY_TIMEOUT", "DIGEST_MISMATCH"}
JournalStates == {"FREE", "DISPATCH_OPEN", "DISPATCH_SEALED",
                  "COMBINE_ACTIVE", "COMPLETE", "ABORTED"}
\* What block 0 finds in the header of the slot: magic zero; magic, ABI and
\* size of this kernel; its magic, but another ABI or size; another magic.
Headers == {"blank", "ours", "otherAbi", "foreign"}

\* launch_valid: a cohort for every source, and room for the relay channels
\* beside the sideband.
ASSUME GridAssumption ==
    /\ W \in Nat \ {0} /\ NB \in Nat \ {0} /\ Channels \in Nat \ {0}
    /\ Active > W /\ RelayCount <= Active - W
    /\ Dest \in [Sources -> SUBSET Sources]
    /\ Uniform \in BOOLEAN /\ Multiple8 \in BOOLEAN /\ AlignedRows \in BOOLEAN
    /\ SpinBounds \subseteq BOOLEAN
    /\ Launches \subseteq [valid : BOOLEAN, header : Headers,
                           journal : JournalStates, mine : BOOLEAN,
                           verdict : Statuses, digest : [Sources -> BOOLEAN]]

VARIABLES
    launch,     \* the conditions of this launch (never changes)
    bounded,    \* may a spin reach spin_cap? (never changes)
    journal, mine,  \* state of the journal slot; does it name this wave?
    status,
    srcError,   \* source_errors
    line,       \* parser -> word 0 of its block_status line
    layout,     \* parser -> are its final rows and assignments written?
                \* (nothing is to be written for an empty source)
    published,  \* destination -> kDestinationMetadataPublished
    staged,     \* inc_slots: source -> hidden pulled by the safe relay
    pc, syncs,
    cursor,     \* the loop variable of the role a block is in
    copy,       \* a relay's private copy of word 0 of its line
    ub, puts,   \* a relay's unified buffer and the PUTs in flight from it
    slot,       \* source -> what the worker's source slot holds
    hidden,     \* source, channel, destination -> rows at the destination
    meta,       \* destination -> its metadata: "none" | "full" | "junk"
    completion, ack

input    == <<launch, bounded>>
roleVars == <<line, layout, published, staged, cursor, copy, ub, puts>>
outVars  == <<slot, hidden, meta, completion, ack>>
jVars    == <<journal, mine, status, srcError>>
vars == <<input, jVars, roleVars, pc, syncs, outVars>>

Tokens(s) == Dest[s] # {}
Data == {"none", "cur", "next", "junk"}
Payload(d) == [s \in Sources |-> [c \in Chans |-> [e \in Sources |-> d]]]

Init ==
    /\ launch \in Launches
    /\ bounded \in SpinBounds
    /\ journal = launch.journal /\ mine = launch.mine
    /\ status = "OK"
    /\ srcError = [s \in Sources |-> "OK"]
    /\ line = [p \in 0 .. Active - 1 |-> "OK"]
    /\ layout = [p \in 0 .. Active - 1 |-> ~Tokens(p \div Cohort)]
    /\ published = [d \in Sources |-> FALSE]
    /\ staged = [s \in Sources |-> "none"]
    /\ pc = [b \in Blocks |-> IF b = 0 THEN "reserve" ELSE "wait"]
    /\ syncs = [b \in Blocks |-> IF b = 0 THEN 0 ELSE 1]
    /\ cursor = [b \in Blocks |-> 0]
    /\ copy = [b \in Blocks |-> "OK"]
    /\ ub = [b \in Blocks |-> "none"]
    /\ puts = [b \in Blocks |-> {}]
    /\ slot = [s \in Sources |-> "cur"]
    /\ hidden = Payload("none")
    /\ meta = [d \in Sources |-> "none"]
    /\ completion = [d \in Sources |-> "none"]
    /\ ack = [s \in Sources |-> "none"]

-----------------------------------------------------------------------------
(* Roles after the prefix. *)

\* uniform_producers_per_source: at most two, at least one or not at all.
PerSource ==
    LET free == (SideBegin - RelayCount) \div W
    IN  IF free > 2 THEN 2 ELSE free

UniformFast == Uniform /\ PerSource # 0
Parallel == UniformFast /\ Multiple8
FastRelay == UniformFast /\ AlignedRows

\* Variant of Chunks: the first parser chunk is nobody's.
ChunksShort(b) == IF b = 0 /\ ~Parallel THEN 1 .. Active - 1 ELSE {}

\* The parser chunks whose final layout block b writes: all of them by block
\* 0, or the lanes of one source split among its producers.
Chunks(b) ==
    IF ~Parallel THEN IF b = 0 THEN 0 .. Active - 1 ELSE {}
    ELSE {p \in 0 .. Active - 1 :
             /\ b >= RelayCount /\ b < RelayCount + (PerSource * W)
             /\ p \div Cohort = (b - RelayCount) \div PerSource
             /\ (p % Cohort) % PerSource = (b - RelayCount) % PerSource}

IsProducer(b) == Chunks(b) # {}
IsSide(b) == SideBegin <= b /\ b < Active
\* One block per (source, channel), or block 0 alone on the safe path.
IsRelay(b) == IF FastRelay THEN b < RelayCount ELSE b = 0
LanesOf(s) == {p \in 0 .. Active - 1 : p \div Cohort = s}

Goto(b, l) == pc' = [pc EXCEPT ![b] = l]
Arrive(b) == /\ Goto(b, "wait")
             /\ syncs' = [syncs EXCEPT ![b] = @ + 1]
\* The next role of a block whose previous one is over.
Enter(b, l) == IF l = "join" THEN Arrive(b) ELSE Goto(b, l) /\ UNCHANGED syncs

AfterProduce(b) == IF IsSide(b) THEN "side"
                   ELSE IF ~IsRelay(b) THEN "join"
                   ELSE IF FastRelay THEN "get" ELSE "pull"
FirstRole(b) == IF status # "OK" THEN "join"
                ELSE IF IsProducer(b) THEN "produce" ELSE AfterProduce(b)

-----------------------------------------------------------------------------
(* Block 0 before the roles. *)

\* Phase 0: a slot that was never used, is free, complete or aborted is taken
\* for this wave; any other slot, or a header of another kind, fails the
\* launch.
Takes == \/ launch.header = "blank"
         \/ /\ launch.header = "ours"
            /\ launch.journal \in {"FREE", "COMPLETE", "ABORTED"}

Reserve(b) ==
    /\ pc[b] = "reserve" /\ launch.valid
    /\ IF Takes
       THEN journal' = "DISPATCH_OPEN" /\ mine' = TRUE /\ UNCHANGED status
       ELSE status' = "INVALID_STATE" /\ UNCHANGED <<journal, mine>>
    /\ Goto(b, "prefix")
    /\ UNCHANGED <<input, srcError, roleVars, syncs, outVars>>

\* An invalid launch returns at once: nothing is published.
Reject(b) ==
    /\ pc[b] = "reserve" /\ ~launch.valid
    /\ status' = "INVALID_ARGUMENT"
    /\ pc' = [c \in Blocks |-> "done"]
    /\ UNCHANGED <<input, journal, mine, srcError, roleVars, syncs, outVars>>

\* The verdict of the parse (DispatchParse); the chunks of empty sources are
\* published at once.
Prefix(b) ==
    /\ pc[b] = "prefix"
    /\ status' = IF status = "OK" THEN launch.verdict ELSE status
    /\ line' = [p \in DOMAIN line |->
                   IF status' = "OK" /\ ~Tokens(p \div Cohort) THEN "PASS2"
                   ELSE line[p]]
    /\ Arrive(b)
    /\ UNCHANGED <<input, journal, mine, srcError, layout, published, staged,
                   cursor, copy, ub, puts, outVars>>

AllArrived(b) == \A c \in Blocks : syncs[c] >= syncs[b]

\* Leave a SyncAll.  A block without work in the next phase goes straight to
\* the next SyncAll.
LeaveBarrier(b) ==
    /\ pc[b] = "wait" /\ AllArrived(b)
    /\ CASE syncs[b] = 1 -> Enter(b, FirstRole(b))
         [] syncs[b] = 2 -> Enter(b, IF b = 0 /\ status = "OK"
                                     THEN "collect" ELSE "join")
         [] syncs[b] = 3 -> Enter(b, IF status = "OK" /\ ~UniformFast /\ b < W
                                     THEN "metadata" ELSE "join")
         [] syncs[b] = 4 -> Enter(b, IF b = 0 THEN "check" ELSE "join")
         [] OTHER -> Enter(b, IF b = 0 THEN "seal" ELSE "done")
    /\ UNCHANGED <<input, jVars, roleVars, outVars>>

-----------------------------------------------------------------------------
(* Layout producers. *)

Smallest(S) == CHOOSE i \in S : \A j \in S : i <= j
NextChunk(b) == Smallest({p \in Chunks(b) : p >= cursor[b]})

\* Phase 2: the final rows and assignments of a chunk are written ...
Produce(b) ==
    /\ pc[b] = "produce"
    /\ \E p \in Chunks(b) : p >= cursor[b]
    /\ layout' = [layout EXCEPT ![NextChunk(b)] = TRUE]
    /\ Goto(b, "publish")
    /\ UNCHANGED <<input, jVars, line, published, staged, cursor, copy, ub,
                   puts, syncs, outVars>>

\* ... and flushed before Pass2Ready is published for it.
PublishPass2(b) ==
    /\ pc[b] = "publish"
    /\ line' = [line EXCEPT ![NextChunk(b)] = "PASS2"]
    /\ cursor' = [cursor EXCEPT ![b] = NextChunk(b) + 1]
    /\ Goto(b, "produce")
    /\ UNCHANGED <<input, jVars, layout, published, staged, copy, ub, puts,
                   syncs, outVars>>

ProduceDone(b) ==
    /\ pc[b] = "produce"
    /\ \A p \in Chunks(b) : p < cursor[b]
    /\ cursor' = [cursor EXCEPT ![b] = 0]
    /\ Enter(b, AfterProduce(b))
    /\ UNCHANGED <<input, jVars, line, layout, published, staged, copy, ub,
                   puts, outVars>>

-----------------------------------------------------------------------------
(* Metadata sideband: block SideBegin + d serves source and destination d. *)

Side(b) == b - SideBegin
Metadata == IF \A p \in DOMAIN layout : layout[p] THEN "full" ELSE "junk"

\* Variant of WaitsFor: only the chunks of the block's own source.
WaitsForOwn(b) == LanesOf(Side(b))

\* The parser chunks whose Pass2Ready the sideband waits for: all of them.
WaitsFor(b) == 0 .. Active - 1

\* Variant of WaitParser that runs one chunk too far.
WaitParserLong(b) ==
    /\ pc[b] = "side" /\ cursor[b] <= Active
    /\ cursor[b] \in WaitsFor(b) => line[cursor[b]] = "PASS2"
    /\ cursor' = [cursor EXCEPT ![b] = @ + 1]
    /\ UNCHANGED <<input, jVars, line, layout, published, staged, copy, ub,
                   puts, pc, syncs, outVars>>

\* WaitParserReady, one chunk after the other.
WaitParser(b) ==
    /\ pc[b] = "side" /\ cursor[b] < Active
    /\ cursor[b] \in WaitsFor(b) => line[cursor[b]] = "PASS2"
    /\ cursor' = [cursor EXCEPT ![b] = @ + 1]
    /\ UNCHANGED <<input, jVars, line, layout, published, staged, copy, ub,
                   puts, pc, syncs, outVars>>

\* Variant of WaitParserTimeout: the wait has no deadline.
WaitParserForever(b) == FALSE

WaitParserTimeout(b) ==
    /\ bounded
    /\ pc[b] = "side" /\ cursor[b] < Active /\ line[cursor[b]] # "PASS2"
    /\ srcError' = [srcError EXCEPT ![Side(b)] = "READY_TIMEOUT"]
    /\ Arrive(b)
    /\ UNCHANGED <<input, journal, mine, status, roleVars, outVars>>

\* The digest of source d is checked; on the uniform path the metadata of
\* destination d is put, whatever the digest, while the relays still run.
Sideband(b) ==
    LET d == Side(b) IN
    /\ pc[b] = "side" /\ cursor[b] = Active
    /\ srcError' = [srcError EXCEPT ![d] =
                       IF launch.digest[d] THEN @ ELSE "DIGEST_MISMATCH"]
    /\ IF UniformFast
       THEN /\ meta' = [meta EXCEPT ![d] = Metadata]
            /\ published' = [published EXCEPT ![d] = TRUE]
       ELSE UNCHANGED <<meta, published>>
    /\ Arrive(b)
    /\ UNCHANGED <<input, journal, mine, status, line, layout, staged, cursor,
                   copy, ub, puts, slot, hidden, completion, ack>>

-----------------------------------------------------------------------------
(* Hidden relay. *)

RelaySource(b) == b % W
RelayChannel(b) == b \div W

\* RelayUniformDestinations: the hidden rows of a (source, channel) are
\* pulled into the unified buffer; a source without tokens has none.
RelayGet(b) ==
    /\ pc[b] = "get"
    /\ Goto(b, IF Tokens(RelaySource(b)) THEN "land" ELSE "quiet")
    /\ UNCHANGED <<input, jVars, roleVars, syncs, outVars>>

\* The GET lands and the PUTs to all destinations are issued.
RelayLand(b) ==
    /\ pc[b] = "land"
    /\ ub' = [ub EXCEPT ![b] = slot[RelaySource(b)]]
    /\ puts' = [puts EXCEPT ![b] = Dest[RelaySource(b)]]
    /\ Goto(b, "quiet")
    /\ UNCHANGED <<input, jVars, line, layout, published, staged, cursor,
                   copy, syncs, outVars>>

\* A PUT becomes visible at its destination.
LandPut(b, d) ==
    /\ d \in puts[b]
    /\ puts' = [puts EXCEPT ![b] = @ \ {d}]
    /\ hidden' = [hidden EXCEPT ![RelaySource(b)][RelayChannel(b)][d] = ub[b]]
    /\ UNCHANGED <<input, jVars, line, layout, published, staged, cursor,
                   copy, ub, pc, syncs, slot, meta, completion, ack>>

\* aclshmemx_mte_quiet.
RelayQuiet(b) ==
    /\ pc[b] = "quiet" /\ puts[b] = {}
    /\ Goto(b, "stamp")
    /\ UNCHANGED <<input, jVars, roleVars, syncs, outVars>>

\* RelayDestinationPackedSafe, first half: block 0 pulls the sources one
\* after the other into the INC slots ...
SafePull(b) ==
    /\ pc[b] = "pull" /\ cursor[b] < W
    /\ staged' = [staged EXCEPT ![cursor[b]] = slot[cursor[b]]]
    /\ cursor' = [cursor EXCEPT ![b] = @ + 1]
    /\ UNCHANGED <<input, jVars, line, layout, published, copy, ub, puts, pc,
                   syncs, outVars>>

SafePulled(b) ==
    /\ pc[b] = "pull" /\ cursor[b] = W
    /\ cursor' = [cursor EXCEPT ![b] = 0]
    /\ Goto(b, "pack")
    /\ UNCHANGED <<input, jVars, line, layout, published, staged, copy, ub,
                   puts, syncs, outVars>>

\* ... second half: per destination it packs the rows in the order of the
\* layout, puts them and waits.  It waits for no Pass2Ready: a row whose
\* layout is not written yet is packed from an arbitrary place.
SafePack(b) ==
    LET d == cursor[b] IN
    /\ pc[b] = "pack" /\ d < W
    /\ hidden' = [s \in Sources |-> [c \in Chans |->
                     [hidden[s][c] EXCEPT ![d] =
                         IF d \notin Dest[s] THEN @
                         ELSE IF \A p \in LanesOf(s) : layout[p]
                              THEN staged[s] ELSE "junk"]]]
    /\ cursor' = [cursor EXCEPT ![b] = @ + 1]
    /\ UNCHANGED <<input, jVars, line, layout, published, staged, copy, ub,
                   puts, pc, syncs, slot, meta, completion, ack>>

SafePacked(b) ==
    /\ pc[b] = "pack" /\ cursor[b] = W
    /\ Goto(b, "stamp")
    /\ UNCHANGED <<input, jVars, roleVars, syncs, outVars>>

\* A relay writes its end time into its block_status line, whose word 0 the
\* producers write: it loads the line ...
StampLoad(b) ==
    /\ pc[b] = "stamp"
    /\ copy' = [copy EXCEPT ![b] = line[b]]
    /\ Goto(b, "stampstore")
    /\ UNCHANGED <<input, jVars, line, layout, published, staged, cursor, ub,
                   puts, syncs, outVars>>

\* ... and writes the whole line back.
StampStore(b) ==
    /\ pc[b] = "stampstore"
    /\ line' = [line EXCEPT ![b] = copy[b]]
    /\ Arrive(b)
    /\ UNCHANGED <<input, jVars, layout, published, staged, cursor, copy, ub,
                   puts, outVars>>

-----------------------------------------------------------------------------
(* Join, publication check and the records. *)

BadSources == {s \in Sources : srcError[s] # "OK"}

\* Variant of CollectVerdict that ignores the sideband.
CollectNothing == "OK"

CollectVerdict ==
    IF BadSources = {} THEN "OK" ELSE srcError[Smallest(BadSources)]

\* After the join block 0 takes the first source error.
Collect(b) ==
    /\ pc[b] = "collect"
    /\ status' = CollectVerdict
    /\ Arrive(b)
    /\ UNCHANGED <<input, journal, mine, srcError, roleVars, outVars>>

\* Off the uniform path block d puts the metadata of destination d.
PutMetadata(b) ==
    /\ pc[b] = "metadata"
    /\ meta' = [meta EXCEPT ![b] = Metadata]
    /\ published' = [published EXCEPT ![b] = TRUE]
    /\ Arrive(b)
    /\ UNCHANGED <<input, jVars, line, layout, staged, cursor, copy, ub, puts,
                   slot, hidden, completion, ack>>

\* Block 0 checks that every destination's metadata was published.
CheckPublished(b) ==
    /\ pc[b] = "check"
    /\ status' = IF status = "OK" /\ \E d \in Sources : ~published[d]
                 THEN "INVALID_STATE" ELSE status
    /\ Arrive(b)
    /\ UNCHANGED <<input, journal, mine, srcError, roleVars, outVars>>

\* Variant of Mine that does not look whose journal it is.
AnyWave == TRUE

\* Magic, generation and sequence of the header are those of this wave; ABI
\* and size are not looked at any more.
Mine == launch.header # "foreign" /\ mine

\* Variant of Seal that does not look at the verdict.
SealAlways(b) ==
    /\ pc[b] = "seal"
    /\ journal' = IF Mine THEN "DISPATCH_SEALED" ELSE journal
    /\ Goto(b, "completions")
    /\ UNCHANGED <<input, mine, status, srcError, roleVars, syncs, outVars>>

\* The journal is sealed, or aborted if it is this wave's.
Seal(b) ==
    /\ pc[b] = "seal"
    /\ journal' = IF status = "OK" THEN "DISPATCH_SEALED"
                  ELSE IF Mine THEN "ABORTED" ELSE journal
    /\ Goto(b, "completions")
    /\ UNCHANGED <<input, mine, status, srcError, roleVars, syncs, outVars>>

\* Variant of PublishDestinationCompletion that stops one rank early.
CompletionsShort(b, d) ==
    /\ pc[b] = "completions" /\ completion[d] = "none"
    /\ \A e \in Sources : e < d => completion[e] # "none"
    /\ completion' = [completion EXCEPT ![d] = status]
    /\ Goto(b, IF d = W - 2 THEN "acks" ELSE "completions")
    /\ UNCHANGED <<input, jVars, roleVars, syncs, slot, hidden, meta, ack>>

\* The destination completions in rank order ...
PublishDestinationCompletion(b, d) ==
    /\ pc[b] = "completions" /\ completion[d] = "none"
    /\ \A e \in Sources : e < d => completion[e] # "none"
    /\ completion' = [completion EXCEPT ![d] = status]
    /\ Goto(b, IF d = W - 1 THEN "acks" ELSE "completions")
    /\ UNCHANGED <<input, jVars, roleVars, syncs, slot, hidden, meta, ack>>

\* ... and then the source ACKs, which release the source slots.
PublishSourceAck(b, s) ==
    /\ pc[b] = "acks" /\ ack[s] = "none"
    /\ \A r \in Sources : r < s => ack[r] # "none"
    /\ ack' = [ack EXCEPT ![s] = status]
    /\ Goto(b, IF s = W - 1 THEN "done" ELSE "acks")
    /\ UNCHANGED <<input, jVars, roleVars, syncs, slot, hidden, meta,
                   completion>>

\* The worker fills its source slot for a later wave once it has the ACK.
ReuseSlot(s) ==
    /\ ack[s] # "none" /\ slot[s] = "cur"
    /\ slot' = [slot EXCEPT ![s] = "next"]
    /\ UNCHANGED <<input, jVars, roleVars, pc, syncs, hidden, meta,
                   completion, ack>>

-----------------------------------------------------------------------------

BlockStep(b) ==
    \/ Reserve(b) \/ Reject(b) \/ Prefix(b) \/ LeaveBarrier(b)
    \/ Produce(b) \/ PublishPass2(b) \/ ProduceDone(b)
    \/ WaitParser(b) \/ Sideband(b)
    \/ RelayGet(b) \/ RelayLand(b) \/ RelayQuiet(b)
    \/ SafePull(b) \/ SafePulled(b) \/ SafePack(b) \/ SafePacked(b)
    \/ StampLoad(b) \/ StampStore(b)
    \/ Collect(b) \/ PutMetadata(b) \/ CheckPublished(b) \/ Seal(b)
    \/ \E d \in Sources : \/ PublishDestinationCompletion(b, d)
                          \/ PublishSourceAck(b, d)

Transfer(b) == \E d \in puts[b] : LandPut(b, d)

Next ==
    \/ \E s \in Sources : ReuseSlot(s)
    \/ \E b \in Blocks : BlockStep(b) \/ Transfer(b) \/ WaitParserTimeout(b)

\* Blocks run, transfers finish and spin counters advance.
Fairness == \A b \in Blocks : /\ WF_vars(BlockStep(b))
                              /\ WF_vars(Transfer(b))
                              /\ WF_vars(WaitParserTimeout(b))

Spec == Init /\ [][Next]_vars
FairSpec == Spec /\ Fairness

-----------------------------------------------------------------------------
(* Properties. *)

GridTypes ==
    /\ pc \in [Blocks -> {"reserve", "prefix", "wait", "produce", "publish",
                          "side", "get", "land", "quiet", "pull", "pack",
                          "stamp", "stampstore", "collect", "metadata",
                          "check", "seal", "completions", "acks", "done"}]
    /\ syncs \in [Blocks -> 0 .. 5] /\ cursor \in [Blocks -> 0 .. Active]
    /\ copy \in [Blocks -> {"OK", "PASS2"}] /\ ub \in [Blocks -> Data]
    /\ puts \in [Blocks -> SUBSET Sources]

MemoryTypes ==
    /\ journal \in JournalStates /\ mine \in BOOLEAN /\ status \in Statuses
    /\ srcError \in [Sources -> Statuses]
    /\ line \in [0 .. Active - 1 -> {"OK", "PASS2"}]
    /\ layout \in [0 .. Active - 1 -> BOOLEAN]
    /\ published \in [Sources -> BOOLEAN] /\ staged \in [Sources -> Data]
    /\ slot \in [Sources -> {"cur", "next"}]
    /\ hidden \in [Sources -> [Chans -> [Sources -> Data]]]
    /\ meta \in [Sources -> {"none", "full", "junk"}]
    /\ completion \in [Sources -> Statuses \cup {"none"}]
    /\ ack \in [Sources -> Statuses \cup {"none"}]

\* Every variable keeps to its set; no block arrives at a sixth SyncAll of
\* this half, and no block stamps the line of a parser that does not exist.
TypeOK == /\ launch \in Launches /\ bounded \in SpinBounds
          /\ GridTypes /\ MemoryTypes

\* A destination completion that says OK is published only when the
\* destination's layout and metadata are complete and it holds this wave's
\* rows of every (source, channel) routed to it.
CompletionIsExact ==
    \A d \in Sources : completion[d] = "OK" =>
        /\ meta[d] = "full"
        /\ \A s \in Sources, c \in Chans :
              d \in Dest[s] => hidden[s][c][d] = "cur"
        /\ \A s \in Sources : launch.digest[s]

\* The source ACK releases the source slot: none is published while a relay
\* still reads or writes, or before every destination has its completion.
AckIsLast ==
    (\E s \in Sources : ack[s] # "none") =>
        /\ \A d \in Sources : completion[d] # "none"
        /\ \A b \in Blocks : /\ puts[b] = {}
                             /\ pc[b] \notin {"get", "land", "pull"}

\* Every record of the wave carries one verdict, and it is OK exactly when
\* the journal of this wave is sealed.  In particular a second launch of a
\* wave that is already sealed publishes failures, and leaves no sealed
\* journal behind them that a Combine could still take.
OneVerdict ==
    \A v \in ({ack[s] : s \in Sources} \cup {completion[s] : s \in Sources})
                \ {"none"} :
        v = status /\ (v = "OK" <=> journal = "DISPATCH_SEALED" /\ Mine)

\* A journal slot that another wave still owns, or whose header is not of
\* this kernel, is never changed by this launch, however it ends.  The one
\* exception the code makes is a header with another ABI or size that bears
\* the ids of this very wave: it is aborted.
ForeignJournalKept ==
    (\/ launch.header = "foreign"
     \/ ~launch.mine /\ launch.header = "otherAbi"
     \/ /\ ~launch.mine /\ launch.header = "ours"
        /\ launch.journal \in {"DISPATCH_OPEN", "DISPATCH_SEALED",
                               "COMBINE_ACTIVE"})
        => journal = launch.journal

\* A Pass2Ready that a producer has published is never lost again to another
\* block's write of the same cacheline.
PublicationKept ==
    [][\A p \in DOMAIN line : line[p] = "PASS2" => line'[p] = "PASS2"]_vars

Terminated == \A b \in Blocks : pc[b] = "done"

\* Until every block has reached the end of the kernel some block can go on:
\* all of them never wait for each other, or for a publication that was lost.
\* No step of a launch can be undone, so this is termination.
NeverStuck ==
    Terminated \/ ENABLED (\E b \in Blocks : \/ BlockStep(b) \/ Transfer(b)
                                            \/ WaitParserTimeout(b))

WellFormed == /\ launch.valid /\ Takes /\ launch.verdict = "OK"
              /\ \A s \in Sources : launch.digest[s]

\* With no deadline every launch ends, a well-formed one with a sealed
\* journal: no role waits for a chunk that nobody produces, or for a producer
\* that waits for it.
Seals == ~bounded => <>[](/\ Terminated
                          /\ WellFormed => journal = "DISPATCH_SEALED")
=============================================================================
