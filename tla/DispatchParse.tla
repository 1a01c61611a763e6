---------------------------- MODULE DispatchParse ----------------------------
(***************************************************************************)
(* The first half of one Pull V2 Dispatch launch: every worker pushes its   *)
(* route metadata and then one READY line to the INC; on the INC a cohort   *)
(* of C parser blocks per source waits for the READY, refreshes the inbox,  *)
(* checks the packet and counts its routes; after a SyncAll block 0 turns   *)
(* the cohorts' findings into the status of the wave.                       *)
(*                                                                          *)
(* READY mailbox and metadata inbox have one entry per source, not per ring *)
(* slot: they hold the residue of an earlier wave until they are written.   *)
(* What a packet contains is abstracted to the verdict of each check made   *)
(* of it, its number of tokens and the tokens whose record is invalid.      *)
(*                                                                          *)
(* Caches.  An AIV reads INC memory through its scalar cache.  What one     *)
(* lane has refreshed counts as refreshed for its whole cohort: that is     *)
(* what the kernel builds on when every lane refreshes a share of the inbox *)
(* and parses all of it.  It assumes that the caches are shared, or that no *)
(* AIV comes to a launch with old lines of the inbox in a cache of its own. *)
(* ownCaches says whether a line an AIV has loaded in this launch stays in  *)
(* a cache of its own until that AIV invalidates or evicts it.              *)
(***************************************************************************)
EXTENDS Integers, FiniteSets

CONSTANTS
    W,            \* worker_count
    C,            \* parser_cohort
    Waves         \* the waves to start from: the packets the workers have
                  \* prepared, what the prefix will find of their totals, the
                  \* workers that appear, whether spin_cap may be reached, and
                  \* whether every AIV has a scalar cache of its own

Sources == 0 .. W - 1
Lanes   == 0 .. C - 1
Blocks  == 0 .. (W * C) - 1

Statuses == {"OK", "INVALID_READY", "INVALID_HEADER", "SIZE_OVERFLOW",
             "INVALID_TOKEN", "INVALID_ASSIGNMENT", "CAPACITY_EXCEEDED",
             "READY_TIMEOUT", "INVALID_STATE"}
Errors == Statuses \ {"OK"}

\* launch_valid asks for at least two parser blocks per source.
ASSUME CohortAssumption == W \in Nat \ {0} /\ C \in Nat \ {0, 1}

\* orphans: the header counts assignments although it counts no token.
Packets == {p \in [ready : BOOLEAN, header : Statuses, padding : BOOLEAN,
                   tokens : Nat, bad : SUBSET Nat, orphans : BOOLEAN] :
                /\ p.bad \subseteq 0 .. p.tokens - 1
                /\ p.orphans => p.tokens = 0}
\* What the totals are held against: journal_token_capacity,
\* row_map_capacity_entries (0: no limit), and the verdict of all that is
\* not counted in tokens (assignments, contributors, rows, cells).
Plans == [tokenCapacity : Nat, rowMapCapacity : Nat, layout : Statuses]
ASSUME WaveAssumption ==
    \A wave \in Waves :
        wave \in [packet : [Sources -> Packets], plan : Plans,
                 present : SUBSET Sources, bounded : BOOLEAN,
                 ownCaches : BOOLEAN]

VARIABLES
    packet,     \* source -> the packet its host prepared (never changes)
    plan,       \* capacities and layout of the wave (never changes)
    present,    \* the workers that launch their kernel (never changes)
    bounded,    \* may a spin reach spin_cap? (never changes)
    ownCaches,  \* has every AIV a scalar cache of its own? (never changes)
    \* the worker kernels
    sent,       \* source -> "idle" | "revoked" | "put" | "done"
    flight,     \* source -> the PUTs issued and not yet visible
    \* INC memory
    prefix,     \* source -> READY fields before publication: "stale" | "fresh"
    publication,\* source -> publication word: "zero" | "stale" | "fresh"
    inbox,      \* source -> metadata inbox: "stale" | "torn" | "fresh"
    view,       \* source -> what the INC has refreshed of each lane's range
    srcState, srcError,    \* source_state and source_errors
    metaState, blkStatus,  \* block_status words 1 and 0 of each block
    status,
    \* the parser blocks
    pc, localStatus,
    peer,       \* the lane a block waits for
    copy,       \* block -> its word 0 as block 0 last loaded it, or "none"
    parsed      \* what the block parsed: "none" | "fresh" | "stale"

workVars  == <<sent, flight, prefix, publication, inbox>>
inputVars == <<packet, plan, present, bounded, ownCaches>>
vars == <<inputVars, workVars, view, srcState, srcError, metaState, blkStatus,
          status, pc, localStatus, peer, copy, parsed>>

Src(b)  == b \div C
Lane(b) == b % C
Parts == {"metadata1", "metadata2", "ready"}

\* Phase 0 has reset the scratch of this launch; the mailbox is empty or
\* holds the READY of an earlier wave.
Init ==
    /\ \E wave \in Waves : /\ packet = wave.packet /\ plan = wave.plan
                            /\ present = wave.present
                            /\ bounded = wave.bounded
                            /\ ownCaches = wave.ownCaches
    /\ sent = [s \in Sources |-> "idle"]
    /\ flight = [s \in Sources |-> {}]
    /\ prefix = [s \in Sources |-> "stale"]
    /\ publication \in {[s \in Sources |-> "zero"], [s \in Sources |-> "stale"]}
    /\ inbox = [s \in Sources |-> "stale"]
    /\ view = [s \in Sources |-> [l \in Lanes |-> "stale"]]
    /\ srcState = [s \in Sources |-> "unset"]
    /\ srcError = [s \in Sources |-> "OK"]
    /\ metaState = [b \in Blocks |-> "unset"]
    /\ blkStatus = [b \in Blocks |-> "OK"]
    /\ status = "OK"
    /\ pc = [b \in Blocks |-> "header"]
    /\ localStatus = [b \in Blocks |-> "OK"]
    /\ peer = [b \in Blocks |-> 0]
    /\ copy = [b \in Blocks |-> "none"]
    /\ parsed = [b \in Blocks |-> "none"]

-----------------------------------------------------------------------------
(* The worker kernel. *)

incVars == <<view, srcState, srcError, metaState, blkStatus, status, pc,
             localStatus, peer, copy, parsed>>

\* Variant of Revoke that leaves the old publication in place.
KeepPublication(s) ==
    /\ s \in present /\ sent[s] = "idle"
    /\ sent' = [sent EXCEPT ![s] = "revoked"]
    /\ UNCHANGED <<inputVars, flight, prefix, publication, inbox, incVars>>

\* The publication word of the mailbox is zeroed, and the zero is visible
\* (quiet) before anything else is written.
Revoke(s) ==
    /\ s \in present /\ sent[s] = "idle"
    /\ publication' = [publication EXCEPT ![s] = "zero"]
    /\ sent' = [sent EXCEPT ![s] = "revoked"]
    /\ UNCHANGED <<inputVars, flight, prefix, inbox, incVars>>

\* Metadata prefix and READY prefix are put without a fence between them.
PutPacket(s) ==
    /\ sent[s] = "revoked"
    /\ flight' = [flight EXCEPT ![s] = Parts]
    /\ sent' = [sent EXCEPT ![s] = "put"]
    /\ UNCHANGED <<inputVars, prefix, publication, inbox, incVars>>

\* One of the PUTs in flight becomes visible, in any order.
Land(s, p) ==
    /\ p \in flight[s]
    /\ flight' = [flight EXCEPT ![s] = @ \ {p}]
    /\ IF p = "ready"
       THEN prefix' = [prefix EXCEPT ![s] = "fresh"] /\ UNCHANGED inbox
       ELSE /\ inbox' = [inbox EXCEPT ![s] =
                            IF @ = "stale" THEN "torn" ELSE "fresh"]
            /\ UNCHANGED prefix
    /\ UNCHANGED <<inputVars, sent, publication, incVars>>

\* One fence covers both PUTs, then the publication word is written.
Publish(s) ==
    /\ sent[s] = "put" /\ flight[s] = {}
    /\ publication' = [publication EXCEPT ![s] = "fresh"]
    /\ sent' = [sent EXCEPT ![s] = "done"]
    /\ UNCHANGED <<inputVars, flight, prefix, inbox, incVars>>

-----------------------------------------------------------------------------
(* The parser blocks of the INC. *)

Goto(b, l) == pc' = [pc EXCEPT ![b] = l]
Fail(b, l, e) == Goto(b, l) /\ localStatus' = [localStatus EXCEPT ![b] = e]
State(e, ok) == IF e = "OK" THEN ok ELSE e

\* ReadyValid, then ValidateHeader of the refreshed header line.
ReadyVerdict(s) ==
    IF publication[s] # "fresh" \/ ~packet[s].ready THEN "INVALID_READY"
    ELSE IF inbox[s] = "stale" THEN "INVALID_HEADER"
    ELSE packet[s].header

\* Variant of SettleHeader that tells the cohort of success only.
SettleHeaderQuietly(b, e) ==
    /\ srcError' = [srcError EXCEPT ![Src(b)] = e]
    /\ srcState' = [srcState EXCEPT ![Src(b)] =
                       IF e = "OK" THEN "HEADER" ELSE @]
    /\ Fail(b, "refresh", e)
    /\ UNCHANGED <<inputVars, workVars, view, metaState, blkStatus, status,
                   peer, copy, parsed>>

\* Lane 0 leaves its poll loop: source error and source state are written.
SettleHeader(b, e) ==
    /\ srcError' = [srcError EXCEPT ![Src(b)] = e]
    /\ srcState' = [srcState EXCEPT ![Src(b)] = State(e, "HEADER")]
    /\ Fail(b, "refresh", e)
    /\ UNCHANGED <<inputVars, workVars, view, metaState, blkStatus, status,
                   peer, copy, parsed>>

\* A zero publication word, or the READY of another wave, is polled again.
Announced(s) == publication[s] # "zero" /\ prefix[s] = "fresh"

PollReady(b) ==
    /\ pc[b] = "header" /\ Lane(b) = 0 /\ Announced(Src(b))
    /\ SettleHeader(b, ReadyVerdict(Src(b)))

PollTimeout(b) ==
    /\ bounded /\ pc[b] = "header" /\ Lane(b) = 0
    /\ SettleHeader(b, "READY_TIMEOUT")

\* What a block does to its own control state only.
Private == <<inputVars, workVars, view, srcState, srcError, metaState,
             blkStatus, status, parsed>>

\* The other lanes wait for lane 0 and take over its error.
WaitHeader(b) ==
    /\ pc[b] = "header" /\ Lane(b) # 0 /\ srcState[Src(b)] # "unset"
    /\ Fail(b, "refresh", IF srcState[Src(b)] \in Errors
                          THEN srcState[Src(b)] ELSE "OK")
    /\ UNCHANGED <<Private, peer, copy>>

WaitHeaderTimeout(b) ==
    /\ bounded
    /\ pc[b] = "header" /\ Lane(b) # 0 /\ srcState[Src(b)] = "unset"
    /\ Fail(b, "refresh", "READY_TIMEOUT")
    /\ UNCHANGED <<Private, peer, copy>>

\* Each lane refreshes a disjoint range of the metadata and says so, or
\* hands its error to the cohort.  The dcci is the lane's own; that the rest
\* of the cohort then loads the range anew is the assumption stated above.
Refresh(b) ==
    /\ pc[b] = "refresh"
    /\ IF localStatus[b] = "OK"
       THEN view' = [view EXCEPT ![Src(b)][Lane(b)] = inbox[Src(b)]]
       ELSE UNCHANGED view
    /\ metaState' = [metaState EXCEPT ![b] = State(localStatus[b], "READY")]
    /\ Goto(b, IF localStatus[b] = "OK" THEN "peers" ELSE "record")
    /\ UNCHANGED <<inputVars, workVars, srcState, srcError, blkStatus, status,
                   localStatus, peer, copy, parsed>>

\* Variants of LastPeer: one lane too few, one lane too many.
LastPeerShort == C - 2
LastPeerLong == C

\* The bound of the loop over the lanes of the cohort.
LastPeer == C - 1

PeerBlock(b) == Src(b) * C + peer[b]
PeerState(b) == metaState[PeerBlock(b)]

\* The load of a peer's metadata state brings the peer's status into the
\* cache, which is word 0 of the same line.  Only block 0 ever reads it
\* there; the line of block 0 itself is written and flushed later.
LoadPeer(b) ==
    copy' = IF b = 0 /\ PeerBlock(b) # 0
            THEN [copy EXCEPT ![PeerBlock(b)] = blkStatus[PeerBlock(b)]]
            ELSE copy

\* Every lane waits for every lane of its cohort in turn.
WaitPeer(b) ==
    /\ pc[b] = "peers" /\ PeerState(b) # "unset"
    /\ LoadPeer(b)
    /\ IF PeerState(b) # "READY"
       THEN Fail(b, "record", PeerState(b)) /\ UNCHANGED peer
       ELSE /\ peer' = [peer EXCEPT ![b] = @ + 1]
            /\ Goto(b, IF peer[b] = LastPeer THEN "cohort" ELSE "peers")
            /\ UNCHANGED localStatus
    /\ UNCHANGED Private

WaitPeerTimeout(b) ==
    /\ bounded /\ pc[b] = "peers" /\ PeerState(b) = "unset"
    /\ LoadPeer(b)
    /\ Fail(b, "record", "READY_TIMEOUT")
    /\ UNCHANGED <<Private, peer>>

\* Lane 0 checks the padding and publishes the second source state.  It does
\* so only if its own status is still OK: after a failed wait for the peers
\* the state stays HEADER and the other lanes run into their deadline.
PublishMetadataReady(b) ==
    LET e == IF packet[Src(b)].padding THEN "OK" ELSE "INVALID_HEADER"
    IN
    /\ pc[b] = "cohort" /\ Lane(b) = 0
    /\ srcError' = [srcError EXCEPT ![Src(b)] = e]
    /\ srcState' = [srcState EXCEPT ![Src(b)] = State(e, "METADATA")]
    /\ Fail(b, IF e = "OK" THEN "parse" ELSE "record", e)
    /\ UNCHANGED <<inputVars, workVars, view, metaState, blkStatus, status,
                   peer, copy, parsed>>

WaitMetadata(b) ==
    LET seen == srcState[Src(b)]
        e == IF seen \in Errors THEN seen
             ELSE IF seen # "METADATA" THEN "INVALID_STATE" ELSE "OK"
    IN
    /\ pc[b] = "cohort" /\ Lane(b) # 0 /\ seen # "HEADER"
    /\ Fail(b, IF e = "OK" THEN "parse" ELSE "record", e)
    /\ UNCHANGED <<Private, peer, copy>>

\* Variant of WaitMetadataTimeout: the wait for lane 0 has no deadline.
WaitMetadataForever(b) == FALSE

WaitMetadataTimeout(b) ==
    /\ bounded
    /\ pc[b] = "cohort" /\ Lane(b) # 0 /\ srcState[Src(b)] = "HEADER"
    /\ Fail(b, "record", "READY_TIMEOUT")
    /\ UNCHANGED <<Private, peer, copy>>

\* Variant of ParserTokenBoundary that rounds the groups down.
BoundaryRoundedDown(count, lane) ==
    LET token == 8 * (((count \div 8) * lane) \div C)
    IN  IF token < count THEN token ELSE count

\* Lane boundaries are kept on groups of eight tokens.
ParserTokenBoundary(count, lane) ==
    LET groups == (count + 7) \div 8
        token == 8 * ((groups * lane) \div C)
    IN  IF token < count THEN token ELSE count

\* The tokens that a lane validates and counts.
LaneTokens(s, l) ==
    ParserTokenBoundary(packet[s].tokens, l)
        .. ParserTokenBoundary(packet[s].tokens, l + 1) - 1

\* The lane finds an invalid record in its share, or lane 0 assignments of
\* no token.
Unsound(b) ==
    \/ packet[Src(b)].bad \cap LaneTokens(Src(b), Lane(b)) # {}
    \/ Lane(b) = 0 /\ packet[Src(b)].orphans

\* Validation and counting of the lane's tokens.  What a parse of anything
\* but this wave's metadata finds is arbitrary.
Parse(b) ==
    LET fresh == \A l \in Lanes : view[Src(b)][l] = "fresh"
    IN
    /\ pc[b] = "parse"
    /\ parsed' = [parsed EXCEPT ![b] = IF fresh THEN "fresh" ELSE "stale"]
    /\ \E e \in IF ~fresh THEN {"OK", "INVALID_TOKEN"}
                ELSE IF Unsound(b) THEN {"INVALID_TOKEN"} ELSE {"OK"} :
          Fail(b, "record", e)
    /\ UNCHANGED <<inputVars, workVars, view, srcState, srcError, metaState,
                   blkStatus, status, peer, copy>>

\* The block writes its verdict and arrives at the SyncAll.
RecordStatus(b) ==
    /\ pc[b] = "record"
    /\ blkStatus' = [blkStatus EXCEPT ![b] = localStatus[b]]
    /\ Goto(b, "barrier")
    /\ UNCHANGED <<inputVars, workVars, view, srcState, srcError, metaState,
                   status, localStatus, peer, copy, parsed>>

First(S) == CHOOSE i \in S : \A j \in S : i <= j
\* total_tokens after each number of sources.
TotalTokens(packets) ==
    LET total[n \in 0 .. W] ==
            IF n = 0 THEN 0 ELSE total[n - 1] + packets[n - 1].tokens
    IN  total

\* Variant of FitsUpTo that holds each source against the capacity by itself.
FitsAlone(s) == packet[s].tokens <= plan.tokenCapacity

\* The tokens of the sources up to s fit the journal.
FitsUpTo(s) == TotalTokens(packet)[s + 1] <= plan.tokenCapacity

\* The row map has an entry for every token and worker.
RowMapFits == \/ plan.rowMapCapacity = 0
              \/ TotalTokens(packet)[W] * W <= plan.rowMapCapacity

\* The sources at which the scan over them stops, the blocks it may have an
\* old copy of, and the status it reads of each when it still holds those of
\* kept.
Stops == {s \in Sources : srcError[s] # "OK" \/ ~FitsUpTo(s)}
Copied == {b \in Blocks : ownCaches /\ copy[b] # "none"}
Seen(b, kept) == IF b \in kept THEN copy[b] ELSE blkStatus[b]
BadBlocks(kept) == {b \in Blocks : Seen(b, kept) # "OK"}

\* The verdict on the sources, in order: each for its error and then for the
\* tokens so far.
SourceVerdict ==
    LET s == First(Stops)
    IN  IF Stops = {} THEN "OK"
        ELSE IF srcError[s] # "OK" THEN srcError[s] ELSE "CAPACITY_EXCEEDED"

\* Variant of WaveVerdict that does not look at the parser blocks.
WaveVerdictSources(kept) ==
    IF SourceVerdict # "OK" THEN SourceVerdict
    ELSE IF ~RowMapFits THEN "CAPACITY_EXCEEDED" ELSE plan.layout

\* The prefix scan: the sources, the row map, the parser blocks in order,
\* whose lines are not invalidated first, and the layout.
WaveVerdict(kept) ==
    IF SourceVerdict # "OK" THEN SourceVerdict
    ELSE IF ~RowMapFits THEN "CAPACITY_EXCEEDED"
    ELSE IF BadBlocks(kept) # {}
    THEN Seen(First(BadBlocks(kept)), kept)
    ELSE plan.layout

\* Block 0, once every block has arrived.
Prefix(b) ==
    /\ b = 0 /\ pc[b] = "barrier"
    /\ \A c \in Blocks : pc[c] = "barrier"
    /\ \E kept \in SUBSET Copied : status' = WaveVerdict(kept)
    /\ pc' = [c \in Blocks |-> "done"]
    /\ UNCHANGED <<inputVars, workVars, view, srcState, srcError, metaState,
                   blkStatus, localStatus, peer, copy, parsed>>

-----------------------------------------------------------------------------

WorkerStep(s) ==
    \/ Revoke(s) \/ PutPacket(s) \/ Publish(s)
    \/ \E p \in flight[s] : Land(s, p)

BlockStep(b) ==
    \/ PollReady(b) \/ WaitHeader(b) \/ Refresh(b) \/ WaitPeer(b)
    \/ PublishMetadataReady(b) \/ WaitMetadata(b) \/ Parse(b)
    \/ RecordStatus(b) \/ Prefix(b)

Timeout(b) ==
    \/ PollTimeout(b) \/ WaitHeaderTimeout(b) \/ WaitPeerTimeout(b)
    \/ WaitMetadataTimeout(b)

Next ==
    \/ \E s \in Sources : WorkerStep(s)
    \/ \E b \in Blocks : BlockStep(b) \/ Timeout(b)

\* Blocks run, spin counters advance, and a worker kernel that was launched
\* runs to its end; a worker need not appear.
Fairness ==
    /\ \A b \in Blocks : WF_vars(BlockStep(b)) /\ WF_vars(Timeout(b))
    /\ \A s \in Sources : WF_vars(WorkerStep(s))

Spec == Init /\ [][Next]_vars
FairSpec == Spec /\ Fairness

-----------------------------------------------------------------------------
(* Properties. *)

SourceTypes ==
    /\ packet \in [Sources -> Packets] /\ plan \in Plans
    /\ present \in SUBSET Sources /\ bounded \in BOOLEAN
    /\ ownCaches \in BOOLEAN
    /\ sent \in [Sources -> {"idle", "revoked", "put", "done"}]
    /\ flight \in [Sources -> SUBSET Parts]
    /\ prefix \in [Sources -> {"stale", "fresh"}]
    /\ publication \in [Sources -> {"zero", "stale", "fresh"}]
    /\ inbox \in [Sources -> {"stale", "torn", "fresh"}]
    /\ view \in [Sources -> [Lanes -> {"stale", "torn", "fresh"}]]
    /\ srcState \in [Sources -> {"unset", "HEADER", "METADATA"} \cup Errors]
    /\ srcError \in [Sources -> Statuses]

BlockTypes ==
    /\ metaState \in [Blocks -> {"unset", "READY"} \cup Errors]
    /\ blkStatus \in [Blocks -> Statuses] /\ status \in Statuses
    /\ pc \in [Blocks -> {"header", "refresh", "peers", "cohort", "parse",
                          "record", "barrier", "done"}]
    /\ localStatus \in [Blocks -> Statuses]
    /\ peer \in [Blocks -> 0 .. C]
    /\ copy \in [Blocks -> Statuses \cup {"none"}]
    /\ parsed \in [Blocks -> {"none", "fresh", "stale"}]

\* Every variable keeps to its set; in particular a lane never waits for a
\* peer beyond its own cohort.
TypeOK == /\ SourceTypes /\ BlockTypes
          /\ \A b \in Blocks : pc[b] = "peers" => peer[b] < C

\* No lane parses metadata until this wave's packet is complete in the inbox
\* and every lane of the cohort has refreshed its range of it: neither the
\* residue of an earlier wave nor a half-landed packet is ever counted.  (The
\* refresh of a range by its lane counts for the cohort: see Caches above.)
ParsesOnlyFresh == \A b \in Blocks : parsed[b] # "stale"

Decided == \A b \in Blocks : pc[b] = "done"

\* A packet that passes every check; a wave that fits the capacities.
Sound(s) == /\ packet[s].ready /\ packet[s].header = "OK"
            /\ packet[s].padding
            /\ packet[s].bad = {} /\ ~packet[s].orphans
Fits == /\ \A n \in 1 .. W : TotalTokens(packet)[n] <= plan.tokenCapacity
        /\ RowMapFits /\ plan.layout = "OK"

\* A wave goes on only if every lane of every source has parsed its share of
\* a packet that passes every check, whichever lane met the error or the
\* deadline, and whatever it managed to tell the other lanes, and only if the
\* tokens of all sources together fit.  The exception are the blocks whose
\* status line block 0 may still have in a cache of its own: their errors it
\* can miss, and with them the faults of their source.
FailsClosed ==
    Decided /\ status = "OK" =>
        /\ \A b \in Blocks \ Copied : parsed[b] = "fresh"
        /\ \A s \in Sources \ {Src(b) : b \in Copied} : Sound(s)
        /\ Fits

WellFormed == (\A s \in Sources : Sound(s)) /\ Fits

\* A wave of well-formed packets can only be stopped by a deadline: the READY
\* left in the mailbox by an earlier wave, and a READY whose publication word
\* is older or newer than its fields, never abort it or fail a source.
NoSpuriousAbort ==
    WellFormed => {status} \cup {srcError[s] : s \in Sources}
                      \subseteq {"OK", "READY_TIMEOUT"}

\* In a wave that goes on every token of every source is counted by exactly
\* one lane, whatever the number of tokens: none falls between two ranges
\* rounded to groups of eight, none is counted twice, and no lane reads past
\* the last token; and no two lanes write to the cacheline of one group.
EachTokenOnce ==
    Decided /\ status = "OK" => \A s \in Sources :
        /\ UNION {LaneTokens(s, l) : l \in Lanes} = 0 .. packet[s].tokens - 1
        /\ \A l, k \in Lanes : l # k =>
              \A t \in LaneTokens(s, l), u \in LaneTokens(s, k) :
                  t \div 8 # u \div 8

\* Every block reaches the SyncAll and the verdict is made, even if a worker
\* never appears or a lane gives up before it has told the others.
Termination == bounded => <>Decided

\* With no deadlines and workers that publish, every cohort settles: an error
\* met by lane 0 reaches every lane, no lane waits for a lane that waits for
\* it, and a well-formed wave goes on.
Settles == ~bounded /\ present = Sources =>
               <>[](Decided /\ (WellFormed => status = "OK"))
=============================================================================
