------------------------- MODULE DispatchRelayProofs -------------------------
(***************************************************************************)
(* Proofs about DispatchRelay, for every number of workers, blocks and      *)
(* channels, every routing and every launch.                                *)
(***************************************************************************)
EXTENDS DispatchRelay, NaturalFacts

-----------------------------------------------------------------------------
(* The inductive invariant. *)

Parsers == 0 .. Active - 1
Roles == {"produce", "publish", "side", "get", "land", "quiet", "pull", "pack",
          "stamp", "stampstore"}
Produced == Roles \ {"produce", "publish"}

\* A launch that is not valid never gets beyond block 0's first check.
Refused ==
    /\ journal = launch.journal /\ mine = launch.mine
    /\ \A s \in Sources : completion[s] = "none" /\ ack[s] = "none"
    /\ \A b \in Blocks : puts[b] = {}
    /\ \/ \A b \in Blocks : pc[b] = "done"
       \/ \A b \in Blocks : IF b = 0 THEN pc[b] = "reserve" /\ syncs[b] = 0
                            ELSE pc[b] = "wait" /\ syncs[b] = 1

\* Which block can be where, and how many SyncAlls lie behind it.
PhaseAt(b) ==
    /\ pc[b] \in {"reserve", "prefix"} => b = 0 /\ syncs[b] = 0
    /\ pc[b] = "wait" => syncs[b] # 0
    /\ pc[b] \in Roles => syncs[b] = 1
    /\ pc[b] = "publish" => \E p \in Chunks(b) : p >= cursor[b]
    /\ pc[b] = "side" => IsSide(b)
    /\ pc[b] \in {"get", "land", "quiet"} => FastRelay /\ b < RelayCount
    /\ pc[b] \in {"pull", "pack"} => ~FastRelay /\ b = 0
    /\ pc[b] \in {"stamp", "stampstore"} => IsRelay(b)
    /\ pc[b] = "collect" => b = 0 /\ syncs[b] = 2
    /\ pc[b] = "metadata" => b < W /\ ~UniformFast /\ syncs[b] = 3
    /\ pc[b] = "check" => b = 0 /\ syncs[b] = 4
    /\ pc[b] \in {"seal", "completions", "acks"} => b = 0 /\ syncs[b] = 5
    /\ pc[b] = "done" => syncs[b] = 5

\* No block is more than one SyncAll ahead of another, and one that has left
\* a SyncAll has left no block behind it.
Order ==
    \A b, c \in Blocks : /\ syncs[c] >= syncs[b] - 1
                         /\ pc[b] # "wait" => syncs[c] >= syncs[b]

\* The journal slot: taken or left alone by block 0, and settled at the end.
JournalInv ==
    /\ pc[0] = "reserve" => mine = launch.mine
    /\ pc[0] # "reserve" => IF Takes THEN mine
                            ELSE status # "OK" /\ mine = launch.mine
    /\ pc[0] = "collect" => status = "OK"
    /\ journal =
          IF pc[0] \in {"completions", "acks", "done"}
          THEN IF status = "OK" THEN "DISPATCH_SEALED"
               ELSE IF Mine THEN "ABORTED" ELSE launch.journal
          ELSE IF pc[0] # "reserve" /\ Takes THEN "DISPATCH_OPEN"
          ELSE launch.journal

\* The records: completions before ACKs, and all of one verdict.  A source
\* slot is reused only after its ACK.
RecordInv ==
    /\ pc[0] \notin {"completions", "acks", "done"} =>
           \A d \in Sources : completion[d] = "none"
    /\ pc[0] \notin {"acks", "done"} => \A s \in Sources : ack[s] = "none"
    /\ pc[0] \in {"acks", "done"} => \A d \in Sources : completion[d] # "none"
    /\ \A d \in Sources : /\ completion[d] \in {"none", status}
                          /\ ack[d] \in {"none", status}
                          /\ slot[d] = "cur" \/ ack[d] # "none"

\* The final layout: a published Pass2Ready, or the copy of one in a relay's
\* hands, stands for a written chunk; a block that has left its producer role
\* has written all its chunks.
ChunksWritten(b) == \A p \in Chunks(b) : layout[p]
ProducerAt(b) ==
    /\ pc[b] \in {"produce", "publish"} =>
           \A p \in Chunks(b) : p < cursor[b] => layout[p]
    /\ pc[b] = "publish" => layout[NextChunk(b)]
    /\ pc[b] \in Produced => ChunksWritten(b)
    /\ syncs[b] >= 2 /\ status = "OK" => ChunksWritten(b)
    /\ pc[b] \in {"reserve", "prefix"} => cursor[b] = 0
    /\ pc[b] = "wait" /\ syncs[b] = 1 => cursor[b] = 0
    /\ pc[b] = "side" => \A p \in Parsers : p < cursor[b] => layout[p]
    /\ copy[b] = "PASS2" => b \in Parsers /\ layout[b]
LayoutInv ==
    /\ \A p \in Parsers : /\ line[p] = "PASS2" => layout[p]
                          /\ ~Tokens(p \div Cohort) => layout[p]
    /\ \A b \in Blocks : ProducerAt(b)

\* The sideband: digests are checked or an error is left, metadata is put
\* only of a complete layout, and a verdict of OK covers both.
SideInv ==
    /\ \A b \in Blocks : IsSide(b) /\ syncs[b] >= 2 /\ status = "OK" =>
           launch.digest[Side(b)] \/ srcError[Side(b)] # "OK"
    /\ syncs[0] >= 3 /\ status = "OK" => \A s \in Sources : srcError[s] = "OK"
    /\ \A d \in Sources : published[d] => meta[d] = "full"
    /\ \A b \in Blocks : pc[b] = "metadata" => status = "OK"
    /\ syncs[0] = 5 /\ status = "OK" => \A d \in Sources : published[d]

\* The fast relay of one (source, channel).
Arrived(s, c, d) == hidden[s][c][d] = "cur"
RelayAt(b) ==
    /\ puts[b] # {} => pc[b] = "quiet" /\ ub[b] = "cur"
    /\ puts[b] \subseteq Dest[RelaySource(b)]
    /\ FastRelay /\ b < RelayCount =>
        /\ pc[b] = "quiet" => \A d \in Dest[RelaySource(b)] \ puts[b] :
               Arrived(RelaySource(b), RelayChannel(b), d)
        /\ pc[b] \in {"stamp", "stampstore"}
               \/ (syncs[b] >= 2 /\ status = "OK") =>
               \A d \in Dest[RelaySource(b)] :
                   Arrived(RelaySource(b), RelayChannel(b), d)

\* The safe relay, which is block 0: it packs rows only after it has written
\* the layout itself.
RowsInStep == ~(Parallel /\ ~FastRelay)
AllArrivedAt(d) ==
    \A s \in Sources, c \in Chans : d \in Dest[s] => Arrived(s, c, d)
SafeInv ==
    RowsInStep /\ ~FastRelay =>
        /\ pc[0] = "pull" => \A s \in Sources : s < cursor[0] =>
                                 staged[s] = "cur"
        /\ pc[0] = "pack" => /\ \A s \in Sources : staged[s] = "cur"
                             /\ \A d \in Sources : d < cursor[0] =>
                                    AllArrivedAt(d)
        /\ pc[0] \in {"stamp", "stampstore"}
               \/ (syncs[0] >= 2 /\ status = "OK") =>
               \A d \in Sources : AllArrivedAt(d)

GridInv == Order /\ \A b \in Blocks : PhaseAt(b)
RelayInv == SafeInv /\ \A b \in Blocks : RelayAt(b)
ValidInv == GridInv /\ JournalInv /\ RecordInv /\ LayoutInv /\ SideInv
                /\ RelayInv

DInv == /\ TypeOK
        /\ IF launch.valid THEN ValidInv ELSE Refused
-----------------------------------------------------------------------------
(* The grid of blocks, parsers and roles. *)

LEMMA GridFacts ==
    /\ W \in Nat \ {0} /\ NB \in Nat \ {0} /\ Channels \in Nat \ {0}
    /\ Cohort \in Nat \ {0} /\ Active \in Nat /\ Active <= NB /\ W < Active
    /\ RelayCount \in Nat \ {0} /\ SideBegin \in Nat /\ SideBegin = Active - W
    /\ RelayCount <= SideBegin
    /\ 0 \in Blocks /\ 0 \in Parsers /\ 0 \in Sources
    /\ Parsers \subseteq Blocks /\ Sources \subseteq Parsers
PROOF
<1>1. /\ W \in Nat \ {0} /\ NB \in Nat \ {0} /\ Channels \in Nat \ {0}
      /\ Active > W /\ RelayCount <= Active - W
      BY GridAssumption
<1>2. Cohort \in Nat /\ W * Cohort <= NB
      BY <1>1, Division, QuotientBounds DEF Cohort
<1>3. Active \in Nat /\ Active = W * Cohort BY <1>1, <1>2 DEF Active
<1>4. Cohort # 0 BY <1>1, <1>3
<1>5. RelayCount \in Nat \ {0} BY <1>1 DEF RelayCount
<1> QED BY <1>1, <1>2, <1>3, <1>4, <1>5
        DEF SideBegin, Blocks, Parsers, Sources

\* A sideband block serves one source.
LEMMA SideFacts ==
    /\ \A b \in Blocks : IsSide(b) => Side(b) \in Sources
    /\ \A s \in Sources : /\ SideBegin + s \in Blocks /\ IsSide(SideBegin + s)
                          /\ Side(SideBegin + s) = s
    /\ \A b, c \in Blocks : Side(b) = Side(c) => b = c
PROOF
  BY GridFacts DEF IsSide, Side, Sources, Blocks

\* A fast relay serves one (source, channel).
LEMMA RelayFacts ==
    ASSUME NEW b \in Blocks
    PROVE  /\ RelaySource(b) \in Sources
           /\ b < RelayCount => RelayChannel(b) \in Chans
           /\ b = W * RelayChannel(b) + RelaySource(b)
           /\ IsRelay(b) => b \in Parsers /\ ~IsSide(b)
PROOF
<1> USE GridFacts
<1>1. b \in Nat BY DEF Blocks
<1>2. /\ RelaySource(b) \in Nat /\ RelaySource(b) < W /\ RelayChannel(b) \in Nat
      /\ b = W * RelayChannel(b) + RelaySource(b)
      BY <1>1, Division DEF RelaySource, RelayChannel
<1>3. b < RelayCount => RelayChannel(b) < Channels
      BY <1>1, QuotientBounds DEF RelayCount, RelayChannel
<1>4. IsRelay(b) => b < RelayCount BY <1>1 DEF IsRelay
<1>5. b < RelayCount => b < Active /\ ~(SideBegin <= b)
  <2> HIDE DEF RelayCount
  <2> QED BY <1>1
<1> QED BY <1>1, <1>2, <1>3, <1>4, <1>5
        DEF Sources, Chans, Parsers, IsSide

\* Every (source, channel) has its relay.
LEMMA RelayOf ==
    ASSUME NEW s \in Sources, NEW c \in Chans
    PROVE  \E b \in Blocks : /\ b < RelayCount
                             /\ RelaySource(b) = s /\ RelayChannel(b) = c
PROOF
<1> DEFINE b == W * c + s
<1>1. /\ W \in Nat \ {0} /\ Channels \in Nat /\ s \in Nat /\ s < W /\ c \in Nat
      /\ c < Channels
      BY GridFacts DEF Sources, Chans
<1>2. W * c \in Nat /\ W * c + W <= W * Channels
  <2>1. W * (c + 1) <= W * Channels BY <1>1
  <2> QED BY <1>1, <2>1
<1>3. b \in Nat /\ b < RelayCount
  <2> DEFINE x == W * c
  <2> HIDE DEF x
  <2>1. x \in Nat /\ x + W <= RelayCount BY <1>1, <1>2 DEF x, RelayCount
  <2>2. x + s \in Nat /\ x + s < RelayCount BY <1>1, <2>1, GridFacts
  <2> QED BY <2>2 DEF x
<1>4. b \div W = c /\ b % W = s BY <1>1, QuotientIs
<1> HIDE DEF b
<1>5. b \in Blocks BY <1>3, GridFacts DEF Blocks
<1> QED BY <1>3, <1>4, <1>5 DEF RelaySource, RelayChannel

\* The roles that can follow the producer role.
LEMMA RoleFacts ==
    ASSUME NEW b \in Blocks
    PROVE  \/ AfterProduce(b) = "side" /\ IsSide(b)
           \/ AfterProduce(b) = "get" /\ FastRelay /\ b < RelayCount
           \/ AfterProduce(b) = "pull" /\ ~FastRelay /\ b = 0
           \/ AfterProduce(b) = "join" /\ ~IsSide(b) /\ ~IsRelay(b)
PROOF
  BY DEF AfterProduce, IsRelay

\* The chunks of a block, and the one it is about to write.
LEMMA ChunkFacts ==
    ASSUME NEW b \in Blocks
    PROVE  /\ Chunks(b) \subseteq Parsers
           /\ ~Parallel => Chunks(0) = Parsers
           /\ \A x \in Nat : cursor[b] = x /\ (\E p \in Chunks(b) : p >= x) =>
                 /\ NextChunk(b) \in Chunks(b) /\ NextChunk(b) >= x
                 /\ \A p \in Chunks(b) : p >= x => NextChunk(b) <= p
PROOF
<1>1. Chunks(b) \subseteq Parsers BY DEF Chunks, Parsers
<1>2. ~Parallel => Chunks(0) = Parsers BY DEF Chunks, Parsers
<1>3. ASSUME NEW x \in Nat, cursor[b] = x, \E p \in Chunks(b) : p >= x
      PROVE  /\ NextChunk(b) \in Chunks(b) /\ NextChunk(b) >= x
             /\ \A p \in Chunks(b) : p >= x => NextChunk(b) <= p
  <2> DEFINE S == {p \in Chunks(b) : p >= x}
  <2>1. S \in SUBSET Nat /\ S # {} BY <1>1, <1>3 DEF Parsers
  <2>2. \E n \in S : \A m \in S : n <= m BY <2>1, LeastNatural
  <2>3. Smallest(S) \in S /\ \A m \in S : Smallest(S) <= m
        BY <2>2 DEF Smallest
  <2>4. NextChunk(b) = Smallest(S) BY <1>3 DEF NextChunk
  <2> QED BY <2>3, <2>4
<1> QED BY <1>1, <1>2, <1>3
-----------------------------------------------------------------------------
(* A launch that is not valid. *)

\* Its only step is the rejection.
LEMMA RefusedStep ==
    ASSUME TypeOK, ~launch.valid, Refused, Next
    PROVE  \E b \in Blocks : Reject(b)
PROOF
<1>1. ASSUME NEW s \in Sources, ReuseSlot(s) PROVE FALSE
      BY <1>1 DEF ReuseSlot, Refused
<1>2. ASSUME NEW b \in Blocks, Transfer(b) PROVE FALSE
      BY <1>2 DEF Transfer, Refused
<1>3. ASSUME NEW b \in Blocks, pc[b] = "wait", AllArrived(b) PROVE FALSE
  <2>1. syncs[0] = 0 /\ syncs[b] = 1 BY <1>3, GridFacts DEF Refused
  <2> QED BY <1>3, <2>1, GridFacts DEF AllArrived
<1>4. ASSUME NEW b \in Blocks, WaitParserTimeout(b) PROVE FALSE
      BY <1>4 DEF WaitParserTimeout, Refused
<1>5. ASSUME NEW b \in Blocks, BlockStep(b) PROVE Reject(b)
  <2>1. pc[b] \in {"reserve", "done"} \/ (pc[b] = "wait" /\ ~AllArrived(b))
        BY <1>3 DEF Refused
  <2> QED BY <1>5, <2>1
          DEF BlockStep, Reserve, Prefix, LeaveBarrier, Produce, PublishPass2,
              ProduceDone, WaitParser, Sideband, RelayGet, RelayLand,
              RelayQuiet, SafePull, SafePulled, SafePack, SafePacked,
              StampLoad, StampStore, Collect, PutMetadata, CheckPublished,
              Seal, PublishDestinationCompletion, PublishSourceAck
<1> QED BY <1>1, <1>2, <1>4, <1>5 DEF Next

LEMMA NextRefused ==
    ASSUME TypeOK, ~launch.valid, Refused, [Next]_vars
    PROVE  TypeOK' /\ Refused' /\ ~launch'.valid
PROOF
<1> USE DEF input, jVars, roleVars, outVars
<1>1. CASE UNCHANGED vars
  <2>1. Refused' BY <1>1 DEF vars, Refused
  <2> QED BY <1>1, <2>1 DEF vars, TypeOK, GridTypes, MemoryTypes
<1>2. CASE Next
  <2>1. PICK b \in Blocks : Reject(b) BY <1>2, RefusedStep
  <2>2. Refused' BY <2>1 DEF Reject, Refused
  <2>3. TypeOK' BY <2>1 DEF Reject, TypeOK, GridTypes, MemoryTypes, Statuses
  <2> QED BY <2>1, <2>2, <2>3 DEF Reject
<1> QED BY <1>1, <1>2

-----------------------------------------------------------------------------
(* Where the blocks are. *)

\* The order of the SyncAlls is kept by a block that moves on, and by one that
\* arrives.
LEMMA OrderKept ==
    ASSUME TypeOK, Order, NEW b \in Blocks, pc[b] # "wait" \/ AllArrived(b),
           NEW l, pc' = [pc EXCEPT ![b] = l],
           \/ UNCHANGED syncs
           \/ l = "wait" /\ syncs' = [syncs EXCEPT ![b] = @ + 1]
    PROVE  Order'
PROOF
<1>1. /\ syncs \in [Blocks -> Nat] /\ pc = [c \in Blocks |-> pc[c]]
      BY DEF TypeOK, GridTypes
<1>2. \A c \in Blocks : syncs[c] >= syncs[b]
      BY DEF Order, AllArrived
<1>3. \A c, d \in Blocks : /\ syncs[d] >= syncs[c] - 1
                           /\ pc[c] # "wait" => syncs[d] >= syncs[c]
      BY DEF Order
<1> SUFFICES ASSUME NEW c \in Blocks, NEW d \in Blocks
             PROVE  /\ syncs'[d] >= syncs'[c] - 1
                    /\ pc'[c] # "wait" => syncs'[d] >= syncs'[c]
    BY DEF Order
<1>4. CASE UNCHANGED syncs BY <1>1, <1>2, <1>3, <1>4
<1>5. CASE l = "wait" /\ syncs' = [syncs EXCEPT ![b] = @ + 1]
  <2>1. /\ syncs'[c] = IF c = b THEN syncs[c] + 1 ELSE syncs[c]
        /\ syncs'[d] = IF d = b THEN syncs[d] + 1 ELSE syncs[d]
        /\ pc'[c] = IF c = b THEN "wait" ELSE pc[c]
        BY <1>1, <1>5
  <2>2. syncs[b] \in Nat /\ syncs[c] \in Nat /\ syncs[d] \in Nat BY <1>1
  <2> QED BY <1>2, <1>3, <2>1, <2>2
<1> QED BY <1>4, <1>5

\* A block whose control state is untouched is where it was.
LEMMA PhaseFrame ==
    ASSUME NEW c \in Blocks, PhaseAt(c),
           UNCHANGED <<pc[c], syncs[c], cursor[c]>>
    PROVE  PhaseAt(c)'
PROOF
  BY DEF PhaseAt, Chunks, IsSide, IsRelay

\* A step of a block is of that block only.
LEMMA OthersStay ==
    ASSUME TypeOK, launch.valid, NEW b \in Blocks,
           BlockStep(b) \/ Transfer(b) \/ WaitParserTimeout(b),
           NEW c \in Blocks, c # b
    PROVE  UNCHANGED <<pc[c], syncs[c], cursor[c], copy[c], ub[c], puts[c]>>
PROOF
<1> USE DEF TypeOK, GridTypes, Goto, Arrive, roleVars
<1>1. CASE Transfer(b) BY <1>1 DEF Transfer, LandPut
<1>2. CASE WaitParserTimeout(b) BY <1>2 DEF WaitParserTimeout
<1>3. CASE Reserve(b) \/ Prefix(b) BY <1>3 DEF Reserve, Prefix
<1>4. CASE LeaveBarrier(b) BY <1>4 DEF LeaveBarrier, Enter
<1>5. CASE Produce(b) \/ PublishPass2(b) BY <1>5 DEF Produce, PublishPass2
<1>6. CASE ProduceDone(b) BY <1>6 DEF ProduceDone, Enter
<1>7. CASE WaitParser(b) \/ Sideband(b) BY <1>7 DEF WaitParser, Sideband
<1>8. CASE RelayGet(b) \/ RelayLand(b) \/ RelayQuiet(b)
      BY <1>8 DEF RelayGet, RelayLand, RelayQuiet
<1>9. CASE SafePull(b) \/ SafePulled(b) \/ SafePack(b) \/ SafePacked(b)
      BY <1>9 DEF SafePull, SafePulled, SafePack, SafePacked
<1>10. CASE StampLoad(b) \/ StampStore(b)
       BY <1>10 DEF StampLoad, StampStore
<1>11. CASE Collect(b) \/ PutMetadata(b) \/ CheckPublished(b) \/ Seal(b)
       BY <1>11 DEF Collect, PutMetadata, CheckPublished, Seal
<1>12. ASSUME NEW d \in Sources,
              PublishDestinationCompletion(b, d) \/ PublishSourceAck(b, d)
       PROVE  UNCHANGED <<pc[c], syncs[c], cursor[c], copy[c], ub[c], puts[c]>>
       BY <1>12 DEF PublishDestinationCompletion, PublishSourceAck
<1>13. ~Reject(b) BY DEF Reject
<1> QED BY <1>1, <1>2, <1>3, <1>4, <1>5, <1>6, <1>7, <1>8, <1>9, <1>10, <1>11,
           <1>12, <1>13 DEF BlockStep
\* A block that leaves a SyncAll goes to a role of its own or to the next one.
LEMMA LeavingFacts ==
    ASSUME TypeOK, NEW b \in Blocks, PhaseAt(b), LeaveBarrier(b)
    PROVE  \/ Arrive(b) /\ syncs[b] \in 1 .. 4
           \/ /\ UNCHANGED syncs
              /\ \/ syncs[b] = 1 /\ Goto(b, "produce") /\ IsProducer(b)
                 \/ syncs[b] = 1 /\ Goto(b, "side") /\ IsSide(b)
                 \/ syncs[b] = 1 /\ Goto(b, "get") /\ FastRelay /\ b < RelayCount
                 \/ syncs[b] = 1 /\ Goto(b, "pull") /\ ~FastRelay /\ b = 0
                 \/ syncs[b] = 2 /\ Goto(b, "collect") /\ b = 0
                 \/ syncs[b] = 3 /\ Goto(b, "metadata") /\ b < W /\ ~UniformFast
                 \/ syncs[b] = 4 /\ Goto(b, "check") /\ b = 0
                 \/ syncs[b] = 5 /\ Goto(b, "seal") /\ b = 0
                 \/ syncs[b] = 5 /\ Goto(b, "done") /\ b # 0
PROOF
<1>1. syncs[b] \in 1 .. 5
      BY DEF TypeOK, GridTypes, PhaseAt, LeaveBarrier
<1>2. CASE syncs[b] = 1
  <2>1. Enter(b, FirstRole(b)) BY <1>2 DEF LeaveBarrier
  <2>2. CASE FirstRole(b) = "join" BY <1>2, <2>1, <2>2 DEF Enter
  <2>3. CASE FirstRole(b) # "join"
    <3>1. Goto(b, FirstRole(b)) /\ UNCHANGED syncs BY <2>1, <2>3 DEF Enter
    <3> QED BY <1>2, <2>3, <3>1, RoleFacts DEF FirstRole
  <2> QED BY <2>2, <2>3
<1>3. CASE syncs[b] = 2 BY <1>3 DEF LeaveBarrier, Enter
<1>4. CASE syncs[b] = 3 BY <1>4 DEF LeaveBarrier, Enter
<1>5. CASE syncs[b] = 4 BY <1>5 DEF LeaveBarrier, Enter
<1>6. CASE syncs[b] = 5 BY <1>6 DEF LeaveBarrier, Enter
<1> QED BY <1>1, <1>2, <1>3, <1>4, <1>5, <1>6

\* What follows the producer role.
LEMMA ProducedFacts ==
    ASSUME NEW b \in Blocks, ProduceDone(b)
    PROVE  \/ Arrive(b)
           \/ /\ UNCHANGED syncs
              /\ \/ Goto(b, "side") /\ IsSide(b)
                 \/ Goto(b, "get") /\ FastRelay /\ b < RelayCount
                 \/ Goto(b, "pull") /\ ~FastRelay /\ b = 0
PROOF
  BY RoleFacts DEF ProduceDone, Enter

\* The control part of the types.
LEMMA NextGridTypes ==
    ASSUME TypeOK, launch.valid, NEW b \in Blocks, PhaseAt(b),
           BlockStep(b) \/ Transfer(b) \/ WaitParserTimeout(b)
    PROVE  GridTypes'
PROOF
<1> USE DEF TypeOK, GridTypes, Goto, Arrive, roleVars
<1> USE GridFacts
<1>1. /\ syncs[b] \in 0 .. 5 /\ cursor[b] \in 0 .. Active
      /\ pc[b] \in Roles => syncs[b] = 1
      BY DEF PhaseAt
<1>2. ASSUME Arrive(b), syncs[b] \in 0 .. 4,
             UNCHANGED <<cursor, copy, ub, puts>>
      PROVE  GridTypes'
      BY <1>2
<1>3. CASE Transfer(b) BY <1>3 DEF Transfer, LandPut
<1>4. CASE WaitParserTimeout(b)
      BY <1>1, <1>2, <1>4 DEF WaitParserTimeout, Roles
<1>5. CASE Reserve(b) BY <1>5 DEF Reserve
<1>6. CASE Prefix(b) BY <1>2, <1>6 DEF Prefix, PhaseAt
<1>7. CASE LeaveBarrier(b)
  <2>1. UNCHANGED <<cursor, copy, ub, puts>> BY <1>7 DEF LeaveBarrier
  <2>2. CASE Arrive(b) /\ syncs[b] \in 1 .. 4 BY <1>2, <2>1, <2>2
  <2> QED BY <1>7, <2>1, <2>2, LeavingFacts
<1>8. CASE Produce(b) BY <1>8 DEF Produce
<1>9. CASE PublishPass2(b)
  <2>1. NextChunk(b) \in Parsers
    <3>1. \E p \in Chunks(b) : p >= cursor[b]
          BY <1>9 DEF PublishPass2, PhaseAt
    <3> QED BY <1>1, <3>1, ChunkFacts
  <2>2. NextChunk(b) + 1 \in 0 .. Active BY <2>1 DEF Parsers
  <2> QED BY <1>9, <2>2 DEF PublishPass2
<1>10. CASE ProduceDone(b)
  <2>1. /\ cursor' = [cursor EXCEPT ![b] = 0] /\ UNCHANGED <<copy, ub, puts>>
        /\ syncs[b] = 1
        BY <1>1, <1>10 DEF ProduceDone, Roles
  <2> QED BY <1>10, <2>1, ProducedFacts
<1>11. CASE WaitParser(b)
  <2>1. cursor[b] + 1 \in 0 .. Active BY <1>1, <1>11 DEF WaitParser
  <2> QED BY <1>11, <2>1 DEF WaitParser
<1>12. CASE Sideband(b) BY <1>1, <1>2, <1>12 DEF Sideband, Roles
<1>13. CASE RelayGet(b) BY <1>13 DEF RelayGet
<1>14. CASE RelayLand(b)
  <2>1. RelaySource(b) \in Sources BY RelayFacts
  <2>2. /\ slot[RelaySource(b)] \in Data
        /\ Dest[RelaySource(b)] \in SUBSET Sources
        BY <2>1, GridAssumption DEF MemoryTypes, Data
  <2> QED BY <1>14, <2>2 DEF RelayLand
<1>15. CASE RelayQuiet(b) \/ SafePacked(b)
       BY <1>15 DEF RelayQuiet, SafePacked
<1>16. CASE SafePull(b) \/ SafePack(b)
  <2>1. cursor[b] + 1 \in 0 .. Active
        BY <1>1, <1>16 DEF SafePull, SafePack
  <2> QED BY <1>16, <2>1 DEF SafePull, SafePack
<1>17. CASE SafePulled(b) BY <1>17 DEF SafePulled
<1>18. CASE StampLoad(b)
  <2>1. line[b] \in {"OK", "PASS2"}
        BY <1>18, RelayFacts DEF StampLoad, PhaseAt, MemoryTypes, Parsers
  <2> QED BY <1>18, <2>1 DEF StampLoad
<1>19. CASE StampStore(b) BY <1>1, <1>2, <1>19 DEF StampStore, Roles
<1>20. CASE Collect(b) BY <1>2, <1>20 DEF Collect, PhaseAt
<1>21. CASE PutMetadata(b) BY <1>2, <1>21 DEF PutMetadata, PhaseAt
<1>22. CASE CheckPublished(b) BY <1>2, <1>22 DEF CheckPublished, PhaseAt
<1>23. CASE Seal(b) BY <1>23 DEF Seal
<1>24. ASSUME NEW d \in Sources,
              PublishDestinationCompletion(b, d) \/ PublishSourceAck(b, d)
       PROVE  GridTypes'
       BY <1>24 DEF PublishDestinationCompletion, PublishSourceAck
<1>25. ~Reject(b) BY DEF Reject
<1> QED BY <1>3, <1>4, <1>5, <1>6, <1>7, <1>8, <1>9, <1>10, <1>11, <1>12,
           <1>13, <1>14, <1>15, <1>16, <1>17, <1>18, <1>19, <1>20, <1>21,
           <1>22, <1>23, <1>24, <1>25 DEF BlockStep
\* One cell of the payload is written.
LEMMA HiddenType ==
    ASSUME hidden \in [Sources -> [Chans -> [Sources -> Data]]],
           NEW s, NEW c, NEW d, NEW v \in Data
    PROVE  [hidden EXCEPT ![s][c][d] = v]
               \in [Sources -> [Chans -> [Sources -> Data]]]
PROOF
<1>1. s \in Sources => hidden[s] \in [Chans -> [Sources -> Data]] OBVIOUS
<1>2. s \in Sources /\ c \in Chans => hidden[s][c] \in [Sources -> Data]
      BY <1>1
<1>3. s \in Sources /\ c \in Chans =>
          [hidden[s][c] EXCEPT ![d] = v] \in [Sources -> Data]
      BY <1>2
<1>4. s \in Sources =>
          [hidden[s] EXCEPT ![c][d] = v] \in [Chans -> [Sources -> Data]]
      BY <1>1, <1>3
<1> QED BY <1>4

\* The memory part of the types.
LEMMA NextMemoryTypes ==
    ASSUME TypeOK, launch.valid, NEW b \in Blocks, PhaseAt(b),
           BlockStep(b) \/ Transfer(b) \/ WaitParserTimeout(b)
    PROVE  MemoryTypes'
PROOF
<1> USE DEF TypeOK, MemoryTypes, roleVars, outVars, jVars
<1> USE GridFacts
<1>1. "OK" \in Statuses /\ "INVALID_STATE" \in Statuses
      /\ "READY_TIMEOUT" \in Statuses /\ "DIGEST_MISMATCH" \in Statuses
      BY DEF Statuses
<1>2. CASE Transfer(b)
  <2>1. PICK d \in puts[b] : LandPut(b, d) BY <1>2 DEF Transfer
  <2>2. /\ pc[b] = "quiet" => b < RelayCount
        /\ d \in Sources /\ ub[b] \in Data
        BY DEF PhaseAt, GridTypes
  <2>3. hidden' \in [Sources -> [Chans -> [Sources -> Data]]]
        BY <2>1, <2>2, HiddenType DEF LandPut
  <2> QED BY <2>1, <2>3 DEF LandPut
<1>3. CASE WaitParserTimeout(b) BY <1>1, <1>3 DEF WaitParserTimeout
<1>4. CASE Reserve(b) BY <1>1, <1>4 DEF Reserve, JournalStates
<1>5. CASE Prefix(b)
  <2>1. launch.verdict \in Statuses BY GridAssumption
  <2> QED BY <1>5, <2>1 DEF Prefix
<1>6. CASE LeaveBarrier(b) BY <1>6 DEF LeaveBarrier
<1>7. CASE Produce(b) BY <1>7 DEF Produce
<1>8. CASE PublishPass2(b) BY <1>8 DEF PublishPass2
<1>9. CASE ProduceDone(b) BY <1>9 DEF ProduceDone
<1>10. CASE WaitParser(b) BY <1>10 DEF WaitParser
<1>11. CASE Sideband(b) BY <1>1, <1>11 DEF Sideband, Metadata
<1>12. CASE RelayGet(b) \/ RelayLand(b) \/ RelayQuiet(b)
       BY <1>12 DEF RelayGet, RelayLand, RelayQuiet
<1>13. CASE SafePull(b)
  <2>1. pc[b] = "pull" => cursor[b] \in Nat BY DEF GridTypes
  <2>2. slot[cursor[b]] \in Data
        BY <1>13, <2>1 DEF SafePull, Data, Sources
  <2> QED BY <1>13, <2>2 DEF SafePull
<1>14. CASE SafePulled(b) \/ SafePacked(b) BY <1>14 DEF SafePulled, SafePacked
<1>15. CASE SafePack(b)
  <2>1. hidden' \in [Sources -> [Chans -> [Sources -> Data]]]
    <3> DEFINE d == cursor[b]
               v(s, c) == IF d \notin Dest[s] THEN hidden[s][c][d]
                          ELSE IF \A p \in LanesOf(s) : layout[p]
                               THEN staged[s] ELSE "junk"
    <3>1. d \in Sources BY <1>15 DEF SafePack, GridTypes, Sources
    <3>2. hidden' = [s \in Sources |-> [c \in Chans |->
                        [hidden[s][c] EXCEPT ![d] = v(s, c)]]]
          BY <1>15 DEF SafePack
    <3>3. \A s \in Sources, c \in Chans : v(s, c) \in Data
          BY <3>1 DEF Data
    <3> HIDE DEF v, d
    <3>4. \A s \in Sources, c \in Chans :
              [hidden[s][c] EXCEPT ![d] = v(s, c)] \in [Sources -> Data]
      <4> TAKE s \in Sources, c \in Chans
      <4>1. hidden[s][c] \in [Sources -> Data] /\ v(s, c) \in Data BY <3>3
      <4> QED BY <4>1
    <3> QED BY <3>2, <3>4
  <2> QED BY <1>15, <2>1 DEF SafePack
<1>16. CASE StampLoad(b) BY <1>16 DEF StampLoad
<1>17. CASE StampStore(b) BY <1>17 DEF StampStore, GridTypes
<1>18. CASE Collect(b)
  <2>1. BadSources # {} => Smallest(BadSources) \in Sources
    <3>1. BadSources \in SUBSET Nat BY DEF BadSources, Sources
    <3>2. BadSources # {} => Smallest(BadSources) \in BadSources
          BY <3>1, LeastNatural DEF Smallest
    <3> QED BY <3>2 DEF BadSources
  <2>2. CollectVerdict \in Statuses BY <1>1, <2>1 DEF CollectVerdict
  <2> QED BY <1>18, <2>2 DEF Collect
<1>19. CASE PutMetadata(b) BY <1>19 DEF PutMetadata, Metadata
<1>20. CASE CheckPublished(b) BY <1>1, <1>20 DEF CheckPublished
<1>21. CASE Seal(b) BY <1>21 DEF Seal, JournalStates
<1>22. ASSUME NEW d \in Sources,
              PublishDestinationCompletion(b, d) \/ PublishSourceAck(b, d)
       PROVE  MemoryTypes'
  <2>1. [completion EXCEPT ![d] = status]
            \in [Sources -> Statuses \cup {"none"}]
        OBVIOUS
  <2>2. [ack EXCEPT ![d] = status] \in [Sources -> Statuses \cup {"none"}]
        OBVIOUS
  <2>3. CASE PublishDestinationCompletion(b, d)
        BY <2>1, <2>3 DEF PublishDestinationCompletion
  <2>4. CASE PublishSourceAck(b, d) BY <2>2, <2>4 DEF PublishSourceAck
  <2> QED BY <1>22, <2>3, <2>4
<1>23. ~Reject(b) BY DEF Reject
<1> QED BY <1>2, <1>3, <1>4, <1>5, <1>6, <1>7, <1>8, <1>9, <1>10, <1>11, <1>12,
           <1>13, <1>14, <1>15, <1>16, <1>17, <1>18, <1>19, <1>20, <1>21,
           <1>22, <1>23 DEF BlockStep
\* The block that moves is where its action leaves it.
LEMMA PhaseStep ==
    ASSUME TypeOK, launch.valid, NEW b \in Blocks, PhaseAt(b), Order,
           BlockStep(b) \/ Transfer(b) \/ WaitParserTimeout(b)
    PROVE  PhaseAt(b)' /\ Order'
PROOF
<1> USE DEF Goto, Arrive, roleVars
<1> USE GridFacts
<1>1. /\ pc = [c \in Blocks |-> pc[c]] /\ syncs \in [Blocks -> 0 .. 5]
      /\ cursor \in [Blocks -> 0 .. Active]
      BY DEF TypeOK, GridTypes
<1>2. UNCHANGED <<Chunks(b), IsSide(b), IsRelay(b)>>
      BY DEF Chunks, IsSide, IsRelay
<1>3. pc[b] \in Roles => syncs[b] = 1 BY DEF PhaseAt
<1>4. ASSUME Arrive(b), pc[b] # "wait" \/ AllArrived(b)
      PROVE  PhaseAt(b)' /\ Order'
  <2>1. pc'[b] = "wait" /\ syncs'[b] # 0 BY <1>1, <1>4
  <2>2. Order' BY <1>4, OrderKept
  <2> QED BY <2>1, <2>2 DEF PhaseAt, Roles
<1>5. ASSUME NEW l, Goto(b, l), UNCHANGED syncs,
             pc[b] # "wait" \/ AllArrived(b)
      PROVE  Order' /\ pc'[b] = l /\ syncs'[b] = syncs[b]
      BY <1>1, <1>5, OrderKept
<1>6. ASSUME UNCHANGED <<pc, syncs>>,
             UNCHANGED cursor \/ pc[b] # "publish"
      PROVE  PhaseAt(b)' /\ Order'
      BY <1>2, <1>6 DEF PhaseAt, Order, Roles
<1>7. CASE Transfer(b) BY <1>6, <1>7 DEF Transfer, LandPut
<1>8. CASE WaitParserTimeout(b) BY <1>4, <1>8 DEF WaitParserTimeout
<1>9. CASE Reserve(b)
      BY <1>2, <1>5, <1>9 DEF Reserve, PhaseAt, Roles
<1>10. CASE Prefix(b) BY <1>4, <1>10 DEF Prefix
<1>11. CASE LeaveBarrier(b)
  <2>1. AllArrived(b) /\ UNCHANGED cursor BY <1>11 DEF LeaveBarrier
  <2>2. CASE Arrive(b) BY <1>4, <2>1, <2>2
  <2>3. CASE /\ UNCHANGED syncs /\ syncs[b] = 1
             /\ \/ Goto(b, "produce")
                \/ Goto(b, "side") /\ IsSide(b)
                \/ Goto(b, "get") /\ FastRelay /\ b < RelayCount
                \/ Goto(b, "pull") /\ ~FastRelay /\ b = 0
        BY <1>2, <1>5, <2>1, <2>3 DEF PhaseAt, Roles
  <2>4. CASE /\ UNCHANGED syncs
             /\ \/ syncs[b] = 2 /\ Goto(b, "collect") /\ b = 0
                \/ syncs[b] = 3 /\ Goto(b, "metadata") /\ b < W /\ ~UniformFast
                \/ syncs[b] = 4 /\ Goto(b, "check") /\ b = 0
                \/ syncs[b] = 5 /\ Goto(b, "seal") /\ b = 0
                \/ syncs[b] = 5 /\ Goto(b, "done") /\ b # 0
        BY <1>2, <1>5, <2>1, <2>4 DEF PhaseAt, Roles
  <2> QED BY <1>11, <2>2, <2>3, <2>4, LeavingFacts
<1>12. CASE Produce(b)
  <2>1. /\ UNCHANGED <<syncs, cursor>> /\ pc[b] = "produce"
        /\ Goto(b, "publish") /\ \E p \in Chunks(b) : p >= cursor[b]
        BY <1>12 DEF Produce
  <2>2. syncs[b] = 1 BY <1>3, <2>1 DEF Roles
  <2> QED BY <1>2, <1>5, <2>1, <2>2 DEF PhaseAt, Roles
<1>13. CASE PublishPass2(b)
  <2>1. syncs[b] = 1 BY <1>3, <1>13 DEF PublishPass2, Roles
  <2> QED BY <1>2, <1>5, <1>13, <2>1 DEF PublishPass2, PhaseAt, Roles
<1>14. CASE ProduceDone(b)
  <2>1. syncs[b] = 1 /\ pc[b] = "produce"
        BY <1>3, <1>14 DEF ProduceDone, Roles
  <2>2. CASE Arrive(b) BY <1>4, <2>1, <2>2
  <2>3. CASE /\ UNCHANGED syncs
             /\ \/ Goto(b, "side") /\ IsSide(b)
                \/ Goto(b, "get") /\ FastRelay /\ b < RelayCount
                \/ Goto(b, "pull") /\ ~FastRelay /\ b = 0
        BY <1>2, <1>5, <2>1, <2>3 DEF PhaseAt, Roles
  <2> QED BY <1>14, <2>2, <2>3, ProducedFacts
<1>15. CASE WaitParser(b) BY <1>6, <1>15 DEF WaitParser
<1>16. CASE Sideband(b) BY <1>4, <1>16 DEF Sideband
<1>17. CASE RelayGet(b) \/ RelayLand(b)
  <2>1. /\ syncs[b] = 1 /\ FastRelay /\ b < RelayCount
        /\ pc[b] # "wait" /\ UNCHANGED syncs
        /\ Goto(b, "land") \/ Goto(b, "quiet")
        BY <1>3, <1>17 DEF RelayGet, RelayLand, PhaseAt, Roles
  <2> QED BY <1>2, <1>5, <2>1 DEF PhaseAt, Roles
<1>18. CASE RelayQuiet(b) \/ SafePacked(b)
  <2>1. /\ syncs[b] = 1 /\ IsRelay(b)
        /\ pc[b] # "wait" /\ UNCHANGED syncs /\ Goto(b, "stamp")
        BY <1>3, <1>18 DEF RelayQuiet, SafePacked, PhaseAt, Roles, IsRelay
  <2> QED BY <1>2, <1>5, <2>1 DEF PhaseAt, Roles
<1>19. CASE SafePull(b) \/ SafePack(b)
       BY <1>6, <1>19 DEF SafePull, SafePack
<1>20. CASE SafePulled(b)
       BY <1>2, <1>3, <1>5, <1>20 DEF SafePulled, PhaseAt, Roles
<1>21. CASE StampLoad(b)
       BY <1>2, <1>3, <1>5, <1>21 DEF StampLoad, PhaseAt, Roles
<1>22. CASE StampStore(b) BY <1>4, <1>22 DEF StampStore
<1>23. CASE Collect(b) \/ PutMetadata(b) \/ CheckPublished(b)
       BY <1>4, <1>23 DEF Collect, PutMetadata, CheckPublished
<1>24. CASE Seal(b) BY <1>2, <1>5, <1>24 DEF Seal, PhaseAt, Roles
<1>25. ASSUME NEW d \in Sources,
              PublishDestinationCompletion(b, d) \/ PublishSourceAck(b, d)
       PROVE  PhaseAt(b)' /\ Order'
  <2>1. /\ b = 0 /\ syncs[b] = 5 /\ UNCHANGED syncs /\ pc[b] # "wait"
        /\ Goto(b, "completions") \/ Goto(b, "acks") \/ Goto(b, "done")
        BY <1>25 DEF PublishDestinationCompletion, PublishSourceAck, PhaseAt
  <2> QED BY <1>2, <1>5, <2>1 DEF PhaseAt, Roles
<1>26. ~Reject(b) BY DEF Reject
<1> QED BY <1>7, <1>8, <1>9, <1>10, <1>11, <1>12, <1>13, <1>14, <1>15, <1>16,
           <1>17, <1>18, <1>19, <1>20, <1>21, <1>22, <1>23, <1>24, <1>25,
           <1>26 DEF BlockStep

\* Types and places of the grid, of a valid launch.
LEMMA NextGrid ==
    ASSUME TypeOK, launch.valid, GridInv, [Next]_vars
    PROVE  TypeOK' /\ GridInv' /\ UNCHANGED input
PROOF
<1> USE DEF input, jVars, roleVars, outVars
<1>1. ASSUME UNCHANGED <<pc, syncs, cursor>> PROVE GridInv'
      BY <1>1, PhaseFrame DEF GridInv, Order
<1>2. CASE UNCHANGED vars
      BY <1>1, <1>2 DEF vars, TypeOK, GridTypes, MemoryTypes
<1>3. ASSUME NEW s \in Sources, ReuseSlot(s)
      PROVE  TypeOK' /\ GridInv' /\ UNCHANGED input
      BY <1>1, <1>3 DEF ReuseSlot, TypeOK, GridTypes, MemoryTypes
<1>4. ASSUME NEW b \in Blocks,
             BlockStep(b) \/ Transfer(b) \/ WaitParserTimeout(b)
      PROVE  TypeOK' /\ GridInv' /\ UNCHANGED input
  <2>1. UNCHANGED input
        BY <1>4 DEF BlockStep, Transfer, WaitParserTimeout, Reserve, Reject,
            Prefix, LeaveBarrier, Produce, PublishPass2, ProduceDone,
            WaitParser, Sideband, RelayGet, RelayLand, LandPut, RelayQuiet,
            SafePull, SafePulled, SafePack, SafePacked, StampLoad, StampStore,
            Collect, PutMetadata, CheckPublished, Seal,
            PublishDestinationCompletion, PublishSourceAck
  <2>2. PhaseAt(b) /\ Order BY DEF GridInv
  <2>3. GridTypes' /\ MemoryTypes'
        BY <1>4, <2>2, NextGridTypes, NextMemoryTypes
  <2>4. TypeOK' BY <2>1, <2>3 DEF TypeOK
  <2>5. PhaseAt(b)' /\ Order' BY <1>4, <2>2, PhaseStep
  <2>6. \A c \in Blocks : c # b => PhaseAt(c)'
        BY <1>4, OthersStay, PhaseFrame DEF GridInv
  <2> QED BY <2>1, <2>4, <2>5, <2>6 DEF GridInv
<1> QED BY <1>2, <1>3, <1>4 DEF Next
-----------------------------------------------------------------------------
(* The journal and the records. *)

\* Steps that leave the journal, the verdict and the records alone.
Outside == UNCHANGED <<journal, mine, status, completion, ack>>

\* Only block 0 writes to them, in a handful of actions.
LEMMA Writers ==
    ASSUME launch.valid, NEW b \in Blocks, PhaseAt(b),
           BlockStep(b) \/ Transfer(b) \/ WaitParserTimeout(b)
    PROVE  \/ Outside
           \/ /\ b = 0
              /\ \/ Reserve(b) \/ Prefix(b) \/ Collect(b) \/ CheckPublished(b)
                 \/ Seal(b)
                 \/ \E d \in Sources : \/ PublishDestinationCompletion(b, d)
                                       \/ PublishSourceAck(b, d)
PROOF
<1> USE DEF jVars, outVars, Outside
<1>1. CASE \/ Transfer(b) \/ WaitParserTimeout(b) \/ LeaveBarrier(b)
           \/ Produce(b) \/ PublishPass2(b) \/ ProduceDone(b) \/ WaitParser(b)
           \/ Sideband(b) \/ RelayGet(b) \/ RelayLand(b) \/ RelayQuiet(b)
           \/ SafePull(b) \/ SafePulled(b) \/ SafePack(b) \/ SafePacked(b)
           \/ StampLoad(b) \/ StampStore(b) \/ PutMetadata(b)
      BY <1>1 DEF Transfer, WaitParserTimeout, LeaveBarrier, Produce,
          PublishPass2, ProduceDone, WaitParser, Sideband, RelayGet, RelayLand,
          LandPut, RelayQuiet, SafePull, SafePulled, SafePack, SafePacked,
          StampLoad, StampStore, PutMetadata
<1>2. CASE \/ Reserve(b) \/ Prefix(b) \/ Collect(b) \/ CheckPublished(b)
           \/ Seal(b)
           \/ \E d \in Sources : \/ PublishDestinationCompletion(b, d)
                                 \/ PublishSourceAck(b, d)
      BY <1>2 DEF PhaseAt, Reserve, Prefix, Collect, CheckPublished, Seal,
          PublishDestinationCompletion, PublishSourceAck
<1>3. ~Reject(b) BY DEF Reject
<1> QED BY <1>1, <1>2, <1>3 DEF BlockStep

\* Where block 0 may go without touching them.
LEMMA OutsideMoves ==
    ASSUME TypeOK, launch.valid, NEW b \in Blocks, PhaseAt(b),
           BlockStep(b) \/ Transfer(b) \/ WaitParserTimeout(b), Outside,
           ~Reserve(b), ~Prefix(b), ~Collect(b), ~CheckPublished(b), ~Seal(b),
           \A d \in Sources : /\ ~PublishDestinationCompletion(b, d)
                              /\ ~PublishSourceAck(b, d)
    PROVE  \/ pc'[0] = pc[0]
           \/ /\ pc[0] \notin {"reserve", "completions", "acks", "done"}
              /\ pc'[0] \notin {"reserve", "completions", "acks", "done"}
              /\ pc'[0] = "collect" => status = "OK"
PROOF
<1> USE DEF TypeOK, GridTypes, Goto, Arrive
<1> USE GridFacts
<1>1. CASE b # 0 BY <1>1, OthersStay
<1>2. CASE b = 0 /\ LeaveBarrier(b)
  <2>1. pc[b] = "wait" /\ syncs[b] \in Nat BY <1>2 DEF LeaveBarrier
  <2>2. CASE syncs[b] = 2
        BY <1>2, <2>1, <2>2 DEF LeaveBarrier, Enter
  <2>3. CASE syncs[b] # 2
    <3>1. \/ Arrive(b)
          \/ \E l \in {"produce", "side", "get", "pull", "metadata", "check",
                       "seal"} : Goto(b, l)
          BY <1>2, <2>3, LeavingFacts
    <3> QED BY <1>2, <2>1, <3>1
  <2> QED BY <2>2, <2>3
<1>3. CASE b = 0 /\ ProduceDone(b)
  <2>1. pc[b] = "produce" BY <1>3 DEF ProduceDone
  <2> QED BY <1>3, <2>1, ProducedFacts
<1>4. CASE /\ b = 0
           /\ \/ Transfer(b) \/ WaitParserTimeout(b)
              \/ Produce(b) \/ PublishPass2(b) \/ WaitParser(b)
              \/ Sideband(b) \/ RelayGet(b) \/ RelayLand(b) \/ RelayQuiet(b)
              \/ SafePull(b) \/ SafePulled(b) \/ SafePack(b) \/ SafePacked(b)
              \/ StampLoad(b) \/ StampStore(b) \/ PutMetadata(b)
      BY <1>4 DEF Transfer, WaitParserTimeout, Produce,
          PublishPass2, WaitParser, Sideband, RelayGet, RelayLand,
          LandPut, RelayQuiet, SafePull, SafePulled, SafePack, SafePacked,
          StampLoad, StampStore, PutMetadata
<1>5. ~Reject(b) BY DEF Reject
<1> QED BY <1>1, <1>2, <1>3, <1>4, <1>5 DEF BlockStep

\* The journal slot.
LEMMA NextJournal ==
    ASSUME TypeOK, launch.valid, GridInv, JournalInv, [Next]_vars
    PROVE  JournalInv' /\ (status' = "OK" => status = "OK")
PROOF
<1> DEFINE G == JournalInv' /\ (status' = "OK" => status = "OK")
<1> USE DEF Goto, Arrive
<1> USE GridFacts
<1>1. UNCHANGED launch /\ UNCHANGED Takes BY NextGrid DEF input, Takes
<1>2. ASSUME Outside,
             \/ pc'[0] = pc[0]
             \/ /\ pc[0] \notin {"reserve", "completions", "acks", "done"}
                /\ pc'[0] \notin {"reserve", "completions", "acks", "done"}
                /\ pc'[0] = "collect" => status = "OK"
      PROVE  G
      BY <1>1, <1>2 DEF Outside, JournalInv, Mine
<1>3. CASE UNCHANGED vars
      BY <1>2, <1>3 DEF vars, jVars, outVars, Outside
<1>4. ASSUME NEW s \in Sources, ReuseSlot(s) PROVE G
      BY <1>2, <1>4 DEF ReuseSlot, jVars, Outside
<1>5. ASSUME NEW b \in Blocks,
             BlockStep(b) \/ Transfer(b) \/ WaitParserTimeout(b)
      PROVE  G
  <2> USE <1>1 DEF TypeOK, GridTypes
  <2>1. PhaseAt(b) BY DEF GridInv
  <2>2. CASE b = 0 /\ Reserve(b)
        BY <2>2 DEF Reserve, JournalInv, Takes
  <2>3. CASE b = 0 /\ Prefix(b)
        BY <2>3 DEF Prefix, JournalInv, Mine
  <2>4. CASE b = 0 /\ Collect(b)
        BY <2>4 DEF Collect, JournalInv, Mine
  <2>5. CASE b = 0 /\ CheckPublished(b)
        BY <2>5 DEF CheckPublished, JournalInv, Mine
  <2>6. CASE b = 0 /\ Seal(b)
        BY <2>6 DEF Seal, JournalInv, Mine, Takes
  <2>7. ASSUME b = 0, NEW d \in Sources,
               PublishDestinationCompletion(b, d) \/ PublishSourceAck(b, d)
        PROVE  G
        BY <2>7 DEF PublishDestinationCompletion, PublishSourceAck,
                    JournalInv, Mine, jVars
  <2>8. CASE /\ ~Reserve(b) /\ ~Prefix(b) /\ ~Collect(b)
             /\ ~CheckPublished(b) /\ ~Seal(b)
             /\ \A d \in Sources : /\ ~PublishDestinationCompletion(b, d)
                                   /\ ~PublishSourceAck(b, d)
    <3>1. Outside BY <1>5, <2>1, <2>8, Writers
    <3> QED BY <1>2, <1>5, <2>1, <2>8, <3>1, OutsideMoves
  <2>9. b # 0 => /\ ~Reserve(b) /\ ~Prefix(b) /\ ~Collect(b)
                 /\ ~CheckPublished(b) /\ ~Seal(b)
                 /\ \A d \in Sources : /\ ~PublishDestinationCompletion(b, d)
                                       /\ ~PublishSourceAck(b, d)
        BY <2>1 DEF PhaseAt, Reserve, Prefix, Collect, CheckPublished, Seal,
              PublishDestinationCompletion, PublishSourceAck
  <2> HIDE DEF G
  <2> QED BY <2>2, <2>3, <2>4, <2>5, <2>6, <2>7, <2>8, <2>9
<1> QED BY <1>3, <1>4, <1>5 DEF Next

\* The records and the source slots.
LEMMA NextRecord ==
    ASSUME TypeOK, launch.valid, GridInv, JournalInv, RecordInv, [Next]_vars
    PROVE  RecordInv'
PROOF
<1> USE DEF Goto, Arrive
<1> USE GridFacts
<1>1. ASSUME Outside, UNCHANGED slot,
             \/ pc'[0] = pc[0]
             \/ /\ pc[0] \notin {"reserve", "completions", "acks", "done"}
                /\ pc'[0] \notin {"reserve", "completions", "acks", "done"}
      PROVE  RecordInv'
      BY <1>1 DEF Outside, RecordInv
<1>2. CASE UNCHANGED vars
      BY <1>1, <1>2 DEF vars, jVars, outVars, Outside
<1>3. ASSUME NEW s \in Sources, ReuseSlot(s) PROVE RecordInv'
      BY <1>3 DEF ReuseSlot, jVars, RecordInv, TypeOK, MemoryTypes
<1>4. ASSUME NEW b \in Blocks,
             BlockStep(b) \/ Transfer(b) \/ WaitParserTimeout(b)
      PROVE  RecordInv'
  <2> USE DEF TypeOK, GridTypes, MemoryTypes
  <2>1. PhaseAt(b) BY DEF GridInv
  <2>2. UNCHANGED slot
        BY <1>4 DEF BlockStep, Transfer, WaitParserTimeout, Reserve, Reject,
            Prefix, LeaveBarrier, Produce, PublishPass2, ProduceDone,
            WaitParser, Sideband, RelayGet, RelayLand, LandPut, RelayQuiet,
            SafePull, SafePulled, SafePack, SafePacked, StampLoad, StampStore,
            Collect, PutMetadata, CheckPublished, Seal,
            PublishDestinationCompletion, PublishSourceAck, outVars
  <2>3. CASE /\ b = 0
             /\ \/ Reserve(b) \/ Prefix(b) \/ Collect(b) \/ CheckPublished(b)
                \/ Seal(b)
    <3>1. /\ pc[0] \notin {"completions", "acks", "done"}
          /\ pc'[0] \notin {"acks", "done"}
          /\ UNCHANGED <<completion, ack>>
          BY <2>3 DEF Reserve, Prefix, Collect, CheckPublished, Seal, outVars
    <3> QED BY <2>2, <3>1 DEF RecordInv
  <2>4. ASSUME b = 0, NEW d \in Sources, PublishDestinationCompletion(b, d)
        PROVE  RecordInv'
    <3>1. /\ pc[0] = "completions" /\ UNCHANGED <<status, ack>>
          /\ completion' = [completion EXCEPT ![d] = status]
          /\ pc'[0] = IF d = W - 1 THEN "acks" ELSE "completions"
          /\ \A e \in Sources : e < d => completion[e] # "none"
          BY <2>4 DEF PublishDestinationCompletion, jVars
    <3>2. status # "none" BY DEF Statuses
    <3>3. d = W - 1 => \A e \in Sources : e = d \/ e < d
          BY DEF Sources
    <3>4. d = W - 1 => \A e \in Sources : completion'[e] # "none"
          BY <3>1, <3>2, <3>3
    <3>5. \A e \in Sources : completion'[e] \in {"none", status'}
          BY <3>1 DEF RecordInv
    <3> QED BY <2>2, <3>1, <3>4, <3>5 DEF RecordInv
  <2>5. ASSUME b = 0, NEW d \in Sources, PublishSourceAck(b, d)
        PROVE  RecordInv'
    <3>1. /\ pc[0] = "acks" /\ UNCHANGED <<status, completion>>
          /\ ack' = [ack EXCEPT ![d] = status]
          /\ pc'[0] \in {"acks", "done"} /\ status # "none"
          BY <2>5 DEF PublishSourceAck, jVars, Statuses
    <3> QED BY <2>2, <3>1 DEF RecordInv
  <2>6. CASE /\ ~Reserve(b) /\ ~Prefix(b) /\ ~Collect(b)
             /\ ~CheckPublished(b) /\ ~Seal(b)
             /\ \A d \in Sources : /\ ~PublishDestinationCompletion(b, d)
                                   /\ ~PublishSourceAck(b, d)
    <3>1. Outside BY <1>4, <2>1, <2>6, Writers
    <3> QED BY <1>1, <1>4, <2>1, <2>2, <2>6, <3>1, OutsideMoves
  <2> QED BY <1>4, <2>1, <2>3, <2>4, <2>5, <2>6
          DEF PhaseAt, Reserve, Prefix, Collect, CheckPublished, Seal,
              PublishDestinationCompletion, PublishSourceAck
<1> QED BY <1>2, <1>3, <1>4 DEF Next
-----------------------------------------------------------------------------
(* The final layout. *)

\* A written chunk stays written.
LEMMA LayoutStays ==
    ASSUME TypeOK, [Next]_vars, NEW p \in Parsers, layout[p]
    PROVE  layout'[p]
PROOF
<1>1. CASE UNCHANGED layout BY <1>1
<1>2. ASSUME NEW b \in Blocks, Produce(b) PROVE layout'[p]
      BY <1>2 DEF Produce, TypeOK, MemoryTypes, Parsers
<1> USE DEF roleVars
<1>3. ASSUME NEW b \in Blocks, ~Produce(b),
             BlockStep(b) \/ Transfer(b) \/ WaitParserTimeout(b)
      PROVE  UNCHANGED layout
      BY <1>3 DEF BlockStep, Transfer, WaitParserTimeout, Reserve, Reject,
          Prefix, LeaveBarrier, PublishPass2, ProduceDone,
          WaitParser, Sideband, RelayGet, RelayLand, LandPut, RelayQuiet,
          SafePull, SafePulled, SafePack, SafePacked, StampLoad, StampStore,
          Collect, PutMetadata, CheckPublished, Seal,
          PublishDestinationCompletion, PublishSourceAck
<1>4. CASE UNCHANGED vars BY <1>1, <1>4 DEF vars
<1>5. ASSUME NEW s \in Sources, ReuseSlot(s) PROVE UNCHANGED layout
      BY <1>5 DEF ReuseSlot
<1> QED BY <1>1, <1>2, <1>3, <1>4, <1>5 DEF Next

LEMMA ProducerFrame ==
    ASSUME TypeOK, [Next]_vars, status' = "OK" => status = "OK",
           NEW c \in Blocks, PhaseAt(c), ProducerAt(c),
           UNCHANGED <<pc[c], syncs[c], cursor[c], copy[c]>>
    PROVE  ProducerAt(c)'
PROOF
<1>1. Chunks(c)' = Chunks(c) BY DEF Chunks
<1>2. NextChunk(c)' = NextChunk(c) BY <1>1 DEF NextChunk
<1>3. Chunks(c) \subseteq Parsers BY ChunkFacts
<1>4. pc[c] = "publish" => NextChunk(c) \in Parsers
      BY <1>3, ChunkFacts DEF PhaseAt, TypeOK, GridTypes
<1>5. \A p \in Parsers : layout[p] => layout'[p] BY LayoutStays
<1> QED BY <1>1, <1>2, <1>3, <1>4, <1>5 DEF ProducerAt, ChunksWritten

\* What the block that moves has written of its chunks.
LEMMA ProducerStep ==
    ASSUME TypeOK, launch.valid, [Next]_vars, status' = "OK" => status = "OK",
           \A p \in Parsers : line[p] = "PASS2" => layout[p],
           NEW b \in Blocks, PhaseAt(b), ProducerAt(b),
           BlockStep(b) \/ Transfer(b) \/ WaitParserTimeout(b)
    PROVE  ProducerAt(b)'
PROOF
<1> USE DEF Goto, Arrive, roleVars
<1> USE GridFacts
<1>1. /\ pc = [c \in Blocks |-> pc[c]] /\ syncs \in [Blocks -> 0 .. 5]
      /\ cursor \in [Blocks -> 0 .. Active]
      /\ copy \in [Blocks -> {"OK", "PASS2"}]
      BY DEF TypeOK, GridTypes
<1>2. Chunks(b)' = Chunks(b) /\ Chunks(b) \subseteq Parsers
      BY ChunkFacts DEF Chunks
<1>3. \A p \in Parsers : layout[p] => layout'[p] BY LayoutStays
<1>4. ChunksWritten(b) => ChunksWritten(b)'
      BY <1>2, <1>3 DEF ChunksWritten
<1>5. copy'[b] = copy[b] => (copy'[b] = "PASS2" => b \in Parsers /\ layout'[b])
      BY <1>3 DEF ProducerAt
\* Arrival at the second SyncAll or a later one.
<1>6. ASSUME Arrive(b), UNCHANGED copy, syncs[b] # 0,
             status = "OK" => ChunksWritten(b)
      PROVE  ProducerAt(b)'
  <2>1. pc'[b] = "wait" /\ syncs'[b] # 1 BY <1>1, <1>6
  <2> QED BY <1>4, <1>5, <1>6, <2>1 DEF ProducerAt, Produced, Roles
\* Steps within the roles after the producer role, the sideband's excepted.
<1>7. ASSUME ChunksWritten(b), syncs'[b] = syncs[b], copy'[b] = copy[b],
             pc'[b] \in Produced \ {"side"}
      PROVE  ProducerAt(b)'
      BY <1>4, <1>5, <1>7 DEF ProducerAt, Produced, Roles
\* Steps of block 0 and of the metadata blocks after the roles.
<1>8. ASSUME syncs[b] >= 2, syncs'[b] >= 2, UNCHANGED copy,
             pc'[b] \notin Roles \cup {"reserve", "prefix", "wait"}
                 \/ (pc'[b] = "wait" /\ syncs'[b] # 1)
      PROVE  ProducerAt(b)'
  <2>1. status' = "OK" => ChunksWritten(b)'
        BY <1>4, <1>8 DEF ProducerAt
  <2> QED BY <1>5, <1>8, <2>1 DEF ProducerAt, Produced, Roles
<1>9. pc[b] \in Roles => syncs[b] = 1 BY DEF PhaseAt
<1>10. CASE Transfer(b)
  <2>1. UNCHANGED <<pc, syncs, cursor, copy>> BY <1>10 DEF Transfer, LandPut
  <2> QED BY <2>1, ProducerFrame
<1>11. CASE WaitParserTimeout(b) \/ Sideband(b)
  <2>1. ChunksWritten(b) /\ syncs[b] = 1
        BY <1>9, <1>11
        DEF ProducerAt, Produced, Roles, WaitParserTimeout, Sideband
  <2> QED BY <1>6, <1>11, <2>1 DEF WaitParserTimeout, Sideband
<1>12. CASE Reserve(b)
  <2>1. /\ pc[b] = "reserve" /\ pc'[b] = "prefix" /\ syncs'[b] = 0
        /\ UNCHANGED <<cursor, copy>>
        BY <1>1, <1>12 DEF Reserve, PhaseAt
  <2> QED BY <1>5, <2>1 DEF ProducerAt, Produced, Roles
<1>13. CASE Prefix(b)
  <2>1. /\ pc[b] = "prefix" /\ pc'[b] = "wait" /\ syncs'[b] = 1
        /\ UNCHANGED <<cursor, copy>>
        BY <1>1, <1>13 DEF Prefix, PhaseAt
  <2> QED BY <1>5, <2>1 DEF ProducerAt, Produced, Roles
<1>14. CASE LeaveBarrier(b)
  <2>1. pc[b] = "wait" /\ UNCHANGED <<status, cursor, copy>>
        BY <1>14 DEF LeaveBarrier, jVars
  <2>2. CASE syncs[b] = 1
    <3>1. Enter(b, FirstRole(b)) /\ cursor[b] = 0
          BY <1>14, <2>1, <2>2 DEF LeaveBarrier, ProducerAt
    <3>2. CASE status # "OK"
          BY <1>6, <2>1, <2>2, <3>1, <3>2 DEF Enter, FirstRole
    <3>3. CASE status = "OK" /\ IsProducer(b)
      <4>1. /\ pc'[b] = "produce" /\ syncs'[b] = 1 /\ cursor'[b] = 0
            BY <1>1, <2>1, <2>2, <3>1, <3>3 DEF Enter, FirstRole
      <4>2. \A p \in Chunks(b) : ~(p < 0) BY <1>2 DEF Parsers
      <4> QED BY <1>2, <1>5, <2>1, <4>1, <4>2 DEF ProducerAt, Produced, Roles
    <3>4. CASE status = "OK" /\ ~IsProducer(b)
      <4>1. ChunksWritten(b) BY <3>4 DEF IsProducer, ChunksWritten
      <4>2. Enter(b, AfterProduce(b)) BY <3>1, <3>4 DEF FirstRole
      <4>3. CASE AfterProduce(b) = "join"
            BY <1>6, <2>1, <2>2, <4>1, <4>2, <4>3 DEF Enter
      <4>4. CASE AfterProduce(b) = "side"
        <5>1. /\ pc'[b] = "side" /\ syncs'[b] = 1 /\ cursor'[b] = 0
              BY <1>1, <2>1, <2>2, <3>1, <4>2, <4>4 DEF Enter
        <5>2. \A p \in Parsers : ~(p < 0) BY DEF Parsers
        <5> QED BY <1>4, <1>5, <2>1, <4>1, <5>1, <5>2
                DEF ProducerAt, Produced, Roles
      <4>5. CASE AfterProduce(b) \in {"get", "pull"}
            BY <1>1, <1>7, <2>1, <4>1, <4>2, <4>5 DEF Enter, Produced, Roles
      <4> QED BY <4>3, <4>4, <4>5, RoleFacts
    <3> QED BY <3>2, <3>3, <3>4
  <2>3. CASE syncs[b] >= 2
    <3>1. CASE Arrive(b)
      <4>1. pc'[b] = "wait" /\ syncs'[b] = syncs[b] + 1 BY <1>1, <3>1
      <4> QED BY <1>1, <1>8, <2>1, <2>3, <4>1
    <3>2. CASE ~Arrive(b)
      <4>1. /\ UNCHANGED syncs
            /\ \E l \in {"collect", "metadata", "check", "seal", "done"} :
                   Goto(b, l)
            BY <1>14, <2>3, <3>2, LeavingFacts
      <4> QED BY <1>1, <1>8, <2>1, <2>3, <4>1 DEF Roles
    <3> QED BY <3>1, <3>2
  <2> QED BY <1>1, <2>1, <2>2, <2>3 DEF PhaseAt
<1>15. CASE Produce(b)
  <2>1. /\ pc[b] = "produce" /\ pc'[b] = "publish"
        /\ syncs'[b] = 1 /\ UNCHANGED <<cursor, copy>>
        /\ \E p \in Chunks(b) : p >= cursor[b]
        /\ layout' = [layout EXCEPT ![NextChunk(b)] = TRUE]
        BY <1>1, <1>9, <1>15 DEF Produce, Roles
  <2>2. NextChunk(b) \in Parsers BY <1>1, <1>2, <2>1, ChunkFacts
  <2>3. NextChunk(b)' = NextChunk(b) BY <1>2, <2>1 DEF NextChunk
  <2>4. layout'[NextChunk(b)]
        BY <2>1, <2>2 DEF TypeOK, MemoryTypes, Parsers
  <2> QED BY <1>2, <1>3, <1>5, <2>1, <2>3, <2>4 DEF ProducerAt, Produced, Roles
<1>16. CASE PublishPass2(b)
  <2>1. /\ pc[b] = "publish" /\ pc'[b] = "produce"
        /\ syncs'[b] = 1 /\ cursor'[b] = NextChunk(b) + 1
        /\ UNCHANGED <<copy, layout>>
        BY <1>1, <1>9, <1>16 DEF PublishPass2, Roles
  <2>2. \E p \in Chunks(b) : p >= cursor[b] BY <2>1 DEF PhaseAt
  <2>3. /\ NextChunk(b) \in Chunks(b) /\ NextChunk(b) >= cursor[b]
        /\ \A p \in Chunks(b) : p >= cursor[b] => NextChunk(b) <= p
        BY <1>1, <2>2, ChunkFacts
  <2>4. /\ \A p \in Chunks(b) : p < cursor[b] => layout[p]
        /\ layout[NextChunk(b)]
        BY <2>1 DEF ProducerAt
  <2>5. ASSUME NEW p \in Chunks(b), p < NextChunk(b) + 1 PROVE layout[p]
    <3>1. p \in Nat /\ NextChunk(b) \in Nat /\ cursor[b] \in Nat
          BY <1>1, <1>2, <2>3 DEF Parsers
    <3>2. p < cursor[b] \/ p = NextChunk(b) BY <2>3, <2>5, <3>1
    <3> QED BY <2>4, <3>2
  <2> QED BY <1>2, <1>3, <1>5, <2>1, <2>5 DEF ProducerAt, Produced, Roles
<1>17. CASE ProduceDone(b)
  <2>1. /\ pc[b] = "produce" /\ syncs[b] = 1 /\ cursor'[b] = 0
        /\ UNCHANGED copy
        BY <1>1, <1>9, <1>17 DEF ProduceDone, Roles
  <2>2. ChunksWritten(b)
        BY <1>17, <2>1 DEF ProduceDone, ProducerAt, ChunksWritten
  <2>3. CASE Arrive(b) BY <1>6, <2>1, <2>2, <2>3
  <2>4. CASE UNCHANGED syncs /\ Goto(b, "side")
    <3>1. pc'[b] = "side" /\ syncs'[b] = 1 BY <1>1, <2>1, <2>4
    <3>2. \A p \in Parsers : ~(p < 0) BY DEF Parsers
    <3> QED BY <1>4, <1>5, <2>1, <2>2, <3>1, <3>2
            DEF ProducerAt, Produced, Roles
  <2>5. CASE UNCHANGED syncs /\ (Goto(b, "get") \/ Goto(b, "pull"))
        BY <1>1, <1>7, <2>1, <2>2, <2>5 DEF Produced, Roles
  <2> QED BY <1>17, <2>3, <2>4, <2>5, ProducedFacts
<1>18. CASE WaitParser(b)
  <2>1. /\ pc[b] = "side" /\ pc'[b] = "side" /\ cursor'[b] = cursor[b] + 1
        /\ UNCHANGED <<copy, syncs, layout>> /\ syncs[b] = 1
        /\ cursor[b] \in Parsers /\ line[cursor[b]] = "PASS2"
        BY <1>1, <1>9, <1>18 DEF WaitParser, WaitsFor, Parsers, Roles
  <2>2. ChunksWritten(b) /\ layout[cursor[b]]
        /\ \A p \in Parsers : p < cursor[b] => layout[p]
        BY <2>1 DEF ProducerAt, Produced, Roles
  <2>3. \A p \in Parsers : p < cursor[b] + 1 => p < cursor[b] \/ p = cursor[b]
        BY <2>1 DEF Parsers
  <2> QED BY <1>4, <1>5, <2>1, <2>2, <2>3 DEF ProducerAt, Produced, Roles
<1>19. CASE \/ RelayGet(b) \/ RelayLand(b) \/ RelayQuiet(b) \/ SafePull(b)
            \/ SafePulled(b) \/ SafePack(b) \/ SafePacked(b)
  <2>1. /\ pc[b] \in Produced /\ pc'[b] \in Produced \ {"side"}
        /\ UNCHANGED <<syncs, copy>>
        BY <1>1, <1>19 DEF RelayGet, RelayLand, RelayQuiet, SafePull,
            SafePulled, SafePack, SafePacked, Produced, Roles
  <2> QED BY <1>7, <2>1 DEF ProducerAt
<1>20. CASE StampLoad(b)
  <2>1. /\ pc[b] = "stamp" /\ pc'[b] = "stampstore" /\ syncs'[b] = 1
        /\ copy'[b] = line[b] /\ UNCHANGED layout
        BY <1>1, <1>9, <1>20 DEF StampLoad, Roles
  <2>2. b \in Parsers BY <2>1, RelayFacts DEF PhaseAt
  <2>3. ChunksWritten(b) BY <2>1 DEF ProducerAt, Produced, Roles
  <2> QED BY <1>4, <2>1, <2>2, <2>3 DEF ProducerAt, Produced, Roles
<1>21. CASE StampStore(b)
  <2>1. ChunksWritten(b) /\ syncs[b] = 1
        BY <1>9, <1>21 DEF ProducerAt, Produced, Roles, StampStore
  <2> QED BY <1>6, <1>21, <2>1 DEF StampStore
<1>22. CASE Collect(b) \/ PutMetadata(b) \/ CheckPublished(b)
  <2>1. syncs[b] \in {2, 3, 4} /\ Arrive(b) /\ UNCHANGED copy
        BY <1>22 DEF Collect, PutMetadata, CheckPublished, PhaseAt
  <2>2. pc'[b] = "wait" /\ syncs'[b] = syncs[b] + 1 BY <1>1, <2>1
  <2> QED BY <1>8, <2>1, <2>2
<1>23. ASSUME \/ Seal(b)
              \/ \E d \in Sources : \/ PublishDestinationCompletion(b, d)
                                    \/ PublishSourceAck(b, d)
       PROVE  ProducerAt(b)'
  <2>1. /\ syncs[b] = 5 /\ UNCHANGED <<syncs, copy>>
        /\ pc'[b] \in {"completions", "acks", "done"}
        BY <1>1, <1>23 DEF Seal, PublishDestinationCompletion,
            PublishSourceAck, PhaseAt
  <2> QED BY <1>8, <2>1 DEF Roles
<1>24. ~Reject(b) BY DEF Reject
<1> QED BY <1>10, <1>11, <1>12, <1>13, <1>14, <1>15, <1>16, <1>17, <1>18,
           <1>19, <1>20, <1>21, <1>22, <1>23, <1>24 DEF BlockStep
\* A Pass2Ready, also one that a relay puts back with its stamp, stands for a
\* written chunk.
LEMMA NextLayout ==
    ASSUME TypeOK, launch.valid, GridInv, JournalInv, LayoutInv, [Next]_vars
    PROVE  LayoutInv'
PROOF
<1> USE DEF roleVars
<1>1. status' = "OK" => status = "OK" BY NextJournal
<1>2. \A p \in Parsers : layout[p] => layout'[p] BY LayoutStays
<1>3. ASSUME UNCHANGED <<pc, syncs, cursor, copy, line>> PROVE LayoutInv'
  <2>1. \A c \in Blocks : ProducerAt(c)'
        BY <1>1, <1>3, ProducerFrame DEF GridInv, LayoutInv
  <2> QED BY <1>2, <1>3, <2>1 DEF LayoutInv
<1>4. CASE UNCHANGED vars BY <1>3, <1>4 DEF vars
<1>5. ASSUME NEW s \in Sources, ReuseSlot(s) PROVE LayoutInv'
      BY <1>3, <1>5 DEF ReuseSlot
<1>6. ASSUME NEW b \in Blocks,
             BlockStep(b) \/ Transfer(b) \/ WaitParserTimeout(b)
      PROVE  LayoutInv'
  <2>1. PhaseAt(b) /\ ProducerAt(b) BY DEF GridInv, LayoutInv
  <2>2. ProducerAt(b)' BY <1>1, <1>6, <2>1, ProducerStep DEF LayoutInv
  <2>3. \A c \in Blocks : c # b => ProducerAt(c)'
        BY <1>1, <1>6, OthersStay, ProducerFrame DEF GridInv, LayoutInv
  <2>4. ASSUME NEW p \in Parsers, line'[p] = "PASS2" PROVE layout'[p]
    <3> USE DEF TypeOK, MemoryTypes, Parsers
    <3>1. CASE UNCHANGED line BY <1>2, <2>4, <3>1 DEF LayoutInv
    <3>2. CASE Prefix(b)
          BY <1>2, <2>4, <3>2 DEF Prefix, LayoutInv
    <3>3. CASE PublishPass2(b)
      <4>1. layout[NextChunk(b)] BY <2>1, <3>3 DEF PublishPass2, ProducerAt
      <4> QED BY <1>2, <2>4, <3>3, <4>1 DEF PublishPass2, LayoutInv
    <3>4. CASE StampStore(b)
          BY <1>2, <2>1, <2>4, <3>4 DEF StampStore, LayoutInv, ProducerAt
    <3>5. CASE ~Prefix(b) /\ ~PublishPass2(b) /\ ~StampStore(b)
      <4>1. UNCHANGED line
            BY <1>6, <3>5 DEF BlockStep, Transfer, WaitParserTimeout, Reserve,
                Reject, LeaveBarrier, Produce, ProduceDone,
                WaitParser, Sideband, RelayGet, RelayLand, LandPut, RelayQuiet,
                SafePull, SafePulled, SafePack, SafePacked, StampLoad,
                Collect, PutMetadata, CheckPublished, Seal,
                PublishDestinationCompletion, PublishSourceAck
      <4> QED BY <3>1, <4>1
    <3> QED BY <3>2, <3>3, <3>4, <3>5
  <2> QED BY <1>2, <2>2, <2>3, <2>4 DEF LayoutInv
<1> QED BY <1>4, <1>5, <1>6 DEF Next

-----------------------------------------------------------------------------
(* Digests and metadata. *)

\* Block 0 has passed a SyncAll: no block is left in an earlier phase.
LEMMA Behind ==
    ASSUME TypeOK, GridInv, NEW b \in Blocks, NEW c \in Blocks
    PROVE  /\ syncs[b] \in Nat /\ syncs[c] \in Nat
           /\ syncs[c] >= syncs[b] - 1
           /\ pc[b] # "wait" => syncs[c] >= syncs[b]
PROOF
  BY DEF GridInv, Order, TypeOK, GridTypes

\* Metadata is only ever put of a complete layout.
LEMMA MetadataIsFull ==
    ASSUME TypeOK, GridInv, LayoutInv, SideInv, NEW b \in Blocks,
           \/ pc[b] = "side" /\ cursor[b] = Active
           \/ pc[b] = "metadata"
    PROVE  Metadata = "full"
PROOF
<1>1. SUFFICES \A p \in Parsers : layout[p]
      BY <1>1 DEF Metadata, TypeOK, MemoryTypes, Parsers
<1>2. CASE pc[b] = "side" /\ cursor[b] = Active
      BY <1>2, GridFacts DEF LayoutInv, ProducerAt, Parsers
<1>3. CASE pc[b] = "metadata"
  <2>1. ~UniformFast /\ syncs[b] = 3 /\ status = "OK"
        BY <1>3 DEF GridInv, PhaseAt, SideInv
  <2>2. syncs[0] >= 2 BY <2>1, GridFacts, Behind
  <2>3. \A p \in Chunks(0) : layout[p]
        BY <2>1, <2>2, GridFacts DEF LayoutInv, ProducerAt, ChunksWritten
  <2>4. Chunks(0) = Parsers BY <2>1, GridFacts, ChunkFacts DEF Parallel
  <2> QED BY <2>3, <2>4
<1> QED BY <1>2, <1>3

\* The actions that write errors of sources or metadata.
LEMMA SideWriters ==
    ASSUME NEW b \in Blocks,
           BlockStep(b) \/ Transfer(b) \/ WaitParserTimeout(b)
    PROVE  /\ \/ UNCHANGED srcError \/ Sideband(b) \/ WaitParserTimeout(b)
           /\ \/ UNCHANGED <<published, meta>>
              \/ Sideband(b) \/ PutMetadata(b)
PROOF
<1>1. ASSUME ~Sideband(b), ~WaitParserTimeout(b) PROVE UNCHANGED srcError
      BY <1>1 DEF BlockStep, Transfer, WaitParserTimeout, Reserve,
          Reject, Prefix, LeaveBarrier, Produce, PublishPass2, ProduceDone,
          WaitParser, RelayGet, RelayLand, LandPut, RelayQuiet,
          SafePull, SafePulled, SafePack, SafePacked, StampLoad, StampStore,
          Collect, CheckPublished, Seal, PublishDestinationCompletion,
          PublishSourceAck, PutMetadata,
          jVars
<1>2. ASSUME ~Sideband(b), ~PutMetadata(b) PROVE UNCHANGED <<published, meta>>
      BY <1>2 DEF BlockStep, Transfer, WaitParserTimeout, Reserve,
          Reject, Prefix, LeaveBarrier, Produce, PublishPass2, ProduceDone,
          WaitParser, RelayGet, RelayLand, LandPut, RelayQuiet,
          SafePull, SafePulled, SafePack, SafePacked, StampLoad, StampStore,
          Collect, CheckPublished, Seal, PublishDestinationCompletion,
          PublishSourceAck, roleVars,
          outVars
<1> QED BY <1>1, <1>2

\* How a block can pass the second SyncAll, the third and the fifth.
LEMMA Passing ==
    ASSUME TypeOK, launch.valid, NEW b \in Blocks, PhaseAt(b),
           BlockStep(b) \/ Transfer(b) \/ WaitParserTimeout(b),
           syncs'[b] # syncs[b]
    PROVE  /\ syncs'[b] = syncs[b] + 1 /\ pc'[b] = "wait"
           /\ \/ Prefix(b) \/ WaitParserTimeout(b) \/ Sideband(b)
              \/ StampStore(b) \/ Collect(b) \/ PutMetadata(b)
              \/ CheckPublished(b)
              \/ ProduceDone(b) /\ Arrive(b) /\ AfterProduce(b) = "join"
              \/ LeaveBarrier(b) /\ Arrive(b)
PROOF
<1> USE DEF TypeOK, GridTypes, Goto, Arrive
<1>1. CASE LeaveBarrier(b)
  <2>1. Arrive(b) BY <1>1, LeavingFacts
  <2> QED BY <1>1, <2>1
<1>2. CASE ProduceDone(b)
  <2>1. AfterProduce(b) = "join" /\ Arrive(b) BY <1>2 DEF ProduceDone, Enter
  <2> QED BY <1>2, <2>1
<1>3. CASE \/ WaitParserTimeout(b) \/ Prefix(b) \/ Sideband(b)
           \/ StampStore(b) \/ Collect(b) \/ PutMetadata(b)
           \/ CheckPublished(b)
      BY <1>3 DEF WaitParserTimeout, Prefix, Sideband, StampStore, Collect,
          PutMetadata, CheckPublished
<1>4. CASE \/ Transfer(b) \/ Reserve(b) \/ Reject(b) \/ Produce(b)
           \/ PublishPass2(b) \/ WaitParser(b) \/ RelayGet(b) \/ RelayLand(b)
           \/ RelayQuiet(b) \/ SafePull(b) \/ SafePulled(b) \/ SafePack(b)
           \/ SafePacked(b) \/ StampLoad(b) \/ Seal(b)
           \/ \E d \in Sources : \/ PublishDestinationCompletion(b, d)
                                 \/ PublishSourceAck(b, d)
      BY <1>4 DEF Transfer, Reserve, Reject, Produce,
           PublishPass2, WaitParser, RelayGet, RelayLand, LandPut, RelayQuiet,
           SafePull, SafePulled, SafePack, SafePacked, StampLoad, Seal,
           PublishDestinationCompletion, PublishSourceAck
<1> QED BY <1>1, <1>2, <1>3, <1>4 DEF BlockStep
LEMMA NextSide ==
    ASSUME TypeOK, launch.valid, GridInv, JournalInv, LayoutInv, SideInv,
           NEW b \in Blocks,
           BlockStep(b) \/ Transfer(b) \/ WaitParserTimeout(b)
    PROVE  SideInv'
PROOF
<1> USE GridFacts
<1> USE DEF TypeOK, MemoryTypes, GridTypes
<1>1. /\ [Next]_vars /\ PhaseAt(b) /\ UNCHANGED launch
      /\ status' = "OK" => status = "OK"
  <2>1. [Next]_vars BY DEF Next
  <2>2. status' = "OK" => status = "OK" BY <2>1, NextJournal
  <2> QED BY <2>1, <2>2, NextGrid DEF GridInv, input
<1>2. \A c \in Blocks : c # b => pc'[c] = pc[c] /\ syncs'[c] = syncs[c]
      BY OthersStay
<1>3. ASSUME Sideband(b) \/ WaitParserTimeout(b)
      PROVE  IsSide(b) /\ Side(b) \in Sources /\ syncs[b] = 1
      BY <1>1, <1>3, SideFacts
      DEF Sideband, WaitParserTimeout, PhaseAt, Roles
<1>4. ASSUME NEW s \in Sources, srcError[s] # "OK" PROVE srcError'[s] # "OK"
      BY <1>4, SideWriters DEF Sideband, WaitParserTimeout
<1>5. ASSUME NEW c \in Blocks, IsSide(c), syncs'[c] >= 2, status' = "OK"
      PROVE  launch.digest[Side(c)] \/ srcError'[Side(c)] # "OK"
  <2>1. Side(c) \in Sources BY <1>5, SideFacts
  <2>2. CASE syncs[c] >= 2
        BY <1>1, <1>4, <1>5, <2>1, <2>2 DEF SideInv
  <2>3. CASE ~(syncs[c] >= 2)
    <3>1. c = b /\ syncs'[b] # syncs[b] BY <1>2, <1>5, <2>3
    <3>2. syncs'[b] = syncs[b] + 1 BY <1>1, <3>1, Passing
    <3>3. syncs[b] = 1 /\ status = "OK"
      <4>1. syncs[b] \in Nat BY Behind
      <4> HIDE DEF TypeOK, MemoryTypes, GridTypes
      <4> QED BY <1>1, <1>5, <2>3, <3>1, <3>2, <4>1
    <3>4. CASE Sideband(b)
          BY <2>1, <3>1, <3>4 DEF Sideband
    <3>5. CASE WaitParserTimeout(b)
          BY <2>1, <3>1, <3>5 DEF WaitParserTimeout
    <3>6. CASE StampStore(b)
          BY <1>1, <1>5, <3>1, <3>6, RelayFacts DEF StampStore, PhaseAt
    <3>7. CASE ProduceDone(b) /\ AfterProduce(b) = "join"
          BY <1>5, <3>1, <3>7, RoleFacts
    <3>8. CASE LeaveBarrier(b) /\ Arrive(b)
      <4>1. Enter(b, FirstRole(b)) BY <3>3, <3>8 DEF LeaveBarrier
      <4>2. FirstRole(b) = "join"
        <5>1. ASSUME FirstRole(b) # "join" PROVE FALSE
              BY <3>1, <4>1, <5>1 DEF Enter
        <5> QED BY <5>1
      <4>3. AfterProduce(b) = "join" BY <3>3, <4>2 DEF FirstRole
      <4> QED BY <1>5, <3>1, <4>3, RoleFacts
    <3>9. ~Prefix(b) /\ ~Collect(b) /\ ~PutMetadata(b) /\ ~CheckPublished(b)
          BY <1>1, <3>3
          DEF PhaseAt, Prefix, Collect, PutMetadata, CheckPublished
    <3> QED BY <1>1, <3>1, <3>4, <3>5, <3>6, <3>7, <3>8, <3>9, Passing
  <2> QED BY <2>2, <2>3
<1>6. ASSUME syncs'[0] >= 3, status' = "OK", NEW s \in Sources
      PROVE  srcError'[s] = "OK"
  <2>1. CASE syncs[0] >= 3
    <3>1. syncs[b] >= 2 BY <2>1, Behind
    <3>2. UNCHANGED srcError BY <1>3, <3>1, SideWriters
    <3> QED BY <1>1, <1>6, <2>1, <3>2 DEF SideInv
  <2>2. CASE ~(syncs[0] >= 3)
    <3>1. b = 0 /\ syncs'[b] # syncs[b] BY <1>2, <1>6, <2>2
    <3>2. syncs'[b] = syncs[b] + 1 BY <1>1, <3>1, Passing
    <3>3. syncs[b] = 2 /\ status = "OK"
      <4>1. syncs[b] \in Nat BY Behind
      <4> HIDE DEF TypeOK, MemoryTypes, GridTypes
      <4> QED BY <1>1, <1>6, <2>2, <3>1, <3>2, <4>1
    <3>4. CASE Collect(b)
      <4>1. CollectVerdict = "OK" /\ UNCHANGED srcError
            BY <1>6, <3>4 DEF Collect
      <4>2. BadSources # {} => Smallest(BadSources) \in BadSources
        <5>1. BadSources \in SUBSET Nat BY DEF BadSources, Sources
        <5> QED BY <5>1, LeastNatural DEF Smallest
      <4>3. BadSources = {} BY <4>1, <4>2 DEF CollectVerdict, BadSources
      <4> QED BY <4>1, <4>3 DEF BadSources
    <3>5. CASE LeaveBarrier(b) /\ Arrive(b)
      <4>1. Enter(b, "collect") BY <3>1, <3>3, <3>5 DEF LeaveBarrier
      <4> QED BY <3>1, <4>1 DEF Enter
    <3>6. /\ ~Prefix(b) /\ ~WaitParserTimeout(b) /\ ~Sideband(b)
          /\ ~StampStore(b) /\ ~PutMetadata(b) /\ ~CheckPublished(b)
          /\ ~ProduceDone(b)
          BY <1>1, <3>3 DEF PhaseAt, Prefix, PutMetadata, CheckPublished,
              WaitParserTimeout, Sideband, StampStore, ProduceDone, Roles
    <3> QED BY <1>1, <3>1, <3>4, <3>5, <3>6, Passing
  <2> QED BY <2>1, <2>2
<1>7. ASSUME NEW d \in Sources, published'[d] PROVE meta'[d] = "full"
  <2>1. CASE UNCHANGED <<published, meta>> BY <1>7, <2>1 DEF SideInv
  <2>2. CASE Sideband(b)
    <3>1. Metadata = "full" BY <2>2, MetadataIsFull DEF Sideband
    <3>2. \/ UNCHANGED <<published, meta>>
          \/ /\ meta' = [meta EXCEPT ![Side(b)] = "full"]
             /\ published' = [published EXCEPT ![Side(b)] = TRUE]
          BY <2>2, <3>1 DEF Sideband
    <3> HIDE DEF TypeOK, MemoryTypes, GridTypes
    <3>3. /\ meta = [e \in Sources |-> meta[e]]
          /\ published = [e \in Sources |-> published[e]]
          BY DEF TypeOK, MemoryTypes
    <3> QED BY <1>7, <3>2, <3>3 DEF SideInv
  <2>3. CASE PutMetadata(b)
    <3>1. Metadata = "full" BY <2>3, MetadataIsFull DEF PutMetadata
    <3> QED BY <1>7, <2>3, <3>1 DEF PutMetadata, SideInv
  <2> QED BY <2>1, <2>2, <2>3, SideWriters
<1>8. ASSUME NEW c \in Blocks, pc'[c] = "metadata" PROVE status' = "OK"
  <2>1. CASE pc[c] = "metadata"
    <3>1. status = "OK" /\ syncs[c] = 3
          BY <2>1 DEF SideInv, GridInv, PhaseAt
    <3>2. syncs[b] >= 3 /\ (pc[b] # "wait" => syncs[b] <= 3)
          BY <2>1, <3>1, Behind
    <3>3. ~Reserve(b) /\ ~Prefix(b) /\ ~Collect(b) /\ ~CheckPublished(b)
          BY <1>1, <3>2
          DEF PhaseAt, Reserve, Prefix, Collect, CheckPublished
    <3>4. UNCHANGED status
          BY <1>1, <3>3, Writers DEF Outside, Seal,
              PublishDestinationCompletion, PublishSourceAck, jVars
    <3> QED BY <3>1, <3>4
  <2>2. CASE pc[c] # "metadata"
    <3>1. c = b BY <1>2, <1>8, <2>2
    <3>2. LeaveBarrier(b) \/ ProduceDone(b)
          BY <1>8, <2>2, <3>1 DEF BlockStep, Transfer,
              WaitParserTimeout, Reserve, Reject, Prefix, Produce,
              PublishPass2, WaitParser, Sideband, RelayGet, RelayLand, LandPut,
              RelayQuiet, SafePull, SafePulled, SafePack, SafePacked,
              StampLoad, StampStore, Collect, PutMetadata, CheckPublished,
              Seal, PublishDestinationCompletion, PublishSourceAck,
              Goto, Arrive
    <3>3. \A l : Goto(b, l) => l = "metadata"
      <4>1. pc = [e \in Blocks |-> pc[e]] OBVIOUS
      <4> HIDE DEF TypeOK, MemoryTypes, GridTypes
      <4> QED BY <1>8, <3>1, <4>1 DEF Goto
    <3>4. LeaveBarrier(b) /\ syncs[b] = 3
      <4>1. ~Arrive(b) BY <3>3 DEF Arrive
      <4>2. ~ProduceDone(b) BY <3>3, <4>1, ProducedFacts
      <4>3. LeaveBarrier(b) BY <3>2, <4>2
      <4> HIDE DEF TypeOK, MemoryTypes, GridTypes
      <4> QED BY <1>1, <3>3, <4>1, <4>3, LeavingFacts
    <3>5. status = "OK" /\ UNCHANGED status
          BY <1>8, <3>1, <3>4
          DEF LeaveBarrier, Enter, Arrive, Goto, jVars
    <3> QED BY <3>5
  <2> QED BY <2>1, <2>2
<1>9. ASSUME syncs'[0] = 5, status' = "OK", NEW d \in Sources
      PROVE  published'[d]
  <2>1. published[d] => published'[d]
    <3>1. \/ UNCHANGED published
          \/ \E e : published' = [published EXCEPT ![e] = TRUE]
          BY SideWriters DEF Sideband, PutMetadata
    <3>2. published = [e \in Sources |-> published[e]] OBVIOUS
    <3> HIDE DEF TypeOK, MemoryTypes, GridTypes
    <3> QED BY <3>1, <3>2
  <2>2. CASE syncs[0] = 5 BY <1>1, <1>9, <2>1, <2>2 DEF SideInv
  <2>3. CASE syncs[0] # 5
    <3>1. b = 0 /\ syncs'[b] # syncs[b] BY <1>2, <1>9, <2>3
    <3>2. syncs'[b] = syncs[b] + 1 BY <1>1, <3>1, Passing
    <3>3. syncs[b] = 4 /\ status = "OK"
      <4>1. syncs[b] \in Nat BY Behind
      <4> HIDE DEF TypeOK, MemoryTypes, GridTypes
      <4> QED BY <1>1, <1>9, <3>1, <3>2, <4>1
    <3>4. CASE CheckPublished(b)
          BY <1>9, <2>1, <3>3, <3>4 DEF CheckPublished
    <3>5. CASE LeaveBarrier(b) /\ Arrive(b)
      <4>1. Enter(b, "check") BY <3>1, <3>3, <3>5 DEF LeaveBarrier
      <4> QED BY <3>1, <4>1 DEF Enter
    <3>6. /\ ~Prefix(b) /\ ~WaitParserTimeout(b) /\ ~Sideband(b)
          /\ ~StampStore(b) /\ ~PutMetadata(b) /\ ~Collect(b)
          /\ ~ProduceDone(b)
          BY <1>1, <3>3 DEF PhaseAt, Prefix, PutMetadata, Collect,
              WaitParserTimeout, Sideband, StampStore, ProduceDone, Roles
    <3> QED BY <1>1, <3>1, <3>4, <3>5, <3>6, Passing
  <2> QED BY <2>2, <2>3
<1>10. \A c \in Blocks : IsSide(c)' = IsSide(c) /\ Side(c)' = Side(c)
       BY DEF IsSide, Side
<1> QED BY <1>1, <1>5, <1>6, <1>7, <1>8, <1>9, <1>10 DEF SideInv
-----------------------------------------------------------------------------
(* The hidden relays. *)

\* No source slot is reused while a block is still in its role.
LEMMA SlotCurrent ==
    ASSUME TypeOK, GridInv, RecordInv, NEW b \in Blocks, pc[b] \in Roles,
           NEW s \in Sources
    PROVE  slot[s] = "cur"
PROOF
<1>1. syncs[b] = 1 BY DEF GridInv, PhaseAt
<1>2. syncs[0] # 5 BY <1>1, GridFacts, Behind
<1>3. pc[0] \notin {"acks", "done"} BY <1>2, GridFacts DEF GridInv, PhaseAt
<1> QED BY <1>3 DEF RecordInv

\* A relay passes the second SyncAll of a wave that goes on only by its stamp.
LEMMA RelayPasses ==
    ASSUME TypeOK, launch.valid, GridInv, JournalInv, NEW b \in Blocks,
           BlockStep(b) \/ Transfer(b) \/ WaitParserTimeout(b),
           IsRelay(b), ~(syncs[b] >= 2), syncs'[b] >= 2, status' = "OK"
    PROVE  StampStore(b)
PROOF
<1>1. PhaseAt(b) /\ syncs[b] \in Nat /\ ~IsSide(b)
      BY Behind, RelayFacts DEF GridInv
<1>2. syncs'[b] # syncs[b] BY <1>1
<1>3. syncs'[b] = syncs[b] + 1 BY <1>1, <1>2, Passing
<1>4. syncs[b] = 1 BY <1>1, <1>3
<1>5. status = "OK"
  <2>1. [Next]_vars BY DEF Next
  <2> QED BY <2>1, NextJournal
<1>6. ~Sideband(b) /\ ~WaitParserTimeout(b)
      BY <1>1 DEF Sideband, WaitParserTimeout, PhaseAt
<1>7. AfterProduce(b) # "join" BY RoleFacts
<1>8. ~(LeaveBarrier(b) /\ Arrive(b))
  <2> SUFFICES ASSUME LeaveBarrier(b) PROVE ~Arrive(b) OBVIOUS
  <2>1. Enter(b, FirstRole(b)) BY <1>4 DEF LeaveBarrier
  <2>2. FirstRole(b) # "join" BY <1>5, <1>7 DEF FirstRole
  <2> QED BY <1>2, <2>1, <2>2 DEF Enter
<1>9. ~Prefix(b) /\ ~Collect(b) /\ ~PutMetadata(b) /\ ~CheckPublished(b)
      BY <1>1, <1>4 DEF PhaseAt, Prefix, Collect, PutMetadata, CheckPublished
<1> QED BY <1>1, <1>2, <1>6, <1>7, <1>8, <1>9, Passing

\* The actions that write what the relays work with.
LEMMA RelayWriters ==
    ASSUME NEW b \in Blocks,
           BlockStep(b) \/ Transfer(b) \/ WaitParserTimeout(b)
    PROVE  /\ UNCHANGED hidden \/ Transfer(b) \/ SafePack(b)
           /\ UNCHANGED <<ub, puts>> \/ Transfer(b) \/ RelayLand(b)
           /\ UNCHANGED staged \/ SafePull(b)
PROOF
<1> USE DEF roleVars, outVars
<1>1. CASE Transfer(b) BY <1>1 DEF Transfer, LandPut
<1>2. CASE SafePack(b) \/ RelayLand(b) \/ SafePull(b)
      BY <1>2 DEF SafePack, RelayLand, SafePull
<1>3. CASE ~Transfer(b) /\ ~SafePack(b) /\ ~RelayLand(b) /\ ~SafePull(b)
      BY <1>3 DEF BlockStep, WaitParserTimeout, Reserve, Reject, Prefix,
          LeaveBarrier, Produce, PublishPass2, ProduceDone, WaitParser,
          Sideband, RelayGet, RelayQuiet, SafePulled, SafePacked, StampLoad,
          StampStore, Collect, PutMetadata, CheckPublished, Seal,
          PublishDestinationCompletion, PublishSourceAck
<1> QED BY <1>1, <1>2, <1>3

\* The actions by which a block comes to the end of a relay.
LEMMA RelayMoves ==
    ASSUME TypeOK, launch.valid, NEW b \in Blocks, PhaseAt(b),
           BlockStep(b) \/ WaitParserTimeout(b)
    PROVE  /\ pc'[b] = "quiet" => RelayGet(b) \/ RelayLand(b)
           /\ pc'[b] = "stamp" => RelayQuiet(b) \/ SafePacked(b)
           /\ pc'[b] = "stampstore" => StampLoad(b)
           /\ pc'[b] = "pack" => SafePulled(b) \/ SafePack(b)
           /\ pc'[b] = "pull" => \/ SafePull(b) \/ ProduceDone(b)
                                 \/ LeaveBarrier(b) /\ syncs[b] = 1
PROOF
<1> DEFINE Ends == {"quiet", "stamp", "stampstore", "pack", "pull"}
<1> USE DEF TypeOK, GridTypes, Goto, Arrive
<1>1. CASE LeaveBarrier(b)
  <2>1. pc'[b] \in Ends => pc'[b] = "pull" /\ syncs[b] = 1
        BY <1>1, LeavingFacts
  <2> QED BY <1>1, <2>1
<1>2. CASE ProduceDone(b)
  <2>1. pc'[b] \in Ends => pc'[b] = "pull" BY <1>2, ProducedFacts
  <2> QED BY <1>2, <2>1
<1>3. CASE \/ RelayGet(b) \/ RelayLand(b) \/ RelayQuiet(b) \/ SafePull(b)
           \/ SafePulled(b) \/ SafePack(b) \/ SafePacked(b) \/ StampLoad(b)
      BY <1>3 DEF RelayGet, RelayLand, RelayQuiet, SafePull, SafePulled,
          SafePack, SafePacked, StampLoad
<1>4. CASE \/ WaitParserTimeout(b) \/ Reserve(b) \/ Reject(b) \/ Prefix(b)
           \/ Produce(b) \/ PublishPass2(b) \/ WaitParser(b) \/ Sideband(b)
           \/ StampStore(b) \/ Collect(b) \/ PutMetadata(b)
           \/ CheckPublished(b) \/ Seal(b)
           \/ \E d \in Sources : \/ PublishDestinationCompletion(b, d)
                                 \/ PublishSourceAck(b, d)
  <2>1. pc'[b] \notin Ends
        BY <1>4 DEF WaitParserTimeout, Reserve, Reject, Prefix, Produce,
            PublishPass2, WaitParser, Sideband, StampStore, Collect,
            PutMetadata, CheckPublished, Seal, PublishDestinationCompletion,
            PublishSourceAck
  <2> QED BY <2>1
<1> QED BY <1>1, <1>2, <1>3, <1>4 DEF BlockStep
\* On the fast path what has arrived at a destination stays.
LEMMA ArrivedStays ==
    ASSUME TypeOK, launch.valid, GridInv, RelayInv, FastRelay,
           NEW b \in Blocks,
           BlockStep(b) \/ Transfer(b) \/ WaitParserTimeout(b),
           NEW s \in Sources, NEW c \in Chans, NEW d \in Sources,
           Arrived(s, c, d)
    PROVE  Arrived(s, c, d)'
PROOF
<1>1. ~SafePack(b) BY DEF SafePack, GridInv, PhaseAt
<1>2. CASE UNCHANGED hidden BY <1>2 DEF Arrived
<1>3. ASSUME NEW e \in puts[b], LandPut(b, e) PROVE Arrived(s, c, d)'
  <2>1. ub[b] = "cur" BY <1>3 DEF RelayInv, RelayAt
  <2>2. hidden' = [hidden EXCEPT ![RelaySource(b)][RelayChannel(b)][e] = "cur"]
        BY <1>3, <2>1 DEF LandPut
  <2>3. hidden \in [Sources -> [Chans -> [Sources -> Data]]]
        BY DEF TypeOK, MemoryTypes
  <2>4. hidden'[s][c][d] = "cur" \/ hidden'[s][c][d] = hidden[s][c][d]
        BY <2>2, <2>3
  <2> QED BY <2>4 DEF Arrived
<1> QED BY <1>1, <1>2, <1>3, RelayWriters DEF Transfer

\* The fast relays.
LEMMA NextFast ==
    ASSUME TypeOK, launch.valid, GridInv, JournalInv, RecordInv, RelayInv,
           NEW b \in Blocks,
           BlockStep(b) \/ Transfer(b) \/ WaitParserTimeout(b),
           NEW c \in Blocks
    PROVE  RelayAt(c)'
PROOF
<1> DEFINE s == RelaySource(c)
           k == RelayChannel(c)
<1>1. /\ PhaseAt(b) /\ PhaseAt(c) /\ RelayAt(c) BY DEF GridInv, RelayInv
<1>2. status' = "OK" => status = "OK"
  <2>1. [Next]_vars BY DEF Next
  <2> QED BY <2>1, NextJournal
<1>3. /\ s \in Sources
      /\ c < RelayCount => k \in Chans
      BY RelayFacts
<1>4. s' = s /\ k' = k BY DEF RelaySource, RelayChannel
<1>5. Dest[s] \subseteq Sources BY <1>3, RelayFacts, GridAssumption
<1> HIDE DEF s, k
<1>6. ASSUME FastRelay, c < RelayCount, NEW d \in Dest[s], Arrived(s, k, d)
      PROVE  Arrived(s, k, d)'
      BY <1>3, <1>5, <1>6, ArrivedStays, RelayFacts DEF s
<1>7. ASSUME FastRelay, c < RelayCount PROVE IsRelay(c) BY <1>7 DEF IsRelay
<1>8. CASE UNCHANGED <<pc[c], syncs[c], ub[c], puts[c]>>
      BY <1>1, <1>2, <1>4, <1>6, <1>8 DEF RelayAt, s, k
<1>9. CASE c # b BY <1>8, <1>9, OthersStay
<1>10. ASSUME c = b, NEW e \in puts[b], LandPut(b, e) PROVE RelayAt(c)'
  <2>1. /\ UNCHANGED <<pc, syncs, ub>> /\ puts'[c] = puts[c] \ {e}
        /\ hidden' = [hidden EXCEPT ![s][k][e] = ub[c]]
        BY <1>10 DEF LandPut, TypeOK, GridTypes, s, k
  <2>2. /\ pc[c] = "quiet" /\ ub[c] = "cur" /\ puts[c] \subseteq Dest[s]
        /\ syncs[c] = 1
        BY <1>1, <1>10 DEF RelayAt, PhaseAt, Roles, s
  <2>3. FastRelay /\ c < RelayCount => Arrived(s, k, e)'
    <3>1. hidden \in [Sources -> [Chans -> [Sources -> Data]]] /\ e \in Sources
          BY <1>5, <1>10, <2>2 DEF TypeOK, MemoryTypes
    <3>2. c < RelayCount => hidden'[s][k][e] = "cur"
          BY <1>3, <2>1, <2>2, <3>1
    <3> QED BY <1>4, <3>2 DEF Arrived
  <2> QED BY <1>1, <1>4, <1>6, <2>1, <2>2, <2>3 DEF RelayAt, s, k
<1>11. CASE c = b /\ RelayLand(b)
  <2>1. /\ pc'[c] = "quiet" /\ puts'[c] = Dest[s] /\ ub'[c] = slot[s]
        /\ syncs'[c] = 1
        BY <1>1, <1>11
        DEF RelayLand, TypeOK, GridTypes, Goto, s, PhaseAt, Roles
  <2>2. slot[s] = "cur"
        BY <1>11, SlotCurrent, RelayFacts DEF RelayLand, Roles, s
  <2> QED BY <1>4, <2>1, <2>2 DEF RelayAt, s, k
<1>12. CASE c = b /\ ~Transfer(b) /\ ~RelayLand(b)
  <2>1. UNCHANGED <<ub, puts>> BY <1>12, RelayWriters
  <2>2. pc[c] # "quiet" \/ RelayQuiet(c) => puts[c] = {}
        BY <1>1 DEF RelayAt, RelayQuiet
  <2>3. pc[c] = "quiet" => RelayQuiet(c)
        BY <1>12 DEF BlockStep, WaitParserTimeout, Reserve, Reject, Prefix,
            LeaveBarrier, Produce, PublishPass2, ProduceDone, WaitParser,
            Sideband, RelayGet, SafePull, SafePulled, SafePack, SafePacked,
            StampLoad, StampStore, Collect, PutMetadata, CheckPublished, Seal,
            PublishDestinationCompletion, PublishSourceAck
  <2>4. puts'[c] = {} BY <2>1, <2>2, <2>3
  <2>5. ASSUME FastRelay, c < RelayCount, pc'[c] = "quiet" PROVE Dest[s] = {}
    <3>1. RelayGet(c) BY <1>1, <1>12, <2>5, RelayMoves
    <3> QED BY <2>5, <3>1
            DEF RelayGet, Goto, Tokens, TypeOK, GridTypes, s
  <2>6. ASSUME FastRelay, c < RelayCount,
               \/ pc'[c] \in {"stamp", "stampstore"}
               \/ syncs'[c] >= 2 /\ status' = "OK"
        PROVE  \A d \in Dest[s] : Arrived(s, k, d)
    <3>1. CASE pc'[c] = "stamp"
      <4>1. RelayQuiet(c)
            BY <1>1, <1>12, <2>6, <3>1, RelayMoves DEF SafePacked, PhaseAt
      <4> QED BY <1>1, <2>6, <4>1 DEF RelayQuiet, RelayAt, s, k
    <3>2. CASE pc'[c] = "stampstore"
      <4>1. pc[c] = "stamp"
            BY <1>1, <1>12, <3>2, RelayMoves DEF StampLoad
      <4> QED BY <1>1, <2>6, <4>1 DEF RelayAt, s, k
    <3>3. CASE syncs'[c] >= 2 /\ status' = "OK"
      <4>1. CASE syncs[c] >= 2
            BY <1>1, <1>2, <2>6, <3>3, <4>1 DEF RelayAt, s, k
      <4>2. CASE ~(syncs[c] >= 2)
        <5>1. StampStore(c)
              BY <1>7, <1>12, <2>6, <3>3, <4>2, RelayPasses
        <5> QED BY <1>1, <2>6, <5>1 DEF StampStore, RelayAt, s, k
      <4> QED BY <4>1, <4>2
    <3> QED BY <2>6, <3>1, <3>2, <3>3
  <2> QED BY <1>4, <1>6, <2>4, <2>5, <2>6 DEF RelayAt, s, k
<1> QED BY <1>9, <1>10, <1>11, <1>12 DEF Transfer

\* The safe relay.
LEMMA NextSafe ==
    ASSUME TypeOK, launch.valid, GridInv, JournalInv, RecordInv, LayoutInv,
           RelayInv, NEW b \in Blocks,
           BlockStep(b) \/ Transfer(b) \/ WaitParserTimeout(b)
    PROVE  SafeInv'
PROOF
<1> USE GridFacts
<1> SUFFICES ASSUME RowsInStep, ~FastRelay PROVE SafeInv' BY DEF SafeInv
<1>1. PhaseAt(b) /\ PhaseAt(0) /\ syncs[0] \in Nat
      BY Behind DEF GridInv
<1>2. status' = "OK" => status = "OK"
  <2>1. [Next]_vars BY DEF Next
  <2> QED BY <2>1, NextJournal
<1>3. ~Transfer(b)
      BY <1>1 DEF Transfer, LandPut, PhaseAt, RelayInv, RelayAt
<1>4. CASE b # 0
  <2>1. ~SafePack(b) /\ ~SafePull(b)
        BY <1>1, <1>4 DEF SafePack, SafePull, PhaseAt
  <2>2. UNCHANGED <<hidden, staged>> BY <1>3, <2>1, RelayWriters
  <2>3. UNCHANGED <<pc[0], syncs[0], cursor[0]>> BY <1>4, OthersStay
  <2> QED BY <1>2, <2>2, <2>3 DEF RelayInv, SafeInv, AllArrivedAt, Arrived
<1>5. CASE b = 0
  <2>1. Chunks(0) = Parsers BY ChunkFacts DEF RowsInStep
  <2>2. /\ hidden \in [Sources -> [Chans -> [Sources -> Data]]]
        /\ staged \in [Sources -> Data] /\ cursor \in [Blocks -> 0 .. Active]
        BY DEF TypeOK, MemoryTypes, GridTypes
  <2>3. BlockStep(b) \/ WaitParserTimeout(b) BY <1>3
  <2>4. ASSUME pc'[0] = "pull", NEW s \in Sources, s < cursor'[0]
        PROVE  staged'[s] = "cur"
    <3>1. CASE SafePull(b)
      <4>1. /\ pc[0] = "pull" /\ cursor'[0] = cursor[0] + 1
            /\ staged' = [staged EXCEPT ![cursor[0]] = slot[cursor[0]]]
            /\ cursor[0] \in Sources
            BY <1>5, <2>2, <3>1 DEF SafePull, Sources
      <4>2. slot[cursor[0]] = "cur" BY <4>1, SlotCurrent DEF Roles
      <4>3. s < cursor[0] \/ s = cursor[0] BY <2>4, <4>1 DEF Sources
      <4> QED BY <2>2, <4>1, <4>2, <4>3 DEF RelayInv, SafeInv
    <3>2. CASE ProduceDone(b) \/ (LeaveBarrier(b) /\ syncs[b] = 1)
      <4>1. cursor'[0] = 0
            BY <1>5, <2>2, <3>2 DEF ProduceDone, LeaveBarrier, LayoutInv,
                ProducerAt, roleVars
      <4> QED BY <2>4, <4>1 DEF Sources
    <3> QED BY <1>1, <1>5, <2>3, <2>4, <3>1, <3>2, RelayMoves
  <2>5. ASSUME pc'[0] = "pack"
        PROVE  /\ \A s \in Sources : staged'[s] = "cur"
               /\ \A d \in Sources : d < cursor'[0] => AllArrivedAt(d)'
    <3>1. CASE SafePulled(b)
      <4>1. /\ pc[0] = "pull" /\ cursor[0] = W /\ cursor'[0] = 0
            /\ UNCHANGED staged
            BY <1>5, <2>2, <3>1 DEF SafePulled
      <4>2. \A s \in Sources : s < W /\ ~(s < 0) BY DEF Sources
      <4> QED BY <4>1, <4>2 DEF RelayInv, SafeInv
    <3>2. CASE SafePack(b)
      <4>1. /\ pc[0] = "pack" /\ cursor'[0] = cursor[0] + 1 /\ UNCHANGED staged
            /\ cursor[0] \in Sources
            BY <1>5, <2>2, <3>2 DEF SafePack, Sources
      <4>2. \A p \in Parsers : layout[p]
            BY <2>1, <4>1 DEF LayoutInv, ProducerAt, ChunksWritten, Produced,
                Roles
      <4>3. /\ \A s \in Sources : staged[s] = "cur"
            /\ \A d \in Sources : d < cursor[0] => AllArrivedAt(d)
            BY <4>1 DEF RelayInv, SafeInv
      <4>4. hidden' = [s \in Sources |-> [c \in Chans |->
                         [hidden[s][c] EXCEPT ![cursor[0]] =
                            IF cursor[0] \notin Dest[s] THEN @ ELSE staged[s]]]]
            BY <1>5, <3>2, <4>2 DEF SafePack, LanesOf, Parsers
      <4>5. ASSUME NEW d \in Sources, d < cursor'[0], NEW s \in Sources,
                   NEW c \in Chans, d \in Dest[s]
            PROVE  hidden'[s][c][d] = "cur"
        <5>1. hidden'[s][c] = [hidden[s][c] EXCEPT ![cursor[0]] =
                            IF cursor[0] \notin Dest[s] THEN @ ELSE staged[s]]
              BY <4>4
        <5>2. hidden[s][c] \in [Sources -> Data] BY <2>2
        <5>3. CASE d = cursor[0] BY <4>1, <4>3, <4>5, <5>1, <5>2, <5>3
        <5>4. CASE d # cursor[0]
          <6>1. d < cursor[0] BY <4>1, <4>5, <5>4 DEF Sources
          <6> QED BY <4>3, <4>5, <5>1, <5>2, <5>4, <6>1
                  DEF AllArrivedAt, Arrived
        <5> QED BY <5>3, <5>4
      <4> QED BY <4>1, <4>3, <4>5 DEF AllArrivedAt, Arrived
    <3> QED BY <1>1, <1>5, <2>3, <2>5, <3>1, <3>2, RelayMoves
  <2>6. ASSUME \/ pc'[0] \in {"stamp", "stampstore"}
               \/ syncs'[0] >= 2 /\ status' = "OK"
        PROVE  \A d \in Sources : AllArrivedAt(d)'
    <3>1. CASE UNCHANGED hidden /\ \A d \in Sources : AllArrivedAt(d)
          BY <3>1 DEF AllArrivedAt, Arrived
    <3>2. ASSUME SafePack(b) PROVE FALSE
      <4>1. pc'[0] = "pack" /\ syncs'[0] = 1
            BY <1>1, <1>5, <3>2 DEF SafePack, PhaseAt, Roles
      <4> QED BY <2>6, <4>1
    <3>3. UNCHANGED hidden BY <1>3, <3>2, RelayWriters
    <3>4. CASE pc'[0] = "stamp"
      <4>1. SafePacked(b)
            BY <1>1, <1>5, <2>3, <3>4, RelayMoves DEF RelayQuiet, PhaseAt
      <4>2. pc[0] = "pack" /\ cursor[0] = W BY <1>5, <4>1 DEF SafePacked
      <4>3. \A d \in Sources : d < W BY DEF Sources
      <4>4. \A d \in Sources : AllArrivedAt(d)
            BY <4>2, <4>3 DEF RelayInv, SafeInv
      <4> QED BY <3>1, <3>3, <4>4
    <3>5. CASE pc'[0] = "stampstore"
      <4>1. pc[0] = "stamp"
            BY <1>1, <1>5, <2>3, <3>5, RelayMoves DEF StampLoad
      <4> QED BY <3>1, <3>3, <4>1 DEF RelayInv, SafeInv
    <3>6. CASE syncs'[0] >= 2 /\ status' = "OK"
      <4>1. CASE syncs[0] >= 2
            BY <1>2, <3>1, <3>3, <3>6, <4>1 DEF RelayInv, SafeInv
      <4>2. CASE ~(syncs[0] >= 2)
        <5>1. StampStore(b)
              BY <1>5, <3>6, <4>2, RelayPasses DEF IsRelay
        <5>2. pc[0] = "stampstore" BY <1>5, <5>1 DEF StampStore
        <5> QED BY <3>1, <3>3, <5>2 DEF RelayInv, SafeInv
      <4> QED BY <4>1, <4>2
    <3> QED BY <2>6, <3>4, <3>5, <3>6
  <2> QED BY <2>4, <2>5, <2>6 DEF SafeInv
<1> QED BY <1>4, <1>5
-----------------------------------------------------------------------------
(* The theorems. *)

LEMMA InitDInv == Init => DInv
PROOF
<1> SUFFICES ASSUME Init PROVE DInv OBVIOUS
<1> USE GridFacts
<1>1. /\ launch.journal \in JournalStates /\ launch.mine \in BOOLEAN
      BY GridAssumption DEF Init
<1>2. hidden \in [Sources -> [Chans -> [Sources -> Data]]]
      BY DEF Init, Payload, Data
<1>3. MemoryTypes
  <2>1. "OK" \in Statuses BY DEF Statuses
  <2> QED BY <1>1, <1>2, <2>1 DEF Init, MemoryTypes, Data
<1>4. GridTypes BY DEF Init, GridTypes, Data
<1>5. TypeOK BY <1>3, <1>4 DEF Init, TypeOK
<1>6. /\ \A b \in Blocks : /\ pc[b] = IF b = 0 THEN "reserve" ELSE "wait"
                           /\ syncs[b] = IF b = 0 THEN 0 ELSE 1
                           /\ cursor[b] = 0 /\ copy[b] = "OK" /\ puts[b] = {}
      /\ status = "OK" /\ journal = launch.journal /\ mine = launch.mine
      /\ \A s \in Sources : /\ completion[s] = "none" /\ ack[s] = "none"
                            /\ slot[s] = "cur" /\ ~published[s]
      BY DEF Init
<1>7. Refused BY <1>6 DEF Refused
<1>8. GridInv BY <1>6 DEF GridInv, Order, PhaseAt, Roles
<1>9. JournalInv /\ RecordInv BY <1>6 DEF JournalInv, RecordInv
<1>10. LayoutInv
  <2>1. \A p \in Parsers : /\ line[p] = "OK"
                           /\ layout[p] = ~Tokens(p \div Cohort)
        BY DEF Init, Parsers
  <2>2. \A b \in Blocks : ProducerAt(b)
        BY <1>6 DEF ProducerAt, Produced, Roles
  <2> QED BY <2>1, <2>2 DEF LayoutInv
<1>11. SideInv BY <1>6 DEF SideInv
<1>12. RelayInv
  <2>1. \A b \in Blocks : RelayAt(b) BY <1>6 DEF RelayAt
  <2>2. SafeInv BY <1>6 DEF SafeInv
  <2> QED BY <2>1, <2>2 DEF RelayInv
<1> QED BY <1>5, <1>7, <1>8, <1>9, <1>10, <1>11, <1>12 DEF DInv, ValidInv

LEMMA NextDInv == DInv /\ [Next]_vars => DInv'
PROOF
<1> SUFFICES ASSUME DInv, [Next]_vars PROVE DInv' OBVIOUS
<1>1. CASE ~launch.valid BY <1>1, NextRefused DEF DInv
<1>2. CASE launch.valid
  <2>1. /\ TypeOK /\ GridInv /\ JournalInv /\ RecordInv /\ LayoutInv
        /\ SideInv /\ RelayInv
        BY <1>2 DEF DInv, ValidInv
  <2>2. TypeOK' /\ GridInv' /\ launch' = launch
        BY <1>2, <2>1, NextGrid DEF input
  <2>3. JournalInv' /\ RecordInv' /\ LayoutInv'
        BY <1>2, <2>1, NextJournal, NextRecord, NextLayout
  <2>4. SideInv' /\ RelayInv'
    <3>1. ASSUME NEW b \in Blocks,
                 BlockStep(b) \/ Transfer(b) \/ WaitParserTimeout(b)
          PROVE  SideInv' /\ RelayInv'
          BY <1>2, <2>1, <3>1, NextSide, NextFast, NextSafe DEF RelayInv
    <3>2. ASSUME UNCHANGED <<input, jVars, roleVars, pc, syncs, hidden, meta>>
          PROVE  SideInv' /\ RelayInv'
      <4>1. SideInv'
            BY <2>1, <3>2 DEF SideInv, IsSide, Side, input, jVars, roleVars
      <4>2. \A b \in Blocks : RelayAt(b)'
            BY <2>1, <3>2 DEF RelayInv, RelayAt, Arrived, RelaySource,
                RelayChannel, jVars, roleVars
      <4>3. SafeInv'
            BY <2>1, <3>2 DEF RelayInv, SafeInv, AllArrivedAt, Arrived, jVars,
                roleVars
      <4> QED BY <4>1, <4>2, <4>3 DEF RelayInv
    <3>3. CASE UNCHANGED vars BY <3>2, <3>3 DEF vars, outVars
    <3>4. CASE \E s \in Sources : ReuseSlot(s)
          BY <3>2, <3>4 DEF ReuseSlot
    <3> QED BY <3>1, <3>3, <3>4 DEF Next
  <2> QED BY <1>2, <2>1, <2>2, <2>3, <2>4 DEF DInv, ValidInv
<1> QED BY <1>1, <1>2

\* The inductive invariant of a Dispatch launch: where every block is between
\* the SyncAlls, what the journal slot and the records hold, which chunks of
\* the layout are written, what the sideband has checked, and which rows have
\* arrived.
THEOREM RelayInvariant == Spec => []DInv
PROOF
<1>1. Init => DInv BY InitDInv
<1>2. DInv /\ [Next]_vars => DInv' BY NextDInv
<1> QED BY <1>1, <1>2, PTL DEF Spec

\* Every variable keeps to its set: in particular no block arrives at a sixth
\* SyncAll and no relay stamps a line that does not exist.
THEOREM RelayTypes == Spec => []TypeOK
PROOF
<1>1. DInv => TypeOK BY DEF DInv
<1> QED BY <1>1, RelayInvariant, PTL

\* Every record carries one verdict, which is OK exactly when this wave's
\* journal is sealed.
THEOREM DispatchVerdictIsOne == Spec => []OneVerdict
PROOF
<1>1. ASSUME DInv PROVE OneVerdict
  <2>1. CASE ~launch.valid BY <1>1, <2>1 DEF DInv, Refused, OneVerdict
  <2>2. CASE launch.valid
    <3>1. JournalInv /\ RecordInv BY <1>1, <2>2 DEF DInv, ValidInv
    <3>2. ASSUME NEW s \in Sources, ack[s] # "none" \/ completion[s] # "none"
          PROVE  /\ pc[0] \in {"completions", "acks", "done"}
                 /\ status = "OK" <=> journal = "DISPATCH_SEALED" /\ Mine
      <4>1. pc[0] \in {"completions", "acks", "done"}
            BY <3>1, <3>2 DEF RecordInv
      <4>2. status = "OK" => Mine BY <3>1, <4>1 DEF JournalInv, Mine, Takes
      <4> QED BY <3>1, <4>1, <4>2 DEF JournalInv
    <3> QED BY <3>1, <3>2 DEF OneVerdict, RecordInv
  <2> QED BY <2>1, <2>2
<1>2. DInv => OneVerdict BY <1>1
<1> QED BY <1>2, RelayInvariant, PTL

\* A journal slot of another wave, or with a foreign header, is left alone.
THEOREM ForeignJournalIsKept == Spec => []ForeignJournalKept
PROOF
<1>1. ASSUME DInv PROVE ForeignJournalKept
  <2>1. CASE ~launch.valid BY <1>1, <2>1 DEF DInv, Refused, ForeignJournalKept
  <2>2. CASE launch.valid
    <3>1. JournalInv BY <1>1, <2>2 DEF DInv, ValidInv
    <3> QED BY <3>1 DEF JournalInv, ForeignJournalKept, Takes, Mine
  <2> QED BY <2>1, <2>2
<1>2. DInv => ForeignJournalKept BY <1>1
<1> QED BY <1>2, RelayInvariant, PTL

\* No source slot is released while a relay may still read it or before every
\* destination has its completion.
THEOREM AcksAreLast == Spec => []AckIsLast
PROOF
<1>1. ASSUME DInv PROVE AckIsLast
  <2>1. CASE ~launch.valid BY <1>1, <2>1 DEF DInv, Refused, AckIsLast
  <2>2. CASE launch.valid
    <3>1. TypeOK /\ GridInv /\ RecordInv /\ RelayInv
          BY <1>1, <2>2 DEF DInv, ValidInv
    <3> SUFFICES ASSUME NEW s \in Sources, ack[s] # "none"
                 PROVE  /\ \A d \in Sources : completion[d] # "none"
                        /\ \A b \in Blocks :
                              /\ puts[b] = {}
                              /\ pc[b] \notin {"get", "land", "pull"}
        BY DEF AckIsLast
    <3>2. pc[0] \in {"acks", "done"} BY <3>1 DEF RecordInv
    <3>3. syncs[0] = 5 BY <3>1, <3>2, GridFacts DEF GridInv, PhaseAt
    <3>4. \A b \in Blocks : pc[b] \notin Roles
      <4> TAKE b \in Blocks
      <4>1. syncs[b] >= 5 BY <3>1, <3>2, <3>3, GridFacts, Behind
      <4> QED BY <3>1, <4>1 DEF GridInv, PhaseAt
    <3>5. \A b \in Blocks : puts[b] = {}
          BY <3>1, <3>4 DEF RelayInv, RelayAt, Roles
    <3> QED BY <3>1, <3>2, <3>4, <3>5 DEF RecordInv, Roles
  <2> QED BY <2>1, <2>2
<1>2. DInv => AckIsLast BY <1>1
<1> QED BY <1>2, RelayInvariant, PTL

\* An OK completion covers the layout, the metadata, every row and every
\* digest, unless the layout is produced in parallel while the safe relay
\* packs: a uniform wave of multiples of eight tokens whose rows are not whole
\* cachelines, for which it does not hold (run RelayOddRows).
THEOREM DispatchCompletionsAreExact ==
    Spec => [](RowsInStep => CompletionIsExact)
PROOF
<1>1. ASSUME DInv, RowsInStep PROVE CompletionIsExact
  <2> SUFFICES ASSUME NEW d \in Sources, completion[d] = "OK"
               PROVE  /\ meta[d] = "full"
                      /\ \A s \in Sources, c \in Chans :
                            d \in Dest[s] => hidden[s][c][d] = "cur"
                      /\ \A s \in Sources : launch.digest[s]
      BY DEF CompletionIsExact
  <2>1. /\ launch.valid /\ TypeOK /\ GridInv /\ RecordInv /\ SideInv
        /\ RelayInv
        BY <1>1 DEF DInv, ValidInv, Refused
  <2>2. pc[0] \in {"completions", "acks", "done"} /\ status = "OK"
        BY <2>1 DEF RecordInv
  <2>3. syncs[0] = 5 BY <2>1, <2>2, GridFacts DEF GridInv, PhaseAt
  <2>4. \A b \in Blocks : syncs[b] >= 2
    <3> TAKE b \in Blocks
    <3>1. syncs[b] \in Nat /\ syncs[b] >= 5
          BY <2>1, <2>2, <2>3, GridFacts, Behind
    <3> QED BY <3>1
  <2>5. meta[d] = "full" BY <2>1, <2>2, <2>3 DEF SideInv
  <2>6. ASSUME NEW s \in Sources PROVE launch.digest[s]
    <3>1. srcError[s] = "OK" BY <2>1, <2>2, <2>3 DEF SideInv
    <3>2. /\ SideBegin + s \in Blocks /\ IsSide(SideBegin + s)
          /\ Side(SideBegin + s) = s
          BY SideFacts
    <3> QED BY <2>1, <2>2, <2>4, <3>1, <3>2 DEF SideInv
  <2>7. ASSUME NEW s \in Sources, NEW c \in Chans, d \in Dest[s]
        PROVE  hidden[s][c][d] = "cur"
    <3>1. CASE FastRelay
      <4>1. PICK b \in Blocks : /\ b < RelayCount
                                /\ RelaySource(b) = s /\ RelayChannel(b) = c
            BY RelayOf
      <4> QED BY <2>1, <2>2, <2>4, <2>7, <3>1, <4>1
              DEF RelayInv, RelayAt, Arrived
    <3>2. CASE ~FastRelay
          BY <1>1, <2>1, <2>2, <2>3, <2>7, <3>2
          DEF RelayInv, SafeInv, AllArrivedAt, Arrived
    <3> QED BY <3>1, <3>2
  <2> QED BY <2>5, <2>6, <2>7
<1>2. DInv => (RowsInStep => CompletionIsExact) BY <1>1
<1> QED BY <1>2, RelayInvariant, PTL
=============================================================================
