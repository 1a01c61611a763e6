------------------------- MODULE DispatchParseProofs -------------------------
(***************************************************************************)
(* Proofs about DispatchParse, for every number of workers, every size of   *)
(* the parser cohort and every packet.                                      *)
(***************************************************************************)
EXTENDS DispatchParse, NaturalFacts

\* The block of a lane of a source's cohort.
BlockOf(s, l) == s * C + l

\* How far the packet of a source has got, by where its worker is.  The inbox
\* is torn while one of its two parts is in flight.
Metadata == {"metadata1", "metadata2"}
WorkAt(s) ==
    /\ sent[s] \in {"idle", "revoked"} =>
           flight[s] = {} /\ prefix[s] = "stale" /\ inbox[s] = "stale"
    /\ sent[s] = "idle" => publication[s] # "fresh"
    /\ sent[s] \in {"revoked", "put"} => publication[s] = "zero"
    /\ sent[s] = "put" =>
           /\ inbox[s] = "stale" => Metadata \subseteq flight[s]
           /\ inbox[s] = "torn" =>
                  "metadata1" \in flight[s] <=> "metadata2" \notin flight[s]
           /\ inbox[s] = "fresh" => Metadata \cap flight[s] = {}
           /\ "ready" \in flight[s] \/ prefix[s] = "fresh"
    /\ sent[s] = "done" =>
           /\ flight[s] = {} /\ prefix[s] = "fresh" /\ inbox[s] = "fresh"
           /\ publication[s] = "fresh"

\* The packet of the source is complete in the inbox and its header passes.
Delivered(s) == /\ sent[s] = "done"
                /\ packet[s].ready /\ packet[s].header = "OK"

\* Lane 0 tells its cohort of success only for a delivered packet.
SourceAt(s) ==
    /\ WorkAt(s)
    /\ srcState[s] \in {"HEADER", "METADATA"} => Delivered(s)

\* Lane l of the cohort of block b has refreshed its range.
Ready(b, l) == metaState[BlockOf(Src(b), l)] = "READY"

\* The lane's share of a packet that passes the checks the lane makes.
ShareSound(b) ==
    /\ Lane(b) = 0 => packet[Src(b)].padding
    /\ ~Unsound(b)

\* What a block knows, by where it is: a block without error past the header
\* has a delivered packet; past the wait for the peers every range of the
\* inbox has been refreshed; at the end its share has been parsed.
LaneAt(b) ==
    /\ pc[b] # "header" /\ localStatus[b] = "OK" =>
           Delivered(Src(b)) /\ srcState[Src(b)] # "unset"
    /\ pc[b] \in {"header", "refresh"} => metaState[b] = "unset"
    /\ metaState[b] = "READY" => view[Src(b)][Lane(b)] = "fresh"
    /\ pc[b] \in {"peers", "cohort", "parse"} => localStatus[b] = "OK"
    /\ pc[b] = "peers" => \A l \in Lanes : l < peer[b] => Ready(b, l)
    /\ pc[b] \in {"cohort", "parse"} => \A l \in Lanes : Ready(b, l)
    /\ pc[b] = "parse" /\ Lane(b) = 0 => packet[Src(b)].padding
    /\ parsed[b] # "stale"
    /\ pc[b] \in {"record", "barrier", "done"} /\ localStatus[b] = "OK" =>
           parsed[b] = "fresh" /\ ShareSound(b)
    /\ pc[b] \in {"barrier", "done"} => blkStatus[b] = localStatus[b]

\* The verdict is made when all blocks have arrived, and is OK only if the
\* wave fits and no block has an error of which block 0 has no old copy.
VerdictInv ==
    /\ (\E b \in Blocks : pc[b] = "done") => Decided
    /\ Decided /\ status = "OK" =>
           /\ \A b \in Blocks \ Copied : blkStatus[b] = "OK"
           /\ Fits

\* In a wave of well-formed packets every word that carries an error carries
\* that of a deadline.
Mild == {"OK", "READY_TIMEOUT"}
MildWords ==
    /\ status \in Mild
    /\ \A s \in Sources :
           /\ srcError[s] \in Mild
           /\ srcState[s] \in {"unset", "HEADER", "METADATA"} \cup Mild
    /\ \A b \in Blocks : /\ localStatus[b] \in Mild /\ blkStatus[b] \in Mild
                         /\ copy[b] \in Mild \cup {"none"}
                         /\ metaState[b] \in {"unset", "READY"} \cup Mild
AbortInv == WellFormed => MildWords

\* A block starts its wait for the peers at lane 0.
PeerInv == \A b \in Blocks : pc[b] \in {"header", "refresh"} => peer[b] = 0

PInv == /\ TypeOK /\ PeerInv /\ VerdictInv /\ AbortInv
        /\ \A s \in Sources : SourceAt(s)
        /\ \A b \in Blocks : LaneAt(b)

-----------------------------------------------------------------------------
(* Blocks and lanes. *)

\* A block is one lane of the cohort of one source ...
LEMMA BlockIsLane ==
    ASSUME NEW b \in Blocks
    PROVE  /\ Src(b) \in Sources /\ Lane(b) \in Lanes
           /\ BlockOf(Src(b), Lane(b)) = b
PROOF
<1>1. /\ W \in Nat \ {0} /\ C \in Nat \ {0} /\ b \in Nat /\ b < C * W
      BY CohortAssumption DEF Blocks
<1>2. /\ Src(b) \in Nat /\ Lane(b) \in Nat /\ Lane(b) < C
      /\ b = C * Src(b) + Lane(b)
      BY <1>1, Division DEF Src, Lane
<1>3. Src(b) < W BY <1>1, QuotientBounds DEF Src
<1>4. BlockOf(Src(b), Lane(b)) = b BY <1>1, <1>2 DEF BlockOf
<1> QED BY <1>1, <1>2, <1>3, <1>4 DEF Sources, Lanes

\* ... and every lane is one block.
LEMMA LaneIsBlock ==
    ASSUME NEW s \in Sources, NEW l \in Lanes
    PROVE  /\ BlockOf(s, l) \in Blocks
           /\ Src(BlockOf(s, l)) = s /\ Lane(BlockOf(s, l)) = l
PROOF
<1>1. /\ W \in Nat \ {0} /\ C \in Nat \ {0} /\ s \in Nat /\ s < W
      /\ l \in Nat /\ l < C
      BY CohortAssumption DEF Sources, Lanes
<1>2. s * C + l = C * s + l /\ C * s \in Nat BY <1>1
<1>3. Src(BlockOf(s, l)) = s /\ Lane(BlockOf(s, l)) = l
      BY <1>1, <1>2, QuotientIs DEF Src, Lane, BlockOf
<1>4. C * s + l < W * C
  <2>1. C * (s + 1) <= C * W BY <1>1
  <2>2. C * (s + 1) = C * s + C BY <1>1
  <2> QED BY <1>1, <1>2, <2>1, <2>2
<1> QED BY <1>1, <1>2, <1>3, <1>4 DEF BlockOf, Blocks

-----------------------------------------------------------------------------
(* The partition of a source's tokens over the lanes. *)

Groups(count) == (count + 7) \div 8
\* The group at which a lane starts.
GroupBoundary(count, l) == (Groups(count) * l) \div C

\* The boundary of a lane in tokens, and how the boundaries are ordered.
LEMMA BoundaryFacts ==
    ASSUME NEW count \in Nat, NEW l \in 0 .. C
    PROVE  /\ Groups(count) \in Nat /\ count <= 8 * Groups(count)
           /\ GroupBoundary(count, l) \in Nat
           /\ ParserTokenBoundary(count, l) =
                  IF 8 * GroupBoundary(count, l) < count
                  THEN 8 * GroupBoundary(count, l) ELSE count
           /\ l = 0 => GroupBoundary(count, l) = 0
           /\ l = C => GroupBoundary(count, l) = Groups(count)
           /\ \A k \in 0 .. C : l <= k =>
                  GroupBoundary(count, l) <= GroupBoundary(count, k)
PROOF
<1> DEFINE G == Groups(count)
<1>1. C \in Nat \ {0} /\ l \in Nat BY CohortAssumption
<1>2. G \in Nat /\ count <= 8 * G
  <2> DEFINE r == (count + 7) % 8
  <2>1. G \in Nat /\ r \in Nat /\ r < 8 /\ count + 7 = 8 * G + r
        BY Division DEF Groups
  <2> HIDE DEF r, G
  <2> QED BY <2>1
<1> HIDE DEF G
<1>3. GroupBoundary(count, l) = (G * l) \div C BY DEF GroupBoundary, G
<1>4. G * l \in Nat BY <1>1, <1>2
<1>5. GroupBoundary(count, l) \in Nat BY <1>1, <1>3, <1>4, Division
<1>6. ParserTokenBoundary(count, l) =
          IF 8 * GroupBoundary(count, l) < count
          THEN 8 * GroupBoundary(count, l) ELSE count
      BY DEF ParserTokenBoundary, GroupBoundary, Groups
<1>7. ASSUME l = 0 PROVE GroupBoundary(count, l) = 0
  <2>1. G * l = C * 0 + 0 BY <1>1, <1>2, <1>7
  <2> QED BY <1>1, <1>3, <2>1, QuotientIs
<1>8. ASSUME l = C PROVE GroupBoundary(count, l) = G
  <2>1. G * l = C * G + 0 BY <1>1, <1>2, <1>8
  <2> QED BY <1>1, <1>2, <1>3, <2>1, QuotientIs
<1>9. ASSUME NEW k \in 0 .. C, l <= k
      PROVE  GroupBoundary(count, l) <= GroupBoundary(count, k)
  <2>1. G * l <= G * k /\ G * k \in Nat BY <1>1, <1>2, <1>9
  <2>2. C * ((G * l) \div C) <= G * l
        BY <1>1, <1>4, <1>5, <1>3, QuotientBounds
  <2>3. C * ((G * l) \div C) <= G * k
        BY <1>1, <1>3, <1>4, <1>5, <2>1, <2>2
  <2>4. GroupBoundary(count, k) = (G * k) \div C BY DEF GroupBoundary, G
  <2> QED BY <1>1, <1>3, <1>5, <2>1, <2>3, <2>4, QuotientBounds
<1> QED BY <1>2, <1>5, <1>6, <1>7, <1>8, <1>9 DEF G

\* Every token is in the range of some lane.
LEMMA TokenHasLane ==
    ASSUME NEW count \in Nat, NEW t \in 0 .. count - 1
    PROVE  \E l \in Lanes : /\ ParserTokenBoundary(count, l) <= t
                            /\ t < ParserTokenBoundary(count, l + 1)
PROOF
<1> DEFINE G == Groups(count)
           g == t \div 8
           n == (g + 1) * C - 1
           l == n \div G
<1>1. C \in Nat \ {0} /\ t \in Nat /\ t < count /\ 0 \in 0 .. C
      BY CohortAssumption
<1>2. G \in Nat /\ count <= 8 * G BY <1>1, BoundaryFacts
<1>3. g \in Nat /\ 8 * g <= t /\ t < 8 * (g + 1)
      BY <1>1, Division
<1> HIDE DEF G, g
<1>4. g + 1 <= G /\ G \in Nat \ {0} BY <1>1, <1>2, <1>3
<1>5. n \in Nat
  <2>1. (g + 1) * C >= 1 * C BY <1>1, <1>3
  <2> QED BY <1>1, <1>3, <2>1
<1>6. l \in Nat /\ G * l <= n /\ n < G * (l + 1)
  <2>1. l \in Nat BY <1>4, <1>5, Division
  <2>2. G * l <= n BY <1>4, <1>5, <2>1, QuotientBounds
  <2>3. n < G * (l + 1) BY <1>4, <1>5, <2>1, QuotientBounds
  <2> QED BY <2>1, <2>2, <2>3
<1> HIDE DEF l
<1>7. l < C
  <2> SUFFICES ASSUME l >= C PROVE FALSE BY <1>1, <1>6
  <2>1. G * l >= G * C BY <1>1, <1>4, <1>6
  <2>2. (g + 1) * C <= G * C BY <1>1, <1>3, <1>4
  <2> QED BY <1>1, <1>3, <1>4, <1>6, <2>1, <2>2
<1>8. l \in Lanes /\ l \in 0 .. C /\ l + 1 \in 0 .. C
      BY <1>1, <1>6, <1>7 DEF Lanes
<1>9. GroupBoundary(count, l) <= g
  <2>1. G * l \in Nat /\ G * l < C * (g + 1) BY <1>1, <1>3, <1>4, <1>6
  <2>2. (G * l) \div C < g + 1 BY <1>1, <1>3, <2>1, QuotientBounds
  <2>3. (G * l) \div C \in Nat BY <1>1, <2>1, Division
  <2> QED BY <1>3, <2>2, <2>3 DEF GroupBoundary, G
<1>10. GroupBoundary(count, l + 1) >= g + 1
  <2>1. G * (l + 1) \in Nat /\ C * (g + 1) <= G * (l + 1)
        BY <1>1, <1>3, <1>4, <1>5, <1>6
  <2> QED BY <1>1, <1>3, <2>1, QuotientBounds DEF GroupBoundary, G
<1>11. ParserTokenBoundary(count, l) <= t
  <2> DEFINE m == GroupBoundary(count, l)
  <2>1. /\ m \in Nat /\ m <= g
        /\ ParserTokenBoundary(count, l) = IF 8 * m < count THEN 8 * m
                                           ELSE count
        BY <1>8, <1>9, BoundaryFacts
  <2> HIDE DEF m
  <2> QED BY <1>1, <1>3, <2>1
<1>12. t < ParserTokenBoundary(count, l + 1)
  <2> DEFINE m == GroupBoundary(count, l + 1)
  <2>1. /\ m \in Nat /\ m >= g + 1
        /\ ParserTokenBoundary(count, l + 1) = IF 8 * m < count THEN 8 * m
                                               ELSE count
        BY <1>8, <1>10, BoundaryFacts
  <2> HIDE DEF m
  <2> QED BY <1>1, <1>3, <2>1
<1> QED BY <1>8, <1>11, <1>12

\* Tokens of different lanes are in different groups.
LEMMA LanesDoNotShareGroups ==
    ASSUME NEW count \in Nat, NEW l \in Lanes, NEW k \in Lanes, l < k,
           NEW t \in Nat, t < ParserTokenBoundary(count, l + 1),
           NEW u \in Nat, u >= ParserTokenBoundary(count, k), u < count
    PROVE  t \div 8 < u \div 8
PROOF
<1> DEFINE m == GroupBoundary(count, l + 1)
           n == GroupBoundary(count, k)
<1>1. /\ C \in Nat \ {0} /\ l \in Nat /\ k \in Nat
      /\ l + 1 \in 0 .. C /\ k \in 0 .. C /\ l + 1 <= k
      BY CohortAssumption DEF Lanes
<1>2. /\ m \in Nat /\ n \in Nat /\ m <= n
      /\ ParserTokenBoundary(count, l + 1) = IF 8 * m < count THEN 8 * m
                                             ELSE count
      /\ ParserTokenBoundary(count, k) = IF 8 * n < count THEN 8 * n
                                         ELSE count
      BY <1>1, BoundaryFacts
<1> HIDE DEF m, n
<1>3. t < 8 * m /\ 8 * m <= u BY <1>2
<1>4. t \div 8 < m BY <1>2, <1>3, QuotientBounds
<1>5. m <= u \div 8 BY <1>2, <1>3, QuotientBounds
<1>6. t \div 8 \in Nat /\ u \div 8 \in Nat BY Division
<1> QED BY <1>2, <1>4, <1>5, <1>6

\* A lane's range lies within the tokens of the packet.
LEMMA LaneRange ==
    ASSUME NEW count \in Nat, NEW l \in Lanes
    PROVE  /\ ParserTokenBoundary(count, l) \in 0 .. count
           /\ ParserTokenBoundary(count, l + 1) \in 0 .. count
PROOF
<1>1. l \in 0 .. C /\ l + 1 \in 0 .. C BY CohortAssumption DEF Lanes
<1>2. ASSUME NEW k \in 0 .. C PROVE ParserTokenBoundary(count, k) \in 0 .. count
  <2> DEFINE m == GroupBoundary(count, k)
  <2>1. /\ m \in Nat
        /\ ParserTokenBoundary(count, k) = IF 8 * m < count THEN 8 * m
                                           ELSE count
        BY BoundaryFacts
  <2> HIDE DEF m
  <2> QED BY <2>1
<1> QED BY <1>1, <1>2

-----------------------------------------------------------------------------
(* Types. *)

\* The scan takes the first element of what it looks for.
LEMMA FirstIsIn ==
    ASSUME NEW S, S \subseteq Nat, S # {}
    PROVE  First(S) \in S
PROOF
<1>1. \E i \in S : \A j \in S : i <= j BY LeastNatural
<1> QED BY <1>1 DEF First

\* The running totals fit exactly when the tokens up to each source do.
LEMMA FitsBySource ==
    Fits <=> /\ \A s \in Sources : FitsUpTo(s)
             /\ RowMapFits /\ plan.layout = "OK"
PROOF
<1>1. W \in Nat BY CohortAssumption
<1> DEFINE fits(n) == TotalTokens(packet)[n] <= plan.tokenCapacity
<1>2. (\A n \in 1 .. W : fits(n)) <=> \A s \in Sources : fits(s + 1)
  <2> HIDE DEF fits
  <2>1. ASSUME \A n \in 1 .. W : fits(n), NEW s \in Sources
        PROVE  fits(s + 1)
        BY <1>1, <2>1 DEF Sources
  <2>2. ASSUME \A s \in Sources : fits(s + 1), NEW n \in 1 .. W
        PROVE  fits(n)
    <3>1. n - 1 \in Sources /\ (n - 1) + 1 = n BY <1>1 DEF Sources
    <3>2. fits((n - 1) + 1) BY <2>2, <3>1
    <3> QED BY <3>1, <3>2
  <2> QED BY <2>1, <2>2
<1> QED BY <1>2 DEF Fits, FitsUpTo

\* The verdict is a status, and OK only when nothing is wrong.
LEMMA VerdictFacts ==
    ASSUME TypeOK, NEW kept, kept \subseteq Copied
    PROVE  /\ WaveVerdict(kept) \in Statuses
           /\ WaveVerdict(kept) = "OK" =>
                 /\ \A b \in Blocks \ Copied : blkStatus[b] = "OK"
                 /\ Fits
           /\ AbortInv /\ WellFormed => WaveVerdict(kept) \in Mild
PROOF
<1>1. /\ plan \in Plans /\ srcError \in [Sources -> Statuses]
      /\ plan.layout \in Statuses
      /\ "OK" \in Statuses /\ "CAPACITY_EXCEEDED" \in Statuses
      BY DEF TypeOK, SourceTypes, Plans, Statuses
<1>2. Sources \subseteq Nat /\ Blocks \subseteq Nat
      BY CohortAssumption DEF Sources, Blocks
<1>3. \A b \in Blocks : Seen(b, kept) \in Statuses
      BY DEF Seen, Copied, TypeOK, BlockTypes
<1>4. Stops # {} => /\ First(Stops) \in Sources
                    /\ \/ srcError[First(Stops)] # "OK"
                       \/ ~FitsUpTo(First(Stops))
      BY <1>2, FirstIsIn DEF Stops
<1>5. BadBlocks(kept) # {} => /\ First(BadBlocks(kept)) \in Blocks
                              /\ Seen(First(BadBlocks(kept)), kept) # "OK"
      BY <1>2, FirstIsIn DEF BadBlocks
<1>6. SourceVerdict \in Statuses BY <1>1, <1>4 DEF SourceVerdict
<1>7. SourceVerdict = "OK" => Stops = {} BY <1>4 DEF SourceVerdict
<1>8. WaveVerdict(kept) \in Statuses
      BY <1>1, <1>3, <1>5, <1>6 DEF WaveVerdict
<1>9. ASSUME WaveVerdict(kept) = "OK"
      PROVE  /\ \A b \in Blocks \ Copied : blkStatus[b] = "OK"
             /\ Fits
  <2>1. /\ Stops = {} /\ RowMapFits /\ BadBlocks(kept) = {}
        /\ plan.layout = "OK"
        BY <1>5, <1>7, <1>9 DEF WaveVerdict
  <2>2. Fits BY <2>1, FitsBySource DEF Stops
  <2>3. \A b \in Blocks \ Copied : blkStatus[b] = "OK"
        BY <2>1 DEF BadBlocks, Seen
  <2> QED BY <2>2, <2>3
<1>10. ASSUME AbortInv, WellFormed PROVE WaveVerdict(kept) \in Mild
  <2>1. /\ \A s \in Sources : FitsUpTo(s)
        /\ RowMapFits /\ plan.layout = "OK"
        BY <1>10, FitsBySource DEF WellFormed
  <2>2. /\ \A s \in Sources : srcError[s] \in Mild
        /\ \A b \in Blocks : /\ blkStatus[b] \in Mild
                             /\ copy[b] \in Mild \cup {"none"}
        BY <1>10 DEF AbortInv, MildWords
  <2>3. \A b \in Blocks : Seen(b, kept) \in Mild
        BY <2>2 DEF Seen, Copied
  <2>4. SourceVerdict \in Mild
        BY <1>4, <2>1, <2>2 DEF SourceVerdict, Mild
  <2> QED BY <1>5, <2>1, <2>3, <2>4 DEF WaveVerdict, Mild
<1> QED BY <1>8, <1>9, <1>10

LEMMA InitTypes == Init => TypeOK /\ PeerInv
PROOF
<1> SUFFICES ASSUME Init PROVE TypeOK /\ PeerInv OBVIOUS
<1>1. PICK wave \in Waves :
          /\ packet = wave.packet /\ plan = wave.plan
          /\ present = wave.present /\ bounded = wave.bounded
          /\ ownCaches = wave.ownCaches
      BY DEF Init
<1>2. /\ packet \in [Sources -> Packets] /\ plan \in Plans
      /\ present \in SUBSET Sources /\ bounded \in BOOLEAN
      /\ ownCaches \in BOOLEAN
      BY <1>1, WaveAssumption
<1>3. SourceTypes BY <1>2 DEF Init, SourceTypes, Statuses
<1>4. BlockTypes /\ \A b \in Blocks : pc[b] # "peers"
      BY CohortAssumption DEF Init, BlockTypes, Statuses
<1> QED BY <1>3, <1>4 DEF TypeOK, PeerInv, Init

\* What a step of a worker keeps of the types.
LEMMA WorkerTypes ==
    ASSUME TypeOK, PeerInv, NEW s \in Sources, WorkerStep(s)
    PROVE  TypeOK' /\ PeerInv'
PROOF
<1> USE DEF inputVars, incVars
<1>1. UNCHANGED <<inputVars, incVars>>
      BY DEF WorkerStep, Revoke, PutPacket, Publish, Land
<1>2. BlockTypes' /\ (\A b \in Blocks : pc[b] = "peers" => peer[b] < C)'
      BY <1>1 DEF TypeOK, BlockTypes
<1>3. SourceTypes'
  <2>1. CASE Revoke(s) BY <1>1, <2>1 DEF TypeOK, SourceTypes, Revoke
  <2>2. CASE PutPacket(s) BY <1>1, <2>2 DEF TypeOK, SourceTypes, PutPacket
  <2>3. CASE Publish(s) BY <1>1, <2>3 DEF TypeOK, SourceTypes, Publish
  <2>4. ASSUME NEW p \in flight[s], Land(s, p) PROVE SourceTypes'
        BY <1>1, <2>4 DEF TypeOK, SourceTypes, Land
  <2> QED BY <2>1, <2>2, <2>3, <2>4 DEF WorkerStep
<1> QED BY <1>1, <1>2, <1>3 DEF TypeOK, PeerInv

\* A lane never looks past its cohort.
LEMMA PeerIsBlock ==
    ASSUME TypeOK, NEW b \in Blocks, pc[b] = "peers"
    PROVE  /\ peer[b] \in Lanes
           /\ PeerState(b) = metaState[BlockOf(Src(b), peer[b])]
           /\ PeerState(b) \in {"unset", "READY"} \cup Errors
PROOF
<1>1. peer[b] \in Lanes
      BY CohortAssumption DEF TypeOK, BlockTypes, Lanes
<1>2. BlockOf(Src(b), peer[b]) \in Blocks BY <1>1, BlockIsLane, LaneIsBlock
<1> QED BY <1>1, <1>2 DEF PeerState, PeerBlock, BlockOf, TypeOK, BlockTypes

\* What a step of a block keeps of the types.
LEMMA BlockTypesKept ==
    ASSUME TypeOK, PeerInv, NEW b \in Blocks, BlockStep(b) \/ Timeout(b)
    PROVE  TypeOK' /\ PeerInv'
PROOF
<1> DEFINE T == TypeOK' /\ PeerInv'
<1> USE CohortAssumption DEF TypeOK, SourceTypes, BlockTypes, PeerInv,
        inputVars, workVars, Goto, Fail, State, Errors
<1>1. Src(b) \in Sources /\ Lane(b) \in Lanes BY BlockIsLane
<1>2. ASSUME NEW e \in Statuses, SettleHeader(b, e), pc[b] = "header"
      PROVE  T
  <2>1. State(e, "HEADER") \in {"unset", "HEADER", "METADATA"} \cup Errors
        OBVIOUS
  <2>2. SourceTypes' BY <1>1, <1>2, <2>1 DEF SettleHeader
  <2>3. pc' = [pc EXCEPT ![b] = "refresh"] /\ UNCHANGED peer
        BY <1>2 DEF SettleHeader
  <2>4. BlockTypes' BY <1>2, <2>3 DEF SettleHeader
  <2> QED BY <1>2, <2>2, <2>3, <2>4
<1>3. CASE PollReady(b)
  <2>1. ReadyVerdict(Src(b)) \in Statuses
        BY <1>1 DEF ReadyVerdict, Packets, Statuses
  <2> QED BY <1>2, <1>3, <2>1 DEF PollReady
<1>4. CASE PollTimeout(b) BY <1>2, <1>4 DEF PollTimeout, Statuses
<1>5. CASE WaitHeader(b)
      BY <1>1, <1>5 DEF WaitHeader, Private, Statuses
<1>6. CASE WaitHeaderTimeout(b)
      BY <1>1, <1>6 DEF WaitHeaderTimeout, Private, Statuses
<1>7. CASE Refresh(b)
  <2>1. State(localStatus[b], "READY") \in {"unset", "READY"} \cup Errors
        OBVIOUS
  <2>2. view' \in [Sources -> [Lanes -> {"stale", "torn", "fresh"}]]
    <3>1. CASE view' = view BY <3>1
    <3>2. CASE view' = [view EXCEPT ![Src(b)][Lane(b)] = inbox[Src(b)]]
      <4>1. inbox[Src(b)] \in {"stale", "torn", "fresh"} BY <1>1
      <4>2. view[Src(b)] \in [Lanes -> {"stale", "torn", "fresh"}] BY <1>1
      <4>3. [view[Src(b)] EXCEPT ![Lane(b)] = inbox[Src(b)]]
                \in [Lanes -> {"stale", "torn", "fresh"}]
            BY <1>1, <4>1, <4>2
      <4> QED BY <1>1, <3>2, <4>3
    <3> QED BY <1>7, <3>1, <3>2 DEF Refresh
  <2>3. SourceTypes' BY <1>7, <2>2 DEF Refresh
  <2>4. BlockTypes' BY <1>7, <2>1 DEF Refresh
  <2>5. peer[b] = 0 /\ 0 < C BY <1>7 DEF Refresh
  <2> QED BY <1>7, <2>3, <2>4, <2>5 DEF Refresh
<1>17. LoadPeer(b) /\ pc[b] = "peers"
           => copy' \in [Blocks -> Statuses \cup {"none"}]
  <2>1. pc[b] = "peers" => PeerBlock(b) \in Blocks
        BY PeerIsBlock, LaneIsBlock, <1>1 DEF PeerBlock, BlockOf
  <2>2. \A c \in Blocks : blkStatus[c] \in Statuses OBVIOUS
  <2> QED BY <2>1, <2>2 DEF LoadPeer
<1>8. CASE WaitPeer(b)
  <2>0. copy' \in [Blocks -> Statuses \cup {"none"}]
        BY <1>8, <1>17 DEF WaitPeer
  <2>1. /\ peer[b] \in 0 .. C - 1 /\ LastPeer = C - 1
        /\ PeerState(b) \in {"unset", "READY"} \cup Errors
        BY <1>8, PeerIsBlock DEF WaitPeer, Lanes, LastPeer
  <2>2. CASE PeerState(b) # "READY"
    <3>1. /\ PeerState(b) \in Errors /\ Errors \subseteq Statuses
          /\ pc' = [pc EXCEPT ![b] = "record"]
          /\ localStatus' = [localStatus EXCEPT ![b] = PeerState(b)]
          /\ UNCHANGED <<Private, peer>>
          BY <1>8, <2>1, <2>2 DEF WaitPeer
    <3>2. SourceTypes' BY <3>1 DEF Private
    <3>3. BlockTypes' BY <2>0, <2>1, <3>1 DEF Private
    <3> QED BY <3>1, <3>2, <3>3 DEF Private
  <2>3. CASE PeerState(b) = "READY"
    <3>1. /\ peer' = [peer EXCEPT ![b] = @ + 1]
          /\ pc' = [pc EXCEPT ![b] = IF peer[b] = C - 1 THEN "cohort"
                                     ELSE "peers"]
          /\ UNCHANGED <<localStatus, Private>> /\ pc[b] = "peers"
          BY <1>8, <2>1, <2>3 DEF WaitPeer
    <3>2. SourceTypes' BY <3>1 DEF Private
    <3>3. BlockTypes' BY <2>0, <2>1, <3>1 DEF Private
    <3>4. \A c \in Blocks : pc'[c] = "peers" => peer'[c] < C
      <4> SUFFICES ASSUME NEW c \in Blocks, pc'[c] = "peers"
                   PROVE  peer'[c] < C
          OBVIOUS
      <4>1. CASE c = b
        <5>1. peer'[b] = peer[b] + 1 /\ peer[b] # C - 1 BY <3>1, <4>1
        <5> QED BY <2>1, <4>1, <5>1
      <4>2. CASE c # b BY <3>1, <4>2
      <4> QED BY <4>1, <4>2
    <3>5. PeerInv' BY <2>1, <3>1
    <3> QED BY <3>2, <3>3, <3>4, <3>5
  <2> QED BY <2>2, <2>3
<1>9. CASE WaitPeerTimeout(b)
  <2>1. copy' \in [Blocks -> Statuses \cup {"none"}]
        BY <1>9, <1>17 DEF WaitPeerTimeout
  <2>2. /\ pc' = [pc EXCEPT ![b] = "record"] /\ pc[b] = "peers"
        /\ localStatus' = [localStatus EXCEPT ![b] = "READY_TIMEOUT"]
        /\ UNCHANGED <<Private, peer>>
        BY <1>9 DEF WaitPeerTimeout
  <2>3. SourceTypes' BY <2>2 DEF Private
  <2>4. BlockTypes' BY <2>1, <2>2 DEF Private, Statuses
  <2> QED BY <2>2, <2>3, <2>4 DEF Private
<1>10. CASE PublishMetadataReady(b)
       BY <1>1, <1>10 DEF PublishMetadataReady, Statuses
<1>11. CASE WaitMetadata(b)
       BY <1>1, <1>11 DEF WaitMetadata, Private, Statuses
<1>12. CASE WaitMetadataTimeout(b)
       BY <1>12 DEF WaitMetadataTimeout, Private, Statuses
<1>13. CASE Parse(b) BY <1>13 DEF Parse, Statuses
<1>14. CASE RecordStatus(b) BY <1>14 DEF RecordStatus
<1>15. CASE Prefix(b) BY <1>15, VerdictFacts DEF Prefix
<1> QED BY <1>3, <1>4, <1>5, <1>6, <1>7, <1>8, <1>9, <1>10, <1>11, <1>12,
           <1>13, <1>14, <1>15 DEF BlockStep, Timeout

LEMMA NextTypes == TypeOK /\ PeerInv /\ [Next]_vars => TypeOK' /\ PeerInv'
PROOF
<1> SUFFICES ASSUME TypeOK, PeerInv, [Next]_vars PROVE TypeOK' /\ PeerInv'
    OBVIOUS
<1>1. CASE UNCHANGED vars
      BY <1>1 DEF vars, inputVars, workVars, TypeOK, SourceTypes, BlockTypes,
                  PeerInv
<1>2. CASE Next BY <1>2, WorkerTypes, BlockTypesKept DEF Next
<1> QED BY <1>1, <1>2

-----------------------------------------------------------------------------
(* What a step does to the packets and to what lane 0 tells its cohort. *)

LEMMA InputsKept == [Next]_vars => UNCHANGED <<packet, plan>>
PROOF
<1> SUFFICES ASSUME [Next]_vars PROVE UNCHANGED <<packet, plan>> OBVIOUS
<1> USE DEF inputVars
<1>1. CASE UNCHANGED vars BY <1>1 DEF vars
<1>2. ASSUME NEW s \in Sources, WorkerStep(s)
      PROVE  UNCHANGED <<packet, plan>>
      BY <1>2 DEF WorkerStep, Revoke, PutPacket, Publish, Land
<1>3. ASSUME NEW b \in Blocks, BlockStep(b) \/ Timeout(b)
      PROVE  UNCHANGED <<packet, plan>>
      BY <1>3 DEF BlockStep, Timeout, PollReady, PollTimeout, SettleHeader,
          WaitHeader, WaitHeaderTimeout, Refresh, WaitPeer, WaitPeerTimeout,
          PublishMetadataReady, WaitMetadata, WaitMetadataTimeout, Parse,
          RecordStatus, Prefix, Private
<1> QED BY <1>1, <1>2, <1>3 DEF Next

\* Whether the wave fits is a matter of its inputs.
LEMMA FitsKept == [Next]_vars => (Fits' <=> Fits)
PROOF
  BY InputsKept DEF Fits, RowMapFits

\* The blocks leave the workers' side alone.
LEMMA BlocksLeaveWork ==
    ASSUME NEW b \in Blocks, BlockStep(b) \/ Timeout(b)
    PROVE  UNCHANGED workVars
PROOF
  BY DEF BlockStep, Timeout, PollReady, PollTimeout, SettleHeader,
         WaitHeader, WaitHeaderTimeout, Refresh, WaitPeer, WaitPeerTimeout,
         PublishMetadataReady, WaitMetadata, WaitMetadataTimeout, Parse,
         RecordStatus, Prefix, Private

\* The worker's protocol: the inbox is complete when the publication word is
\* written, and nothing of it changes afterwards.
LEMMA NextWork ==
    ASSUME TypeOK, [Next]_vars, NEW s \in Sources, WorkAt(s)
    PROVE  WorkAt(s)' /\ (sent[s] = "done" => sent'[s] = "done")
PROOF
<1> DEFINE G == WorkAt(s)' /\ (sent[s] = "done" => sent'[s] = "done")
<1>1. CASE UNCHANGED workVars BY <1>1 DEF workVars, WorkAt
<1>2. CASE UNCHANGED vars BY <1>1, <1>2 DEF vars
<1>3. ASSUME NEW r \in Sources, WorkerStep(r) PROVE G
  <2> USE DEF TypeOK, SourceTypes
  <2>1. CASE r # s
    <3>1. /\ sent'[s] = sent[s] /\ flight'[s] = flight[s]
          /\ prefix'[s] = prefix[s] /\ publication'[s] = publication[s]
          /\ inbox'[s] = inbox[s]
          BY <1>3, <2>1 DEF WorkerStep, Revoke, PutPacket, Publish, Land
    <3> QED BY <3>1 DEF WorkAt
  <2>2. CASE r = s /\ Revoke(s) BY <2>2 DEF Revoke, WorkAt
  <2>3. CASE r = s /\ PutPacket(s)
        BY <2>3 DEF PutPacket, WorkAt, Parts, Metadata
  <2>4. CASE r = s /\ Publish(s) BY <2>4 DEF Publish, WorkAt, Metadata
  <2>5. ASSUME r = s, NEW p \in flight[s], Land(s, p) PROVE G
    <3>1. /\ flight'[s] = flight[s] \ {p} /\ sent'[s] = sent[s]
          /\ publication'[s] = publication[s] /\ sent[s] = "put"
          BY <2>5 DEF Land, WorkAt
    <3>2. CASE p = "ready"
      <4>1. prefix'[s] = "fresh" /\ inbox'[s] = inbox[s]
            BY <2>5, <3>2 DEF Land
      <4> QED BY <3>1, <3>2, <4>1 DEF WorkAt, Metadata
    <3>3. CASE p # "ready"
      <4>1. /\ prefix'[s] = prefix[s] /\ p \in Metadata
            /\ inbox'[s] = IF inbox[s] = "stale" THEN "torn" ELSE "fresh"
            BY <2>5, <3>3 DEF Land, Parts, Metadata
      <4>2. inbox[s] = "stale" \/ inbox[s] = "torn"
            BY <2>5, <3>1, <4>1 DEF WorkAt
      <4> QED BY <3>1, <3>3, <4>1, <4>2 DEF WorkAt, Metadata
    <3> QED BY <3>2, <3>3
  <2> QED BY <1>3, <2>1, <2>2, <2>3, <2>4, <2>5 DEF WorkerStep
<1> QED BY <1>1, <1>2, <1>3, BlocksLeaveWork DEF Next

\* A lane that goes on past the header has seen a delivered packet.
LEMMA HeaderSeen ==
    ASSUME NEW s \in Sources, WorkAt(s), TypeOK, ReadyVerdict(s) = "OK"
    PROVE  Delivered(s)
PROOF
  BY DEF ReadyVerdict, Delivered, WorkAt, TypeOK, SourceTypes

\* A block other than a lane 0 leaves what lane 0 has published alone.
LEMMA SourceWriters ==
    ASSUME NEW b \in Blocks, BlockStep(b) \/ Timeout(b),
           ~PollReady(b), ~PollTimeout(b), ~PublishMetadataReady(b)
    PROVE  UNCHANGED <<srcState, srcError>>
PROOF
  BY DEF BlockStep, Timeout, WaitHeader, WaitHeaderTimeout, Refresh, WaitPeer,
         WaitPeerTimeout, WaitMetadata, WaitMetadataTimeout, Parse,
         RecordStatus, Prefix, Private

\* What is told of a source: success only of a delivered packet, and it is
\* never taken back to unset.
LEMMA NextSource ==
    ASSUME TypeOK, [Next]_vars, NEW s \in Sources, SourceAt(s),
           \A b \in Blocks : LaneAt(b)
    PROVE  /\ SourceAt(s)'
           /\ Delivered(s) => Delivered(s)'
           /\ srcState[s] # "unset" => srcState'[s] # "unset"
PROOF
<1> DEFINE G == /\ srcState'[s] \in {"HEADER", "METADATA"} => Delivered(s)
                /\ srcState[s] # "unset" => srcState'[s] # "unset"
<1>1. WorkAt(s)' /\ (Delivered(s) => Delivered(s)')
      BY NextWork, InputsKept DEF SourceAt, Delivered
<1>2. SUFFICES G BY <1>1 DEF SourceAt
<1>3. CASE UNCHANGED srcState BY <1>3 DEF SourceAt
<1>4. CASE UNCHANGED vars BY <1>3, <1>4 DEF vars
<1>5. ASSUME NEW r \in Sources, WorkerStep(r) PROVE G
  <2>1. UNCHANGED srcState
        BY <1>5 DEF WorkerStep, Revoke, PutPacket, Publish, Land, incVars
  <2> QED BY <1>3, <2>1
<1>6. ASSUME NEW b \in Blocks, BlockStep(b) \/ Timeout(b) PROVE G
  <2>1. CASE Src(b) # s /\ \E e : srcState' = [srcState EXCEPT ![Src(b)] = e]
        BY <1>3, <2>1 DEF TypeOK, SourceTypes, SourceAt
  <2>2. CASE PollReady(b) /\ Src(b) = s
    <3>1. /\ srcState' = [srcState EXCEPT ![s] =
                              State(ReadyVerdict(s), "HEADER")]
          /\ State(ReadyVerdict(s), "HEADER") # "unset"
          BY <2>2 DEF PollReady, SettleHeader, State, ReadyVerdict, TypeOK,
                      SourceTypes, Packets, Statuses
    <3>2. ReadyVerdict(s) # "OK" => ReadyVerdict(s) \in Errors
          BY DEF ReadyVerdict, TypeOK, SourceTypes, Packets, Statuses, Errors
    <3> QED BY <3>1, <3>2, HeaderSeen
            DEF State, SourceAt, TypeOK, SourceTypes, Errors, Statuses
  <2>3. CASE PollTimeout(b) /\ Src(b) = s
        BY <2>3 DEF PollTimeout, SettleHeader, State, TypeOK, SourceTypes
  <2>4. CASE PublishMetadataReady(b) /\ Src(b) = s
    <3>1. Delivered(s)
          BY <1>6, <2>4 DEF PublishMetadataReady, LaneAt
    <3> QED BY <2>4, <3>1
            DEF PublishMetadataReady, State, TypeOK, SourceTypes
  <2>5. CASE PollReady(b) \/ PollTimeout(b) \/ PublishMetadataReady(b)
        BY <2>1, <2>2, <2>3, <2>4, <2>5
        DEF PollReady, PollTimeout, SettleHeader, PublishMetadataReady
  <2> QED BY <1>3, <1>6, <2>5, SourceWriters
<1> QED BY <1>4, <1>5, <1>6 DEF Next

-----------------------------------------------------------------------------
(* What the blocks know. *)

\* What no step takes back: delivered packets, settled sources and refreshed
\* ranges.
Steady ==
    /\ packet' = packet
    /\ \A s \in Sources : /\ Delivered(s) => Delivered(s)'
                          /\ srcState[s] # "unset" => srcState'[s] # "unset"
    /\ \A c \in Blocks : metaState[c] = "READY" =>
            metaState'[c] = "READY" /\ view'[Src(c)][Lane(c)] = "fresh"

\* Only the refresh of a lane writes to its range and its metadata state.
LEMMA NextSteady ==
    ASSUME TypeOK, [Next]_vars,
           \A s \in Sources : SourceAt(s), \A b \in Blocks : LaneAt(b)
    PROVE  Steady
PROOF
<1>1. packet' = packet BY InputsKept
<1>2. \A s \in Sources : /\ Delivered(s) => Delivered(s)'
                         /\ srcState[s] # "unset" => srcState'[s] # "unset"
      BY NextSource
<1>3. ASSUME NEW c \in Blocks, metaState[c] = "READY"
      PROVE  metaState'[c] = "READY" /\ view'[Src(c)][Lane(c)] = "fresh"
  <2>1. view[Src(c)][Lane(c)] = "fresh" BY <1>3 DEF LaneAt
  <2>2. CASE UNCHANGED <<metaState, view>> BY <1>3, <2>1, <2>2
  <2>3. ASSUME NEW b \in Blocks, Refresh(b)
        PROVE  metaState'[c] = "READY" /\ view'[Src(c)][Lane(c)] = "fresh"
    <3>1. b # c BY <1>3, <2>3 DEF Refresh, LaneAt
    <3>2. /\ Src(b) \in Sources /\ Lane(b) \in Lanes
          /\ Src(c) \in Sources /\ Lane(c) \in Lanes
          /\ Src(b) # Src(c) \/ Lane(b) # Lane(c)
          BY <3>1, BlockIsLane
    <3>3. metaState'[c] = metaState[c]
          BY <2>3, <3>1 DEF Refresh, TypeOK, BlockTypes
    <3>4. view'[Src(c)][Lane(c)] = view[Src(c)][Lane(c)]
      <4>1. CASE view' = view BY <4>1
      <4>2. CASE view' = [view EXCEPT ![Src(b)][Lane(b)] = inbox[Src(b)]]
        <5>1. view \in [Sources -> [Lanes -> {"stale", "torn", "fresh"}]]
              BY DEF TypeOK, SourceTypes
        <5> QED BY <3>2, <4>2, <5>1
      <4> QED BY <2>3, <4>1, <4>2 DEF Refresh
    <3> QED BY <1>3, <2>1, <3>3, <3>4
  <2>4. ASSUME NEW b \in Blocks, BlockStep(b) \/ Timeout(b), ~Refresh(b)
        PROVE  UNCHANGED <<metaState, view>>
        BY <2>4 DEF BlockStep, Timeout, PollReady, PollTimeout, SettleHeader,
            WaitHeader, WaitHeaderTimeout, WaitPeer, WaitPeerTimeout,
            PublishMetadataReady, WaitMetadata, WaitMetadataTimeout, Parse,
            RecordStatus, Prefix, Private
  <2>5. ASSUME NEW s \in Sources, WorkerStep(s)
        PROVE  UNCHANGED <<metaState, view>>
        BY <2>5 DEF WorkerStep, Revoke, PutPacket, Publish, Land, incVars
  <2>6. CASE UNCHANGED vars BY <2>2, <2>6 DEF vars
  <2> QED BY <2>2, <2>3, <2>4, <2>5, <2>6 DEF Next
<1> QED BY <1>1, <1>2, <1>3 DEF Steady

\* The peers of a lane that were seen ready stay so.
LEMMA ReadyStays ==
    ASSUME Steady, NEW b \in Blocks, NEW l \in Lanes, Ready(b, l)
    PROVE  Ready(b, l)'
PROOF
  BY BlockIsLane, LaneIsBlock DEF Ready, Steady, BlockOf, Src

\* A block whose own state is untouched knows what it knew.
LEMMA LaneFrame ==
    ASSUME Steady, NEW c \in Blocks, LaneAt(c),
           UNCHANGED <<pc[c], localStatus[c], metaState[c], peer[c],
                       parsed[c], blkStatus[c]>>
    PROVE  LaneAt(c)'
PROOF
<1>1. Src(c) \in Sources /\ packet' = packet
      BY BlockIsLane DEF Steady
<1>2. /\ Delivered(Src(c)) => Delivered(Src(c))'
      /\ srcState[Src(c)] # "unset" => srcState'[Src(c)] # "unset"
      BY <1>1 DEF Steady
<1>3. metaState[c] = "READY" => view'[Src(c)][Lane(c)] = "fresh"
      BY DEF Steady
<1>4. \A l \in Lanes : Ready(c, l) => Ready(c, l)' BY ReadyStays
<1>5. ShareSound(c)' <=> ShareSound(c)
      BY <1>1 DEF ShareSound, Unsound, LaneTokens
<1> QED BY <1>1, <1>2, <1>3, <1>4, <1>5 DEF LaneAt, Src, Lane

\* The state of a block other than the one that moves is untouched.
LEMMA OthersUntouched ==
    ASSUME TypeOK, NEW b \in Blocks, BlockStep(b) \/ Timeout(b), ~Prefix(b),
           NEW c \in Blocks, c # b
    PROVE  UNCHANGED <<pc[c], localStatus[c], metaState[c], peer[c], parsed[c],
                       blkStatus[c]>>
PROOF
<1> USE DEF TypeOK, BlockTypes, Fail, Goto
<1>1. CASE PollReady(b) \/ PollTimeout(b)
      BY <1>1 DEF PollReady, PollTimeout, SettleHeader
<1>2. CASE WaitHeader(b) \/ WaitHeaderTimeout(b)
      BY <1>2 DEF WaitHeader, WaitHeaderTimeout, Private
<1>3. CASE Refresh(b) BY <1>3 DEF Refresh
<1>4. CASE WaitPeer(b) \/ WaitPeerTimeout(b)
      BY <1>4 DEF WaitPeer, WaitPeerTimeout, Private
<1>5. CASE PublishMetadataReady(b) BY <1>5 DEF PublishMetadataReady
<1>6. CASE WaitMetadata(b) \/ WaitMetadataTimeout(b)
      BY <1>6 DEF WaitMetadata, WaitMetadataTimeout, Private
<1>7. CASE Parse(b) BY <1>7 DEF Parse
<1>8. CASE RecordStatus(b) BY <1>8 DEF RecordStatus
<1> QED BY <1>1, <1>2, <1>3, <1>4, <1>5, <1>6, <1>7, <1>8
        DEF BlockStep, Timeout

\* The step of a block, up to the refresh of its range.
LEMMA HeaderLane ==
    ASSUME TypeOK, PeerInv, Steady, NEW b \in Blocks, LaneAt(b),
           SourceAt(Src(b)), SourceAt(Src(b))',
           \/ PollReady(b) \/ PollTimeout(b) \/ WaitHeader(b)
           \/ WaitHeaderTimeout(b) \/ Refresh(b)
    PROVE  LaneAt(b)'
PROOF
<1> USE DEF TypeOK, BlockTypes, SourceTypes, Fail, Goto
<1>1. Src(b) \in Sources /\ Lane(b) \in Lanes BY BlockIsLane
<1>2. Src(b)' = Src(b) /\ Lane(b)' = Lane(b) BY DEF Src, Lane
<1>3. ASSUME pc[b] = "header", pc'[b] = "refresh",
             UNCHANGED <<metaState[b], parsed[b]>>,
             localStatus'[b] = "OK" =>
                 Delivered(Src(b))' /\ srcState'[Src(b)] # "unset"
      PROVE  LaneAt(b)'
      BY <1>2, <1>3 DEF LaneAt
<1>4. CASE PollReady(b) \/ PollTimeout(b)
  <2>1. PICK e : /\ SettleHeader(b, e) /\ pc[b] = "header"
                 /\ e = ReadyVerdict(Src(b)) \/ e = "READY_TIMEOUT"
        BY <1>4 DEF PollReady, PollTimeout
  <2>2. e = "OK" => Delivered(Src(b))
        BY <1>1, <2>1, HeaderSeen DEF SourceAt
  <2>3. /\ pc'[b] = "refresh" /\ localStatus'[b] = e
        /\ UNCHANGED <<metaState, parsed>>
        /\ e = "OK" => srcState'[Src(b)] = "HEADER"
        BY <1>1, <2>1 DEF SettleHeader, State
  <2> QED BY <1>1, <1>3, <2>1, <2>2, <2>3 DEF Steady
<1>5. CASE WaitHeader(b) \/ WaitHeaderTimeout(b)
  <2>1. /\ pc[b] = "header" /\ pc'[b] = "refresh"
        /\ UNCHANGED <<metaState, parsed, srcState>>
        /\ localStatus'[b] = "OK" => srcState[Src(b)] \in {"HEADER", "METADATA"}
        BY <1>1, <1>5 DEF WaitHeader, WaitHeaderTimeout, Private, Errors
  <2>2. localStatus'[b] = "OK" => Delivered(Src(b)) BY <2>1 DEF SourceAt
  <2> QED BY <1>1, <1>3, <2>1, <2>2 DEF Steady
<1>6. CASE Refresh(b)
  <2>1. /\ pc[b] = "refresh" /\ localStatus'[b] = localStatus[b]
        /\ pc'[b] = IF localStatus[b] = "OK" THEN "peers" ELSE "record"
        /\ metaState'[b] = State(localStatus[b], "READY")
        /\ UNCHANGED <<parsed, peer>>
        BY <1>6 DEF Refresh
  <2>2. peer'[b] = 0 BY <2>1 DEF PeerInv
  <2>3. localStatus[b] = "OK" => /\ Delivered(Src(b))
                                 /\ srcState[Src(b)] # "unset"
        BY <2>1 DEF LaneAt
  <2>4. localStatus[b] = "OK" => view'[Src(b)][Lane(b)] = "fresh"
    <3> SUFFICES ASSUME localStatus[b] = "OK"
                 PROVE  view'[Src(b)][Lane(b)] = "fresh"
        OBVIOUS
    <3>1. inbox[Src(b)] = "fresh" BY <2>3 DEF SourceAt, WorkAt, Delivered
    <3>2. view' = [view EXCEPT ![Src(b)][Lane(b)] = inbox[Src(b)]]
          BY <1>6 DEF Refresh
    <3> QED BY <1>1, <3>1, <3>2
  <2>5. localStatus[b] = "OK" => /\ Delivered(Src(b))'
                                 /\ srcState'[Src(b)] # "unset"
        BY <1>1, <2>3 DEF Steady
  <2>6. \A l \in Lanes : ~(l < 0) BY CohortAssumption DEF Lanes
  <2>7. localStatus[b] \in Statuses /\ parsed[b] # "stale" BY DEF LaneAt
  <2>8. localStatus[b] # "OK" => State(localStatus[b], "READY") # "READY"
        BY <2>7 DEF State, Statuses
  <2> QED BY <1>2, <2>1, <2>2, <2>4, <2>5, <2>6, <2>7, <2>8 DEF LaneAt
<1> QED BY <1>4, <1>5, <1>6

\* The step of a block, from the wait for its peers.
LEMMA CohortLane ==
    ASSUME TypeOK, Steady, NEW b \in Blocks, \A c \in Blocks : LaneAt(c),
           \/ WaitPeer(b) \/ WaitPeerTimeout(b) \/ PublishMetadataReady(b)
           \/ WaitMetadata(b) \/ WaitMetadataTimeout(b)
    PROVE  LaneAt(b)'
PROOF
<1> USE DEF TypeOK, BlockTypes, SourceTypes, Fail, Goto
<1>1. Src(b) \in Sources /\ Lane(b) \in Lanes BY BlockIsLane
<1>2. Src(b)' = Src(b) /\ Lane(b)' = Lane(b) /\ packet' = packet
      BY DEF Src, Lane, Steady
<1>3. \A l \in Lanes : Ready(b, l) => Ready(b, l)' BY ReadyStays
<1>4. /\ pc[b] \in {"peers", "cohort"} /\ localStatus[b] = "OK"
      /\ Delivered(Src(b)) /\ srcState[Src(b)] # "unset"
      /\ parsed[b] # "stale"
      BY DEF WaitPeer, WaitPeerTimeout, PublishMetadataReady, WaitMetadata,
             WaitMetadataTimeout, LaneAt
<1>5. Delivered(Src(b))' /\ srcState'[Src(b)] # "unset"
      BY <1>1, <1>4 DEF Steady
<1>6. metaState'[b] = "READY" => view'[Src(b)][Lane(b)] = "fresh"
  <2>1. metaState' = metaState
        BY DEF WaitPeer, WaitPeerTimeout, PublishMetadataReady, WaitMetadata,
               WaitMetadataTimeout, Private
  <2> QED BY <2>1 DEF Steady
<1>7. UNCHANGED parsed
      BY DEF WaitPeer, WaitPeerTimeout, PublishMetadataReady, WaitMetadata,
             WaitMetadataTimeout, Private
<1>8. ASSUME pc'[b] = "record", localStatus'[b] # "OK" PROVE LaneAt(b)'
      BY <1>2, <1>4, <1>6, <1>7, <1>8 DEF LaneAt
<1>9. ASSUME pc[b] = "cohort", pc'[b] = "parse", localStatus'[b] = "OK",
             Lane(b) = 0 => packet[Src(b)].padding
      PROVE  LaneAt(b)'
  <2>1. \A l \in Lanes : Ready(b, l)' BY <1>3, <1>9 DEF LaneAt
  <2> QED BY <1>2, <1>4, <1>5, <1>6, <1>7, <1>9, <2>1 DEF LaneAt
<1>10. CASE WaitPeer(b)
  <2>1. /\ pc[b] = "peers" /\ peer[b] \in Lanes /\ LastPeer = C - 1
        /\ \A l \in Lanes : l < peer[b] => Ready(b, l)
        /\ PeerState(b) = "READY" => Ready(b, peer[b])
        /\ PeerState(b) \in {"unset", "READY"} \cup Errors
        BY <1>10, PeerIsBlock DEF WaitPeer, LaneAt, Ready, LastPeer
  <2>2. CASE PeerState(b) # "READY"
    <3>1. pc'[b] = "record" /\ localStatus'[b] # "OK"
          BY <1>10, <2>1, <2>2 DEF WaitPeer, Errors
    <3> QED BY <1>8, <3>1
  <2>3. CASE PeerState(b) = "READY"
    <3>1. /\ peer'[b] = peer[b] + 1 /\ UNCHANGED localStatus
          /\ pc'[b] = IF peer[b] = C - 1 THEN "cohort" ELSE "peers"
          BY <1>10, <2>1, <2>3 DEF WaitPeer
    <3>2. \A l \in Lanes : l < peer[b] + 1 => Ready(b, l)
          BY <2>1, <2>3 DEF Lanes
    <3>3. \A l \in Lanes : l < peer'[b] => Ready(b, l)'
          BY <1>3, <3>1, <3>2
    <3>4. peer[b] = C - 1 => \A l \in Lanes : l < peer'[b]
          BY <3>1, CohortAssumption DEF Lanes
    <3> QED BY <1>2, <1>4, <1>5, <1>6, <1>7, <3>1, <3>3, <3>4 DEF LaneAt
  <2> QED BY <2>2, <2>3
<1>11. CASE WaitPeerTimeout(b) \/ WaitMetadataTimeout(b)
  <2>1. pc'[b] = "record" /\ localStatus'[b] # "OK"
        BY <1>11 DEF WaitPeerTimeout, WaitMetadataTimeout
  <2> QED BY <1>8, <2>1
<1>12. CASE PublishMetadataReady(b)
  <2>1. /\ pc[b] = "cohort"
        /\ \/ /\ pc'[b] = "record" /\ localStatus'[b] # "OK"
           \/ /\ pc'[b] = "parse" /\ localStatus'[b] = "OK"
              /\ packet[Src(b)].padding
        BY <1>12 DEF PublishMetadataReady
  <2> QED BY <1>8, <1>9, <2>1
<1>13. CASE WaitMetadata(b)
  <2>1. /\ pc[b] = "cohort" /\ Lane(b) # 0
        /\ \/ /\ pc'[b] = "record" /\ localStatus'[b] # "OK"
           \/ /\ pc'[b] = "parse" /\ localStatus'[b] = "OK"
        BY <1>13 DEF WaitMetadata, Errors
  <2> QED BY <1>8, <1>9, <2>1
<1> QED BY <1>10, <1>11, <1>12, <1>13

\* Every range the lanes of a cohort parse has been refreshed from the
\* complete packet.
LEMMA ParsesFresh ==
    ASSUME NEW b \in Blocks, pc[b] = "parse", \A c \in Blocks : LaneAt(c)
    PROVE  \A l \in Lanes : view[Src(b)][l] = "fresh"
PROOF
<1> SUFFICES ASSUME NEW l \in Lanes PROVE view[Src(b)][l] = "fresh" OBVIOUS
<1>1. /\ BlockOf(Src(b), l) \in Blocks /\ Lane(BlockOf(Src(b), l)) = l
      /\ Src(BlockOf(Src(b), l)) = Src(b)
      BY BlockIsLane, LaneIsBlock
<1>2. metaState[BlockOf(Src(b), l)] = "READY" BY DEF LaneAt, Ready
<1> QED BY <1>1, <1>2 DEF LaneAt

\* The step of a block that parses its share or records its status.
LEMMA ParseLane ==
    ASSUME TypeOK, Steady, NEW b \in Blocks, \A c \in Blocks : LaneAt(c),
           Parse(b) \/ RecordStatus(b)
    PROVE  LaneAt(b)'
PROOF
<1> USE DEF TypeOK, BlockTypes, Fail, Goto
<1>1. Src(b) \in Sources /\ packet' = packet BY BlockIsLane DEF Steady
<1>2. Src(b)' = Src(b) /\ Lane(b)' = Lane(b) BY DEF Src, Lane
<1>3. /\ Delivered(Src(b)) => Delivered(Src(b))'
      /\ srcState[Src(b)] # "unset" => srcState'[Src(b)] # "unset"
      BY <1>1 DEF Steady
<1>4. metaState'[b] = "READY" => view'[Src(b)][Lane(b)] = "fresh"
  <2>1. metaState' = metaState BY DEF Parse, RecordStatus
  <2> QED BY <2>1 DEF Steady
<1>5. ShareSound(b)' <=> ShareSound(b)
      BY <1>1, <1>2 DEF ShareSound, Unsound, LaneTokens
<1>6. CASE Parse(b)
  <2>1. \A l \in Lanes : view[Src(b)][l] = "fresh"
        BY <1>6, ParsesFresh DEF Parse
  <2>2. /\ pc[b] = "parse" /\ pc'[b] = "record" /\ parsed'[b] = "fresh"
        /\ UNCHANGED blkStatus
        /\ localStatus'[b] = "OK" => ~Unsound(b)
        BY <1>6, <2>1 DEF Parse
  <2>3. /\ localStatus[b] = "OK" /\ Delivered(Src(b))
        /\ srcState[Src(b)] # "unset"
        /\ Lane(b) = 0 => packet[Src(b)].padding
        BY <2>2 DEF LaneAt
  <2>4. localStatus'[b] = "OK" => ShareSound(b)
        BY <2>2, <2>3 DEF ShareSound
  <2> QED BY <1>2, <1>3, <1>4, <1>5, <2>2, <2>3, <2>4 DEF LaneAt
<1>7. CASE RecordStatus(b)
  <2>1. /\ pc[b] = "record" /\ pc'[b] = "barrier"
        /\ blkStatus'[b] = localStatus[b]
        /\ UNCHANGED <<localStatus, parsed>>
        BY <1>7 DEF RecordStatus
  <2> QED BY <1>2, <1>3, <1>4, <1>5, <2>1 DEF LaneAt
<1> QED BY <1>6, <1>7

\* The verdict releases every block.
LEMMA PrefixLane ==
    ASSUME Steady, NEW b \in Blocks, Prefix(b), NEW c \in Blocks, LaneAt(c)
    PROVE  LaneAt(c)'
PROOF
<1>1. /\ pc[c] = "barrier" /\ pc'[c] = "done"
      /\ UNCHANGED <<localStatus, metaState, blkStatus, parsed>>
      BY DEF Prefix
<1>2. Src(c) \in Sources /\ packet' = packet BY BlockIsLane DEF Steady
<1>3. Src(c)' = Src(c) /\ Lane(c)' = Lane(c) BY DEF Src, Lane
<1>4. /\ Delivered(Src(c)) => Delivered(Src(c))'
      /\ srcState[Src(c)] # "unset" => srcState'[Src(c)] # "unset"
      /\ metaState'[c] = "READY" => view'[Src(c)][Lane(c)] = "fresh"
      BY <1>1, <1>2 DEF Steady
<1>5. ShareSound(c)' <=> ShareSound(c)
      BY <1>2, <1>3 DEF ShareSound, Unsound, LaneTokens
<1> QED BY <1>1, <1>3, <1>4, <1>5 DEF LaneAt

LEMMA NextLane ==
    ASSUME TypeOK, PeerInv, [Next]_vars,
           \A s \in Sources : SourceAt(s), \A b \in Blocks : LaneAt(b)
    PROVE  \A c \in Blocks : LaneAt(c)'
PROOF
<1> SUFFICES ASSUME NEW c \in Blocks PROVE LaneAt(c)' OBVIOUS
<1>1. Steady BY NextSteady
<1>2. CASE UNCHANGED <<pc, localStatus, metaState, peer, parsed, blkStatus>>
      BY <1>1, <1>2, LaneFrame
<1>3. ASSUME NEW s \in Sources, WorkerStep(s) PROVE LaneAt(c)'
      BY <1>2, <1>3
      DEF WorkerStep, Revoke, PutPacket, Publish, Land, incVars
<1>4. ASSUME NEW b \in Blocks, BlockStep(b) \/ Timeout(b) PROVE LaneAt(c)'
  <2>1. CASE Prefix(b) BY <1>1, <2>1, PrefixLane
  <2>2. CASE ~Prefix(b) /\ c # b
        BY <1>1, <1>4, <2>2, OthersUntouched, LaneFrame
  <2>3. CASE ~Prefix(b) /\ c = b
    <3>1. Src(b) \in Sources BY BlockIsLane
    <3>2. SourceAt(Src(b))'
      <4>1. \A s \in Sources : SourceAt(s)' BY NextSource
      <4>2. Src(b)' = Src(b) BY DEF Src
      <4> QED BY <3>1, <4>1, <4>2
    <3> QED BY <1>1, <1>4, <2>3, <3>1, <3>2, HeaderLane, CohortLane, ParseLane
            DEF BlockStep, Timeout
  <2> QED BY <2>1, <2>2, <2>3
<1>5. CASE UNCHANGED vars BY <1>2, <1>5 DEF vars
<1> QED BY <1>3, <1>4, <1>5 DEF Next

-----------------------------------------------------------------------------
(* The verdict. *)

LEMMA NextVerdict ==
    ASSUME TypeOK, VerdictInv, [Next]_vars
    PROVE  VerdictInv'
PROOF
<1>1. Fits' <=> Fits BY FitsKept
<1>2. CASE UNCHANGED <<pc, status, blkStatus, copy, ownCaches>>
      BY <1>1, <1>2 DEF VerdictInv, Decided, Copied
<1>3. ASSUME NEW b \in Blocks, Prefix(b) PROVE VerdictInv'
  <2>1. PICK kept \in SUBSET Copied : status' = WaveVerdict(kept)
        BY <1>3 DEF Prefix
  <2>2. status' = "OK" => (\A c \in Blocks \ Copied : blkStatus[c] = "OK")
                              /\ Fits
        BY <2>1, VerdictFacts
  <2>3. UNCHANGED <<blkStatus, copy, ownCaches>>
        BY <1>3 DEF Prefix, inputVars
  <2>4. Copied' = Copied BY <2>3 DEF Copied
  <2>5. Decided' BY <1>3 DEF Prefix, Decided
  <2> QED BY <1>1, <2>2, <2>3, <2>4, <2>5 DEF VerdictInv
<1>4. ASSUME NEW b \in Blocks, BlockStep(b) \/ Timeout(b), ~Prefix(b)
      PROVE  VerdictInv'
  <2>1. \A c \in Blocks : c # b => pc'[c] = pc[c]
        BY <1>4, OthersUntouched
  <2>2. pc[b] # "done" /\ pc'[b] # "done"
        BY <1>4 DEF BlockStep, Timeout, PollReady, PollTimeout, SettleHeader,
            WaitHeader, WaitHeaderTimeout, Refresh, WaitPeer, WaitPeerTimeout,
            PublishMetadataReady, WaitMetadata, WaitMetadataTimeout, Parse,
            RecordStatus, Fail, Goto, TypeOK, BlockTypes
  <2> QED BY <2>1, <2>2 DEF VerdictInv, Decided
<1>5. ASSUME NEW s \in Sources, WorkerStep(s) PROVE VerdictInv'
      BY <1>2, <1>5
      DEF WorkerStep, Revoke, PutPacket, Publish, Land, incVars, inputVars
<1>6. CASE UNCHANGED vars BY <1>2, <1>6 DEF vars, inputVars
<1> QED BY <1>3, <1>4, <1>5, <1>6 DEF Next

\* In a wave of well-formed packets a READY that is taken up is this wave's,
\* and its header passes: the residue of an earlier wave is polled again.
LEMMA AnnouncedIsGood ==
    ASSUME NEW s \in Sources, WorkAt(s), TypeOK, WellFormed, Announced(s)
    PROVE  ReadyVerdict(s) = "OK"
PROOF
<1>1. sent[s] = "done"
      BY DEF WorkAt, Announced, TypeOK, SourceTypes
<1> QED BY <1>1 DEF WorkAt, ReadyVerdict, WellFormed, Sound

\* An error word that is written in such a wave is that of a deadline.
LEMMA NextAbort ==
    ASSUME TypeOK, AbortInv, [Next]_vars,
           \A s \in Sources : SourceAt(s), \A b \in Blocks : LaneAt(b)
    PROVE  AbortInv'
PROOF
<1>1. SUFFICES ASSUME WellFormed PROVE MildWords'
  <2>1. WellFormed' <=> WellFormed
        BY InputsKept, FitsKept DEF WellFormed, Sound
  <2> QED BY <2>1 DEF AbortInv
<1>2. MildWords BY <1>1 DEF AbortInv
<1>3. CASE UNCHANGED <<status, srcError, srcState, localStatus, blkStatus,
                       metaState, copy>>
      BY <1>2, <1>3 DEF MildWords
<1>4. CASE UNCHANGED vars BY <1>3, <1>4 DEF vars
<1>5. CASE \E s \in Sources : WorkerStep(s)
      BY <1>3, <1>5
      DEF WorkerStep, Revoke, PutPacket, Publish, Land, incVars
<1>6. ASSUME NEW b \in Blocks, BlockStep(b) \/ Timeout(b)
      PROVE  MildWords'
  <2> USE DEF Fail, Goto, TypeOK, SourceTypes, BlockTypes
  <2>1. Src(b) \in Sources /\ Lane(b) \in Lanes BY BlockIsLane
  <2>2. ASSUME NEW e \in Mild, localStatus' = [localStatus EXCEPT ![b] = e],
               UNCHANGED <<status, srcError, srcState, blkStatus, metaState>>,
               \A c \in Blocks : copy'[c] \in Mild \cup {"none"}
        PROVE  MildWords'
        BY <1>2, <2>2 DEF MildWords
  <2>15. ASSUME LoadPeer(b), pc[b] = "peers"
         PROVE  \A c \in Blocks : copy'[c] \in Mild \cup {"none"}
    <3>1. PeerBlock(b) \in Blocks
          BY <2>1, <2>15, PeerIsBlock, LaneIsBlock DEF PeerBlock, BlockOf
    <3> QED BY <1>2, <2>15, <3>1 DEF LoadPeer, MildWords
  <2>16. \A c \in Blocks : copy[c] \in Mild \cup {"none"}
         BY <1>2 DEF MildWords
  <2>3. ASSUME NEW e \in Mild, SettleHeader(b, e) PROVE MildWords'
        BY <1>2, <2>1, <2>3 DEF MildWords, SettleHeader, State
  <2>4. CASE PollReady(b)
    <3>1. ReadyVerdict(Src(b)) = "OK"
          BY <1>1, <2>1, <2>4, AnnouncedIsGood DEF PollReady, SourceAt
    <3> QED BY <2>3, <2>4, <3>1 DEF PollReady, Mild
  <2>5. CASE PollTimeout(b) BY <2>3, <2>5 DEF PollTimeout, Mild
  <2>6. CASE \/ WaitHeaderTimeout(b) \/ WaitPeerTimeout(b)
             \/ WaitMetadataTimeout(b)
        BY <2>2, <2>6, <2>15, <2>16
        DEF WaitHeaderTimeout, WaitPeerTimeout, WaitMetadataTimeout, Private,
            Mild
  <2>7. CASE WaitHeader(b)
    <3>1. srcState[Src(b)] \in Errors => srcState[Src(b)] \in Mild
          BY <1>2, <2>1 DEF MildWords, Errors, Statuses
    <3> QED BY <2>2, <2>7, <2>16, <3>1 DEF WaitHeader, Private, Mild
  <2>8. CASE Refresh(b) BY <1>2, <2>8 DEF Refresh, MildWords, State
  <2>9. CASE WaitPeer(b)
    <3>1. /\ PeerState(b) # "READY" /\ PeerState(b) # "unset" =>
                 PeerState(b) \in Mild
      <4>1. BlockOf(Src(b), peer[b]) \in Blocks
            BY <2>1, <2>9, PeerIsBlock, LaneIsBlock DEF WaitPeer
      <4> QED BY <1>2, <2>9, <4>1, PeerIsBlock DEF WaitPeer, MildWords
    <3>4. \A c \in Blocks : copy'[c] \in Mild \cup {"none"}
          BY <1>2, <2>9, <2>15 DEF WaitPeer
    <3>2. CASE PeerState(b) = "READY"
          BY <1>2, <2>9, <3>2, <3>4 DEF WaitPeer, Private, MildWords
    <3>3. CASE PeerState(b) # "READY"
          BY <2>2, <2>9, <3>1, <3>3, <3>4 DEF WaitPeer, Private
    <3> QED BY <3>2, <3>3
  <2>10. CASE PublishMetadataReady(b)
    <3>1. packet[Src(b)].padding BY <1>1, <2>1 DEF WellFormed, Sound
    <3> QED BY <1>2, <2>1, <2>10, <3>1
            DEF PublishMetadataReady, MildWords, State, Mild
  <2>11. CASE WaitMetadata(b)
    <3>1. srcState[Src(b)] # "unset" BY <2>11 DEF WaitMetadata, LaneAt
    <3>2. srcState[Src(b)] \in Errors => srcState[Src(b)] \in Mild
          BY <1>2, <2>1 DEF MildWords, Errors, Statuses
    <3>3. srcState[Src(b)] \notin Errors =>
              srcState[Src(b)] \in {"HEADER", "METADATA"}
          BY <2>1, <3>1
    <3> QED BY <2>2, <2>11, <2>16, <3>2, <3>3 DEF WaitMetadata, Private, Mild
  <2>12. CASE Parse(b)
    <3>1. \A l \in Lanes : view[Src(b)][l] = "fresh"
          BY <2>12, ParsesFresh DEF Parse
    <3>2. ~Unsound(b) BY <1>1, <2>1 DEF WellFormed, Sound, Unsound
    <3> QED BY <2>2, <2>12, <2>16, <3>1, <3>2 DEF Parse, Mild
  <2>13. CASE RecordStatus(b)
         BY <1>2, <2>13 DEF RecordStatus, MildWords
  <2>14. CASE Prefix(b)
         BY <1>1, <1>2, <2>14, VerdictFacts DEF Prefix, MildWords
  <2> QED BY <1>6, <2>4, <2>5, <2>6, <2>7, <2>8, <2>9, <2>10, <2>11, <2>12,
             <2>13, <2>14 DEF BlockStep, Timeout
<1> QED BY <1>4, <1>5, <1>6 DEF Next

-----------------------------------------------------------------------------
(* The theorems. *)

LEMMA InitPInv == Init => PInv
PROOF
<1> SUFFICES ASSUME Init PROVE PInv OBVIOUS
<1>1. TypeOK /\ PeerInv BY InitTypes
<1>2. \A b \in Blocks : Src(b) \in Sources /\ Lane(b) \in Lanes
      BY BlockIsLane
<1>3. \A s \in Sources : SourceAt(s)
      BY DEF Init, SourceAt, WorkAt, Metadata
<1>4. \A b \in Blocks : LaneAt(b) BY <1>2 DEF Init, LaneAt
<1>5. 0 \in Blocks
  <2>1. W * C \in Nat /\ W * C # 0 BY CohortAssumption
  <2> QED BY <2>1 DEF Blocks
<1>6. VerdictInv BY <1>5 DEF Init, VerdictInv, Decided
<1>7. AbortInv BY DEF Init, AbortInv, MildWords, Mild
<1> QED BY <1>1, <1>3, <1>4, <1>6, <1>7 DEF PInv

LEMMA NextPInv == PInv /\ [Next]_vars => PInv'
PROOF
<1> SUFFICES ASSUME PInv, [Next]_vars PROVE PInv' OBVIOUS
<1> USE DEF PInv
<1>1. TypeOK' /\ PeerInv' BY NextTypes
<1>2. VerdictInv' BY NextVerdict
<1>3. AbortInv' BY NextAbort
<1>4. \A s \in Sources : SourceAt(s)' BY NextSource
<1>5. \A b \in Blocks : LaneAt(b)' BY NextLane
<1> QED BY <1>1, <1>2, <1>3, <1>4, <1>5

\* The inductive invariant of a launch of the parsers: where the packet of
\* each source is, what each lane of each cohort knows, and what the words
\* the lanes and the verdict exchange can hold.
THEOREM ParseInvariant == Spec => []PInv
PROOF
<1>1. Init => PInv BY InitPInv
<1>2. PInv /\ [Next]_vars => PInv' BY NextPInv
<1> QED BY <1>1, <1>2, PTL DEF Spec

\* Every variable keeps to its set, and no lane waits for a lane beyond its
\* cohort, whatever the cohort's size.
THEOREM ParseTypes == Spec => []TypeOK
PROOF
<1>1. PInv => TypeOK BY DEF PInv
<1> QED BY <1>1, ParseInvariant, PTL

\* No lane ever counts the residue of an earlier wave or a packet that has
\* landed in part.
THEOREM ParsesAreFresh == Spec => []ParsesOnlyFresh
PROOF
<1>1. PInv => ParsesOnlyFresh BY DEF PInv, LaneAt, ParsesOnlyFresh
<1> QED BY <1>1, ParseInvariant, PTL

\* A wave of well-formed packets is stopped by nothing but a deadline.
THEOREM WavesStopForDeadlinesOnly == Spec => []NoSpuriousAbort
PROOF
<1>1. PInv => NoSpuriousAbort
      BY DEF PInv, AbortInv, MildWords, Mild, NoSpuriousAbort
<1> QED BY <1>1, ParseInvariant, PTL

\* A wave goes on only if every lane has parsed its share of a packet that
\* passes every check, save those whose status block 0 may have an old copy
\* of, and if the sum of the tokens fits; every token is in some share.
THEOREM WavesFailClosed == Spec => []FailsClosed
PROOF
<1>1. ASSUME PInv, Decided, status = "OK" PROVE FailsClosed
  <2>1. (\A b \in Blocks \ Copied : blkStatus[b] = "OK") /\ Fits
        BY <1>1 DEF PInv, VerdictInv
  <2>2. \A b \in Blocks \ Copied : /\ parsed[b] = "fresh" /\ ShareSound(b)
                                   /\ Delivered(Src(b))
        BY <1>1, <2>1 DEF PInv, LaneAt, Decided
  <2>3. ASSUME NEW s \in Sources \ {Src(b) : b \in Copied}
        PROVE  Sound(s)
    <3>1. \A l \in Lanes :
              /\ Delivered(s)
              /\ l = 0 => packet[s].padding /\ ~packet[s].orphans
              /\ packet[s].bad \cap LaneTokens(s, l) = {}
      <4>1. ASSUME NEW l \in Lanes
            PROVE  /\ BlockOf(s, l) \in Blocks \ Copied
                   /\ Src(BlockOf(s, l)) = s /\ Lane(BlockOf(s, l)) = l
            BY <2>3, <4>1, LaneIsBlock
      <4> QED BY <2>2, <4>1 DEF ShareSound, Unsound
    <3>2. 0 \in Lanes BY CohortAssumption DEF Lanes
    <3>3. packet[s] \in Packets /\ packet[s].tokens \in Nat
          BY <1>1 DEF PInv, TypeOK, SourceTypes, Packets
    <3>4. ASSUME NEW t \in packet[s].bad PROVE FALSE
      <4>1. t \in 0 .. packet[s].tokens - 1 BY <3>3 DEF Packets
      <4>2. PICK l \in Lanes :
                /\ ParserTokenBoundary(packet[s].tokens, l) <= t
                /\ t < ParserTokenBoundary(packet[s].tokens, l + 1)
            BY <3>3, <4>1, TokenHasLane
      <4>3. t \in LaneTokens(s, l)
            BY <3>3, <4>1, <4>2, LaneRange DEF LaneTokens
      <4> QED BY <3>1, <4>3
    <3> QED BY <3>1, <3>2, <3>4 DEF Delivered, Sound
  <2> QED BY <2>1, <2>2, <2>3 DEF FailsClosed
<1>2. PInv => FailsClosed BY <1>1 DEF FailsClosed
<1> QED BY <1>2, ParseInvariant, PTL

\* Every token of every source is counted by exactly one lane, and no two
\* lanes write to the cacheline of one group of eight.
THEOREM TokensAreCountedOnce == Spec => []EachTokenOnce
PROOF
<1>1. ASSUME PInv, NEW s \in Sources
      PROVE  /\ UNION {LaneTokens(s, l) : l \in Lanes}
                    = 0 .. packet[s].tokens - 1
             /\ \A l, k \in Lanes : l # k =>
                   \A t \in LaneTokens(s, l), u \in LaneTokens(s, k) :
                       t \div 8 # u \div 8
  <2>1. packet[s].tokens \in Nat
        BY <1>1 DEF PInv, TypeOK, SourceTypes, Packets
  <2>2. ASSUME NEW l \in Lanes, NEW t \in LaneTokens(s, l)
        PROVE  /\ t \in 0 .. packet[s].tokens - 1
               /\ ParserTokenBoundary(packet[s].tokens, l) <= t
               /\ t < ParserTokenBoundary(packet[s].tokens, l + 1)
        BY <2>1, <2>2, LaneRange DEF LaneTokens
  <2>3. ASSUME NEW t \in 0 .. packet[s].tokens - 1
        PROVE  \E l \in Lanes : t \in LaneTokens(s, l)
    <3>1. PICK l \in Lanes :
              /\ ParserTokenBoundary(packet[s].tokens, l) <= t
              /\ t < ParserTokenBoundary(packet[s].tokens, l + 1)
          BY <2>1, TokenHasLane
    <3> QED BY <2>1, <3>1, LaneRange DEF LaneTokens
  <2>4. ASSUME NEW l \in Lanes, NEW k \in Lanes, l < k,
               NEW t \in LaneTokens(s, l), NEW u \in LaneTokens(s, k)
        PROVE  t \div 8 < u \div 8
    <3>1. /\ t \in Nat /\ t < ParserTokenBoundary(packet[s].tokens, l + 1)
          /\ u \in Nat /\ u >= ParserTokenBoundary(packet[s].tokens, k)
          /\ u < packet[s].tokens
          BY <2>1, <2>2, LaneRange
    <3> QED BY <2>1, <2>4, <3>1, LanesDoNotShareGroups
  <2>5. ASSUME NEW l \in Lanes, NEW k \in Lanes, l # k,
               NEW t \in LaneTokens(s, l), NEW u \in LaneTokens(s, k)
        PROVE  t \div 8 # u \div 8
    <3>1. t \div 8 \in Nat /\ u \div 8 \in Nat
          BY <2>1, <2>2, Division
    <3>2. l < k \/ k < l BY <2>5, CohortAssumption DEF Lanes
    <3> QED BY <2>4, <3>1, <3>2
  <2> QED BY <2>2, <2>3, <2>5
<1>2. PInv => EachTokenOnce BY <1>1 DEF EachTokenOnce
<1> QED BY <1>2, ParseInvariant, PTL
=============================================================================
