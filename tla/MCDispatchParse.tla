--------------------------- MODULE MCDispatchParse ---------------------------
(* Instances of DispatchParse for TLC. *)
EXTENDS DispatchParse

\* Two groups of tokens, the second with one token.
Good == [ready |-> TRUE, header |-> "OK", padding |-> TRUE,
         tokens |-> 9, bad |-> {}, orphans |-> FALSE]
BadPadding == [Good EXCEPT !.padding = FALSE]

\* One check fails at a time: the kernel stops at the first that does.
AnyPacket == {Good, BadPadding, [Good EXCEPT !.ready = FALSE],
              [Good EXCEPT !.header = "INVALID_HEADER"],
              [Good EXCEPT !.header = "SIZE_OVERFLOW"],
              [Good EXCEPT !.bad = {0}], [Good EXCEPT !.bad = {8}],
              [Good EXCEPT !.tokens = 0, !.orphans = TRUE]}

\* No token, one short group, three groups.
AnySize == {[Good EXCEPT !.tokens = n] : n \in {0, 3, 17}}

\* The packets fit exactly; the first does not fit; together they do not fit
\* the journal, or the row map.
GoodPlan == [tokenCapacity |-> 9 * W, rowMapCapacity |-> 9 * W * W,
             layout |-> "OK"]
EarlyOverflow == [GoodPlan EXCEPT !.tokenCapacity = 8]
AnyPlan == {EarlyOverflow, [GoodPlan EXCEPT !.tokenCapacity = (9 * W) - 1],
            [GoodPlan EXCEPT !.rowMapCapacity = (9 * W * W) - 1],
            [GoodPlan EXCEPT !.rowMapCapacity = 0],
            [GoodPlan EXCEPT !.layout = "CAPACITY_EXCEEDED"]}
\* Room for the largest packets.
WidePlan == [GoodPlan EXCEPT !.tokenCapacity = 17 * W, !.rowMapCapacity = 0]

Wave(packets, plans, workers, spin) ==
    [packet : packets, plan : plans, present : workers, bounded : {spin},
     ownCaches : {FALSE}]

AllGood == [Sources -> {Good}]
OneOther(packets) == {[s \in Sources |-> IF s = f THEN p ELSE Good] :
                          f \in Sources, p \in packets}

\* Every worker appears and no deadline is met.
Settling == Wave(OneOther(AnyPacket), {GoodPlan}, {Sources}, FALSE)
    \cup Wave(AllGood, AnyPlan, {Sources}, FALSE)
    \cup Wave(OneOther({BadPadding}), {GoodPlan, EarlyOverflow}, {Sources},
              FALSE)
    \cup Wave({[s \in Sources |-> p] : p \in AnySize}, {WidePlan}, {Sources},
              FALSE)
\* Only one worker appears, and any deadline may be met.
Deserted == Wave(AllGood, {GoodPlan}, {{s} : s \in Sources}, TRUE)
\* Both workers appear and any deadline may be met.
Hurried == Wave(AllGood, {GoodPlan}, {Sources}, TRUE)

\* An invalid record in the share of a lane other than 0, or any deadline,
\* and block 0 may have old copies of block statuses.
OwnCaches ==
    {[wave EXCEPT !.ownCaches = TRUE] :
        wave \in Hurried \cup Wave(OneOther({[Good EXCEPT !.bad = {8}]}),
                                   {GoodPlan}, {Sources}, FALSE)}

AnyWave == Settling \cup Deserted \cup Hurried \cup OwnCaches
=============================================================================
