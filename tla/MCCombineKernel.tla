--------------------------- MODULE MCCombineKernel ---------------------------
(***************************************************************************)
(* Instances of CombineKernel for TLC.                                      *)
(***************************************************************************)
EXTENDS CombineKernel, TLC

\* The launch every healthy wave has.
Good == [launchValid |-> TRUE, sameWave |-> TRUE, headerSound |-> TRUE,
         badRegistration |-> W, planVerdict |-> "OK",
         journal |-> "DISPATCH_SEALED", badCells |-> {}, bounded |-> TRUE]

\* spin_cap is larger than any wait of this wave.
Patient == [Good EXCEPT !.bounded = FALSE]

GoodLaunch == {Good}
HurriedOrPatient == {Good, Patient}

\* One damaged index cell, in the share of the first or the second block.
DamagedLaunch == {[Good EXCEPT !.badCells = {0}],
                  [Good EXCEPT !.badCells = {1}]}

\* A launch refused for each of the reasons block 0 knows; whatever is wrong
\* with the launch or the header, the journal may be in any state.
AnyLaunch ==
    {Good, Patient,
     [Good EXCEPT !.badRegistration = 0],
     [Good EXCEPT !.badRegistration = 1],
     [Good EXCEPT !.planVerdict = "CAPACITY_EXCEEDED"]}
    \cup {[l EXCEPT !.journal = j] :
             l \in {Good, [Good EXCEPT !.launchValid = FALSE],
                    [Good EXCEPT !.sameWave = FALSE],
                    [Good EXCEPT !.headerSound = FALSE]},
             j \in JournalStates}
    \cup DamagedLaunch

WellFormedOnly == {[digest |-> TRUE, verdict |-> "OK"]}

\* A READY as a faulty host could have prepared it.  A notice with a bad
\* digest is refused at the same place.
BrokenReady == WellFormedOnly
    \cup {[digest |-> TRUE, verdict |-> "CAPACITY_EXCEEDED"]}

\* Every accumulator has two contributors: the pipelined path.
TwoChain == [a \in Accs |-> IF a % 2 = 0 THEN <<0, W - 1>> ELSE <<1, 0>>]
\* A token without contributors, one with one, one with both.
MixedChain == 0 :> <<0, 1>> @@ 1 :> <<>> @@ 2 :> <<W - 1>>
\* One accumulator with three contributors.
ThreeChain == 0 :> <<0, 1, 2>>

OwnerByIndex == [a \in Accs |-> a % W]
=============================================================================
