--------------------------- MODULE MCDispatchRelay ---------------------------
(* Instances of DispatchRelay for TLC. *)
EXTENDS DispatchRelay

ToAll == [s \in Sources |-> Sources]
\* The last source keeps its tokens, the others send everywhere.
LastToItself == [s \in Sources |-> IF s = W - 1 THEN {s} ELSE Sources]
\* The first source sends everywhere, the last one has no tokens.
LastEmpty == [s \in Sources |-> IF s = W - 1 THEN {} ELSE Sources]

Good == [valid |-> TRUE, header |-> "ours", journal |-> "FREE",
         mine |-> FALSE, verdict |-> "OK", digest |-> [s \in Sources |-> TRUE]]
GoodLaunch == {Good}

\* Damaged digests, a failed parse, and every journal a launch can meet.
AnyLaunch == GoodLaunch
    \cup {[Good EXCEPT !.digest[s] = FALSE] : s \in Sources}
    \cup {[Good EXCEPT !.verdict = v] :
              v \in {"INVALID_READY", "CAPACITY_EXCEEDED"}}
    \cup {[Good EXCEPT !.journal = j, !.mine = m] :
              j \in JournalStates, m \in BOOLEAN}
    \cup {[Good EXCEPT !.header = h, !.journal = j, !.mine = m] :
              h \in {"otherAbi", "foreign"}, j \in JournalStates,
              m \in BOOLEAN}
    \cup {[Good EXCEPT !.header = "blank"], [Good EXCEPT !.valid = FALSE],
          [Good EXCEPT !.valid = FALSE, !.mine = TRUE,
                       !.journal = "COMBINE_ACTIVE"]}
=============================================================================
