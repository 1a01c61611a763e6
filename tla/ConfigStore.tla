----------------------------- MODULE ConfigStore -----------------------------
(***************************************************************************)
(* The key-value store of the bootstrap: AccStoreServer, which runs on one  *)
(* PE, and the TcpConfigStore client of every PE.  A client has one request *)
(* outstanding at a time; requests of a PE arrive in order, and a handler   *)
(* runs under storeMutex_, so it is one step.  The answer to a request may  *)
(* come after the client gave up on it; it is then dropped by its number.   *)
(*                                                                          *)
(* keyWaiters_ and timedWaiters_ are indexes into waitCtx_ (by key and by   *)
(* deadline); an id in them that waitCtx_ no longer has is ignored, so the  *)
(* model keeps waitCtx_ only.                                               *)
(***************************************************************************)
EXTENDS Integers, Sequences, Functions

CONSTANT PEs

VARIABLES
    late,      \* time limits that have ended although an answer would come
    maxLate,   \* bound: how many may
    running,   \* the server is up
    kvStore,   \* key -> value; absent keys are not in the domain
    waitCtx,   \* GETs that wait for their key
    requests,  \* PE -> requests on their way to the server
    replies,   \* answers on their way back
    seqNo,     \* PE -> number of its last request
    pending    \* PE -> msgClientContext_: the numbers it waits for

serverVars == <<maxLate, running, kvStore, waitCtx>>
storeVars == <<late, maxLate, running, kvStore, waitCtx, requests, replies, seqNo,
               pending>>

StoreInit ==
    /\ late = 0
    /\ running = TRUE
    /\ kvStore = <<>>
    /\ waitCtx = {}
    /\ requests = [p \in PEs |-> <<>>]
    /\ replies = {}
    /\ seqNo = [p \in PEs |-> 0]
    /\ pending = [p \in PEs |-> {}]
-----------------------------------------------------------------------------
(* The server. *)

Answer(r, code, value) ==
    [pe |-> r.pe, seq |-> r.seq, code |-> code, value |-> value]

\* The server takes the next request of p and gives these answers.
Handle(p, op) == running /\ requests[p] # <<>> /\ Head(requests[p]).op = op
Answered(p, answers) ==
    /\ replies' = replies \cup answers
    /\ requests' = [requests EXCEPT ![p] = Tail(@)]
    /\ UNCHANGED <<late, maxLate, running, seqNo, pending>>

Exists(key) == key \in DOMAIN kvStore

Store(key, value) ==
    [k \in DOMAIN kvStore \cup {key} |-> IF k = key THEN value ELSE kvStore[k]]

\* Variant of Waiters: nobody is woken.
NoWaiters(key) == {}

\* Those to wake when a key appears (GetOutWaitersInLock).
Waiters(key) == {w \in waitCtx : w.key = key}

\* A key that did not exist gets its value, and its waiters are woken and told
\* a value.  A key that exists is changed and wakes nobody.
Update(p, r, value, told, code) ==
    LET woken == IF Exists(r.key) THEN {} ELSE Waiters(r.key)
    IN  /\ kvStore' = Store(r.key, value)
        /\ waitCtx' = waitCtx \ woken
        /\ Answered(p, {Answer(r, "SUCCESS", code)}
                         \cup {Answer(w, "SUCCESS", told) : w \in woken})

SetHandler(p) ==
    /\ Handle(p, "SET")
    /\ LET r == Head(requests[p]) IN Update(p, r, r.value, r.value, <<>>)

AddHandler(p) ==
    /\ Handle(p, "ADD")
    /\ LET r == Head(requests[p])
           sum == IF Exists(r.key) THEN <<kvStore[r.key][1] + r.value[1]>>
                  ELSE r.value
       IN  Update(p, r, sum, r.value, sum)

\* The value has been moved into the store when the waiters are woken: they
\* are told the empty vector that is left.
AppendHandler(p) ==
    /\ Handle(p, "APPEND")
    /\ LET r == Head(requests[p])
           all == IF Exists(r.key) THEN kvStore[r.key] \o r.value ELSE r.value
       IN  Update(p, r, all, <<>>, <<Len(all)>>)

RemoveHandler(p) ==
    /\ Handle(p, "REMOVE")
    /\ LET r == Head(requests[p])
       IN  /\ kvStore' = Restrict(kvStore, DOMAIN kvStore \ {r.key})
           /\ Answered(p, {Answer(r, IF Exists(r.key) THEN "SUCCESS"
                                     ELSE "NOT_EXIST", <<>>)})
    /\ UNCHANGED waitCtx

\* A GET with a time limit waits for a key that does not exist yet.
GetHandler(p) ==
    /\ Handle(p, "GET")
    /\ LET r == Head(requests[p])
       IN  IF Exists(r.key)
           THEN Answered(p, {Answer(r, "SUCCESS", kvStore[r.key])})
                /\ UNCHANGED waitCtx
           ELSE Answered(p, {})
                /\ waitCtx' = waitCtx \cup {[pe |-> p, seq |-> r.seq, key |-> r.key]}
    /\ UNCHANGED kvStore

\* A time limit ends: for good reason when nothing moves any more, else as
\* one of the maxLate that end too soon for an answer on its way.
TimeOver(stalled) ==
    \/ stalled /\ UNCHANGED late
    \/ ~stalled /\ late < maxLate /\ late' = late + 1

\* Variant of TimerThreadTask that leaves the waiter it has answered.
TimerKeepsWaiter(stalled) ==
    /\ running /\ TimeOver(stalled)
    /\ \E w \in waitCtx : replies' = replies \cup {Answer(w, "TIMEOUT", <<>>)}
    /\ UNCHANGED <<maxLate, running, kvStore, waitCtx, requests, seqNo, pending>>

\* Variant of TimerThreadTask that never does.
TimerSilent(stalled) == FALSE

\* The timer thread answers a waiter whose time is over.
TimerThreadTask(stalled) ==
    /\ running /\ TimeOver(stalled)
    /\ \E w \in waitCtx : /\ replies' = replies \cup {Answer(w, "TIMEOUT", <<>>)}
                         /\ waitCtx' = waitCtx \ {w}
    /\ UNCHANGED <<maxLate, running, kvStore, requests, seqNo, pending>>

\* Shutdown: what is queued is lost, links break.  Answers already on the
\* wire may still arrive.
Shutdown ==
    /\ running
    /\ running' = FALSE
    /\ waitCtx' = {}
    /\ requests' = [p \in PEs |-> <<>>]
    /\ UNCHANGED <<late, maxLate, kvStore, replies, seqNo, pending>>
-----------------------------------------------------------------------------
(* The client. *)

\* SendMessageBlocked up to the wait, with a new number.  On a broken link
\* the request goes nowhere.
Send(p, op, key, value) ==
    LET s == seqNo[p] + 1
        r == [pe |-> p, seq |-> s, op |-> op, key |-> key, value |-> value]
    IN  /\ seqNo' = [seqNo EXCEPT ![p] = s]
        /\ pending' = [pending EXCEPT ![p] = {s}]
        /\ requests' = [requests EXCEPT ![p] = IF running THEN Append(@, r) ELSE @]

\* Variant of Idle that leaves the context behind.
IdleKeepsContext(p) == UNCHANGED <<pending, seqNo, requests>>

Idle(p) == pending' = [pending EXCEPT ![p] = {}] /\ UNCHANGED <<seqNo, requests>>

\* Answers that ReceiveResponseHandler hands to a waiting call.
Mine(p) == {r \in replies : r.pe = p /\ r.seq \in pending[p]}

\* How the wait of p can end: with an answer, or with none if its time is
\* over or the link is broken (SetFailedFinish).
NoAnswer == [code |-> "IO_ERROR", value |-> <<>>, read |-> {}]
Outcomes(p) ==
    {[code |-> r.code, value |-> r.value, read |-> {r}] : r \in Mine(p)}
        \cup {NoAnswer}

WaitEnds(p, o) ==
    /\ replies' = replies \ o.read
    /\ IF o = NoAnswer THEN TimeOver(~running) ELSE UNCHANGED late

\* An answer nobody waits for is logged and dropped.
DropReply(p) ==
    /\ \E r \in replies :
           r.pe = p /\ r.seq \notin pending[p] /\ replies' = replies \ {r}
    /\ UNCHANGED <<late, maxLate, running, kvStore, waitCtx, requests, seqNo, pending>>

Handler(p) ==
    \/ SetHandler(p) \/ GetHandler(p) \/ AddHandler(p)
    \/ RemoveHandler(p) \/ AppendHandler(p)
=============================================================================
