------------------------- MODULE IdempotencyProofs -------------------------
(***************************************************************************)
(* The promises of the Idempotency-Key, proved for any number of keys,     *)
(* requests, clients and calls and any mixture of refusals, purges and     *)
(* kills, under the condition each of them names.                          *)
(***************************************************************************)
EXTENDS Idempotency, TLAPS

-----------------------------------------------------------------------------
(* Type correctness.                                                       *)

Calls == Working \cup Answered \cup Refused

\* What a call looks like is told by where it stands.
LEMMA WorkingCall ==
  ASSUME IdempotencyTypeOK, NEW c \in Clients, Busy(c)
  PROVE  call[c] \in Working
BY DEF IdempotencyTypeOK, Busy, Working, Answered, Refused

LEMMA RowShape ==
  ASSUME IdempotencyTypeOK, NEW k \in Keys, store[k].state # "free"
  PROVE  /\ store[k].req \in Requests /\ store[k].expired \in BOOLEAN
         /\ store[k].state \in {"claimed", "answered"}
         /\ store[k].state = "answered" => store[k].answer \in Answers
BY DEF IdempotencyTypeOK, Row

\* Moving on changes where a call stands and nothing else.
LEMMA Moved ==
  ASSUME IdempotencyTypeOK, NEW c \in Clients, Busy(c),
         NEW point \in {"insert", "get", "produce", "release", "complete"},
         Proceed(c, point)
  PROVE  /\ call' \in [Clients -> Calls]
         /\ call'[c].pc = point /\ call'[c].key = call[c].key
         /\ call'[c].req = call[c].req
         /\ \A d \in Clients \ {c} : call'[d] = call[d]
BY WorkingCall DEF IdempotencyTypeOK, Proceed, Working, Calls

LEMMA Answering ==
  ASSUME IdempotencyTypeOK, NEW c \in Clients, NEW answer \in Calls, Respond(c, answer)
  PROVE  /\ call' \in [Clients -> Calls]
         /\ call'[c] = answer
         /\ \A d \in Clients \ {c} : call'[d] = call[d]
BY DEF IdempotencyTypeOK, Respond, Calls

LEMMA ArriveType ==
  ASSUME IdempotencyTypeOK, NEW c \in Clients, NEW k \in Keys, NEW r \in Requests,
         Arrive(c, k, r)
  PROVE  IdempotencyTypeOK'
<1> DEFINE new == [pc |-> "insert", key |-> k, req |-> r, nr |-> calls + 1]
<1>1. calls + 1 \in 0..MaxCalls
  BY IdempotencyAssumption DEF Arrive, IdempotencyTypeOK
<1>2. new \in Calls
  BY <1>1 DEF Calls, Working
<1>3. call' \in [Clients -> Calls]
  BY <1>2, Answering DEF Arrive
<1> QED
  BY <1>1, <1>3 DEF Arrive, IdempotencyTypeOK, histories, Calls

LEMMA InsertType ==
  ASSUME IdempotencyTypeOK, NEW c \in Clients, Insert(c)
  PROVE  IdempotencyTypeOK'
<1>1. Busy(c) /\ call[c] \in Working
  BY WorkingCall DEF Insert, Busy
<1>2. call' \in [Clients -> Calls]
  BY <1>1, Moved DEF Insert
<1>3. [state |-> "claimed", req |-> call[c].req, expired |-> FALSE] \in Row
  BY <1>1 DEF Row, Working
<1>4. store' \in [Keys -> Row]
  BY <1>3 DEF Insert, IdempotencyTypeOK
<1> QED
  BY <1>2, <1>4 DEF Insert, IdempotencyTypeOK, histories, Calls

LEMMA GetType ==
  ASSUME IdempotencyTypeOK, NEW c \in Clients, Get(c)
  PROVE  IdempotencyTypeOK'
<1> DEFINE row == store[call[c].key]
<1>1. Busy(c) /\ call[c] \in Working
  BY WorkingCall DEF Get, Busy
<1>2. call' \in [Clients -> Calls]
  <2>1. CASE Proceed(c, "produce")
    BY <1>1, <2>1, Moved
  <2>2. CASE Respond(c, [pc |-> "reused"]) \/ Respond(c, [pc |-> "in_flight"])
    BY <2>2, Answering DEF Calls, Refused
  <2>3. CASE /\ row.state = "answered"
             /\ Respond(c, [pc |-> "replayed", key |-> call[c].key,
                            req |-> call[c].req, answer |-> row.answer])
    <3>1. row.answer \in Answers
      BY <1>1, <2>3, RowShape DEF Working
    <3>2. [pc |-> "replayed", key |-> call[c].key, req |-> call[c].req,
           answer |-> row.answer] \in Calls
      BY <1>1, <3>1 DEF Calls, Answered, Working
    <3> QED
      BY <2>3, <3>2, Answering
  <2> QED
    BY <2>1, <2>2, <2>3 DEF Get
<1>3. strayed' \in BOOLEAN
  BY DEF Get, IdempotencyTypeOK
<1> QED
  BY <1>2, <1>3 DEF Get, IdempotencyTypeOK, Calls

LEMMA ProduceType ==
  ASSUME IdempotencyTypeOK, NEW c \in Clients, Produce(c)
  PROVE  IdempotencyTypeOK'
<1>1. Busy(c)
  BY DEF Produce, Busy
<1>2. call' \in [Clients -> Calls]
  BY <1>1, Moved DEF Produce
<1> QED
  BY <1>2 DEF Produce, IdempotencyTypeOK, histories, Calls

LEMMA CompleteType ==
  ASSUME IdempotencyTypeOK, NEW c \in Clients, Complete(c)
  PROVE  IdempotencyTypeOK'
<1> DEFINE k == call[c].key
           answer == [req |-> call[c].req, nr |-> call[c].nr]
<1>1. call[c] \in Working /\ k \in Keys
  BY WorkingCall DEF Complete, Busy, Working
<1>2. answer \in Answers
  BY <1>1 DEF Working, Answers
<1>3. store' \in [Keys -> Row]
  <2>1. CASE store[k].state = "free"
    BY <2>1 DEF Complete, IdempotencyTypeOK
  <2>2. CASE store[k].state # "free"
    <3>1. [state |-> "answered", req |-> store[k].req, expired |-> store[k].expired,
           answer |-> answer] \in Row
      BY <1>1, <1>2, <2>2, RowShape DEF Row
    <3> QED
      BY <2>2, <3>1 DEF Complete, IdempotencyTypeOK
  <2> QED
    BY <2>1, <2>2
<1>4. [pc |-> "produced", key |-> k, req |-> call[c].req, answer |-> answer] \in Calls
  BY <1>1, <1>2 DEF Calls, Answered, Working
<1>5. call' \in [Clients -> Calls]
  BY <1>4, Answering DEF Complete
<1> QED
  BY <1>3, <1>5 DEF Complete, IdempotencyTypeOK, histories, Calls

LEMMA ReleaseType ==
  ASSUME IdempotencyTypeOK, NEW c \in Clients, Release(c)
  PROVE  IdempotencyTypeOK'
<1>1. call' \in [Clients -> Calls]
  BY Answering DEF Release, Calls, Refused
<1>2. store' \in [Keys -> Row]
  BY DEF Release, IdempotencyTypeOK, FreeRow, Row
<1> QED
  BY <1>1, <1>2 DEF Release, IdempotencyTypeOK, histories, Calls

LEMMA ExpireType ==
  ASSUME IdempotencyTypeOK, NEW k \in Keys, Expire(k)
  PROVE  IdempotencyTypeOK'
<1>1. [store[k] EXCEPT !.expired = TRUE] \in Row
  BY DEF Expire, IdempotencyTypeOK, Row
<1>2. store' \in [Keys -> Row]
  BY <1>1 DEF Expire, IdempotencyTypeOK
<1> QED
  BY <1>2 DEF Expire, IdempotencyTypeOK, histories

LEMMA TimeType ==
  ASSUME IdempotencyTypeOK, Purge \/ Die
  PROVE  IdempotencyTypeOK'
<1>1. CASE Purge
  BY <1>1 DEF Purge, IdempotencyTypeOK, FreeRow, Row, histories
<1>2. CASE Die
  BY <1>2 DEF Die, IdempotencyTypeOK, IdleCall, Refused
<1> QED
  BY <1>1, <1>2

LEMMA IdempotencyNextType ==
  IdempotencyTypeOK /\ [IdempotencyNext]_idempotencyVars => IdempotencyTypeOK'
<1>1. CASE UNCHANGED idempotencyVars
  BY <1>1 DEF idempotencyVars, histories, IdempotencyTypeOK
<1> QED
  BY <1>1, ArriveType, InsertType, GetType, ProduceType, CompleteType, ReleaseType,
    ExpireType, TimeType DEF IdempotencyNext, Serve

LEMMA IdempotencyInitType == IdempotencyInit => IdempotencyTypeOK
<1> SUFFICES ASSUME IdempotencyInit PROVE IdempotencyTypeOK
  OBVIOUS
<1>1. store \in [Keys -> Row]
  BY DEF IdempotencyInit, FreeRow, Row
<1>2. call \in [Clients -> Working \cup Answered \cup Refused]
  BY DEF IdempotencyInit, IdleCall, Refused
<1>3. calls \in 0..MaxCalls
  BY IdempotencyAssumption DEF IdempotencyInit
<1> QED
  BY <1>1, <1>2, <1>3 DEF IdempotencyInit, IdempotencyTypeOK

\* The table and the requests keep their shape: an answered row has its body, a
\* claimed one has none.
THEOREM IdempotencyTypeCorrect == IdempotencySpec => []IdempotencyTypeOK
BY IdempotencyInitType, IdempotencyNextType, PTL DEF IdempotencySpec

-----------------------------------------------------------------------------
(* The inductive invariant.  Whoever is at work under a key, on the way    *)
(* out of a refusal included, holds the row of that key, claimed for its   *)
(* own request; a row answers the request it was claimed for, and a replay *)
(* is such an answer.  A request that went to work without a row breaks    *)
(* this for good, so it holds while there was none.                        *)

AtWork(c) == call[c].pc \in {"produce", "complete", "release"}

HoldsRow(c) ==
  store[call[c].key].state = "claimed" /\ store[call[c].key].req = call[c].req

AnswersItsClaim(k) == store[k].state = "answered" => store[k].answer.req = store[k].req

KeyInv ==
  /\ \A c \in Clients : AtWork(c) => HoldsRow(c)
  /\ \A c, d \in Clients : AtWork(c) /\ AtWork(d) /\ call[c].key = call[d].key => c = d
  /\ \A k \in Keys : AnswersItsClaim(k)
  /\ \A c \in Clients : call[c].pc = "replayed" => call[c].answer.req = call[c].req

LEMMA ArriveKeepsKeys ==
  ASSUME IdempotencyTypeOK, KeyInv, NEW c \in Clients, NEW k \in Keys,
         NEW r \in Requests, Arrive(c, k, r)
  PROVE  KeyInv'
<1> DEFINE new == [pc |-> "insert", key |-> k, req |-> r, nr |-> calls + 1]
<1>1. call'[c].pc = "insert" /\ \A d \in Clients \ {c} : call'[d] = call[d]
  BY DEF Arrive, Respond, IdempotencyTypeOK
<1> QED
  BY <1>1 DEF Arrive, KeyInv, AtWork, HoldsRow, AnswersItsClaim

LEMMA InsertKeepsKeys ==
  ASSUME IdempotencyTypeOK, KeyInv, NEW c \in Clients, Insert(c)
  PROVE  KeyInv'
<1> DEFINE k == call[c].key
<1>1. Busy(c) /\ k \in Keys /\ ~AtWork(c)
  BY WorkingCall DEF Insert, Busy, Working, AtWork
<1>2. CASE Inserts(k)
  <2>1. /\ call'[c].pc = "produce" /\ call'[c].key = k /\ call'[c].req = call[c].req
        /\ \A d \in Clients \ {c} : call'[d] = call[d]
    BY <1>1, <1>2, Moved DEF Insert
  <2>2. /\ store'[k].state = "claimed" /\ store'[k].req = call[c].req
        /\ \A l \in Keys \ {k} : store'[l] = store[l]
    BY <1>1, <1>2 DEF Insert, IdempotencyTypeOK
  <2>3. \A d \in Clients : AtWork(d) => d # c /\ call[d].key \in Keys \ {k}
    BY <1>1, <1>2, WorkingCall DEF KeyInv, HoldsRow, Inserts, AtWork, Busy, Working
  <2>4. \A d \in Clients : AtWork(d)' => d = c \/ AtWork(d)
    BY <2>1 DEF AtWork
  <2> QED
    BY <2>1, <2>2, <2>3, <2>4 DEF KeyInv, AtWork, HoldsRow, AnswersItsClaim
<1>3. CASE ~Inserts(k)
  <2>1. call'[c].pc = "get" /\ \A d \in Clients \ {c} : call'[d] = call[d]
    BY <1>1, <1>3, Moved DEF Insert
  <2>2. UNCHANGED store
    BY <1>3 DEF Insert
  <2> QED
    BY <2>1, <2>2 DEF KeyInv, AtWork, HoldsRow, AnswersItsClaim
<1> QED
  BY <1>2, <1>3

LEMMA GetKeepsKeys ==
  ASSUME IdempotencyTypeOK, KeyInv, NEW c \in Clients, Get(c), ~strayed'
  PROVE  KeyInv'
<1> DEFINE row == store[call[c].key]
<1>1. call[c] \in Working /\ call[c].key \in Keys
  BY WorkingCall DEF Get, Busy, Working
<1>2. UNCHANGED store
  BY DEF Get
<1>3. CASE Respond(c, [pc |-> "reused"]) \/ Respond(c, [pc |-> "in_flight"])
  <2>1. /\ call'[c].pc \in {"reused", "in_flight"}
        /\ \A d \in Clients \ {c} : call'[d] = call[d]
    BY <1>3 DEF Respond, IdempotencyTypeOK
  <2> QED
    BY <1>2, <2>1 DEF KeyInv, AtWork, HoldsRow, AnswersItsClaim
<1>4. CASE /\ row.state = "answered" /\ Matches(row, call[c].req)
           /\ Respond(c, [pc |-> "replayed", key |-> call[c].key,
                          req |-> call[c].req, answer |-> row.answer])
  <2>1. /\ call'[c].pc = "replayed" /\ call'[c].answer = row.answer
        /\ call'[c].req = call[c].req
        /\ \A d \in Clients \ {c} : call'[d] = call[d]
    BY <1>4 DEF Respond, IdempotencyTypeOK
  <2>2. row.answer.req = call[c].req
    BY <1>1, <1>4 DEF KeyInv, AnswersItsClaim, Matches
  <2> QED
    BY <1>2, <2>1, <2>2 DEF KeyInv, AtWork, HoldsRow, AnswersItsClaim
<1> QED
  BY <1>3, <1>4 DEF Get

LEMMA ProduceKeepsKeys ==
  ASSUME IdempotencyTypeOK, KeyInv, NEW c \in Clients, Produce(c)
  PROVE  KeyInv'
<1>1. Busy(c) /\ AtWork(c)
  BY DEF Produce, Busy, AtWork
<1>2. /\ call'[c].pc \in {"complete", "release"} /\ call'[c].key = call[c].key
      /\ call'[c].req = call[c].req
      /\ \A d \in Clients \ {c} : call'[d] = call[d]
  BY <1>1, Moved DEF Produce
<1> QED
  BY <1>1, <1>2 DEF Produce, KeyInv, AtWork, HoldsRow, AnswersItsClaim

\* A call that leaves its key takes no row from anybody else.
LEMMA OthersElsewhere ==
  ASSUME IdempotencyTypeOK, KeyInv, NEW c \in Clients, AtWork(c)
  PROVE  \A d \in Clients \ {c} : AtWork(d) => call[d].key \in Keys \ {call[c].key}
BY WorkingCall DEF KeyInv, AtWork, Busy, Working

LEMMA CompleteKeepsKeys ==
  ASSUME IdempotencyTypeOK, KeyInv, NEW c \in Clients, Complete(c)
  PROVE  KeyInv'
<1> DEFINE k == call[c].key
<1>1. AtWork(c) /\ k \in Keys
  BY WorkingCall DEF Complete, AtWork, Busy, Working
<1>2. store[k].state = "claimed" /\ store[k].req = call[c].req
  BY <1>1 DEF KeyInv, HoldsRow
<1>3. /\ store'[k].state = "answered" /\ store'[k].req = call[c].req
      /\ store'[k].answer.req = call[c].req
      /\ \A l \in Keys \ {k} : store'[l] = store[l]
  BY <1>1, <1>2 DEF Complete, IdempotencyTypeOK
<1>4. call'[c].pc = "produced" /\ \A d \in Clients \ {c} : call'[d] = call[d]
  BY DEF Complete, Respond, IdempotencyTypeOK
<1> QED
  BY <1>1, <1>3, <1>4, OthersElsewhere DEF KeyInv, AtWork, HoldsRow, AnswersItsClaim

LEMMA ReleaseKeepsKeys ==
  ASSUME IdempotencyTypeOK, KeyInv, NEW c \in Clients, Release(c)
  PROVE  KeyInv'
<1> DEFINE k == call[c].key
<1>1. AtWork(c) /\ k \in Keys
  BY WorkingCall DEF Release, AtWork, Busy, Working
<1>2. store'[k] = FreeRow /\ \A l \in Keys \ {k} : store'[l] = store[l]
  BY <1>1 DEF Release, KeyInv, HoldsRow, Freed, IdempotencyTypeOK
<1>3. call'[c].pc = "refused" /\ \A d \in Clients \ {c} : call'[d] = call[d]
  BY DEF Release, Respond, IdempotencyTypeOK
<1> QED
  BY <1>1, <1>2, <1>3, OthersElsewhere
    DEF KeyInv, AtWork, HoldsRow, AnswersItsClaim, FreeRow

LEMMA ExpireKeepsKeys ==
  ASSUME IdempotencyTypeOK, KeyInv, NEW k \in Keys, Expire(k)
  PROVE  KeyInv'
<1>1. \A l \in Keys : /\ store'[l].state = store[l].state
                      /\ store[l].state # "free" => store'[l].req = store[l].req
                      /\ store[l].state = "answered" => store'[l].answer = store[l].answer
  BY DEF Expire, IdempotencyTypeOK, Row
<1>2. \A c \in Clients : AtWork(c) => call[c].key \in Keys
  BY WorkingCall DEF AtWork, Busy, Working
<1> QED
  BY <1>1, <1>2 DEF Expire, KeyInv, AtWork, HoldsRow, AnswersItsClaim

LEMMA TimeKeepsKeys ==
  ASSUME IdempotencyTypeOK, KeyInv, Purge \/ Die
  PROVE  KeyInv'
<1>1. CASE Purge
  <2>1. \A c \in Clients : AtWork(c) => call[c].key \in Keys
    BY WorkingCall DEF AtWork, Busy, Working
  <2>2. \A k \in Keys : store'[k] = store[k] \/ (store[k].state = "answered" /\ store'[k] = FreeRow)
    BY <1>1 DEF Purge, Purgeable, IdempotencyTypeOK
  <2> QED
    BY <1>1, <2>1, <2>2 DEF Purge, KeyInv, AtWork, HoldsRow, AnswersItsClaim, FreeRow
<1>2. CASE Die
  <2>1. \A c \in Clients : call'[c] = IdleCall \/ call'[c] = call[c]
    BY <1>2 DEF Die
  <2>2. \A c \in Clients : AtWork(c)' => FALSE
    BY <1>2 DEF Die, AtWork, Busy, IdleCall
  <2> QED
    BY <1>2, <2>1, <2>2 DEF Die, KeyInv, AnswersItsClaim, IdleCall
<1> QED
  BY <1>1, <1>2

LEMMA KeysNext ==
  /\ IdempotencyTypeOK /\ (~strayed => KeyInv)
  /\ [IdempotencyNext]_idempotencyVars
  => (~strayed => KeyInv)'
<1> SUFFICES ASSUME IdempotencyTypeOK, ~strayed => KeyInv,
                    [IdempotencyNext]_idempotencyVars, ~strayed'
             PROVE  KeyInv'
  OBVIOUS
<1>1. KeyInv
  BY DEF IdempotencyNext, Serve, Arrive, Insert, Get, Produce, Complete, Release, Expire,
    Purge, Die, histories, idempotencyVars, IdempotencyTypeOK
<1>2. CASE UNCHANGED idempotencyVars
  BY <1>1, <1>2 DEF idempotencyVars, KeyInv, AtWork, HoldsRow, AnswersItsClaim
<1> QED
  BY <1>1, <1>2, ArriveKeepsKeys, InsertKeepsKeys, GetKeepsKeys, ProduceKeepsKeys,
    CompleteKeepsKeys, ReleaseKeepsKeys, ExpireKeepsKeys, TimeKeepsKeys
    DEF IdempotencyNext, Serve

LEMMA KeysInvariance == IdempotencySpec => [](IdempotencyTypeOK /\ (~strayed => KeyInv))
<1>1. IdempotencyInit => ~strayed /\ KeyInv
  BY DEF IdempotencyInit, KeyInv, AtWork, AnswersItsClaim, IdleCall, FreeRow
<1> QED
  BY <1>1, IdempotencyInitType, IdempotencyNextType, KeysNext, PTL DEF IdempotencySpec

-----------------------------------------------------------------------------
(* The theorems.                                                           *)

\* While every request at work had a row of its own, no two work under one key.
THEOREM OneProducerPerKey == IdempotencySpec => []OneProducer
<1>1. (~strayed => KeyInv) => OneProducer
  BY DEF KeyInv, AtWork, OneProducer, ClaimIsExclusive, Producing
<1> QED
  BY <1>1, KeysInvariance, PTL

\* While every request at work had a row of its own, a replay answers its own request.
THEOREM ReplaysAreOwn == IdempotencySpec => []ReplayIsOwn
<1>1. (~strayed => KeyInv) => ReplayIsOwn
  BY DEF KeyInv, ReplayIsOwn
<1> QED
  BY <1>1, KeysInvariance, PTL

\* While every request at work had a row of its own, a stored answer stays until
\* retention takes it.
THEOREM AnswersStay == IdempotencySpec => AnswerStays
<1> DEFINE Stays == \A k \in Keys : store[k].state = "answered" /\ ~strayed =>
             \/ store[k].expired /\ store'[k] = FreeRow
             \/ store'[k].state = "answered" /\ store'[k].answer = store[k].answer
<1>1. ASSUME IdempotencyTypeOK, ~strayed => KeyInv, IdempotencyNext PROVE Stays
  <2> SUFFICES ASSUME NEW k \in Keys, store[k].state = "answered", ~strayed
               PROVE  \/ store[k].expired /\ store'[k] = FreeRow
                      \/ store'[k].state = "answered" /\ store'[k].answer = store[k].answer
    OBVIOUS
  <2>1. KeyInv
    BY <1>1
  <2>2. ASSUME NEW c \in Clients, AtWork(c)
        PROVE  call[c].key # k
    BY <2>1, <2>2 DEF KeyInv, HoldsRow
  <2>3. ASSUME NEW c \in Clients, Serve(c)
        PROVE  store'[k] = store[k]
    <3>1. CASE Insert(c)
      <4> DEFINE key == call[c].key
                 claim == [state |-> "claimed", req |-> call[c].req, expired |-> FALSE]
      <4>1. UNCHANGED store \/ (key # k /\ store' = [store EXCEPT ![key] = claim])
        BY <3>1 DEF Insert, Inserts
      <4> QED
        BY <1>1, <4>1 DEF IdempotencyTypeOK
    <3>2. CASE Get(c) \/ Produce(c)
      BY <3>2 DEF Get, Produce
    <3>3. CASE Complete(c)
      <4>1. call[c].key # k
        BY <3>3, <2>2 DEF Complete, AtWork
      <4> QED
        BY <1>1, <3>3, <4>1 DEF Complete, IdempotencyTypeOK
    <3>4. CASE Release(c)
      BY <1>1, <3>4 DEF Release, Freed, IdempotencyTypeOK
    <3> QED
      BY <2>3, <3>1, <3>2, <3>3, <3>4 DEF Serve
  <2>4. ASSUME NEW l \in Keys, Expire(l)
        PROVE  store'[k].state = "answered" /\ store'[k].answer = store[k].answer
    BY <1>1, <2>4 DEF Expire, IdempotencyTypeOK, Row
  <2>5. CASE Purge
    BY <1>1, <2>5 DEF Purge, Purgeable, IdempotencyTypeOK
  <2>6. CASE Die \/ \E c \in Clients, l \in Keys, r \in Requests : Arrive(c, l, r)
    BY <2>6 DEF Die, Arrive
  <2> QED
    BY <1>1, <2>3, <2>4, <2>5, <2>6 DEF IdempotencyNext
<1>2. /\ IdempotencyTypeOK /\ (~strayed => KeyInv) /\ [IdempotencyNext]_idempotencyVars
      => [Stays]_idempotencyVars
  BY <1>1
<1> QED
  BY <1>2, KeysInvariance, PTL DEF IdempotencySpec, AnswerStays

\* Before the first kill, a key that answers "still executing" is being executed, with
\* or without requests that went to work without a row.
THEOREM ClaimsAreAlive == IdempotencySpec => []InFlightIsRunning
<1>1. IdempotencyInit => InFlightIsRunning
  BY DEF IdempotencyInit, InFlightIsRunning, FreeRow
<1>2. IdempotencyTypeOK /\ InFlightIsRunning /\ [IdempotencyNext]_idempotencyVars
      => InFlightIsRunning'
  <2> SUFFICES ASSUME IdempotencyTypeOK, InFlightIsRunning,
                      [IdempotencyNext]_idempotencyVars, ~died',
                      NEW k \in Keys, store'[k].state = "claimed"
               PROVE  \E c \in Clients : AtWork(c)' /\ call'[c].key = k
    BY DEF InFlightIsRunning, AtWork
  <2>1. CASE UNCHANGED idempotencyVars
    BY <2>1 DEF idempotencyVars, histories, InFlightIsRunning, AtWork
  <2>2. CASE \E c \in Clients, l \in Keys, r \in Requests : Arrive(c, l, r)
    <3>1. UNCHANGED <<store, died>>
      BY <2>2 DEF Arrive, histories
    <3>2. PICK d \in Clients : AtWork(d) /\ call[d].key = k
      BY <3>1 DEF InFlightIsRunning, AtWork
    <3>3. call'[d] = call[d]
      BY <2>2, <3>2 DEF Arrive, Respond, IdempotencyTypeOK, AtWork, Busy
    <3> QED
      BY <3>2, <3>3 DEF AtWork
  <2>3. ASSUME NEW c \in Clients, Insert(c)
        PROVE  \E d \in Clients : AtWork(d)' /\ call'[d].key = k
    <3>1. /\ Busy(c) /\ call[c].pc = "insert" /\ UNCHANGED died
          /\ call[c].key \in Keys
      BY <2>3, WorkingCall DEF Insert, Busy, Working, histories
    <3>2. call'[c].key = call[c].key /\ \A d \in Clients \ {c} : call'[d] = call[d]
      BY <2>3, <3>1, Moved DEF Insert
    <3>3. CASE Inserts(call[c].key) /\ call[c].key = k
      <4>1. call'[c].pc = "produce" \/ UNCHANGED store
        BY <2>3, <3>1, Moved DEF Insert
      <4>2. store'[k] # store[k]
        BY <3>3 DEF Inserts
      <4> QED
        BY <3>2, <3>3, <4>1, <4>2 DEF AtWork
    <3>4. CASE ~(Inserts(call[c].key) /\ call[c].key = k)
      <4>1. store'[k] = store[k]
        BY <2>3, <3>4 DEF Insert, IdempotencyTypeOK
      <4>2. PICK d \in Clients : AtWork(d) /\ call[d].key = k
        BY <3>1, <4>1 DEF InFlightIsRunning, AtWork
      <4> QED
        BY <3>1, <3>2, <4>2 DEF AtWork
    <3> QED
      BY <3>3, <3>4
  <2>4. ASSUME NEW c \in Clients, Get(c)
        PROVE  \E d \in Clients : AtWork(d)' /\ call'[d].key = k
    <3>1. PICK d \in Clients : AtWork(d) /\ call[d].key = k
      BY <2>4 DEF Get, InFlightIsRunning, AtWork
    <3>2. call'[d] = call[d]
      BY <2>4, <3>1 DEF Get, Proceed, Respond, IdempotencyTypeOK, AtWork
    <3> QED
      BY <3>1, <3>2 DEF AtWork
  <2>5. ASSUME NEW c \in Clients, Produce(c)
        PROVE  \E d \in Clients : AtWork(d)' /\ call'[d].key = k
    <3>1. PICK d \in Clients : AtWork(d) /\ call[d].key = k
      BY <2>5 DEF Produce, histories, InFlightIsRunning, AtWork
    <3>2. /\ call'[c].pc \in {"complete", "release"} /\ call'[c].key = call[c].key
          /\ \A e \in Clients \ {c} : call'[e] = call[e]
      BY <2>5, Moved DEF Produce, Busy
    <3> QED
      BY <3>1, <3>2 DEF AtWork
  <2>6. ASSUME NEW c \in Clients, Complete(c) \/ Release(c)
        PROVE  \E d \in Clients : AtWork(d)' /\ call'[d].key = k
    <3>1. call[c].key \in Keys
      BY <2>6, WorkingCall DEF Complete, Release, Busy, Working
    <3>2. call[c].key # k /\ store'[k] = store[k]
      <4>1. CASE Complete(c)
        BY <3>1, <4>1 DEF Complete, IdempotencyTypeOK
      <4>2. CASE Release(c)
        BY <3>1, <4>2 DEF Release, Freed, FreeRow, IdempotencyTypeOK
      <4> QED
        BY <2>6, <4>1, <4>2
    <3>3. PICK d \in Clients : AtWork(d) /\ call[d].key = k
      BY <2>6, <3>2 DEF Complete, Release, histories, InFlightIsRunning, AtWork
    <3>4. call'[d] = call[d]
      BY <2>6, <3>2, <3>3 DEF Complete, Release, Respond, IdempotencyTypeOK
    <3> QED
      BY <3>3, <3>4 DEF AtWork
  <2>7. CASE (\E l \in Keys : Expire(l)) \/ Purge
    <3>1. store[k].state = "claimed" /\ UNCHANGED <<call, died>>
      <4>1. ASSUME NEW l \in Keys, Expire(l)
            PROVE  store[k].state = "claimed" /\ UNCHANGED <<call, died>>
        BY <4>1 DEF Expire, IdempotencyTypeOK, Row, histories
      <4>2. CASE Purge
        BY <4>2 DEF Purge, Purgeable, FreeRow, IdempotencyTypeOK, histories
      <4> QED
        BY <2>7, <4>1, <4>2
    <3> QED
      BY <3>1 DEF InFlightIsRunning, AtWork
  <2>8. CASE Die
    BY <2>8 DEF Die
  <2> QED
    BY <2>1, <2>2, <2>3, <2>4, <2>5, <2>6, <2>7, <2>8 DEF IdempotencyNext, Serve
<1> QED
  BY <1>1, <1>2, IdempotencyInitType, IdempotencyNextType, PTL DEF IdempotencySpec
=============================================================================
