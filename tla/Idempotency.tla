---------------------------- MODULE Idempotency ----------------------------
(***************************************************************************)
(* The Idempotency-Key of this service's own API (app/api/idempotency.py   *)
(* over app/repositories/idempotency.py): a request that carries a key is  *)
(* produced once, and a retry is answered with what the first attempt was  *)
(* answered with.  Each statement on the table is one step; the work of    *)
(* the request lies between two of them.  A request without a key is       *)
(* simply produced and leaves no trace here.                               *)
(***************************************************************************)
EXTENDS Naturals

CONSTANTS Keys,       \* values of the Idempotency-Key header
          Requests,   \* endpoint and body digest of a request
          Clients,    \* requests served at the same time
          Outages,    \* what may go wrong, see OutageKinds
          MaxCalls    \* bound: requests served in all

\* "refuse": the work raises.  "expire": answers outlive their time to live.
\* "kill": the process dies.
OutageKinds == {"refuse", "expire", "kill"}

ASSUME IdempotencyAssumption == Outages \subseteq OutageKinds /\ MaxCalls \in Nat

VARIABLES store,   \* table api_idempotency
          call,    \* what each client's request is doing
          calls,   \* requests served so far
          strayed, \* history: some request went to work without a row
          died     \* history: the process died

histories == <<strayed, died>>
idempotencyVars == <<store, call, calls, histories>>

\* An answer is told from others by the request it answers and its number.
Answers == [req: Requests, nr: 0..MaxCalls]

\* response_body is NULL while a row is "claimed".
Row == [state: {"claimed"}, req: Requests, expired: BOOLEAN]
         \cup [state: {"answered"}, req: Requests, expired: BOOLEAN, answer: Answers]
         \cup [state: {"free"}]
FreeRow == [state |-> "free"]

\* A request between two awaits, and the answer its client got.
Working == [pc: {"insert", "get", "produce", "release", "complete"}, key: Keys,
            req: Requests, nr: 0..MaxCalls]
Answered == [pc: {"produced", "replayed"}, key: Keys, answer: Answers, req: Requests]
Refused == [pc: {"idle", "refused", "reused", "in_flight"}]
IdleCall == [pc |-> "idle"]

IdempotencyTypeOK ==
  /\ store \in [Keys -> Row]
  /\ call \in [Clients -> Working \cup Answered \cup Refused]
  /\ calls \in 0..MaxCalls
  /\ strayed \in BOOLEAN /\ died \in BOOLEAN

IdempotencyInit ==
  /\ store = [k \in Keys |-> FreeRow]
  /\ call = [c \in Clients |-> IdleCall]
  /\ calls = 0
  /\ strayed = FALSE /\ died = FALSE

Busy(c) == call[c].pc \in {"insert", "get", "produce", "release", "complete"}
Proceed(c, point) == call' = [call EXCEPT ![c].pc = point]
Respond(c, answer) == call' = [call EXCEPT ![c] = answer]

-----------------------------------------------------------------------------
(* One request (with_idempotency).                                         *)

Arrive(c, k, r) ==
  /\ ~Busy(c) /\ calls < MaxCalls
  /\ Respond(c, [pc |-> "insert", key |-> k, req |-> r, nr |-> calls + 1])
  /\ calls' = calls + 1
  /\ UNCHANGED <<store, histories>>

\* Mutant of Inserts: INSERT OR REPLACE.
InsertsAnyway(k) == TRUE

\* INSERT OR IGNORE against the primary key.
Inserts(k) == store[k].state = "free"

Insert(c) ==
  LET k == call[c].key IN
  /\ call[c].pc = "insert"
  /\ \/ /\ Inserts(k)
        /\ store' = [store EXCEPT ![k] = [state |-> "claimed", req |-> call[c].req,
                                          expired |-> FALSE]]
        /\ Proceed(c, "produce")
     \/ /\ ~Inserts(k)
        /\ Proceed(c, "get")
        /\ UNCHANGED store
  /\ UNCHANGED <<calls, histories>>

\* Mutant of Matches: a key is enough.
MatchesAny(row, req) == TRUE

\* _replay compares endpoint and digest.
Matches(row, req) == row.req = req

\* The row is read back in a statement of its own.  No row is taken for an
\* insert that succeeded.
Get(c) ==
  LET row == store[call[c].key] IN
  /\ call[c].pc = "get"
  /\ \/ row.state = "free" /\ Proceed(c, "produce") /\ strayed' = TRUE
     \/ /\ row.state # "free" /\ ~Matches(row, call[c].req)
        /\ Respond(c, [pc |-> "reused"]) /\ UNCHANGED strayed
     \/ /\ row.state = "claimed" /\ Matches(row, call[c].req)
        /\ Respond(c, [pc |-> "in_flight"]) /\ UNCHANGED strayed
     \/ /\ row.state = "answered" /\ Matches(row, call[c].req)
        /\ Respond(c, [pc |-> "replayed", key |-> call[c].key, req |-> call[c].req,
                       answer |-> row.answer])
        /\ UNCHANGED strayed
  /\ UNCHANGED <<store, calls, died>>

Produce(c) ==
  /\ call[c].pc = "produce"
  /\ \/ Proceed(c, "complete")
     \/ "refuse" \in Outages /\ Proceed(c, "release")
  /\ UNCHANGED <<store, calls, histories>>

\* Mutant of Complete: the status is written and the body is not.
CompleteStatusOnly(c) ==
  LET k == call[c].key
      answer == [req |-> call[c].req, nr |-> call[c].nr] IN
  /\ call[c].pc = "complete"
  /\ store' = IF store[k].state = "free" THEN store
              ELSE [store EXCEPT ![k] = [state |-> "answered", req |-> store[k].req,
                                         expired |-> store[k].expired]]
  /\ Respond(c, [pc |-> "produced", key |-> k, req |-> call[c].req, answer |-> answer])
  /\ UNCHANGED <<calls, histories>>

\* UPDATE ... WHERE key = ?, whoever's row that is by now.
Complete(c) ==
  LET k == call[c].key
      answer == [req |-> call[c].req, nr |-> call[c].nr] IN
  /\ call[c].pc = "complete"
  /\ store' = IF store[k].state = "free" THEN store
              ELSE [store EXCEPT ![k] = [state |-> "answered", req |-> store[k].req,
                                         expired |-> store[k].expired, answer |-> answer]]
  /\ Respond(c, [pc |-> "produced", key |-> k, req |-> call[c].req, answer |-> answer])
  /\ UNCHANGED <<calls, histories>>

\* Mutant of Freed: the claim of a failed attempt is kept.
FreedNever(row) == FALSE

\* DELETE ... WHERE response_body IS NULL.
Freed(row) == row.state = "claimed"

Release(c) ==
  LET k == call[c].key IN
  /\ call[c].pc = "release"
  /\ store' = IF Freed(store[k]) THEN [store EXCEPT ![k] = FreeRow] ELSE store
  /\ Respond(c, [pc |-> "refused"])
  /\ UNCHANGED <<calls, histories>>

-----------------------------------------------------------------------------
(* Time and death.                                                         *)

Expire(k) ==
  /\ "expire" \in Outages /\ store[k].state # "free" /\ ~store[k].expired
  /\ store' = [store EXCEPT ![k].expired = TRUE]
  /\ UNCHANGED <<call, calls, histories>>

\* purge_older_than, the retention service's pass over this table.
Purgeable(row) == row.state = "answered" /\ row.expired
Purge ==
  /\ \E k \in Keys : Purgeable(store[k])
  /\ store' = [k \in Keys |-> IF Purgeable(store[k]) THEN FreeRow ELSE store[k]]
  /\ UNCHANGED <<call, calls, histories>>

Die ==
  /\ "kill" \in Outages
  /\ call' = [c \in Clients |-> IF Busy(c) THEN IdleCall ELSE call[c]]
  /\ died' = TRUE
  /\ UNCHANGED <<store, calls, strayed>>

Serve(c) == Insert(c) \/ Get(c) \/ Produce(c) \/ Complete(c) \/ Release(c)

IdempotencyNext ==
  \/ \E c \in Clients, k \in Keys, r \in Requests : Arrive(c, k, r)
  \/ \E c \in Clients : Serve(c)
  \/ \E k \in Keys : Expire(k)
  \/ Purge \/ Die

IdempotencySpec == IdempotencyInit /\ [][IdempotencyNext]_idempotencyVars

-----------------------------------------------------------------------------
(* Properties.                                                             *)

Producing(c) == call[c].pc \in {"produce", "complete"}

\* "two simultaneous retries of the same request cannot both get None", that is,
\* own the key (repositories/idempotency.py:37-40).  The code does not keep this
\* for a request that went to work without a row.
ClaimIsExclusive ==
  \A c, d \in Clients :
    Producing(c) /\ Producing(d) /\ call[c].key = call[d].key => c = d

\* While every request at work had a row of its own, a retry does not do the work
\* of its first attempt a second time (README.md:549-550), whatever is refused,
\* purged or killed.
OneProducer == ~strayed => ClaimIsExclusive

\* Under the same condition what is replayed answers the request that was made,
\* not another one under the same key.
ReplayIsOwn ==
  ~strayed => \A c \in Clients : call[c].pc = "replayed" =>
                                 call[c].answer.req = call[c].req

\* Under the same condition a stored answer stays until retention takes it: every
\* retry gets the "stored response of the first attempt" (api/idempotency.py:9).
AnswerStays ==
  [][\A k \in Keys : store[k].state = "answered" /\ ~strayed =>
       \/ store[k].expired /\ store'[k] = FreeRow
       \/ store'[k].state = "answered" /\ store'[k].answer = store[k].answer]_idempotencyVars

\* Before the first kill a key that answers "still executing" is being executed
\* (api/idempotency.py:84-87): a failed attempt leaves none behind (line 64).
InFlightIsRunning ==
  ~died => \A k \in Keys : store[k].state = "claimed" =>
    \E c \in Clients : call[c].pc \in {"produce", "complete", "release"} /\ call[c].key = k
=============================================================================
