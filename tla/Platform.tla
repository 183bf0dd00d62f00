------------------------------ MODULE Platform ------------------------------
(***************************************************************************)
(* The generation platform behind app/clients, as app/clients/mock.py      *)
(* stands in for it and app/clients/vibe.py talks to it: it bills on       *)
(* /generate, once per idempotency key, works on the generation, and may   *)
(* give the money back when the provider fails.                            *)
(***************************************************************************)
EXTENDS Domain

CONSTANTS Prices,         \* prices the platform may quote for a step
          InitialPrice,   \* price of each step when the plan is confirmed
          InitialFunds,   \* what the account can pay: balance and daily limit
          TokenBilled,    \* steps quoted as a reserve and billed for less
          MaxPriceMoves   \* bound: how often prices may move

ASSUME PlatformAssumption ==
  /\ Prices \subseteq Nat
  /\ InitialPrice \in [Steps -> Prices]
  /\ InitialFunds \in Nat
  /\ TokenBilled \subseteq Steps
  /\ MaxPriceMoves \in Nat

VARIABLES price,   \* current price of a step
          gens,    \* the generation behind a step's idempotency key
          funds,   \* what the account can still pay
          moves    \* price moves so far

platformVars == <<price, gens, funds, moves>>

GenStates == {"none", "processing", "complete", "error"}
Generation == [state: GenStates, bill: Nat, refunded: BOOLEAN]
NoGeneration == [state |-> "none", bill |-> 0, refunded |-> FALSE]

PlatformTypeOK ==
  /\ price \in [Steps -> Prices]
  /\ gens \in [Steps -> Generation]
  /\ funds \in Int
  /\ moves \in Nat

PlatformInit ==
  /\ price = InitialPrice
  /\ gens = [s \in Steps |-> NoGeneration]
  /\ funds = InitialFunds
  /\ moves = 0

Launched(s) == gens[s].state # "none"
Decided(s) == gens[s].state \in {"complete", "error"}

\* What the step has really cost the user.
NetCost(s) == IF gens[s].refunded THEN 0 ELSE gens[s].bill

\* The terminal payload of a status call or a webhook.
Verdict(s) == [ok |-> gens[s].state = "complete",
               refunded |-> gens[s].refunded,
               cost |-> NetCost(s)]

-----------------------------------------------------------------------------
\* A quote that the account cannot cover is refused (402, or 429 on the daily
\* limit).
Refuses(s) == ~Launched(s) /\ price[s] > funds

\* What is taken for a quote: the quote itself, or at most the reserve.
Bills(s) == IF s \in TokenBilled THEN 0..price[s] ELSE {price[s]}

\* POST /generate.  A key seen before is answered again and not billed again; a
\* text is finished, well or badly, by the time it is answered.
Generate(s) ==
  \/ Launched(s) /\ UNCHANGED platformVars
  \/ /\ ~Launched(s) /\ ~Refuses(s)
     /\ \E bill \in Bills(s), state \in
          IF Kind[s] = "text" THEN GenStates \ {"none"} ELSE {"processing"} :
          /\ gens' = [gens EXCEPT ![s] = [state |-> state, bill |-> bill,
                                          refunded |-> FALSE]]
          /\ funds' = funds - bill
     /\ UNCHANGED <<price, moves>>

\* The platform finishes a generation.  When the provider fails the money
\* usually comes back by itself.
Conclude(s) ==
  /\ gens[s].state = "processing" /\ Kind[s] # "text"
  /\ \/ /\ gens' = [gens EXCEPT ![s].state = "complete"]
        /\ UNCHANGED funds
     \/ /\ gens' = [gens EXCEPT ![s].state = "error"]
        /\ UNCHANGED funds
     \/ /\ gens' = [gens EXCEPT ![s].state = "error", ![s].refunded = TRUE]
        /\ funds' = funds + gens[s].bill
  /\ UNCHANGED <<price, moves>>

\* The catalogue price of a step moves.
MovePrice(s) ==
  /\ moves < MaxPriceMoves
  /\ \E p \in Prices \ {price[s]} : price' = [price EXCEPT ![s] = p]
  /\ moves' = moves + 1
  /\ UNCHANGED <<gens, funds>>

PlatformNext == \E s \in Steps : Conclude(s) \/ MovePrice(s)
=============================================================================
