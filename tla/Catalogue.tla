----------------------------- MODULE Catalogue -----------------------------
(***************************************************************************)
(* What the planner reads and computes before it chooses anything: the     *)
(* entries of GET /capabilities and their price bounds                     *)
(* (app/domain/capabilities.py), the policy (app/domain/policy.py), the    *)
(* brief (app/domain/brief.py) and the parameters a request to a model is  *)
(* sent with (app/services/planner.py).  Amounts, seconds and prompt       *)
(* lengths are whole numbers of small units.                               *)
(***************************************************************************)
EXTENDS Integers, Sequences

CONSTANTS Chunk,        \* characters billed together, 1000 in the code
          MaxSeconds    \* bound: the longest duration a catalogue lists

ASSUME CatalogueAssumption == Chunk \in Nat \ {0} /\ MaxSeconds \in Nat \ {0}

\* The formats, numbered by DEFAULT_POLICY["format_priority"]: a lower number
\* claims the budget first.
Formats == 1..5
Text == 1
Voice == 3
Video == 4

Strategies == {"cheapest", "balanced", "quality"}

\* What a model may require and not every brief has: an image link, the page of
\* the product, or something this agent never supplies.
Inputs == {"reference", "landing", "asset"}

NoPrice == -1

\* An entry of the catalogue.  Zero stands for a field that is not there (price
\* has NoPrice).  "worst" is max(tier_prices), "timed" says that duration is a
\* parameter of the model, durations are its enum and lo..hi its limits.duration and
\* excluded are the policy's; "reserves" are the amounts the platform may hold
\* for a token-billed request, which the catalogue does not tell.
ModelSpec ==
  [price: Nat \cup {NoPrice}, perSecond: Nat, worst: Nat, reserves: SUBSET Nat,
   timed: BOOLEAN, durations: SUBSET (1..MaxSeconds), lo: 0..MaxSeconds, hi: 0..MaxSeconds,
   promptMax: Nat, longMax: Nat, needs: SUBSET Inputs, tier: Nat, excluded: BOOLEAN]

\* The brief: what is wanted, and the parts of it that decide which models can
\* serve it and at what price.  script: the user wrote the voiceover themselves.
BriefOf(urls) ==
  [formats: (SUBSET Formats) \ {{}}, strategy: Strategies, seconds: 1..30,
   prompt: [Formats -> Nat \ {0}], script: BOOLEAN, refs: SUBSET urls, landing: BOOLEAN]

Least(S) == CHOOSE n \in S : \A m \in S : n <= m
Greatest(S) == CHOOSE n \in S : \A m \in S : n >= m
Larger(m, n) == IF m >= n THEN m ELSE n
Clamp(n, lo, hi) == Larger(lo, IF n <= hi THEN n ELSE hi)

-----------------------------------------------------------------------------
(* What is sent to a model.                                                *)

\* ModelSpec.duration_bounds; hi = 0 when there are none.
DurationBounds(spec) ==
  IF spec.durations # {}
  THEN [lo |-> Least(spec.durations), hi |-> Greatest(spec.durations)]
  ELSE [lo |-> spec.lo, hi |-> spec.hi]

\* The longest of the allowed durations that is not longer, or else the shortest.
Nearest(S, n) ==
  LET fitting == {d \in S : d <= n} IN
  IF fitting # {} THEN Greatest(fitting) ELSE Least(S)

\* _coerce for "duration"; 0 when the parameter is not sent.  Only video is given one.
SentSeconds(spec, f, brief) ==
  IF ~spec.timed \/ f # Video THEN 0
  ELSE IF spec.durations # {} THEN Nearest(spec.durations, brief.seconds)
  ELSE IF spec.hi # 0 THEN Clamp(brief.seconds, spec.lo, spec.hi) ELSE brief.seconds

\* ModelSpec.effective_prompt_max; 0 when there is no limit.
EffectivePromptMax(spec) == Larger(spec.promptMax, spec.longMax)

Overlong(spec, f, brief) ==
  EffectivePromptMax(spec) # 0 /\ brief.prompt[f] > EffectivePromptMax(spec)

\* _build_params cuts a prompt down to the limit, but not the user's own script.
SentPrompt(spec, f, brief) ==
  IF Overlong(spec, f, brief) THEN EffectivePromptMax(spec) ELSE brief.prompt[f]
CutsScript(spec, f, brief) == f = Voice /\ brief.script /\ Overlong(spec, f, brief)

\* _available_params, beyond what the policy always supplies.
Available(brief) ==
  (IF brief.refs # {} THEN {"reference"} ELSE {})
    \cup (IF brief.landing THEN {"landing"} ELSE {})

\* Whether _analyse keeps the model: not excluded, nothing required missing, and
\* the script of the user fits.
Compatible(spec, f, brief) ==
  ~spec.excluded /\ spec.needs \subseteq Available(brief) /\ ~CutsScript(spec, f, brief)

-----------------------------------------------------------------------------
(* What it will cost.                                                      *)

Chunks(length) == Larger(1, (length + Chunk - 1) \div Chunk)

\* Mutant of Upper: a tiered model is taken at its default price, a script at one chunk.
UpperAtDefault(spec, f, brief) ==
  IF spec.perSecond # 0
  THEN spec.perSecond * Larger(1, SentSeconds(spec, f, brief))
  ELSE IF spec.price = NoPrice THEN spec.worst ELSE spec.price

\* price_bounds(...).upper, or NoPrice when the catalogue cannot tell: token-billed
\* models, and models without any published price.
Upper(spec, f, brief) ==
  LET bounds == IF DurationBounds(spec).hi # 0 THEN DurationBounds(spec)
                ELSE [lo |-> 3, hi |-> 30]
      seconds == SentSeconds(spec, f, brief)
      billed == IF seconds = 0 THEN bounds.hi ELSE Clamp(seconds, bounds.lo, bounds.hi) IN
  IF spec.perSecond # 0 THEN billed * spec.perSecond
  ELSE IF spec.worst # 0 THEN Larger(spec.price, spec.worst)
  ELSE IF spec.price = NoPrice THEN NoPrice
  ELSE IF f = Voice THEN spec.price * Chunks(SentPrompt(spec, f, brief))
  ELSE spec.price

\* What the platform may ask for the request as it is sent: the seconds and the
\* characters in it, one of the published variants, or a reserve.
Bills(spec, f, brief) ==
  LET bounds == IF DurationBounds(spec).hi # 0 THEN DurationBounds(spec)
                ELSE [lo |-> 3, hi |-> 30]
      seconds == SentSeconds(spec, f, brief) IN
  IF spec.perSecond # 0
  THEN IF seconds # 0 THEN {seconds * spec.perSecond}
       ELSE {bounds.lo * spec.perSecond, bounds.hi * spec.perSecond}
  ELSE IF spec.worst # 0 THEN {spec.price, spec.worst} \ {NoPrice}
  ELSE IF spec.price = NoPrice THEN spec.reserves
  ELSE IF f = Voice THEN {spec.price * Chunks(SentPrompt(spec, f, brief))}
  ELSE {spec.price}
=============================================================================
