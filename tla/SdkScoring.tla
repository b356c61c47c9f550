----------------------------- MODULE SdkScoring -----------------------------
(***************************************************************************)
(* The score of a browser session: the detectors of truepresence/detectors *)
(* and scoring/model.py.  Each evaluation scores a feature packet of its   *)
(* own, whatever the last one was.  Likelihoods are parts of Whole, rounded*)
(* down; confidences, weights and ratios of the packet percents; times     *)
(* milliseconds; all of them integers, where the code has floats.          *)
(***************************************************************************)
EXTENDS Integers, Sequences, FiniteSets, Functions

CONSTANTS Typing, Challenge, Pointer, Agentic  \* what each group of features may hold

\* A feature that was not observed, and each of a group that was not.
Unseen == -1
Observed == Nat \cup {Unseen}

\* (A group of typing features that is there has a paste count: None counts as none.)
ASSUME PacketAssumption ==
  /\ Typing \in SUBSET
       [{"paste", "focus", "render", "duration", "cpm", "stddev", "corrections", "rate"} -> Observed]
  /\ Challenge \in SUBSET [{"latency", "expected"} -> Observed]
  /\ Pointer \in SUBSET [{"entropy", "hesitation", "scroll"} -> Observed]
  /\ Agentic \in SUBSET
       [{"bursts", "interval", "spread", "idle", "deltas", "submit", "exploratory",
         "directness", "retries", "repairs"} -> Observed]
  /\ {} \notin {Typing, Challenge, Pointer, Agentic}
  /\ \A t \in Typing : t.paste = Unseen => \A feature \in DOMAIN t : t[feature] = Unseen

Packets == [typing : Typing, challenge : Challenge, pointer : Pointer, agentic : Agentic]

VARIABLES
  session,  \* the packet that was evaluated last
  score     \* of that evaluation

scoringVars == <<session, score>>

Whole == 10000
Clamped(x) == IF x < 0 THEN 0 ELSE IF x > Whole THEN Whole ELSE x
Times(x, y) == (x * y) \div Whole

SeverityWeight == [low |-> 25, medium |-> 55, high |-> 85]
CategoryWeight == [input_method |-> 60, typing_cadence |-> 65, agentic_behavior |-> 80]

\* The reasons of each category.
Detectors ==
  [input_method |-> {"paste_or_instant_input"},
   typing_cadence |-> {"uniform_typing_cadence", "zero_correction_pattern"},
   agentic_behavior |->
     {"implausible_read_response_time", "model_thinking_cadence", "burst_pause_action_loop",
      "large_instant_input_delta", "low_exploratory_noise", "structured_retry_pattern",
      "implausible_task_efficiency"}]

Sign(reason, category, severity, confidence) ==
  [reason |-> reason, category |-> category, severity |-> severity,
   strength |-> SeverityWeight[severity] * confidence]
SignIf(holds, reason, category, severity, confidence) ==
  IF holds THEN {Sign(reason, category, severity, confidence)} ELSE {}

(***************************************************************************)
(* The detectors.  What is not observed is at most nothing and at least    *)
(* nothing.                                                                *)
(***************************************************************************)
AtMost(x, limit) == x \in 0..limit
AtLeast(x, limit) == x >= limit
When(holds, points) == IF holds THEN points ELSE 0

PasteOrInstantInput(f) ==
  LET t == f.typing
      triggers == When(t.paste > 0, 1) + When(AtMost(t.focus, 50), 1)
                    + When(AtMost(t.render, 100), 1) + When(AtMost(t.duration, 100), 1)
                    + When(AtLeast(t.cpm, 700), 1)
      signal(severity, confidence) ==
        {Sign("paste_or_instant_input", "input_method", severity, confidence)}
  IN CASE triggers = 0 -> {}
       [] triggers >= 3 -> signal("high", 82)
       [] triggers = 1 /\ ~ t.paste > 0 -> signal("low", 45)
       [] OTHER -> signal("medium", 62)

UniformTypingCadence(f) ==
  LET t == f.typing
      signal(severity, confidence) ==
        {Sign("uniform_typing_cadence", "typing_cadence", severity, confidence)}
  IN IF AtMost(t.stddev, 1) THEN signal("high", 90)
     ELSE IF AtMost(t.stddev, 8) /\ AtLeast(t.cpm, 120) THEN signal("medium", 76)
     ELSE IF AtMost(t.stddev, 15) /\ AtLeast(t.cpm, 260) THEN signal("medium", 66)
     ELSE {}

ZeroCorrectionPattern(f) ==
  LET t == f.typing
      machine == AtLeast(t.cpm, 320) /\ AtMost(t.stddev, 15)
  IN SignIf(t.corrections = 0 \/ t.rate = 0, "zero_correction_pattern", "typing_cadence",
            IF machine THEN "medium" ELSE "low", IF machine THEN 68 ELSE 35)

\* A share of the time the prompt takes to read, 350 ms at least; in hundredths of a ms.
LeastTime(expected, percent) ==
  IF percent * expected > 35000 THEN percent * expected ELSE 35000

ImplausibleReadResponseTime(f) ==
  LET latency == f.challenge.latency
      expected == f.challenge.expected
      floor == LeastTime(expected, 55)
      confidence == 55 + ((floor - 100 * latency) * 45) \div floor
  IN SignIf(latency # Unseen /\ expected > 0 /\ 100 * latency < floor,
            "implausible_read_response_time", "agentic_behavior",
            IF latency <= 300 \/ 10000 * latency <= 35 * floor THEN "high" ELSE "medium",
            IF confidence > 92 THEN 92 ELSE confidence)

ModelThinkingCadence(f) ==
  LET a == f.agentic
      strict == a.bursts >= 4 /\ a.interval >= 2200 /\ AtMost(a.spread, 180)
      sure == IF strict THEN 82 ELSE 68
  IN SignIf(a.bursts >= 3 /\ a.interval \in 1200..8000 /\ AtMost(a.spread, 450),
            "model_thinking_cadence", "agentic_behavior",
            IF strict THEN "high" ELSE "medium",
            IF AtLeast(a.idle, 2000) THEN sure + 5 ELSE sure)

BurstPauseActionLoop(f) ==
  LET a == f.agentic IN
  SignIf(a.bursts >= 3 /\ AtLeast(a.interval, 900), "burst_pause_action_loop", "agentic_behavior",
         IF a.bursts < 5 THEN "medium" ELSE "high",
         IF a.bursts > 5 THEN 86 ELSE 56 + 6 * a.bursts)

LargeInstantInputDelta(f) ==
  LET a == f.agentic
      large == a.deltas >= 2 \/ AtMost(a.submit, 250)
  IN SignIf(a.deltas > 0, "large_instant_input_delta", "agentic_behavior",
            IF large THEN "high" ELSE "medium", IF large THEN 82 ELSE 66)

LowExploratoryNoise(f) ==
  LET a == f.agentic IN
  SignIf(AtMost(a.exploratory, 1) /\ AtLeast(a.directness, 85),
         "low_exploratory_noise", "agentic_behavior",
         IF a.directness < 95 THEN "medium" ELSE "high", IF a.directness < 95 THEN 62 ELSE 74)

StructuredRetryPattern(f) ==
  LET a == f.agentic
      often == a.retries >= 3 \/ a.repairs >= 3
  IN SignIf(a.retries >= 2 \/ a.repairs >= 2, "structured_retry_pattern", "agentic_behavior",
            IF often THEN "high" ELSE "medium", IF often THEN 80 ELSE 66)

ImplausibleTaskEfficiency(f) ==
  LET a == f.agentic
      utmost == AtLeast(a.directness, 96) /\ AtMost(a.idle, 120) /\ AtMost(a.submit, 300)
  IN SignIf(/\ AtLeast(a.directness, 90) /\ AtMost(a.idle, 250) /\ AtMost(a.submit, 450)
            /\ AtMost(a.exploratory, 1),
            "implausible_task_efficiency", "agentic_behavior",
            IF utmost THEN "high" ELSE "medium", IF utmost THEN 82 ELSE 68)

\* What each detector's contribution_target is.
AutomationSignals(f) ==
  PasteOrInstantInput(f) \cup UniformTypingCadence(f) \cup ZeroCorrectionPattern(f)
AgenticSignals(f) ==
  ImplausibleReadResponseTime(f) \cup ModelThinkingCadence(f) \cup BurstPauseActionLoop(f)
    \cup LargeInstantInputDelta(f) \cup LowExploratoryNoise(f) \cup StructuredRetryPattern(f)
    \cup ImplausibleTaskEfficiency(f)

(***************************************************************************)
(* The score.                                                              *)
(***************************************************************************)
HumanFeatureSupport(f) ==
  LET t == f.typing
      p == f.pointer
      points ==
        When(t.stddev \in 25..220 /\ t.cpm \in 80..420, 900)
        + When(t.corrections > 0 \/ t.rate > 0, 500)
        + When(t.paste = 0, 300)
        + When(AtLeast(t.focus, 150), 300)
        + When(/\ f.challenge.expected # Unseen
               /\ 100 * f.challenge.latency >= LeastTime(f.challenge.expected, 75), 700)
        + When(AtLeast(p.entropy, 35), 400)
        + When(AtLeast(p.hesitation, 80), 300)
        + When(AtLeast(p.scroll, 35), 300)
  IN IF points > 3000 THEN 3000 ELSE points

ProductOfComplements(strengths) ==
  Whole - FoldFunction(LAMBDA s, rest : Times(rest, Whole - Clamped(s)), Whole, strengths)

CategoriesOf(S) == {s.category : s \in S}

\* The strength of a detector that is silent leaves a product as it is.
StrengthOf(S, reason) ==
  IF \E s \in S : s.reason = reason THEN (CHOOSE s \in S : s.reason = reason).strength ELSE 0

AggregateRisk(S) ==
  ProductOfComplements([c \in DOMAIN Detectors |->
    (CategoryWeight[c] * ProductOfComplements([reason \in Detectors[c] |-> StrengthOf(S, reason)]))
      \div 100])

Corroboration(auto, agentic) ==
  LET n == Cardinality(CategoriesOf(auto)) + Cardinality(CategoriesOf(agentic))
  IN IF n <= 1 THEN 0 ELSE IF n >= 4 THEN 1500 ELSE 500 * (n - 1)

CombinedRisk(auto, agentic) ==
  Clamped(ProductOfComplements([k \in {1, 2} |-> AggregateRisk(IF k = 1 THEN auto ELSE agentic)])
            + Corroboration(auto, agentic))

EvidenceSufficiency(categories, signals) ==
  LET part(n, of) == IF n >= of THEN Whole ELSE (n * Whole) \div of IN
  IF signals = 0 THEN 2000
  ELSE 2000 + Times(8000, (part(categories, 3) + part(signals, 4)) \div 2)

RecommendedOutcome(risk, confidence) ==
  CASE risk < 3000 -> IF confidence >= 5000 THEN "allow" ELSE "observe"
    [] risk \in 3000..4999 -> IF confidence < 4500 THEN "observe" ELSE "soft_challenge"
    [] risk \in 5000..6999 -> IF confidence < 4000 THEN "soft_challenge" ELSE "step_up_auth"
    [] OTHER -> IF confidence < 4500 THEN "step_up_auth" ELSE "manual_review"

\* Mutant: all risk is put down to an agent.
AgenticLikelihoodOfAll(f) ==
  Clamped(Times(CombinedRisk(AutomationSignals(f), AgenticSignals(f)),
                Whole - Times(3000, HumanFeatureSupport(f))))

AgenticLikelihood(f) ==
  Clamped(Times(AggregateRisk(AgenticSignals(f)), Whole - Times(3000, HumanFeatureSupport(f))))

\* score_interaction.  No detector speaks for a human, so what does is at most 0.30
\* and never contradicts a risk.
ScoreInteraction(f) ==
  LET auto == AutomationSignals(f)
      agentic == AgenticSignals(f)
      human == HumanFeatureSupport(f)
      risk == Times(CombinedRisk(auto, agentic), Whole - Times(6000, human))
      confidence ==
        Times(EvidenceSufficiency(Cardinality(CategoriesOf(auto)) + Cardinality(CategoriesOf(agentic)),
                                  Cardinality(auto) + Cardinality(agentic)),
              5000 + risk \div 2)
  IN [risk |-> risk, confidence |-> confidence,
      presence |-> Clamped(Times(5800, Whole - risk) + Times(4000, human)),
      automation |-> Times(AggregateRisk(auto), Whole - Times(6000, human)),
      agentic |-> AgenticLikelihood(f),
      action |-> RecommendedOutcome(risk, confidence)]

ScoringInit == session \in Packets /\ score = ScoreInteraction(session)

\* A packet arrives, of this session or of another.
Evaluated == session' \in Packets /\ score' = ScoreInteraction(session')

ScoringSpec == ScoringInit /\ [][Evaluated]_scoringVars

(***************************************************************************)
(* Properties                                                              *)
(***************************************************************************)
Ladder == [allow |-> 0, observe |-> 0, soft_challenge |-> 1, step_up_auth |-> 2,
           manual_review |-> 3]

SignalsOf(f) == AutomationSignals(f) \cup AgenticSignals(f)

\* Every detector says of g what it says of f, or worse, and no more speaks for a human.
MoreAgainst(f, g) ==
  /\ \A category \in DOMAIN Detectors : \A reason \in Detectors[category] :
       StrengthOf(SignalsOf(f), reason) <= StrengthOf(SignalsOf(g), reason)
  /\ HumanFeatureSupport(g) <= HumanFeatureSupport(f)

\* Every part of a score is a likelihood.
ScoringTypeOK ==
  /\ session \in Packets
  /\ \A part \in DOMAIN score \ {"action"} : score[part] \in 0..Whole
  /\ score.action \in DOMAIN Ladder

\* _recommended_action looks at risk and confidence at once, and both at how many
\* signals of how many categories there are: a session that is let off with less than
\* another never has more against it.
NeverLighter ==
  [][Ladder[score'.action] < Ladder[score.action] => ~MoreAgainst(session, session')]_scoringVars

\* model.py, point 10: two sessions of which the agentic detectors say the same, and
\* for which as much speaks, have one agentic likelihood, however automated each is.
AgenticIsItsOwn ==
  [][score'.agentic # score.agentic =>
       \/ AgenticSignals(session') # AgenticSignals(session)
       \/ HumanFeatureSupport(session') # HumanFeatureSupport(session)]_scoringVars

\* TRUEPRESENCE_SCORING_MODEL.md, "Low evidence caps confidence even if one signal appears
\* suspicious": one signal, however strong, asks for no more than a soft challenge.
OneSignalIsNotEnough == Ladder[score.action] > 1 => Cardinality(SignalsOf(session)) > 1

\* What every score promises, alone and beside that of any other session.
ScoresHold == NeverLighter /\ AgenticIsItsOwn /\ []OneSignalIsNotEnough
=============================================================================
