---------------------------- MODULE SafetyPolicy ----------------------------
(***************************************************************************)
(* The safety assessment of a Telegram media message: policy.py,           *)
(* escalation.py and evidence_minimization.py of src/truepresence/safety.  *)
(* A sender posts media messages, and of each the adapter or the provider  *)
(* has one thing more against him than of the one before.  Scores and      *)
(* confidences are percents, latencies milliseconds.                       *)
(***************************************************************************)
EXTENDS Integers, FiniteSets

CONSTANTS
  Known,  \* for every feature that may get worse the values it may take
  Sure    \* what a provider may say of its confidence, or Absent

VARIABLES
  evidence,     \* TelegramSafetyFeatures of the message and the provider's signal
  assessed   \* its escalation, with no reason when there is none

safetyVars == <<evidence, assessed>>

Absent == -1

\* The adapter reports no deleted and reposted messages, and a message without media
\* raises no policy signal.
ASSUME KnownAssumption ==
  /\ DOMAIN Known = {"latency", "media", "burst", "peers", "groups", "young", "provider"}
  /\ Known.latency \subseteq Nat \cup {Absent}
  /\ Known.media \subseteq Nat /\ Known.burst \subseteq Nat
  /\ Known.peers \subseteq Nat /\ Known.groups \subseteq Nat
  /\ Known.young \subseteq BOOLEAN
  /\ Known.provider \subseteq 0..100 \cup {Absent}
  /\ Sure \subseteq 0..100 \cup {Absent}

Facts ==
  [latency : Known.latency, media : Known.media, burst : Known.burst, peers : Known.peers,
   groups : Known.groups, young : Known.young, provider : Known.provider,
   sure : Sure, referenced : BOOLEAN]

SafetyReason ==
  {"instant_media_post_after_join", "media_burst_pattern",
   "coordinated_media_distribution_cluster", "repeat_group_hopping_pattern",
   "new_account_high_risk_media_behavior"}
HighRiskBehavior ==
  {"instant_media_post_after_join", "media_burst_pattern",
   "coordinated_media_distribution_cluster"}
SafetyAction ==
  {"none", "quarantine_message", "admin_review", "restrict_sender",
   "mandatory_safety_escalation"}
SafetyLabel == {"low", "medium", "high", "critical"}

TopOf(S) == CHOOSE x \in S \cup {0} : \A y \in S \cup {0} : x >= y

\* evaluate_telegram_safety_policy
Holds(f, reason) ==
  CASE reason = "instant_media_post_after_join" -> f.latency # Absent /\ f.latency <= 5000
    [] reason = "media_burst_pattern" -> f.media >= 3 /\ f.burst >= 2
    [] reason = "coordinated_media_distribution_cluster" -> f.peers >= 2
    [] reason = "repeat_group_hopping_pattern" -> f.groups >= 3
    [] OTHER -> FALSE

PolicySignals(f) ==
  LET seen == {r \in SafetyReason : Holds(f, r)} IN
  IF f.young /\ seen \cap HighRiskBehavior # {}
  THEN seen \cup {"new_account_high_risk_media_behavior"} ELSE seen

SignalConfidence(f, reason) ==
  CASE reason = "instant_media_post_after_join" -> IF f.latency <= 1500 THEN 86 ELSE 74
    [] reason = "media_burst_pattern" -> IF f.media >= 4 THEN 88 ELSE 80
    [] reason = "coordinated_media_distribution_cluster" -> IF f.peers < 4 THEN 82 ELSE 90
    [] reason = "repeat_group_hopping_pattern" -> IF f.groups < 5 THEN 72 ELSE 82
    [] OTHER -> 86

\* _provider_assessment_confidence: what the provider says, or its risk up to 55.
ProviderConfidence(f) ==
  IF f.provider = Absent THEN 0
  ELSE IF f.sure # Absent THEN f.sure
  ELSE IF f.provider < 55 THEN f.provider ELSE 55

\* Mutant: the count of reasons is compared for equality.
RecommendedActionPair(risk, score, reasons) ==
  IF risk >= 85 \/ score >= 85 \/ (score >= 80 /\ reasons = 2)
  THEN "mandatory_safety_escalation"
  ELSE IF score >= 80 THEN "restrict_sender"
  ELSE IF score >= 75 THEN "admin_review"
  ELSE IF score >= 65 THEN "quarantine_message" ELSE "admin_review"

\* _recommended_action
RecommendedAction(risk, score, reasons) ==
  IF risk >= 85 \/ score >= 85 \/ (score >= 80 /\ reasons >= 2)
  THEN "mandatory_safety_escalation"
  ELSE IF score >= 80 THEN "restrict_sender"
  ELSE IF score >= 75 THEN "admin_review"
  ELSE IF score >= 65 THEN "quarantine_message" ELSE "admin_review"

\* risk_label_for_score
RiskLabel(score) ==
  IF score >= 85 THEN "critical" ELSE IF score >= 65 THEN "high"
  ELSE IF score >= 40 THEN "medium" ELSE "low"

Strongest(f) ==
  TopOf({SignalConfidence(f, r) : r \in PolicySignals(f)} \cup {ProviderConfidence(f)})
\* _reason_corroboration_bonus
Bonus(f, reasons) ==
  LET bonus == IF f.referenced THEN 4 * (Cardinality(reasons) - 1) ELSE 0
  IN IF bonus > 12 THEN 12 ELSE bonus

\* Mutant: the sum is not clamped.
ConfidenceUnclamped(f, reasons) == Strongest(f) + Bonus(f, reasons)

\* _assessment_confidence
Confidence(f, reasons) ==
  LET sum == Strongest(f) + Bonus(f, reasons) IN IF sum > 100 THEN 100 ELSE sum

\* evaluate_telegram_safety_escalation: a provider's high risk is the reason that a
\* new account would be.
Escalation(f) ==
  LET reasons == PolicySignals(f) \cup
        (IF f.provider >= 65 THEN {"new_account_high_risk_media_behavior"} ELSE {})
      score == TopOf({SignalConfidence(f, r) : r \in PolicySignals(f)} \cup {f.provider})
  IN IF reasons = {}
     THEN [reasons |-> {}, score |-> 0, confidence |-> 0, label |-> "low", action |-> "none"]
     ELSE [reasons |-> reasons, score |-> score, confidence |-> Confidence(f, reasons),
           label |-> RiskLabel(score),
           action |-> RecommendedAction(f.provider, score, Cardinality(reasons))]

SafetyInit == evidence \in Facts /\ assessed = Escalation(evidence)

\* A latency is the worse the shorter it is, everything else the higher.
WorseThan(field, v, w) ==
  CASE field = "latency" -> w # Absent /\ (v = Absent \/ w < v)
    [] field = "young" -> w /\ ~v
    [] OTHER -> w > v

\* The next message: the account posted sooner after it joined, or more media, or
\* beside more peers, or in more groups, or the provider has raised its risk.
Assess ==
  \E field \in DOMAIN Known : \E w \in Known[field] :
    /\ WorseThan(field, evidence[field], w)
    /\ evidence' = [evidence EXCEPT ![field] = w]
    /\ assessed' = Escalation(evidence')

SafetySpec == SafetyInit /\ [][Assess]_safetyVars

(***************************************************************************)
(* Properties                                                              *)
(***************************************************************************)
SafetyTypeOK ==
  /\ evidence \in Facts
  /\ assessed \in [reasons : SUBSET SafetyReason, score : 0..100, confidence : 0..100,
                   label : SafetyLabel, action : SafetyAction]

\* _recommended_action: whoever was to be restricted or escalated is not let off
\* because one thing more is known against him.
SevereStays ==
  [][LET was == assessed.action is == assessed'.action IN
     /\ was = "mandatory_safety_escalation" => is = was
     /\ was = "restrict_sender" => is \in {was, "mandatory_safety_escalation"}
     /\ was # "none" => is # "none"]_safetyVars

\* What the evidence card calls critical is what an administrator has to see, and
\* nothing below high is; only a provider's word moves it to act without confidence.
\* Without a reason there is no card.
LabelFitsAction ==
  /\ assessed.label = "critical" => assessed.action = "mandatory_safety_escalation"
  /\ assessed.action \in {"mandatory_safety_escalation", "restrict_sender"} =>
       /\ assessed.label \in {"critical", "high"}
       /\ assessed.confidence >= 80 \/ evidence.provider >= 80
  /\ assessed.action = "none" <=> assessed.reasons = {}

\* A recommendation is as grave as what is known, from one fact to the next and
\* against its own label.
EscalationFits == SevereStays /\ []LabelFitsAction
=============================================================================
