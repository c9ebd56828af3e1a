-------------------------- MODULE LimitClassifier --------------------------
(***************************************************************************)
(* What a failed request or command means: the runtime failure it becomes  *)
(* (failure-mapper.ts of omnigent-transport, over the errors of            *)
(* http-client.ts) and the limit that its text, status and headers tell of *)
(* (rules.ts and classifier.ts of the rate-limit catalog, classify-limit). *)
(*                                                                         *)
(* A text is the set of the telling phrases in it.  A signal is            *)
(*   [status, says, retryAfter, resetsAt, resetHeader,                     *)
(*    provider, harness, profile, session, task]:                          *)
(* retryAfter is the header, "valid", "invalid" or Nothing; resetsAt is a  *)
(* time the text names, resetHeader one that a header names.  Confidence,  *)
(* notes and excerpts decide nothing and are left out.                     *)
(***************************************************************************)
EXTENDS Integers, SequencesExt

CONSTANT Nothing    \* an optional field that is absent

(***************************************************************************)
(* The phrases each family of patterns of the catalog finds.               *)
(***************************************************************************)
Policy       == {"policy"}
Auth         == {"authentication"}
Billing      == {"billing"}
Monthly      == {"monthly", "insufficient_quota"}
FixedWindow  == {"quota exceeded", "usage cap"}
Token        == {"tokens per minute"}
Concurrency  == {"concurrency"}
Acceleration == {"acceleration"}
Overload     == {"overloaded"}
Burst        == {"too many requests", "retry after"}
LimitHint    == {"quota", "quota exceeded", "too many requests", "retry after", "concurrency",
                 "overloaded"}
NonLimit     == {"validation"}

\* What mapHttpFailure and mapCliFailure look for, as parts of words.
CapNamed  == {"usage cap", "quota", "quota exceeded", "insufficient_quota", "monthly"}
CliCapped == {"billing", "quota", "quota exceeded", "insufficient_quota"}
AuthNamed == {"billing", "authentication"}

Says(s, phrases) == s.says \cap phrases # {}

(* sanitizeSignal: a header, even one that cannot be read, goes before the *)
(* text for the wait, and the text before a header for the reset.           *)
HeaderWaits(s) == s.retryAfter = "valid"
TextWaits(s)   == "retry after" \in s.says
Waits(s) == IF s.retryAfter # Nothing THEN HeaderWaits(s) ELSE TextWaits(s)
ResetOf(s) == IF s.resetsAt # Nothing THEN s.resetsAt ELSE s.resetHeader
Hinted(s) == Says(s, LimitHint) \/ Waits(s) \/ ResetOf(s) # Nothing

(***************************************************************************)
(* matchBaseClassification: the first rule that applies.                   *)
(***************************************************************************)
Rule(type, scope, applies) == [type |-> type, scope |-> scope, applies |-> applies]
Denied(s) ==
    \/ s.status \in {401, 402}
    \/ s.status \in {403, Nothing} /\ Says(s, Auth \cup Billing)
Capped(s) ==
    \/ Says(s, FixedWindow) \/ s.resetsAt # Nothing
    \/ ResetOf(s) # Nothing /\ Says(s, CapNamed \ {"monthly"})

Rules(s) ==
    <<Rule("abuse_or_policy_block", "identity_profile", Says(s, Policy)),
      Rule("auth_or_billing_problem", "identity_profile", Denied(s)),
      Rule("overload_or_transient", "provider_family",
           s.status \in {503, 529} \/ Says(s, Overload)),
      Rule("concurrency_limit", "session", Says(s, Concurrency)),
      Rule("acceleration_limit", "provider_family", Says(s, Acceleration)),
      Rule("monthly_spend_or_quota_cap", "organization", Says(s, Monthly)),
      Rule("fixed_window_usage_cap", "project", Capped(s)),
      Rule("token_rate_limit", "model", Says(s, Token)),
      Rule("burst_rate_limit", "provider_family",
           Says(s, Burst) \/ (s.status = 429 /\ Waits(s))),
      Rule("none", "unknown", s.status = 429 /\ Says(s, NonLimit) /\ ~Hinted(s)),
      Rule("unknown_limit", "unknown", s.status = 429 \/ Hinted(s)),
      Rule("none", "unknown", TRUE)>>

FirstMatch(rules) == rules[SelectInSeq(rules, LAMBDA r : r.applies)]

\* classifyLimitSignal, and runClassifyLimitCommand's addition of who it is about.
Classified(s) ==
    LET match == FirstMatch(Rules(s))
    IN [type |-> match.type, provider |-> s.provider, harness |-> s.harness,
        profile |-> s.profile, session |-> s.session \/ match.scope = "session",
        task |-> s.task, resetAt |-> ResetOf(s)]

(***************************************************************************)
(* Failures.  An error is [via, signal]: an answer that is not a success,   *)
(* one that is no JSON, a request that got none, a command that failed, a   *)
(* process that died or a capability that is not there.                     *)
(***************************************************************************)
Failure(category, retryable) == [category |-> category, retryable |-> retryable]

\* mapDisconnectedBackend, mapProcessFailure, mapCapabilityGap
Disconnected(surface) ==
    Failure(IF surface = "stream" THEN "transport" ELSE "backend_unavailable", TRUE)
ProcessFailure == Failure("backend_unavailable", TRUE)
CapabilityGap == Failure("backend_capability_missing", FALSE)
Malformed == Failure("malformed_response", FALSE)

\* mapHttpFailure
HttpFailure(s) ==
    CASE s.status = 429 -> Failure("rate_limit", ~Says(s, CapNamed))
      [] s.status = 403 /\ Says(s, AuthNamed) ->
             Failure(IF "billing" \in s.says THEN "billing" ELSE "auth", FALSE)
      [] s.status = 403 /\ ~Says(s, AuthNamed) -> Failure("policy_denied", FALSE)
      [] s.status = 400 -> Failure("validation", FALSE)
      [] s.status = 422 -> Failure("protocol", FALSE)
      [] s.status >= 500 -> Disconnected("http")
      [] OTHER -> Failure("transport", FALSE)

\* mapCliFailure
CliFailure(s) == Failure(IF Says(s, CliCapped) THEN "billing" ELSE "backend_unavailable", FALSE)

FailureOf(error) ==
    CASE error.via = "http"       -> HttpFailure(error.signal)
      [] error.via = "cli"        -> CliFailure(error.signal)
      [] error.via \in {"stream", "network"} -> Disconnected(error.via)
      [] error.via = "process"    -> ProcessFailure
      [] error.via = "malformed"  -> Malformed
      [] error.via = "capability" -> CapabilityGap

(* The classification that comes with the failure, if any: it names no     *)
(* profile, and no provider that a profile has.                            *)
LimitOf(error) ==
    LET s == error.signal
        limit(type) == [type |-> type, provider |-> Nothing, harness |-> Nothing,
                        profile |-> Nothing, session |-> FALSE, task |-> Nothing,
                        resetAt |-> Nothing]
    IN CASE error.via = "http" /\ s.status = 429 ->
                limit(IF Says(s, CapNamed) THEN "fixed_window_usage_cap" ELSE "burst_rate_limit")
         [] error.via = "http" /\ s.status = 403 ->
                limit(IF Says(s, AuthNamed) THEN "auth_or_billing_problem"
                      ELSE "abuse_or_policy_block")
         [] error.via = "cli" /\ Says(s, CliCapped) -> limit("auth_or_billing_problem")
         [] OTHER -> Nothing
=============================================================================
