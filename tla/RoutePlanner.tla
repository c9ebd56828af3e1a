---------------------------- MODULE RoutePlanner ----------------------------
(***************************************************************************)
(* What the coordinator computes without waiting for anything: which       *)
(* identity profiles can take work (identity-pool.ts, cooldowns.ts,        *)
(* adaptive-concurrency.ts), where a task goes (portability.ts,            *)
(* route-planner.ts) and what a failed turn calls for (retry-guardrails.ts *)
(* of the coordinator and of the rate-limit catalog, failure-policy.ts).   *)
(* Reason texts and scores nothing decides on are left out.                *)
(***************************************************************************)
EXTENDS LimitClassifier, FiniteSets

CONSTANT
    Profiles    \* identity profiles: [id, provider, harness, maxTurns, maxSessions, rank,
                \* familyCooldown, ownCooldown]; rank is the order of their names
MaybeTime == Nat \cup {Nothing}
ASSUME ProfilesAssumption ==
    /\ Nothing \notin Nat
    /\ IsFiniteSet(Profiles)
    /\ \A p \in Profiles :
         /\ {p.maxTurns, p.maxSessions, p.rank} \subseteq Nat /\ p.id # Nothing
         /\ {p.familyCooldown.resetAt, p.ownCooldown.resetAt} \subseteq MaybeTime
    /\ \A p, q \in Profiles : p # q => p.id # q.id /\ p.rank # q.rank

(***************************************************************************)
(* Limits (routing-action.ts)                                              *)
(***************************************************************************)
Transient == {"burst_rate_limit", "token_rate_limit", "concurrency_limit",
              "acceleration_limit", "overload_or_transient"}
ResetBound == {"fixed_window_usage_cap", "monthly_spend_or_quota_cap", "unknown_limit"}
HardStop == ResetBound \cup {"auth_or_billing_problem", "abuse_or_policy_block"}

RoutingAction(type) ==
    [reduceConcurrency     |-> type \in Transient,
     retrySameSession      |-> type \in Transient,
     routeNewWorkElsewhere |-> type \notin {"none", "concurrency_limit", "unknown_limit"},
     requireManualReview   |-> type \in HardStop \ {"fixed_window_usage_cap"},
     \* an account switch within the provider: after the user's consent, or never
     switchWithConsent     |-> type \in ResetBound]

(***************************************************************************)
(* A cooldown is [active, reason, resetAt]; a classification is [type,     *)
(* provider, harness, profile, session, task, resetAt], where session      *)
(* tells that it is about one session only.                                *)
(***************************************************************************)
NoCooldown == [active |-> FALSE, reason |-> Nothing, resetAt |-> Nothing]

Expired(reason, resetAt, now) ==
    reason \in ResetBound /\ resetAt # Nothing /\ resetAt <= now

Active(c, now) == c.active /\ ~Expired(c.reason, c.resetAt, now)

AppliesTo(c, p) ==
    /\ c.provider = p.provider
    /\ c.harness = p.harness
    /\ c.profile \in {Nothing, p.id}
    /\ ~c.session

\* What the classification still says of p at a moment, if anything.
Effective(c, p, now) ==
    IF c = Nothing \/ ~AppliesTo(c, p) \/ Expired(c.type, c.resetAt, now)
    THEN Nothing ELSE c

\* The newest one that applies to p, expired or not, among those of a task.
NewestFor(classes, p, task) ==
    LET found == {i \in DOMAIN classes : /\ classes[i].task \in {Nothing, task}
                                         /\ AppliesTo(classes[i], p)}
    IN IF found = {} THEN Nothing ELSE classes[Max(found)]

(***************************************************************************)
(* The identity pool                                                       *)
(***************************************************************************)
Smaller(a, b) == IF a < b THEN a ELSE b

TargetTurns(p, class) ==
    IF class = Nothing THEN p.maxTurns
    ELSE IF class.type \in HardStop THEN 0
    ELSE IF RoutingAction(class.type).reduceConcurrency /\ p.maxTurns > 1 THEN p.maxTurns - 1
    ELSE p.maxTurns

Slots(p, status, class) ==
    LET free == TargetTurns(p, class) - Smaller(status.turns, p.maxTurns)
    IN IF free > 0 THEN free ELSE 0

\* A snapshot is what a call has read: [statuses, cooldowns, classes].
FamilyCooled(p, read, now) ==
    Active(read.cooldowns[p.provider], now) \/ Active(p.familyCooldown, now)
Cooled(p, read, now) ==
    \/ FamilyCooled(p, read, now)
    \/ Active(read.statuses[p].cooldown, now) \/ Active(p.ownCooldown, now)

Candidate(p, read, task, now) ==
    LET status == read.statuses[p]
        class  == Effective(NewestFor(read.classes, p, task), p, now)
        slots  == Slots(p, status, class)
    IN [profile |-> p, slots |-> slots,
        familyCooled |-> FamilyCooled(p, read, now), cooled |-> Cooled(p, read, now),
        switchWithConsent |-> class # Nothing /\ RoutingAction(class.type).switchWithConsent,
        available |-> /\ status.status # "blocked"
                      /\ ~Cooled(p, read, now)
                      /\ status.sessions < p.maxSessions
                      /\ slots > 0]

\* The free ones first, then by the share of turns that is free, then by name.
\* Where no turn is allowed, no slot is free, and the share is none.
Whole(c) == IF c.profile.maxTurns = 0 THEN 1 ELSE c.profile.maxTurns
Better(a, b) ==
    LET left == a.slots * Whole(b)
        right == b.slots * Whole(a)
    IN IF a.available # b.available THEN a.available
       ELSE IF left # right THEN left > right
       ELSE a.profile.rank < b.profile.rank

Pool(read, task, now) == {Candidate(p, read, task, now) : p \in Profiles}
Best(candidates) == CHOOSE c \in candidates : \A d \in candidates \ {c} : Better(c, d)

(***************************************************************************)
(* Where a task goes.  A request is [preferred, confirmed, ...] with the   *)
(* six facts of portability.ts; preferred is [provider, harness, profile]. *)
(***************************************************************************)
Score(r) ==   \* in hundredths
    50 + (IF r.continuation THEN -35 ELSE 15) + (IF r.handoff THEN 10 ELSE -10)
       + (IF r.worktree THEN 15 ELSE -5) - (IF r.rawHistory THEN 15 ELSE 0)
       - (IF r.filesystem THEN 20 ELSE 0)
Migrates(r) == Score(r) >= 75 /\ r.mayMigrate

Preferable(pool, wish) ==
    {c \in pool : /\ wish.provider \in {Nothing, c.profile.provider}
                  /\ wish.harness \in {Nothing, c.profile.harness}
                  /\ wish.profile \in {Nothing, c.profile.id}}

OtherAccount(c, preferred) ==
    c.profile.provider = preferred.profile.provider /\ c.profile.id # preferred.profile.id

\* As SwitchAllowed, with the limit's rule taken for the consent.
SwitchAllowedUnasked(c, preferred, class, confirmed) ==
    OtherAccount(c, preferred) =>
        IF class # Nothing THEN RoutingAction(class.type).switchWithConsent
                           ELSE c.switchWithConsent
SwitchAllowed(c, preferred, class, confirmed) ==
    OtherAccount(c, preferred) =>
        /\ confirmed
        /\ IF class # Nothing THEN RoutingAction(class.type).switchWithConsent
                              ELSE c.switchWithConsent

\* Other providers, or other accounts when there are none.
Fallbacks(pool, preferred, class, r) ==
    LET fit == {c \in pool : c.available /\ SwitchAllowed(c, preferred, class, r.confirmed)}
        elsewhere == {c \in fit : ~OtherAccount(c, preferred)}
    IN IF Migrates(r) /\ class # Nothing /\ RoutingAction(class.type).routeNewWorkElsewhere
       THEN IF elsewhere # {} THEN elsewhere ELSE fit
       ELSE {}

(***************************************************************************)
(* A lease that was not had.  An arbitration is [status, mode, lease].     *)
(***************************************************************************)
\* As LeaseBlocks, with a backend out of reach taken for a grant.
LeaseBlocksKnown(arbitration) == arbitration.status = "blocked_hard_conflict"
LeaseBlocks(arbitration) ==
    \/ arbitration.status = "blocked_hard_conflict"
    \/ arbitration.status = "coordination_unavailable" /\ arbitration.mode = "hard"

LaunchGate(c, preferred, arbitration, confirmed) ==
    LET unconsented == OtherAccount(c, preferred) /\ c.switchWithConsent /\ ~confirmed IN
    CASE LeaseBlocks(arbitration)   -> "blocked"
      [] ~LeaseBlocks(arbitration) /\ unconsented -> "manual_confirmation_required"
      [] ~LeaseBlocks(arbitration) /\ ~unconsented ->
           IF c.available THEN "allowed" ELSE IF c.cooled THEN "wait_for_reset" ELSE "blocked"

\* Why the task goes there: class is what the limits still say of the preferred profile.
RouteReason(c, preferred, class, wish) ==
    LET type == IF class = Nothing THEN Nothing ELSE class.type
        moved == c.profile # preferred.profile IN
    CASE wish.profile # Nothing /\ ~moved -> "explicit_override"
      [] OTHER ->
         IF type \in {"fixed_window_usage_cap", "monthly_spend_or_quota_cap"} THEN "usage_cap"
         ELSE IF c.familyCooled THEN "provider_cooldown"
         ELSE IF type \in {"overload_or_transient", "acceleration_limit", "unknown_limit"}
              THEN "transient_failure"
         ELSE IF moved THEN "load_balance" ELSE "capability_fit"

(***************************************************************************)
(* The plan for a request over what was read; no profile fits the wish:    *)
(* Nothing, and the call throws.                                           *)
(***************************************************************************)
Plan(read, r, now, arbitration) ==
    LET pool == Pool(read, r.task, now)
        wished == Preferable(pool, r.preferred)
    IN IF wished = {} THEN Nothing
       ELSE LET preferred == Best(wished)
                class == Effective(NewestFor(read.classes, preferred.profile, r.task),
                                   preferred.profile, now)
                fallbacks == Fallbacks(pool, preferred, class, r)
                chosen == IF preferred.available \/ fallbacks = {} THEN preferred
                          ELSE Best(fallbacks)
            IN [task |-> r.task, target |-> chosen.profile, preferred |-> preferred.profile,
                action |-> LaunchGate(chosen, preferred, arbitration, r.confirmed),
                reason |-> RouteReason(chosen, preferred, class, r.preferred),
                lease |-> arbitration]

(***************************************************************************)
(* A failed turn.  A failure is [category, retryable]; class is its limit  *)
(* classification or Nothing; repeated counts the failures before it.      *)
(***************************************************************************)
ManualCategories == {"auth", "billing", "policy_denied", "approval_required", "approval_denied"}
BackendCategories == {"backend_unavailable", "transport", "timeout", "concurrency_limit",
                      "rate_limit"}

RetryBudget(type) ==
    CASE type = "acceleration_limit"    -> 1
      [] type = "overload_or_transient" -> 3
      [] type \in {"burst_rate_limit", "concurrency_limit", "token_rate_limit"} -> 2
      [] OTHER -> 0

\* applyRetryGuardrails of the catalog
BudgetLeft(class, repeated) ==
    /\ class.type \notin HardStop
    /\ RoutingAction(class.type).retrySameSession
    /\ repeated < RetryBudget(class.type)

\* What repeating the turn would do: turn is [mutation, safe], safe "yes", "no" or unknown.
Repeatable(turn) == turn.safe # "no" /\ (turn.mutation => turn.safe = "yes")

\* As MayRetry, with a classification that outweighs the failure.
MayRetryClassified(failure, class, repeated, turn) ==
    /\ failure.category \notin ManualCategories
    /\ Repeatable(turn)
    /\ IF class # Nothing THEN BudgetLeft(class, repeated)
       ELSE failure.retryable /\ failure.category \in BackendCategories /\ repeated < 2
MayRetry(failure, class, repeated, turn) ==
    /\ failure.category \notin ManualCategories
    /\ Repeatable(turn)
    /\ failure.retryable
    /\ IF class # Nothing THEN BudgetLeft(class, repeated)
       ELSE failure.category \in BackendCategories /\ repeated < 2

\* deriveProviderFamilyCooldown
FamilyCooldown(class) ==
    IF class = Nothing THEN Nothing
    ELSE IF class.type \notin HardStop \/ class.provider = Nothing THEN Nothing
    ELSE [active |-> TRUE, reason |-> class.type, resetAt |-> class.resetAt]
=============================================================================
