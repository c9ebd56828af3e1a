----------------------------- MODULE MCRouteTask -----------------------------
(* A small instance of RouteTask for TLC. *)
EXTENDS RouteTask

CONSTANTS t1, t2,               \* tasks
          alpha, beta, gamma    \* profiles: two accounts of one provider, one of another

Profile(id, provider, harness, turns, rank) ==
  [id |-> id, provider |-> provider, harness |-> harness, maxTurns |-> turns, maxSessions |-> 1,
   rank |-> rank, familyCooldown |-> NoCooldown, ownCooldown |-> NoCooldown]
A == Profile(alpha, "openai", "codex", 2, 1)
B == Profile(beta, "openai", "codex", 1, 2)
C == Profile(gamma, "anthropic", "claude-code", 1, 3)
ThreeProfiles == {A, B, C}
SomeSettings ==
  [id \in {alpha, beta, gamma} |->
     [tags |-> {"shared"}, allowlist |-> {}, credentials |-> TRUE, authMode |-> "local_subscription",
      isolation |-> IF id = gamma THEN "host_env" ELSE "isolated_home"]]

Until(reason, t) == [active |-> TRUE, reason |-> reason, resetAt |-> t]
Signal(status, says) ==
  [status |-> status, says |-> says, retryAfter |-> Nothing, resetsAt |-> Nothing,
   resetHeader |-> Nothing, provider |-> "openai", harness |-> "codex", profile |-> Nothing,
   session |-> FALSE, task |-> Nothing]
Busy   == Signal(503, {"overloaded"})
Capped1 == [Signal(429, {"usage cap", "too many requests"}) EXCEPT !.resetHeader = 1]
Quiet == [statuses |-> [p \in ThreeProfiles |-> <<>>],
          cooldowns |-> [v \in {"openai", "anthropic"} |-> NoCooldown], classes |-> <<>>]
Plain == [auth |-> Nothing, blocked |-> FALSE, turns |-> Nothing, sessions |-> Nothing]
Checked(p, probe) == Preflight(p, probe, NoStatus, 0)
\* Alpha capped until 1 and its work half taken, gamma busy.
SomeLedgers ==
  {[Quiet EXCEPT !.classes = <<Classified([Capped1 EXCEPT !.profile = alpha])>>,
                 !.statuses[A] = <<Checked(A, [Plain EXCEPT !.turns = 1])>>,
                 !.statuses[C] = <<[NoStatus EXCEPT !.sessions = 1]>>]}
SomeProbes == {[Plain EXCEPT !.auth = "missing"] @@ [profile |-> A], Plain @@ [profile |-> C]}

Wish(provider, harness, profile) == [provider |-> provider, harness |-> harness, profile |-> profile]
Top == [kind |-> "path-set", selector |-> {<<"packages">>}]
Sub == [kind |-> "path-set", selector |-> {<<"docs">>, <<"packages", "cli">>}]
Anyone == Wish(Nothing, Nothing, Nothing)
Basic ==
  [task |-> Nothing, preferred |-> Wish("openai", Nothing, alpha), confirmed |-> FALSE,
   continuation |-> FALSE, handoff |-> TRUE, worktree |-> TRUE, rawHistory |-> FALSE,
   filesystem |-> FALSE, mayMigrate |-> TRUE, record |-> TRUE, mode |-> Nothing,
   scope |-> Top, requestYield |-> FALSE, turn |-> [mutation |-> FALSE, safe |-> "unknown"]]
SomeRequests ==
  t1 :> {[Basic EXCEPT !.mode = "hard"],
         [Basic EXCEPT !.record = FALSE, !.turn.mutation = TRUE]}
  @@
  t2 :> {[Basic EXCEPT !.mode = "hard", !.scope = Sub, !.preferred = Anyone, !.requestYield = TRUE],
         [Basic EXCEPT !.mode = "soft", !.confirmed = TRUE],
         [Basic EXCEPT !.mode = "hard", !.record = FALSE],
         [Basic EXCEPT !.preferred = Wish("openai", "claude-code", Nothing)]}
SomeSessions ==
  {Labels(A), [Labels(C) EXCEPT !.profile = Nothing]}

SomeSignals == {[Busy EXCEPT !.profile = alpha, !.task = t2]}

Failed(via, signal, by) == [via |-> via, signal |-> signal, by |-> by]
SomeFailures ==
  {Failed("http", Busy, "catalog"),
   Failed("cli", Signal(Nothing, {"overloaded"}), "catalog"),
   Failed("http", [Signal(429, {"monthly"}) EXCEPT !.resetHeader = 2], "catalog"),
   Failed("http", [Signal(429, {"too many requests", "policy"}) EXCEPT !.provider = Nothing], "catalog"),
   Failed("http", Signal(403, {"authentication"}), "mapper"),
   Failed("http", Signal(422, {"validation"}), "none"),
   Failed("stream", Signal(Nothing, {"quota"}), "catalog"),
   Failed("stream", Signal(Nothing, {}), "none")}
=============================================================================
