------------------------- MODULE IdentityPreflight -------------------------
(***************************************************************************)
(* What identities preflight (identities.ts) finds of a profile            *)
(* (preflight.ts, environment.ts and types.ts of identity-isolation) and   *)
(* records (status-store.ts).  A probe is what the command is told, [auth, *)
(* blocked, turns, sessions]; all but blocked may be Nothing.              *)
(***************************************************************************)
EXTENDS RoutePlanner

CONSTANT
    Settings    \* more of a profile, by its id: [tags, isolation, allowlist, authMode,
                \* credentials]; credentials tells that it names any

(* The environment a profile is launched in. *)
Kind(tags) ==
    CASE "development" \in tags -> "development"
      [] "development" \notin tags /\ "shared" \in tags -> "shared"
      [] tags \cap {"development", "shared"} = {} -> "production"

EnvironmentRefused(has) ==
    has.isolation = "host_env" /\ (Kind(has.tags) # "development" \/ has.allowlist = {})

(* Without being told, the command never finds that credentials are missing. *)
AuthAvailable(has, probe) ==
    IF probe.auth # Nothing THEN probe.auth
    ELSE IF has.authMode = "none" \/ has.credentials THEN "available" ELSE Nothing

\* The profile's own cooldowns count whether their time is over or not.
ProfileCooldown(p) == IF p.ownCooldown.active THEN p.ownCooldown ELSE p.familyCooldown

(* The first of these that holds. *)
Readiness(p, probe, turns, sessions) ==
    LET has == Settings[p.id] IN
    IF EnvironmentRefused(has) \/ probe.blocked THEN "blocked"
    ELSE IF ProfileCooldown(p).active THEN "cooldown"
    ELSE IF has.authMode # "none" /\ AuthAvailable(has, probe) = "missing" THEN "needs_auth"
    ELSE IF sessions > p.maxSessions \/ turns > p.maxTurns THEN "degraded"
    ELSE "ready"

\* As LedgerStatus, with every finding recorded under its own name.
LedgerStatusAsIs(readiness) == readiness
LedgerStatus(readiness) == IF readiness = "needs_auth" THEN "blocked" ELSE readiness

\* The status of a profile that was never checked.
NoStatus == [status |-> "unknown", turns |-> 0, sessions |-> 0, cooldown |-> NoCooldown,
             checkedAt |-> 0, probe |-> Nothing]

(* The status checked last, which need not be the one recorded last. *)
NewestCheck(statuses) ==
    LET checked(i) == statuses[i].checkedAt
        newest(i) == \A j \in DOMAIN statuses :
                        checked(j) < checked(i) \/ (checked(j) = checked(i) /\ j <= i)
    IN IF statuses = <<>> THEN NoStatus
       ELSE statuses[CHOOSE i \in DOMAIN statuses : newest(i)]

(* The status recorded last, the one that routes go by. *)
Latest(statuses) == IF statuses = <<>> THEN NoStatus ELSE Last(statuses)

(* Counts that the command is not told are those of the newest check. *)
Preflight(p, probe, prior, now) ==
    LET turns == IF probe.turns # Nothing THEN probe.turns ELSE prior.turns
        sessions == IF probe.sessions # Nothing THEN probe.sessions ELSE prior.sessions
        readiness == Readiness(p, probe, turns, sessions)
    IN [status |-> LedgerStatus(readiness), turns |-> turns, sessions |-> sessions,
        cooldown |-> IF readiness = "cooldown" THEN ProfileCooldown(p) ELSE NoCooldown,
        checkedAt |-> now, probe |-> probe]

\* A record of what a preflight found, or of a status nobody checked.
IsStatus(p, s) ==
    /\ {s.turns, s.sessions, s.checkedAt} \subseteq Nat
    /\ s.cooldown.resetAt \in MaybeTime
    /\ s.probe # Nothing => s.status = LedgerStatus(Readiness(p, s.probe, s.turns, s.sessions))
=============================================================================
