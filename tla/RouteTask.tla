------------------------------ MODULE RouteTask ------------------------------
(***************************************************************************)
(* A task on its way to a provider: the command route-task (route-task.ts) *)
(* reads the ledger, plans, has its lease arbitrated by the remote store   *)
(* (lease-arbiter.ts, supabase-lease-store.ts and its SQL functions),      *)
(* plans again and persists the decision; a caller takes the decision      *)
(* through the launch gate (launch-gate.ts) and repeats a failed turn as   *)
(* far as the failure policy lets it.  Every wait is a step of its own.    *)
(***************************************************************************)
EXTENDS IdentityPreflight, FiniteSets

CONSTANTS
    Tasks,              \* tasks, each driven by a process of its own
    Requests,           \* requests each task may make, see Plan and Begin
    SessionRequests,    \* labels a session may be asked for, see Labels
    Launchers,          \* tasks whose caller goes on to launch what was decided
    InitialLedgers,     \* what the ledger may say at the start
    Probes,             \* what a preflight may be told: [profile, auth, blocked, turns, sessions]
    Signals,            \* what may be classified and recorded by classify-limit
    Failures,           \* how a turn may fail: an error, and by what its limit is told
    Ttl,                            \* the leases' time to live
    MaxCalls, MaxTime, MaxEvents    \* bounds: calls, clock, faults and records together
ASSUME RouteTaskAssumption ==
    {Ttl, MaxCalls, MaxTime, MaxEvents} \subseteq Nat /\ Ttl > 0
ASSUME NothingAssumption ==   \* what is absent is none of the things that may be there
    Nothing \notin {"hard", "missing"} /\ \A f \in Failures : Classified(f.signal) # Nothing

RequestFields ==
    {"task", "preferred", "confirmed", "continuation", "handoff", "worktree", "rawHistory",
     "filesystem", "mayMigrate", "record", "mode", "scope", "requestYield", "turn"}
ASSUME InputsAssumption ==
    /\ \A t \in Tasks : \A r \in Requests[t] : DOMAIN r = RequestFields
    /\ \A e \in Probes : e.profile \in Profiles /\ {e.turns, e.sessions} \subseteq MaybeTime
    /\ \A f \in Failures : f.by \in {"catalog", "mapper", "none"}
    /\ \A s \in Signals \cup {f.signal : f \in Failures} :
         {s.resetsAt, s.resetHeader} \subseteq MaybeTime

\* What is on record in a ledger.
CooldownsSound(cooldowns) ==
    \A p \in Profiles : /\ p.provider \in DOMAIN cooldowns
                         /\ cooldowns[p.provider].resetAt \in MaybeTime
ClassesSound(classes) ==
    /\ classes \in Seq(ToSet(classes))
    /\ \A i \in DOMAIN classes : classes[i].resetAt \in MaybeTime
IsLedger(l) ==
    /\ DOMAIN l = {"statuses", "cooldowns", "classes"}
    /\ DOMAIN l.statuses = Profiles
    /\ \A p \in Profiles :
         /\ l.statuses[p] \in Seq(ToSet(l.statuses[p]))
         /\ \A i \in DOMAIN l.statuses[p] : IsStatus(p, l.statuses[p][i])
    /\ CooldownsSound(l.cooldowns) /\ ClassesSound(l.classes)
ASSUME LedgersAssumption == \A l \in InitialLedgers : IsLedger(l)

VARIABLES
    job,        \* job[t]: the call t makes, what it has read and how far it is
    ledger,     \* statuses per profile and classifications, in order; the cooldown per provider
    routes,     \* the ledger's route decisions
    wire,       \* acquisitions and queries under way to the remote store
    table,      \* coordination_current_leases: id -> lease
    inbox,      \* yield requests sent: [from, lease]
    clock,      \* the server's and the hosts' clock
    sessions,   \* the provider's sessions, as labelled
    posted,     \* the last turn each decision sent: [id, attempt, target, turn, failure before it]
    answered,   \* decisions route-task has answered: [id, recorded, decision]
    used, events   \* calls so far; faults and records of others so far

callVars == <<job, answered, used>>
remoteVars == <<wire, table, inbox>>
providerVars == <<sessions, posted>>
vars == <<callVars, remoteVars, providerVars, ledger, routes, clock, events>>

Idle == [at |-> "idle"]
NotRequested == [status |-> "not_requested", mode |-> Nothing, lease |-> Nothing]

Init ==
    /\ ledger \in InitialLedgers
    /\ job = [t \in Tasks |-> Idle]
    /\ routes = {}
    /\ wire = {}
    /\ table = <<>>
    /\ inbox = {}
    /\ clock = 0
    /\ sessions = {}
    /\ posted = {}
    /\ answered = {}
    /\ used = 0 /\ events = 0

Unread == [statuses |-> Nothing, cooldowns |-> Nothing, classes |-> Nothing]

Event == events < MaxEvents /\ events' = events + 1

At(t, step) == job[t].at = step
Goes(t, step) == job' = [job EXCEPT ![t].at = step]
Decides(t, decision, step) == job' = [job EXCEPT ![t].decision = decision, ![t].at = step]
Request(t) == job[t].request
Coordinated(r) == r.mode # Nothing

-----------------------------------------------------------------------------
(* route-task: three reads of the ledger, then the plan *)

Begin(t, r) ==
    /\ At(t, "idle")
    /\ used < MaxCalls
    /\ used' = used + 1
    /\ job' = [job EXCEPT ![t] =
         [at |-> "statuses", id |-> used + 1, request |-> r,
          read |-> Unread, now |-> 0, decision |-> Nothing, labels |-> Nothing, repeated |-> 0, failed |-> Nothing]]
    /\ UNCHANGED <<answered, remoteVars, providerVars, ledger, routes, clock, events>>

Reads(t, kind, next) ==
    /\ At(t, kind)
    /\ job' = [job EXCEPT ![t].read[kind] = ledger[kind], ![t].at = next]
    /\ UNCHANGED <<answered, used, remoteVars, providerVars, ledger, routes, clock, events>>
ReadStatuses(t) ==
    /\ At(t, "statuses")
    /\ job' = [job EXCEPT ![t].read.statuses = [p \in Profiles |-> Latest(ledger.statuses[p])],
                         ![t].at = "cooldowns"]
    /\ UNCHANGED <<answered, used, remoteVars, providerVars, ledger, routes, clock, events>>
ReadCooldowns(t) == Reads(t, "cooldowns", "classes")
ReadClassifications(t) == Reads(t, "classes", "plan")

Answer(t, decision, recorded) ==
    answered' = answered \cup {[id |-> job[t].id, recorded |-> recorded, decision |-> decision]}

\* What the remote store is asked: for a lease, or, when nothing is recorded, which there are.
Asked(t) == [task |-> t, id |-> job[t].id, mode |-> Request(t).mode,
             scope |-> Request(t).scope, acquire |-> Request(t).record]

(***************************************************************************)
(* The plan before the arbitration: only an allowed route asks for a lease *)
(* or is recorded.                                                         *)
(***************************************************************************)
Preliminary(t) ==
    /\ At(t, "plan")
    /\ LET r == Request(t)
           plan == Plan(job[t].read, [r EXCEPT !.task = t], clock, NotRequested)
           dated == [job[t] EXCEPT !.now = clock]
       IN IF plan = Nothing
          THEN job' = [job EXCEPT ![t] = Idle] /\ UNCHANGED <<answered, wire>>
          ELSE IF plan.action # "allowed"
          THEN /\ Answer(t, plan, FALSE)
               /\ job' = [job EXCEPT ![t] = Idle]
               /\ UNCHANGED wire
          ELSE IF Coordinated(r)
          THEN /\ job' = [job EXCEPT ![t] = [dated EXCEPT !.decision = plan, !.at = "waiting"]]
               /\ wire' = wire \cup {Asked(t)}
               /\ UNCHANGED answered
          ELSE /\ job' = [job EXCEPT ![t] = [dated EXCEPT !.decision = plan, !.at = "planned"]]
               /\ UNCHANGED <<answered, wire>>
    /\ UNCHANGED <<used, table, inbox, providerVars, ledger, routes, clock, events>>

(* The same pool again, now with what became of the lease. *)
Replan(t, arbitration) ==
    Plan(job[t].read, [Request(t) EXCEPT !.task = t], job[t].now, arbitration)

-----------------------------------------------------------------------------
(* The remote store.  Its functions run one after the other, under an       *)
(* advisory lock and on the server's clock.                                 *)

Over(l) == clock >= l.heartbeat_at + Ttl
Live(l) == l.state = "active" /\ ~Over(l)
Swept == [i \in DOMAIN table |-> IF table[i].state = "active" /\ Over(table[i])
                                 THEN [table[i] EXCEPT !.state = "expired"] ELSE table[i]]

\* coordination_scope_overlaps: a scope is [kind, selector], a path the sequence of its names.
Overlapping(a, b) ==
    \/ "repo" \in {a.kind, b.kind}
    \/ /\ a.kind = b.kind
       /\ \E v \in a.selector, w \in b.selector :
            \/ a.kind = "symbol" /\ v = w
            \/ a.kind = "path-set" /\ (IsPrefix(v, w) \/ IsPrefix(w, v))

\* Ids of active leases in the way of a request: its own, or a hard one its scope overlaps.
InTheWay(rows, q) ==
    {i \in DOMAIN rows : /\ rows[i].state = "active"
                         /\ \/ i = q.id
                            \/ q.mode = "hard" /\ rows[i].mode = "hard"
                               /\ Overlapping(q.scope, rows[i].scope)}

Granted(q) == [task |-> q.task, mode |-> q.mode, scope |-> q.scope,
               heartbeat_at |-> clock, state |-> "active"]

\* What the caller of q, if it still waits, is told.
Told(q, status, lease) ==
    job' = IF At(q.task, "waiting") /\ job[q.task].id = q.id
           THEN [job EXCEPT ![q.task].decision =
                     Replan(q.task, [status |-> status, mode |-> q.mode, lease |-> lease]),
                   ![q.task].at = "told"]
           ELSE job

Served(q) ==
    /\ q \in wire
    /\ wire' = wire \ {q}
    /\ UNCHANGED <<answered, used, providerVars, inbox, ledger, routes, clock, events>>

\* coordination_acquire_lease
Acquire(q) ==
    /\ q.acquire
    /\ Served(q)
    /\ LET rows == Swept
           blockers == InTheWay(rows, q)
       IN IF blockers = {}
          THEN /\ table' = [i \in DOMAIN rows \cup {q.id} |->
                               IF i = q.id THEN Granted(q) ELSE rows[i]]
               /\ Told(q, "acquired", q.id)
          ELSE /\ table' = rows
               /\ \E i \in blockers :
                    Told(q, IF q.mode = "hard" THEN "blocked_hard_conflict" ELSE "soft_conflict", i)

\* coordination_query_leases
Found(q) ==
    {i \in DOMAIN table : /\ Live(table[i])
                          /\ q.mode = "hard" => table[i].mode = "hard"
                          /\ Overlapping(q.scope, table[i].scope)}

\* Leases a call that records nothing finds in its way.
Conflicts(q) == {i \in Found(q) : q.mode = "hard" /\ table[i].mode = "hard"}

Query(q) ==
    /\ ~q.acquire
    /\ Served(q)
    /\ \/ \E i \in Conflicts(q) : Told(q, "blocked_hard_conflict", i)
       \/ Conflicts(q) = {} /\ Told(q, "not_requested", Nothing)
    /\ UNCHANGED table

(***************************************************************************)
(* No answer, an unusable one, or an error: the caller goes on without;    *)
(* what it asked for may have been done or may still be.                   *)
(***************************************************************************)
Unavailable(t) ==
    [status |-> "coordination_unavailable", mode |-> Request(t).mode, lease |-> Nothing]

Unanswered(t) ==
    /\ Event
    /\ At(t, "waiting") \/ At(t, "told")
    /\ Decides(t, Replan(t, Unavailable(t)), "planned")
    /\ UNCHANGED <<answered, used, remoteVars, providerVars, ledger, routes, clock>>

(* A hard conflict may be followed by a message to the holder. *)
Arbitrated(t) ==
    /\ At(t, "told")
    /\ Goes(t, "planned")
    /\ LET arbitration == job[t].decision.lease
           asks == /\ Request(t).record /\ Request(t).requestYield
                   /\ arbitration.status = "blocked_hard_conflict"
       IN \/ asks /\ inbox' = inbox \cup {[from |-> t, lease |-> arbitration.lease]}
          \/ ~asks /\ UNCHANGED inbox
    /\ UNCHANGED <<answered, used, wire, table, providerVars, ledger, routes, clock, events>>

(* coordination_renew_lease and coordination_release_lease refuse all but   *)
(* the holder, and the first what has run out, after a sweep all the same.  *)
Renewed(rows, t, i) ==
    IF rows[i].state = "active" /\ rows[i].task = t
    THEN [rows EXCEPT ![i].heartbeat_at = clock] ELSE rows
Released(rows, i) == [rows EXCEPT ![i].state = "released"]

RenewLease(t, i) ==
    /\ table' = Renewed(Swept, t, i)
    /\ UNCHANGED <<callVars, wire, inbox, providerVars, ledger, routes, clock, events>>
ReleaseLease(t, i) ==
    /\ table[i].task = t
    /\ table' = Released(table, i)
    /\ UNCHANGED <<callVars, wire, inbox, providerVars, ledger, routes, clock, events>>

-----------------------------------------------------------------------------
(* The decision is recorded and answered *)

Recorded(t) == [id |-> job[t].id, decision |-> job[t].decision]

Persist(t) ==
    /\ At(t, "planned")
    /\ Request(t).record
    /\ routes' = routes \cup {Recorded(t)}
    /\ Goes(t, "recorded")
    /\ UNCHANGED <<answered, used, remoteVars, providerVars, ledger, clock, events>>

(* An allowed decision is answered, a blocked one thrown with the result. *)
Return(t) ==
    /\ \/ At(t, "recorded")
       \/ At(t, "planned") /\ ~Request(t).record
    /\ Answer(t, job[t].decision, At(t, "recorded"))
    /\ job' = [job EXCEPT ![t] = IF t \in Launchers
                                 THEN [job[t] EXCEPT !.at = "routed", !.read = Unread, !.now = 0]
                                 ELSE Idle]
    /\ UNCHANGED <<used, remoteVars, providerVars, ledger, routes, clock, events>>

(* The ledger refuses the record, or the process dies. *)
Fails(t) ==
    /\ Event
    /\ ~At(t, "idle")
    /\ job' = [job EXCEPT ![t] = Idle]
    /\ UNCHANGED <<answered, used, remoteVars, providerVars, ledger, routes, clock>>

-----------------------------------------------------------------------------
(* The launch gate.  Labels are what a session request names; what it       *)
(* leaves out, the provider chooses.                                        *)

Labels(p) == [harness |-> p.harness, provider |-> p.provider, profile |-> p.id]

Names(labels, p) ==
    /\ labels.harness = p.harness
    /\ labels.provider \in {Nothing, p.provider}
    /\ labels.profile \in {Nothing, p.id}

\* assertCreateSessionLabels and assertLaunchDecision
CheckSession(t, labels) ==
    /\ At(t, "routed")
    /\ Names(labels, job[t].decision.target)
    /\ job[t].decision.action = "allowed"
    /\ job' = [job EXCEPT ![t].labels = labels, ![t].at = "session checked"]
    /\ UNCHANGED <<answered, used, remoteVars, providerVars, ledger, routes, clock, events>>

\* sendTurnWithRouteDecision asks the provider what the session is.
CheckTurn(t, labels) ==
    /\ At(t, "routed") \/ At(t, "open")
    /\ labels \in sessions
    /\ labels = Labels(job[t].decision.target)
    /\ job[t].decision.action = "allowed"
    /\ job' = [job EXCEPT ![t].labels = labels, ![t].at = "turn checked"]
    /\ UNCHANGED <<answered, used, remoteVars, providerVars, ledger, routes, clock, events>>

\* As Gate, with the record made after the launch.
GateUnrecorded(t) == UNCHANGED routes
Gate(t) == routes' = routes \cup {Recorded(t)}

PersistLaunch(t) ==
    /\ \/ At(t, "session checked") /\ Goes(t, "session due")
       \/ At(t, "turn checked") /\ Goes(t, "turn due")
    /\ Gate(t)
    /\ UNCHANGED <<answered, used, remoteVars, providerVars, ledger, clock, events>>

CreateSession(t) ==
    /\ At(t, "session due")
    /\ sessions' = sessions \cup {job[t].labels}
    /\ Goes(t, "open")
    /\ UNCHANGED <<answered, used, remoteVars, posted, ledger, routes, clock, events>>

SendTurn(t) ==
    /\ At(t, "turn due")
    /\ LET earlier == {x \in posted : x.id = job[t].id}
           turn == [id |-> job[t].id, attempt |-> job[t].repeated + 1,
                    target |-> job[t].labels, after |-> job[t].failed, turn |-> Request(t).turn]
       IN posted' = (posted \ earlier) \cup {turn}
    /\ Goes(t, "sent")
    /\ UNCHANGED <<answered, used, remoteVars, sessions, ledger, routes, clock, events>>

-----------------------------------------------------------------------------
(* The caller: what it does about a failed turn, and the rest of the world  *)

Ends(t) ==
    /\ job[t].at \in {"routed", "open", "sent"}
    /\ job' = [job EXCEPT ![t] = Idle]
    /\ UNCHANGED <<answered, used, remoteVars, providerVars, ledger, routes, clock, events>>

\* The classification a caller supplies with an error: the catalog's, the mapper's or none.
LimitBy(f) ==
    CASE f.by = "catalog" -> Classified(f.signal)
      [] f.by = "mapper"  -> LimitOf(f)
      [] f.by = "none"    -> Nothing

\* evaluateFailurePolicy: repeat the turn, or pause the provider family and stop.
TurnFails(t, f) ==
    LET class == LimitBy(f)
        cooldown == FamilyCooldown(class)
    IN  /\ At(t, "sent")
        /\ IF MayRetry(FailureOf(f), class, job[t].repeated, Request(t).turn)
           THEN /\ job' = [job EXCEPT ![t].repeated = @ + 1, ![t].failed = f, ![t].at = "open"]
                /\ UNCHANGED ledger
           ELSE /\ job' = [job EXCEPT ![t] = Idle]
                /\ IF cooldown = Nothing THEN UNCHANGED ledger
                   ELSE ledger' = [ledger EXCEPT !.cooldowns[class.provider] = cooldown]
        /\ UNCHANGED <<answered, used, remoteVars, providerVars, routes, clock, events>>

\* classify-limit --record
ClassifyLimit(s) ==
    /\ Event
    /\ ledger' = [ledger EXCEPT !.classes = Append(@, Classified(s))]
    /\ UNCHANGED <<callVars, remoteVars, providerVars, routes, clock>>

(***************************************************************************)
(* identities preflight reads the statuses of a profile and, after it has  *)
(* judged by them, records another one.  A ledger only grows, so what it   *)
(* read is what the ledger began with.                                     *)
(***************************************************************************)
RecordPreflight(probe) ==
    LET p == probe.profile
        recorded == ledger.statuses[p]
    IN \E k \in 0..Len(recorded), now \in 0..clock :
         LET read == SubSeq(recorded, 1, k) IN
         /\ Event
         /\ \A i \in 1..k : read[i].checkedAt <= now
         /\ ledger' = [ledger EXCEPT !.statuses[p] =
                          Append(@, Preflight(p, probe, NewestCheck(read), now))]
         /\ UNCHANGED <<callVars, remoteVars, providerVars, routes, clock>>

Tick ==
    /\ clock < MaxTime
    /\ clock' = clock + 1
    /\ UNCHANGED <<callVars, remoteVars, providerVars, ledger, routes, events>>

Next ==
    \/ \E t \in Tasks :
          \/ \E r \in Requests[t] : Begin(t, r)
          \/ ReadStatuses(t) \/ ReadCooldowns(t) \/ ReadClassifications(t)
          \/ Preliminary(t) \/ Unanswered(t) \/ Arbitrated(t)
          \/ Persist(t) \/ Return(t) \/ Fails(t)
          \/ \E labels \in SessionRequests : CheckSession(t, labels) \/ CheckTurn(t, labels)
          \/ PersistLaunch(t) \/ CreateSession(t) \/ SendTurn(t) \/ Ends(t)
          \/ \E f \in Failures : TurnFails(t, f)
          \/ \E i \in DOMAIN table : RenewLease(t, i) \/ ReleaseLease(t, i)
    \/ \E q \in wire : Acquire(q) \/ Query(q)
    \/ \E e \in Probes : RecordPreflight(e)
    \/ \E s \in Signals : ClassifyLimit(s)
    \/ Tick

Spec == Init /\ [][Next]_vars

-----------------------------------------------------------------------------
(* Properties *)

Allowed == {a \in answered : a.decision.action = "allowed"}

(***************************************************************************)
(* By what a call read, and whatever was recorded since: an allowed route  *)
(* goes to a profile that nothing pauses, that has room and that its last  *)
(* preflight did not find unfit, as one whose credentials are missing; a   *)
(* route leaves the preferred profile only if the work can move and may,   *)
(* and takes another account of the same provider only with consent.  A    *)
(* route that waits for a reset has one to wait for; one that says the     *)
(* caller's choice decided went to the profile the caller named            *)
(* (docs/coordinator-routing.md, Cooldown And Portability; planRoute and   *)
(* preflightIdentityProfile).                                              *)
(***************************************************************************)
Unfit(p, status) ==
    LET has == Settings[p.id] IN
    /\ status.probe # Nothing
    /\ \/ has.isolation = "host_env" /\ ~("development" \in has.tags /\ has.allowlist # {})
       \/ status.probe.blocked
       \/ /\ has.authMode # "none" /\ status.probe.auth = "missing"
          /\ ~p.ownCooldown.active /\ ~p.familyCooldown.active
Sources(read, p) == {read.cooldowns[p.provider], p.familyCooldown,
                     read.statuses[p].cooldown, p.ownCooldown}
Pausing(c, now) == c.active /\ ~(c.reason \in ResetBound /\ c.resetAt \in 0..now)
Stopped(read, p, task, now) ==
    LET class == NewestFor(read.classes, p, task)
    IN /\ class # Nothing
       /\ class.type \in HardStop
       /\ ~(class.type \in ResetBound /\ class.resetAt \in 0..now)
Paused(read, p, task, now) ==
    \/ Unfit(p, read.statuses[p])
    \/ Stopped(read, p, task, now)
    \/ \E c \in Sources(read, p) : Pausing(c, now)
Movable(r) == ~r.continuation /\ r.handoff /\ r.worktree /\ ~r.filesystem /\ r.mayMigrate

Full(read, p) ==
    read.statuses[p].turns >= p.maxTurns \/ read.statuses[p].sessions >= p.maxSessions

Justified(d, read, t, r, now) ==
    LET p == d.target
        switched == p # d.preferred
        sameProvider == p.provider = d.preferred.provider
    IN /\ d.action = "allowed" => ~Paused(read, p, t, now) /\ ~Full(read, p)
       /\ d.action = "wait_for_reset" => \E c \in Sources(read, p) : Pausing(c, now)
       /\ switched => Movable(r) /\ (sameProvider => r.confirmed)
       /\ d.reason = "explicit_override" <=> r.preferred.profile = p.id
       /\ d.reason = "provider_cooldown" => d.action # "allowed"

RoutesJustified ==
    \A t \in Tasks :
        LET x == job[t]
            plan == Plan(x.read, [x.request EXCEPT !.task = t], clock, NotRequested)
        IN /\ x.at = "plan" /\ plan # Nothing => Justified(plan, x.read, t, x.request, clock)
           /\ x.at \in {"told", "planned", "recorded"} =>
                Justified(x.decision, x.read, t, x.request, x.now)

(***************************************************************************)
(* A task that route-task recorded and allowed under a hard lease has a    *)
(* lease of its own, and while that lease lasts no other allowed task has  *)
(* one over an overlapping scope, however often an answer of the remote    *)
(* store was lost or a request arrived late (lease-arbiter.ts, arbitrate;  *)
(* coordination_acquire_lease).                                            *)
(***************************************************************************)
UnderHardLease == {a \in Allowed : a.recorded /\ a.decision.lease.mode = "hard"}
HardRoutesExclude ==
    \A a \in UnderHardLease :
        /\ a.decision.lease.lease = a.id
        /\ a.id \in DOMAIN table
        /\ \A b \in UnderHardLease \ {a} :
             Overlapping(table[a.id].scope, table[b.id].scope) =>
                 ~(Live(table[a.id]) /\ Live(table[b.id]))

(***************************************************************************)
(* Every session and every turn was preceded, in the ledger, by an allowed *)
(* decision for a target that its labels do not contradict                 *)
(* (launch-gate.ts).                                                       *)
(***************************************************************************)
LaunchesRecorded ==
    \A labels \in sessions \cup {x.target : x \in posted} :
        \E x \in routes : x.decision.action = "allowed" /\ Names(labels, x.decision.target)

(***************************************************************************)
(* However its failures alternate, a turn is sent at most four times, not  *)
(* a second time when repeating it could do the work twice, and never after *)
(* an error that a repetition cannot mend: a rejected request, a cap that   *)
(* the server names, a command that failed, and, when the catalog was       *)
(* asked, anything that speaks of policy, or of nothing but a cap under a   *)
(* status that does not speak of load (failure-mapper.ts, rules.ts,         *)
(* retry-guardrails.ts).                                                    *)
(***************************************************************************)
Rejected(s) == s.status \in 400..499 \ {429}
Final(f) ==
    \/ f.via \in {"cli", "malformed", "capability"}
    \/ f.via = "http" /\ (Rejected(f.signal) \/ (f.signal.status = 429 /\ Says(f.signal, CapNamed)))
    \/ f.by = "catalog" /\ \/ Says(f.signal, Policy)
                           \/ /\ f.signal.says # {} /\ f.signal.says \subseteq CapNamed
                              /\ f.signal.status \notin {429, 503, 529}

RetriesBounded ==
    \A x \in posted :
        /\ x.attempt <= 4
        /\ x.attempt > 1 => Repeatable(x.turn)
        /\ x.after # Nothing => ~Final(x.after)
=============================================================================
