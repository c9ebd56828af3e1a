-------------------------- MODULE RouteTaskProofs --------------------------
(***************************************************************************)
(* Proofs about RouteTask for any tasks, requests, profiles, ledgers and   *)
(* failures.  JobInv says whose an id is; LaunchInv what the launch gate   *)
(* has recorded when a session is created or a turn is sent; LeaseInv what *)
(* the remote store's table holds for a decision that names a lease;       *)
(* RetryInv after which failures a call goes on; RouteInv what a call has  *)
(* read at each of its steps, and that its decision follows from that.     *)
(***************************************************************************)
EXTENDS RouteTask, SubsequenceProofs, TLAPS

JobFields == {"at", "id", "request", "read", "now", "decision", "labels", "repeated", "failed"}

Busy(t) == job[t].at # "idle"
Reading == {"statuses", "cooldowns", "classes", "plan"}
Unanswerable == Reading \cup {"waiting", "told", "planned", "recorded"}   \* not answered yet

\* Calls that are under way have ids of their own, and answered one at most.
JobInv ==
  /\ used \in Nat
  /\ DOMAIN job = Tasks
  /\ \A t \in Tasks : Busy(t) => DOMAIN job[t] = JobFields /\ job[t].id \in 1..used
  /\ \A t \in Tasks : ~Busy(t) => job[t] = Idle
  /\ \A t, u \in Tasks : Busy(t) /\ Busy(u) /\ t # u => job[t].id # job[u].id
  /\ \A a \in answered :
       /\ a.id \in 1..used
       /\ \A t \in Tasks : job[t].at \in Unanswerable => job[t].id # a.id
  /\ \A a, b \in answered : a.id = b.id => a = b

-----------------------------------------------------------------------------
(* Steps of a call, as JobInv sees them *)

\* The call goes on, to a step where it may answer only if it might before.
Onward(t) ==
  /\ Busy(t)
  /\ DOMAIN job' = Tasks
  /\ \A u \in Tasks \ {t} : job'[u] = job[u]
  /\ DOMAIN job'[t] = DOMAIN job[t] /\ job'[t].id = job[t].id
  /\ job'[t].at # "idle"
  /\ job'[t].at \in Unanswerable => job[t].at \in Unanswerable
  /\ UNCHANGED <<used, answered>>

\* The call ends, having answered or not; or answers and goes on to the launch.
Closes(t) ==
  /\ Busy(t)
  /\ \/ job' = [job EXCEPT ![t] = Idle] /\ UNCHANGED answered
     \/ /\ job[t].at \in Unanswerable
        /\ \E a : a.id = job[t].id /\ answered' = answered \cup {a}
        /\ \/ job' = [job EXCEPT ![t] = Idle]
           \/ job' = [job EXCEPT ![t] = [job[t] EXCEPT !.at = "routed", !.read = Unread, !.now = 0]]
  /\ UNCHANGED used

LEMMA OnwardKeepsJobs ==
  ASSUME JobInv, NEW t \in Tasks, Onward(t) PROVE JobInv'
<1>1. used' = used /\ answered' = answered /\ DOMAIN job' = Tasks
  BY DEF Onward
<1>2. \A u \in Tasks \ {t} : job'[u] = job[u]
  BY DEF Onward
<1>3. /\ Busy(t) /\ Busy(t)' /\ DOMAIN job'[t] = DOMAIN job[t] /\ job'[t].id = job[t].id
      /\ job'[t].at \in Unanswerable => job[t].at \in Unanswerable
  BY DEF Onward, Busy
<1>4. \A u \in Tasks \ {t} : Busy(u)' <=> Busy(u)
  BY <1>2 DEF Busy
<1>5. \A u \in Tasks : Busy(u)' => DOMAIN job'[u] = JobFields /\ job'[u].id \in 1..used'
  BY <1>1, <1>2, <1>3, <1>4 DEF JobInv
<1>6. \A u \in Tasks : ~Busy(u)' => job'[u] = Idle
  BY <1>2, <1>3, <1>4 DEF JobInv
<1>7. \A u, v \in Tasks : Busy(u)' /\ Busy(v)' /\ u # v => job'[u].id # job'[v].id
  BY <1>2, <1>3, <1>4 DEF JobInv
<1>8. \A a \in answered : /\ a.id \in 1..used
                          /\ \A u \in Tasks : job'[u].at \in Unanswerable => job'[u].id # a.id
  BY <1>2, <1>3 DEF JobInv
<1>9. QED
  BY <1>1, <1>5, <1>6, <1>7, <1>8 DEF JobInv

LEMMA ClosesKeepsJobs ==
  ASSUME JobInv, NEW t \in Tasks, Closes(t) PROVE JobInv'
<1>1. /\ DOMAIN job' = Tasks
      /\ \A u \in Tasks \ {t} : job'[u] = job[u]
      /\ \/ job'[t] = Idle
         \/ DOMAIN job'[t] = JobFields /\ job'[t].id = job[t].id /\ job'[t].at = "routed"
  <2>1. DOMAIN job = Tasks /\ DOMAIN job[t] = JobFields
    BY DEF Closes, JobInv
  <2>2. CASE job' = [job EXCEPT ![t] = Idle]
    BY <2>1, <2>2
  <2>3. CASE job' = [job EXCEPT ![t] = [job[t] EXCEPT !.at = "routed", !.read = Unread, !.now = 0]]
    BY <2>1, <2>3 DEF JobFields
  <2>4. QED
    BY <2>2, <2>3 DEF Closes
<1>2. Idle.at = "idle" /\ job'[t].at \notin Unanswerable
  BY <1>1 DEF Idle, Unanswerable, Reading
<1>3. used' = used /\ job[t].id \in 1..used
  BY DEF Closes, JobInv
<1>4. \A a \in answered' : a \in answered \/ (a.id = job[t].id /\ job[t].at \in Unanswerable)
  BY DEF Closes
<1>5. \A a, b \in answered' : a.id = b.id => a = b
  BY DEF Closes, JobInv
<1>6. \A a \in answered' : /\ a.id \in 1..used
                           /\ \A u \in Tasks : job'[u].at \in Unanswerable => job'[u].id # a.id
  <2> SUFFICES ASSUME NEW a \in answered'
               PROVE  /\ a.id \in 1..used
                      /\ \A u \in Tasks : job'[u].at \in Unanswerable => job'[u].id # a.id
    OBVIOUS
  <2>1. CASE a \in answered
    BY <1>1, <1>2, <2>1 DEF JobInv
  <2>2. CASE a.id = job[t].id
    BY <1>1, <1>2, <1>3, <2>2 DEF JobInv, Unanswerable, Reading, Busy, Closes
  <2>3. QED
    BY <1>4, <2>1, <2>2
<1>7. Busy(t) /\ \A u \in Tasks \ {t} : Busy(u)' <=> Busy(u)
  BY <1>1 DEF Closes, Busy
<1>8. Busy(t)' => job'[t].id = job[t].id /\ DOMAIN job'[t] = JobFields
  BY <1>1, <1>2 DEF Busy
<1>9. ~Busy(t)' => job'[t] = Idle
  BY <1>1 DEF Busy
<1>10. \A u \in Tasks : Busy(u)' => DOMAIN job'[u] = JobFields /\ job'[u].id \in 1..used'
  BY <1>1, <1>3, <1>7, <1>8 DEF JobInv
<1>11. \A u, v \in Tasks : Busy(u)' /\ Busy(v)' /\ u # v => job'[u].id # job'[v].id
  BY <1>1, <1>7, <1>8 DEF JobInv
<1>12. \A u \in Tasks : ~Busy(u)' => job'[u] = Idle
  BY <1>1, <1>7, <1>9 DEF JobInv
<1>13. QED
  BY <1>1, <1>3, <1>5, <1>6, <1>10, <1>11, <1>12 DEF JobInv

LEMMA BeginKeepsJobs ==
  ASSUME JobInv, NEW t \in Tasks, NEW r, Begin(t, r) PROVE JobInv'
<1>1. /\ used' = used + 1 /\ answered' = answered
      /\ DOMAIN job' = Tasks
      /\ \A u \in Tasks \ {t} : job'[u] = job[u]
      /\ DOMAIN job'[t] = JobFields /\ job'[t].id = used + 1 /\ job'[t].at = "statuses"
  BY DEF Begin, JobInv, JobFields
<1>2. used' \in Nat /\ 1..used \subseteq 1..used' /\ used + 1 \in 1..used' /\ used + 1 \notin 1..used
  BY <1>1 DEF JobInv
<1>3. \A u \in Tasks \ {t} : Busy(u)' <=> Busy(u)
  BY <1>1 DEF Busy
<1>4. \A u \in Tasks : /\ Busy(u)' => DOMAIN job'[u] = JobFields /\ job'[u].id \in 1..used'
                       /\ ~Busy(u)' => job'[u] = Idle
  BY <1>1, <1>2, <1>3 DEF JobInv, Busy
<1>5. \A u, v \in Tasks : Busy(u)' /\ Busy(v)' /\ u # v => job'[u].id # job'[v].id
  BY <1>1, <1>2, <1>3 DEF JobInv
<1>6. \A a \in answered : /\ a.id \in 1..used'
                          /\ \A u \in Tasks : job'[u].at \in Unanswerable => job'[u].id # a.id
  BY <1>1, <1>2 DEF JobInv
<1>7. QED
  BY <1>1, <1>2, <1>4, <1>5, <1>6 DEF JobInv

\* Each step: a call begins, goes on or ends, or no call moves.
LEMMA ToldMoves ==
  ASSUME JobInv, NEW q, NEW status, NEW lease, Told(q, status, lease),
         At(q.task, "waiting") => q.task \in Tasks, UNCHANGED <<used, answered>>
  PROVE  \/ Onward(q.task) /\ q.task \in Tasks
         \/ UNCHANGED job
BY DEF Told, At, Onward, JobInv, JobFields, Busy, Unanswerable, Reading

LEMMA ServiceMoves ==
  ASSUME JobInv, NEW q \in wire, Acquire(q) \/ Query(q), q.task \in Tasks
  PROVE  Onward(q.task) \/ UNCHANGED <<job, used, answered>>
<1>1. UNCHANGED <<used, answered>>
  BY DEF Acquire, Query, Served
<1>2. \E status, lease : Told(q, status, lease)
  BY DEF Acquire, Query
<1>3. QED
  BY <1>1, <1>2, ToldMoves

LEMMA TaskMoves ==
  ASSUME JobInv, NEW t \in Tasks
  PROVE  /\ \/ ReadStatuses(t) \/ ReadCooldowns(t) \/ ReadClassifications(t)
            \/ Unanswered(t) \/ Arbitrated(t) \/ Persist(t)
            \/ (\E labels : CheckSession(t, labels) \/ CheckTurn(t, labels))
            \/ PersistLaunch(t) \/ CreateSession(t) \/ SendTurn(t)
            => Onward(t)
         /\ Return(t) \/ Fails(t) \/ Ends(t) => Closes(t)
         /\ Preliminary(t) => Onward(t) \/ Closes(t)
         /\ \A f : TurnFails(t, f) => Onward(t) \/ Closes(t)
         /\ \A i : RenewLease(t, i) \/ ReleaseLease(t, i) => UNCHANGED <<job, used, answered>>
<1> USE DEF Busy, At, Unanswerable, Reading
<1>1. ASSUME ReadStatuses(t) \/ ReadCooldowns(t) \/ ReadClassifications(t) PROVE Onward(t)
  BY <1>1 DEF ReadStatuses, ReadCooldowns, ReadClassifications, Reads, Onward, JobInv, JobFields
<1>2. ASSUME Unanswered(t) \/ Arbitrated(t) \/ Persist(t) PROVE Onward(t)
  BY <1>2 DEF Unanswered, Arbitrated, Persist, Decides, Goes, Onward, JobInv, JobFields
<1>3. ASSUME NEW labels, CheckSession(t, labels) \/ CheckTurn(t, labels) PROVE Onward(t)
  <2>1. /\ job[t].at \in {"routed", "open"} /\ UNCHANGED <<used, answered>>
        /\ \E at \in {"session checked", "turn checked"} :
             job' = [job EXCEPT ![t].labels = labels, ![t].at = at]
    BY <1>3 DEF CheckSession, CheckTurn
  <2>2. DOMAIN job = Tasks /\ DOMAIN job[t] = JobFields
    BY <2>1 DEF JobInv
  <2>3. ASSUME NEW at \in {"session checked", "turn checked"},
               job' = [job EXCEPT ![t].labels = labels, ![t].at = at]
        PROVE  /\ DOMAIN job' = Tasks /\ \A u \in Tasks \ {t} : job'[u] = job[u]
               /\ DOMAIN job'[t] = DOMAIN job[t] /\ job'[t].id = job[t].id /\ job'[t].at = at
    BY <2>2, <2>3 DEF JobFields
  <2>4. QED
    BY <2>1, <2>3 DEF Onward
<1>4. ASSUME PersistLaunch(t) \/ CreateSession(t) \/ SendTurn(t) PROVE Onward(t)
  <2>1. /\ job[t].at \in {"session checked", "turn checked", "session due", "turn due"}
        /\ UNCHANGED <<used, answered>>
        /\ \E at \in {"session due", "turn due", "open", "sent"} : job' = [job EXCEPT ![t].at = at]
    <3>1. CASE PersistLaunch(t)
      BY <3>1 DEF PersistLaunch, Goes
    <3>2. CASE CreateSession(t)
      BY <3>2 DEF CreateSession, Goes
    <3>3. CASE SendTurn(t)
      BY <3>3 DEF SendTurn, Goes
    <3>4. QED
      BY <1>4, <3>1, <3>2, <3>3
  <2>2. DOMAIN job = Tasks /\ DOMAIN job[t] = JobFields
    BY <2>1 DEF JobInv
  <2>3. ASSUME NEW at \in {"session due", "turn due", "open", "sent"},
               job' = [job EXCEPT ![t].at = at]
        PROVE  /\ DOMAIN job' = Tasks /\ \A u \in Tasks \ {t} : job'[u] = job[u]
               /\ DOMAIN job'[t] = DOMAIN job[t] /\ job'[t].id = job[t].id /\ job'[t].at = at
    BY <2>2, <2>3 DEF JobFields
  <2>4. QED
    BY <2>1, <2>3 DEF Onward
<1>5. ASSUME Return(t) PROVE Closes(t)
  <2>1. answered' = answered \cup {[id |-> job[t].id, recorded |-> At(t, "recorded"),
                                    decision |-> job[t].decision]}
    BY <1>5 DEF Return, Answer
  <2>2. \E a : a.id = job[t].id /\ answered' = answered \cup {a}
    BY <2>1
  <2>3. QED
    BY <1>5, <2>2 DEF Return, Closes
<1>6. ASSUME Fails(t) \/ Ends(t) PROVE Closes(t)
  BY <1>6 DEF Fails, Ends, Closes
<1>7. ASSUME Preliminary(t) PROVE Onward(t) \/ Closes(t)
  <2> DEFINE plan == Plan(job[t].read, [Request(t) EXCEPT !.task = t], clock, NotRequested)
  <2>1. /\ job[t].at = "plan" /\ used' = used
        /\ \/ job' = [job EXCEPT ![t] = Idle] /\ answered' = answered
           \/ job' = [job EXCEPT ![t] = Idle] /\ Answer(t, plan, FALSE)
           \/ /\ \E at \in {"waiting", "planned"} :
                   job' = [job EXCEPT ![t] = [[job[t] EXCEPT !.now = clock] EXCEPT !.decision = plan, !.at = at]]
              /\ answered' = answered
    BY <1>7 DEF Preliminary
  <2>2. CASE job' = [job EXCEPT ![t] = Idle] /\ answered' = answered
    BY <2>1, <2>2 DEF Closes
  <2>3. CASE job' = [job EXCEPT ![t] = Idle] /\ Answer(t, plan, FALSE)
    <3>1. answered' = answered \cup {[id |-> job[t].id, recorded |-> FALSE, decision |-> plan]}
      BY <2>3 DEF Answer
    <3>2. QED
      BY <2>1, <2>3, <3>1 DEF Closes
  <2>4. ASSUME NEW at \in {"waiting", "planned"}, answered' = answered,
               job' = [job EXCEPT ![t] = [[job[t] EXCEPT !.now = clock] EXCEPT !.decision = plan, !.at = at]]
        PROVE  Onward(t)
    BY <2>1, <2>4 DEF Onward, JobInv, JobFields
  <2>5. QED
    BY <2>1, <2>2, <2>3, <2>4
<1>8. ASSUME NEW f, TurnFails(t, f) PROVE Onward(t) \/ Closes(t)
  <2>1. /\ job[t].at = "sent" /\ UNCHANGED <<answered, used>>
        /\ \/ job' = [job EXCEPT ![t].repeated = @ + 1, ![t].failed = f, ![t].at = "open"]
           \/ job' = [job EXCEPT ![t] = Idle]
    BY <1>8 DEF TurnFails
  <2>2. QED
    BY <2>1 DEF Onward, Closes, JobInv, JobFields
<1>9. ASSUME NEW i, RenewLease(t, i) \/ ReleaseLease(t, i) PROVE UNCHANGED <<job, used, answered>>
  BY <1>9 DEF RenewLease, ReleaseLease, callVars
<1>10. QED
  BY <1>1, <1>2, <1>3, <1>4, <1>5, <1>6, <1>7, <1>8, <1>9

-----------------------------------------------------------------------------
(* What every step keeps *)

\* Requests under way are the tasks' own.
WireInv == \A q \in wire : q.task \in Tasks

LEMMA StepKeepsWire == ASSUME WireInv, [Next]_vars PROVE WireInv'
<1>1. \/ wire' \subseteq wire
      \/ \E t \in Tasks : wire' \subseteq wire \cup {Asked(t)}
  <2>1. ASSUME NEW t \in Tasks, Preliminary(t) PROVE wire' \subseteq wire \cup {Asked(t)}
    BY <2>1 DEF Preliminary
  <2>2. ASSUME NEW q \in wire, Acquire(q) \/ Query(q) PROVE wire' \subseteq wire
    BY <2>2 DEF Acquire, Query, Served
  <2>3. ASSUME NEW t \in Tasks,
               \/ \E r \in Requests[t] : Begin(t, r)
               \/ ReadStatuses(t) \/ ReadCooldowns(t) \/ ReadClassifications(t)
               \/ Unanswered(t) \/ Arbitrated(t) \/ Persist(t) \/ Return(t) \/ Fails(t)
        PROVE  wire' = wire
    BY <2>3 DEF Begin, ReadStatuses, ReadCooldowns, ReadClassifications, Reads, Unanswered,
                Arbitrated, Persist, Return, Fails, remoteVars
  <2>4. ASSUME NEW t \in Tasks,
               \/ \E labels \in SessionRequests : CheckSession(t, labels) \/ CheckTurn(t, labels)
               \/ PersistLaunch(t) \/ CreateSession(t) \/ SendTurn(t) \/ Ends(t)
               \/ \E f \in Failures : TurnFails(t, f)
               \/ \E i \in DOMAIN table : RenewLease(t, i) \/ ReleaseLease(t, i)
        PROVE  wire' = wire
    BY <2>4 DEF CheckSession, CheckTurn, PersistLaunch, CreateSession, SendTurn, Ends, TurnFails,
                RenewLease, ReleaseLease, remoteVars
  <2>5. ASSUME \/ \E e \in Probes : RecordPreflight(e)
               \/ \E s \in Signals : ClassifyLimit(s)
               \/ Tick \/ UNCHANGED vars
        PROVE  wire' = wire
    BY <2>5 DEF RecordPreflight, ClassifyLimit, Tick, vars, remoteVars
  <2>6. QED
    BY <2>1, <2>2, <2>3, <2>4, <2>5 DEF Next
<1>2. \A t \in Tasks : Asked(t).task = t
  BY DEF Asked
<1>3. QED
  BY <1>1, <1>2 DEF WireInv

LEMMA StepKeepsJobs == ASSUME JobInv, WireInv, [Next]_vars PROVE JobInv'
<1>1. ASSUME UNCHANGED <<job, used, answered>> PROVE JobInv'
  BY <1>1 DEF JobInv, Busy
<1>2. ASSUME NEW q \in wire, Acquire(q) \/ Query(q) PROVE JobInv'
  BY <1>1, <1>2, ServiceMoves, OnwardKeepsJobs DEF WireInv
<1>3. ASSUME \/ \E e \in Probes : RecordPreflight(e)
             \/ \E s \in Signals : ClassifyLimit(s)
             \/ Tick \/ UNCHANGED vars
      PROVE  UNCHANGED <<job, used, answered>>
  BY <1>3 DEF RecordPreflight, ClassifyLimit, Tick, vars, callVars
<1>4. QED
  BY <1>1, <1>2, <1>3, TaskMoves, BeginKeepsJobs, OnwardKeepsJobs, ClosesKeepsJobs DEF Next

LEMMA JobsInitially == ASSUME Init PROVE JobInv /\ WireInv
BY DEF Init, JobInv, WireInv, Busy, Idle, Unanswerable, Reading

-----------------------------------------------------------------------------
(* The launch gate *)

\* A decision that may be launched with these labels, and its record.
Launchable(t) ==
  job[t].decision.action = "allowed" /\ Names(job[t].labels, job[t].decision.target)

LaunchInv ==
  /\ JobInv
  /\ \A t \in Tasks : job[t].at \in {"session checked", "turn checked"} => Launchable(t)
  /\ \A t \in Tasks : job[t].at \in {"session due", "turn due"}
                        => Launchable(t) /\ Recorded(t) \in routes
  /\ LaunchesRecorded

\* What is in the ledger for all that has been launched so far.
Justifies(labels) == \E x \in routes : x.decision.action = "allowed" /\ Names(labels, x.decision.target)
Launching == {"session checked", "turn checked", "session due", "turn due"}

\* Steps that are none of the gate's.
Elsewhere ==
  /\ \A u \in Tasks : job'[u].at \in Launching => job'[u] = job[u]
  /\ routes \subseteq routes' /\ UNCHANGED <<sessions, posted>>

LEMMA ReadingIsElsewhere ==
  ASSUME JobInv, NEW t \in Tasks,
         \/ \E r \in Requests[t] : Begin(t, r)
         \/ ReadStatuses(t) \/ ReadCooldowns(t) \/ ReadClassifications(t)
         \/ Preliminary(t) \/ Unanswered(t) \/ Arbitrated(t)
  PROVE  Elsewhere
<1>1. DOMAIN job = Tasks /\ (Busy(t) => DOMAIN job[t] = JobFields)
  BY DEF JobInv
<1>2. Idle.at = "idle"
  BY DEF Idle
<1>3. ASSUME NEW r \in Requests[t], Begin(t, r) PROVE Elsewhere
  BY <1>1, <1>3 DEF Begin, Elsewhere, Launching, providerVars
<1>4. ASSUME NEW kind \in {"cooldowns", "classes"}, NEW next \in {"classes", "plan"}, Reads(t, kind, next)
      PROVE  Elsewhere
  <2>1. job[t].at # "idle" /\ job'[t].at = next /\ \A u \in Tasks \ {t} : job'[u] = job[u]
    BY <1>1, <1>4 DEF Reads, At, Busy, JobFields
  <2>2. QED
    BY <1>4, <2>1 DEF Reads, Elsewhere, Launching, providerVars
<1>5. ASSUME ReadStatuses(t) PROVE Elsewhere
  BY <1>1, <1>5 DEF ReadStatuses, Elsewhere, Launching, providerVars, At, Busy, JobFields
<1>6. ASSUME Preliminary(t) PROVE Elsewhere
  <2>1. job[t].at = "plan" /\ Busy(t) /\ UNCHANGED <<sessions, posted, routes>>
    BY <1>6 DEF Preliminary, At, Busy, providerVars
  <2>2. job' = [job EXCEPT ![t] = Idle]
        \/ \E p : \E at \in {"waiting", "planned"} :
             job' = [job EXCEPT ![t] = [[job[t] EXCEPT !.now = clock] EXCEPT !.decision = p, !.at = at]]
    BY <1>6, Zenon DEF Preliminary
  <2>3. ASSUME NEW p, NEW at \in {"waiting", "planned"},
               job' = [job EXCEPT ![t] = [[job[t] EXCEPT !.now = clock] EXCEPT !.decision = p, !.at = at]]
        PROVE  Elsewhere
    BY <1>1, <2>1, <2>3 DEF Elsewhere, Launching, JobFields
  <2>4. QED
    BY <1>1, <1>2, <2>1, <2>2, <2>3 DEF Elsewhere, Launching
<1>7. ASSUME Unanswered(t) \/ Arbitrated(t) PROVE Elsewhere
  <2>1. Busy(t) /\ UNCHANGED <<sessions, posted, routes>>
    BY <1>7 DEF Unanswered, Arbitrated, At, Busy, providerVars
  <2>2. job'[t].at = "planned" /\ \A u \in Tasks \ {t} : job'[u] = job[u]
    BY <1>1, <1>7, <2>1 DEF Unanswered, Arbitrated, Decides, Goes, JobFields
  <2>3. QED
    BY <2>1, <2>2 DEF Elsewhere, Launching
<1>8. QED
  BY <1>3, <1>4, <1>5, <1>6, <1>7 DEF ReadCooldowns, ReadClassifications

LEMMA EndingIsElsewhere ==
  ASSUME JobInv, NEW t \in Tasks,
         \/ Persist(t) \/ Return(t) \/ Fails(t) \/ Ends(t)
         \/ \E f \in Failures : TurnFails(t, f)
         \/ \E i \in DOMAIN table : RenewLease(t, i) \/ ReleaseLease(t, i)
  PROVE  Elsewhere
<1>1. DOMAIN job = Tasks /\ (Busy(t) => DOMAIN job[t] = JobFields)
  BY DEF JobInv
<1>2. Idle.at = "idle"
  BY DEF Idle
<1>3. ASSUME Persist(t) PROVE Elsewhere
  <2>1. /\ job[t].at = "planned" /\ job' = [job EXCEPT ![t].at = "recorded"]
        /\ routes \subseteq routes' /\ UNCHANGED <<sessions, posted>>
    BY <1>3 DEF Persist, Goes, At, providerVars
  <2>2. job'[t].at = "recorded" /\ \A u \in Tasks \ {t} : job'[u] = job[u]
    BY <1>1, <2>1 DEF Busy, JobFields
  <2>3. QED
    BY <2>1, <2>2 DEF Elsewhere, Launching
<1>4. ASSUME Return(t) PROVE Elsewhere
  BY <1>1, <1>2, <1>4 DEF Return, Elsewhere, Launching, At, Busy, JobFields, providerVars
<1>5. ASSUME Fails(t) \/ Ends(t) PROVE Elsewhere
  BY <1>1, <1>2, <1>5 DEF Fails, Ends, Elsewhere, Launching, providerVars
<1>6. ASSUME NEW f \in Failures, TurnFails(t, f) PROVE Elsewhere
  <2>1. /\ job[t].at = "sent" /\ UNCHANGED <<sessions, posted, routes>>
        /\ \/ job' = [job EXCEPT ![t].repeated = @ + 1, ![t].failed = f, ![t].at = "open"]
           \/ job' = [job EXCEPT ![t] = Idle]
    BY <1>6 DEF TurnFails, At, providerVars
  <2>2. DOMAIN job[t] = JobFields
    BY <1>1, <2>1 DEF Busy
  <2>3. job'[t].at \in {"open", "idle"} /\ \A u \in Tasks \ {t} : job'[u] = job[u]
    BY <1>1, <1>2, <2>1, <2>2 DEF JobFields
  <2>4. QED
    BY <2>1, <2>3 DEF Elsewhere, Launching
<1>7. ASSUME NEW i, RenewLease(t, i) \/ ReleaseLease(t, i) PROVE Elsewhere
  BY <1>7 DEF RenewLease, ReleaseLease, callVars, providerVars, Elsewhere
<1>8. QED
  BY <1>3, <1>4, <1>5, <1>6, <1>7

LEMMA WorldIsElsewhere ==
  ASSUME JobInv, WireInv,
         \/ \E q \in wire : Acquire(q) \/ Query(q)
         \/ \E e \in Probes : RecordPreflight(e)
         \/ \E s \in Signals : ClassifyLimit(s)
         \/ Tick \/ UNCHANGED vars
  PROVE  Elsewhere
<1>1. ASSUME NEW q \in wire, NEW status, NEW lease, Told(q, status, lease), routes' = routes, UNCHANGED <<sessions, posted>>
      PROVE  Elsewhere
  <2>1. DOMAIN job = Tasks /\ q.task \in Tasks /\ (Busy(q.task) => DOMAIN job[q.task] = JobFields)
    BY DEF JobInv, WireInv
  <2>2. \/ job' = job
        \/ /\ Busy(q.task)
           /\ job'[q.task].at = "told" /\ \A u \in Tasks \ {q.task} : job'[u] = job[u]
    <3>1. CASE At(q.task, "waiting") /\ job[q.task].id = q.id
      <4>1. PICK d : job' = [job EXCEPT ![q.task].decision = d, ![q.task].at = "told"]
        BY <1>1, <3>1 DEF Told
      <4>2. Busy(q.task)
        BY <3>1 DEF At, Busy
      <4>3. QED
        BY <2>1, <4>1, <4>2 DEF JobFields
    <3>2. QED
      BY <1>1, <3>1 DEF Told
  <2>3. QED
    BY <1>1, <2>2 DEF Elsewhere, Launching
<1>2. ASSUME NEW q \in wire, Acquire(q) PROVE Elsewhere
  <2>1. routes' = routes /\ UNCHANGED <<sessions, posted>>
    BY <1>2 DEF Acquire, Served, providerVars
  <2>2. \E status, lease : Told(q, status, lease)
    BY <1>2, Zenon DEF Acquire
  <2>3. QED
    BY <1>1, <2>1, <2>2
<1>3. ASSUME NEW q \in wire, Query(q) PROVE Elsewhere
  <2>1. routes' = routes /\ UNCHANGED <<sessions, posted>>
    BY <1>3 DEF Query, Served, providerVars
  <2>2. \E status, lease : Told(q, status, lease)
    BY <1>3, Zenon DEF Query
  <2>3. QED
    BY <1>1, <2>1, <2>2
<1>4. ASSUME \/ \E e \in Probes : RecordPreflight(e)
             \/ \E s \in Signals : ClassifyLimit(s)
             \/ Tick \/ UNCHANGED vars
      PROVE  Elsewhere
  BY <1>4 DEF RecordPreflight, ClassifyLimit, Tick, vars, callVars, providerVars, Elsewhere
<1>5. QED
  BY <1>2, <1>3, <1>4

LEMMA ElsewhereKeepsLaunches ==
  ASSUME LaunchInv, JobInv', Elsewhere PROVE LaunchInv'
<1>1. \A labels : Justifies(labels) => Justifies(labels)'
  BY DEF Elsewhere, Justifies
<1>2. \A u \in Tasks : job'[u].at \in Launching =>
         (Launchable(u) => Launchable(u)') /\ Recorded(u)' = Recorded(u)
  BY DEF Elsewhere, Launchable, Recorded
<1>3. LaunchesRecorded'
  BY <1>1 DEF LaunchInv, LaunchesRecorded, Elsewhere, Justifies
<1>4. QED
  BY <1>2, <1>3 DEF LaunchInv, Elsewhere, Launching

LEMMA GateKeepsLaunches ==
  ASSUME LaunchInv, JobInv', NEW t \in Tasks,
         \/ \E labels \in SessionRequests : CheckSession(t, labels) \/ CheckTurn(t, labels)
         \/ PersistLaunch(t) \/ CreateSession(t) \/ SendTurn(t)
  PROVE  LaunchInv'
<1>1. DOMAIN job = Tasks /\ (Busy(t) => DOMAIN job[t] = JobFields)
  BY DEF LaunchInv, JobInv
<1>2. \A labels : Justifies(labels) /\ routes \subseteq routes' => Justifies(labels)'
  BY DEF Justifies
<1>3. LaunchesRecorded <=> \A labels \in sessions \cup {x.target : x \in posted} : Justifies(labels)
  BY DEF LaunchesRecorded, Justifies
<1>4. LaunchesRecorded' <=> \A labels \in sessions' \cup {x.target : x \in posted'} : Justifies(labels)'
  BY DEF LaunchesRecorded, Justifies
<1>5. ASSUME NEW labels \in SessionRequests, CheckSession(t, labels) \/ CheckTurn(t, labels)
      PROVE  LaunchInv'
  <2>1. /\ Busy(t) /\ UNCHANGED <<routes, sessions, posted>>
        /\ Names(labels, job[t].decision.target) /\ job[t].decision.action = "allowed"
        /\ \E at \in {"session checked", "turn checked"} :
             job' = [job EXCEPT ![t].labels = labels, ![t].at = at]
    <3>1. CASE CheckSession(t, labels)
      BY <3>1 DEF CheckSession, At, Busy, providerVars
    <3>2. CASE CheckTurn(t, labels)
      <4>1. Names(labels, job[t].decision.target)
        <5>1. labels = Labels(job[t].decision.target)
          BY <3>2 DEF CheckTurn
        <5>2. QED
          BY <5>1 DEF Names, Labels
      <4>2. /\ Busy(t) /\ UNCHANGED <<routes, sessions, posted>>
            /\ job[t].decision.action = "allowed"
            /\ job' = [job EXCEPT ![t].labels = labels, ![t].at = "turn checked"]
        BY <3>2 DEF CheckTurn, At, Busy, providerVars
      <4>3. QED
        BY <4>1, <4>2
    <3>3. QED
      BY <1>5, <3>1, <3>2
  <2>2. /\ job'[t].labels = labels /\ job'[t].decision = job[t].decision
        /\ job'[t].at \in {"session checked", "turn checked"}
        /\ \A u \in Tasks \ {t} : job'[u] = job[u]
    BY <1>1, <2>1 DEF JobFields
  <2>3. Launchable(t)'
    BY <2>1, <2>2 DEF Launchable
  <2>4. \A u \in Tasks \ {t} : (Launchable(u) => Launchable(u)') /\ (Recorded(u))' = Recorded(u)
    BY <2>2 DEF Launchable, Recorded
  <2>5. LaunchesRecorded'
    BY <2>1, <1>2, <1>3, <1>4 DEF LaunchInv
  <2>6. ASSUME NEW u \in Tasks
        PROVE  /\ job'[u].at \in {"session checked", "turn checked"} => Launchable(u)'
               /\ job'[u].at \in {"session due", "turn due"}
                    => Launchable(u)' /\ (Recorded(u))' \in routes'
    <3>1. CASE u = t
      BY <2>2, <2>3, <3>1
    <3>2. CASE u # t
      BY <2>1, <2>2, <2>4, <3>2 DEF LaunchInv
    <3>3. QED
      BY <3>1, <3>2
  <2>7. QED
    BY <2>5, <2>6 DEF LaunchInv
<1>6. ASSUME PersistLaunch(t) PROVE LaunchInv'
  <2>1. /\ Busy(t) /\ Launchable(t) /\ routes' = routes \cup {Recorded(t)} /\ UNCHANGED <<sessions, posted>>
        /\ \E at \in {"session due", "turn due"} : job' = [job EXCEPT ![t].at = at]
    <3>1. /\ job[t].at \in {"session checked", "turn checked"}
          /\ routes' = routes \cup {Recorded(t)} /\ UNCHANGED <<sessions, posted>>
          /\ \E at \in {"session due", "turn due"} : job' = [job EXCEPT ![t].at = at]
      BY <1>6 DEF PersistLaunch, At, Goes, Gate, providerVars
    <3>2. QED
      BY <3>1 DEF Busy, LaunchInv
  <2>2. /\ job'[t].labels = job[t].labels /\ job'[t].decision = job[t].decision /\ job'[t].id = job[t].id
        /\ job'[t].at \in {"session due", "turn due"}
        /\ \A u \in Tasks \ {t} : job'[u] = job[u]
    BY <1>1, <2>1 DEF JobFields
  <2>3. \A u \in Tasks : (Launchable(u) => Launchable(u)') /\ (Recorded(u))' = Recorded(u)
    BY <2>2 DEF Launchable, Recorded
  <2>4. LaunchesRecorded'
    BY <2>1, <1>2, <1>3, <1>4 DEF LaunchInv
  <2>5. QED
    BY <2>1, <2>2, <2>3, <2>4 DEF LaunchInv
<1>7. ASSUME CreateSession(t) PROVE LaunchInv'
  <2>1. /\ Busy(t) /\ Launchable(t) /\ Recorded(t) \in routes /\ UNCHANGED <<routes, posted>>
        /\ sessions' = sessions \cup {job[t].labels} /\ job' = [job EXCEPT ![t].at = "open"]
    BY <1>7 DEF CreateSession, At, Goes, Busy, LaunchInv
  <2>2. job'[t].at = "open" /\ \A u \in Tasks \ {t} : job'[u] = job[u]
    BY <1>1, <2>1 DEF JobFields
  <2>3. Justifies(job[t].labels)
    BY <2>1 DEF Justifies, Launchable, Recorded
  <2>4. LaunchesRecorded'
    BY <2>1, <2>3, <1>2, <1>3, <1>4 DEF LaunchInv
  <2>5. \A u \in Tasks \ {t} : (Launchable(u) => Launchable(u)') /\ (Recorded(u))' = Recorded(u)
    BY <2>2 DEF Launchable, Recorded
  <2>6. QED
    BY <2>1, <2>2, <2>4, <2>5 DEF LaunchInv
<1>8. ASSUME SendTurn(t) PROVE LaunchInv'
  <2>1. /\ Busy(t) /\ Launchable(t) /\ Recorded(t) \in routes /\ UNCHANGED <<routes, sessions>>
        /\ job' = [job EXCEPT ![t].at = "sent"]
        /\ \A x \in posted' : x \in posted \/ x.target = job[t].labels
    <3> DEFINE turn == [id |-> job[t].id, attempt |-> job[t].repeated + 1,
                        target |-> job[t].labels, after |-> job[t].failed, turn |-> Request(t).turn]
    <3>1. posted' = (posted \ {x \in posted : x.id = job[t].id}) \cup {turn}
      BY <1>8, Zenon DEF SendTurn
    <3>2. \A x \in posted' : x \in posted \/ x.target = job[t].labels
      BY <3>1
    <3>3. QED
      BY <1>8, <3>2 DEF SendTurn, At, Goes, Busy, LaunchInv
  <2>2. job'[t].at = "sent" /\ \A u \in Tasks \ {t} : job'[u] = job[u]
    BY <1>1, <2>1 DEF JobFields
  <2>3. Justifies(job[t].labels)
    BY <2>1 DEF Justifies, Launchable, Recorded
  <2>4. LaunchesRecorded'
    BY <2>1, <2>3, <1>2, <1>3, <1>4 DEF LaunchInv
  <2>5. \A u \in Tasks \ {t} : (Launchable(u) => Launchable(u)') /\ (Recorded(u))' = Recorded(u)
    BY <2>2 DEF Launchable, Recorded
  <2>6. QED
    BY <2>1, <2>2, <2>4, <2>5 DEF LaunchInv
<1>9. QED
  BY <1>5, <1>6, <1>7, <1>8

(***************************************************************************)
(* Whatever is launched, the ledger already holds an allowed decision for  *)
(* a target its labels do not contradict (launch-gate.ts, createSession-   *)
(* and sendTurnWithRouteDecision).                                         *)
(***************************************************************************)
THEOREM LaunchesRecordedHolds == Spec => []LaunchesRecorded
<1>1. Init => LaunchInv /\ WireInv
  <2> SUFFICES ASSUME Init PROVE LaunchInv /\ WireInv
    OBVIOUS
  <2>1. \A t \in Tasks : job[t].at = "idle"
    BY DEF Init, Idle
  <2>2. LaunchesRecorded
    BY DEF Init, LaunchesRecorded
  <2>3. QED
    BY <2>1, <2>2, JobsInitially DEF LaunchInv
<1>2. LaunchInv /\ WireInv /\ [Next]_vars => LaunchInv' /\ WireInv'
  <2> SUFFICES ASSUME LaunchInv, WireInv, [Next]_vars PROVE LaunchInv' /\ WireInv'
    OBVIOUS
  <2>1. JobInv /\ JobInv' /\ WireInv'
    BY StepKeepsJobs, StepKeepsWire DEF LaunchInv
  <2>2. QED
    BY <2>1, ReadingIsElsewhere, EndingIsElsewhere, WorldIsElsewhere, ElsewhereKeepsLaunches,
       GateKeepsLaunches DEF Next
<1>3. LaunchInv => LaunchesRecorded
  BY DEF LaunchInv
<1>4. QED
  BY <1>1, <1>2, <1>3, PTL DEF Spec

-----------------------------------------------------------------------------
(* The lease a decision names *)

RowFields == {"task", "mode", "scope", "heartbeat_at", "state"}

\* The table's rows are leases of calls that were made; hard ones do not overlap.
RowsInv ==
  /\ \A i \in DOMAIN table : i \in 1..used /\ DOMAIN table[i] = RowFields
  /\ \A i, j \in DOMAIN table :
       /\ i # j /\ table[i].state = "active" /\ table[j].state = "active"
       /\ table[i].mode = "hard" /\ table[j].mode = "hard"
       => ~Overlapping(table[i].scope, table[j].scope)

\* A call asks once, after it has read; what is still on the way is not in the table.
AskInv ==
  /\ \A q \in wire : q.task \in Tasks /\ q.id \in 1..used /\ q.id \notin DOMAIN table
  /\ \A q, r \in wire : q.id = r.id => q = r
  /\ \A t \in Tasks, q \in wire :
       Busy(t) /\ job[t].id = q.id => q = Asked(t) /\ job[t].at \notin Reading
  /\ \A t \in Tasks : job[t].at \in Reading => job[t].id \notin DOMAIN table

\* Under a hard lease only with a lease of its own.
Backed(id, d, record) ==
  d.action = "allowed" /\ d.lease.mode = "hard" /\ record =>
    d.lease.lease = id /\ id \in DOMAIN table /\ table[id].mode = "hard"

\* Some profile fits what the call wishes.
Wish(t) == [Request(t) EXCEPT !.task = t]
Fits(read, r, now) == Preferable(Pool(read, r.task, now), r.preferred) # {}
Placed(t) == Fits(job[t].read, Wish(t), job[t].now)

Sound(t) ==
  /\ job[t].at \in {"waiting", "told"} => Placed(t)
  /\ job[t].at \in {"told", "planned", "recorded"} =>
       Backed(job[t].id, job[t].decision, Request(t).record)
  /\ job[t].at = "recorded" => Request(t).record

AnswersInv == \A a \in answered : a.recorded => Backed(a.id, a.decision, TRUE)

LeaseInv ==
  /\ JobInv /\ RowsInv /\ AskInv /\ AnswersInv
  /\ \A t \in Tasks : Sound(t)

LEMMA OverlappingIsMutual ==
  ASSUME NEW a, NEW b, Overlapping(a, b) PROVE Overlapping(b, a)
BY Zenon DEF Overlapping

\* The same request over the same reading, with what became of the lease.
LEMMA ReplanHonours ==
  ASSUME NEW t, NEW arbitration, Placed(t)
  PROVE  /\ Replan(t, arbitration).lease = arbitration
         /\ LeaseBlocks(arbitration) => Replan(t, arbitration).action # "allowed"
<1> DEFINE c == Replan(t, arbitration)
<1>1. \E chosen, preferred, reason :
        c = [task |-> Wish(t).task, target |-> chosen.profile, preferred |-> preferred.profile,
             action |-> LaunchGate(chosen, preferred, arbitration, Wish(t).confirmed),
             reason |-> reason, lease |-> arbitration]
  BY Zenon DEF Replan, Plan, Placed, Fits, Wish
<1>2. \A chosen, preferred, confirmed :
        LeaseBlocks(arbitration) => LaunchGate(chosen, preferred, arbitration, confirmed) = "blocked"
  BY DEF LaunchGate
<1>3. QED
  BY <1>1, <1>2

LEMMA PlanFits ==
  ASSUME NEW read, NEW r, NEW now, NEW arbitration, Plan(read, r, now, arbitration) # Nothing
  PROVE  Fits(read, r, now) /\ Plan(read, r, now, arbitration).lease = arbitration
<1>1. Fits(read, r, now)
  BY Zenon DEF Plan, Fits
<1>2. \E task, target, preferred, action, reason :
        Plan(read, r, now, arbitration) =
          [task |-> task, target |-> target, preferred |-> preferred,
           action |-> action, reason |-> reason, lease |-> arbitration]
  BY <1>1, Zenon DEF Plan, Fits
<1>3. QED
  BY <1>1, <1>2

-----------------------------------------------------------------------------
(* Steps of a call, as LeaseInv sees them *)

\* The call's request goes on, or the call ends.
Carried(u) ==
  Busy(u)' => /\ Busy(u) /\ job'[u].id = job[u].id /\ job'[u].request = job[u].request
              /\ job'[u].at \in Reading => job[u].at \in Reading

CallStep(t) ==
  /\ Busy(t) /\ \A u \in Tasks \ {t} : job'[u] = job[u]
  /\ Carried(t) /\ Sound(t)'
  /\ UNCHANGED <<used, table>>
  /\ \/ wire' = wire
     \/ /\ job[t].at \in Reading /\ Busy(t)' /\ job'[t].at \notin Reading
        /\ wire' = wire \cup {Asked(t)}
  /\ \A a \in answered' : a \in answered \/ (a.recorded => Backed(a.id, a.decision, TRUE))

LEMMA CallStepKeepsLeases ==
  ASSUME LeaseInv, JobInv', NEW t \in Tasks, CallStep(t)
  PROVE  LeaseInv'
<1>1. RowsInv'
  BY DEF LeaseInv, RowsInv, CallStep
<1>2. AnswersInv'
  BY DEF LeaseInv, AnswersInv, CallStep, Backed
<1>3. \A u \in Tasks \ {t} : Sound(u)' <=> Sound(u)
  BY DEF CallStep, Sound, Placed, Wish, Request, Backed
<1>4. \A u \in Tasks : Carried(u)
  BY DEF CallStep, Carried, Busy
<1>5. \A u \in Tasks : Busy(u)' => Asked(u)' = Asked(u)
  BY <1>4 DEF Carried, Asked, Request
<1>6. AskInv'
  <2>1. CASE wire' = wire
    BY <1>4, <1>5, <2>1 DEF LeaseInv, AskInv, CallStep, Carried, Busy, Reading
  <2>2. CASE /\ job[t].at \in Reading /\ Busy(t)' /\ job'[t].at \notin Reading
             /\ wire' = wire \cup {Asked(t)}
    <3>1. Asked(t).id = job[t].id /\ Asked(t).task = t
      BY DEF Asked
    <3>2. job[t].id \in 1..used /\ job[t].id \notin DOMAIN table /\ \A q \in wire : q.id # job[t].id
      BY <2>2 DEF LeaseInv, JobInv, AskInv, CallStep
    <3>3. \A u \in Tasks : Busy(u)' /\ job'[u].id = job[t].id => u = t
      BY <1>4, <2>2 DEF JobInv, LeaseInv, CallStep, Carried
    <3>4. \A q, r \in wire' : q.id = r.id => q = r
      BY <2>2, <3>1, <3>2 DEF LeaseInv, AskInv
    <3>5. \A q \in wire' : q.task \in Tasks /\ q.id \in 1..used' /\ q.id \notin DOMAIN table'
      BY <2>2, <3>1, <3>2 DEF LeaseInv, AskInv, CallStep
    <3>6. \A u \in Tasks : job'[u].at \in Reading => job'[u].id \notin DOMAIN table'
      BY <1>4 DEF LeaseInv, AskInv, CallStep, Carried, Busy, Reading
    <3>7. \A u \in Tasks, q \in wire' :
             Busy(u)' /\ job'[u].id = q.id => q = Asked(u)' /\ job'[u].at \notin Reading
      <4> SUFFICES ASSUME NEW u \in Tasks, NEW q \in wire', Busy(u)', job'[u].id = q.id
                   PROVE  q = Asked(u)' /\ job'[u].at \notin Reading
        OBVIOUS
      <4>1. CASE q \in wire
        BY <1>4, <1>5, <4>1 DEF LeaseInv, AskInv, Carried
      <4>2. CASE q = Asked(t)
        BY <1>5, <2>2, <3>1, <3>3, <4>2
      <4>3. QED
        BY <2>2, <4>1, <4>2
    <3>8. QED
      BY <3>4, <3>5, <3>6, <3>7 DEF AskInv
  <2>3. QED
    BY <2>1, <2>2 DEF CallStep
<1>7. QED
  BY <1>1, <1>2, <1>3, <1>6 DEF LeaseInv, CallStep

\* Before the plan and after the answer nothing is decided.
Decided == {"waiting", "told", "planned", "recorded"}

LEMMA UndecidedIsCallStep ==
  ASSUME NEW t \in Tasks, Busy(t), \A u \in Tasks \ {t} : job'[u] = job[u], Carried(t),
         job'[t].at \notin Decided, UNCHANGED <<used, table, wire>>,
         \A a \in answered' : a \in answered \/ (a.recorded => Backed(a.id, a.decision, TRUE))
  PROVE  CallStep(t)
BY DEF CallStep, Sound, Decided

LEMMA AnswerBacked ==
  ASSUME NEW t, NEW decision, NEW recorded, Answer(t, decision, recorded),
         recorded => Backed(job[t].id, decision, TRUE)
  PROVE  \A a \in answered' : a \in answered \/ (a.recorded => Backed(a.id, a.decision, TRUE))
<1> SUFFICES ASSUME NEW a \in answered', a \notin answered, a.recorded
             PROVE  Backed(a.id, a.decision, TRUE)
  OBVIOUS
<1>1. a = [id |-> job[t].id, recorded |-> recorded, decision |-> decision]
  BY DEF Answer
<1>2. a.id = job[t].id /\ a.decision = decision
  BY <1>1
<1>3. a.recorded = recorded
  BY <1>1, Zenon
<1>4. recorded
  BY <1>3, Zenon
<1>5. QED
  BY <1>2, <1>4

LEMMA ReadingIsCallStep ==
  ASSUME LeaseInv, NEW t \in Tasks, ReadStatuses(t) \/ ReadCooldowns(t) \/ ReadClassifications(t)
  PROVE  CallStep(t)
<1>1. DOMAIN job = Tasks /\ (Busy(t) => DOMAIN job[t] = JobFields)
  BY DEF LeaseInv, JobInv
<1>2. \A u \in Tasks \ {t} : job'[u] = job[u]
  BY <1>1 DEF ReadStatuses, ReadCooldowns, ReadClassifications, Reads
<1>3. Busy(t) /\ job[t].at \in Reading /\ UNCHANGED <<used, table, wire, answered>>
  BY DEF ReadStatuses, ReadCooldowns, ReadClassifications, Reads, At, Busy, Reading, remoteVars
<1>4. /\ job'[t].at \in Reading /\ job'[t].at # "idle"
      /\ job'[t].id = job[t].id /\ job'[t].request = job[t].request
  <2>1. ASSUME NEW kind, NEW next \in {"classes", "plan"}, Reads(t, kind, next)
        PROVE  <1>4!:
    <3>1. job'[t].at = next /\ job'[t].id = job[t].id /\ job'[t].request = job[t].request
      BY <1>1, <1>3, <2>1 DEF Reads, JobFields
    <3>2. QED
      BY <3>1 DEF Reading
  <2>2. ASSUME ReadStatuses(t) PROVE <1>4!:
    BY <1>1, <1>3, <2>2 DEF ReadStatuses, JobFields, Reading
  <2>3. QED
    BY <2>1, <2>2 DEF ReadCooldowns, ReadClassifications
<1>5. Carried(t) /\ job'[t].at \notin Decided
  BY <1>3, <1>4 DEF Carried, Busy, Decided, Reading
<1>6. QED
  BY <1>2, <1>3, <1>5, UndecidedIsCallStep

LEMMA LaunchingIsCallStep ==
  ASSUME LeaseInv, NEW t \in Tasks,
         \/ Fails(t) \/ Ends(t)
         \/ \E labels \in SessionRequests : CheckSession(t, labels) \/ CheckTurn(t, labels)
         \/ PersistLaunch(t) \/ CreateSession(t) \/ SendTurn(t)
         \/ \E f \in Failures : TurnFails(t, f)
  PROVE  CallStep(t) /\ job'[t].at \notin Reading \cup Decided
<1> DEFINE Leaves == CallStep(t) /\ job'[t].at \notin Reading \cup Decided
<1>1. DOMAIN job = Tasks /\ (Busy(t) => DOMAIN job[t] = JobFields)
  BY DEF LeaseInv, JobInv
<1>2. Idle.at = "idle"
  BY DEF Idle
<1>3. ASSUME Fails(t) \/ Ends(t) PROVE Leaves
  <2>1. Busy(t) /\ job' = [job EXCEPT ![t] = Idle] /\ UNCHANGED <<used, table, wire, answered>>
    BY <1>3 DEF Fails, Ends, At, Busy, remoteVars
  <2>2. QED
    BY <1>1, <1>2, <2>1, UndecidedIsCallStep DEF Carried, Busy, Decided, Reading
<1>4. ASSUME NEW labels \in SessionRequests, CheckSession(t, labels) \/ CheckTurn(t, labels)
      PROVE  Leaves
  <2>1. /\ Busy(t) /\ UNCHANGED <<used, table, wire, answered>>
        /\ \E at \in {"session checked", "turn checked"} :
             job' = [job EXCEPT ![t].labels = labels, ![t].at = at]
    BY <1>4 DEF CheckSession, CheckTurn, At, Busy, remoteVars
  <2>2. /\ job'[t].id = job[t].id /\ job'[t].request = job[t].request
        /\ job'[t].at \in {"session checked", "turn checked"} /\ \A u \in Tasks \ {t} : job'[u] = job[u]
    BY <1>1, <2>1 DEF JobFields
  <2>3. QED
    BY <2>1, <2>2, UndecidedIsCallStep DEF Carried, Decided, Reading
<1>5. ASSUME PersistLaunch(t) \/ CreateSession(t) \/ SendTurn(t) PROVE Leaves
  <2>1. /\ Busy(t) /\ UNCHANGED <<used, table, wire, answered>>
        /\ \E at \in {"session due", "turn due", "open", "sent"} : job' = [job EXCEPT ![t].at = at]
    BY <1>5 DEF PersistLaunch, CreateSession, SendTurn, At, Goes, Busy, remoteVars
  <2>2. /\ job'[t].id = job[t].id /\ job'[t].request = job[t].request
        /\ job'[t].at \in {"session due", "turn due", "open", "sent"}
        /\ \A u \in Tasks \ {t} : job'[u] = job[u]
    BY <1>1, <2>1 DEF JobFields
  <2>3. QED
    BY <2>1, <2>2, UndecidedIsCallStep DEF Carried, Decided, Reading
<1>6. ASSUME NEW f \in Failures, TurnFails(t, f) PROVE Leaves
  <2>1. /\ Busy(t) /\ UNCHANGED <<used, table, wire, answered>>
        /\ \/ job' = [job EXCEPT ![t].repeated = @ + 1, ![t].failed = f, ![t].at = "open"]
           \/ job' = [job EXCEPT ![t] = Idle]
    BY <1>6 DEF TurnFails, At, Busy, remoteVars
  <2>2. /\ \/ job'[t] = Idle
           \/ job'[t].id = job[t].id /\ job'[t].request = job[t].request /\ job'[t].at = "open"
        /\ \A u \in Tasks \ {t} : job'[u] = job[u]
    BY <1>1, <2>1 DEF JobFields
  <2>3. QED
    BY <1>2, <2>1, <2>2, UndecidedIsCallStep DEF Carried, Busy, Decided, Reading
<1>7. QED
  BY <1>3, <1>4, <1>5, <1>6

LEMMA PlanningIsCallStep ==
  ASSUME LeaseInv, NEW t \in Tasks, Preliminary(t) PROVE CallStep(t)
<1>1. DOMAIN job = Tasks /\ DOMAIN job[t] = JobFields /\ Busy(t) /\ job[t].at = "plan"
  BY DEF LeaseInv, JobInv, Preliminary, At, Busy
<1>2. Idle.at = "idle" /\ UNCHANGED <<used, table>>
  BY DEF Idle, Preliminary
<1> DEFINE plan == Plan(job[t].read, Wish(t), clock, NotRequested)
           fixed(at) == [[job[t] EXCEPT !.now = clock] EXCEPT !.decision = plan, !.at = at]
<1>3. CASE job' = [job EXCEPT ![t] = Idle] /\ wire' = wire
           /\ (answered' = answered \/ Answer(t, plan, FALSE))
  <2>1. \A a \in answered' : a \in answered \/ (a.recorded => Backed(a.id, a.decision, TRUE))
    BY <1>3, AnswerBacked
  <2>2. QED
    BY <1>1, <1>2, <1>3, <2>1, UndecidedIsCallStep DEF Carried, Busy, Decided
<1>4. CASE /\ plan # Nothing /\ answered' = answered
           /\ \/ job' = [job EXCEPT ![t] = fixed("waiting")] /\ wire' = wire \cup {Asked(t)}
              \/ job' = [job EXCEPT ![t] = fixed("planned")] /\ wire' = wire
  <2>1. Fits(job[t].read, Wish(t), clock) /\ plan.lease = NotRequested
    BY <1>4, PlanFits
  <2>2. \E at \in {"waiting", "planned"} :
           /\ job' = [job EXCEPT ![t] = fixed(at)]
           /\ IF at = "waiting" THEN wire' = wire \cup {Asked(t)} ELSE wire' = wire
    BY <1>4
  <2>3. /\ job'[t].id = job[t].id /\ job'[t].request = job[t].request /\ job'[t].read = job[t].read
        /\ job'[t].now = clock /\ job'[t].decision = plan /\ job'[t].at \in {"waiting", "planned"}
        /\ \A u \in Tasks \ {t} : job'[u] = job[u]
        /\ IF job'[t].at = "waiting" THEN wire' = wire \cup {Asked(t)} ELSE wire' = wire
    BY <1>1, <2>2 DEF JobFields
  <2>4. Placed(t)'
    <3>1. Wish(t)' = Wish(t)
      BY <2>3 DEF Wish, Request
    <3>2. QED
      BY <2>1, <2>3, <3>1 DEF Placed, Fits
  <2>5. plan.lease.mode # "hard"
    BY <2>1, NothingAssumption DEF NotRequested
  <2>6. Sound(t)'
    BY <2>3, <2>4, <2>5 DEF Sound, Backed
  <2>7. QED
    BY <1>1, <1>2, <1>4, <2>3, <2>6 DEF CallStep, Carried, Busy, Reading
<1>5. <1>3!1 \/ <1>4!1
  BY Zenon DEF Preliminary, Wish
<1>6. QED
  BY <1>3, <1>4, <1>5

LEMMA DecidingIsCallStep ==
  ASSUME LeaseInv, NEW t \in Tasks, Unanswered(t) \/ Arbitrated(t) \/ Persist(t) \/ Return(t)
  PROVE  CallStep(t)
<1>1. /\ DOMAIN job = Tasks /\ DOMAIN job[t] = JobFields /\ Busy(t) /\ Sound(t)
      /\ UNCHANGED <<used, table, wire>>
  BY DEF LeaseInv, JobInv, Unanswered, Arbitrated, Persist, Return, At, Busy, remoteVars
<1>2. ASSUME Unanswered(t) PROVE CallStep(t)
  <2>1. Placed(t) /\ answered' = answered
    BY <1>1, <1>2 DEF Unanswered, At, Sound
  <2>2. /\ job'[t].id = job[t].id /\ job'[t].request = job[t].request
        /\ job'[t].decision = Replan(t, Unavailable(t)) /\ job'[t].at = "planned"
        /\ \A u \in Tasks \ {t} : job'[u] = job[u]
    BY <1>1, <1>2 DEF Unanswered, Decides, JobFields
  <2>3. Unavailable(t).mode = "hard" => LeaseBlocks(Unavailable(t))
    BY DEF Unavailable, LeaseBlocks
  <2>4. Sound(t)'
    BY <2>1, <2>2, <2>3, ReplanHonours DEF Sound, Backed
  <2>5. QED
    BY <1>1, <2>1, <2>2, <2>4 DEF CallStep, Carried, Reading
<1>3. ASSUME Arbitrated(t) \/ Persist(t) PROVE CallStep(t)
  <2>1. \E at \in {"planned", "recorded"} :
          /\ job' = [job EXCEPT ![t].at = at]
          /\ at = "recorded" => Request(t).record
    BY <1>3 DEF Arbitrated, Persist, Goes
  <2>2. /\ job'[t].id = job[t].id /\ job'[t].request = job[t].request
        /\ job'[t].decision = job[t].decision /\ job'[t].at \in {"planned", "recorded"}
        /\ job'[t].at = "recorded" => Request(t).record
        /\ \A u \in Tasks \ {t} : job'[u] = job[u]
    BY <1>1, <2>1 DEF JobFields
  <2>3. job[t].at \in {"told", "planned"} /\ answered' = answered
    BY <1>3 DEF Arbitrated, Persist, At
  <2>4. Sound(t)'
    BY <1>1, <2>2, <2>3 DEF Sound, Backed, Request
  <2>5. QED
    BY <1>1, <2>2, <2>3, <2>4 DEF CallStep, Carried, Reading
<1>4. ASSUME Return(t) PROVE CallStep(t)
  <2>1. /\ \/ job'[t] = Idle
           \/ job'[t].id = job[t].id /\ job'[t].request = job[t].request /\ job'[t].at = "routed"
        /\ \A u \in Tasks \ {t} : job'[u] = job[u]
    BY <1>1, <1>4 DEF Return, JobFields
  <2>2. Idle.at = "idle"
    BY DEF Idle
  <2>3. job[t].at = "recorded" => Backed(job[t].id, job[t].decision, TRUE)
    BY <1>1 DEF Sound
  <2>4. \A a \in answered' : a \in answered \/ (a.recorded => Backed(a.id, a.decision, TRUE))
    <3>1. Answer(t, job[t].decision, At(t, "recorded"))
      BY <1>4, Zenon DEF Return
    <3>2. QED
      BY <2>3, <3>1, AnswerBacked DEF At
  <2>5. QED
    BY <1>1, <2>1, <2>2, <2>4, UndecidedIsCallStep DEF Carried, Busy, Decided, Reading
<1>5. QED
  BY <1>2, <1>3, <1>4

LEMMA BeginKeepsLeases ==
  ASSUME LeaseInv, JobInv', NEW t \in Tasks, NEW r, Begin(t, r) PROVE LeaseInv'
<1>1. /\ \A u \in Tasks \ {t} : job'[u] = job[u]
      /\ job'[t].at = "statuses" /\ job'[t].id = used + 1
      /\ UNCHANGED <<wire, table, answered>> /\ used' = used + 1
  BY DEF Begin, LeaseInv, JobInv, remoteVars
<1>2. used \in Nat /\ 1..used \subseteq 1..used' /\ used + 1 \notin 1..used
  BY <1>1 DEF LeaseInv, JobInv
<1>3. RowsInv'
  BY <1>1, <1>2 DEF LeaseInv, RowsInv
<1>4. \A u \in Tasks \ {t} : (Busy(u)' <=> Busy(u)) /\ Asked(u)' = Asked(u) /\ (Sound(u)' <=> Sound(u))
  BY <1>1 DEF Busy, Asked, Request, Sound, Placed, Wish, Backed
<1>6. \A q \in wire : q.id # used + 1
  BY <1>2 DEF LeaseInv, AskInv
<1>7. used + 1 \notin DOMAIN table
  BY <1>2 DEF LeaseInv, RowsInv
<1>8. AskInv'
  <2>1. \A q \in wire' : q.task \in Tasks /\ q.id \in 1..used' /\ q.id \notin DOMAIN table'
    BY <1>1, <1>2 DEF LeaseInv, AskInv
  <2>2. \A q, p \in wire' : q.id = p.id => q = p
    BY <1>1 DEF LeaseInv, AskInv
  <2>3. \A u \in Tasks, q \in wire' :
           Busy(u)' /\ job'[u].id = q.id => q = Asked(u)' /\ job'[u].at \notin Reading
    BY <1>1, <1>4, <1>6 DEF LeaseInv, AskInv
  <2>4. \A u \in Tasks : job'[u].at \in Reading => job'[u].id \notin DOMAIN table'
    BY <1>1, <1>7 DEF LeaseInv, AskInv
  <2>5. QED
    BY <2>1, <2>2, <2>3, <2>4 DEF AskInv
<1>9. Sound(t)'
  BY <1>1 DEF Sound
<1>10. AnswersInv'
  BY <1>1 DEF LeaseInv, AnswersInv, Backed
<1>11. QED
  BY <1>3, <1>4, <1>8, <1>9, <1>10 DEF LeaseInv

-----------------------------------------------------------------------------
(* Steps of the remote store *)

\* Rows stay, whose they are and over what; none comes back to life.
Outlast(rows) ==
  /\ DOMAIN rows = DOMAIN table
  /\ \A i \in DOMAIN table :
       /\ DOMAIN rows[i] = RowFields
       /\ rows[i].mode = table[i].mode /\ rows[i].scope = table[i].scope
       /\ rows[i].state = "active" => table[i].state = "active"

LEMMA SweptOutlasts == ASSUME RowsInv PROVE Outlast(Swept)
<1> SUFFICES ASSUME NEW i \in DOMAIN table
             PROVE  /\ DOMAIN Swept[i] = RowFields
                    /\ Swept[i].mode = table[i].mode /\ Swept[i].scope = table[i].scope
                    /\ Swept[i].state = "active" => table[i].state = "active"
  BY DEF Outlast, Swept
<1>1. DOMAIN table[i] = RowFields
  BY DEF RowsInv
<1>2. Swept[i] = table[i] \/ Swept[i] = [table[i] EXCEPT !.state = "expired"]
  BY DEF Swept
<1>3. QED
  BY <1>1, <1>2 DEF RowFields

LEMMA HoldersOutlast ==
  ASSUME RowsInv, NEW t \in Tasks, NEW i \in DOMAIN table, RenewLease(t, i) \/ ReleaseLease(t, i)
  PROVE  Outlast(table')
<1>1. ASSUME RenewLease(t, i) PROVE Outlast(table')
  <2>1. Outlast(Swept)
    BY SweptOutlasts
  <2>2. table' = Swept \/ table' = [Swept EXCEPT ![i].heartbeat_at = clock]
    BY <1>1 DEF RenewLease, Renewed
  <2>3. QED
    BY <2>1, <2>2 DEF Outlast, RowFields
<1>2. ASSUME ReleaseLease(t, i) PROVE Outlast(table')
  BY <1>2 DEF ReleaseLease, Released, Outlast, RowsInv, RowFields
<1>3. QED
  BY <1>1, <1>2

LEMMA OutlastingKeepsRows ==
  ASSUME RowsInv, NEW rows, Outlast(rows)
  PROVE  /\ \A i \in DOMAIN rows : i \in 1..used /\ DOMAIN rows[i] = RowFields
         /\ \A i, j \in DOMAIN rows :
              /\ i # j /\ rows[i].state = "active" /\ rows[j].state = "active"
              /\ rows[i].mode = "hard" /\ rows[j].mode = "hard"
              => ~Overlapping(rows[i].scope, rows[j].scope)
BY DEF RowsInv, Outlast

LEMMA HoldersKeepLeases ==
  ASSUME LeaseInv, JobInv', Outlast(table'), UNCHANGED <<job, answered, used, wire>>
  PROVE  LeaseInv'
<1>1. RowsInv'
  BY OutlastingKeepsRows DEF LeaseInv, RowsInv
<1>2. \A t \in Tasks : Asked(t)' = Asked(t) /\ (Busy(t)' <=> Busy(t)) /\ (Placed(t)' <=> Placed(t))
  BY DEF Asked, Busy, Placed, Wish, Request
<1>3. AskInv'
  BY <1>2 DEF LeaseInv, AskInv, Outlast
<1>4. \A id, d, record : Backed(id, d, record) => Backed(id, d, record)'
  BY DEF Backed, Outlast
<1>5. AnswersInv' /\ \A t \in Tasks : Sound(t)'
  BY <1>2, <1>4 DEF LeaseInv, AnswersInv, Sound, Request
<1>6. QED
  BY <1>1, <1>3, <1>5 DEF LeaseInv

LEMMA AskedRecords ==
  ASSUME NEW t, Request(t).record PROVE Asked(t).acquire
<1>1. Asked(t).acquire = Request(t).record
  BY Zenon DEF Asked
<1>2. QED
  BY <1>1, Zenon

\* What became of q is told to its caller, or to nobody: q leaves the wire.
LEMMA ToldKeepsLeases ==
  ASSUME LeaseInv, JobInv', RowsInv', NEW q \in wire, Served(q), NEW status, NEW lease,
         Told(q, status, lease),
         DOMAIN table \subseteq DOMAIN table',
         \A i \in DOMAIN table' : i \in DOMAIN table \/ i = q.id,
         \A i \in DOMAIN table : table'[i].mode = table[i].mode,
         \/ q.mode = "hard" /\ status = "blocked_hard_conflict"
         \/ q.mode # "hard"
         \/ lease = q.id /\ q.id \in DOMAIN table' /\ table'[q.id].mode = "hard"
         \/ ~q.acquire
  PROVE  LeaseInv'
<1> DEFINE arbitration == [status |-> status, mode |-> q.mode, lease |-> lease]
           t == q.task
<1>1. t \in Tasks /\ q.id \in 1..used /\ wire' = wire \ {q} /\ UNCHANGED <<answered, used>>
  BY DEF LeaseInv, AskInv, Served
<1>2. DOMAIN job = Tasks
  BY DEF LeaseInv, JobInv
<1>3. \A id, d, record : Backed(id, d, record) => Backed(id, d, record)'
  BY DEF Backed
<1>4. AnswersInv'
  BY <1>1, <1>3 DEF LeaseInv, AnswersInv
<1>5. CASE ~(At(t, "waiting") /\ job[t].id = q.id)
  <2>1. job' = job
    BY <1>5 DEF Told
  <2>2. \A u \in Tasks : Asked(u)' = Asked(u) /\ (Busy(u)' <=> Busy(u)) /\ (Placed(u)' <=> Placed(u))
    BY <2>1 DEF Asked, Busy, Placed, Wish, Request
  <2>3. \A u \in Tasks : Sound(u)'
    BY <1>3, <2>1, <2>2 DEF LeaseInv, Sound, Request
  <2>4. \A u \in Tasks : job[u].at \in Reading => job[u].id # q.id
    BY DEF LeaseInv, AskInv, Busy, Reading
  <2>5. AskInv'
    BY <1>1, <2>1, <2>2, <2>4 DEF LeaseInv, AskInv
  <2>6. QED
    BY <1>4, <2>3, <2>5 DEF LeaseInv
<1>6. CASE At(t, "waiting") /\ job[t].id = q.id
  <2>1. Busy(t) /\ DOMAIN job[t] = JobFields /\ q = Asked(t) /\ Placed(t)
    BY <1>1, <1>6 DEF At, Busy, LeaseInv, JobInv, AskInv, Sound
  <2>2. job' = [job EXCEPT ![t].decision = Replan(t, arbitration), ![t].at = "told"]
    BY <1>6, Zenon DEF Told
  <2>3. /\ job'[t].id = job[t].id /\ job'[t].request = job[t].request /\ job'[t].read = job[t].read
        /\ job'[t].now = job[t].now /\ job'[t].decision = Replan(t, arbitration) /\ job'[t].at = "told"
        /\ \A u \in Tasks \ {t} : job'[u] = job[u]
    BY <1>1, <1>2, <2>1, <2>2 DEF JobFields
  <2>4. \A u \in Tasks : Asked(u)' = Asked(u) /\ (Busy(u)' <=> Busy(u)) /\ (Placed(u)' <=> Placed(u))
    BY <2>1, <2>3 DEF Asked, Busy, Placed, Wish, Request
  <2>5. Replan(t, arbitration).lease = arbitration
        /\ (LeaseBlocks(arbitration) => Replan(t, arbitration).action # "allowed")
    BY <2>1, ReplanHonours
  <2>6. status = "blocked_hard_conflict" => LeaseBlocks(arbitration)
    BY DEF LeaseBlocks
  <2>7. Request(t)' = Request(t) /\ (Request(t).record => q.acquire)
    <3>1. Request(t).record => q.acquire
      BY <2>1, AskedRecords
    <3>2. QED
      BY <2>3, <3>1 DEF Request
  <2>8. \A id, d, record :
           id = job[t].id /\ d = Replan(t, arbitration) /\ (record => Request(t).record)
             => Backed(id, d, record)'
    <3>1. arbitration.mode = q.mode /\ arbitration.lease = lease /\ arbitration.status = status
      OBVIOUS
    <3>2. QED
      BY <1>6, <2>5, <2>6, <2>7, <3>1 DEF Backed
  <2>9. Sound(t)'
    <3>1. Backed(job[t].id, job[t].decision, Request(t).record)'
      <4>1. Request(t)'.record => Request(t).record
        BY <2>7, Zenon
      <4>2. job'[t].id = job[t].id /\ job'[t].decision = Replan(t, arbitration)
        BY <2>3
      <4>3. QED
        BY <4>1, <4>2, <2>8, Zenon
    <3>2. QED
      <4>1. Placed(t)' /\ job'[t].at = "told"
        BY <1>1, <2>1, <2>3, <2>4
      <4>2. QED
        BY <3>1, <4>1 DEF Sound
  <2>10. \A u \in Tasks \ {t} : Sound(u)'
    BY <1>3, <2>3, <2>4 DEF LeaseInv, Sound, Request
  <2>11. \A u \in Tasks : job'[u].at \in Reading => job[u].at \in Reading /\ job'[u] = job[u] /\ job[u].id # q.id
    BY <2>3 DEF LeaseInv, AskInv, Busy, Reading
  <2>12. AskInv'
    BY <1>1, <2>3, <2>4, <2>11 DEF LeaseInv, AskInv, Reading
  <2>13. QED
    BY <1>4, <2>9, <2>10, <2>12 DEF LeaseInv
<1>7. QED
  BY <1>5, <1>6

LEMMA AcquireKeepsLeases ==
  ASSUME LeaseInv, JobInv', NEW q \in wire, Acquire(q) PROVE LeaseInv'
<1>1. /\ q.id \in 1..used /\ q.id \notin DOMAIN table /\ Outlast(Swept)
      /\ Served(q) /\ UNCHANGED used
  BY SweptOutlasts DEF LeaseInv, AskInv, Acquire, Served
<1>2. CASE /\ InTheWay(Swept, q) = {}
           /\ table' = [i \in DOMAIN Swept \cup {q.id} |-> IF i = q.id THEN Granted(q) ELSE Swept[i]]
           /\ Told(q, "acquired", q.id)
  <2>1. /\ DOMAIN table' = DOMAIN table \cup {q.id}
        /\ table'[q.id] = Granted(q)
        /\ \A i \in DOMAIN table : table'[i] = Swept[i]
    BY <1>1, <1>2 DEF Outlast
  <2>2. /\ DOMAIN Granted(q) = RowFields
        /\ Granted(q).mode = q.mode /\ Granted(q).scope = q.scope
    BY DEF Granted, RowFields
  <2>3. \A i \in DOMAIN table :
           Swept[i].state = "active" /\ q.mode = "hard" /\ Swept[i].mode = "hard" =>
             ~Overlapping(q.scope, Swept[i].scope) /\ ~Overlapping(Swept[i].scope, q.scope)
    BY <1>1, <1>2, OverlappingIsMutual DEF InTheWay, Outlast
  <2>4. RowsInv'
    <3>1. \A i \in DOMAIN table' : i \in 1..used' /\ DOMAIN table'[i] = RowFields
      BY <1>1, <2>1, <2>2 DEF LeaseInv, RowsInv, Outlast
    <3>2. ASSUME NEW i \in DOMAIN table', NEW j \in DOMAIN table', i # j,
                 table'[i].state = "active", table'[j].state = "active",
                 table'[i].mode = "hard", table'[j].mode = "hard"
          PROVE  ~Overlapping(table'[i].scope, table'[j].scope)
      <4>1. CASE i \in DOMAIN table /\ j \in DOMAIN table
        BY <1>1, <2>1, <3>2, <4>1, OutlastingKeepsRows DEF LeaseInv, Outlast
      <4>2. CASE i = q.id \/ j = q.id
        BY <1>1, <2>1, <2>2, <2>3, <3>2, <4>2
      <4>3. QED
        BY <2>1, <4>1, <4>2
    <3>3. QED
      BY <3>1, <3>2 DEF RowsInv
  <2>5. /\ DOMAIN table \subseteq DOMAIN table'
        /\ \A i \in DOMAIN table' : i \in DOMAIN table \/ i = q.id
        /\ \A i \in DOMAIN table : table'[i].mode = table[i].mode
        /\ q.mode # "hard" \/ (q.id \in DOMAIN table' /\ table'[q.id].mode = "hard")
    BY <1>1, <2>1, <2>2 DEF Outlast
  <2>6. QED
    BY <1>1, <1>2, <2>4, <2>5, ToldKeepsLeases
<1>3. CASE /\ table' = Swept
           /\ \E i : Told(q, IF q.mode = "hard" THEN "blocked_hard_conflict" ELSE "soft_conflict", i)
  <2>1. RowsInv'
    BY <1>1, <1>3, OutlastingKeepsRows DEF LeaseInv, RowsInv
  <2>2. /\ DOMAIN table \subseteq DOMAIN table'
        /\ \A i \in DOMAIN table' : i \in DOMAIN table \/ i = q.id
        /\ \A i \in DOMAIN table : table'[i].mode = table[i].mode
    BY <1>1, <1>3 DEF Outlast
  <2>3. PICK i, status : /\ Told(q, status, i)
                         /\ q.mode = "hard" => status = "blocked_hard_conflict"
    BY <1>3
  <2>4. QED
    BY <1>1, <2>1, <2>2, <2>3, ToldKeepsLeases
<1>4. QED
  BY <1>2, <1>3, Zenon DEF Acquire

LEMMA QueryKeepsLeases ==
  ASSUME LeaseInv, JobInv', NEW q \in wire, Query(q) PROVE LeaseInv'
<1>1. Served(q) /\ table' = table /\ ~q.acquire /\ UNCHANGED used
  BY DEF Query, Served
<1>2. RowsInv'
  BY <1>1 DEF LeaseInv, RowsInv
<1>3. \E status, lease : Told(q, status, lease)
  BY Zenon DEF Query
<1>4. QED
  BY <1>1, <1>2, <1>3, ToldKeepsLeases

LEMMA LeasesHold == Spec => []LeaseInv /\ []WireInv
<1>1. Init => LeaseInv /\ WireInv
  <2> SUFFICES ASSUME Init PROVE LeaseInv /\ WireInv
    OBVIOUS
  <2>1. \A t \in Tasks : job[t].at = "idle"
    BY DEF Init, Idle
  <2>2. RowsInv /\ AskInv /\ AnswersInv
    BY <2>1 DEF Init, RowsInv, AskInv, AnswersInv, Reading
  <2>3. QED
    BY <2>1, <2>2, JobsInitially DEF LeaseInv, Sound
<1>2. LeaseInv /\ WireInv /\ [Next]_vars => LeaseInv' /\ WireInv'
  <2> SUFFICES ASSUME LeaseInv, WireInv, [Next]_vars PROVE LeaseInv'
    BY StepKeepsWire
  <2>1. JobInv'
    BY StepKeepsJobs DEF LeaseInv
  <2>2. ASSUME NEW t \in Tasks,
               \/ ReadStatuses(t) \/ ReadCooldowns(t) \/ ReadClassifications(t)
               \/ Preliminary(t) \/ Unanswered(t) \/ Arbitrated(t)
               \/ Persist(t) \/ Return(t) \/ Fails(t)
               \/ \E labels \in SessionRequests : CheckSession(t, labels) \/ CheckTurn(t, labels)
               \/ PersistLaunch(t) \/ CreateSession(t) \/ SendTurn(t) \/ Ends(t)
               \/ \E f \in Failures : TurnFails(t, f)
        PROVE  LeaseInv'
    BY <2>1, <2>2, ReadingIsCallStep, PlanningIsCallStep, DecidingIsCallStep, LaunchingIsCallStep,
       CallStepKeepsLeases
  <2>3. ASSUME NEW t \in Tasks, NEW i \in DOMAIN table, RenewLease(t, i) \/ ReleaseLease(t, i)
        PROVE  LeaseInv'
    <3>1. UNCHANGED <<job, answered, used, wire>>
      BY <2>3 DEF RenewLease, ReleaseLease, callVars
    <3>2. QED
      BY <2>1, <2>3, <3>1, HoldersOutlast, HoldersKeepLeases DEF LeaseInv
  <2>4. ASSUME \/ \E e \in Probes : RecordPreflight(e)
               \/ \E s \in Signals : ClassifyLimit(s)
               \/ Tick \/ UNCHANGED vars
        PROVE  LeaseInv'
    <3>1. UNCHANGED <<job, answered, used, wire, table>>
      BY <2>4 DEF RecordPreflight, ClassifyLimit, Tick, vars, callVars, remoteVars
    <3>2. Outlast(table')
      BY <3>1 DEF Outlast, LeaseInv, RowsInv
    <3>3. QED
      BY <2>1, <3>1, <3>2, HoldersKeepLeases
  <2>5. QED
    BY <2>1, <2>2, <2>3, <2>4, BeginKeepsLeases, AcquireKeepsLeases, QueryKeepsLeases DEF Next
<1>3. QED
  BY <1>1, <1>2, PTL DEF Spec

(***************************************************************************)
(* A recorded, allowed route under a hard lease has a lease of its own,    *)
(* and no other such route holds an overlapping one while it lasts, with   *)
(* answers lost and requests served late (lease-arbiter.ts, arbitrate;     *)
(* coordination_acquire_lease).                                            *)
(***************************************************************************)
THEOREM HardRoutesExcludeHolds == Spec => []HardRoutesExclude
<1>1. LeaseInv => HardRoutesExclude
  <2> SUFFICES ASSUME LeaseInv, NEW a \in UnderHardLease, NEW b \in UnderHardLease \ {a}
               PROVE  /\ a.decision.lease.lease = a.id /\ a.id \in DOMAIN table
                      /\ Overlapping(table[a.id].scope, table[b.id].scope) =>
                           ~(Live(table[a.id]) /\ Live(table[b.id]))
    BY DEF HardRoutesExclude, LeaseInv, UnderHardLease, Allowed, AnswersInv, Backed
  <2>1. \A x \in UnderHardLease :
          x \in answered /\ x.decision.lease.lease = x.id /\ x.id \in DOMAIN table /\ table[x.id].mode = "hard"
    BY DEF UnderHardLease, Allowed, LeaseInv, AnswersInv, Backed
  <2>2. a.id # b.id
    BY <2>1 DEF LeaseInv, JobInv
  <2>3. QED
    BY <2>1, <2>2 DEF LeaseInv, RowsInv, Live
<1>2. QED
  BY <1>1, LeasesHold, PTL

-----------------------------------------------------------------------------
(* Failed turns *)

\* The first rule that applies is one, and none before it applies.
LEMMA FirstMatchApplies ==
  ASSUME NEW s
  PROVE  \E i \in 1..12 : /\ FirstMatch(Rules(s)) = Rules(s)[i]
                          /\ Rules(s)[i].applies
                          /\ \A j \in 1..12 : j < i => ~Rules(s)[j].applies
<1> DEFINE R == Rules(s)
           I == {i \in 1..Len(R) : R[i].applies}
<1>1. Len(R) = 12 /\ R[12].applies
  BY DEF Rules, Rule
<1>2. I \subseteq 1..12 /\ 12 \in I
  BY <1>1
<1>3. PICK m \in I : \A y \in I : m <= y
  <2> HIDE DEF I
  <2>1. QED
    BY <1>2
<1>4. FirstMatch(R) = R[Min(I)]
  BY <1>2 DEF FirstMatch, SelectInSeq
<1>5. Min(I) = m
  <2> HIDE DEF I
  <2>1. Min(I) \in I /\ \A y \in I : Min(I) <= y
    BY <1>3, Zenon DEF Min
  <2>2. PICK n \in I : n = Min(I)
    BY <2>1
  <2>3. n <= m /\ m <= n
    BY <1>3, <2>1, <2>2
  <2>4. n \in Int /\ m \in Int
    BY <1>2
  <2>5. n = m
    BY <2>3, <2>4
  <2>6. QED
    BY <2>2, <2>5
<1>6. \A j \in 1..12 : j < m => ~R[j].applies
  BY <1>1, <1>2, <1>3
<1>7. QED
  BY <1>1, <1>2, <1>3, <1>4, <1>5, <1>6

LEMMA SaysSome == \A s, phrases : Says(s, phrases) <=> \E p \in s.says : p \in phrases
BY DEF Says

\* When each rule applies.
LEMMA RuleApplies ==
  ASSUME NEW s
  PROVE  /\ Rules(s)[3].applies <=> s.status \in {503, 529} \/ Says(s, Overload)
         /\ Rules(s)[4].applies <=> Says(s, Concurrency)
         /\ Rules(s)[5].applies <=> Says(s, Acceleration)
         /\ Rules(s)[6].applies <=> Says(s, Monthly)
         /\ Rules(s)[7].applies <=> Capped(s)
         /\ Rules(s)[8].applies <=> Says(s, Token)
         /\ Rules(s)[9].applies <=> Says(s, Burst) \/ (s.status = 429 /\ Waits(s))
         /\ Rules(s)[10].applies <=> s.status = 429 /\ Says(s, NonLimit) /\ ~Hinted(s)
         /\ Rules(s)[11].applies <=> s.status = 429 \/ Hinted(s)
BY Zenon DEF Rules, Rule

\* By the catalog, what speaks of policy or of a cap alone stops the caller.
LEMMA StopsAreHard ==
  ASSUME NEW s, \/ Says(s, Policy)
                \/ /\ s.says # {} /\ s.says \subseteq CapNamed
                   /\ s.status \notin {429, 503, 529}
  PROVE  Classified(s).type \in HardStop
<1>1. PICK i \in 1..12 : /\ FirstMatch(Rules(s)) = Rules(s)[i]
                         /\ Rules(s)[i].applies
                         /\ \A j \in 1..12 : j < i => ~Rules(s)[j].applies
  BY FirstMatchApplies
<1>2. Classified(s).type = Rules(s)[i].type
  BY <1>1, Zenon DEF Classified
<1>3. CASE Says(s, Policy)
  <2>1. Rules(s)[1] = Rule("abuse_or_policy_block", "identity_profile", Says(s, Policy))
    BY Zenon DEF Rules
  <2>2. Rules(s)[1].applies /\ Rules(s)[1].type = "abuse_or_policy_block"
    BY <1>3, <2>1 DEF Rule
  <2>3. i = 1
    BY <1>1, <2>2
  <2>4. QED
    BY <1>2, <2>2, <2>3 DEF HardStop
<1>4. CASE s.says # {} /\ s.says \subseteq CapNamed /\ s.status \notin {429, 503, 529}
  <2>1. /\ ~Says(s, Overload) /\ ~Says(s, Concurrency) /\ ~Says(s, Acceleration)
        /\ ~Says(s, Token) /\ ~Says(s, Burst)
    <3>1. \A p \in CapNamed : p \notin Overload \cup Concurrency \cup Acceleration \cup Token \cup Burst
      BY DEF CapNamed, Overload, Concurrency, Acceleration, Token, Burst
    <3>2. QED
      BY <1>4, <3>1, SaysSome
  <2>2. Says(s, Monthly) \/ Capped(s) \/ Hinted(s)
    <3>1. PICK p \in s.says : p \in CapNamed
      BY <1>4
    <3>2. p \in Monthly \/ p \in FixedWindow \/ p \in LimitHint
      BY <3>1 DEF CapNamed, Monthly, FixedWindow, LimitHint
    <3>3. QED
      BY <3>1, <3>2, SaysSome DEF Capped, Hinted
  <2>3. /\ ~Rules(s)[3].applies /\ ~Rules(s)[4].applies /\ ~Rules(s)[5].applies
        /\ ~Rules(s)[8].applies /\ ~Rules(s)[9].applies /\ ~Rules(s)[10].applies
    BY <1>4, <2>1, RuleApplies
  <2>4. Rules(s)[6].applies \/ Rules(s)[7].applies \/ Rules(s)[11].applies
    BY <2>2, RuleApplies
  <2>5. i \in {1, 2, 6, 7, 11}
    BY <1>1, <2>3, <2>4
  <2>6. \A k \in {1, 2, 6, 7, 11} : Rules(s)[k].type \in HardStop
    BY DEF Rules, Rule, HardStop, ResetBound
  <2>7. QED
    BY <1>2, <2>5, <2>6
<1>5. QED
  BY <1>3, <1>4

LEMMA RejectedIsFinal ==
  ASSUME NEW s, Rejected(s) PROVE HttpFailure(s).retryable = FALSE
<1>1. s.status \in Int /\ s.status # 429 /\ s.status < 500
  BY DEF Rejected
<1>2. CASE s.status = 403 /\ Says(s, AuthNamed)
  <2>1. HttpFailure(s) = Failure(IF "billing" \in s.says THEN "billing" ELSE "auth", FALSE)
    BY <1>2 DEF HttpFailure
  <2>2. QED
    BY <2>1 DEF Failure
<1>3. CASE s.status = 403 /\ ~Says(s, AuthNamed)
  <2>1. HttpFailure(s) = Failure("policy_denied", FALSE)
    BY <1>3 DEF HttpFailure
  <2>2. QED
    BY <2>1 DEF Failure
<1>4. CASE s.status \in {400, 422}
  <2>1. CASE s.status = 400
    <3>1. HttpFailure(s) = Failure("validation", FALSE)
      BY <2>1 DEF HttpFailure, Failure
    <3>2. QED
      BY <3>1 DEF Failure
  <2>2. CASE s.status = 422
    <3>1. HttpFailure(s) = Failure("protocol", FALSE)
      BY <2>2 DEF HttpFailure, Failure
    <3>2. QED
      BY <3>1 DEF Failure
  <2>3. QED
    BY <1>4, <2>1, <2>2
<1>5. CASE s.status \notin {400, 403, 422}
  <2>1. /\ s.status # 429 /\ s.status # 403 /\ s.status # 400 /\ s.status # 422
        /\ ~(s.status >= 500)
    BY <1>1, <1>5
  <2>2. HttpFailure(s) = Failure("transport", FALSE)
    BY <2>1, Zenon DEF HttpFailure
  <2>3. QED
    BY <2>2 DEF Failure
<1>6. QED
  BY <1>2, <1>3, <1>4, <1>5

\* What the failure policy grants is granted for a reason.
LEMMA RetriesAreSound ==
  ASSUME NEW f \in Failures, NEW repeated \in Nat, NEW turn,
         MayRetry(FailureOf(f), LimitBy(f), repeated, turn)
  PROVE  Repeatable(turn) /\ repeated < 3 /\ ~Final(f)
<1>1. Repeatable(turn) /\ FailureOf(f).retryable
  BY Zenon DEF MayRetry
<1>2. repeated < 3
  <2>1. \/ repeated < 2
        \/ repeated < RetryBudget(LimitBy(f).type)
    BY Zenon DEF MayRetry, BudgetLeft
  <2>2. QED
    BY <2>1 DEF RetryBudget
<1>3. f.via \notin {"cli", "malformed", "capability"}
  BY <1>1 DEF FailureOf, CliFailure, Malformed, CapabilityGap, Failure
<1>4. ASSUME f.via = "http" PROVE ~Rejected(f.signal) /\ ~(f.signal.status = 429 /\ Says(f.signal, CapNamed))
  <2>1. FailureOf(f) = HttpFailure(f.signal)
    BY <1>4 DEF FailureOf
  <2>2. ASSUME f.signal.status = 429, Says(f.signal, CapNamed) PROVE FALSE
    <3>1. HttpFailure(f.signal) = Failure("rate_limit", ~Says(f.signal, CapNamed))
      BY <2>2 DEF HttpFailure
    <3>2. Failure("rate_limit", ~Says(f.signal, CapNamed)).retryable = ~Says(f.signal, CapNamed)
      BY Zenon DEF Failure
    <3>3. QED
      BY <1>1, <2>1, <2>2, <3>1, <3>2, Zenon
  <2>3. ASSUME Rejected(f.signal) PROVE FALSE
    BY <1>1, <2>1, <2>3, RejectedIsFinal, Zenon
  <2>4. QED
    BY <2>2, <2>3
<1>5. ASSUME f.by = "catalog" PROVE Classified(f.signal).type \notin HardStop
  <2>1. LimitBy(f) = Classified(f.signal) /\ LimitBy(f) # Nothing
    BY <1>5, NothingAssumption DEF LimitBy
  <2>2. QED
    BY <2>1, Zenon DEF MayRetry, BudgetLeft
<1>6. QED
  BY <1>1, <1>2, <1>3, <1>4, <1>5, StopsAreHard DEF Final

\* What a call may repeat, it may; what it last failed with can be mended.
Repeats(t) ==
  /\ job[t].repeated \in 0..3
  /\ job[t].repeated > 0 => Repeatable(Request(t).turn)
  /\ job[t].failed # Nothing => ~Final(job[t].failed)

RetryInv ==
  /\ JobInv /\ RetriesBounded
  /\ \A t \in Tasks : Busy(t) => Repeats(t)

\* Steps that send nothing and leave the count of a call as it is.
SameTurn(u) ==
  Busy(u)' => /\ Busy(u) /\ job'[u].request = job[u].request
              /\ job'[u].repeated = job[u].repeated /\ job'[u].failed = job[u].failed
Steady == posted' = posted /\ \A u \in Tasks : SameTurn(u)

LEMMA SteadyKeepsRetries == ASSUME RetryInv, JobInv', Steady PROVE RetryInv'
<1>1. \A u \in Tasks : Busy(u)' => Repeats(u)'
  BY DEF RetryInv, Steady, SameTurn, Repeats, Request
<1>2. RetriesBounded'
  BY DEF RetryInv, RetriesBounded, Steady
<1>3. QED
  BY <1>1, <1>2 DEF RetryInv

LEMMA EndingIsSteady ==
  ASSUME JobInv, NEW t \in Tasks, job' = [job EXCEPT ![t] = Idle], posted' = posted
  PROVE  Steady
<1>1. job'[t] = Idle /\ \A u \in Tasks \ {t} : job'[u] = job[u]
  BY DEF JobInv
<1>2. Idle.at = "idle"
  BY DEF Idle
<1>3. QED
  BY <1>1, <1>2 DEF Steady, SameTurn, Busy

\* A call that goes on with another step, label, decision or reading.
GoesOn(t) ==
  \/ \E at : job' = [job EXCEPT ![t].at = at]
  \/ \E at, labels : job' = [job EXCEPT ![t].labels = labels, ![t].at = at]
  \/ \E at, d : job' = [job EXCEPT ![t].decision = d, ![t].at = at]
  \/ \E at, read : job' = [job EXCEPT ![t].read = read, ![t].at = at]
  \/ \E at, d : job' = [job EXCEPT ![t] =
                          [[job[t] EXCEPT !.now = clock] EXCEPT !.decision = d, !.at = at]]
  \/ job' = [job EXCEPT ![t] = [job[t] EXCEPT !.at = "routed", !.read = Unread, !.now = 0]]

LEMMA GoingOnIsSteady ==
  ASSUME JobInv, NEW t \in Tasks, Busy(t), posted' = posted, GoesOn(t)
  PROVE  Steady
<1>1. DOMAIN job = Tasks /\ DOMAIN job[t] = JobFields
  BY DEF JobInv
<1> DEFINE Same == /\ job'[t].request = job[t].request /\ job'[t].repeated = job[t].repeated
                   /\ job'[t].failed = job[t].failed
                   /\ \A u \in Tasks \ {t} : job'[u] = job[u]
<1>2. ASSUME NEW at, job' = [job EXCEPT ![t].at = at] PROVE Same
  BY <1>1, <1>2 DEF JobFields
<1>3. ASSUME NEW at, NEW labels, job' = [job EXCEPT ![t].labels = labels, ![t].at = at] PROVE Same
  BY <1>1, <1>3 DEF JobFields
<1>4. ASSUME NEW at, NEW d, job' = [job EXCEPT ![t].decision = d, ![t].at = at] PROVE Same
  BY <1>1, <1>4 DEF JobFields
<1>5. ASSUME NEW at, NEW read, job' = [job EXCEPT ![t].read = read, ![t].at = at] PROVE Same
  BY <1>1, <1>5 DEF JobFields
<1>6. ASSUME NEW at, NEW d, job' = [job EXCEPT ![t] = [[job[t] EXCEPT !.now = clock]
                                                       EXCEPT !.decision = d, !.at = at]]
      PROVE  Same
  BY <1>1, <1>6 DEF JobFields
<1>7. ASSUME job' = [job EXCEPT ![t] = [job[t] EXCEPT !.at = "routed", !.read = Unread, !.now = 0]]
      PROVE  Same
  BY <1>1, <1>7 DEF JobFields
<1>8. Same
  BY <1>2, <1>3, <1>4, <1>5, <1>6, <1>7 DEF GoesOn
<1>9. QED
  BY <1>8 DEF Steady, SameTurn, Busy

LEMMA ReadingIsSteady ==
  ASSUME JobInv, NEW t \in Tasks, ReadStatuses(t) \/ ReadCooldowns(t) \/ ReadClassifications(t)
  PROVE  Steady
<1>1. /\ DOMAIN job = Tasks /\ Busy(t) /\ DOMAIN job[t] = JobFields /\ posted' = posted
  BY DEF JobInv, ReadStatuses, ReadCooldowns, ReadClassifications, Reads, At, Busy, providerVars
<1>2. ASSUME ReadStatuses(t) PROVE GoesOn(t)
  BY <1>2 DEF ReadStatuses, GoesOn
<1>3. ASSUME NEW kind, NEW next, Reads(t, kind, next) PROVE Steady
  <2>1. /\ job'[t].request = job[t].request /\ job'[t].repeated = job[t].repeated
        /\ job'[t].failed = job[t].failed
    BY <1>1, <1>3 DEF Reads, JobFields
  <2>2. \A u \in Tasks \ {t} : job'[u] = job[u]
    BY <1>1, <1>3 DEF Reads
  <2>3. QED
    BY <1>1, <2>1, <2>2 DEF Steady, SameTurn, Busy
<1>4. QED
  BY <1>1, <1>2, <1>3, GoingOnIsSteady DEF ReadCooldowns, ReadClassifications

LEMMA DecidingIsSteady ==
  ASSUME JobInv, NEW t \in Tasks,
         \/ Preliminary(t) \/ Unanswered(t) \/ Arbitrated(t)
         \/ Persist(t) \/ Return(t) \/ Fails(t) \/ Ends(t)
         \/ \E labels \in SessionRequests : CheckSession(t, labels) \/ CheckTurn(t, labels)
         \/ PersistLaunch(t) \/ CreateSession(t)
  PROVE  Steady
<1>1. ASSUME Preliminary(t) PROVE /\ Busy(t) /\ posted' = posted
                                  /\ GoesOn(t) \/ job' = [job EXCEPT ![t] = Idle]
  <2>1. Busy(t) /\ posted' = posted
    BY <1>1 DEF Preliminary, At, Busy, providerVars
  <2>2. \/ job' = [job EXCEPT ![t] = Idle]
        \/ \E at, d : job' = [job EXCEPT ![t] = [[job[t] EXCEPT !.now = clock]
                                                 EXCEPT !.decision = d, !.at = at]]
    BY <1>1, Zenon DEF Preliminary
  <2>3. QED
    BY <2>1, <2>2 DEF GoesOn
<1>2. ASSUME Unanswered(t) \/ Arbitrated(t) \/ Persist(t)
      PROVE  Busy(t) /\ posted' = posted /\ GoesOn(t)
  <2>1. CASE Unanswered(t)
    BY <2>1 DEF Unanswered, Decides, At, Busy, GoesOn, remoteVars, providerVars
  <2>2. CASE Arbitrated(t) \/ Persist(t)
    BY <2>2 DEF Arbitrated, Persist, Goes, At, Busy, GoesOn, remoteVars, providerVars
  <2>3. QED
    BY <1>2, <2>1, <2>2
<1>3. ASSUME Return(t)
      PROVE  /\ Busy(t) /\ posted' = posted
             /\ GoesOn(t) \/ job' = [job EXCEPT ![t] = Idle]
  BY <1>3 DEF Return, At, Busy, GoesOn, providerVars
<1>4. ASSUME Fails(t) \/ Ends(t) PROVE posted' = posted /\ job' = [job EXCEPT ![t] = Idle]
  BY <1>4 DEF Fails, Ends, providerVars
<1>5. ASSUME NEW labels, CheckSession(t, labels) \/ CheckTurn(t, labels)
      PROVE  Busy(t) /\ posted' = posted /\ GoesOn(t)
  BY <1>5 DEF CheckSession, CheckTurn, At, Busy, GoesOn, providerVars
<1>6. ASSUME PersistLaunch(t) \/ CreateSession(t) PROVE Busy(t) /\ posted' = posted /\ GoesOn(t)
  BY <1>6 DEF PersistLaunch, CreateSession, Goes, At, Busy, GoesOn, providerVars
<1>7. /\ Busy(t) /\ posted' = posted /\ GoesOn(t) => Steady
      /\ posted' = posted /\ job' = [job EXCEPT ![t] = Idle] => Steady
  BY GoingOnIsSteady, EndingIsSteady
<1>8. CASE Preliminary(t) \/ Return(t)
  BY <1>1, <1>3, <1>7, <1>8
<1>9. CASE Unanswered(t) \/ Arbitrated(t) \/ Persist(t) \/ PersistLaunch(t) \/ CreateSession(t)
  BY <1>2, <1>6, <1>7, <1>9
<1>10. CASE Fails(t) \/ Ends(t)
  BY <1>4, <1>7, <1>10
<1>11. CASE \E labels \in SessionRequests : CheckSession(t, labels) \/ CheckTurn(t, labels)
  BY <1>5, <1>7, <1>11
<1>12. QED
  BY <1>8, <1>9, <1>10, <1>11

LEMMA WorldIsSteady ==
  ASSUME JobInv, WireInv,
         \/ \E q \in wire : Acquire(q) \/ Query(q)
         \/ \E t \in Tasks, i \in DOMAIN table : RenewLease(t, i) \/ ReleaseLease(t, i)
         \/ \E e \in Probes : RecordPreflight(e)
         \/ \E s \in Signals : ClassifyLimit(s)
         \/ Tick \/ UNCHANGED vars
  PROVE  Steady
<1>1. ASSUME UNCHANGED <<job, posted>> PROVE Steady
  BY <1>1 DEF Steady, SameTurn, Busy
<1>2. ASSUME NEW q \in wire, Acquire(q) \/ Query(q) PROVE Steady
  <2>1. posted' = posted /\ \E status, lease : Told(q, status, lease)
    BY <1>2, Zenon DEF Acquire, Query, Served, providerVars
  <2>2. CASE At(q.task, "waiting") /\ job[q.task].id = q.id
    <3>1. \E at, d : job' = [job EXCEPT ![q.task].decision = d, ![q.task].at = at]
      BY <2>1, <2>2, Zenon DEF Told
    <3>2. Busy(q.task) /\ q.task \in Tasks
      BY <1>2, <2>2 DEF At, Busy, WireInv
    <3>3. QED
      BY <2>1, <3>1, <3>2, GoingOnIsSteady DEF GoesOn
  <2>3. QED
    BY <1>1, <2>1, <2>2 DEF Told
<1>3. ASSUME NEW t, NEW i, RenewLease(t, i) \/ ReleaseLease(t, i) PROVE UNCHANGED <<job, posted>>
  BY <1>3 DEF RenewLease, ReleaseLease, callVars, providerVars
<1>4. ASSUME \/ \E e \in Probes : RecordPreflight(e)
             \/ \E s \in Signals : ClassifyLimit(s)
             \/ Tick \/ UNCHANGED vars
      PROVE  UNCHANGED <<job, posted>>
  BY <1>4 DEF RecordPreflight, ClassifyLimit, Tick, vars, callVars, providerVars
<1>5. QED
  BY <1>1, <1>2, <1>3, <1>4

LEMMA BeginKeepsRetries ==
  ASSUME RetryInv, JobInv', NEW t \in Tasks, NEW r, Begin(t, r) PROVE RetryInv'
<1>1. /\ posted' = posted /\ \A u \in Tasks \ {t} : job'[u] = job[u]
      /\ job'[t].repeated = 0 /\ job'[t].failed = Nothing
  BY DEF Begin, RetryInv, JobInv, providerVars
<1>2. \A u \in Tasks : Busy(u)' => Repeats(u)'
  BY <1>1 DEF RetryInv, Repeats, Request, Busy
<1>3. RetriesBounded'
  BY <1>1 DEF RetryInv, RetriesBounded
<1>4. QED
  BY <1>2, <1>3 DEF RetryInv

LEMMA SendKeepsRetries ==
  ASSUME RetryInv, JobInv', NEW t \in Tasks, SendTurn(t) PROVE RetryInv'
<1>1. Busy(t) /\ Repeats(t)
  BY DEF SendTurn, At, Busy, RetryInv
<1>2. \A u \in Tasks : SameTurn(u)
  <2>1. DOMAIN job = Tasks /\ DOMAIN job[t] = JobFields /\ job' = [job EXCEPT ![t].at = "sent"]
    BY <1>1 DEF RetryInv, JobInv, SendTurn, Goes
  <2>2. /\ job'[t].request = job[t].request /\ job'[t].repeated = job[t].repeated
        /\ job'[t].failed = job[t].failed /\ \A u \in Tasks \ {t} : job'[u] = job[u]
    BY <2>1 DEF JobFields
  <2>3. QED
    BY <1>1, <2>2 DEF SameTurn, Busy
<1>3. \A u \in Tasks : Busy(u)' => Repeats(u)'
  BY <1>2 DEF RetryInv, SameTurn, Repeats, Request
<1>4. RetriesBounded'
  <2> DEFINE turn == [id |-> job[t].id, attempt |-> job[t].repeated + 1,
                      target |-> job[t].labels, after |-> job[t].failed, turn |-> Request(t).turn]
  <2>1. posted' = (posted \ {x \in posted : x.id = job[t].id}) \cup {turn}
    BY Zenon DEF SendTurn
  <2>2. /\ turn.attempt = job[t].repeated + 1 /\ turn.after = job[t].failed
        /\ turn.turn = Request(t).turn
    OBVIOUS
  <2>3. /\ turn.attempt <= 4
        /\ turn.attempt > 1 => Repeatable(turn.turn)
        /\ turn.after # Nothing => ~Final(turn.after)
    BY <1>1, <2>2 DEF Repeats
  <2>4. QED
    BY <2>1, <2>3 DEF RetryInv, RetriesBounded
<1>5. QED
  BY <1>3, <1>4 DEF RetryInv

LEMMA FailureKeepsRetries ==
  ASSUME RetryInv, JobInv', NEW t \in Tasks, NEW f \in Failures, TurnFails(t, f) PROVE RetryInv'
<1>1. Busy(t) /\ Repeats(t) /\ DOMAIN job = Tasks /\ DOMAIN job[t] = JobFields /\ posted' = posted
  BY DEF TurnFails, At, Busy, RetryInv, JobInv, providerVars
<1>2. CASE MayRetry(FailureOf(f), LimitBy(f), job[t].repeated, Request(t).turn)
  <2>1. job' = [job EXCEPT ![t].repeated = @ + 1, ![t].failed = f, ![t].at = "open"]
    BY <1>2, Zenon DEF TurnFails
  <2>2. /\ job'[t].repeated = job[t].repeated + 1 /\ job'[t].failed = f
        /\ job'[t].request = job[t].request /\ \A u \in Tasks \ {t} : job'[u] = job[u]
    BY <1>1, <2>1 DEF JobFields
  <2>3. /\ job[t].repeated \in 0..3
        /\ Repeatable(Request(t).turn) /\ job[t].repeated < 3 /\ ~Final(f)
    BY <1>1, <1>2, RetriesAreSound DEF Repeats
  <2>4. Repeats(t)'
    BY <2>2, <2>3 DEF Repeats, Request
  <2>5. \A u \in Tasks : Busy(u)' => Repeats(u)'
    BY <2>2, <2>4 DEF RetryInv, Repeats, Request, Busy
  <2>6. RetriesBounded'
    BY <1>1 DEF RetryInv, RetriesBounded
  <2>7. QED
    BY <2>5, <2>6 DEF RetryInv
<1>3. CASE ~MayRetry(FailureOf(f), LimitBy(f), job[t].repeated, Request(t).turn)
  <2>1. job' = [job EXCEPT ![t] = Idle]
    BY <1>3, Zenon DEF TurnFails
  <2>2. QED
    BY <1>1, <2>1, EndingIsSteady, SteadyKeepsRetries DEF RetryInv
<1>4. QED
  BY <1>2, <1>3

(***************************************************************************)
(* RetriesBounded: of the failure policy, the launch gate and the caller's *)
(* loop together, for any failures they meet.                              *)
(***************************************************************************)
THEOREM RetriesBoundedHolds == Spec => []RetriesBounded
<1>1. Init => RetryInv /\ WireInv
  <2> SUFFICES ASSUME Init PROVE RetryInv /\ WireInv
    OBVIOUS
  <2>1. \A t \in Tasks : ~Busy(t)
    BY DEF Init, Idle, Busy
  <2>2. RetriesBounded
    BY DEF Init, RetriesBounded
  <2>3. QED
    BY <2>1, <2>2, JobsInitially DEF RetryInv
<1>2. RetryInv /\ WireInv /\ [Next]_vars => RetryInv' /\ WireInv'
  <2> SUFFICES ASSUME RetryInv, WireInv, [Next]_vars PROVE RetryInv'
    BY StepKeepsWire
  <2>1. JobInv /\ JobInv'
    BY StepKeepsJobs DEF RetryInv
  <2>2. Steady => RetryInv'
    BY <2>1, SteadyKeepsRetries
  <2>3. ASSUME NEW t \in Tasks,
               \/ ReadStatuses(t) \/ ReadCooldowns(t) \/ ReadClassifications(t)
               \/ Preliminary(t) \/ Unanswered(t) \/ Arbitrated(t)
               \/ Persist(t) \/ Return(t) \/ Fails(t) \/ Ends(t)
               \/ \E labels \in SessionRequests : CheckSession(t, labels) \/ CheckTurn(t, labels)
               \/ PersistLaunch(t) \/ CreateSession(t)
        PROVE  RetryInv'
    BY <2>1, <2>2, <2>3, ReadingIsSteady, DecidingIsSteady
  <2>4. ASSUME NEW t \in Tasks,
               \/ \E r \in Requests[t] : Begin(t, r)
               \/ SendTurn(t)
               \/ \E f \in Failures : TurnFails(t, f)
        PROVE  RetryInv'
    BY <2>1, <2>4, BeginKeepsRetries, SendKeepsRetries, FailureKeepsRetries
  <2>5. ASSUME \/ \E q \in wire : Acquire(q) \/ Query(q)
               \/ \E t \in Tasks, i \in DOMAIN table : RenewLease(t, i) \/ ReleaseLease(t, i)
               \/ \E e \in Probes : RecordPreflight(e)
               \/ \E s \in Signals : ClassifyLimit(s)
               \/ Tick \/ UNCHANGED vars
        PROVE  RetryInv'
    BY <2>1, <2>2, <2>5, WorldIsSteady
  <2>6. QED
    BY <2>3, <2>4, <2>5 DEF Next
<1>3. RetryInv => RetriesBounded
  BY DEF RetryInv
<1>4. QED
  BY <1>1, <1>2, <1>3, PTL DEF Spec

-----------------------------------------------------------------------------
(* The best of some candidates *)

LEMMA ShareOrder ==
  ASSUME NEW a \in Nat, NEW b \in Nat, NEW c \in Nat,
         NEW u \in Nat \ {0}, NEW v \in Nat \ {0}, NEW w \in Nat \ {0}
  PROVE  /\ a * v > b * u /\ b * w >= c * v => a * w > c * u
         /\ a * v >= b * u /\ b * w > c * v => a * w > c * u
         /\ a * v = b * u /\ b * w = c * v => a * w = c * u
OBVIOUS

\* Candidates that can be put in order.
Sortable(S) ==
  /\ IsFiniteSet(S)
  /\ \A c \in S : /\ c.available \in BOOLEAN
                  /\ {c.slots, c.profile.maxTurns, c.profile.rank} \subseteq Nat
  /\ \A c, d \in S : c # d => c.profile.rank # d.profile.rank

LEMMA BetterIsOrder ==
  ASSUME NEW S, Sortable(S)
  PROVE  IsOrder({x \in S \X S : Better(x[2], x[1])}, S)
<1> DEFINE R == {x \in S \X S : Better(x[2], x[1])}
           ahead(a, b) == a.slots * Whole(b) > b.slots * Whole(a)
           level(a, b) == a.slots * Whole(b) = b.slots * Whole(a)
<1>1. \A a, b \in S : <<a, b>> \in R <=> Better(b, a)
  OBVIOUS
<1>2. \A a \in S : /\ a.slots \in Nat /\ Whole(a) \in Nat \ {0} /\ a.profile.rank \in Nat
                   /\ a.available \in BOOLEAN
  BY DEF Sortable, Whole
<1>3. \A a, b \in S :
         Better(a, b) <=> IF a.available # b.available THEN a.available
                          ELSE ahead(a, b) \/ (level(a, b) /\ a.profile.rank < b.profile.rank)
  <2> SUFFICES ASSUME NEW a \in S, NEW b \in S
               PROVE  Better(a, b) <=> IF a.available # b.available THEN a.available
                          ELSE ahead(a, b) \/ (level(a, b) /\ a.profile.rank < b.profile.rank)
    OBVIOUS
  <2>1. a.slots * Whole(b) \in Nat /\ b.slots * Whole(a) \in Nat
    BY <1>2
  <2>2. QED
    BY <2>1 DEF Better
<1>4. \A a, b, c \in S :
         /\ ahead(a, b) /\ (ahead(b, c) \/ level(b, c)) => ahead(a, c)
         /\ (ahead(a, b) \/ level(a, b)) /\ ahead(b, c) => ahead(a, c)
         /\ level(a, b) /\ level(b, c) => level(a, c)
  <2> SUFFICES ASSUME NEW a \in S, NEW b \in S, NEW c \in S
               PROVE  /\ ahead(a, b) /\ (ahead(b, c) \/ level(b, c)) => ahead(a, c)
                      /\ (ahead(a, b) \/ level(a, b)) /\ ahead(b, c) => ahead(a, c)
                      /\ level(a, b) /\ level(b, c) => level(a, c)
    OBVIOUS
  <2>1. /\ a.slots * Whole(b) \in Nat /\ b.slots * Whole(a) \in Nat
        /\ b.slots * Whole(c) \in Nat /\ c.slots * Whole(b) \in Nat
    BY <1>2
  <2>3. /\ a.slots \in Nat /\ b.slots \in Nat /\ c.slots \in Nat
        /\ Whole(a) \in Nat \ {0} /\ Whole(b) \in Nat \ {0} /\ Whole(c) \in Nat \ {0}
    BY <1>2
  <2> DEFINE ab == a.slots * Whole(b)  ba == b.slots * Whole(a)
             bc == b.slots * Whole(c)  cb == c.slots * Whole(b)
             ac == a.slots * Whole(c)  ca == c.slots * Whole(a)
  <2>5. /\ (ahead(a, b) <=> ab > ba) /\ (level(a, b) <=> ab = ba)
        /\ (ahead(b, c) <=> bc > cb) /\ (level(b, c) <=> bc = cb)
        /\ (ahead(a, c) <=> ac > ca) /\ (level(a, c) <=> ac = ca)
    OBVIOUS
  <2>6. /\ ab > ba /\ bc >= cb => ac > ca
        /\ ab >= ba /\ bc > cb => ac > ca
        /\ ab = ba /\ bc = cb => ac = ca
    <3> DEFINE P(i, j, k, u, v, w) == /\ i * v > j * u /\ j * w >= k * v => i * w > k * u
                                      /\ i * v >= j * u /\ j * w > k * v => i * w > k * u
                                      /\ i * v = j * u /\ j * w = k * v => i * w = k * u
    <3>1. \A i, j, k \in Nat, u, v, w \in Nat \ {0} : P(i, j, k, u, v, w)
      BY ShareOrder
    <3> HIDE DEF P
    <3>2. P(a.slots, b.slots, c.slots, Whole(a), Whole(b), Whole(c))
      BY <2>3, <3>1
    <3>3. QED
      BY <3>2 DEF P
  <2>7. ab \in Nat /\ ba \in Nat /\ bc \in Nat /\ cb \in Nat
    BY <2>1
  <2> HIDE DEF ab, ba, bc, cb, ac, ca, ahead, level
  <2>8. QED
    BY <2>5, <2>6, <2>7
<1>5. \A a, b \in S : ~(ahead(a, b) /\ (ahead(b, a) \/ level(a, b)))
                     /\ (ahead(a, b) \/ ahead(b, a) \/ level(a, b)) /\ (level(a, b) => level(b, a))
  <2> SUFFICES ASSUME NEW a \in S, NEW b \in S
               PROVE  ~(ahead(a, b) /\ (ahead(b, a) \/ level(a, b)))
                     /\ (ahead(a, b) \/ ahead(b, a) \/ level(a, b)) /\ (level(a, b) => level(b, a))
    OBVIOUS
  <2>1. a.slots * Whole(b) \in Nat /\ b.slots * Whole(a) \in Nat
    BY <1>2
  <2>2. QED
    BY <2>1
<1> HIDE DEF ahead, level
<1>6. \A a, b, c \in S : Better(c, b) /\ Better(b, a) => Better(c, a)
  <2> SUFFICES ASSUME NEW a \in S, NEW b \in S, NEW c \in S, Better(c, b), Better(b, a)
               PROVE  Better(c, a)
    OBVIOUS
  <2>1. CASE a.available = b.available /\ b.available = c.available
    BY <1>2, <1>3, <1>4, <2>1
  <2>2. CASE a.available # b.available \/ b.available # c.available
    BY <1>2, <1>3, <2>2
  <2>3. QED
    BY <2>1, <2>2
<1>7. \A a \in S : ~Better(a, a)
  BY <1>2, <1>3, <1>5
<1>8. \A a, b \in S : a # b => Better(a, b) \/ Better(b, a)
  <2> SUFFICES ASSUME NEW a \in S, NEW b \in S, a # b PROVE Better(a, b) \/ Better(b, a)
    OBVIOUS
  <2>1. a.profile.rank < b.profile.rank \/ b.profile.rank < a.profile.rank
    BY <1>2 DEF Sortable
  <2>2. QED
    BY <1>2, <1>3, <1>5, <2>1
<1> HIDE DEF R
<1>9. QED
  BY <1>1, <1>6, <1>7, <1>8 DEF IsOrder

LEMMA BestIsOne ==
  ASSUME NEW S, Sortable(S), S # {}
  PROVE  Best(S) \in S
<1> DEFINE R == {x \in S \X S : Better(x[2], x[1])}
<1>1. PICK m \in S : \A x \in S \ {m} : <<x, m>> \in R
  BY BetterIsOrder, LastOfOrder DEF Sortable
<1>2. \A x \in S \ {m} : Better(m, x)
  BY <1>1
<1>3. QED
  BY <1>2 DEF Best

-----------------------------------------------------------------------------
(* What a candidate's place in the pool says of its profile *)

StatusesRead(statuses) == \A p \in Profiles : IsStatus(p, statuses[p])
ReadSound(read) ==
  StatusesRead(read.statuses) /\ CooldownsSound(read.cooldowns) /\ ClassesSound(read.classes)

LEMMA MaxIsLargest ==
  ASSUME NEW S, IsFiniteSet(S), S # {}, \A x \in S : x \in Int
  PROVE  Max(S) \in S /\ \A x \in S : x <= Max(S)
<1> DEFINE R == {x \in S \X S : x[1] < x[2]}
<1>1. \A x, y \in S : <<x, y>> \in R <=> x < y
  OBVIOUS
<1>2. IsOrder(R, S)
  <2> HIDE DEF R
  <2>1. QED
    BY <1>1 DEF IsOrder
<1>3. \E m \in S : \A x \in S \ {m} : <<x, m>> \in R
  BY <1>2, LastOfOrder
<1> HIDE DEF R
<1>4. \E m \in S : \A x \in S : m >= x
  <2>1. PICK m \in S : \A x \in S \ {m} : <<x, m>> \in R
    BY <1>3
  <2>2. \A x \in S \ {m} : x < m
    BY <1>1, <2>1
  <2>3. QED
    BY <2>2
<1>5. Max(S) \in S /\ \A x \in S : Max(S) >= x
  BY <1>4 DEF Max
<1>6. QED
  BY <1>5

LEMMA NewestIsSound ==
  ASSUME NEW classes, ClassesSound(classes), NEW p, NEW task
  PROVE  LET c == NewestFor(classes, p, task)
         IN c # Nothing => c.resetAt \in MaybeTime /\ AppliesTo(c, p)
<1> DEFINE found == {i \in DOMAIN classes : /\ classes[i].task \in {Nothing, task}
                                            /\ AppliesTo(classes[i], p)}
<1>1. Len(classes) \in Nat /\ found \in SUBSET (1..Len(classes))
  BY DEF ClassesSound
<1>2. found # {} => Max(found) \in found
  <2>1. IsFiniteSet(1..Len(classes))
    BY <1>1, FS_Interval
  <2>2. IsFiniteSet(found)
    BY <1>1, <2>1, FS_Subset
  <2>3. \A i \in found : i \in Int
    BY <1>1
  <2> HIDE DEF found
  <2>4. QED
    BY <2>2, <2>3, MaxIsLargest
<1>3. NewestFor(classes, p, task) = IF found = {} THEN Nothing ELSE classes[Max(found)]
  BY DEF NewestFor
<1>4. QED
  BY <1>2, <1>3 DEF ClassesSound

\* A cooldown pauses while it is active.
LEMMA ActivePauses ==
  ASSUME NEW c, c.resetAt \in MaybeTime, NEW now \in Nat
  PROVE  Active(c, now) <=> Pausing(c, now)
BY ProfilesAssumption DEF Active, Expired, Pausing, MaybeTime

LEMMA CooledIsPaused ==
  ASSUME NEW read, ReadSound(read), NEW now \in Nat, NEW p \in Profiles
  PROVE  /\ Cooled(p, read, now) <=> \E c \in Sources(read, p) : Pausing(c, now)
         /\ FamilyCooled(p, read, now) => Cooled(p, read, now)
<1>1. \A c \in Sources(read, p) : c.resetAt \in MaybeTime
  BY ProfilesAssumption DEF Sources, ReadSound, StatusesRead, CooldownsSound, IsStatus
<1>2. \A c \in Sources(read, p) : Active(c, now) <=> Pausing(c, now)
  BY <1>1, ActivePauses
<1>3. Cooled(p, read, now) <=> \E c \in Sources(read, p) : Active(c, now)
  BY DEF Cooled, FamilyCooled, Sources
<1>4. QED
  BY <1>2, <1>3 DEF Cooled

\* Limits that stop a profile leave it no turns.
LEMMA StopsLeaveNone ==
  ASSUME NEW read, ReadSound(read), NEW now \in Nat, NEW p \in Profiles, NEW task,
         Stopped(read, p, task, now)
  PROVE  TargetTurns(p, Effective(NewestFor(read.classes, p, task), p, now)) = 0
<1> DEFINE class == NewestFor(read.classes, p, task)
<1>1. class # Nothing /\ class.type \in HardStop
      /\ class.resetAt \in MaybeTime /\ AppliesTo(class, p)
  BY NewestIsSound DEF Stopped, ReadSound
<1>2. ~Expired(class.type, class.resetAt, now)
  BY <1>1, ProfilesAssumption DEF Stopped, Expired, MaybeTime
<1>3. QED
  BY <1>1, <1>2 DEF Effective, TargetTurns

LEMMA TargetsAreBounded ==
  ASSUME NEW p \in Profiles, NEW class
  PROVE  TargetTurns(p, class) \in 0..p.maxTurns
BY ProfilesAssumption DEF TargetTurns

\* A free slot is one that neither the profile nor a limit takes away.
LEMMA FreeSlots ==
  ASSUME NEW p \in Profiles, NEW class, NEW status, status.turns \in Nat
  PROVE  /\ Slots(p, status, class) \in Nat
         /\ Slots(p, status, class) > 0 => status.turns < p.maxTurns /\ TargetTurns(p, class) > 0
<1>1. TargetTurns(p, class) \in 0..p.maxTurns /\ p.maxTurns \in Nat
  BY TargetsAreBounded, ProfilesAssumption
<1>2. QED
  BY <1>1 DEF Slots, Smaller

\* A preflight that finds a profile unfit has it blocked.
LEMMA UnfitIsBlocked ==
  ASSUME NEW p, NEW status, IsStatus(p, status), Unfit(p, status)
  PROVE  status.status = "blocked"
<1> DEFINE has == Settings[p.id]
           readiness == Readiness(p, status.probe, status.turns, status.sessions)
<1>1. status.status = LedgerStatus(readiness)
  BY DEF IsStatus, Unfit
<1>2. CASE has.isolation = "host_env" /\ ~("development" \in has.tags /\ has.allowlist # {})
  <2>1. Kind(has.tags) = "development" <=> "development" \in has.tags
    BY DEF Kind
  <2>2. readiness = "blocked"
    BY <1>2, <2>1 DEF Readiness, EnvironmentRefused
  <2>3. QED
    BY <1>1, <2>2 DEF LedgerStatus
<1>3. CASE status.probe.blocked
  BY <1>1, <1>3 DEF Readiness, LedgerStatus
<1>4. CASE /\ has.authMode # "none" /\ status.probe.auth = "missing"
           /\ ~p.ownCooldown.active /\ ~p.familyCooldown.active
  <2>1. AuthAvailable(has, status.probe) = "missing" /\ ~ProfileCooldown(p).active
    BY <1>4, NothingAssumption DEF AuthAvailable, ProfileCooldown
  <2>2. readiness \in {"blocked", "needs_auth"}
    BY <1>4, <2>1 DEF Readiness
  <2>3. QED
    BY <1>1, <2>2 DEF LedgerStatus
<1>5. QED
  BY <1>2, <1>3, <1>4 DEF Unfit

LEMMA CandidateSays ==
  ASSUME NEW read, ReadSound(read), NEW now \in Nat, NEW p \in Profiles, NEW task
  PROVE  LET c == Candidate(p, read, task, now) IN
         /\ c.profile = p /\ c.slots \in Nat /\ c.available \in BOOLEAN
         /\ c.available => ~Paused(read, p, task, now) /\ ~Full(read, p)
         /\ c.cooled => \E s \in Sources(read, p) : Pausing(s, now)
         /\ c.familyCooled => ~c.available
<1> DEFINE c == Candidate(p, read, task, now)
           status == read.statuses[p]
           class == Effective(NewestFor(read.classes, p, task), p, now)
<1>1. /\ IsStatus(p, status) /\ {status.turns, status.sessions} \subseteq Nat
      /\ {p.maxTurns, p.maxSessions} \subseteq Nat
  BY ProfilesAssumption DEF ReadSound, StatusesRead, IsStatus
<1>2. /\ c.profile = p /\ c.slots = Slots(p, status, class)
      /\ c.cooled = Cooled(p, read, now) /\ c.familyCooled = FamilyCooled(p, read, now)
      /\ c.available = (/\ status.status # "blocked" /\ ~Cooled(p, read, now)
                        /\ status.sessions < p.maxSessions
                        /\ Slots(p, status, class) > 0)
  BY DEF Candidate
<1>3. /\ Slots(p, status, class) \in Nat
      /\ Slots(p, status, class) > 0 => status.turns < p.maxTurns /\ TargetTurns(p, class) > 0
  BY <1>1, FreeSlots
<1>4. ASSUME c.available PROVE ~Paused(read, p, task, now) /\ ~Full(read, p)
  <2>1. /\ status.status # "blocked" /\ status.sessions < p.maxSessions
        /\ status.turns < p.maxTurns /\ TargetTurns(p, class) > 0
    BY <1>2, <1>3, <1>4
  <2>2. ~Full(read, p)
    BY <1>1, <2>1 DEF Full
  <2>3. ~Unfit(p, read.statuses[p])
    BY <1>1, <2>1, UnfitIsBlocked
  <2>4. ~Stopped(read, p, task, now)
    BY <2>1, StopsLeaveNone
  <2>5. ~\E s \in Sources(read, p) : Pausing(s, now)
    BY <1>2, <1>4, CooledIsPaused
  <2>6. QED
    BY <2>2, <2>3, <2>4, <2>5 DEF Paused
<1>5. /\ c.cooled => \E s \in Sources(read, p) : Pausing(s, now)
      /\ c.familyCooled => ~c.available
  BY <1>2, CooledIsPaused
<1>6. QED
  BY <1>2, <1>3, <1>4, <1>5

LEMMA PoolIsSortable ==
  ASSUME NEW read, ReadSound(read), NEW now \in Nat, NEW task,
         NEW S, S \subseteq Pool(read, task, now)
  PROVE  Sortable(S)
<1> DEFINE f == [p \in Profiles |-> Candidate(p, read, task, now)]
<1>1. IsFiniteSet(S)
  <2>1. Pool(read, task, now) = {f[p] : p \in Profiles}
    BY DEF Pool
  <2>2. IsFiniteSet({f[p] : p \in Profiles})
    <3>1. f \in Surjection(Profiles, {f[p] : p \in Profiles})
      BY DEF Surjection
    <3>2. QED
      BY <3>1, ProfilesAssumption, FS_Surjection
  <2>3. QED
    BY <2>1, <2>2, FS_Subset
<1>2. \A c \in S : c.profile \in Profiles /\ c = Candidate(c.profile, read, task, now)
  BY CandidateSays DEF Pool
<1>3. \A c \in S : c.slots \in Nat /\ c.available \in BOOLEAN
  BY <1>2, CandidateSays
<1>4. \A c, d \in S : c # d => c.profile # d.profile
  BY <1>2
<1>5. QED
  BY <1>1, <1>2, <1>3, <1>4, ProfilesAssumption DEF Sortable

-----------------------------------------------------------------------------
(* A plan is justified by what was read *)

\* The gate allows what is available and waits for what is cooling down.
LEMMA GateSays ==
  ASSUME NEW c, NEW preferred, NEW arbitration, NEW confirmed
  PROVE  LET action == LaunchGate(c, preferred, arbitration, confirmed) IN
         /\ action = "allowed" => c.available
         /\ action = "wait_for_reset" => c.cooled
BY DEF LaunchGate

\* A route leaves the preferred candidate only if the work can move, and for
\* another account only with consent.
LEMMA FallbacksAreFit ==
  ASSUME NEW pool, NEW preferred, NEW class, NEW r, NEW c \in Fallbacks(pool, preferred, class, r)
  PROVE  /\ c \in pool
         /\ Movable(r)
         /\ OtherAccount(c, preferred) => r.confirmed
<1>1. c \in pool /\ SwitchAllowed(c, preferred, class, r.confirmed) /\ Migrates(r)
  BY DEF Fallbacks
<1>2. Movable(r)
  BY <1>1 DEF Migrates, Score, Movable
<1>3. QED
  BY <1>1, <1>2 DEF SwitchAllowed

LEMMA ReasonSays ==
  ASSUME NEW c, NEW preferred, NEW class, NEW wish
  PROVE  LET reason == RouteReason(c, preferred, class, wish) IN
         /\ reason = "explicit_override" <=> wish.profile # Nothing /\ c.profile = preferred.profile
         /\ reason = "provider_cooldown" => c.familyCooled
BY DEF RouteReason

LEMMA PlanIsJustified ==
  ASSUME NEW read, ReadSound(read), NEW now \in Nat, NEW r, NEW arbitration, Fits(read, r, now)
  PROVE  Justified(Plan(read, r, now, arbitration), read, r.task, r, now)
<1> DEFINE pool == Pool(read, r.task, now)
           wished == Preferable(pool, r.preferred)
           preferred == Best(wished)
           class == Effective(NewestFor(read.classes, preferred.profile, r.task),
                              preferred.profile, now)
           fallbacks == Fallbacks(pool, preferred, class, r)
           chosen == IF preferred.available \/ fallbacks = {} THEN preferred ELSE Best(fallbacks)
           d == [task |-> r.task, target |-> chosen.profile, preferred |-> preferred.profile,
                 action |-> LaunchGate(chosen, preferred, arbitration, r.confirmed),
                 reason |-> RouteReason(chosen, preferred, class, r.preferred),
                 lease |-> arbitration]
<1>1. Plan(read, r, now, arbitration) = d
  BY Zenon DEF Plan, Fits
<1>2. /\ preferred \in pool
      /\ r.preferred.profile \in {Nothing, preferred.profile.id}
  <2>1. wished # {} /\ wished \subseteq pool
    BY DEF Fits, Preferable
  <2>2. preferred \in wished
    BY <2>1, PoolIsSortable, BestIsOne
  <2>3. QED
    BY <2>2 DEF Preferable
<1>3. chosen = preferred \/ chosen \in fallbacks
  <2>1. fallbacks \subseteq pool
    BY FallbacksAreFit
  <2>2. fallbacks # {} => Best(fallbacks) \in fallbacks
    BY <2>1, PoolIsSortable, BestIsOne
  <2>3. QED
    BY <2>2
<1>4. chosen \in pool
  BY <1>2, <1>3, FallbacksAreFit
<1>5. \A c \in pool : c.profile \in Profiles /\ c = Candidate(c.profile, read, r.task, now)
  BY CandidateSays DEF Pool
<1>6. /\ d.target = chosen.profile /\ d.preferred = preferred.profile
      /\ d.action = LaunchGate(chosen, preferred, arbitration, r.confirmed)
      /\ d.reason = RouteReason(chosen, preferred, class, r.preferred)
  OBVIOUS
<1>7. chosen.profile # preferred.profile =>
         /\ Movable(r)
         /\ chosen.profile.provider = preferred.profile.provider => r.confirmed
  BY <1>2, <1>3, <1>4, <1>5, FallbacksAreFit, ProfilesAssumption DEF OtherAccount
<1> HIDE DEF pool, wished, preferred, class, fallbacks, chosen, d
<1>8. /\ chosen.available => ~Paused(read, chosen.profile, r.task, now) /\ ~Full(read, chosen.profile)
      /\ chosen.cooled => \E s \in Sources(read, chosen.profile) : Pausing(s, now)
      /\ chosen.familyCooled => ~chosen.available
  BY <1>4, <1>5, CandidateSays
<1>9. /\ d.action = "allowed" => chosen.available
      /\ d.action = "wait_for_reset" => chosen.cooled
  BY <1>6, GateSays
<1>10. /\ d.reason = "explicit_override" <=>
            r.preferred.profile # Nothing /\ chosen.profile = preferred.profile
       /\ d.reason = "provider_cooldown" => chosen.familyCooled
  BY <1>6, ReasonSays
<1>11. d.reason = "explicit_override" <=> r.preferred.profile = chosen.profile.id
  <2>1. chosen.profile \in Profiles /\ preferred.profile \in Profiles
    BY <1>2, <1>4, <1>5
  <2>2. QED
    BY <1>2, <1>10, <2>1, ProfilesAssumption
<1>12. Justified(d, read, r.task, r, now)
  BY <1>6, <1>7, <1>8, <1>9, <1>10, <1>11 DEF Justified
<1>13. QED
  BY <1>1, <1>12

-----------------------------------------------------------------------------
(* What a call has read *)

Judged == {"told", "planned", "recorded"}

\* At each step of a call x of task t, what it has read so far is sound; once
\* it is decided, the decision is justified by that.
Informed(x, t) ==
  /\ x.at # "idle" => x.request \in Requests[t]
  /\ x.at \in Reading => DOMAIN x.read = {"statuses", "cooldowns", "classes"}
  /\ x.at \in {"cooldowns", "classes", "plan"} \cup Decided => StatusesRead(x.read.statuses)
  /\ x.at \in {"classes", "plan"} \cup Decided => CooldownsSound(x.read.cooldowns)
  /\ x.at \in {"plan"} \cup Decided => ClassesSound(x.read.classes)
  /\ x.at \in Decided => x.now \in Nat
  /\ x.at \in Judged => Justified(x.decision, x.read, t, x.request, x.now)

RouteInv ==
  /\ clock \in Nat
  /\ IsLedger(ledger)
  /\ \A t \in Tasks : Informed(job[t], t)

(* The ledger stays sound *)

LEMMA ClassifiedIsSound ==
  ASSUME NEW s, {s.resetsAt, s.resetHeader} \subseteq MaybeTime
  PROVE  Classified(s).resetAt \in MaybeTime
<1>1. Classified(s).resetAt = ResetOf(s)
  BY Zenon DEF Classified
<1>2. QED
  BY <1>1 DEF ResetOf

LEMMA Appended ==
  ASSUME NEW s, s \in Seq(ToSet(s)), NEW c
  PROVE  /\ Append(s, c) \in Seq(ToSet(Append(s, c)))
         /\ \A i \in DOMAIN Append(s, c) : \/ i \in DOMAIN s /\ Append(s, c)[i] = s[i]
                                           \/ Append(s, c)[i] = c
<1> DEFINE t == Append(s, c)
<1>1. /\ Len(s) \in Nat /\ Len(t) = Len(s) + 1 /\ DOMAIN t = 1..Len(t) /\ DOMAIN s = 1..Len(s)
      /\ \A i \in DOMAIN t : t[i] = IF i <= Len(s) THEN s[i] ELSE c
  OBVIOUS
<1>2. t \in Seq(ToSet(t))
  <2>1. t \in Seq(ToSet(s) \cup {c})
    OBVIOUS
  <2>2. \A i \in 1..Len(t) : t[i] \in ToSet(t)
    BY <1>1 DEF ToSet
  <2> HIDE DEF t
  <2>3. QED
    BY <1>1, <2>1, <2>2
<1>3. QED
  BY <1>1, <1>2

\* The cooldown that a failure calls for, if any.
LEMMA CooldownIsSound ==
  ASSUME NEW f \in Failures, FamilyCooldown(LimitBy(f)) # Nothing
  PROVE  FamilyCooldown(LimitBy(f)).resetAt \in MaybeTime
<1> DEFINE class == LimitBy(f)
<1>1. class # Nothing /\ FamilyCooldown(class).resetAt = class.resetAt
  BY DEF FamilyCooldown
<1>2. CASE f.by = "catalog"
  BY <1>1, <1>2, InputsAssumption, ClassifiedIsSound DEF LimitBy
<1>3. CASE f.by = "mapper"
  BY <1>1, <1>3 DEF LimitBy, LimitOf, MaybeTime
<1>4. CASE f.by = "none"
  BY <1>1, <1>4 DEF LimitBy
<1>5. QED
  BY <1>2, <1>3, <1>4, InputsAssumption

LEMMA CooledLedger ==
  ASSUME NEW cooldowns, CooldownsSound(cooldowns), NEW v, NEW c, c.resetAt \in MaybeTime
  PROVE  CooldownsSound([cooldowns EXCEPT ![v] = c])
BY DEF CooldownsSound

LEMMA SomeIsNewest ==
  ASSUME NEW S, IsFiniteSet(S), S # {}, NEW time,
         \A i \in S : i \in Int /\ time[i] \in Int
  PROVE  \E m \in S : \A i \in S : time[i] < time[m] \/ (time[i] = time[m] /\ i <= m)
<1> DEFINE earlier(i, j) == time[i] < time[j] \/ (time[i] = time[j] /\ i < j)
           R == {x \in S \X S : earlier(x[1], x[2])}
<1>1. \A i, j \in S : <<i, j>> \in R <=> earlier(i, j)
  OBVIOUS
<1> HIDE DEF R
<1>2. IsOrder(R, S)
  BY <1>1 DEF IsOrder
<1>3. \E m \in S : \A i \in S \ {m} : <<i, m>> \in R
  BY <1>2, LastOfOrder
<1>4. PICK m \in S : \A i \in S \ {m} : <<i, m>> \in R
  BY <1>3
<1>5. \A i \in S \ {m} : earlier(i, m)
  BY <1>1, <1>4
<1>6. QED
  BY <1>5

\* The status checked last is one of those recorded.
LEMMA NewestCheckIsOne ==
  ASSUME NEW p, NEW statuses, statuses \in Seq(ToSet(statuses)),
         \A i \in DOMAIN statuses : IsStatus(p, statuses[i])
  PROVE  {NewestCheck(statuses).turns, NewestCheck(statuses).sessions} \subseteq Nat
<1>1. CASE statuses = <<>>
  BY <1>1 DEF NewestCheck, NoStatus
<1>2. CASE statuses # <<>>
  <2> DEFINE time == [i \in DOMAIN statuses |-> statuses[i].checkedAt]
             newest(i) == \A j \in DOMAIN statuses :
                             \/ statuses[j].checkedAt < statuses[i].checkedAt
                             \/ (statuses[j].checkedAt = statuses[i].checkedAt /\ j <= i)
             k == CHOOSE i \in DOMAIN statuses : newest(i)
  <2>1. Len(statuses) \in Nat /\ DOMAIN statuses = 1..Len(statuses) /\ DOMAIN statuses # {}
    BY <1>2
  <2>2. IsFiniteSet(DOMAIN statuses)
    BY <2>1, FS_Interval
  <2>3. \A i \in DOMAIN statuses : i \in Int /\ time[i] \in Int /\ time[i] = statuses[i].checkedAt
    BY <2>1 DEF IsStatus
  <2> HIDE DEF time
  <2>4. \E m \in DOMAIN statuses : \A i \in DOMAIN statuses :
           time[i] < time[m] \/ (time[i] = time[m] /\ i <= m)
    BY <2>1, <2>2, <2>3, SomeIsNewest
  <2>5. \E m \in DOMAIN statuses : newest(m)
    BY <2>3, <2>4
  <2>6. k \in DOMAIN statuses
    BY <2>5
  <2>7. NewestCheck(statuses) = statuses[k]
    BY <1>2, Zenon DEF NewestCheck
  <2> HIDE DEF k
  <2>8. QED
    BY <2>6, <2>7 DEF IsStatus
<1>3. QED
  BY <1>1, <1>2

\* What a preflight records is a status, whatever it read.
LEMMA PreflightIsStatus ==
  ASSUME NEW e \in Probes, NEW prior, {prior.turns, prior.sessions} \subseteq Nat, NEW now \in Nat
  PROVE  IsStatus(e.profile, Preflight(e.profile, e, prior, now))
<1> DEFINE p == e.profile
           turns == IF e.turns # Nothing THEN e.turns ELSE prior.turns
           open == IF e.sessions # Nothing THEN e.sessions ELSE prior.sessions
           readiness == Readiness(p, e, turns, open)
           s == Preflight(p, e, prior, now)
<1>1. turns \in Nat /\ open \in Nat /\ p \in Profiles
  BY InputsAssumption DEF MaybeTime
<1>2. /\ s.turns = turns /\ s.sessions = open /\ s.checkedAt = now /\ s.probe = e
      /\ s.status = LedgerStatus(readiness)
      /\ s.cooldown \in {ProfileCooldown(p), NoCooldown}
  BY Zenon DEF Preflight
<1>3. s.cooldown.resetAt \in MaybeTime
  BY <1>1, <1>2, ProfilesAssumption DEF ProfileCooldown, NoCooldown, MaybeTime
<1> HIDE DEF s, turns, open, readiness
<1>4. IsStatus(p, s)
  BY <1>1, <1>2, <1>3 DEF IsStatus, readiness
<1>5. QED
  BY <1>4 DEF s

LEMMA PreflightKeepsLedger ==
  ASSUME IsLedger(ledger), clock \in Nat, NEW e \in Probes, RecordPreflight(e)
  PROVE  IsLedger(ledger)'
<1> DEFINE p == e.profile
           recorded == ledger.statuses[p]
<1>1. PICK k \in 0..Len(recorded), now \in 0..clock :
         ledger' = [ledger EXCEPT !.statuses[p] =
                      Append(@, Preflight(p, e, NewestCheck(SubSeq(recorded, 1, k)), now))]
  BY Zenon DEF RecordPreflight
<1> DEFINE read == SubSeq(recorded, 1, k)
           s == Preflight(p, e, NewestCheck(read), now)
<1>2. p \in Profiles
  BY InputsAssumption
<1>3. recorded \in Seq(ToSet(recorded)) /\ \A i \in DOMAIN recorded : IsStatus(p, recorded[i])
  BY <1>2 DEF IsLedger
<1>4. Len(recorded) \in Nat /\ k \in Nat /\ k <= Len(recorded) /\ now \in Nat
  BY <1>3
<1>5. /\ DOMAIN read = 1..k /\ \A i \in 1..k : read[i] = recorded[i]
      /\ DOMAIN recorded = 1..Len(recorded)
  BY <1>3, <1>4
<1>6. read \in Seq(ToSet(read)) /\ \A i \in DOMAIN read : IsStatus(p, read[i])
  <2>1. read \in Seq(ToSet(recorded)) /\ Len(read) = k
    BY <1>3, <1>4
  <2>2. \A i \in 1..k : read[i] \in ToSet(read)
    BY <1>5 DEF ToSet
  <2>3. \A i \in 1..k : IsStatus(p, read[i])
    BY <1>3, <1>4, <1>5
  <2>4. QED
    BY <1>5, <2>1, <2>2, <2>3
<1>7. IsStatus(p, s)
  <2>1. {NewestCheck(read).turns, NewestCheck(read).sessions} \subseteq Nat
    BY <1>6, NewestCheckIsOne
  <2>2. QED
    BY <1>4, <2>1, PreflightIsStatus
<1> DEFINE t == Append(recorded, s)
<1>8. t \in Seq(ToSet(t)) /\ \A i \in DOMAIN t : IsStatus(p, t[i])
  <2> HIDE DEF s
  <2> HIDE DEF recorded
  <2>1. QED
    BY <1>3, <1>7, Appended
<1>9. /\ DOMAIN ledger' = DOMAIN ledger /\ DOMAIN ledger'.statuses = DOMAIN ledger.statuses
      /\ \A q \in Profiles : ledger'.statuses[q] = IF q = p THEN t ELSE ledger.statuses[q]
      /\ ledger'.cooldowns = ledger.cooldowns /\ ledger'.classes = ledger.classes
  <2>1. ledger' = [ledger EXCEPT !.statuses[p] = Append(@, s)]
    BY <1>1, Zenon
  <2> HIDE DEF s
  <2>2. QED
    BY <1>2, <2>1 DEF IsLedger
<1> HIDE DEF t
<1>10. QED
  BY <1>8, <1>9 DEF IsLedger

\* Whatever happens, the ledger stays sound.
LEMMA StepKeepsLedger ==
  ASSUME clock \in Nat, IsLedger(ledger), [Next]_vars
  PROVE  clock' \in Nat /\ IsLedger(ledger)'
<1>2. UNCHANGED ledger => IsLedger(ledger)'
  BY DEF IsLedger
<1>3. ASSUME NEW t \in Tasks, NEW f \in Failures, TurnFails(t, f) PROVE IsLedger(ledger)'
  <2> DEFINE c == FamilyCooldown(LimitBy(f))
  <2>1. \/ ledger' = ledger
        \/ c # Nothing /\ ledger' = [ledger EXCEPT !.cooldowns[LimitBy(f).provider] = c]
    BY <1>3, Zenon DEF TurnFails
  <2>2. ASSUME c # Nothing, ledger' = [ledger EXCEPT !.cooldowns[LimitBy(f).provider] = c]
        PROVE  IsLedger(ledger)'
    <3>1. c.resetAt \in MaybeTime
      BY <2>2, CooldownIsSound
    <3> HIDE DEF c
    <3>2. /\ DOMAIN ledger' = DOMAIN ledger
          /\ ledger'.statuses = ledger.statuses /\ ledger'.classes = ledger.classes
          /\ ledger'.cooldowns = [ledger.cooldowns EXCEPT ![LimitBy(f).provider] = c]
      BY <2>2 DEF IsLedger
    <3>3. CooldownsSound([ledger.cooldowns EXCEPT ![LimitBy(f).provider] = c])
      BY <3>1, CooledLedger DEF IsLedger
    <3>4. QED
      BY <3>2, <3>3 DEF IsLedger
  <2>3. QED
    BY <1>2, <2>1, <2>2
<1>4. ASSUME NEW s \in Signals, ClassifyLimit(s) PROVE IsLedger(ledger)'
  <2>1. ledger' = [ledger EXCEPT !.classes = Append(@, Classified(s))]
    BY <1>4, Zenon DEF ClassifyLimit
  <2>2. /\ DOMAIN ledger' = DOMAIN ledger
        /\ ledger'.statuses = ledger.statuses /\ ledger'.cooldowns = ledger.cooldowns
        /\ ledger'.classes = Append(ledger.classes, Classified(s))
    BY <2>1 DEF IsLedger
  <2>3. Classified(s).resetAt \in MaybeTime
    BY InputsAssumption, ClassifiedIsSound
  <2>4. ClassesSound(Append(ledger.classes, Classified(s)))
    BY <2>3, Appended DEF IsLedger, ClassesSound
  <2>5. QED
    BY <2>2, <2>4 DEF IsLedger
<1>5. ASSUME NEW t \in Tasks,
             \/ ReadStatuses(t) \/ ReadCooldowns(t) \/ ReadClassifications(t)
             \/ Preliminary(t) \/ Unanswered(t) \/ Arbitrated(t)
             \/ Persist(t) \/ Return(t) \/ Fails(t) \/ Ends(t)
             \/ \E r \in Requests[t] : Begin(t, r)
      PROVE  UNCHANGED <<ledger, clock>>
  BY <1>5 DEF ReadStatuses, ReadCooldowns, ReadClassifications, Reads, Preliminary, Unanswered,
              Arbitrated, Persist, Return, Fails, Ends, Begin
<1>6. ASSUME NEW t \in Tasks,
             \/ \E labels \in SessionRequests : CheckSession(t, labels) \/ CheckTurn(t, labels)
             \/ PersistLaunch(t) \/ CreateSession(t) \/ SendTurn(t)
             \/ \E i \in DOMAIN table : RenewLease(t, i) \/ ReleaseLease(t, i)
      PROVE  UNCHANGED <<ledger, clock>>
  BY <1>6 DEF CheckSession, CheckTurn, PersistLaunch, CreateSession, SendTurn, RenewLease,
              ReleaseLease
<1>7. ASSUME \/ \E q \in wire : Acquire(q) \/ Query(q)
             \/ UNCHANGED vars
      PROVE  UNCHANGED <<ledger, clock>>
  BY <1>7 DEF Acquire, Query, Served, vars
<1>8. ASSUME \/ \E t \in Tasks : \E f \in Failures : TurnFails(t, f)
             \/ \E e \in Probes : RecordPreflight(e)
             \/ \E s \in Signals : ClassifyLimit(s)
      PROVE  clock' = clock
  BY <1>8 DEF TurnFails, RecordPreflight, ClassifyLimit
<1>9. ASSUME Tick PROVE clock' \in Nat /\ UNCHANGED ledger
  BY <1>9 DEF Tick
<1>10. QED
  BY <1>2, <1>3, <1>4, <1>5, <1>6, <1>7, <1>8, <1>9, PreflightKeepsLedger DEF Next

(* Each step of a call keeps it informed *)

Moves(t) == Informed(job'[t], t) /\ \A u \in Tasks \ {t} : job'[u] = job[u]

LEMMA MoveKeepsCalls ==
  ASSUME RouteInv, clock' \in Nat, IsLedger(ledger)', NEW t \in Tasks, Moves(t)
  PROVE  RouteInv'
BY DEF RouteInv, Moves

LEMMA BeginMoves ==
  ASSUME JobInv, NEW t \in Tasks, NEW r \in Requests[t], Begin(t, r) PROVE Moves(t)
<1>1. /\ job'[t].at = "statuses" /\ job'[t].request = r /\ job'[t].read = Unread
      /\ \A u \in Tasks \ {t} : job'[u] = job[u]
  BY DEF Begin, JobInv
<1>2. DOMAIN Unread = {"statuses", "cooldowns", "classes"}
  BY DEF Unread
<1>3. QED
  BY <1>1, <1>2 DEF Moves, Informed, Decided, Judged

LEMMA ReadingMoves ==
  ASSUME RouteInv, JobInv, NEW t \in Tasks,
         ReadStatuses(t) \/ ReadCooldowns(t) \/ ReadClassifications(t)
  PROVE  Moves(t)
<1>1. /\ DOMAIN job = Tasks /\ DOMAIN job[t] = JobFields /\ Busy(t)
      /\ job[t].at \in Reading /\ job[t].request \in Requests[t]
      /\ DOMAIN job[t].read = {"statuses", "cooldowns", "classes"}
  BY DEF JobInv, RouteInv, Informed, ReadStatuses, ReadCooldowns, ReadClassifications, Reads,
         At, Busy, Reading
<1>2. ASSUME ReadStatuses(t) PROVE Moves(t)
  <2>1. /\ job'[t].at = "cooldowns" /\ job'[t].request = job[t].request
        /\ job'[t].read = [job[t].read EXCEPT !.statuses = [p \in Profiles |-> Latest(ledger.statuses[p])]]
        /\ \A u \in Tasks \ {t} : job'[u] = job[u]
    BY <1>1, <1>2 DEF ReadStatuses, JobFields
  <2>2. \A p \in Profiles : IsStatus(p, Latest(ledger.statuses[p]))
    <3> SUFFICES ASSUME NEW p \in Profiles PROVE IsStatus(p, Latest(ledger.statuses[p]))
      OBVIOUS
    <3> DEFINE s == ledger.statuses[p]
    <3>1. s \in Seq(ToSet(s)) /\ \A i \in DOMAIN s : IsStatus(p, s[i])
      BY DEF RouteInv, IsLedger
    <3> HIDE DEF s
    <3>2. s # <<>> => Last(s) = s[Len(s)] /\ Len(s) \in DOMAIN s
      BY <3>1 DEF Last
    <3>3. IsStatus(p, NoStatus)
      BY DEF IsStatus, NoStatus, NoCooldown, MaybeTime
    <3>4. IsStatus(p, Latest(s))
      BY <3>1, <3>2, <3>3 DEF Latest
    <3>5. QED
      BY <3>4 DEF s
  <2>3. /\ DOMAIN job'[t].read = DOMAIN job[t].read
        /\ \A p \in Profiles : job'[t].read.statuses[p] = Latest(ledger.statuses[p])
    BY <1>1, <2>1
  <2>4. StatusesRead(job'[t].read.statuses)
    BY <2>2, <2>3 DEF StatusesRead
  <2>5. QED
    BY <1>1, <2>1, <2>3, <2>4 DEF Moves, Informed, Decided, Judged
<1>3. ASSUME ReadCooldowns(t) PROVE Moves(t)
  <2>1. /\ job[t].at = "cooldowns" /\ job'[t].at = "classes" /\ job'[t].request = job[t].request
        /\ job'[t].read = [job[t].read EXCEPT !.cooldowns = ledger.cooldowns]
        /\ \A u \in Tasks \ {t} : job'[u] = job[u]
    BY <1>1, <1>3 DEF ReadCooldowns, Reads, At, JobFields
  <2>2. /\ DOMAIN job'[t].read = DOMAIN job[t].read /\ job'[t].read.cooldowns = ledger.cooldowns
        /\ job'[t].read.statuses = job[t].read.statuses
    BY <1>1, <2>1
  <2>3. StatusesRead(job[t].read.statuses) /\ CooldownsSound(ledger.cooldowns)
    BY <2>1 DEF RouteInv, Informed, IsLedger
  <2>4. QED
    BY <1>1, <2>1, <2>2, <2>3 DEF Moves, Informed, Decided, Judged
<1>4. ASSUME ReadClassifications(t) PROVE Moves(t)
  <2>1. /\ job[t].at = "classes" /\ job'[t].at = "plan" /\ job'[t].request = job[t].request
        /\ job'[t].read = [job[t].read EXCEPT !.classes = ledger.classes]
        /\ \A u \in Tasks \ {t} : job'[u] = job[u]
    BY <1>1, <1>4 DEF ReadClassifications, Reads, At, JobFields
  <2>2. /\ DOMAIN job'[t].read = DOMAIN job[t].read /\ job'[t].read.classes = ledger.classes
        /\ job'[t].read.statuses = job[t].read.statuses
        /\ job'[t].read.cooldowns = job[t].read.cooldowns
    BY <1>1, <2>1
  <2>3. /\ StatusesRead(job[t].read.statuses) /\ CooldownsSound(job[t].read.cooldowns)
        /\ ClassesSound(ledger.classes)
    BY <2>1 DEF RouteInv, Informed, IsLedger
  <2>4. QED
    BY <1>1, <2>1, <2>2, <2>3 DEF Moves, Informed, Decided, Judged
<1>5. QED
  BY <1>2, <1>3, <1>4

\* The plan over what a call has read, at a moment.
LEMMA PlanOfCall ==
  ASSUME NEW x, NEW t \in Tasks, Informed(x, t), x.at \in {"plan"} \cup Decided,
         NEW now \in Nat, NEW arbitration, Fits(x.read, [x.request EXCEPT !.task = t], now)
  PROVE  Justified(Plan(x.read, [x.request EXCEPT !.task = t], now, arbitration),
                   x.read, t, x.request, now)
<1> DEFINE r == [x.request EXCEPT !.task = t]
           d == Plan(x.read, r, now, arbitration)
<1>1. ReadSound(x.read) /\ x.request \in Requests[t]
  BY DEF Informed, ReadSound, Decided
<1>2. DOMAIN x.request = RequestFields
  BY <1>1, InputsAssumption
<1>3. /\ r.task = t /\ r.preferred = x.request.preferred /\ r.confirmed = x.request.confirmed
      /\ r.continuation = x.request.continuation /\ r.handoff = x.request.handoff
      /\ r.worktree = x.request.worktree /\ r.filesystem = x.request.filesystem
      /\ r.mayMigrate = x.request.mayMigrate
  BY <1>2 DEF RequestFields
<1> HIDE DEF r
<1>4. Justified(d, x.read, r.task, r, now)
  BY <1>1, PlanIsJustified DEF r
<1> HIDE DEF d
<1>5. Justified(d, x.read, t, x.request, now)
  BY <1>3, <1>4 DEF Justified, Movable
<1>6. QED
  BY <1>5 DEF d, r

LEMMA PlanningMoves ==
  ASSUME RouteInv, JobInv, NEW t \in Tasks, Preliminary(t) PROVE Moves(t)
<1>1. DOMAIN job = Tasks /\ DOMAIN job[t] = JobFields /\ job[t].at = "plan"
  BY DEF JobInv, Preliminary, At, Busy
<1> DEFINE plan == Plan(job[t].read, Wish(t), clock, NotRequested)
           fixed(at) == [[job[t] EXCEPT !.now = clock] EXCEPT !.decision = plan, !.at = at]
<1>2. CASE job' = [job EXCEPT ![t] = Idle]
  BY <1>1, <1>2 DEF Moves, Informed, Idle, Reading, Decided, Judged
<1>3. ASSUME plan # Nothing, NEW at \in {"waiting", "planned"}, job' = [job EXCEPT ![t] = fixed(at)]
      PROVE  Moves(t)
  <2>1. /\ job'[t].at = at /\ job'[t].request = job[t].request /\ job'[t].read = job[t].read
        /\ job'[t].now = clock /\ job'[t].decision = plan
        /\ \A u \in Tasks \ {t} : job'[u] = job[u]
    BY <1>1, <1>3 DEF JobFields
  <2>2. Informed(job[t], t) /\ clock \in Nat
    BY DEF RouteInv
  <2>3. Fits(job[t].read, Wish(t), clock)
    BY <1>3, PlanFits
  <2>4. Justified(plan, job[t].read, t, job[t].request, clock)
    BY <1>1, <2>2, <2>3, PlanOfCall DEF Wish, Request
  <2> HIDE DEF plan
  <2>5. QED
    BY <1>1, <2>1, <2>2, <2>4 DEF Moves, Informed, Reading, Decided, Judged
<1>4. \/ job' = [job EXCEPT ![t] = Idle]
      \/ plan # Nothing /\ \E at \in {"waiting", "planned"} : job' = [job EXCEPT ![t] = fixed(at)]
  BY Zenon DEF Preliminary, Wish
<1>5. QED
  BY <1>2, <1>3, <1>4

\* A decision made again over the same reading.
LEMMA ReplanMoves ==
  ASSUME RouteInv, JobInv, NEW t \in Tasks, job[t].at \in {"waiting", "told"}, Placed(t),
         NEW arbitration, NEW at \in Judged,
         job' = [job EXCEPT ![t].decision = Replan(t, arbitration), ![t].at = at]
  PROVE  Moves(t)
<1> DEFINE d == Replan(t, arbitration)
<1>1. DOMAIN job = Tasks /\ DOMAIN job[t] = JobFields
  BY DEF JobInv, Busy
<1>2. /\ job'[t].at = at /\ job'[t].request = job[t].request /\ job'[t].read = job[t].read
      /\ job'[t].now = job[t].now /\ job'[t].decision = d
      /\ \A u \in Tasks \ {t} : job'[u] = job[u]
  BY <1>1 DEF JobFields
<1>3. Informed(job[t], t) /\ job[t].at \in Decided /\ job[t].now \in Nat
  BY DEF RouteInv, Informed, Decided
<1>4. Justified(d, job[t].read, t, job[t].request, job[t].now)
  BY <1>3, PlanOfCall DEF Replan, Placed, Wish, Request
<1> HIDE DEF d
<1>5. QED
  BY <1>2, <1>3, <1>4 DEF Moves, Informed, Reading, Decided, Judged

LEMMA DecidingMoves ==
  ASSUME RouteInv, LeaseInv, NEW t \in Tasks, Unanswered(t) \/ Arbitrated(t) \/ Persist(t) \/ Return(t)
  PROVE  Moves(t)
<1>1. /\ DOMAIN job = Tasks /\ DOMAIN job[t] = JobFields /\ JobInv /\ Sound(t)
      /\ Informed(job[t], t)
  BY DEF LeaseInv, JobInv, RouteInv, Unanswered, Arbitrated, Persist, Return, At, Busy
<1>2. ASSUME Unanswered(t) PROVE Moves(t)
  <2>1. job[t].at \in {"waiting", "told"} /\ Placed(t)
    BY <1>1, <1>2 DEF Unanswered, At, Sound
  <2>2. job' = [job EXCEPT ![t].decision = Replan(t, Unavailable(t)), ![t].at = "planned"]
    BY <1>2 DEF Unanswered, Decides
  <2>3. QED
    BY <1>1, <2>1, <2>2, ReplanMoves DEF Judged
<1>3. ASSUME Arbitrated(t) \/ Persist(t) PROVE Moves(t)
  <2>1. /\ job[t].at \in {"told", "planned"}
        /\ \E at \in {"planned", "recorded"} : job' = [job EXCEPT ![t].at = at]
    BY <1>3 DEF Arbitrated, Persist, Goes, At
  <2>2. /\ job'[t].at \in {"planned", "recorded"} /\ job'[t].request = job[t].request
        /\ job'[t].read = job[t].read /\ job'[t].now = job[t].now
        /\ job'[t].decision = job[t].decision
        /\ \A u \in Tasks \ {t} : job'[u] = job[u]
    BY <1>1, <2>1 DEF JobFields
  <2>3. QED
    BY <1>1, <2>1, <2>2 DEF Moves, Informed, Reading, Decided, Judged
<1>4. ASSUME Return(t) PROVE Moves(t)
  <2>1. /\ job[t].at # "idle"
        /\ \/ job'[t] = Idle
           \/ job'[t].request = job[t].request /\ job'[t].at = "routed"
        /\ \A u \in Tasks \ {t} : job'[u] = job[u]
    BY <1>1, <1>4 DEF Return, At, JobFields
  <2>2. QED
    BY <1>1, <2>1 DEF Moves, Informed, Idle, Reading, Decided, Judged
<1>5. QED
  BY <1>2, <1>3, <1>4

LEMMA LaunchingMoves ==
  ASSUME RouteInv, LeaseInv, NEW t \in Tasks,
         \/ Fails(t) \/ Ends(t)
         \/ \E labels \in SessionRequests : CheckSession(t, labels) \/ CheckTurn(t, labels)
         \/ PersistLaunch(t) \/ CreateSession(t) \/ SendTurn(t)
         \/ \E f \in Failures : TurnFails(t, f)
  PROVE  Moves(t)
<1>1. CallStep(t) /\ job'[t].at \notin Reading \cup Decided
  BY LaunchingIsCallStep
<1>2. /\ \A u \in Tasks \ {t} : job'[u] = job[u]
      /\ job'[t].at # "idle" => job[t].at # "idle" /\ job'[t].request = job[t].request
  BY <1>1 DEF CallStep, Carried, Busy
<1>3. QED
  BY <1>1, <1>2 DEF RouteInv, Moves, Informed, Reading, Decided, Judged

\* The answer of the remote store reaches the call that waits for it, or nobody.
LEMMA ServiceMovesCall ==
  ASSUME RouteInv, LeaseInv, NEW q \in wire, Acquire(q) \/ Query(q)
  PROVE  job' = job \/ (q.task \in Tasks /\ Moves(q.task))
<1>1. PICK status, lease : Told(q, status, lease)
  BY Zenon DEF Acquire, Query
<1>2. CASE At(q.task, "waiting") /\ job[q.task].id = q.id
  <2>1. q.task \in Tasks /\ job[q.task].at = "waiting" /\ Placed(q.task) /\ JobInv
    BY <1>2 DEF LeaseInv, AskInv, Sound, At
  <2>2. \E arbitration :
          job' = [job EXCEPT ![q.task].decision = Replan(q.task, arbitration), ![q.task].at = "told"]
    BY <1>1, <1>2, Zenon DEF Told
  <2>3. QED
    BY <2>1, <2>2, ReplanMoves DEF Judged
<1>3. CASE ~(At(q.task, "waiting") /\ job[q.task].id = q.id)
  BY <1>1, <1>3 DEF Told
<1>4. QED
  BY <1>2, <1>3

(***************************************************************************)
(* Every route that a call is about to take, or has had arbitrated or      *)
(* recorded, is justified by what the call read, for any profiles,         *)
(* cooldowns, limits, preflights and requests (planRoute,                  *)
(* buildIdentityPool, preflightIdentityProfile and route-task.ts).         *)
(***************************************************************************)
THEOREM RoutesJustifiedHolds == Spec => []RoutesJustified
<1>1. Init => RouteInv
  <2> SUFFICES ASSUME Init PROVE RouteInv
    OBVIOUS
  <2>1. clock \in Nat /\ IsLedger(ledger)
    BY LedgersAssumption DEF Init
  <2>2. \A t \in Tasks : job[t].at = "idle"
    BY DEF Init, Idle
  <2>3. QED
    BY <2>1, <2>2 DEF RouteInv, Informed, Reading, Decided, Judged
<1>2. LeaseInv /\ RouteInv /\ [Next]_vars => RouteInv'
  <2> SUFFICES ASSUME LeaseInv, RouteInv, [Next]_vars PROVE RouteInv'
    OBVIOUS
  <2>1. clock' \in Nat /\ IsLedger(ledger)' /\ JobInv
    BY StepKeepsLedger DEF RouteInv, LeaseInv
  <2>2. job' = job => RouteInv'
    BY <2>1 DEF RouteInv
  <2>3. ASSUME NEW t \in Tasks,
               \/ \E r \in Requests[t] : Begin(t, r)
               \/ ReadStatuses(t) \/ ReadCooldowns(t) \/ ReadClassifications(t)
               \/ Preliminary(t) \/ Unanswered(t) \/ Arbitrated(t)
               \/ Persist(t) \/ Return(t) \/ Fails(t)
               \/ \E labels \in SessionRequests : CheckSession(t, labels) \/ CheckTurn(t, labels)
               \/ PersistLaunch(t) \/ CreateSession(t) \/ SendTurn(t) \/ Ends(t)
               \/ \E f \in Failures : TurnFails(t, f)
        PROVE  RouteInv'
    <3>1. Moves(t)
      BY <2>1, <2>3, BeginMoves, ReadingMoves, PlanningMoves, DecidingMoves, LaunchingMoves
    <3>2. QED
      BY <2>1, <3>1, MoveKeepsCalls
  <2>4. ASSUME NEW q \in wire, Acquire(q) \/ Query(q) PROVE RouteInv'
    BY <2>1, <2>2, <2>4, ServiceMovesCall, MoveKeepsCalls
  <2>5. ASSUME \/ \E t \in Tasks, i \in DOMAIN table : RenewLease(t, i) \/ ReleaseLease(t, i)
               \/ \E e \in Probes : RecordPreflight(e)
               \/ \E s \in Signals : ClassifyLimit(s)
               \/ Tick \/ UNCHANGED vars
        PROVE  job' = job
    BY <2>5 DEF RenewLease, ReleaseLease, RecordPreflight, ClassifyLimit, Tick, vars, callVars
  <2>6. QED
    BY <2>2, <2>3, <2>4, <2>5 DEF Next
<1>3. RouteInv => RoutesJustified
  <2> SUFFICES ASSUME RouteInv, NEW t \in Tasks
               PROVE  LET x == job[t]
                          plan == Plan(x.read, [x.request EXCEPT !.task = t], clock, NotRequested)
                      IN /\ x.at = "plan" /\ plan # Nothing
                              => Justified(plan, x.read, t, x.request, clock)
                         /\ x.at \in {"told", "planned", "recorded"}
                              => Justified(x.decision, x.read, t, x.request, x.now)
    BY DEF RoutesJustified
  <2>1. Informed(job[t], t) /\ clock \in Nat
    BY DEF RouteInv
  <2>2. job[t].at \in Judged
          => Justified(job[t].decision, job[t].read, t, job[t].request, job[t].now)
    BY <2>1 DEF Informed
  <2>3. ASSUME job[t].at = "plan",
               Plan(job[t].read, [job[t].request EXCEPT !.task = t], clock, NotRequested) # Nothing
        PROVE  Justified(Plan(job[t].read, [job[t].request EXCEPT !.task = t], clock, NotRequested),
                         job[t].read, t, job[t].request, clock)
    <3>1. Fits(job[t].read, [job[t].request EXCEPT !.task = t], clock)
      BY <2>3, PlanFits
    <3>2. QED
      BY <2>1, <2>3, <3>1, PlanOfCall
  <2>4. QED
    BY <2>2, <2>3 DEF Judged
<1>4. QED
  BY <1>1, <1>2, <1>3, LeasesHold, PTL DEF Spec
=============================================================================
