---------------------------- MODULE LeaseService ----------------------------
(***************************************************************************)
(* What a fleet lease store promises (the LeaseStore interface of           *)
(* packages/worktree-leasing/src/lease-store.ts), without processes, locks  *)
(* or files: a set of leases that changes one grant, renewal, release or    *)
(* expiry at a time.  A grant may sweep expired leases on the way, and is   *)
(* never over a hard lease that stays.                                      *)
(***************************************************************************)
EXTENDS Integers

CONSTANTS LeaseIds, MaxTime, NoLease,
          Rewinds,              \* whether the clock may be set back
          LeaseScopesOverlap(_, _)

VARIABLES clock, leases

Held(ls) == {i \in LeaseIds : ls[i] # NoLease}
Over(l, t) == t >= l.heartbeat_at + l.ttl

Init == clock = 0 /\ leases = [i \in LeaseIds |-> NoLease]

Tick ==
  /\ clock' \in 0..MaxTime
  /\ Rewinds \/ clock' > clock
  /\ UNCHANGED leases

\* leases' differs from leases by the sweep of some leases that are over and
\* by what happens to lease i.
SweepAllBut(i) ==
  \A j \in LeaseIds \ {i} :
    \/ leases'[j] = leases[j]
    \/ leases'[j] = NoLease /\ leases[j] # NoLease /\ Over(leases[j], clock)

Grant(i) ==
  /\ leases[i] = NoLease \/ Over(leases[i], clock)
  /\ leases'[i] # NoLease
  /\ leases'[i].acquired_at = leases'[i].heartbeat_at
  /\ leases'[i].heartbeat_at <= clock
  /\ \A j \in Held(leases') \ {i} :
       ~ /\ leases'[i].mode = "hard" /\ leases'[j].mode = "hard"
         /\ LeaseScopesOverlap(leases'[j].scope, leases'[i].scope)

Renew(i) ==
  /\ leases[i] # NoLease /\ leases'[i] # NoLease
  /\ leases'[i].heartbeat_at \in leases[i].heartbeat_at..clock
  /\ leases'[i] = [leases[i] EXCEPT !.heartbeat_at = leases'[i].heartbeat_at,
                                    !.ttl = leases'[i].ttl]

Release(i) == leases[i] # NoLease /\ leases'[i] = NoLease

Change ==
  /\ DOMAIN leases' = LeaseIds
  /\ UNCHANGED clock
  /\ \E i \in LeaseIds : /\ Grant(i) \/ Renew(i) \/ Release(i)
                         /\ SweepAllBut(i)

Next == Tick \/ Change

Spec == Init /\ [][Next]_<<clock, leases>>

=============================================================================
