----------------------- MODULE CoordinationRootProofs -----------------------
(***************************************************************************)
(* Proofs about CoordinationRoot for any number of processes, calls, lock  *)
(* files and faults.  LockInv is what the lock file alone guarantees: whom *)
(* a file's reservation belongs to.  CallInv adds which calls may answer   *)
(* success; RootInv, CooldownInv and SendInv, what a callback has read of  *)
(* leases, cooldowns and messages that nobody else may write meanwhile.    *)
(***************************************************************************)
EXTENDS CoordinationRoot, SubsequenceProofs, TLAPS

\* Past the wait for its own process, until its finally block.
Claimed(c) == stage[c] \notin {"idle", "waiting"}
Inside(c) == stage[c] = "inside"

\* One call per process gets past the wait; whoever is in its callback holds
\* the reservation of the file it has open; a file, once replaced, is never
\* linked again.
LockInv ==
  /\ LockTypeOK
  /\ lockFile <= linked
  /\ \A c \in Callers :
       /\ opened[c] <= linked
       /\ opened[c] # NoFile <=> stage[c] \in {"reserve", "inside"}
       /\ Claimed(c) => c[1] \in activePaths
       /\ Inside(c) => reserved[opened[c]] = c
       /\ ~removed /\ opened[c] # NoFile => opened[c] = lockFile
  /\ \A c, d \in Callers : Claimed(c) /\ Claimed(d) /\ c[1] = d[1] => c = d

-----------------------------------------------------------------------------
(* The lock *)

LEMMA CallerProcess == \A c \in Callers : c[1] \in Procs
BY DEF Callers

LEMMA LockInitially == ASSUME LockInit PROVE LockInv
<1>1. removed \in BOOLEAN
  BY Zenon DEF LockInit
<1>2. LockTypeOK
  BY <1>1, LockAssumption DEF LockInit, LockTypeOK, Stages, Files, NoFile
<1>3. QED
  BY <1>2 DEF LockInit, LockInv, LockTypeOK, Claimed, Inside, NoFile

\* Of a process that closes a handle, no call but the one that closes it is
\* in its callback.
LEMMA ClosingFreesOne ==
  ASSUME LockInv, NEW c \in Callers, Claimed(c), NEW f \in Files,
         reserved' = ClosedBy(c[1], f)
  PROVE  /\ reserved' \in [Files -> Callers \cup {Nobody}]
         /\ \A d \in Callers \ {c} : Inside(d) => reserved'[opened[d]] = d
<1>1. reserved \in [Files -> Callers \cup {Nobody}] /\ opened \in [Callers -> 0..MaxFiles]
  BY DEF LockInv, LockTypeOK
<1>2. reserved' = [g \in Files |-> IF g = f /\ reserved[g] # Nobody /\ reserved[g][1] = c[1]
                                   THEN Nobody ELSE reserved[g]]
  BY DEF ClosedBy
<1>3. reserved' \in [Files -> Callers \cup {Nobody}]
  BY <1>1, <1>2
<1>4. ASSUME NEW d \in Callers \ {c}, Inside(d) PROVE reserved'[opened[d]] = d
  <2>1. Claimed(d) /\ d[1] # c[1]
    BY <1>4 DEF LockInv, Claimed, Inside
  <2>2. opened[d] \in Files /\ reserved[opened[d]] = d
    BY <1>1, <1>4, LockAssumption DEF LockInv, Inside, Files, NoFile
  <2>3. QED
    BY <1>2, <2>1, <2>2
<1>5. QED
  BY <1>3, <1>4

LEMMA FinallyKeepsLock ==
  ASSUME LockInv, NEW c \in Callers, Claimed(c), Finally(c)
  PROVE  LockInv'
<1> USE LockAssumption
<1>1. /\ stage' = [stage EXCEPT ![c] = "idle"]
      /\ opened' = [opened EXCEPT ![c] = NoFile]
      /\ activePaths' = activePaths \ {c[1]}
      /\ UNCHANGED <<lockFile, linked, removed>>
  BY DEF Finally, MoveTo
<1>2. /\ reserved' \in [Files -> Callers \cup {Nobody}]
      /\ \A d \in Callers \ {c} : Inside(d) => reserved'[opened[d]] = d
  <2>1. CASE opened[c] = NoFile
    BY <2>1 DEF Finally, LockInv, LockTypeOK
  <2>2. CASE opened[c] # NoFile
    <3>1. opened[c] \in Files /\ reserved' = ClosedBy(c[1], opened[c])
      BY <2>2 DEF Finally, LockInv, LockTypeOK, Files, NoFile
    <3>2. QED
      BY <3>1, ClosingFreesOne
  <2>3. QED
    BY <2>1, <2>2
<1>3. LockTypeOK'
  BY <1>1, <1>2 DEF LockInv, LockTypeOK, Stages, NoFile
<1>4. \A d \in Callers : d # c /\ Claimed(d) => d[1] \in activePaths'
  BY <1>1 DEF LockInv, Claimed
<1>5. QED
  BY <1>1, <1>2, <1>3, <1>4 DEF LockInv, LockTypeOK, Claimed, Inside, NoFile

LEMMA ClaimKeepsLock ==
  ASSUME LockInv, NEW c \in Callers, Claim(c)
  PROVE  LockInv'
<1>1. c[1] \in Procs
  BY CallerProcess
<1>2. /\ stage[c] = "waiting" /\ c[1] \notin activePaths
      /\ stage' = [stage EXCEPT ![c] = "publish"]
      /\ activePaths' = activePaths \cup {c[1]}
      /\ UNCHANGED <<lockFile, linked, reserved, opened, removed>>
  BY DEF Claim, MoveTo
<1>3. LockTypeOK'
  BY <1>1, <1>2 DEF LockInv, LockTypeOK, Stages
<1>4. QED
  BY <1>2, <1>3 DEF LockInv, LockTypeOK, Claimed, Inside

\* Waiting, or back from it, as Begin and GivesUp leave a call.
LEMMA OutsideKeepsLock ==
  ASSUME LockInv, NEW c \in Callers, NEW s \in {"idle", "waiting"},
         stage[c] \in {"idle", "waiting"}, MoveTo(c, s),
         UNCHANGED <<lockFile, linked, reserved, activePaths, opened, removed>>
  PROVE  LockInv'
<1>1. LockTypeOK'
  BY DEF LockInv, LockTypeOK, Stages, MoveTo
<1>2. QED
  BY <1>1 DEF LockInv, LockTypeOK, Claimed, Inside, MoveTo

LEMMA PublishKeepsLock ==
  ASSUME LockInv, NEW c \in Callers, Publish(c)
  PROVE  LockInv'
<1>1. /\ stage[c] = "publish"
      /\ \E s \in {"link", "open"} : stage' = [stage EXCEPT ![c] = s]
      /\ UNCHANGED <<lockFile, linked, reserved, activePaths, opened, removed>>
  BY DEF Publish, MoveTo
<1>2. LockTypeOK'
  BY <1>1 DEF LockInv, LockTypeOK, Stages
<1>3. QED
  BY <1>1, <1>2 DEF LockInv, LockTypeOK, Claimed, Inside

\* The path goes from nothing to a file it never named.
LEMMA LinkedIsNew ==
  ASSUME LockInv, NEW c \in Callers, Link(c)
  PROVE  \/ lockFile' = lockFile /\ linked' = linked
         \/ lockFile = NoFile /\ lockFile' = linked + 1 /\ linked' = linked + 1
BY LockAssumption DEF Link, LinkedFile, LockInv, LockTypeOK, NoFile

LEMMA LinkKeepsLock ==
  ASSUME LockInv, NEW c \in Callers, Link(c)
  PROVE  LockInv'
<1> USE LockAssumption
<1>1. /\ stage[c] = "link" /\ linked < MaxFiles
      /\ stage' = [stage EXCEPT ![c] = "open"]
      /\ UNCHANGED <<reserved, activePaths, opened, removed>>
  BY DEF Link, MoveTo
<1>2. /\ linked' \in 0..MaxFiles /\ lockFile' \in 0..MaxFiles
      /\ linked <= linked' /\ lockFile' <= linked'
      /\ lockFile = NoFile \/ lockFile' = lockFile
  BY <1>1, LinkedIsNew DEF LockInv, LockTypeOK
<1>3. LockTypeOK'
  BY <1>1, <1>2 DEF LockInv, LockTypeOK, Stages
<1>4. \A d \in Callers : ~removed /\ opened[d] # NoFile => opened[d] = lockFile'
  BY <1>2 DEF LockInv
<1>5. \A d \in Callers : opened[d] <= linked'
  BY <1>2 DEF LockInv, LockTypeOK
<1>6. QED
  BY <1>1, <1>2, <1>3, <1>4, <1>5 DEF LockInv, LockTypeOK, Claimed, Inside

LEMMA OpenKeepsLock ==
  ASSUME LockInv, NEW c \in Callers, Open(c)
  PROVE  LockInv'
<1> USE LockAssumption
<1>1. /\ stage[c] = "open" /\ lockFile \in Files
      /\ stage' = [stage EXCEPT ![c] = "reserve"]
      /\ opened' = [opened EXCEPT ![c] = lockFile]
      /\ UNCHANGED <<lockFile, linked, activePaths, removed>>
  BY DEF Open, MoveTo, LockInv, LockTypeOK, Files, NoFile
<1>2. /\ reserved' \in [Files -> Callers \cup {Nobody}]
      /\ \A d \in Callers \ {c} : Inside(d) => reserved'[opened[d]] = d
  BY <1>1, ClosingFreesOne DEF Open, Claimed
<1>3. LockTypeOK'
  BY <1>1, <1>2 DEF LockInv, LockTypeOK, Stages
<1>4. QED
  BY <1>1, <1>2, <1>3 DEF LockInv, LockTypeOK, Claimed, Inside, Files, NoFile

LEMMA ReserveKeepsLock ==
  ASSUME LockInv, NEW c \in Callers, Reserve(c)
  PROVE  LockInv'
<1> USE LockAssumption
<1>1. /\ stage[c] = "reserve" /\ opened[c] \in Files /\ reserved[opened[c]] = Nobody
      /\ stage' = [stage EXCEPT ![c] = "inside"]
      /\ reserved' = [reserved EXCEPT ![opened[c]] = c]
      /\ UNCHANGED <<lockFile, linked, activePaths, opened, removed>>
  BY DEF Reserve, MoveTo, LockInv, LockTypeOK, Files, NoFile
<1>2. LockTypeOK'
  BY <1>1 DEF LockInv, LockTypeOK, Stages
<1>3. ASSUME NEW d \in Callers, Inside(d)' PROVE reserved'[opened'[d]] = d
  BY <1>1, <1>3 DEF LockInv, LockTypeOK, Inside
<1>4. QED
  BY <1>1, <1>2, <1>3 DEF LockInv, LockTypeOK, Claimed, Inside

LEMMA DeathKeepsLock ==
  ASSUME LockInv, NEW p \in Procs, LockDies(p)
  PROVE  LockInv'
<1> USE LockAssumption
<1>1. /\ reserved' = [f \in Files |-> IF reserved[f] # Nobody /\ reserved[f][1] = p
                                      THEN Nobody ELSE reserved[f]]
      /\ activePaths' = activePaths \ {p}
      /\ stage' = [c \in Callers |-> IF c[1] = p THEN "idle" ELSE stage[c]]
      /\ opened' = [c \in Callers |-> IF c[1] = p THEN NoFile ELSE opened[c]]
      /\ UNCHANGED <<lockFile, linked, removed>>
  BY DEF LockDies
<1>2. LockTypeOK'
  BY <1>1 DEF LockInv, LockTypeOK, Stages, NoFile
<1>3. ASSUME NEW c \in Callers, Inside(c)' PROVE reserved'[opened'[c]] = c
  <2>1. c[1] # p /\ Inside(c) /\ opened'[c] = opened[c]
    BY <1>1, <1>3 DEF Inside
  <2>2. opened[c] \in Files /\ reserved[opened[c]] = c
    BY <2>1 DEF LockInv, LockTypeOK, Inside, Files, NoFile
  <2>3. QED
    BY <1>1, <2>1, <2>2
<1>4. QED
  BY <1>1, <1>2, <1>3 DEF LockInv, LockTypeOK, Claimed, Inside, NoFile

LEMMA RemovalKeepsLock == ASSUME LockInv, RemoveLock PROVE LockInv'
<1>1. removed' = TRUE /\ lockFile' = NoFile
      /\ UNCHANGED <<linked, reserved, activePaths, stage, opened>>
  BY DEF RemoveLock
<1>2. LockTypeOK'
  BY <1>1, LockAssumption DEF LockInv, LockTypeOK, NoFile
<1>3. QED
  BY <1>1, <1>2 DEF LockInv, LockTypeOK, Claimed, Inside, NoFile

-----------------------------------------------------------------------------
(* Who may answer success *)

Busy(c) == stage[c] # "idle"

IsCall(x) ==
  /\ DOMAIN x = {"op", "id", "seen", "step", "now"}
  /\ x.op \in Ops

\* Calls that answered success, and those that will unless the path changes.
Answerable ==
  {a.id : a \in acked}
  \cup {call[c].id : c \in {d \in Callers : Inside(d) /\ opened[d] = lockFile}}

\* Ids are fresh, and of two calls that were inside together one has lost the
\* path.
CallInv ==
  /\ LockInv
  /\ DOMAIN call = Callers
  /\ \A c \in Callers : Busy(c) => IsCall(call[c]) /\ call[c].id \in used
  /\ \A c, d \in Callers : Busy(c) /\ Busy(d) /\ c # d => call[c].id # call[d].id
  /\ \A a \in acked : /\ a.id \in used
                      /\ \A c \in Callers : Busy(c) => call[c].id # a.id
  /\ \A pair \in overlaps :
       /\ pair \subseteq used
       /\ \A c \in Callers : Busy(c) /\ ~Inside(c) => call[c].id \notin pair
       /\ ~(pair \subseteq Answerable)

LEMMA Kinds == \A op \in Ops : op.kind \in {"cooldown", "send", "lease", "manage"}
BY CoordinationAssumption DEF CoordinationAssumption, Operations

LEMMA AnswerId == ASSUME NEW x, IsCall(x) PROVE Answer(x).id = x.id
BY Kinds DEF Answer, IsCall

\* A call goes on inside its callback.
Onward(c) ==
  /\ Inside(c)
  /\ DOMAIN call' = Callers
  /\ \A d \in Callers \ {c} : call'[d] = call[d]
  /\ IsCall(call'[c]) /\ call'[c].id = call[c].id /\ call'[c].op = call[c].op
  /\ UNCHANGED <<lockVars, acked, overlaps, used>>

\* A call is over, and may have answered success.
Over(c) ==
  /\ Claimed(c)
  /\ Finally(c)
  /\ call' = [call EXCEPT ![c] = NoCall]
  /\ \/ UNCHANGED acked
     \/ Inside(c) /\ SamePath(c) /\ \E a : a.id = call[c].id /\ acked' = acked \cup {a}
  /\ UNCHANGED <<overlaps, used>>

LEMMA OnwardKeepsCalls ==
  ASSUME CallInv, NEW c \in Callers, Onward(c)
  PROVE  CallInv'
<1>1. /\ UNCHANGED <<lockFile, linked, reserved, activePaths, stage, opened, removed>>
      /\ UNCHANGED <<acked, overlaps, used>>
  BY DEF Onward, lockVars
<1>2. LockInv'
  BY <1>1 DEF CallInv, LockInv, LockTypeOK, Claimed, Inside, Files, Stages
<1>3. DOMAIN call' = Callers
  BY DEF Onward
<1>4. \A d \in Callers : Busy(d) => IsCall(call'[d]) /\ call'[d].id = call[d].id
  BY DEF Onward, CallInv
<1>5. Answerable' = Answerable
  BY <1>1, <1>4 DEF Answerable, Inside, Busy
<1>6. QED
  BY <1>1, <1>2, <1>3, <1>4, <1>5 DEF CallInv, Busy, Inside

LEMMA OverKeepsCalls ==
  ASSUME CallInv, NEW c \in Callers, Over(c)
  PROVE  CallInv'
<1>1. LockInv'
  BY FinallyKeepsLock DEF CallInv, Over
<1>2. /\ stage' = [stage EXCEPT ![c] = "idle"] /\ Busy(c)
      /\ lockFile' = lockFile
      /\ \A d \in Callers \ {c} : opened'[d] = opened[d]
      /\ stage \in [Callers -> Stages]
  BY DEF Over, Finally, MoveTo, CallInv, LockInv, LockTypeOK, Claimed, Busy
<1>3. call' = [call EXCEPT ![c] = NoCall] /\ UNCHANGED <<overlaps, used>>
  BY DEF Over
<1>4. \A d \in Callers : Busy(d)' => d # c /\ Busy(d) /\ call'[d] = call[d]
  BY <1>2, <1>3 DEF Busy, CallInv
<1>5. \/ acked' = acked
      \/ /\ Inside(c) /\ opened[c] = lockFile
         /\ \E a : a.id = call[c].id /\ acked' = acked \cup {a}
  BY DEF Over, SamePath
<1>6. Answerable' \subseteq Answerable
  <2>1. {a.id : a \in acked'} \subseteq Answerable
    BY <1>5 DEF Answerable
  <2>2. ASSUME NEW d \in Callers, Inside(d)', opened'[d] = lockFile'
        PROVE  call'[d].id \in Answerable
    BY <1>2, <1>4, <2>2 DEF Answerable, Inside, Busy
  <2>3. QED
    BY <2>1, <2>2 DEF Answerable
<1>7. \A a \in acked' : a.id \in used /\ \A d \in Callers : Busy(d)' => call'[d].id # a.id
  BY <1>2, <1>4, <1>5 DEF CallInv
<1>8. ASSUME NEW pair \in overlaps, NEW d \in Callers, Busy(d)', ~Inside(d)'
      PROVE  call'[d].id \notin pair
  BY <1>2, <1>4, <1>8 DEF CallInv, Inside
<1>9. QED
  BY <1>1, <1>3, <1>4, <1>6, <1>7, <1>8 DEF CallInv

LEMMA BeginKeepsCalls ==
  ASSUME CallInv, NEW c \in Callers, NEW op \in Ops, NEW id \in NextIds(op), Begin(c, op, id)
  PROVE  CallInv'
<1>1. /\ stage' = [stage EXCEPT ![c] = "waiting"] /\ stage[c] = "idle"
      /\ stage \in [Callers -> Stages]
      /\ UNCHANGED <<lockFile, linked, reserved, activePaths, opened, removed, acked, overlaps>>
      /\ call' = [call EXCEPT ![c] = Fresh(op, id)]
      /\ used' = used \cup {id}
  BY DEF Begin, MoveTo, CallInv, LockInv, LockTypeOK, ghostVars
<1>2. LockInv'
  BY <1>1, OutsideKeepsLock DEF CallInv, Begin
<1>3. id \notin used
  BY DEF NextIds
<1>4. /\ DOMAIN call' = Callers
      /\ IsCall(call'[c]) /\ call'[c].id = id
      /\ \A d \in Callers \ {c} : call'[d] = call[d]
  BY <1>1 DEF CallInv, Fresh, IsCall
<1>5. \A d \in Callers \ {c} : Busy(d)' => Busy(d) /\ call'[d].id \in used
  BY <1>1, <1>4 DEF Busy, CallInv
<1>6. \A d \in Callers : Inside(d)' <=> d # c /\ Inside(d)
  BY <1>1 DEF Inside
<1>7. Answerable' = Answerable
  BY <1>1, <1>4, <1>6 DEF Answerable, Inside
<1>8. \A d \in Callers : Busy(d)' => IsCall(call'[d]) /\ call'[d].id \in used'
  BY <1>1, <1>4, <1>5 DEF CallInv
<1>9. \A d, e \in Callers : Busy(d)' /\ Busy(e)' /\ d # e => call'[d].id # call'[e].id
  BY <1>3, <1>4, <1>5 DEF CallInv
<1>10. \A a \in acked' : a.id \in used' /\ \A d \in Callers : Busy(d)' => call'[d].id # a.id
  BY <1>1, <1>3, <1>4, <1>5 DEF CallInv
<1>11. \A pair \in overlaps' :
         pair \subseteq used' /\ \A d \in Callers : Busy(d)' /\ ~Inside(d)' => call'[d].id \notin pair
  BY <1>1, <1>3, <1>4, <1>5, <1>6 DEF CallInv
<1>12. QED
  BY <1>1, <1>2, <1>4, <1>7, <1>8, <1>9, <1>10, <1>11 DEF CallInv

LEMMA WaitingKeepsCalls ==
  ASSUME CallInv, NEW c \in Callers, Lock(c)
  PROVE  CallInv'
<1>1. LockInv'
  BY ClaimKeepsLock, PublishKeepsLock, LinkKeepsLock, OpenKeepsLock DEF Lock, LockStep, CallInv
<1>2. /\ \A d \in Callers : Busy(d)' <=> Busy(d)
      /\ \A d \in Callers : Inside(d)' <=> Inside(d)
      /\ \A d \in Callers : Inside(d) => opened'[d] = opened[d]
  <2>1. /\ stage[c] \in {"waiting", "publish", "link", "open"}
        /\ \E s \in {"publish", "link", "open", "reserve"} : stage' = [stage EXCEPT ![c] = s]
        /\ \A d \in Callers \ {c} : opened'[d] = opened[d]
    BY DEF Lock, LockStep, Claim, Publish, Link, Open, MoveTo, CallInv, LockInv, LockTypeOK
  <2>2. QED
    BY <2>1 DEF CallInv, LockInv, LockTypeOK, Busy, Inside
<1>3. \A d \in Callers : Inside(d) /\ opened[d] # lockFile => opened[d] # lockFile'
  <2> SUFFICES ASSUME NEW d \in Callers, Inside(d), opened[d] # lockFile PROVE opened[d] # lockFile'
    OBVIOUS
  <2>1. CASE Link(c)
    BY <2>1, LinkedIsNew, LockAssumption DEF CallInv, LockInv, LockTypeOK
  <2>2. CASE lockFile' = lockFile
    BY <2>2
  <2>3. QED
    BY <2>1, <2>2 DEF Lock, LockStep, Claim, Publish, Open
<1>4. UNCHANGED <<call, used, acked, overlaps>>
  BY DEF Lock, ghostVars
<1>5. Answerable' \subseteq Answerable
  BY <1>2, <1>3, <1>4 DEF Answerable
<1>6. QED
  BY <1>1, <1>2, <1>4, <1>5 DEF CallInv

\* Whoever is inside already has a file open that the path no longer names.
LEMMA EnterKeepsCalls ==
  ASSUME CallInv, NEW c \in Callers, Enter(c)
  PROVE  CallInv'
<1>1. /\ stage[c] = "reserve" /\ stage' = [stage EXCEPT ![c] = "inside"]
      /\ stage \in [Callers -> Stages]
      /\ reserved[opened[c]] = Nobody /\ opened[c] = lockFile
      /\ UNCHANGED <<lockFile, opened, call, used, acked>>
  BY DEF Enter, Reserve, MoveTo, SamePath, CallInv, LockInv, LockTypeOK
<1>2. LockInv'
  BY ReserveKeepsLock DEF CallInv, Enter
<1>3. \A d \in Callers : (Busy(d)' <=> Busy(d)) /\ (Inside(d)' <=> d = c \/ Inside(d))
  BY <1>1 DEF Busy, Inside
<1>4. Answerable' \subseteq Answerable \cup {call[c].id}
  BY <1>1, <1>3 DEF Answerable
<1>5. overlaps' = overlaps \cup {{call[c].id, call[d].id} : d \in {d \in Callers \ {c} : Inside(d)}}
  BY DEF Enter, Inside
<1>6. ASSUME NEW pair \in overlaps
      PROVE  ~(pair \subseteq Answerable')
  <2>1. call[c].id \notin pair
    BY <1>1 DEF CallInv, Busy, Inside
  <2>2. QED
    BY <1>4, <2>1 DEF CallInv
<1>7. ASSUME NEW d \in Callers \ {c}, Inside(d)
      PROVE  call[d].id \notin Answerable'
  <2>1. opened[d] # lockFile
    BY <1>1, <1>7, LockAssumption DEF CallInv, LockInv
  <2>2. \A a \in acked : a.id # call[d].id
    BY <1>7 DEF CallInv, Busy, Inside
  <2>3. \A e \in Callers : Inside(e)' /\ call[e].id = call[d].id => e = d
    BY <1>3, <1>7, <1>1 DEF CallInv, Busy, Inside
  <2>4. QED
    BY <1>1, <2>1, <2>2, <2>3 DEF Answerable
<1>8. \A pair \in overlaps' : ~(pair \subseteq Answerable')
  BY <1>5, <1>6, <1>7
<1>9. \A pair \in overlaps' : pair \subseteq used
  BY <1>1, <1>5 DEF CallInv, Busy, Inside
<1>10. \A pair \in overlaps' : \A d \in Callers : Busy(d)' /\ ~Inside(d)' => call[d].id \notin pair
  <2> SUFFICES ASSUME NEW pair \in overlaps', NEW d \in Callers, Busy(d), ~Inside(d), d # c
               PROVE  call[d].id \notin pair
    BY <1>3
  <2>1. \A e \in Callers : e = c \/ Inside(e) => call[e].id # call[d].id
    BY <1>1 DEF CallInv, Busy, Inside
  <2>2. QED
    BY <1>5, <2>1 DEF CallInv
<1>11. QED
  BY <1>1, <1>2, <1>3, <1>8, <1>9, <1>10 DEF CallInv

LEMMA DeathKeepsCalls ==
  ASSUME CallInv, NEW p \in Procs, Die(p)
  PROVE  CallInv'
<1>1. /\ stage' = [c \in Callers |-> IF c[1] = p THEN "idle" ELSE stage[c]]
      /\ opened' = [c \in Callers |-> IF c[1] = p THEN NoFile ELSE opened[c]]
      /\ call' = [c \in Callers |-> IF c[1] = p THEN NoCall ELSE call[c]]
      /\ UNCHANGED <<lockFile, used, acked, overlaps>>
  BY DEF Die, LockDies, ghostVars
<1>2. LockInv'
  BY DeathKeepsLock DEF CallInv, Die
<1>3. \A c \in Callers : Busy(c)' => Busy(c) /\ call'[c] = call[c] /\ (Inside(c)' <=> Inside(c))
                                     /\ opened'[c] = opened[c]
  BY <1>1 DEF Busy, Inside
<1>4. \A c \in Callers : Inside(c)' => Busy(c)'
  BY DEF Inside, Busy
<1>5. Answerable' \subseteq Answerable
  BY <1>1, <1>3, <1>4 DEF Answerable
<1>6. QED
  BY <1>1, <1>2, <1>3, <1>5 DEF CallInv

LEMMA RemovalKeepsCalls ==
  ASSUME CallInv, Removed
  PROVE  CallInv'
<1>1. lockFile' = NoFile /\ UNCHANGED <<stage, opened, call, used, acked, overlaps>>
  BY DEF Removed, RemoveLock, ghostVars
<1>2. LockInv'
  BY RemovalKeepsLock DEF CallInv, Removed
<1>3. \A c \in Callers : Inside(c)' => Inside(c) /\ opened'[c] # lockFile'
  BY <1>1 DEF Inside, CallInv, LockInv
<1>4. Answerable' \subseteq Answerable
  BY <1>1, <1>3 DEF Answerable
<1>5. QED
  BY <1>1, <1>2, <1>4 DEF CallInv, Busy, Inside

-----------------------------------------------------------------------------
(* Every step is one of these *)

Unmoved == UNCHANGED <<lockVars, call, used, acked, overlaps>>

\* What the steps inside a callback do to the call itself.
LEMMA GoesOnward ==
  ASSUME CallInv, NEW c \in Callers, Inside(c), UNCHANGED <<lockVars, acked, overlaps, used>>,
         \/ Goes(c)
         \/ \E what : Sees(c, what)
         \/ \E what, now, step : call' = [call EXCEPT ![c].seen = what, ![c].now = now, ![c].step = step]
  PROVE  Onward(c)
<1>1. IsCall(call[c]) /\ DOMAIN call = Callers
  BY DEF CallInv, Busy, Inside
<1>2. CASE Goes(c)
  BY <1>1, <1>2 DEF Goes, Onward, IsCall
<1>3. ASSUME NEW what, Sees(c, what) PROVE Onward(c)
  BY <1>1, <1>3 DEF Sees, Onward, IsCall
<1>4. ASSUME NEW what, NEW now, NEW step,
             call' = [call EXCEPT ![c].seen = what, ![c].now = now, ![c].step = step]
      PROVE  Onward(c)
  BY <1>1, <1>4 DEF Onward, IsCall
<1>5. QED
  BY <1>2, <1>3, <1>4

LEMMA RefusedIsOver ==
  ASSUME CallInv, NEW c \in Callers, Inside(c), Refuse(c)
  PROVE  Over(c)
BY DEF Refuse, Over, Claimed, Inside, ghostVars

\* Inside the callback a step goes on, or ends the call.
LEMMA WithinCallback ==
  ASSUME CallInv, NEW c \in Callers
  PROVE  /\ \/ ReadCooldowns(c) \/ WriteCooldowns(c) \/ JournalCooldown(c)
            \/ ReadLeases(c) \/ JournalLease(c) \/ WriteLeases(c)
            \/ ReadInbox(c) \/ WriteMarker(c)
            => Onward(c)
         /\ WriteInbox(c) \/ ReadManaged(c) => Onward(c) \/ (Over(c) /\ Refuse(c))
         /\ ManagedByNow(c) \/ LedgerFails(c) \/ AlreadyTaken(c) \/ Return(c) => Over(c)
<1>1. ASSUME \/ ReadCooldowns(c) \/ WriteCooldowns(c) \/ JournalCooldown(c)
             \/ ReadLeases(c) \/ JournalLease(c) \/ WriteLeases(c) \/ WriteMarker(c)
      PROVE  Onward(c)
  <2>1. Inside(c) /\ UNCHANGED <<lockVars, acked, overlaps, used>>
    BY <1>1 DEF ReadCooldowns, WriteCooldowns, JournalCooldown, ReadLeases, JournalLease,
                WriteLeases, WriteMarker, At, Only, Inside, ghostVars
  <2>2. Goes(c) \/ \E what : Sees(c, what)
    BY <1>1 DEF ReadCooldowns, WriteCooldowns, JournalCooldown, ReadLeases, JournalLease,
                WriteLeases, WriteMarker
  <2>3. QED
    BY <2>1, <2>2, GoesOnward
<1>2. ASSUME ReadInbox(c) PROVE Onward(c)
  <2>1. Inside(c) /\ UNCHANGED <<lockVars, acked, overlaps, used>>
    BY <1>2 DEF ReadInbox, At, Only, Inside, ghostVars
  <2>2. \E what, now, step : call' = [call EXCEPT ![c].seen = what, ![c].now = now, ![c].step = step]
    <3>1. call[c] = call[c] /\ DOMAIN call = Callers /\ IsCall(call[c])
      BY <2>1 DEF CallInv, Busy, Inside
    <3>2. call' = [call EXCEPT ![c].seen = inbox, ![c].now = SendTime(call[c]),
                               ![c].step = Follows("send", call[c].step)]
      BY <1>2, <3>1 DEF ReadInbox, IsCall
    <3>3. QED
      BY <3>2
  <2>3. QED
    BY <2>1, <2>2, GoesOnward
<1>3. ASSUME WriteInbox(c) \/ ReadManaged(c) PROVE Onward(c) \/ (Over(c) /\ Refuse(c))
  <2>1. Inside(c)
    BY <1>3 DEF WriteInbox, ReadManaged, At, Inside
  <2>2. \/ Refuse(c)
        \/ /\ Goes(c) \/ \E what : Sees(c, what)
           /\ UNCHANGED <<lockVars, acked, overlaps, used>>
    BY <1>3 DEF WriteInbox, ReadManaged, Only, ghostVars
  <2>3. QED
    BY <2>1, <2>2, GoesOnward, RefusedIsOver
<1>4. ASSUME ManagedByNow(c) \/ LedgerFails(c) PROVE Over(c)
  BY <1>4, RefusedIsOver DEF ManagedByNow, LedgerFails, At, Inside
<1>5. ASSUME AlreadyTaken(c) \/ Return(c) PROVE Over(c)
  <2>1. Inside(c) /\ IsCall(call[c])
    BY <1>5 DEF AlreadyTaken, Return, At, Inside, CallInv, Busy
  <2>2. \/ UNCHANGED acked
        \/ SamePath(c) /\ \E a : a.id = call[c].id /\ acked' = acked \cup {a}
    <3>1. CASE AlreadyTaken(c)
      BY <3>1 DEF AlreadyTaken
    <3>2. CASE Return(c)
      BY <2>1, <3>2, AnswerId DEF Return
    <3>3. QED
      BY <1>5, <3>1, <3>2
  <2>3. QED
    BY <1>5, <2>1, <2>2 DEF AlreadyTaken, Return, Over, Claimed, Inside
<1>6. QED
  BY <1>1, <1>2, <1>3, <1>4, <1>5

LEMMA StepsAre ==
  ASSUME CallInv, [Next]_vars
  PROVE  \/ \E c \in Callers : \/ \E op \in Ops : \E id \in NextIds(op) : Begin(c, op, id)
                               \/ Lock(c) \/ Enter(c) \/ Onward(c) \/ Over(c)
                               \/ GivesUp(c) /\ call' = [call EXCEPT ![c] = NoCall]
                                  /\ UNCHANGED <<used, acked, overlaps>>
         \/ \E p \in Procs : Die(p)
         \/ Removed
         \/ Unmoved
<1>1. ASSUME NEW c \in Callers, Throw(c)
      PROVE  Over(c) \/ (GivesUp(c) /\ call' = [call EXCEPT ![c] = NoCall]
                         /\ UNCHANGED <<used, acked, overlaps>>)
  BY <1>1 DEF Throw, Throws, Thrown, Over, Claimed, ghostVars
<1>2. ASSUME Tick \/ List \/ UNCHANGED vars PROVE Unmoved
  BY <1>2 DEF Tick, List, vars, Unmoved, ghostVars
<1>3. QED
  BY <1>1, <1>2, WithinCallback DEF Next

LEMMA CallsInitially == ASSUME Init PROVE CallInv
BY LockInitially DEF Init, LockInit, CallInv, Busy, Inside, Answerable

LEMMA StepKeepsCalls == ASSUME CallInv, [Next]_vars PROVE CallInv'
<1>1. ASSUME NEW c \in Callers, GivesUp(c), call' = [call EXCEPT ![c] = NoCall],
             UNCHANGED <<used, acked, overlaps>>
      PROVE  CallInv'
  <2>1. /\ stage[c] = "waiting" /\ stage' = [stage EXCEPT ![c] = "idle"]
        /\ stage \in [Callers -> Stages]
        /\ UNCHANGED <<lockFile, linked, reserved, activePaths, opened, removed>>
    BY <1>1 DEF GivesUp, MoveTo, CallInv, LockInv, LockTypeOK
  <2>2. LockInv'
    BY <1>1, <2>1, OutsideKeepsLock DEF CallInv, GivesUp
  <2>3. \A d \in Callers : /\ Busy(d)' => Busy(d) /\ call'[d] = call[d]
                           /\ Inside(d)' <=> Inside(d)
                           /\ Inside(d) => call'[d] = call[d]
    BY <1>1, <2>1 DEF Busy, Inside, CallInv
  <2>4. Answerable' = Answerable
    BY <1>1, <2>1, <2>3 DEF Answerable
  <2>5. QED
    BY <1>1, <2>2, <2>3, <2>4 DEF CallInv
<1>2. ASSUME Unmoved PROVE CallInv'
  BY <1>2 DEF Unmoved, lockVars, CallInv, LockInv, LockTypeOK, Claimed, Inside, Busy, Answerable
<1>3. QED
  BY <1>1, <1>2, StepsAre, OnwardKeepsCalls, OverKeepsCalls, BeginKeepsCalls, WaitingKeepsCalls,
     EnterKeepsCalls, DeathKeepsCalls, RemovalKeepsCalls

\* Of two calls whose callbacks ran at the same time at most one answers
\* success, however often the lock file is removed, processes die and calls
\* fail (filesystem-lock.ts).
THEOREM OneAnswersHolds == Spec => []OneAnswers
<1>1. CallInv => OneAnswers
  BY DEF CallInv, OneAnswers, Answerable
<1>2. QED
  BY <1>1, CallsInitially, StepKeepsCalls, PTL DEF Spec

-----------------------------------------------------------------------------
(* What a callback may rely on *)

LEMMA AfterStep ==
  /\ Follows("cooldown", "read") = "map" /\ Follows("cooldown", "map") = "ledger"
  /\ Follows("cooldown", "ledger") = "done"
  /\ Follows("lease", "read") = "ledger" /\ Follows("lease", "ledger") = "map"
  /\ Follows("lease", "map") = "done"
  /\ Follows("manage", "read") = "marker" /\ Follows("manage", "marker") = "done"
BY DEF Follows, Steps

\* While the lock file stays, one callback runs at a time.
LEMMA Alone ==
  ASSUME LockInv, ~removed, NEW c \in Callers, NEW d \in Callers, Inside(c), Inside(d)
  PROVE  c = d
BY DEF LockInv, Inside

\* How far a callback is, and what it has read that still holds.
Step(x, kind, steps) == x.op.kind = kind /\ x.step \in steps

LeaseCallSound(x) ==
  /\ Step(x, "lease", {"ledger", "map"}) => x.seen = leases /\ ~managed
  /\ Step(x, "lease", {"map"}) => ~Taken(x.op, leases) /\ x.id \in leaseIds
  /\ Step(x, "lease", {"done"}) => LeaseOf(x) \in leases
  /\ Step(x, "manage", {"marker"}) => leases = {}

\* Nothing to answer for yet: the call has not read anything.
Unstarted(c) == call[c].step = "read"

RootInv ==
  /\ CallInv
  /\ LeasesStand
  /\ \A c \in Callers : Busy(c) /\ ~Inside(c) => Unstarted(c)
  /\ ~removed => /\ \A c \in Callers : Inside(c) => LeaseCallSound(call[c])
                 /\ \A a \in Acked("lease") : ~a.lease.released

\* A call that is under way after a step has read nothing, or has not moved.
Stays(c) == Busy(c)' => Unstarted(c)' \/ (Inside(c) /\ Inside(c)' /\ call'[c] = call[c])

LEMMA OthersStay ==
  ASSUME CallInv, \A c \in Callers : Busy(c) /\ ~Inside(c) => Unstarted(c)
  PROVE  /\ \A c \in Callers, op \in Ops : \A id \in NextIds(op) :
              Begin(c, op, id) => \A d \in Callers : Stays(d)
         /\ \A c \in Callers : Lock(c) \/ Enter(c) \/ Over(c) \/ Throw(c) => \A d \in Callers : Stays(d)
         /\ \A c \in Callers : Onward(c) => \A d \in Callers \ {c} : Stays(d)
         /\ \A p \in Procs : Die(p) => \A d \in Callers : Stays(d)
         /\ Removed \/ Unmoved => \A d \in Callers : Stays(d)
<1> USE DEF Stays, Busy, Inside, Unstarted
<1>1. stage \in [Callers -> Stages] /\ DOMAIN call = Callers
  BY DEF CallInv, LockInv, LockTypeOK
<1>2. ASSUME NEW c \in Callers, NEW op \in Ops, NEW id \in NextIds(op), Begin(c, op, id),
             NEW d \in Callers
      PROVE  Stays(d)
  <2>1. stage' = [stage EXCEPT ![c] = "waiting"] /\ call' = [call EXCEPT ![c] = Fresh(op, id)]
    BY <1>2 DEF Begin, MoveTo
  <2>2. Fresh(op, id).step = "read"
    BY DEF Fresh
  <2>3. QED
    BY <1>1, <2>1, <2>2
<1>3. ASSUME NEW c \in Callers, Lock(c) \/ Enter(c), NEW d \in Callers PROVE Stays(d)
  <2>1. /\ call' = call /\ stage[c] \notin {"idle", "inside"}
        /\ \E s \in Stages : stage' = [stage EXCEPT ![c] = s]
    BY <1>3 DEF Lock, LockStep, Claim, Publish, Link, Open, Enter, Reserve, MoveTo, Stages
  <2>2. QED
    BY <1>1, <2>1
<1>4. ASSUME NEW c \in Callers, Over(c) \/ Throw(c), NEW d \in Callers PROVE Stays(d)
  <2>1. stage' = [stage EXCEPT ![c] = "idle"] /\ call' = [call EXCEPT ![c] = NoCall]
    BY <1>4 DEF Over, Throw, Throws, GivesUp, Finally, MoveTo
  <2>2. QED
    BY <1>1, <2>1
<1>5. ASSUME NEW c \in Callers, Onward(c), NEW d \in Callers \ {c} PROVE Stays(d)
  BY <1>5 DEF Onward, lockVars
<1>6. ASSUME NEW p \in Procs, Die(p), NEW d \in Callers PROVE Stays(d)
  BY <1>6 DEF Die, LockDies
<1>7. ASSUME Removed \/ Unmoved, NEW d \in Callers PROVE Stays(d)
  BY <1>7 DEF Removed, RemoveLock, Unmoved, lockVars
<1>8. QED
  BY <1>2, <1>3, <1>4, <1>5, <1>6, <1>7

\* Steps that leave the leases alone, and answer no acquisition.
LEMMA LeasesUntouched ==
  ASSUME RootInv, CallInv', removed => removed',
         UNCHANGED <<leases, leaseIds, managed>>,
         \A a \in acked' : a \in acked \/ a.kind # "lease" \/ a.lease \in Unreleased(leases) \/ removed,
         \A c \in Callers : \/ Stays(c)
                            \/ Inside(c) /\ Inside(c)' /\ (removed \/ LeaseCallSound(call'[c]))
  PROVE  RootInv'
<1>1. LeasesStand' /\ (~removed' => \A a \in Acked("lease")' : ~a.lease.released)
  BY DEF RootInv, LeasesStand, Acked, Unreleased
<1>2. \A c \in Callers : Busy(c)' /\ ~Inside(c)' => Unstarted(c)'
  BY DEF Stays
<1>3. ASSUME ~removed', NEW c \in Callers, Inside(c)' PROVE LeaseCallSound(call[c])'
  <2>1. LeaseCallSound(call'[c]) => LeaseCallSound(call[c])'
    BY DEF LeaseCallSound
  <2>2. Busy(c)' /\ ~removed
    BY <1>3 DEF Busy, Inside
  <2>3. CASE Unstarted(c)'
    BY <2>3 DEF Unstarted, LeaseCallSound, Step
  <2>4. CASE Inside(c) /\ call'[c] = call[c]
    BY <2>1, <2>2, <2>4 DEF RootInv
  <2>5. QED
    BY <2>1, <2>2, <2>3, <2>4 DEF Stays
<1>4. QED
  BY <1>1, <1>2, <1>3 DEF RootInv

\* The steps outside the callbacks, the ends of calls, and the cooldowns' and
\* messages' steps.
LEMMA OtherStepsKeepRoot ==
  ASSUME RootInv, CallInv',
         \/ \E c \in Callers : \/ \E op \in Ops : \E id \in NextIds(op) : Begin(c, op, id)
                               \/ Lock(c) \/ Enter(c) \/ Throw(c)
         \/ \E p \in Procs : Die(p)
         \/ Removed \/ Tick \/ List \/ UNCHANGED vars
  PROVE  RootInv'
<1>1. /\ UNCHANGED <<leases, leaseIds, managed, acked>>
      /\ removed => removed'
  BY DEF Begin, Lock, LockStep, Claim, Publish, Link, Open, Enter, Reserve, Throw, Throws, GivesUp,
         Finally, Die, LockDies, Removed, RemoveLock, Tick, List, vars, storeVars, ghostVars, lockVars
<1>2. Tick \/ List \/ UNCHANGED vars => Unmoved
  BY DEF Tick, List, vars, Unmoved, ghostVars
<1>3. \A d \in Callers : Stays(d)
  BY <1>2, OthersStay DEF RootInv
<1>4. QED
  BY <1>1, <1>3, LeasesUntouched

LEMMA EndsKeepRoot ==
  ASSUME RootInv, CallInv', NEW c \in Callers, Over(c),
         \/ ManagedByNow(c) \/ AlreadyTaken(c) \/ Return(c) \/ LedgerFails(c)
         \/ WriteInbox(c) /\ Refuse(c)
         \/ ReadManaged(c) /\ Refuse(c)
  PROVE  RootInv'
<1>1. UNCHANGED <<leases, leaseIds, managed, removed>>
  BY DEF ManagedByNow, AlreadyTaken, Return, LedgerFails, WriteInbox, ReadManaged, Refuse, Only,
         Finally, storeVars, lockVars
<1>2. \A d \in Callers : Stays(d)
  BY OthersStay DEF RootInv
<1>3. ASSUME NEW a \in acked', a \notin acked, a.kind = "lease", ~removed PROVE a.lease \in Unreleased(leases)
  <2>1. CASE AlreadyTaken(c)
    BY <1>3, <2>1 DEF AlreadyTaken
  <2>2. CASE Return(c)
    <3>1. /\ a = Answer(call[c])
          /\ Inside(c) /\ call[c].step = "done" /\ call[c].op \in Ops
      BY <1>3, <2>2 DEF Return, Inside, RootInv, CallInv, Busy, IsCall
    <3>2. call[c].op.kind = "lease" /\ a.lease = LeaseOf(call[c])
      BY <1>3, <3>1, Kinds DEF Answer
    <3>3. LeaseOf(call[c]) \in leases
      BY <1>3, <3>1, <3>2 DEF RootInv, LeaseCallSound, Step
    <3>4. QED
      BY <3>2, <3>3 DEF LeaseOf, Unreleased
  <2>3. CASE ~AlreadyTaken(c) /\ ~Return(c)
    BY <1>3, <2>3 DEF ManagedByNow, LedgerFails, Refuse, ghostVars
  <2>4. QED
    BY <2>1, <2>2, <2>3
<1>4. QED
  BY <1>1, <1>2, <1>3, LeasesUntouched

LEMMA ReadsKeepRoot ==
  ASSUME RootInv, CallInv', NEW c \in Callers, Onward(c),
         \/ ReadCooldowns(c) \/ WriteCooldowns(c) \/ JournalCooldown(c)
         \/ ReadInbox(c) \/ WriteInbox(c)
         \/ ReadLeases(c) \/ ReadManaged(c)
  PROVE  RootInv'
<1>1. UNCHANGED <<leases, leaseIds, managed>>
  BY DEF ReadCooldowns, WriteCooldowns, JournalCooldown, ReadInbox, WriteInbox, ReadLeases,
         ReadManaged, Only, storeVars, Refuse
<1>2. /\ Inside(c) /\ Inside(c)' /\ UNCHANGED <<removed, acked>>
      /\ call'[c].op = call[c].op /\ DOMAIN call = Callers /\ IsCall(call[c])
  BY DEF Onward, lockVars, Inside, RootInv, CallInv, Busy
<1>3. \A d \in Callers \ {c} : Stays(d)
  BY OthersStay DEF RootInv
<1>4. LeaseCallSound(call'[c])
  <2>1. CASE ReadCooldowns(c) \/ WriteCooldowns(c) \/ JournalCooldown(c) \/ ReadInbox(c) \/ WriteInbox(c)
    BY <1>2, <2>1 DEF ReadCooldowns, WriteCooldowns, JournalCooldown, ReadInbox, WriteInbox, At,
                      LeaseCallSound, Step
  <2>2. CASE ReadLeases(c)
    <3>1. /\ call[c].op.kind = "lease" /\ ~managed
          /\ call'[c].seen = leases /\ call'[c].step = "ledger"
      BY <1>2, <2>2, AfterStep DEF ReadLeases, At, Standalone, Sees, IsCall
    <3>2. QED
      BY <1>2, <3>1 DEF LeaseCallSound, Step
  <2>3. CASE ReadManaged(c)
    <3>1. call[c].op.kind = "manage" /\ leases = {}
      BY <1>2, <2>3 DEF ReadManaged, At, Refuse, Finally, MoveTo, Inside, RootInv, CallInv, LockInv, LockTypeOK
    <3>2. QED
      BY <1>2, <3>1 DEF LeaseCallSound, Step
  <2>4. QED
    BY <2>1, <2>2, <2>3
<1>5. QED
  BY <1>1, <1>2, <1>3, <1>4, LeasesUntouched

\* The steps that write: nobody else is inside to rely on what they change.
LEMMA WritesKeepRoot ==
  ASSUME RootInv, CallInv', NEW c \in Callers, Onward(c),
         JournalLease(c) \/ WriteLeases(c) \/ WriteMarker(c)
  PROVE  RootInv'
<1> DEFINE x == call[c]
<1>1. /\ Inside(c) /\ Inside(c)' /\ UNCHANGED <<removed, acked>>
      /\ call'[c].op = x.op /\ call'[c].id = x.id /\ DOMAIN call = Callers /\ IsCall(x)
  BY DEF Onward, lockVars, Inside, RootInv, CallInv, Busy
<1>2. \A d \in Callers \ {c} : Stays(d)
  BY OthersStay DEF RootInv
<1>3. \A d \in Callers : Busy(d)' /\ ~Inside(d)' => Unstarted(d)'
  BY <1>1, <1>2 DEF Stays
<1>4. ASSUME ~removed', NEW d \in Callers, Inside(d)', d # c PROVE FALSE
  BY <1>1, <1>4, Alone DEF RootInv, CallInv, Onward, lockVars, Inside
<1>5. ~removed => LeaseCallSound(x)
  BY <1>1 DEF RootInv
<1>6. ~removed' => LeaseCallSound(call[c])' /\ LeasesStand'
  <2> SUFFICES ASSUME ~removed PROVE LeaseCallSound(call[c])' /\ LeasesStand'
    BY <1>1
  <2>1. LeaseCallSound(x) /\ LeasesStand
    BY <1>5 DEF RootInv
  <2>2. CASE JournalLease(c)
    <3>1. /\ x.op.kind = "lease" /\ x.seen = leases /\ ~managed /\ ~Taken(x.op, leases)
          /\ call'[c].step = "map" /\ call'[c].seen = leases
          /\ leaseIds' = leaseIds \cup {x.id} /\ UNCHANGED <<leases, managed>>
      BY <1>1, <2>1, <2>2, AfterStep
         DEF JournalLease, At, Goes, Only, LeaseCallSound, Step, IsCall
    <3>2. LeaseCallSound(call[c])'
      BY <1>1, <3>1 DEF LeaseCallSound, Step, Taken, Unreleased, Conflicts
    <3>3. LeasesStand'
      BY <1>1, <2>1, <3>1 DEF LeasesStand, Acked, Unreleased
    <3>4. QED
      BY <3>2, <3>3
  <2>3. CASE WriteLeases(c)
    <3> DEFINE l == LeaseOf(x)
    <3>1. /\ x.op.kind = "lease" /\ x.id \in leaseIds /\ ~managed /\ ~Taken(x.op, leases)
          /\ call'[c].step = "done"
          /\ leases' = Unreleased(leases) \cup {l} /\ UNCHANGED <<leaseIds, managed>>
      BY <1>1, <2>1, <2>3, AfterStep
         DEF WriteLeases, At, Goes, Only, LeaseCallSound, Step, IsCall
    <3>2. l.id = x.id /\ l.branch = x.op.branch /\ l.path = x.op.path /\ l.released = FALSE
      BY DEF LeaseOf
    <3>3. LeaseCallSound(call[c])'
      <4>1. LeaseOf(call'[c]) = l
        BY <1>1 DEF LeaseOf
      <4>2. QED
        BY <1>1, <3>1, <4>1 DEF LeaseCallSound, Step, LeaseOf
    <3>4. \A m \in Unreleased(leases) : m.branch # l.branch /\ m.path # l.path
      BY <3>1, <3>2 DEF Taken, Conflicts
    <3>5. \A m, n \in leases' : m # n => m.branch # n.branch /\ m.path # n.path
      BY <2>1, <3>1, <3>4 DEF LeasesStand, Unreleased
    <3>6. \A a \in Acked("lease") : a.lease \in leases'
      <4>1. \A a \in Acked("lease") : a.lease \in leases
        BY <2>1 DEF LeasesStand
      <4>2. QED
        BY <3>1, <4>1 DEF RootInv, Unreleased
    <3>7. QED
      BY <1>1, <2>1, <3>1, <3>2, <3>3, <3>5, <3>6 DEF LeasesStand, Unreleased, Acked
  <2>4. CASE WriteMarker(c)
    <3>1. /\ x.op.kind = "manage" /\ leases = {}
          /\ UNCHANGED <<leases, leaseIds>>
      BY <1>1, <2>1, <2>4 DEF WriteMarker, At, Only, LeaseCallSound, Step
    <3>2. LeaseCallSound(call[c])'
      BY <1>1, <3>1 DEF LeaseCallSound, Step
    <3>3. LeasesStand'
      BY <1>1, <2>1, <3>1 DEF LeasesStand, Unreleased, Acked
    <3>4. QED
      BY <3>2, <3>3
  <2>5. QED
    BY <2>2, <2>3, <2>4
<1>7. QED
  BY <1>1, <1>3, <1>4, <1>6 DEF RootInv, LeasesStand, Acked

LEMMA RootInitially == ASSUME Init PROVE RootInv
<1>1. PICK root \in InitialRoots : leases = root.leases
  BY DEF Init
<1>2. \A l, m \in Unreleased(leases) : l # m => l.branch # m.branch /\ l.path # m.path
  BY <1>1, RootAssumption DEF Unreleased
<1>3. LeasesStand
  BY <1>2, Zenon DEF LeasesStand, Acked, Init
<1>4. stage = [c \in Callers |-> "idle"]
  BY DEF Init, LockInit
<1>5. QED
  BY <1>3, <1>4, CallsInitially DEF Init, RootInv, Busy, Inside, Acked

LEMMA StepKeepsRoot == ASSUME RootInv, [Next]_vars PROVE RootInv'
<1>1. CallInv'
  BY StepKeepsCalls DEF RootInv
<1>2. ASSUME NEW c \in Callers,
             \/ ManagedByNow(c) \/ AlreadyTaken(c) \/ Return(c) \/ LedgerFails(c)
      PROVE  RootInv'
  BY <1>1, <1>2, EndsKeepRoot, WithinCallback DEF RootInv
<1>3. ASSUME NEW c \in Callers,
             \/ ReadCooldowns(c) \/ WriteCooldowns(c) \/ JournalCooldown(c)
             \/ ReadInbox(c) \/ WriteInbox(c) \/ ReadLeases(c) \/ ReadManaged(c)
      PROVE  RootInv'
  BY <1>1, <1>3, EndsKeepRoot, ReadsKeepRoot, WithinCallback DEF RootInv
<1>4. ASSUME NEW c \in Callers, JournalLease(c) \/ WriteLeases(c) \/ WriteMarker(c)
      PROVE  RootInv'
  BY <1>1, <1>4, WritesKeepRoot, WithinCallback DEF RootInv
<1>5. QED
  BY <1>1, <1>2, <1>3, <1>4, OtherStepsKeepRoot DEF Next

\* While the lock file stays, a branch and a path have one owner, and an
\* acknowledged lease stays in the map (coordination.ts).
THEOREM LeasesStandHolds == Spec => []LeasesStand
<1>1. RootInv => LeasesStand
  BY DEF RootInv
<1>2. QED
  BY <1>1, RootInitially, StepKeepsRoot, PTL DEF Spec

-----------------------------------------------------------------------------
(* The cooldown map and the ledger *)

LEMMA Appended ==
  ASSUME NEW S, NEW s \in Seq(S), NEW e \in S
  PROVE  /\ Append(s, e) \in Seq(S)
         /\ ToSet(Append(s, e)) = ToSet(s) \cup {e}
         /\ Last(Append(s, e)) = e
BY DEF ToSet, Last

LEMMA IdsPositive == MaxCalls \in Nat /\ \A i \in Ids : i \in 0..MaxCalls /\ i # 0
<1>1. MaxCalls \in Nat
  BY CoordinationAssumption DEF CoordinationAssumption
<1>2. QED
  BY <1>1 DEF Ids

LEMMA CooldownProvider ==
  ASSUME NEW x, IsCall(x), x.op.kind = "cooldown" PROVE x.op.provider \in Providers
BY CoordinationAssumption DEF CoordinationAssumption, IsCall, Operations

\* Ids of cooldowns the ledger does not have yet.
Pending(x) == Step(x, "cooldown", {"read", "map", "ledger"})

CooldownCallSound(x) ==
  /\ Step(x, "cooldown", {"map"}) => x.seen = cooldowns
  /\ Step(x, "cooldown", {"ledger"}) => cooldowns[x.op.provider] = x.id
  /\ Step(x, "cooldown", {"done"}) => x.id \in ToSet(journal[x.op.provider])

CooldownTypes ==
  /\ used \subseteq Ids
  /\ ~removed => cooldowns \in [Providers -> 0..MaxCalls]
  /\ journal \in [Providers -> Seq(Ids)]
  /\ \A p \in Providers : ToSet(journal[p]) \subseteq used

CooldownInv ==
  /\ RootInv
  /\ CooldownTypes
  /\ CooldownsJournaled
  /\ \A c \in Callers : Busy(c) /\ Pending(call[c])
                          => call[c].id \notin ToSet(journal[call[c].op.provider])
  /\ ~removed => \A c \in Callers : Inside(c) => CooldownCallSound(call[c])

\* Steps that leave map and ledger alone.
LEMMA CooldownsUntouched ==
  ASSUME CooldownInv, RootInv', removed => removed',
         UNCHANGED <<cooldowns, journal>>, used \subseteq used', used' \subseteq Ids,
         \A a \in acked' : \/ a \in acked \/ a.kind # "cooldown" \/ removed
                           \/ a.id \in ToSet(journal[a.provider]),
         \A c \in Callers : \/ Stays(c)
                            \/ Inside(c) /\ Inside(c)' /\ (removed \/ CooldownCallSound(call'[c])),
         \A c \in Callers : Busy(c)' /\ Pending(call'[c]) =>
            \/ call'[c].id \notin used
            \/ Busy(c) /\ Pending(call[c]) /\ call'[c].op = call[c].op /\ call'[c].id = call[c].id
  PROVE  CooldownInv'
<1>1. CooldownTypes'
  BY DEF CooldownInv, CooldownTypes
<1>2. CooldownsJournaled'
  BY DEF CooldownInv, CooldownsJournaled, Acked
<1>3. ASSUME NEW c \in Callers, Busy(c)', Pending(call[c])'
      PROVE  call'[c].id \notin ToSet(journal[call'[c].op.provider])
  <2>1. Pending(call'[c]) /\ IsCall(call'[c]) /\ call'[c].op.kind = "cooldown"
    BY <1>3 DEF Pending, Step, RootInv, CallInv
  <2>2. call'[c].op.provider \in Providers
    BY <2>1, CooldownProvider
  <2>3. QED
    BY <1>3, <2>1, <2>2 DEF CooldownInv, CooldownTypes
<1>4. ASSUME ~removed', NEW c \in Callers, Inside(c)' PROVE CooldownCallSound(call[c])'
  <2>1. CooldownCallSound(call'[c]) => CooldownCallSound(call[c])'
    BY DEF CooldownCallSound
  <2>2. Busy(c)' /\ ~removed
    BY <1>4 DEF Busy, Inside
  <2>3. CASE Unstarted(c)'
    BY <2>3 DEF Unstarted, CooldownCallSound, Step
  <2>4. CASE Inside(c) /\ call'[c] = call[c]
    BY <2>1, <2>2, <2>4 DEF CooldownInv
  <2>5. QED
    BY <2>1, <2>2, <2>3, <2>4 DEF Stays
<1>5. QED
  BY <1>1, <1>2, <1>3, <1>4 DEF CooldownInv

\* A call that is under way after a step is new, or as it was.
NewOrSame(c) == Busy(c)' => call'[c].id \notin used \/ (Busy(c) /\ call'[c] = call[c])

LEMMA OthersSame ==
  ASSUME CallInv
  PROVE  /\ \A c \in Callers, op \in Ops : \A id \in NextIds(op) :
              Begin(c, op, id) => \A d \in Callers : NewOrSame(d)
         /\ \A c \in Callers : Lock(c) \/ Enter(c) \/ Over(c) \/ Throw(c) => \A d \in Callers : NewOrSame(d)
         /\ \A c \in Callers : Onward(c) => \A d \in Callers \ {c} : NewOrSame(d)
         /\ \A p \in Procs : Die(p) => \A d \in Callers : NewOrSame(d)
         /\ Removed \/ Unmoved => \A d \in Callers : NewOrSame(d)
<1> USE DEF NewOrSame, Busy
<1>1. stage \in [Callers -> Stages] /\ DOMAIN call = Callers
  BY DEF CallInv, LockInv, LockTypeOK
<1>2. ASSUME NEW c \in Callers, NEW op \in Ops, NEW id \in NextIds(op), Begin(c, op, id),
             NEW d \in Callers
      PROVE  NewOrSame(d)
  <2>1. stage' = [stage EXCEPT ![c] = "waiting"] /\ call' = [call EXCEPT ![c] = Fresh(op, id)]
    BY <1>2 DEF Begin, MoveTo
  <2>2. Fresh(op, id).id \notin used
    BY DEF Fresh, NextIds
  <2>3. QED
    BY <1>1, <2>1, <2>2
<1>3. ASSUME NEW c \in Callers, Lock(c) \/ Enter(c), NEW d \in Callers PROVE NewOrSame(d)
  <2>1. /\ call' = call /\ stage[c] # "idle"
        /\ \E s \in Stages : stage' = [stage EXCEPT ![c] = s]
    BY <1>3 DEF Lock, LockStep, Claim, Publish, Link, Open, Enter, Reserve, MoveTo, Stages
  <2>2. QED
    BY <1>1, <2>1
<1>4. ASSUME NEW c \in Callers, Over(c) \/ Throw(c), NEW d \in Callers PROVE NewOrSame(d)
  <2>1. stage' = [stage EXCEPT ![c] = "idle"] /\ call' = [call EXCEPT ![c] = NoCall]
    BY <1>4 DEF Over, Throw, Throws, GivesUp, Finally, MoveTo
  <2>2. QED
    BY <1>1, <2>1
<1>5. ASSUME NEW c \in Callers, Onward(c), NEW d \in Callers \ {c} PROVE NewOrSame(d)
  BY <1>5 DEF Onward, lockVars
<1>6. ASSUME NEW p \in Procs, Die(p), NEW d \in Callers PROVE NewOrSame(d)
  BY <1>6 DEF Die, LockDies
<1>7. ASSUME Removed \/ Unmoved, NEW d \in Callers PROVE NewOrSame(d)
  BY <1>7 DEF Removed, RemoveLock, Unmoved, lockVars
<1>8. QED
  BY <1>2, <1>3, <1>4, <1>5, <1>6, <1>7

\* The steps outside the callbacks.
LEMMA OtherStepsKeepCooldowns ==
  ASSUME CooldownInv, RootInv',
         \/ \E c \in Callers : \/ \E op \in Ops : \E id \in NextIds(op) : Begin(c, op, id)
                               \/ Lock(c) \/ Enter(c) \/ Throw(c)
         \/ \E p \in Procs : Die(p)
         \/ Removed \/ Tick \/ List \/ UNCHANGED vars
  PROVE  CooldownInv'
<1>1. /\ UNCHANGED <<cooldowns, journal, acked>>
      /\ removed => removed'
      /\ used' = used \/ \E op \in Ops : \E id \in NextIds(op) : used' = used \cup {id}
  BY DEF Begin, Lock, LockStep, Claim, Publish, Link, Open, Enter, Reserve, Throw, Throws, GivesUp,
         Finally, Die, LockDies, Removed, RemoveLock, Tick, List, vars, storeVars, ghostVars, lockVars
<1>2. Tick \/ List \/ UNCHANGED vars => Unmoved
  BY DEF Tick, List, vars, Unmoved, ghostVars
<1>3. \A d \in Callers : Stays(d) /\ NewOrSame(d)
  BY <1>2, OthersStay, OthersSame DEF CooldownInv, RootInv
<1>4. used \subseteq used' /\ used' \subseteq Ids
  BY <1>1 DEF CooldownInv, CooldownTypes, NextIds
<1>5. QED
  BY <1>1, <1>3, <1>4, CooldownsUntouched DEF NewOrSame

LEMMA EndsKeepCooldowns ==
  ASSUME CooldownInv, RootInv', NEW c \in Callers, Over(c),
         \/ ManagedByNow(c) \/ AlreadyTaken(c) \/ Return(c) \/ LedgerFails(c)
         \/ WriteInbox(c) /\ Refuse(c)
         \/ ReadManaged(c) /\ Refuse(c)
  PROVE  CooldownInv'
<1>1. UNCHANGED <<cooldowns, journal, removed, used>>
  BY DEF ManagedByNow, AlreadyTaken, Return, LedgerFails, WriteInbox, ReadManaged, Refuse, Only,
         Finally, storeVars, lockVars
<1>2. \A d \in Callers : Stays(d) /\ NewOrSame(d)
  BY OthersStay, OthersSame DEF CooldownInv, RootInv
<1>3. ASSUME NEW a \in acked', a \notin acked, a.kind = "cooldown", ~removed
      PROVE  a.id \in ToSet(journal[a.provider])
  <2>1. CASE AlreadyTaken(c)
    BY <1>3, <2>1 DEF AlreadyTaken
  <2>2. CASE Return(c)
    <3>1. /\ a = Answer(call[c])
          /\ Inside(c) /\ call[c].step = "done" /\ call[c].op \in Ops
      BY <1>3, <2>2 DEF Return, Inside, CooldownInv, RootInv, CallInv, Busy, IsCall
    <3>2. call[c].op.kind = "cooldown" /\ a.id = call[c].id /\ a.provider = call[c].op.provider
      BY <1>3, <3>1, Kinds DEF Answer
    <3>3. QED
      BY <1>3, <3>1, <3>2 DEF CooldownInv, CooldownCallSound, Step
  <2>3. CASE ~AlreadyTaken(c) /\ ~Return(c)
    BY <1>3, <2>3 DEF ManagedByNow, LedgerFails, Refuse, ghostVars
  <2>4. QED
    BY <2>1, <2>2, <2>3
<1>4. used' \subseteq Ids
  BY <1>1 DEF CooldownInv, CooldownTypes
<1>5. QED
  BY <1>1, <1>2, <1>3, <1>4, CooldownsUntouched DEF NewOrSame

\* The other operations' steps inside their callbacks, and the read.
LEMMA ReadsKeepCooldowns ==
  ASSUME CooldownInv, RootInv', NEW c \in Callers, Onward(c),
         \/ ReadLeases(c) \/ JournalLease(c) \/ WriteLeases(c)
         \/ ReadInbox(c) \/ WriteInbox(c) \/ ReadManaged(c) \/ WriteMarker(c)
         \/ ReadCooldowns(c)
  PROVE  CooldownInv'
<1>1. UNCHANGED <<cooldowns, journal>>
  BY DEF ReadLeases, JournalLease, WriteLeases, ReadInbox, WriteInbox, ReadManaged, WriteMarker,
         ReadCooldowns, Only, storeVars, Refuse
<1>2. /\ Inside(c) /\ Inside(c)' /\ UNCHANGED <<removed, acked, used>>
      /\ call'[c].op = call[c].op /\ call'[c].id = call[c].id
      /\ DOMAIN call = Callers /\ IsCall(call[c])
  BY DEF Onward, lockVars, Inside, CooldownInv, RootInv, CallInv, Busy
<1>3. \A d \in Callers \ {c} : Stays(d) /\ NewOrSame(d)
  BY OthersStay, OthersSame DEF CooldownInv, RootInv
<1>4. CooldownCallSound(call'[c]) /\ (Pending(call'[c]) => Pending(call[c]))
  <2>1. CASE ReadCooldowns(c)
    <3>1. /\ call[c].op.kind = "cooldown" /\ call[c].step = "read"
          /\ call'[c].seen = cooldowns /\ call'[c].step = "map"
      BY <1>2, <2>1, AfterStep DEF ReadCooldowns, At, Sees, IsCall
    <3>2. QED
      BY <1>2, <3>1 DEF CooldownCallSound, Pending, Step
  <2>2. CASE ~ReadCooldowns(c)
    <3>1. call[c].op.kind # "cooldown"
      BY <2>2 DEF ReadLeases, JournalLease, WriteLeases, ReadInbox, WriteInbox, ReadManaged,
                  WriteMarker, At
    <3>2. QED
      BY <1>2, <3>1 DEF CooldownCallSound, Pending, Step
  <2>3. QED
    BY <2>1, <2>2
<1>5. Busy(c)
  BY <1>2 DEF Busy, Inside
<1>6. used' \subseteq Ids
  BY <1>2 DEF CooldownInv, CooldownTypes
<1>7. QED
  BY <1>1, <1>2, <1>3, <1>4, <1>5, <1>6, CooldownsUntouched DEF NewOrSame

\* The two writes, in their order: the map runs ahead until the ledger has the
\* cooldown, too.
LEMMA WritesKeepCooldowns ==
  ASSUME CooldownInv, RootInv', NEW c \in Callers, Onward(c),
         WriteCooldowns(c) \/ JournalCooldown(c)
  PROVE  CooldownInv'
<1> DEFINE x == call[c]
           p == x.op.provider
<1>1. /\ Inside(c) /\ Inside(c)' /\ UNCHANGED <<removed, acked, used>>
      /\ call'[c].op = x.op /\ call'[c].id = x.id /\ DOMAIN call = Callers /\ IsCall(x)
      /\ x.id \in used /\ x.op.kind = "cooldown"
  BY DEF Onward, lockVars, Inside, CooldownInv, RootInv, CallInv, Busy, WriteCooldowns,
         JournalCooldown, At
<1>2. p \in Providers /\ x.id \in Ids /\ x.id # 0
  <2>1. p \in Providers
    BY <1>1, CooldownProvider
  <2>2. x.id \in Ids
    BY <1>1 DEF CooldownInv, CooldownTypes
  <2>3. QED
    BY <2>1, <2>2, IdsPositive
<1>3. \A d \in Callers \ {c} : Busy(d)' => Busy(d) /\ call'[d] = call[d] /\ call[d].id # x.id
  BY <1>1 DEF Onward, lockVars, Busy, Inside, CooldownInv, RootInv, CallInv
<1>4. ASSUME ~removed', NEW d \in Callers, Inside(d)' PROVE d = c
  BY <1>1, <1>4, Alone DEF CooldownInv, RootInv, CallInv, Onward, lockVars, Inside
<1>5. CASE WriteCooldowns(c)
  <2>1. /\ x.step = "map" /\ call'[c].step = "ledger"
        /\ cooldowns' = [x.seen EXCEPT ![p] = x.id] /\ journal' = journal
    BY <1>1, <1>5, AfterStep DEF WriteCooldowns, At, Goes, Only, IsCall
  <2>2. ~removed => cooldowns' = [cooldowns EXCEPT ![p] = x.id]
    BY <1>1, <2>1 DEF CooldownInv, CooldownCallSound, Step
  <2>3. x.id \notin ToSet(journal[p])
    BY <1>1, <2>1 DEF CooldownInv, Pending, Step, Busy, Inside
  <2>4. CooldownTypes'
    BY <1>1, <1>2, <2>1, <2>2, IdsPositive DEF CooldownInv, CooldownTypes
  <2>5. CooldownsJournaled'
    <3> SUFFICES ASSUME ~removed PROVE CooldownsJournaled'
      BY <1>1 DEF CooldownsJournaled
    <3>1. \A q \in Providers : cooldowns'[q] = IF q = p THEN x.id ELSE cooldowns[q]
      BY <1>2, <2>2 DEF CooldownInv, CooldownTypes
    <3>2. QED
      BY <1>1, <1>2, <2>1, <2>3, <3>1 DEF CooldownInv, CooldownsJournaled, Acked
  <2>6. ASSUME NEW d \in Callers, Busy(d)', Pending(call[d])'
        PROVE  call'[d].id \notin ToSet(journal'[call'[d].op.provider])
    <3>1. Pending(call'[d])
      BY <2>6 DEF Pending, Step
    <3>2. CASE d = c
      BY <1>1, <2>1, <2>3, <3>2
    <3>3. CASE d # c
      BY <1>3, <2>1, <2>6, <3>1, <3>3 DEF CooldownInv
    <3>4. QED
      BY <3>2, <3>3
  <2>7. ~removed' => CooldownCallSound(call[c])'
    BY <1>1, <1>2, <2>1, <2>2 DEF CooldownCallSound, Step, CooldownInv, CooldownTypes
  <2>8. QED
    BY <1>4, <2>4, <2>5, <2>6, <2>7 DEF CooldownInv
<1>6. CASE JournalCooldown(c)
  <2>1. /\ x.step = "ledger" /\ call'[c].step = "done"
        /\ journal' = [journal EXCEPT ![p] = Append(journal[p], x.id)] /\ cooldowns' = cooldowns
    BY <1>1, <1>6, AfterStep DEF JournalCooldown, At, Goes, Only, IsCall
  <2>2. /\ journal \in [Providers -> Seq(Ids)]
        /\ journal'[p] = Append(journal[p], x.id)
        /\ \A q \in Providers \ {p} : journal'[q] = journal[q]
    BY <1>2, <2>1 DEF CooldownInv, CooldownTypes
  <2>3. /\ journal'[p] \in Seq(Ids)
        /\ ToSet(journal'[p]) = ToSet(journal[p]) \cup {x.id}
        /\ Last(journal'[p]) = x.id
    BY <1>2, <2>2, Appended
  <2>4. CooldownTypes'
    BY <1>1, <1>2, <2>1, <2>2, <2>3 DEF CooldownInv, CooldownTypes
  <2>5. ~removed => cooldowns[p] = x.id
    BY <1>1, <2>1 DEF CooldownInv, CooldownCallSound, Step
  <2>6. CooldownsJournaled'
    <3> SUFFICES ASSUME ~removed PROVE CooldownsJournaled'
      BY <1>1 DEF CooldownsJournaled
    <3>1. \A a \in Acked("cooldown") : a.id \in ToSet(journal[a.provider])
      BY DEF CooldownInv, CooldownsJournaled
    <3>2. \A a \in Acked("cooldown") : a.id \in ToSet(journal'[a.provider])
      <4> SUFFICES ASSUME NEW a \in Acked("cooldown")
                   PROVE  a.id \in ToSet(journal'[a.provider])
        OBVIOUS
      <4>1. CASE a.provider = p
        BY <2>3, <3>1, <4>1
      <4>2. CASE a.provider # p
        BY <2>1, <3>1, <4>2
      <4>3. QED
        BY <4>1, <4>2
    <3>3. QED
      BY <1>1, <1>2, <2>1, <2>2, <2>3, <2>5, <3>2 DEF CooldownInv, CooldownsJournaled, Acked
  <2>7. ASSUME NEW d \in Callers, Busy(d)', Pending(call[d])'
        PROVE  call'[d].id \notin ToSet(journal'[call'[d].op.provider])
    <3>1. Pending(call'[d]) /\ d # c
      BY <1>1, <2>1, <2>7 DEF Pending, Step
    <3>2. Busy(d) /\ call'[d] = call[d] /\ call[d].id # x.id /\ IsCall(call[d])
      BY <1>3, <2>7, <3>1 DEF CooldownInv, RootInv, CallInv
    <3>3. call[d].op.provider \in Providers /\ call[d].id \notin ToSet(journal[call[d].op.provider])
      BY <3>1, <3>2, CooldownProvider DEF CooldownInv, Pending, Step
    <3>4. QED
      BY <2>2, <2>3, <3>2, <3>3
  <2>8. ~removed' => CooldownCallSound(call[c])'
    BY <1>1, <2>1, <2>3 DEF CooldownCallSound, Step
  <2>9. QED
    BY <1>4, <2>4, <2>6, <2>7, <2>8 DEF CooldownInv
<1>7. QED
  BY <1>5, <1>6

LEMMA CooldownsInitially == ASSUME Init PROVE CooldownInv
<1>1. /\ cooldowns = [p \in Providers |-> 0] /\ journal = [p \in Providers |-> <<>>]
      /\ used = {} /\ acked = {}
      /\ stage = [c \in Callers |-> "idle"]
  BY DEF Init, LockInit
<1>2. \A p \in Providers : ToSet(journal[p]) = {}
  BY <1>1 DEF ToSet
<1>3. CooldownTypes
  BY <1>1, <1>2, CoordinationAssumption DEF CooldownTypes, CoordinationAssumption
<1>4. CooldownsJournaled
  BY <1>1, <1>2 DEF CooldownsJournaled, Acked
<1>5. QED
  BY <1>1, <1>3, <1>4, RootInitially DEF CooldownInv, Busy, Inside

LEMMA StepKeepsCooldowns == ASSUME CooldownInv, [Next]_vars PROVE CooldownInv'
<1>1. RootInv'
  BY StepKeepsRoot DEF CooldownInv
<1>2. ASSUME NEW c \in Callers,
             \/ ManagedByNow(c) \/ AlreadyTaken(c) \/ Return(c) \/ LedgerFails(c)
      PROVE  CooldownInv'
  BY <1>1, <1>2, EndsKeepCooldowns, WithinCallback DEF CooldownInv, RootInv
<1>3. ASSUME NEW c \in Callers,
             \/ ReadLeases(c) \/ JournalLease(c) \/ WriteLeases(c)
             \/ ReadInbox(c) \/ WriteInbox(c) \/ ReadManaged(c) \/ WriteMarker(c)
             \/ ReadCooldowns(c)
      PROVE  CooldownInv'
  BY <1>1, <1>3, EndsKeepCooldowns, ReadsKeepCooldowns, WithinCallback DEF CooldownInv, RootInv
<1>4. ASSUME NEW c \in Callers, WriteCooldowns(c) \/ JournalCooldown(c)
      PROVE  CooldownInv'
  BY <1>1, <1>4, WritesKeepCooldowns, WithinCallback DEF CooldownInv, RootInv
<1>5. QED
  BY <1>1, <1>2, <1>3, <1>4, OtherStepsKeepCooldowns DEF Next

\* While the lock file stays, the ledger tells of no cooldown the map has not
\* had and keeps every acknowledged one (coordination.ts, setProviderCooldown).
THEOREM CooldownsJournaledHolds == Spec => []CooldownsJournaled
<1>1. CooldownInv => CooldownsJournaled
  BY DEF CooldownInv
<1>2. QED
  BY <1>1, CooldownsInitially, StepKeepsCooldowns, PTL DEF Spec
-----------------------------------------------------------------------------
(* The message file *)

\* What a message file holds: messages, each with an id of its own.
InboxOK(box) ==
  /\ box \in Seq(ToSet(box))
  /\ \A m \in ToSet(box) : IsMessage(m)
  /\ \A m, n \in ToSet(box) : m.id = n.id => m = n

\* Nothing that calls sent is dated after t, and no consumer that was given
\* only such messages is past t.
DatedBy(t) ==
  /\ \A m \in ToSet(inbox) : m.id \in Ids => m.at <= t
  /\ ~reader.foreign => reader.cursor.at <= t

\* Calls whose message is not in the file yet.
Unsent(x) == Step(x, "send", {"read", "inbox"})

SendCallSound(x) ==
  /\ Step(x, "send", {"inbox"}) => /\ x.seen = inbox
                                   /\ x.now \in Nat /\ x.now <= clock
                                   /\ DatedBy(x.now)
  /\ Step(x, "send", {"done"}) => /\ x.now \in Nat
                                  /\ Unexpired(MessageOf(x), clock) => MessageOf(x) \in ToSet(inbox)

SendTypes ==
  /\ InboxOK(inbox)
  /\ \A m \in ToSet(inbox) : m.id \in Ids => m.id \in used
  /\ reader \in [cursor : [at : Nat, id : Nat], seconds : SUBSET Nat, foreign : BOOLEAN]
  /\ reader.cursor.at \in reader.seconds
  /\ \A a \in Acked("send") : a.message.id \in Ids /\ a.message.at \in Nat

SendInv ==
  /\ CooldownInv
  /\ clock \in Nat
  /\ InboxKept
  /\ PagesMissOnlyTies
  /\ ~removed =>
       /\ SendTypes
       /\ DatedBy(clock)
       /\ \A c \in Callers : Busy(c) /\ Unsent(call[c])
                               => \A m \in ToSet(inbox) : m.id # call[c].id
       /\ \A c \in Callers : Inside(c) => SendCallSound(call[c])

\* The file after its times were corrected, before anything is dropped.
Kept(box, now) == {Dated(m, now) : m \in ToSet(box)}

LEMMA Constants == {InboxTtl, Capacity, PageLimit} \subseteq Nat
BY CoordinationAssumption DEF CoordinationAssumption

LEMMA ToSetFinite ==
  ASSUME NEW T, NEW s \in Seq(T) PROVE IsFiniteSet(ToSet(s)) /\ ToSet(s) \subseteq T
<1>1. Len(s) \in Nat /\ DOMAIN s = 1..Len(s)
  OBVIOUS
<1>2. IsFiniteSet(DOMAIN s)
  BY <1>1, FS_Interval
<1>3. s \in Surjection(DOMAIN s, ToSet(s))
  BY DEF Surjection, ToSet
<1>4. IsFiniteSet(ToSet(s))
  BY <1>2, <1>3, FS_Surjection
<1>5. QED
  BY <1>1, <1>4 DEF ToSet

\* A correction changes the time of a message from the future, and only that.
LEMMA DatedSound ==
  ASSUME NEW m, IsMessage(m), NEW now \in Nat
  PROVE  /\ IsMessage(Dated(m, now))
         /\ Dated(m, now).id = m.id
         /\ Dated(m, now).scope = m.scope
         /\ Dated(m, now).at <= now
         /\ m.at <= now => Dated(m, now) = m
         /\ Dated(m, now) # m => Dated(m, now).at = now
BY DEF IsMessage, Dated

\* What is left of the file is what has not expired of it.
LEMMA NormalizedSound ==
  ASSUME NEW box, InboxOK(box), NEW now \in Nat
  PROVE  /\ Normalized(box, now) \in Seq(Kept(box, now))
         /\ ToSet(Normalized(box, now)) = {m \in Kept(box, now) : Unexpired(m, now)}
<1> DEFINE s == DatedAll(box, now)
           S == {i \in DOMAIN box : Unexpired(Dated(box[i], now), now)}
<1>1. Len(box) \in Nat /\ DOMAIN box = 1..Len(box) /\ DOMAIN s = DOMAIN box
  BY DEF InboxOK, DatedAll
<1>2. \A i \in DOMAIN box : s[i] = Dated(box[i], now) /\ s[i] \in Kept(box, now)
  BY DEF DatedAll, Kept, ToSet
<1>3. s \in Seq(Kept(box, now))
  <2>1. s \in [1..Len(box) -> Kept(box, now)]
    BY <1>1, <1>2 DEF DatedAll
  <2>2. QED
    BY <1>1, <2>1
<1>4. S \in SUBSET (DOMAIN s)
  BY <1>1
<1>5. /\ Normalized(box, now) \in Seq(Kept(box, now))
      /\ IsFiniteSet(S) /\ S \in SUBSET Int
  BY <1>3, <1>4, SubsequenceType DEF Normalized
<1>6. ASSUME NEW m \in ToSet(Normalized(box, now))
      PROVE  m \in Kept(box, now) /\ Unexpired(m, now)
  <2>1. PICK k \in DOMAIN Subsequence(s, S) : m = Subsequence(s, S)[k]
    BY <1>6 DEF ToSet, Normalized
  <2>2. Nth(S, k) \in S /\ m = s[Nth(S, k)]
    BY <1>5, <2>1, SubsequenceProperties
  <2>3. QED
    BY <1>2, <2>2
<1>7. ASSUME NEW m \in Kept(box, now), Unexpired(m, now)
      PROVE  m \in ToSet(Normalized(box, now))
  <2>1. PICK i \in DOMAIN box : m = Dated(box[i], now)
    BY DEF Kept, ToSet
  <2>2. i \in S
    BY <1>7, <2>1
  <2>3. PICK k \in DOMAIN Subsequence(s, S) : Nth(S, k) = i /\ Subsequence(s, S)[k] = s[i]
    <3> HIDE DEF s, S
    <3>1. /\ \A k \in DOMAIN Subsequence(s, S) : Subsequence(s, S)[k] = s[Nth(S, k)]
          /\ \E k \in DOMAIN Subsequence(s, S) : Nth(S, k) = i
      BY <1>5, <2>2, SubsequenceProperties
    <3>2. QED
      BY <3>1
  <2>4. m = Normalized(box, now)[k] /\ k \in DOMAIN Normalized(box, now)
    BY <1>2, <2>1, <2>3 DEF Normalized
  <2>5. QED
    BY <2>4 DEF ToSet
<1>8. QED
  BY <1>5, <1>6, <1>7

\* What a send leaves: the file as it was, or what is left of it, and the new
\* message unless the file is full.
LEMMA SentSound ==
  ASSUME NEW box, InboxOK(box), NEW now \in Nat,
         NEW m, IsMessage(m), \A n \in ToSet(box) : n.id # m.id
  PROVE  /\ InboxOK(Sent(box, m, now))
         /\ \A n \in ToSet(Sent(box, m, now)) :
              \/ n = m
              \/ n \in ToSet(box)
              \/ n.at = now /\ \E o \in ToSet(box) : n.id = o.id
         /\ \A n \in ToSet(box) : n.at <= now /\ Unexpired(n, now) => n \in ToSet(Sent(box, m, now))
         /\ ~Full(box, now) => m \in ToSet(Sent(box, m, now))
<1> DEFINE left == Normalized(box, now)
           after == Sent(box, m, now)
<1>1. /\ left \in Seq(Kept(box, now))
      /\ ToSet(left) = {n \in Kept(box, now) : Unexpired(n, now)}
  BY NormalizedSound
<1>2. ASSUME NEW n \in Kept(box, now)
      PROVE  \E o \in ToSet(box) : n = Dated(o, now) /\ IsMessage(o)
  BY <1>2 DEF Kept, InboxOK
<1>3. ASSUME NEW n \in Kept(box, now)
      PROVE  /\ IsMessage(n)
             /\ n \in ToSet(box) \/ n.at = now
             /\ \E o \in ToSet(box) : n.id = o.id
             /\ n # m
  BY <1>2, <1>3, DatedSound
<1>4. ASSUME NEW n \in Kept(box, now), NEW p \in Kept(box, now), n.id = p.id PROVE n = p
  <2>1. PICK o \in ToSet(box) : n = Dated(o, now) /\ IsMessage(o)
    BY <1>2
  <2>2. PICK q \in ToSet(box) : p = Dated(q, now) /\ IsMessage(q)
    BY <1>2
  <2>3. o.id = q.id
    BY <1>4, <2>1, <2>2, DatedSound
  <2>4. QED
    BY <2>1, <2>2, <2>3 DEF InboxOK
<1>5. InboxOK(left)
  <2>1. left \in Seq(ToSet(left))
    <3>1. Len(left) \in Nat /\ left \in [1..Len(left) -> Kept(box, now)]
      BY <1>1
    <3>2. \A i \in 1..Len(left) : left[i] \in ToSet(left)
      BY <3>1 DEF ToSet
    <3>3. QED
      BY <3>1, <3>2
  <2>2. QED
    BY <1>1, <1>3, <1>4, <2>1 DEF InboxOK
<1>6. \A n \in ToSet(box) : n.at <= now /\ Unexpired(n, now) => n \in ToSet(left)
  BY <1>1, DatedSound DEF InboxOK, Kept
<1>7. CASE ~Full(box, now)
  <2>1. after = Append(left, m)
    BY <1>7 DEF Sent
  <2>2. after \in Seq(ToSet(left) \cup {m}) /\ ToSet(after) = ToSet(left) \cup {m}
    <3>1. left \in Seq(ToSet(left) \cup {m})
      BY <1>5 DEF InboxOK
    <3>2. QED
      BY <2>1, <3>1, Appended
  <2>3. InboxOK(after)
    BY <1>1, <1>3, <1>5, <2>2 DEF InboxOK
  <2>4. QED
    BY <1>1, <1>3, <1>6, <2>2, <2>3
<1>8. CASE Full(box, now)
  <2>1. after = left \/ after = box
    BY <1>8 DEF Sent
  <2>2. QED
    BY <1>1, <1>3, <1>5, <1>6, <1>8, <2>1
<1>9. QED
  BY <1>7, <1>8

\* Messages with ids of their own are in order by their time and id.
LEMMA BeforeIsOrder ==
  ASSUME NEW S, \A m \in S : IsMessage(m), \A m, n \in S : m.id = n.id => m = n
  PROVE  IsOrder({p \in S \X S : Before(p[1], p[2])}, S)
<1> DEFINE R == {p \in S \X S : Before(p[1], p[2])}
<1>1. \A m, n \in S : <<m, n>> \in R <=> Before(m, n)
  OBVIOUS
<1>2. \A m \in S : m.at \in Nat /\ m.id \in Nat
  BY DEF IsMessage
<1>3. \A m \in S : ~Before(m, m)
  BY <1>2 DEF Before
<1>4. \A m, n, o \in S : Before(m, n) /\ Before(n, o) => Before(m, o)
  BY <1>2 DEF Before
<1>5. \A m, n \in S : m # n => Before(m, n) \/ Before(n, m)
  BY <1>2 DEF Before
<1> HIDE DEF R
<1>6. IsOrder(R, S)
  BY <1>1, <1>3, <1>4, <1>5 DEF IsOrder
<1>7. QED
  BY <1>6 DEF R

\* A page ends with one of its messages, which all the others of the page are
\* before and all that the limit cut off are after.
LEMMA PageSound ==
  ASSUME NEW box, InboxOK(box), NEW scope, NEW cursor, NEW now,
         Page(box, scope, cursor, now) # {}
  PROVE  LET page == Page(box, scope, cursor, now) IN
         /\ page \subseteq Waiting(box, scope, cursor, now)
         /\ LatestOf(page) \in page
         /\ \A m \in Waiting(box, scope, cursor, now) \ page : Before(LatestOf(page), m)
<1> DEFINE waiting == Waiting(box, scope, cursor, now)
           page == Page(box, scope, cursor, now)
           R == {p \in waiting \X waiting : Before(p[1], p[2])}
           Q == {p \in page \X page : Before(p[1], p[2])}
           below(m) == {n \in waiting : Before(n, m)}
<1>1. /\ waiting \subseteq ToSet(box) /\ page \subseteq waiting
      /\ page = {m \in waiting : Cardinality(below(m)) < PageLimit}
  BY DEF Waiting, Page
<1>2. IsFiniteSet(waiting) /\ IsFiniteSet(page)
  <2>1. IsFiniteSet(ToSet(box))
    BY ToSetFinite DEF InboxOK
  <2>2. QED
    BY <1>1, <2>1, FS_Subset
<1>3. IsOrder(R, waiting) /\ IsOrder(Q, page)
  <2>1. /\ \A m \in waiting : IsMessage(m)
        /\ \A m, n \in waiting : m.id = n.id => m = n
    BY <1>1 DEF InboxOK
  <2>2. /\ \A m \in page : IsMessage(m)
        /\ \A m, n \in page : m.id = n.id => m = n
    BY <1>1, <2>1
  <2>3. QED
    BY <2>1, <2>2, BeforeIsOrder
<1>4. LatestOf(page) \in page
  <2>1. \E m \in page : \A n \in page \ {m} : <<n, m>> \in Q
    BY <1>2, <1>3, LastOfOrder
  <2>2. \E m \in page : \A n \in page \ {m} : Before(n, m)
    BY <2>1
  <2>3. QED
    BY <2>2 DEF LatestOf
<1>5. ASSUME NEW m \in waiting \ page, NEW l \in page PROVE Before(l, m)
  <2>1. l \in waiting /\ m # l
    BY <1>1, <1>5
  <2>2. below(m) = Below(R, waiting, m) /\ below(l) = Below(R, waiting, l)
    BY <2>1 DEF Below
  <2>3. /\ Cardinality(below(m)) \in 0..(Cardinality(waiting) - 1)
        /\ Cardinality(below(l)) \in 0..(Cardinality(waiting) - 1)
        /\ <<m, l>> \in R => Cardinality(below(m)) < Cardinality(below(l))
    BY <1>2, <1>3, <2>1, <2>2, LaterHasMoreBelow
  <2>4. ~(Cardinality(below(m)) < PageLimit) /\ Cardinality(below(l)) < PageLimit
    BY <1>1, <1>5
  <2>5. Cardinality(waiting) \in Nat /\ PageLimit \in Nat
    BY <1>2, FS_CardinalityType, Constants
  <2>6. <<m, l>> \notin R
    BY <2>3, <2>4, <2>5
  <2>7. <<l, m>> \in R
    BY <1>3, <2>1, <2>6 DEF IsOrder
  <2>8. QED
    BY <2>7
<1>6. QED
  BY <1>1, <1>4, <1>5

-----------------------------------------------------------------------------
(* Steps of the senders and of the reader *)

\* Steps that leave message file and reader alone.
LEMMA SendsUntouched ==
  ASSUME SendInv, CooldownInv', removed => removed',
         UNCHANGED <<inbox, reader, delivered>>,
         clock' \in Nat, clock <= clock', used \subseteq used',
         \A a \in acked' : \/ a \in acked \/ a.kind # "send" \/ removed
                           \/ /\ a.message.id \in Ids /\ a.message.at \in Nat
                              /\ Unexpired(a.message, clock) => a.message \in ToSet(inbox),
         \A c \in Callers : \/ Stays(c)
                            \/ Inside(c) /\ Inside(c)' /\ (removed \/ SendCallSound(call'[c])),
         \A c \in Callers : Busy(c)' /\ Unsent(call'[c]) =>
            \/ call'[c].id \in Ids \ used
            \/ Busy(c) /\ Unsent(call[c]) /\ call'[c].id = call[c].id
  PROVE  SendInv'
<1> USE Constants
<1>1. CASE removed'
  BY <1>1 DEF SendInv, InboxKept, PagesMissOnlyTies
<1>2. CASE ~removed'
  <2>1. ~removed /\ SendTypes /\ DatedBy(clock) /\ clock \in Nat
    BY <1>2 DEF SendInv
  <2>2. ASSUME NEW m, m.at \in Nat, Unexpired(m, clock') PROVE Unexpired(m, clock)
    BY <2>1, <2>2 DEF Unexpired
  <2>3. \A m \in ToSet(inbox) : m.at \in Nat /\ m.id \in Nat
    BY <2>1 DEF SendTypes, InboxOK, IsMessage
  <2>4. \A a \in Acked("send")' : a.message.id \in Ids /\ a.message.at \in Nat
    BY <1>2, <2>1 DEF SendTypes, Acked
  <2>5. SendTypes'
    BY <2>1, <2>4 DEF SendTypes
  <2>6. DatedBy(clock)'
    <3>1. \A m \in ToSet(inbox) : m.id \in Ids => m.at <= clock'
      BY <2>1, <2>3 DEF DatedBy
    <3>2. ~reader.foreign => reader.cursor.at <= clock'
      <4>1. reader.cursor.at \in Nat
        BY <2>1 DEF SendTypes
      <4>2. QED
        BY <2>1, <4>1 DEF DatedBy
    <3>3. QED
      BY <3>1, <3>2 DEF DatedBy
  <2>7. InboxKept'
    <3> SUFFICES ASSUME NEW a \in Acked("send")', Unexpired(a.message, clock')
                 PROVE  a.message \in ToSet(inbox)
      BY DEF InboxKept, Unexpired
    <3>1. Unexpired(a.message, clock)
      BY <2>2, <2>4
    <3>2. QED
      BY <2>1, <3>1 DEF SendInv, InboxKept, Acked
  <2>8. PagesMissOnlyTies'
    <3> SUFFICES ASSUME ~reader.foreign, NEW m \in ToSet(inbox),
                        Unexpired(m, clock'), ScopeMatches(m, ReaderScope),
                        ~Before(reader.cursor, m), m.id \notin delivered
                 PROVE  m.at \in reader.seconds
      BY DEF PagesMissOnlyTies, Unexpired, ScopeMatches, Before
    <3>1. Unexpired(m, clock)
      BY <2>2, <2>3
    <3>2. QED
      BY <2>1, <3>1 DEF SendInv, PagesMissOnlyTies
  <2>9. ASSUME NEW c \in Callers, Busy(c)', Unsent(call[c])', NEW m \in ToSet(inbox)
        PROVE  m.id # call'[c].id
    <3>1. Unsent(call'[c])
      BY <2>9 DEF Unsent, Step
    <3>2. QED
      BY <2>1, <2>9, <3>1 DEF SendInv, SendTypes
  <2>10. ASSUME NEW c \in Callers, Inside(c)' PROVE SendCallSound(call[c])'
    <3>1. Busy(c)'
      BY <2>10 DEF Busy, Inside
    <3>2. CASE Unstarted(c)'
      BY <3>2 DEF Unstarted, SendCallSound, Step
    <3>3. CASE ~Unstarted(c)'
      <4>1. SendCallSound(call'[c])
        BY <2>1, <3>1, <3>3 DEF SendInv, Stays
      <4> DEFINE x == call'[c]
      <4>2. Step(x, "send", {"inbox"}) => /\ x.seen = inbox /\ x.now \in Nat /\ x.now <= clock'
                                          /\ DatedBy(x.now)
        BY <2>1, <4>1 DEF SendCallSound
      <4>3. Step(x, "send", {"done"}) =>
              /\ x.now \in Nat
              /\ Unexpired(MessageOf(x), clock') => MessageOf(x) \in ToSet(inbox)
        <5>1. MessageOf(x).at = x.now
          BY DEF MessageOf
        <5>2. QED
          BY <2>2, <4>1, <5>1 DEF SendCallSound
      <4>4. QED
        BY <4>2, <4>3 DEF SendCallSound, Step, DatedBy, Unexpired, MessageOf
    <3>4. QED
      BY <3>2, <3>3
  <2>11. QED
    BY <1>2, <2>5, <2>6, <2>7, <2>8, <2>9, <2>10 DEF SendInv
<1>3. QED
  BY <1>1, <1>2

\* A read of the lock-free reader.
LEMMA ListKeepsSends ==
  ASSUME SendInv, CooldownInv', List
  PROVE  SendInv'
<1> DEFINE page == Page(inbox, ReaderScope, reader.cursor, clock)
           waiting == Waiting(inbox, ReaderScope, reader.cursor, clock)
           last == LatestOf(page)
<1>1. /\ page # {}
      /\ delivered' = delivered \cup {m.id : m \in page}
      /\ reader' = [cursor  |-> [at |-> last.at, id |-> last.id],
                    seconds |-> reader.seconds \cup {last.at},
                    foreign |-> reader.foreign \/ \E m \in page : m.id \notin Ids]
      /\ UNCHANGED <<stage, removed, call, inbox, clock, used, acked>>
  BY DEF List, lockVars, storeVars
<1>2. CASE removed
  BY <1>1, <1>2 DEF SendInv, InboxKept, PagesMissOnlyTies
<1>3. CASE ~removed
  <2>1. SendTypes /\ DatedBy(clock) /\ InboxOK(inbox) /\ clock \in Nat
    BY <1>3 DEF SendInv, SendTypes
  <2>2. /\ page \subseteq waiting /\ last \in page
        /\ \A m \in waiting \ page : Before(last, m)
    BY <1>1, <2>1, PageSound
  <2>3. last \in ToSet(inbox) /\ last.at \in Nat /\ last.id \in Nat
    BY <2>1, <2>2 DEF Waiting, InboxOK, IsMessage
  <2>4. /\ reader'.cursor.at = last.at /\ reader'.cursor.id = last.id
        /\ reader'.seconds = reader.seconds \cup {last.at}
        /\ ~reader'.foreign => ~reader.foreign /\ last.id \in Ids
    BY <1>1, <2>2
  <2>5. SendTypes'
    <3>1. reader' \in [cursor : [at : Nat, id : Nat], seconds : SUBSET Nat, foreign : BOOLEAN]
      <4>1. reader.foreign \in BOOLEAN /\ reader.seconds \in SUBSET Nat
        BY <2>1 DEF SendTypes
      <4>2. (reader.foreign \/ \E m \in page : m.id \notin Ids) \in BOOLEAN
        BY <4>1, Zenon
      <4> DEFINE flag == reader.foreign \/ \E m \in page : m.id \notin Ids
      <4> HIDE DEF flag, last, page
      <4>3. reader' = [cursor  |-> [at |-> last.at, id |-> last.id],
                       seconds |-> reader.seconds \cup {last.at},
                       foreign |-> flag]
        BY <1>1 DEF flag
      <4>4. flag \in BOOLEAN
        BY <4>2 DEF flag, page
      <4>5. QED
        BY <2>3, <4>1, <4>3, <4>4
    <3>2. QED
      BY <1>1, <2>1, <2>4, <3>1 DEF SendTypes, Acked
  <2>6. ASSUME NEW t, DatedBy(t) PROVE /\ ~reader'.foreign => reader'.cursor.at <= t
                                      /\ \A m \in ToSet(inbox') : m.id \in Ids => m.at <= t
    BY <1>1, <2>3, <2>4, <2>6 DEF DatedBy
  <2>7. PagesMissOnlyTies'
    <3> SUFFICES ASSUME ~reader'.foreign, NEW m \in ToSet(inbox),
                        Unexpired(m, clock), ScopeMatches(m, ReaderScope),
                        ~Before(reader'.cursor, m), m.id \notin delivered'
                 PROVE  m.at \in reader'.seconds
      BY <1>1 DEF PagesMissOnlyTies
    <3>1. m \notin page /\ m.id \notin delivered
      BY <1>1
    <3>2. ~Before(last, m)
      BY <2>4 DEF Before
    <3>3. m \notin waiting
      BY <2>2, <3>1, <3>2
    <3>4. ~Before(reader.cursor, m)
      BY <3>3 DEF Waiting
    <3>5. m.at \in reader.seconds
      BY <1>3, <2>4, <3>1, <3>4 DEF SendInv, PagesMissOnlyTies
    <3>6. QED
      BY <2>4, <3>5
  <2>8. InboxKept'
    BY <1>1 DEF SendInv, InboxKept, Acked
  <2>9. ASSUME NEW c \in Callers, Inside(c)' PROVE SendCallSound(call[c])'
    <3>1. SendCallSound(call[c]) /\ call' = call
      BY <1>1, <1>3, <2>9 DEF SendInv, Inside
    <3>2. Step(call[c], "send", {"inbox"}) => DatedBy(call[c].now)'
      BY <2>6, <3>1 DEF SendCallSound, DatedBy
    <3>3. QED
      BY <1>1, <3>1, <3>2 DEF SendCallSound
  <2>10. DatedBy(clock)'
    BY <1>1, <2>1, <2>6 DEF DatedBy
  <2>11. QED
    BY <1>1, <1>3, <2>5, <2>7, <2>8, <2>9, <2>10 DEF SendInv, Busy, Unsent, Step
<1>4. QED
  BY <1>2, <1>3

\* The steps outside the callbacks.
LEMMA OtherStepsKeepSends ==
  ASSUME SendInv, CooldownInv',
         \/ \E c \in Callers : \/ \E op \in Ops : \E id \in NextIds(op) : Begin(c, op, id)
                               \/ Lock(c) \/ Enter(c) \/ Throw(c)
         \/ \E p \in Procs : Die(p)
         \/ Removed \/ Tick \/ UNCHANGED vars
  PROVE  SendInv'
<1>1. /\ UNCHANGED <<inbox, reader, delivered, acked>>
      /\ removed => removed'
      /\ clock' = clock \/ clock' = clock + 1
      /\ used' = used \/ \E op \in Ops : \E id \in NextIds(op) : used' = used \cup {id}
  BY DEF Begin, Lock, LockStep, Claim, Publish, Link, Open, Enter, Reserve, Throw, Throws, GivesUp,
         Finally, Die, LockDies, Removed, RemoveLock, Tick, vars, storeVars, ghostVars, lockVars
<1>2. clock' \in Nat /\ clock <= clock'
  BY <1>1 DEF SendInv
<1>3. Tick \/ UNCHANGED vars => Unmoved
  BY DEF Tick, vars, Unmoved, ghostVars
<1>4. \A d \in Callers : Stays(d) /\ NewOrSame(d)
  BY <1>3, OthersStay, OthersSame DEF SendInv, CooldownInv, RootInv
<1>5. \A d \in Callers : Busy(d)' => call'[d].id \in Ids
  BY DEF CooldownInv, CooldownTypes, RootInv, CallInv
<1>6. used \subseteq used'
  BY <1>1
<1>7. \A d \in Callers : Busy(d)' /\ Unsent(call'[d]) =>
         \/ call'[d].id \in Ids \ used
         \/ Busy(d) /\ Unsent(call[d]) /\ call'[d].id = call[d].id
  BY <1>4, <1>5 DEF NewOrSame
<1>8. QED
  BY <1>1, <1>2, <1>4, <1>6, <1>7, SendsUntouched

LEMMA EndsKeepSends ==
  ASSUME SendInv, CooldownInv', NEW c \in Callers, Over(c),
         \/ ManagedByNow(c) \/ AlreadyTaken(c) \/ Return(c) \/ LedgerFails(c)
         \/ ReadManaged(c) /\ Refuse(c)
  PROVE  SendInv'
<1>1. UNCHANGED <<inbox, reader, delivered, clock, removed, used>>
  BY DEF ManagedByNow, AlreadyTaken, Return, LedgerFails, ReadManaged, Refuse, Only,
         Finally, storeVars, ghostVars, lockVars
<1>2. \A d \in Callers : Stays(d) /\ NewOrSame(d)
  BY OthersStay, OthersSame DEF SendInv, CooldownInv, RootInv
<1>3. ASSUME NEW a \in acked', a \notin acked, a.kind = "send", ~removed
      PROVE  /\ a.message.id \in Ids /\ a.message.at \in Nat
             /\ Unexpired(a.message, clock) => a.message \in ToSet(inbox)
  <2>1. CASE AlreadyTaken(c)
    BY <1>3, <2>1 DEF AlreadyTaken
  <2>2. CASE Return(c)
    <3> DEFINE x == call[c]
    <3>1. /\ a = Answer(x) /\ x.id \in used
          /\ Inside(c) /\ x.step = "done" /\ x.op \in Ops
      BY <1>3, <2>2 DEF Return, Inside, SendInv, CooldownInv, RootInv, CallInv, Busy, IsCall
    <3>2. x.op.kind = "send" /\ a.message = MessageOf(x)
      BY <1>3, <3>1, Kinds DEF Answer
    <3>3. SendCallSound(x) /\ Step(x, "send", {"done"})
      BY <1>3, <3>1, <3>2 DEF SendInv, Step
    <3>4. x.id \in Ids
      BY <3>1 DEF SendInv, CooldownInv, CooldownTypes
    <3>5. QED
      BY <3>2, <3>3, <3>4 DEF SendCallSound, MessageOf
  <2>3. CASE ~AlreadyTaken(c) /\ ~Return(c)
    BY <1>3, <2>3 DEF ManagedByNow, LedgerFails, Refuse, ReadManaged, ghostVars
  <2>4. QED
    BY <2>1, <2>2, <2>3
<1>4. \A d \in Callers : Busy(d)' => call'[d].id \in Ids
  BY DEF CooldownInv, CooldownTypes, RootInv, CallInv
<1>5. clock \in Nat /\ clock <= clock
  BY DEF SendInv
<1>6. \A d \in Callers : Busy(d)' /\ Unsent(call'[d]) =>
         \/ call'[d].id \in Ids \ used
         \/ Busy(d) /\ Unsent(call[d]) /\ call'[d].id = call[d].id
  BY <1>2, <1>4 DEF NewOrSame
<1>7. QED
  BY <1>1, <1>2, <1>3, <1>5, <1>6, SendsUntouched

\* The other operations' steps inside their callbacks, and the read.
LEMMA ReadsKeepSends ==
  ASSUME SendInv, CooldownInv', NEW c \in Callers, Onward(c),
         \/ ReadCooldowns(c) \/ WriteCooldowns(c) \/ JournalCooldown(c)
         \/ ReadLeases(c) \/ JournalLease(c) \/ WriteLeases(c)
         \/ ReadManaged(c) \/ WriteMarker(c) \/ ReadInbox(c)
  PROVE  SendInv'
<1> DEFINE x == call[c]
<1>1. UNCHANGED <<inbox, reader, delivered, clock>>
  BY DEF ReadCooldowns, WriteCooldowns, JournalCooldown, ReadLeases, JournalLease, WriteLeases,
         ReadInbox, ReadManaged, WriteMarker, Only, storeVars, ghostVars, Refuse
<1>2. /\ Inside(c) /\ Inside(c)' /\ UNCHANGED <<removed, acked, used>>
      /\ call'[c].op = x.op /\ call'[c].id = x.id
      /\ DOMAIN call = Callers /\ IsCall(x)
  BY DEF Onward, lockVars, Inside, SendInv, CooldownInv, RootInv, CallInv, Busy
<1>3. \A d \in Callers \ {c} : Stays(d) /\ NewOrSame(d)
  BY OthersStay, OthersSame DEF SendInv, CooldownInv, RootInv
<1>4. /\ removed \/ SendCallSound(call'[c])
      /\ Unsent(call'[c]) => Unsent(x)
  <2>1. CASE ReadInbox(c)
    <3>1. /\ x.op.kind = "send" /\ x.step = "read" /\ call'[c].step = "inbox"
          /\ call'[c].seen = inbox /\ call'[c].now = clock
      <4>1. Follows("send", "read") = "inbox"
        BY DEF Follows, Steps
      <4>2. QED
        BY <1>2, <2>1, <4>1 DEF ReadInbox, At, IsCall, SendTime
    <3>2. ~removed => clock \in Nat /\ clock <= clock /\ DatedBy(clock)
      BY DEF SendInv
    <3>3. removed \/ SendCallSound(call'[c])
      BY <1>2, <3>1, <3>2 DEF SendCallSound, Step
    <3>4. QED
      BY <1>2, <3>1, <3>3 DEF Unsent, Step
  <2>2. CASE ~ReadInbox(c)
    <3>1. x.op.kind # "send"
      BY <2>2 DEF ReadCooldowns, WriteCooldowns, JournalCooldown, ReadLeases, JournalLease,
                  WriteLeases, ReadManaged, WriteMarker, At
    <3>2. QED
      BY <1>2, <3>1 DEF SendCallSound, Unsent, Step
  <2>3. QED
    BY <2>1, <2>2
<1>5. Busy(c)
  BY <1>2 DEF Busy, Inside
<1>6. \A d \in Callers : Busy(d)' => call'[d].id \in Ids
  BY DEF CooldownInv, CooldownTypes, RootInv, CallInv
<1>7. clock \in Nat /\ clock <= clock
  BY DEF SendInv
<1>8. \A d \in Callers : Busy(d)' /\ Unsent(call'[d]) =>
         \/ call'[d].id \in Ids \ used
         \/ Busy(d) /\ Unsent(call[d]) /\ call'[d].id = call[d].id
  BY <1>2, <1>3, <1>4, <1>5, <1>6 DEF NewOrSame
<1>9. QED
  BY <1>1, <1>2, <1>3, <1>4, <1>7, <1>8, SendsUntouched

\* The write.  While the lock file stays, the writer has read what is in the
\* file, and nobody dated a message after it.
LEMMA WriteKeepsSends ==
  ASSUME SendInv, CooldownInv', NEW c \in Callers, WriteInbox(c),
         Onward(c) \/ (Over(c) /\ Refuse(c))
  PROVE  SendInv'
<1> DEFINE x == call[c]
           m == MessageOf(x)
<1> USE Constants
<1>1. /\ Inside(c) /\ x.op.kind = "send" /\ x.step = "inbox"
      /\ inbox' = Sent(x.seen, m, x.now)
      /\ UNCHANGED <<reader, delivered, clock, removed, used, acked>>
      /\ IsCall(x) /\ x.id \in used /\ DOMAIN call = Callers
  BY DEF WriteInbox, At, Only, Refuse, Finally, Inside, lockVars, ghostVars, SendInv, CooldownInv,
         RootInv, CallInv, Busy
<1>2. CASE removed
  BY <1>1, <1>2 DEF SendInv, InboxKept, PagesMissOnlyTies
<1>3. CASE ~removed
  <2>1. SendTypes /\ InboxOK(inbox) /\ clock \in Nat /\ SendCallSound(x)
    BY <1>1, <1>3 DEF SendInv, SendTypes
  <2>2. x.seen = inbox /\ x.now \in Nat /\ x.now <= clock /\ DatedBy(x.now)
    BY <1>1, <2>1 DEF SendCallSound, Step
  <2>3. x.id \in Ids /\ x.id \in Nat
    BY <1>1, IdsPositive DEF SendInv, CooldownInv, CooldownTypes
  <2>4. m.id = x.id /\ m.at = x.now /\ IsMessage(m)
    BY <2>2, <2>3 DEF MessageOf, IsMessage
  <2>5. \A n \in ToSet(inbox) : n.id # m.id
    BY <1>1, <1>3, <2>4 DEF SendInv, Busy, Inside, Unsent, Step
  <2>6. /\ InboxOK(inbox')
        /\ \A n \in ToSet(inbox') : \/ n = m
                                    \/ n \in ToSet(inbox)
                                    \/ n.at = x.now /\ \E o \in ToSet(inbox) : n.id = o.id
        /\ \A n \in ToSet(inbox) : n.at <= x.now /\ Unexpired(n, x.now) => n \in ToSet(inbox')
        /\ ~Full(inbox, x.now) => m \in ToSet(inbox')
    BY <1>1, <2>1, <2>2, <2>4, <2>5, SentSound
  <2>7. \A n \in ToSet(inbox') : n \in ToSet(inbox) \/ n.at = x.now
    BY <2>4, <2>6
  <2>8. SendTypes'
    <3>1. \A n \in ToSet(inbox') : n.id \in Ids => n.id \in used
      BY <1>1, <2>1, <2>4, <2>6 DEF SendTypes
    <3>2. QED
      BY <1>1, <2>1, <2>6, <3>1 DEF SendTypes, Acked
  <2>9. \A n \in ToSet(inbox') : n.id \in Ids => n.at <= x.now /\ n.at <= clock
    <3>1. \A n \in ToSet(inbox') : n.at \in Nat
      BY <2>6 DEF InboxOK, IsMessage
    <3>2. QED
      BY <2>1, <2>2, <2>7, <3>1 DEF DatedBy
  <2>10. DatedBy(clock)'
    <3>1. reader.cursor.at \in Nat
      BY <2>1 DEF SendTypes
    <3>2. ~reader.foreign => reader.cursor.at <= clock
      BY <2>1, <2>2, <3>1 DEF DatedBy
    <3>3. QED
      BY <1>1, <2>9, <3>2 DEF DatedBy
  <2>11. InboxKept'
    <3> SUFFICES ASSUME NEW a \in Acked("send"), Unexpired(a.message, clock)
                 PROVE  a.message \in ToSet(inbox')
      BY <1>1 DEF InboxKept, Acked
    <3>1. a.message \in ToSet(inbox) /\ a.message.id \in Ids /\ a.message.at \in Nat
      BY <1>3, <2>1 DEF SendInv, InboxKept, SendTypes
    <3>2. a.message.at <= x.now
      BY <2>2, <3>1 DEF DatedBy
    <3>3. Unexpired(a.message, x.now)
      BY <2>1, <2>2, <3>1 DEF Unexpired
    <3>4. QED
      BY <2>6, <3>1, <3>2, <3>3
  <2>12. PagesMissOnlyTies'
    <3> SUFFICES ASSUME ~reader.foreign, NEW n \in ToSet(inbox'),
                        Unexpired(n, clock), ScopeMatches(n, ReaderScope),
                        ~Before(reader.cursor, n), n.id \notin delivered
                 PROVE  n.at \in reader.seconds
      BY <1>1 DEF PagesMissOnlyTies
    <3>1. CASE n \in ToSet(inbox)
      BY <1>3, <3>1 DEF SendInv, PagesMissOnlyTies
    <3>2. CASE n.at = x.now
      <4>1. reader.cursor.at <= x.now /\ reader.cursor.at \in Nat
        BY <2>1, <2>2 DEF DatedBy, SendTypes
      <4>2. ~(reader.cursor.at < n.at)
        BY DEF Before
      <4>3. n.at = reader.cursor.at
        BY <2>2, <3>2, <4>1, <4>2
      <4>4. QED
        BY <2>1, <4>3 DEF SendTypes
    <3>3. QED
      BY <2>7, <3>1, <3>2
  <2>13. \A d \in Callers : (Stays(d) /\ NewOrSame(d)) \/ (d = c /\ Onward(c))
    BY OthersStay, OthersSame DEF SendInv, CooldownInv, RootInv
  <2>14. Onward(c) => Inside(c)' /\ call'[c].step = "done" /\ call'[c].op = x.op
                      /\ call'[c].id = x.id /\ call'[c].now = x.now
    <3>1. Onward(c) => Goes(c) /\ Inside(c)'
      <4>1. Inside(c) => ~Refuse(c) \/ ~Onward(c)
        BY DEF Refuse, Finally, MoveTo, Onward, lockVars, Inside, SendInv, CooldownInv, RootInv,
               CallInv, LockInv, LockTypeOK
      <4>2. QED
        BY <1>1, <4>1 DEF WriteInbox, Onward, lockVars, Inside
    <3>2. Follows("send", "inbox") = "done"
      BY DEF Follows, Steps
    <3>3. QED
      BY <1>1, <3>1, <3>2 DEF Goes, IsCall
  <2>15. ASSUME NEW d \in Callers, Busy(d)', Unsent(call[d])', NEW n \in ToSet(inbox')
         PROVE  n.id # call'[d].id
    <3>1. Unsent(call'[d])
      BY <2>15 DEF Unsent, Step
    <3>2. NewOrSame(d)
      BY <2>13, <2>14, <3>1 DEF Unsent, Step
    <3>3. CASE d = c
      <4>1. CASE Onward(c)
        BY <2>14, <3>1, <3>3, <4>1 DEF Unsent, Step
      <4>2. CASE Over(c)
        <5>1. ~Busy(c)'
          BY <4>2 DEF Over, Finally, MoveTo, Busy, SendInv, CooldownInv, RootInv, CallInv, LockInv,
                      LockTypeOK
        <5>2. QED
          BY <2>15, <3>3, <5>1
      <4>3. QED
        BY <4>1, <4>2
    <3>4. CASE d # c
      <4>1. call'[d].id \notin used \/ (Busy(d) /\ call'[d] = call[d])
        BY <2>15, <3>2 DEF NewOrSame
      <4>2. call'[d].id \in Ids
        BY <2>15 DEF CooldownInv, CooldownTypes, RootInv, CallInv
      <4>3. CASE call'[d].id \notin used
        BY <1>1, <2>8, <4>2, <4>3 DEF SendTypes
      <4>4. CASE Busy(d) /\ call'[d] = call[d]
        <5>1. call[d].id # x.id
          BY <1>1, <3>4, <4>4 DEF SendInv, CooldownInv, RootInv, CallInv, Busy, Inside
        <5>2. \A o \in ToSet(inbox) : o.id # call[d].id
          BY <1>3, <3>1, <4>4 DEF SendInv
        <5>3. QED
          BY <2>4, <2>6, <4>4, <5>1, <5>2
      <4>5. QED
        BY <4>1, <4>3, <4>4
    <3>5. QED
      BY <3>3, <3>4
  <2>16. ASSUME NEW d \in Callers, Inside(d)' PROVE SendCallSound(call[d])'
    <3>1. CASE Onward(c)
      <4>1. d = c
        BY <1>1, <1>3, <2>16, <3>1, Alone DEF SendInv, CooldownInv, RootInv, CallInv, Onward,
                                              lockVars, Inside
      <4>2. MessageOf(call'[c]) = m
        BY <2>14, <3>1 DEF MessageOf
      <4>3. ~Full(inbox, x.now)
        <5>1. ~Refuse(c)
          BY <1>1, <3>1 DEF Refuse, Finally, MoveTo, Onward, lockVars, Inside, SendInv, CooldownInv,
                            RootInv, CallInv, LockInv, LockTypeOK
        <5>2. QED
          BY <2>2, <5>1 DEF WriteInbox
      <4>4. QED
        BY <2>2, <2>6, <2>14, <3>1, <4>1, <4>2, <4>3 DEF SendCallSound, Step
    <3>2. CASE Over(c)
      <4>1. Inside(d) /\ d # c
        <5>1. stage' = [stage EXCEPT ![c] = "idle"] /\ stage \in [Callers -> Stages]
          BY <3>2 DEF Over, Finally, MoveTo, SendInv, CooldownInv, RootInv, CallInv, LockInv, LockTypeOK
        <5>2. QED
          BY <2>16, <5>1 DEF Inside
      <4>2. QED
        BY <1>1, <1>3, <4>1, Alone DEF SendInv, CooldownInv, RootInv, CallInv
    <3>3. QED
      BY <3>1, <3>2
  <2>17. QED
    BY <1>1, <1>3, <2>1, <2>8, <2>10, <2>11, <2>12, <2>15, <2>16 DEF SendInv
<1>4. QED
  BY <1>2, <1>3

LEMMA SendsInitially == ASSUME Init PROVE SendInv
<1>1. PICK root \in InitialRoots : inbox = root.inbox
  BY DEF Init
<1>2. /\ inbox \in Seq(ToSet(inbox))
      /\ \A m \in ToSet(inbox) : IsMessage(m) /\ m.id \notin Ids
      /\ \A m, n \in ToSet(inbox) : m.id = n.id => m = n
  BY <1>1, RootAssumption
<1>3. /\ clock = 1 /\ acked = {} /\ delivered = {}
      /\ reader = [cursor |-> [at |-> 0, id |-> 0], seconds |-> {0}, foreign |-> FALSE]
      /\ stage = [c \in Callers |-> "idle"]
  BY DEF Init, Start, LockInit
<1>4. InboxOK(inbox)
  BY <1>2 DEF InboxOK
<1>5. SendTypes /\ DatedBy(clock)
  BY <1>2, <1>3, <1>4 DEF SendTypes, DatedBy, Acked
<1>6. InboxKept
  BY <1>3 DEF InboxKept, Acked
<1>7. PagesMissOnlyTies
  <2>1. \A m \in ToSet(inbox) : m.at \in Nat /\ (~Before(reader.cursor, m) => m.at = 0)
    BY <1>2, <1>3 DEF IsMessage, Before
  <2>2. QED
    BY <1>3, <2>1 DEF PagesMissOnlyTies
<1>8. QED
  BY <1>3, <1>5, <1>6, <1>7, CooldownsInitially DEF SendInv, Busy, Inside

LEMMA StepKeepsSends == ASSUME SendInv, [Next]_vars PROVE SendInv'
<1>1. CooldownInv'
  BY StepKeepsCooldowns DEF SendInv
<1>2. ASSUME NEW c \in Callers,
             \/ ManagedByNow(c) \/ AlreadyTaken(c) \/ Return(c) \/ LedgerFails(c)
      PROVE  SendInv'
  BY <1>1, <1>2, EndsKeepSends, WithinCallback DEF SendInv, CooldownInv, RootInv
<1>3. ASSUME NEW c \in Callers,
             \/ ReadCooldowns(c) \/ WriteCooldowns(c) \/ JournalCooldown(c)
             \/ ReadLeases(c) \/ JournalLease(c) \/ WriteLeases(c)
             \/ ReadManaged(c) \/ WriteMarker(c) \/ ReadInbox(c)
      PROVE  SendInv'
  BY <1>1, <1>3, EndsKeepSends, ReadsKeepSends, WithinCallback DEF SendInv, CooldownInv, RootInv
<1>4. ASSUME NEW c \in Callers, WriteInbox(c) PROVE SendInv'
  BY <1>1, <1>4, WriteKeepsSends, WithinCallback DEF SendInv, CooldownInv, RootInv
<1>5. QED
  BY <1>1, <1>2, <1>3, <1>4, OtherStepsKeepSends, ListKeepsSends DEF Next

\* While the lock file stays, a message whose sending was acknowledged is in
\* the message file until it expires (coordination-channel.ts, send).
THEOREM InboxKeptHolds == Spec => []InboxKept
<1>1. SendInv => InboxKept
  BY DEF SendInv
<1>2. QED
  BY <1>1, SendsInitially, StepKeepsSends, PTL DEF Spec

\* A consumer that pages by cursor misses a message only if it is of the very
\* second of a cursor it had (coordination-channel.ts, send and list).
THEOREM PagesMissOnlyTiesHolds == Spec => []PagesMissOnlyTies
<1>1. SendInv => PagesMissOnlyTies
  BY DEF SendInv
<1>2. QED
  BY <1>1, SendsInitially, StepKeepsSends, PTL DEF Spec

=============================================================================
