------------------------- MODULE RuntimeCasesProofs -------------------------
(***************************************************************************)
(* Theorems about RuntimeCases, for any number of runners, cases, runs and *)
(* faults.                                                                 *)
(*                                                                         *)
(* The argument: the open transaction of a runner that is about to commit  *)
(* has no write of a case, a connection becomes unusable only with a case  *)
(* that is blocked for it, and the list of results never shrinks (Honest); *)
(* and a runner that is alone knows, from what it noted before it created  *)
(* the roles, what was there before it (Restorable).                       *)
(***************************************************************************)
EXTENDS RuntimeCases, TLAPS

USE CasesAssumption

\* What the place of a runner says of its transaction, results and connection.
Honest(r) ==
    /\ pc[r] \in {"idle", "look", "create", "verify", "revoke"} => writes[r] = {}
    /\ pc[r] \in {"idle", "look"} => created[r] = {} /\ granted[r] = {}
    /\ pc[r] \in {"idle", "look", "create", "verify"} => results[r] = <<>>
    /\ pc[r] \in {"begin", "act", "close"} => Len(results[r]) < CaseCount
    /\ ~usable[r] => \E n \in DOMAIN results[r] : results[r][n] = "BLOCKED_ENVIRONMENT"
    /\ cleanup[r] # None => pc[r] = "done"
    /\ cleanup[r] = "PASS" => alive[r]

Found(r) == roles = before[r][1] /\ members = before[r][2]

\* What the one runner of a server found, and what it is going to remove: what was
\* not there, once it has looked.
Noted(r) ==
    /\ created[r] = Roles \ before[r][1] /\ granted[r] = Roles \ before[r][2]
    /\ Found(r) \/ (roles = Roles /\ members = Roles)

Restorable(r) ==
    /\ pc[r] # "idle" =>
          before[r][2] \subseteq before[r][1] /\ before[r][1] \subseteq Roles
    /\ pc[r] = "look" => Found(r)
    /\ pc[r] \in {"create", "verify"} => Noted(r)
    /\ pc[r] \in {"begin", "act", "close", "teardown", "revoke"} =>
          Noted(r) \/ (Found(r) /\ created[r] = {} /\ granted[r] = {})
    /\ pc[r] = "done" /\ cleanup[r] = "PASS" => Found(r)

IInv ==
    /\ TypeOK /\ CasesLeaveNothing
    /\ \A r \in Runners : Honest(r) /\ (Runners = {r} => Restorable(r))

----------------------------------------------------------------------------
(* Types.                                                                  *)

LEMMA InvInit == Init => IInv
<1> SUFFICES ASSUME Init PROVE IInv
  OBVIOUS
<1>1. TypeOK
  BY DEF Init, TypeOK, Phases
<1>2. \A r \in Runners : Honest(r)
  BY DEF Init, Honest
<1>3. \A r \in Runners : Restorable(r)
  BY DEF Init, Restorable
<1> QED  BY <1>1, <1>2, <1>3 DEF IInv, Init, CasesLeaveNothing

LEMMA Domains ==
    TypeOK =>
        /\ DOMAIN pc = Runners /\ DOMAIN created = Runners /\ DOMAIN granted = Runners
        /\ DOMAIN prepared = Runners /\ DOMAIN writes = Runners /\ DOMAIN usable = Runners
        /\ DOMAIN alive = Runners /\ DOMAIN results = Runners /\ DOMAIN cleanup = Runners
        /\ DOMAIN before = Runners
BY DEF TypeOK

\* A step of one runner leaves what is known of each of the others.
Others(r) ==
    \A q \in Runners \ {r} :
        /\ pc'[q] = pc[q] /\ results'[q] = results[q] /\ usable'[q] = usable[q]
        /\ cleanup'[q] = cleanup[q] /\ alive'[q] = alive[q]
        /\ created'[q] = created[q] /\ granted'[q] = granted[q] /\ writes'[q] = writes[q]

\* A step of a runner keeps the invariant if what it says of the runner is true.
LEMMA RunnerStep ==
    ASSUME IInv, NEW r \in Runners, TypeOK', CasesLeaveNothing', Others(r),
           Honest(r)', Runners = {r} => Restorable(r)'
    PROVE  IInv'
<1>1. ASSUME NEW q \in Runners \ {r} PROVE Honest(q)' /\ Runners # {q}
  <2>1. Honest(q)
    BY DEF IInv
  <2> QED  BY <2>1 DEF Others, Honest
<1> QED  BY <1>1 DEF IInv

\* A further result: a list that is not full yet takes it, and keeps the others.
LEMMA Appended ==
    ASSUME NEW l \in Seq(ResultStatuses), Len(l) < CaseCount, NEW s \in ResultStatuses
    PROVE  /\ Append(l, s) \in Seq(ResultStatuses)
           /\ Len(Append(l, s)) = Len(l) + 1 /\ Len(l) + 1 <= CaseCount
           /\ \A n \in DOMAIN l : n \in DOMAIN Append(l, s) /\ Append(l, s)[n] = l[n]
           /\ Len(l) + 1 \in DOMAIN Append(l, s) /\ Append(l, s)[Len(l) + 1] = s
OBVIOUS

LEMMA Evaluated ==
    ASSUME NEW c, NEW a \in BOOLEAN, NEW m \in BOOLEAN, NEW v \in BOOLEAN
    PROVE  Evaluate(c, a, m, v) \in ResultStatuses
BY DEF Evaluate, ResultStatuses, PassStatuses, FailStatuses

\* Every case is blocked when the preparation is.
LEMMA AllBlocked ==
    ASSUME NEW l, l = [n \in CaseIds |-> "BLOCKED_ENVIRONMENT"]
    PROVE  /\ l \in Seq(ResultStatuses) /\ Len(l) = CaseCount
           /\ 1 \in DOMAIN l /\ l[1] = "BLOCKED_ENVIRONMENT"
<1>1. "BLOCKED_ENVIRONMENT" \in ResultStatuses
  BY DEF ResultStatuses
<1>2. l \in [1..CaseCount -> ResultStatuses]
  BY <1>1 DEF CaseIds
<1> QED  BY <1>2

----------------------------------------------------------------------------
(* The steps.                                                              *)

LEMMA StartStep == ASSUME IInv, NEW r \in Runners, Start(r) PROVE IInv'
<1>1. /\ pc[r] = "idle" /\ pc' = [pc EXCEPT ![r] = "look"]
      /\ runs < MaxRuns /\ runs' = runs + 1
      /\ before' = [before EXCEPT ![r] = <<roles, members>>]
      /\ UNCHANGED <<roles, members, kept, maker, created, granted, prepared, writes, usable,
                     alive, results, cleanup, faults>>
  BY DEF Start, Goto, shared
<1>2. TypeOK /\ Honest(r) /\ pc'[r] = "look" /\ before'[r] = <<roles, members>>
  BY <1>1, Domains DEF IInv
<1>3. TypeOK'
  BY <1>1, <1>2 DEF TypeOK, Phases
<1>4. CasesLeaveNothing' /\ Others(r)
  BY <1>1, <1>2, Domains DEF IInv, CasesLeaveNothing, Others
<1>5. Honest(r)'
  BY <1>1, <1>2 DEF Honest
<1>6. Restorable(r)'
  BY <1>1, <1>2 DEF Restorable, Found, TypeOK
<1> QED  BY <1>3, <1>4, <1>5, <1>6, RunnerStep

LEMMA LookStep == ASSUME IInv, NEW r \in Runners, Look(r) PROVE IInv'
<1>1. /\ pc[r] = "look" /\ pc' = [pc EXCEPT ![r] = "create"]
      /\ created' = [created EXCEPT ![r] = Roles \ roles]
      /\ granted' = [granted EXCEPT ![r] = Roles \ members]
      /\ UNCHANGED <<roles, members, kept, maker, prepared, writes, usable, alive, results,
                     cleanup, before, runs, faults>>
  BY DEF Look, Goto, shared
<1>2. /\ TypeOK /\ Honest(r) /\ pc'[r] = "create"
      /\ created'[r] = Roles \ roles /\ granted'[r] = Roles \ members
  BY <1>1, Domains DEF IInv
<1>3. TypeOK'
  BY <1>1, <1>2 DEF TypeOK, Phases
<1>4. CasesLeaveNothing' /\ Others(r)
  BY <1>1, <1>2, Domains DEF IInv, CasesLeaveNothing, Others
<1>5. Honest(r)'
  BY <1>1, <1>2 DEF Honest
<1>6. ASSUME Runners = {r} PROVE Restorable(r)'
  <2>1. Restorable(r)
    BY <1>6 DEF IInv
  <2> QED  BY <1>1, <1>2, <2>1 DEF Restorable, Found, Noted
<1> QED  BY <1>3, <1>4, <1>5, <1>6, RunnerStep

\* The roles are there; whose they are is noted.
LEMMA MadeKeeps ==
    ASSUME TypeOK, NEW r \in Runners, Made(r) \/ UNCHANGED <<roles, members, maker>>
    PROVE  /\ members' \subseteq roles' /\ roles' \subseteq Roles
           /\ maker' \in [Roles -> Runners \cup {None}]
<1>1. members \subseteq roles /\ roles \subseteq Roles /\ maker \in [Roles -> Runners \cup {None}]
  BY DEF TypeOK
<1>2. CASE Made(r)
  BY <1>1, <1>2 DEF Made
<1>3. CASE UNCHANGED <<roles, members, maker>>
  BY <1>1, <1>3
<1> QED  BY <1>2, <1>3

\* A commit with nothing in the transaction of a case keeps nothing of one.
LEMMA CommitsNothing ==
    ASSUME TypeOK, NEW r \in Runners, Commits(r), writes[r] = {}
    PROVE  kept' = kept /\ writes' = [writes EXCEPT ![r] = {}] /\ writes'[r] = {}
BY Domains DEF Commits

LEMMA CreateStep == ASSUME IInv, NEW r \in Runners, Create(r) PROVE IInv'
<1>1. /\ pc[r] = "create" /\ pc' = [pc EXCEPT ![r] = "verify"] /\ Made(r)
      /\ Commits(r)
      /\ UNCHANGED <<created, granted, prepared, usable, alive, results, cleanup, before,
                     runs, faults>>
  BY DEF Create, Goto
<1>2. /\ TypeOK /\ Honest(r) /\ pc'[r] = "verify"
      /\ kept' = kept /\ writes' = [writes EXCEPT ![r] = {}] /\ writes'[r] = {}
  BY <1>1, Domains, CommitsNothing DEF IInv, Honest
<1>3. TypeOK'
  BY <1>1, <1>2, MadeKeeps DEF TypeOK, Phases
<1>4. CasesLeaveNothing' /\ Others(r)
  BY <1>1, <1>2, Domains DEF IInv, CasesLeaveNothing, Others
<1>5. Honest(r)'
  BY <1>1, <1>2 DEF Honest
<1>6. ASSUME Runners = {r} PROVE Restorable(r)'
  <2>1. Restorable(r)
    BY <1>6 DEF IInv
  <2>2. roles' = Roles /\ members' = Roles
    BY <1>1 DEF Made
  <2> QED  BY <1>1, <1>2, <2>1, <2>2 DEF Restorable, Noted
<1> QED  BY <1>3, <1>4, <1>5, <1>6, RunnerStep

\* A preparation that fails, at any of its statements, blocks every case.
LEMMA NotPreparedStep ==
    ASSUME IInv, NEW r \in Runners, NotPrepared(r), pc[r] \in {"look", "create", "verify"},
           UNCHANGED <<roles, members, kept, maker, created, granted, writes, usable, alive,
                       cleanup, before, runs>>,
           faults' \in 0..MaxFaults
    PROVE  IInv'
<1> DEFINE blocked == [n \in CaseIds |-> "BLOCKED_ENVIRONMENT"]
<1>1. /\ pc' = [pc EXCEPT ![r] = "teardown"]
      /\ results' = [results EXCEPT ![r] = blocked]
      /\ prepared' = [prepared EXCEPT ![r] = "BLOCKED"]
  BY DEF NotPrepared, Goto
<1>2. /\ blocked \in Seq(ResultStatuses) /\ Len(blocked) = CaseCount
      /\ 1 \in DOMAIN blocked /\ blocked[1] = "BLOCKED_ENVIRONMENT"
  BY AllBlocked
<1> HIDE DEF blocked
<1>3. TypeOK /\ Honest(r) /\ pc'[r] = "teardown" /\ results'[r] = blocked
  BY <1>1, Domains DEF IInv
<1>4. TypeOK'
  <2>1. results' \in [Runners -> Seq(ResultStatuses)]
    BY <1>1, <1>2, <1>3 DEF TypeOK
  <2>2. \A q \in Runners : Len(results'[q]) <= CaseCount
    BY <1>1, <1>2, <1>3, Domains DEF TypeOK
  <2> QED  BY <1>1, <1>3, <2>1, <2>2 DEF TypeOK, Phases
<1>5. CasesLeaveNothing' /\ Others(r)
  BY <1>1, <1>3, Domains DEF IInv, CasesLeaveNothing, Others
<1>6. Honest(r)'
  BY <1>2, <1>3 DEF Honest
<1>7. ASSUME Runners = {r} PROVE Restorable(r)'
  <2>1. Restorable(r)
    BY <1>7 DEF IInv
  <2> QED  BY <1>3, <2>1 DEF Restorable, Found, Noted, Honest
<1> QED  BY <1>4, <1>5, <1>6, <1>7, RunnerStep

LEMMA VerifyStep == ASSUME IInv, NEW r \in Runners, Verify(r) PROVE IInv'
<1>1. /\ pc[r] = "verify"
      /\ UNCHANGED <<roles, members, kept, maker, created, granted, writes, usable, alive,
                     cleanup, before, runs, faults>>
  BY DEF Verify, shared
<1>2. CASE NotPrepared(r)
  BY <1>1, <1>2, NotPreparedStep DEF IInv, TypeOK
<1>3. CASE /\ prepared' = [prepared EXCEPT ![r] = "PASS"]
           /\ Goto(r, "begin") /\ UNCHANGED results
  <2>1. TypeOK /\ Honest(r) /\ pc' = [pc EXCEPT ![r] = "begin"] /\ pc'[r] = "begin"
    BY <1>3, Domains DEF IInv, Goto
  <2>2. TypeOK'
    BY <1>1, <1>3, <2>1 DEF TypeOK, Phases
  <2>3. CasesLeaveNothing' /\ Others(r)
    BY <1>1, <1>3, <2>1, Domains DEF IInv, CasesLeaveNothing, Others
  <2>4. Honest(r)'
    <3>1. Len(<<>>) = 0 /\ 0 < CaseCount
      OBVIOUS
    <3> QED  BY <1>1, <1>3, <2>1, <3>1 DEF Honest
  <2>5. ASSUME Runners = {r} PROVE Restorable(r)'
    <3>1. Restorable(r)
      BY <2>5 DEF IInv
    <3> QED  BY <1>1, <2>1, <3>1 DEF Restorable, Found, Noted
  <2> QED  BY <2>2, <2>3, <2>4, <2>5, RunnerStep
<1> QED  BY <1>2, <1>3 DEF Verify

\* A result is added, and the connection may be quarantined for a case that is blocked.
LEMMA ResultStep ==
    ASSUME IInv, NEW r \in Runners, NEW s \in ResultStatuses, Result(r, s),
           pc[r] \in {"begin", "act", "close"},
           UNCHANGED <<roles, members, kept, maker, created, granted, prepared, alive,
                       cleanup, before, runs>>,
           writes' \in {writes, [writes EXCEPT ![r] = {}]},
           \/ UNCHANGED usable
           \/ usable' = [usable EXCEPT ![r] = FALSE] /\ s = "BLOCKED_ENVIRONMENT",
           faults' \in 0..MaxFaults
    PROVE  IInv'
<1> DEFINE longer == Append(results[r], s)
<1>1. PICK x \in {"teardown", "begin"} :
        /\ pc' = [pc EXCEPT ![r] = x]
        /\ x = "begin" <=> Len(results[r]) + 1 # CaseCount
  BY DEF Result, Goto, Current
<1>2. TypeOK /\ Honest(r) /\ results[r] \in Seq(ResultStatuses) /\ Len(results[r]) < CaseCount
  BY DEF IInv, Honest, TypeOK
<1>3. /\ longer \in Seq(ResultStatuses) /\ Len(longer) = Len(results[r]) + 1
      /\ Len(longer) <= CaseCount
      /\ \A n \in DOMAIN results[r] : n \in DOMAIN longer /\ longer[n] = results[r][n]
      /\ Len(results[r]) + 1 \in DOMAIN longer /\ longer[Len(results[r]) + 1] = s
  BY <1>2, Appended
<1>4. results' = [results EXCEPT ![r] = longer]
  BY DEF Result
<1> HIDE DEF longer
<1>5. pc'[r] = x /\ results'[r] = longer
  BY <1>1, <1>2, <1>4, Domains
<1>6. TypeOK'
  <2>1. results' \in [Runners -> Seq(ResultStatuses)]
    BY <1>2, <1>3, <1>4 DEF TypeOK
  <2>2. \A q \in Runners : Len(results'[q]) <= CaseCount
    BY <1>2, <1>3, <1>4, Domains DEF TypeOK
  <2>3. writes' \in [Runners -> SUBSET CaseIds] /\ usable' \in [Runners -> BOOLEAN]
    BY <1>2 DEF TypeOK
  <2> QED  BY <1>1, <1>2, <2>1, <2>2, <2>3 DEF TypeOK, Phases
<1>7. CasesLeaveNothing' /\ Others(r)
  BY <1>1, <1>2, <1>4, Domains DEF IInv, CasesLeaveNothing, Others
<1>8. Honest(r)'
  <2>1. x = "begin" => Len(longer) < CaseCount
    <3>1. Len(results[r]) \in Nat
      BY <1>2
    <3> QED  BY <1>1, <1>2, <1>3, <3>1
  <2>2. ~usable'[r] => \E n \in DOMAIN longer : longer[n] = "BLOCKED_ENVIRONMENT"
    <3>1. CASE UNCHANGED usable
      BY <1>2, <1>3, <3>1 DEF Honest
    <3>2. CASE s = "BLOCKED_ENVIRONMENT"
      BY <1>3, <3>2
    <3> QED  BY <3>1, <3>2
  <2> QED  BY <1>2, <1>5, <2>1, <2>2 DEF Honest
<1>9. ASSUME Runners = {r} PROVE Restorable(r)'
  <2>1. Restorable(r)
    BY <1>9 DEF IInv
  <2> QED  BY <1>5, <2>1 DEF Restorable, Found, Noted
<1> QED  BY <1>6, <1>7, <1>8, <1>9, RunnerStep

LEMMA CaseEndSteps ==
    ASSUME IInv, NEW r \in Runners,
           Quarantined(r) \/ CloseCase(r) \/ CloseFails(r) \/ CloseRecovers(r)
    PROVE  IInv'
<1>1. "BLOCKED_ENVIRONMENT" \in ResultStatuses /\ TypeOK
  BY DEF ResultStatuses, IInv
<1>2. Outcomes(r) \subseteq ResultStatuses
  BY <1>1, Evaluated DEF Outcomes
<1>3. PICK s \in ResultStatuses :
        /\ Result(r, s)
        /\ \/ UNCHANGED usable
           \/ usable' = [usable EXCEPT ![r] = FALSE] /\ s = "BLOCKED_ENVIRONMENT"
  BY <1>1, <1>2 DEF Quarantined, CloseCase, CloseFails, CloseRecovers
<1>4. /\ pc[r] \in {"begin", "act", "close"}
      /\ UNCHANGED <<roles, members, kept, maker, created, granted, prepared, alive,
                     cleanup, before, runs>>
      /\ writes' \in {writes, [writes EXCEPT ![r] = {}]}
  BY DEF Quarantined, CloseCase, CloseFails, CloseRecovers, RollsBack, shared
<1>5. faults' \in 0..MaxFaults
  BY <1>1 DEF Quarantined, CloseCase, CloseFails, CloseRecovers, TypeOK
<1> QED  BY <1>3, <1>4, <1>5, ResultStep

LEMMA InCaseSteps ==
    ASSUME IInv, NEW r \in Runners, BeginCase(r) \/ BeginFails(r) \/ Act(r)
    PROVE  IInv'
<1>1. /\ pc[r] \in {"begin", "act"} /\ \E x \in {"act", "close"} : pc' = [pc EXCEPT ![r] = x]
      /\ UNCHANGED <<roles, members, kept, maker, created, granted, prepared, usable, alive,
                     results, cleanup, before, runs>>
  BY DEF BeginCase, BeginFails, Act, Goto, shared
<1>2. PICK x \in {"act", "close"} : pc' = [pc EXCEPT ![r] = x]
  BY <1>1
<1>3. TypeOK /\ Honest(r) /\ pc'[r] = x
  BY <1>2, Domains DEF IInv
<1>4. /\ writes' \in [Runners -> SUBSET CaseIds]
      /\ \A q \in Runners \ {r} : writes'[q] = writes[q]
  <2>1. writes \in [Runners -> SUBSET CaseIds]
    BY <1>3 DEF TypeOK
  <2>2. CASE UNCHANGED writes
    BY <2>1, <2>2
  <2>3. CASE RollsBack(r)
    BY <2>1, <2>3 DEF RollsBack
  <2>4. CASE Act(r)
    <3>1. Current(r) \in CaseIds
      BY <1>1, <1>3, <2>4 DEF TypeOK, Honest, Current, CaseIds, Act
    <3>2. PICK w \in SUBSET CaseIds : writes' = [writes EXCEPT ![r] = w]
      BY <2>1, <2>4, <3>1 DEF Act
    <3> QED  BY <2>1, <3>2
  <2> QED  BY <2>2, <2>3, <2>4 DEF BeginCase, BeginFails
<1>5. TypeOK'
  <2>1. faults' \in 0..MaxFaults
    BY <1>3 DEF BeginCase, BeginFails, Act, TypeOK
  <2> QED  BY <2>1, <1>1, <1>2, <1>3, <1>4 DEF TypeOK, Phases
<1>6. CasesLeaveNothing' /\ Others(r)
  BY <1>1, <1>2, <1>3, <1>4, Domains DEF IInv, CasesLeaveNothing, Others
<1>7. Honest(r)'
  BY <1>1, <1>3 DEF Honest
<1>8. ASSUME Runners = {r} PROVE Restorable(r)'
  <2>1. Restorable(r)
    BY <1>8 DEF IInv
  <2> QED  BY <1>1, <1>3, <2>1 DEF Restorable, Found, Noted
<1> QED  BY <1>5, <1>6, <1>7, <1>8, RunnerStep

\* The roles that were not there are dropped, and their memberships with them.
LEMMA RemovedTypes ==
    ASSUME TypeOK, NEW r \in Runners, Removed(r)
    PROVE  members' \subseteq roles' /\ roles' \subseteq Roles
BY DEF Removed, TypeOK

LEMMA RemovedRestores ==
    ASSUME NEW r \in Runners, Removed(r),
           before[r][2] \subseteq before[r][1] /\ before[r][1] \subseteq Roles,
           Noted(r) \/ (Found(r) /\ created[r] = {} /\ granted[r] = {})
    PROVE  roles' = before[r][1] /\ members' = before[r][2]
<1>1. CASE Noted(r)
  BY <1>1 DEF Noted, Found, Removed
<1>2. CASE Found(r) /\ created[r] = {} /\ granted[r] = {}
  BY <1>2 DEF Found, Removed
<1> QED  BY <1>1, <1>2

LEMMA TeardownStep == ASSUME IInv, NEW r \in Runners, Teardown(r) PROVE IInv'
<1>1. /\ pc[r] = "revoke" /\ alive[r] /\ Removed(r) /\ Commits(r)
      /\ cleanup' = [cleanup EXCEPT ![r] = "PASS"]
      /\ pc' = [pc EXCEPT ![r] = "done"]
      /\ UNCHANGED <<maker, created, granted, prepared, usable, alive, results, before, runs,
                     faults>>
  BY DEF Teardown, Goto
<1>2. /\ TypeOK /\ Honest(r) /\ pc'[r] = "done" /\ cleanup'[r] = "PASS"
      /\ kept' = kept /\ writes' = [writes EXCEPT ![r] = {}]
  BY <1>1, Domains, CommitsNothing DEF IInv, Honest
<1>3. members' \subseteq roles' /\ roles' \subseteq Roles
  BY <1>1, <1>2, RemovedTypes
<1>4. TypeOK'
  BY <1>1, <1>2, <1>3 DEF TypeOK, Phases
<1>5. CasesLeaveNothing' /\ Others(r)
  BY <1>1, <1>2, Domains DEF IInv, CasesLeaveNothing, Others
<1>6. Honest(r)'
  BY <1>1, <1>2 DEF Honest
<1>7. ASSUME Runners = {r} PROVE Restorable(r)'
  <2>1. Restorable(r)
    BY <1>7 DEF IInv
  <2>2. /\ before[r][2] \subseteq before[r][1] /\ before[r][1] \subseteq Roles
        /\ Noted(r) \/ (Found(r) /\ created[r] = {} /\ granted[r] = {})
    BY <1>1, <2>1 DEF Restorable
  <2>3. roles' = before[r][1] /\ members' = before[r][2]
    BY <1>1, <2>2, RemovedRestores
  <2> QED  BY <1>1, <1>2, <2>2, <2>3 DEF Restorable, Found
<1> QED  BY <1>4, <1>5, <1>6, <1>7, RunnerStep

LEMMA TeardownRollbackStep == ASSUME IInv, NEW r \in Runners, TeardownRollback(r) PROVE IInv'
<1>1. /\ pc[r] = "teardown" /\ pc' = [pc EXCEPT ![r] = "revoke"]
      /\ writes' = [writes EXCEPT ![r] = {}]
      /\ UNCHANGED <<roles, members, kept, maker, created, granted, prepared, usable, alive,
                     results, cleanup, before, runs, faults>>
  BY DEF TeardownRollback, RollsBack, Goto, shared
<1>2. TypeOK /\ Honest(r) /\ pc'[r] = "revoke" /\ writes'[r] = {}
  BY <1>1, Domains DEF IInv
<1>3. TypeOK'
  BY <1>1, <1>2 DEF TypeOK, Phases
<1>4. CasesLeaveNothing' /\ Others(r)
  BY <1>1, <1>2, Domains DEF IInv, CasesLeaveNothing, Others
<1>5. Honest(r)'
  BY <1>1, <1>2 DEF Honest
<1>6. ASSUME Runners = {r} PROVE Restorable(r)'
  <2>1. Restorable(r)
    BY <1>6 DEF IInv
  <2> QED  BY <1>1, <1>2, <2>1 DEF Restorable, Found, Noted
<1> QED  BY <1>3, <1>4, <1>5, <1>6, RunnerStep

LEMMA TeardownFailsStep == ASSUME IInv, NEW r \in Runners, TeardownFails(r) PROVE IInv'
<1>1. /\ pc[r] \in {"teardown", "revoke"}
      /\ UNCHANGED writes \/ writes' = [writes EXCEPT ![r] = {}]
      /\ cleanup' = [cleanup EXCEPT ![r] = "FAIL"]
      /\ pc' = [pc EXCEPT ![r] = "done"]
      /\ UNCHANGED <<roles, members, kept, maker, created, granted, prepared, usable, alive,
                     results, before, runs>>
  BY DEF TeardownFails, RollsBack, Goto, shared
<1>2. /\ TypeOK /\ Honest(r) /\ pc'[r] = "done" /\ cleanup'[r] = "FAIL"
      /\ faults' \in 0..MaxFaults
  BY <1>1, Domains DEF IInv, TeardownFails, TypeOK
<1>3. TypeOK'
  BY <1>1, <1>2 DEF TypeOK, Phases
<1>4. CasesLeaveNothing' /\ Others(r)
  BY <1>1, <1>2, Domains DEF IInv, CasesLeaveNothing, Others
<1>5. Honest(r)'
  BY <1>1, <1>2 DEF Honest
<1>6. ASSUME Runners = {r} PROVE Restorable(r)'
  <2>1. Restorable(r)
    BY <1>6 DEF IInv
  <2> QED  BY <1>1, <1>2, <2>1 DEF Restorable
<1> QED  BY <1>3, <1>4, <1>5, <1>6, RunnerStep

LEMMA EndsStep ==
    ASSUME IInv, NEW r \in Runners, Ends(r), UNCHANGED runs, faults' \in 0..MaxFaults
    PROVE  IInv'
<1>1. /\ pc' = [pc EXCEPT ![r] = "idle"]
      /\ created' = [created EXCEPT ![r] = {}] /\ granted' = [granted EXCEPT ![r] = {}]
      /\ prepared' = [prepared EXCEPT ![r] = None] /\ writes' = [writes EXCEPT ![r] = {}]
      /\ usable' = [usable EXCEPT ![r] = TRUE] /\ alive' = [alive EXCEPT ![r] = TRUE]
      /\ results' = [results EXCEPT ![r] = <<>>] /\ cleanup' = [cleanup EXCEPT ![r] = None]
      /\ before' = [before EXCEPT ![r] = <<{}, {}>>]
      /\ maker' = [a \in Roles |-> IF maker[a] = r THEN None ELSE maker[a]]
      /\ UNCHANGED <<roles, members, kept>>
  BY DEF Ends, Goto
<1>2. /\ TypeOK /\ pc'[r] = "idle" /\ usable'[r] /\ alive'[r] /\ results'[r] = <<>>
      /\ cleanup'[r] = None /\ created'[r] = {} /\ granted'[r] = {} /\ writes'[r] = {}
  BY <1>1, Domains DEF IInv
<1>3. TypeOK'
  <2>1. maker' \in [Roles -> Runners \cup {None}]
    BY <1>1, <1>2 DEF TypeOK
  <2>2. \A q \in Runners : Len(results'[q]) <= CaseCount
    <3>1. Len(<<>>) = 0 /\ 0 <= CaseCount
      OBVIOUS
    <3> QED  BY <1>1, <1>2, <3>1, Domains DEF TypeOK
  <2>3. results' \in [Runners -> Seq(ResultStatuses)]
    BY <1>1, <1>2 DEF TypeOK
  <2> QED  BY <1>1, <1>2, <2>1, <2>2, <2>3 DEF TypeOK, Phases
<1>4. CasesLeaveNothing' /\ Others(r)
  BY <1>1, <1>2, Domains DEF IInv, CasesLeaveNothing, Others
<1>5. Honest(r)' /\ Restorable(r)'
  BY <1>2 DEF Honest, Restorable
<1> QED  BY <1>3, <1>4, <1>5, RunnerStep

LEMMA LoseStep == ASSUME IInv, NEW r \in Runners, LoseConnection(r) PROVE IInv'
<1>1. /\ pc[r] \notin {"idle", "done"} /\ alive' = [alive EXCEPT ![r] = FALSE]
      /\ \/ RollsBack(r) /\ UNCHANGED <<roles, members, kept, maker>>
         \/ pc[r] = "create" /\ Made(r) /\ Commits(r)
         \/ pc[r] = "revoke" /\ Removed(r) /\ Commits(r) /\ UNCHANGED maker
      /\ UNCHANGED <<pc, created, granted, prepared, usable, results, cleanup, before, runs>>
  BY DEF LoseConnection
<1>2. TypeOK /\ Honest(r) /\ faults' \in 0..MaxFaults
  BY DEF IInv, LoseConnection, Fault, TypeOK
<1>A. kept' = kept /\ writes' = [writes EXCEPT ![r] = {}] /\ writes'[r] = {}
  <2>1. CASE RollsBack(r) /\ UNCHANGED kept
    BY <1>2, <2>1, Domains DEF RollsBack
  <2>2. CASE Commits(r) /\ pc[r] \in {"create", "revoke"}
    BY <1>2, <2>2, CommitsNothing DEF Honest
  <2> QED  BY <1>1, <2>1, <2>2
<1>3. TypeOK'
  <2>1. /\ members' \subseteq roles' /\ roles' \subseteq Roles
        /\ maker' \in [Roles -> Runners \cup {None}]
    <3>1. CASE UNCHANGED maker /\ Removed(r)
      BY <1>2, <3>1, RemovedTypes DEF TypeOK
    <3> QED  BY <1>1, <1>2, <3>1, MadeKeeps
  <2> QED  BY <1>1, <1>2, <1>A, <2>1 DEF TypeOK
<1>4. CasesLeaveNothing' /\ Others(r)
  BY <1>1, <1>2, <1>A, Domains DEF IInv, CasesLeaveNothing, Others
<1>5. Honest(r)'
  BY <1>1, <1>2, <1>A DEF Honest
<1>6. ASSUME Runners = {r} PROVE Restorable(r)'
  <2>1. Restorable(r)
    BY <1>6 DEF IInv
  <2>2. CASE UNCHANGED <<roles, members, maker>>
    BY <1>1, <2>1, <2>2 DEF Restorable, Found, Noted
  <2>3. CASE pc[r] = "create" /\ Made(r)
    BY <1>1, <2>1, <2>3 DEF Restorable, Found, Noted, Made
  <2>4. CASE pc[r] = "revoke" /\ Removed(r)
    <3>1. roles' = before[r][1] /\ members' = before[r][2]
      BY <2>1, <2>4, RemovedRestores DEF Restorable
    <3> QED  BY <1>1, <2>1, <2>4, <3>1 DEF Restorable, Found, Noted
  <2> QED  BY <1>1, <2>2, <2>3, <2>4
<1> QED  BY <1>3, <1>4, <1>5, <1>6, RunnerStep

LEMMA InvNext == IInv /\ [Next]_vars => IInv'
<1> SUFFICES ASSUME IInv, [Next]_vars PROVE IInv'
  OBVIOUS
<1>1. CASE UNCHANGED vars
  <2>1. /\ UNCHANGED <<roles, members, kept, maker, pc, created, granted, prepared, writes,
                       usable, alive, results, cleanup, before, runs, faults>>
    BY <1>1 DEF vars, shared
  <2>2. TypeOK' /\ CasesLeaveNothing'
    BY <2>1 DEF IInv, TypeOK, CasesLeaveNothing
  <2>3. ASSUME NEW r \in Runners PROVE Honest(r)' /\ (Runners = {r} => Restorable(r)')
    BY <2>1 DEF IInv, Honest, Restorable, Found, Noted
  <2> QED  BY <2>2, <2>3 DEF IInv
<1>2. ASSUME NEW r \in Runners, Start(r) \/ Look(r) \/ Create(r) \/ Verify(r) PROVE IInv'
  BY <1>2, StartStep, LookStep, CreateStep, VerifyStep
<1>3. ASSUME NEW r \in Runners, PrepareRaises(r) \/ PrepareFails(r) PROVE IInv'
  <2>1. faults' \in 0..MaxFaults
    BY <1>3 DEF PrepareRaises, PrepareFails, Fault, IInv, TypeOK
  <2> QED  BY <1>3, <2>1, NotPreparedStep DEF PrepareRaises, PrepareFails, shared
<1>4. ASSUME NEW r \in Runners,
             \/ Quarantined(r) \/ CloseCase(r) \/ CloseFails(r) \/ CloseRecovers(r)
             \/ BeginCase(r) \/ BeginFails(r) \/ Act(r)
      PROVE  IInv'
  BY <1>4, CaseEndSteps, InCaseSteps
<1>5. ASSUME NEW r \in Runners, TeardownRollback(r) \/ Teardown(r) \/ TeardownFails(r) \/ LoseConnection(r)
      PROVE  IInv'
  BY <1>5, TeardownRollbackStep, TeardownStep, TeardownFailsStep, LoseStep
<1>6. ASSUME NEW r \in Runners, Leave(r) \/ Crash(r) PROVE IInv'
  <2>1. faults' \in 0..MaxFaults
    BY <1>6 DEF Leave, Crash, Fault, IInv, TypeOK
  <2> QED  BY <1>6, <2>1, EndsStep DEF Leave, Crash
<1> QED  BY <1>1, <1>2, <1>3, <1>4, <1>5, <1>6 DEF Next, Advance

LEMMA Invariance == Spec => []IInv
BY InvInit, InvNext, PTL DEF Spec

----------------------------------------------------------------------------
(* What the run shows of one runner and two cases, for any.                *)

\* Nothing that prepare or teardown commits was written by a case: the rollback that
\* teardown begins with comes before its commit, and one that raises ends it.
THEOREM CasesNeverLeaveAnything == Spec => []CasesLeaveNothing
<1>1. IInv => CasesLeaveNothing
  BY DEF IInv
<1> QED  BY <1>1, Invariance, PTL

\* A run of run_runtime_cases that passes kept its connection to the end, and a
\* teardown that passes on a server with no other runner puts back the roles and
\* memberships that were there, whatever was left behind earlier.
THEOREM PassedRunsAreAlwaysClean == Spec => []PassedRunsAreClean
<1>1. IInv => PassedRunsAreClean
  <2> SUFFICES ASSUME IInv PROVE PassedRunsAreClean
    OBVIOUS
  <2>1. CleanupRestores
    <3>1. SUFFICES ASSUME NEW r \in Runners, Runners = {r}, cleanup[r] = "PASS"
                   PROVE  <<roles, members>> = before[r]
      BY DEF CleanupRestores
    <3>2. before[r] = <<before[r][1], before[r][2]>>
      BY DEF IInv, TypeOK
    <3>3. pc[r] = "done"
      BY <3>1 DEF IInv, Honest
    <3> QED  BY <3>1, <3>2, <3>3 DEF IInv, Restorable, Found
  <2>2. LostRunsDoNotPass
    <3>1. SUFFICES ASSUME NEW r \in Runners, Status(r) = "PASS"
                   PROVE  alive[r] /\ usable[r]
      BY DEF LostRunsDoNotPass
    <3>2. cleanup[r] = "PASS" /\ \A n \in DOMAIN results[r] : results[r][n] \in PassStatuses
      BY <3>1 DEF Status
    <3> QED  BY <3>2 DEF IInv, Honest, PassStatuses
  <2> QED  BY <2>1, <2>2 DEF IInv, PassedRunsAreClean
<1> QED  BY <1>1, Invariance, PTL
=============================================================================
