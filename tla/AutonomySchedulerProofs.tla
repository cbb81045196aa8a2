----------------------- MODULE AutonomySchedulerProofs -----------------------
(***************************************************************************)
(* The scheduler keeps its promises for any schedules, processes, lease,   *)
(* interval and back-off, any wait between a clock reading and its commit, *)
(* and any operator.                                                       *)
(*                                                                         *)
(* SchedulerInv is the inductive invariant.  OpenAttemptIsLeased and       *)
(* LeaseIsOpenAttempt need each other: a completion that finds its token   *)
(* gone may ignore its attempt only because an unleased attempt has its    *)
(* receipt, and a claimant may count the attempt it evicts only because a  *)
(* leased one has none.  HeldRuns and Paced carry the cadence from the     *)
(* claim, where the schedule was due, to the completion that reads the     *)
(* clock later.                                                            *)
(***************************************************************************)
EXTENDS AutonomyScheduler, TLAPS

\* The retry of a schedule that completed a run is an interval later.
Paced == \A s \in Schedules :
    row[s].lastRun # 0 => row[s].lastRun + Interval <= row[s].nextRun

\* The token a process holds was claimed, and while the schedule is leased
\* to it the schedule was due when the process claimed it.
HeldRuns == \A p \in Processes :
    LET t == runner[p].token IN
    t # NoToken =>
        /\ attempt[t].status # "unused"
        /\ row[attempt[t].of].token = t => row[attempt[t].of].nextRun <= runner[p].at

\* The inductive invariant.
SchedulerInv ==
    /\ SchedulerTypeOK
    /\ OpenAttemptIsLeased
    /\ LeaseIsOpenAttempt
    /\ Paced
    /\ HeldRuns

-----------------------------------------------------------------------------
\* The texts _iso writes compare as the times do, with and without a fraction.
LEMMA IsoOrder ==
    ASSUME NEW t \in Nat, NEW u \in Nat
    PROVE  Before(t, u) <=> t < u
  <1>1. t = 2 * (t \div 2) + (t % 2) /\ t % 2 \in {0, 1} /\ t \div 2 \in Nat
    OBVIOUS
  <1>2. u = 2 * (u \div 2) + (u % 2) /\ u % 2 \in {0, 1} /\ u \div 2 \in Nat
    OBVIOUS
  <1> DEFINE td == t \div 2  tm == t % 2  ud == u \div 2  um == u % 2
  <1>3. Before(t, u) <=> td < ud \/ (td = ud /\ tm = 0 /\ um = 1)
    BY <1>1, <1>2 DEF Before, TextBefore, Iso
  <1> HIDE DEF td, tm, ud, um
  <1>4. t = 2 * td + tm /\ tm \in {0, 1} /\ td \in Nat
    BY <1>1 DEF td, tm
  <1>5. u = 2 * ud + um /\ um \in {0, 1} /\ ud \in Nat
    BY <1>2 DEF ud, um
  <1> QED
    BY <1>3, <1>4, <1>5

\* The same for the comparison "at or before".
LEMMA IsoOrderWeak ==
    ASSUME NEW t \in Nat, NEW u \in Nat
    PROVE  NotAfter(t, u) <=> t <= u
  <1>1. NotAfter(t, u) <=> ~Before(u, t)
    BY DEF NotAfter, Before
  <1> QED
    BY <1>1, IsoOrder

\* The retry delay is a time.
LEMMA BackoffType == ASSUME NEW f \in Nat PROVE Backoff(f + 1) \in Nat
  <1> DEFINE e == IF f < 30 THEN f ELSE 30
  <1>1. e \in 0..30 /\ e = IF (f + 1) - 1 < 30 THEN (f + 1) - 1 ELSE 30
    OBVIOUS
  <1>2. 2^e \in Nat
    BY <1>1, PowersOfTwo
  <1> DEFINE x == 2^e
  <1>3. Backoff(f + 1) = IF MaxBackoff < BaseBackoff * x THEN MaxBackoff ELSE BaseBackoff * x
    BY <1>1 DEF Backoff
  <1> HIDE DEF e, x
  <1>4. x \in Nat /\ BaseBackoff \in Nat /\ MaxBackoff \in Nat
    BY <1>2, SchedulerAssumption DEF x
  <1>5. BaseBackoff * x \in Nat
    BY <1>4
  <1> QED
    BY <1>3, <1>4, <1>5

\* Updates of a row yield rows.
LEMMA RowUpdate ==
    ASSUME NEW r \in Rows, NEW st \in {"absent", "enabled", "disabled"},
           NEW d \in Reasons, NEW n \in Nat
    PROVE  /\ [r EXCEPT !.status = st] \in Rows
           /\ [r EXCEPT !.status = st, !.degraded = d] \in Rows
           /\ [r EXCEPT !.status = st, !.nextRun = n] \in Rows
           /\ [r EXCEPT !.status = st, !.degraded = d, !.nextRun = n] \in Rows
  BY DEF Rows

\* The reasons the code writes.
LEMMA ReasonNames == {"none", "callback", "repairable", "conflict"} = Reasons
  BY DEF Reasons

\* A reading of the clock is a positive time, not after the clock.
LEMMA ReadingType ==
    ASSUME SchedulerTypeOK, NEW now \in Readings
    PROVE  now \in Nat /\ now > 0 /\ now <= clock /\ clock <= now + MaxWait
  BY ClockAssumption DEF Readings, SchedulerTypeOK

-----------------------------------------------------------------------------
\* A new database, and a migrated one, satisfy the invariant.
LEMMA SchedulerInitInv == SchedulerInit => SchedulerInv
  <1> SUFFICES ASSUME SchedulerInit PROVE SchedulerInv
    OBVIOUS
  <1>1. \A s \in Schedules : /\ row[s] \in Rows /\ row[s].token = NoToken
                             /\ row[s].expires = 0 /\ row[s].lastRun = 0
                             /\ row[s].status = "absent" => row[s] = Absent
    <2> DEFINE Idle(st, d) == [Absent EXCEPT !.status = st, !.degraded = d, !.nextRun = 1]
    <2>1. Absent \in Rows
      BY DEF Absent, Rows, Reasons
    <2>2. /\ Idle("enabled", "none") \in Rows /\ Idle("disabled", "repairable") \in Rows
          /\ Idle("disabled", "conflict") \in Rows
      BY <2>1, RowUpdate, ReasonNames
    <2> SUFFICES ASSUME NEW s \in Schedules
                 PROVE  /\ row[s] \in Rows /\ row[s].token = NoToken
                        /\ row[s].expires = 0 /\ row[s].lastRun = 0
                        /\ row[s].status = "absent" => row[s] = Absent
      OBVIOUS
    <2>3. row[s] \in {Absent, Idle("enabled", "none"), Idle("disabled", "repairable"),
                      Idle("disabled", "conflict")}
      BY DEF SchedulerInit, Legacy
    <2>4. \A st \in {"enabled", "disabled"}, d \in Reasons :
            /\ Idle(st, d).token = NoToken /\ Idle(st, d).expires = 0
            /\ Idle(st, d).lastRun = 0 /\ Idle(st, d).status # "absent"
      BY DEF Absent
    <2>5. Absent.token = NoToken /\ Absent.expires = 0 /\ Absent.lastRun = 0
      BY DEF Absent
    <2> HIDE DEF Idle
    <2> QED
      BY <2>1, <2>2, <2>3, <2>4, <2>5, ReasonNames
  <1>2. row \in [Schedules -> Rows]
    BY <1>1 DEF SchedulerInit
  <1>3. (CHOOSE s \in Schedules : TRUE) \in Schedules
    BY SchedulerAssumption
  <1>4. attempt \in [Tokens -> Attempts] /\ \A t \in Tokens : attempt[t].status = "unused"
    BY <1>3 DEF SchedulerInit, Attempts
  <1>5. runner \in [Processes -> Runners] /\ \A p \in Processes : runner[p].token = NoToken
    BY DEF SchedulerInit, Runners, Claiming
  <1>6. SchedulerTypeOK
    BY <1>1, <1>2, <1>4, <1>5 DEF SchedulerInit, SchedulerTypeOK, ClockInit
  <1>7. OpenAttemptIsLeased /\ LeaseIsOpenAttempt /\ Paced /\ HeldRuns
    BY <1>1, <1>4, <1>5 DEF OpenAttemptIsLeased, LeaseIsOpenAttempt, Open, Paced, HeldRuns
  <1> QED
    BY <1>6, <1>7 DEF SchedulerInv

\* A step that leaves every lease where it is, and moves the next run of no
\* leased schedule, keeps the invariant; runs may be dropped by processes.
LEMMA ConfigurationInv ==
    ASSUME SchedulerInv,
           row' \in [Schedules -> Rows],
           \A s \in Schedules :
                /\ row'[s].token = row[s].token
                /\ row'[s].expires = row[s].expires
                /\ row[s].token # NoToken => row'[s].nextRun = row[s].nextRun
                /\ row'[s].status = "absent" => row'[s] = Absent
                /\ row'[s].lastRun # 0 => row'[s].lastRun + Interval <= row'[s].nextRun,
           attempt' = attempt,
           runner' \in [Processes -> Runners],
           \A p \in Processes : runner'[p] = runner[p] \/ runner'[p].token = NoToken,
           claimed' \in [Processes -> SUBSET Schedules],
           callbacks' \in [Processes -> SUBSET Schedules],
           operatorOff' \subseteq Schedules,
           clock' \in Nat
    PROVE  SchedulerInv'
  <1> USE DEF SchedulerInv
  <1>1. SchedulerTypeOK'
    BY DEF SchedulerTypeOK
  <1>2. OpenAttemptIsLeased'
    <2> SUFFICES ASSUME NEW t \in Tokens, attempt[t].status = "open"
                 PROVE  row'[attempt[t].of].token = t
      BY DEF OpenAttemptIsLeased, Open
    <2>1. attempt[t].of \in Schedules
      BY DEF SchedulerTypeOK, Attempts
    <2> QED
      BY <2>1 DEF OpenAttemptIsLeased, Open
  <1>3. LeaseIsOpenAttempt' /\ Paced'
    BY DEF LeaseIsOpenAttempt, Open, Paced
  <1>4. HeldRuns'
    <2> SUFFICES ASSUME NEW p \in Processes, runner'[p].token # NoToken
                 PROVE  /\ attempt[runner'[p].token].status # "unused"
                        /\ row'[attempt[runner'[p].token].of].token = runner'[p].token
                            => row'[attempt[runner'[p].token].of].nextRun <= runner'[p].at
      BY DEF HeldRuns
    <2>1. runner'[p] = runner[p] /\ runner[p].token \in Tokens
      BY DEF SchedulerTypeOK, Runners
    <2>2. attempt[runner[p].token].of \in Schedules
      BY <2>1 DEF SchedulerTypeOK, Attempts
    <2> QED
      BY <2>1, <2>2 DEF HeldRuns
  <1> QED
    BY <1>1, <1>2, <1>3, <1>4

\* register_schedule keeps it.
LEMMA RegisterInv ==
    ASSUME SchedulerInv, NEW p \in Processes, NEW s \in Schedules, NEW now \in Readings,
           Register(p, s, now)
    PROVE  SchedulerInv'
  <1>1. now \in Nat
    BY ReadingType DEF SchedulerInv
  <1>2. New(now) \in Rows /\ New(now).token = NoToken /\ New(now).expires = 0
        /\ New(now).lastRun = 0 /\ New(now).status = "enabled"
    BY <1>1 DEF New, Absent, Rows, Reasons
  <1>3. row[s].status = "absent" => row[s].token = NoToken /\ row[s].expires = 0
    BY DEF SchedulerInv, SchedulerTypeOK, Absent
  <1>4. row' \in [Schedules -> Rows]
    <2>1. row[s] \in Rows
      BY DEF SchedulerInv, SchedulerTypeOK
    <2>2. Registered(row[s]) \in Rows
      BY <2>1, RowUpdate, ReasonNames DEF Registered
    <2> QED
      BY <1>2, <2>2 DEF Register, SchedulerInv, SchedulerTypeOK
  <1>5. \A r \in Schedules : r # s => row'[r] = row[r]
    BY DEF Register, SchedulerInv, SchedulerTypeOK
  <1>6. /\ row'[s].token = row[s].token
        /\ row'[s].expires = row[s].expires
        /\ row[s].token # NoToken => row'[s].nextRun = row[s].nextRun
        /\ row'[s].status # "absent"
        /\ row'[s].lastRun # 0 => row'[s].lastRun + Interval <= row'[s].nextRun
    BY <1>2, <1>3 DEF Register, Registered, SchedulerInv, SchedulerTypeOK, Rows, Paced
  <1> QED
    BY <1>4, <1>5, <1>6, ConfigurationInv
    DEF Register, SchedulerInv, SchedulerTypeOK, Paced

\* upsert keeps it: the row it inserts has no lease, the one it finds keeps it.
LEMMA UpsertInv ==
    ASSUME SchedulerInv, NEW s \in Schedules, NEW status \in {"enabled", "disabled"},
           NEW now \in Readings, Upsert(s, status, now)
    PROVE  SchedulerInv'
  <1>1. now \in Nat
    BY ReadingType DEF SchedulerInv
  <1>2. row[s].status = "absent" => row[s].token = NoToken /\ row[s].lastRun = 0
    BY DEF SchedulerInv, SchedulerTypeOK, Absent
  <1>3. row' \in [Schedules -> Rows]
    <2>1. row \in [Schedules -> Rows] /\ row[s].nextRun \in Nat
      BY DEF SchedulerInv, SchedulerTypeOK, Rows
    <2>2. row' = [row EXCEPT ![s] = [row[s] EXCEPT !.status = status,
                    !.nextRun = IF row[s].status = "absent" THEN now ELSE row[s].nextRun]]
      BY <2>1 DEF Upsert
    <2> DEFINE n == IF row[s].status = "absent" THEN now ELSE row[s].nextRun
    <2>3. n \in Nat
      BY <1>1, <2>1
    <2>4. [row[s] EXCEPT !.status = status, !.nextRun = n] \in Rows
      BY <2>1, <2>3, RowUpdate, ReasonNames
    <2> QED
      BY <2>1, <2>2, <2>4
  <1>4. \A r \in Schedules : r # s => row'[r] = row[r]
    BY DEF Upsert, SchedulerInv, SchedulerTypeOK
  <1>5. /\ row'[s].token = row[s].token
        /\ row'[s].expires = row[s].expires
        /\ row[s].token # NoToken => row'[s].nextRun = row[s].nextRun
        /\ row'[s].status # "absent"
        /\ row'[s].lastRun # 0 => row'[s].lastRun + Interval <= row'[s].nextRun
    BY <1>2 DEF Upsert, SchedulerInv, SchedulerTypeOK, Rows, Paced
  <1> QED
    BY <1>3, <1>4, <1>5, ConfigurationInv
    DEF Upsert, SchedulerInv, SchedulerTypeOK, Paced

\* set_enabled(True) keeps it.
LEMMA SetEnabledInv ==
    ASSUME SchedulerInv, NEW s \in Schedules, SetEnabled(s)
    PROVE  SchedulerInv'
  <1>1. row' \in [Schedules -> Rows]
    <2>1. row \in [Schedules -> Rows]
      BY DEF SchedulerInv, SchedulerTypeOK
    <2>2. row' = [row EXCEPT ![s] = [row[s] EXCEPT !.status = "enabled", !.degraded = "none"]]
      BY <2>1 DEF SetEnabled
    <2> QED
      BY <2>1, <2>2, RowUpdate, ReasonNames
  <1>2. \A r \in Schedules :
          /\ row'[r].token = row[r].token /\ row'[r].expires = row[r].expires
          /\ row'[r].nextRun = row[r].nextRun /\ row'[r].lastRun = row[r].lastRun
          /\ row'[r] = row[r] \/ row'[r].status # "absent"
    BY DEF SetEnabled, SchedulerInv, SchedulerTypeOK, Rows
  <1> QED
    BY <1>1, <1>2, ConfigurationInv
    DEF SetEnabled, SchedulerInv, SchedulerTypeOK, Paced

\* delete keeps it: the row has no lease.
LEMMA DeleteInv ==
    ASSUME SchedulerInv, NEW s \in Schedules, Delete(s)
    PROVE  SchedulerInv'
  <1>1. Absent \in Rows /\ Absent.token = NoToken /\ Absent.expires = 0 /\ Absent.lastRun = 0
    BY DEF Absent, Rows, Reasons
  <1>2. row' \in [Schedules -> Rows]
    BY <1>1 DEF Delete, SchedulerInv, SchedulerTypeOK
  <1>3. row'[s] = Absent /\ row[s].token = NoToken /\ row[s].expires = 0
    BY DEF Delete, SchedulerInv, SchedulerTypeOK
  <1>4. \A r \in Schedules : r # s => row'[r] = row[r]
    BY DEF Delete, SchedulerInv, SchedulerTypeOK
  <1> QED
    BY <1>1, <1>2, <1>3, <1>4, ConfigurationInv
    DEF Delete, SchedulerInv, SchedulerTypeOK, Paced

\* A restart keeps it: the migration touches neither lease nor cadence.
LEMMA RestartInv ==
    ASSUME SchedulerInv, NEW p \in Processes, Restart(p)
    PROVE  SchedulerInv'
  <1>1. row' \in [Schedules -> Rows]
    <2> SUFFICES ASSUME NEW s \in Schedules PROVE Migrated(s, row[s]) \in Rows
      BY DEF Restart
    <2>1. row[s] \in Rows /\ row[s].degraded \in Reasons
      BY DEF SchedulerInv, SchedulerTypeOK, Rows
    <2>2. (IF row[s].degraded = "none" THEN "conflict" ELSE row[s].degraded) \in Reasons
      BY <2>1, ReasonNames
    <2> QED
      BY <2>1, <2>2, RowUpdate DEF Migrated
  <1>2. \A r \in Schedules :
          /\ row'[r].token = row[r].token /\ row'[r].expires = row[r].expires
          /\ row'[r].nextRun = row[r].nextRun /\ row'[r].lastRun = row[r].lastRun
          /\ row'[r] = row[r] \/ row'[r].status # "absent"
    BY DEF Restart, Migrated, SchedulerInv, SchedulerTypeOK, Rows
  <1>3. Claiming \in Runners /\ Claiming.token = NoToken
    BY DEF Claiming, Runners
  <1> QED
    BY <1>1, <1>2, <1>3, ConfigurationInv
    DEF Restart, SchedulerInv, SchedulerTypeOK, Paced

\* An abandoned tick keeps it: the lease stays behind with its attempt.
LEMMA RunAbandonedInv ==
    ASSUME SchedulerInv, NEW p \in Processes, RunAbandoned(p)
    PROVE  SchedulerInv'
  <1>1. Claiming \in Runners /\ Claiming.token = NoToken
    BY DEF Claiming, Runners
  <1> QED
    BY <1>1, ConfigurationInv DEF RunAbandoned, SchedulerInv, SchedulerTypeOK, Paced

\* So do the end of a tick and the passing of time.
LEMMA TickInv ==
    ASSUME SchedulerInv,
           SchedulerTick \/ \E p \in Processes, now \in Readings : TickEnds(p, now)
    PROVE  SchedulerInv'
  <1>1. CASE SchedulerTick
    BY <1>1, ConfigurationInv DEF SchedulerTick, Tick, SchedulerInv, SchedulerTypeOK, Paced
  <1>2. CASE \E p \in Processes, now \in Readings : TickEnds(p, now)
    BY <1>2, ConfigurationInv DEF TickEnds, SchedulerInv, SchedulerTypeOK, Paced
  <1> QED
    BY <1>1, <1>2

-----------------------------------------------------------------------------
\* What a receipt changes: one open attempt, and only its status.
LEMMA ReceiptedFacts ==
    ASSUME SchedulerTypeOK, NEW u, NEW status \in Receipts
    PROVE  /\ Receipted(u, status) \in [Tokens -> Attempts]
           /\ \A t \in Tokens :
                /\ Receipted(u, status)[t].of = attempt[t].of
                /\ Receipted(u, status)[t].status =
                        IF t = u /\ attempt[t].status = "open" THEN status
                        ELSE attempt[t].status
                /\ attempt[t].status # "open" => Receipted(u, status)[t] = attempt[t]
  <1>1. attempt \in [Tokens -> Attempts]
    BY DEF SchedulerTypeOK
  <1>2. \A t \in Tokens : [attempt[t] EXCEPT !.status = status] \in Attempts
    BY <1>1 DEF Attempts
  <1>3. CASE u \in Tokens /\ attempt[u].status = "open"
    <2>1. Receipted(u, status) = [attempt EXCEPT ![u] = [attempt[u] EXCEPT !.status = status]]
      BY <1>1, <1>3 DEF Receipted
    <2> QED
      BY <1>1, <1>2, <1>3, <2>1 DEF Attempts
  <1>4. CASE ~(u \in Tokens /\ attempt[u].status = "open")
    BY <1>1, <1>4 DEF Receipted
  <1> QED
    BY <1>3, <1>4

\* The names of the receipts are neither "open" nor "unused".
LEMMA ReceiptNames ==
    /\ {"success", "skipped", "error", "degraded", "lease_expired", "lease_lost",
        "disabled"} = Receipts
    /\ "open" \notin Receipts /\ "unused" \notin Receipts
  BY DEF Receipts, Failing

\* A step that ends the run a schedule is leased to, with a receipt, and
\* clears the lease keeps the invariant; processes may drop their runs.
LEMMA ReleaseInv ==
    ASSUME SchedulerInv, NEW s \in Schedules, NEW r \in Rows, NEW status \in Receipts,
           r.token = NoToken, r.expires = 0, r.status # "absent",
           r.lastRun # 0 => r.lastRun + Interval <= r.nextRun,
           row' = [row EXCEPT ![s] = r],
           attempt' = Receipted(row[s].token, status),
           runner' \in [Processes -> Runners],
           \A p \in Processes : runner'[p] = runner[p] \/ runner'[p].token = NoToken,
           operatorOff' \subseteq Schedules,
           UNCHANGED <<claimed, callbacks, clock>>
    PROVE  SchedulerInv'
  <1> USE DEF SchedulerInv
  <1>0. SchedulerTypeOK /\ row \in [Schedules -> Rows]
    BY DEF SchedulerTypeOK
  <1>1. /\ attempt' \in [Tokens -> Attempts]
        /\ \A t \in Tokens :
            /\ attempt'[t].of = attempt[t].of
            /\ attempt'[t].status = IF t = row[s].token /\ attempt[t].status = "open"
                                   THEN status ELSE attempt[t].status
    BY <1>0, ReceiptedFacts
  <1>2. row' \in [Schedules -> Rows] /\ row'[s] = r
        /\ \A q \in Schedules : q # s => row'[q] = row[q]
    BY <1>0
  <1>3. SchedulerTypeOK'
    BY <1>1, <1>2 DEF SchedulerTypeOK
  <1>4. \A t \in Tokens : attempt[t].of \in Schedules
    BY DEF SchedulerTypeOK, Attempts
  <1>5. OpenAttemptIsLeased'
    <2> SUFFICES ASSUME NEW t \in Tokens, attempt'[t].status = "open"
                 PROVE  row'[attempt[t].of].token = t
      BY <1>1 DEF OpenAttemptIsLeased, Open
    <2>1. attempt[t].status = "open" /\ t # row[s].token
      BY <1>1, ReceiptNames
    <2>2. row[attempt[t].of].token = t
      BY <2>1 DEF OpenAttemptIsLeased, Open
    <2> QED
      BY <1>2, <1>4, <2>1, <2>2
  <1>6. LeaseIsOpenAttempt'
    <2> SUFFICES ASSUME NEW q \in Schedules, row'[q].token # NoToken
                 PROVE  attempt'[row'[q].token].status = "open"
                        /\ attempt'[row'[q].token].of = q
      BY DEF LeaseIsOpenAttempt, Open
    <2>1. q # s /\ row'[q] = row[q] /\ row[q].token \in Tokens
      BY <1>2, <1>0 DEF Rows
    <2>2. attempt[row[q].token].status = "open" /\ attempt[row[q].token].of = q
      BY <2>1 DEF LeaseIsOpenAttempt, Open
    <2>3. row[q].token # row[s].token
      BY <2>1, <2>2 DEF LeaseIsOpenAttempt, Open
    <2> QED
      BY <1>1, <2>1, <2>2, <2>3
  <1>7. Paced'
    BY <1>2 DEF Paced
  <1>8. HeldRuns'
    <2> SUFFICES ASSUME NEW p \in Processes, runner'[p].token # NoToken
                 PROVE  /\ attempt'[runner'[p].token].status # "unused"
                        /\ row'[attempt'[runner'[p].token].of].token = runner'[p].token
                            => row'[attempt'[runner'[p].token].of].nextRun <= runner'[p].at
      BY DEF HeldRuns
    <2>1. runner'[p] = runner[p] /\ runner[p].token \in Tokens
      BY DEF SchedulerTypeOK, Runners
    <2>2. attempt'[runner[p].token].status # "unused"
      BY <1>1, <2>1, ReceiptNames DEF HeldRuns
    <2>3. attempt'[runner[p].token].of = attempt[runner[p].token].of
      BY <1>1, <2>1
    <2> QED
      BY <1>2, <1>4, <2>1, <2>2, <2>3, SchedulerAssumption DEF HeldRuns
  <1> QED
    BY <1>3, <1>5, <1>6, <1>7, <1>8

\* set_enabled(False) keeps it.
LEMMA SetDisabledInv ==
    ASSUME SchedulerInv, NEW s \in Schedules, SetDisabled(s)
    PROVE  SchedulerInv'
  <1>1. row \in [Schedules -> Rows]
    BY DEF SchedulerInv, SchedulerTypeOK
  <1> DEFINE r == [row[s] EXCEPT !.status = "disabled", !.token = NoToken, !.expires = 0]
  <1>2. row' = [row EXCEPT ![s] = r]
    BY <1>1 DEF SetDisabled
  <1>3. r \in Rows
    BY <1>1 DEF Rows
  <1>4. r.token = NoToken /\ r.expires = 0 /\ r.status # "absent"
        /\ r.lastRun = row[s].lastRun /\ r.nextRun = row[s].nextRun
    BY <1>1 DEF Rows
  <1>5. r.lastRun # 0 => r.lastRun + Interval <= r.nextRun
    BY <1>4 DEF SchedulerInv, Paced
  <1>6. /\ attempt' = Receipted(row[s].token, "disabled") /\ "disabled" \in Receipts
        /\ UNCHANGED <<runner, claimed, callbacks, clock>>
        /\ operatorOff' \subseteq Schedules /\ runner \in [Processes -> Runners]
    BY ReceiptNames DEF SetDisabled, SchedulerInv, SchedulerTypeOK
  <1> HIDE DEF r
  <1> QED
    BY <1>2, <1>3, <1>4, <1>5, <1>6, ReleaseInv

\* What a process that holds the token of a lease knows of its schedule.
LEMMA HolderFacts ==
    ASSUME SchedulerInv, NEW p \in Processes, NEW t \in Tokens, NEW now \in Readings,
           NEW phase, Holds(p, phase, t, now)
    PROVE  /\ attempt[t].of \in Schedules
           /\ row[attempt[t].of] \in Rows
           /\ now \in Nat
           /\ row[attempt[t].of].token = t =>
                /\ Open(t)
                /\ row[attempt[t].of].nextRun <= now
                /\ row[attempt[t].of].status # "absent"
  <1>1. attempt[t].of \in Schedules /\ row[attempt[t].of] \in Rows
    BY DEF SchedulerInv, SchedulerTypeOK, Attempts
  <1>2. now \in Nat /\ t # NoToken
    BY ReadingType, SchedulerAssumption DEF SchedulerInv
  <1>3. ASSUME row[attempt[t].of].token = t
        PROVE  Open(t) /\ row[attempt[t].of].status # "absent"
    BY <1>1, <1>2, <1>3 DEF SchedulerInv, LeaseIsOpenAttempt, SchedulerTypeOK, Absent
  <1>4. ASSUME row[attempt[t].of].token = t
        PROVE  row[attempt[t].of].nextRun <= now
    <2>1. runner[p].token = t /\ runner[p].at <= now /\ runner[p].at \in Nat
      BY DEF Holds, SchedulerInv, SchedulerTypeOK, Runners
    <2>2. row[attempt[t].of].nextRun <= runner[p].at
      BY <1>2, <1>4, <2>1 DEF SchedulerInv, HeldRuns
    <2>3. row[attempt[t].of].nextRun \in Nat
      BY <1>1 DEF Rows
    <2> QED
      BY <1>2, <2>1, <2>2, <2>3
  <1> QED
    BY <1>1, <1>2, <1>3, <1>4

\* Giving up a lease yields a row.
LEMMA ReleasedRow ==
    ASSUME NEW r \in Rows
    PROVE  /\ Released(r) \in Rows
           /\ Released(r).token = NoToken /\ Released(r).expires = 0
           /\ Released(r).status = r.status /\ Released(r).degraded = r.degraded
           /\ Released(r).lastRun = r.lastRun /\ Released(r).nextRun = r.nextRun
           /\ Released(r).failures = r.failures
  BY DEF Released, Rows

\* A completion by the holder of the lease keeps the invariant.
LEMMA CompleteInv ==
    ASSUME SchedulerInv, NEW p \in Processes, NEW t \in Tokens, NEW status \in Receipts,
           NEW r \in Rows,
           attempt[t].of \in Schedules, row[attempt[t].of].token = t,
           r.token = NoToken, r.expires = 0, r.status # "absent",
           r.lastRun # 0 => r.lastRun + Interval <= r.nextRun,
           Complete(p, t, status, r)
    PROVE  SchedulerInv'
  <1>1. Claiming \in Runners /\ Claiming.token = NoToken
    BY DEF Claiming, Runners
  <1>2. /\ runner' \in [Processes -> Runners]
        /\ \A q \in Processes : runner'[q] = runner[q] \/ runner'[q].token = NoToken
    BY <1>1 DEF Complete, SchedulerInv, SchedulerTypeOK
  <1>3. /\ row' = [row EXCEPT ![attempt[t].of] = r]
        /\ attempt' = Receipted(row[attempt[t].of].token, status)
        /\ operatorOff' \subseteq Schedules
        /\ UNCHANGED <<claimed, callbacks, clock>>
    BY DEF Complete, SchedulerInv, SchedulerTypeOK
  <1> QED
    BY <1>2, <1>3, ReleaseInv

\* The rows the completions write.
LEMMA CompletedRow ==
    ASSUME NEW r \in Rows, NEW n \in Nat, NEW m \in Nat, NEW f \in Nat,
           NEW st \in {"absent", "enabled", "disabled"}, NEW d \in Reasons
    PROVE  /\ [r EXCEPT !.lastRun = n, !.nextRun = m, !.failures = f, !.degraded = d] \in Rows
           /\ [r EXCEPT !.lastRun = n, !.nextRun = m] \in Rows
           /\ [r EXCEPT !.failures = f, !.nextRun = m] \in Rows
           /\ [r EXCEPT !.status = st, !.degraded = d, !.failures = f] \in Rows
           /\ [r EXCEPT !.failures = f] \in Rows
  BY DEF Rows

\* Each of the four completions that own their lease keeps the invariant.
LEMMA OwnedCompletionInv ==
    ASSUME SchedulerInv, NEW p \in Processes, NEW t \in Tokens, NEW now \in Readings,
           \/ CompleteSuccess(p, t, now) \/ CompleteSkipped(p, t, now)
           \/ CompleteFailure(p, t, now) \/ DegradeUnknownCallback(p, t, now)
    PROVE  SchedulerInv'
  <1> DEFINE s == attempt[t].of
             r == row[s]
  <1>1. row[s].token = t /\ \E phase : Holds(p, phase, t, now)
    BY DEF CompleteSuccess, CompleteSkipped, CompleteFailure, DegradeUnknownCallback, Owns
  <1>2. s \in Schedules /\ r \in Rows /\ now \in Nat /\ r.status # "absent"
        /\ r.nextRun <= now
    BY <1>1, HolderFacts
  <1>3. r.failures \in Nat /\ r.failures + 1 \in Nat /\ r.nextRun \in Nat /\ r.lastRun \in Nat
        /\ (r.lastRun # 0 => r.lastRun + Interval <= r.nextRun)
    BY <1>2 DEF Rows, SchedulerInv, Paced
  <1>4. Interval \in Nat /\ now + Interval \in Nat
    BY <1>2, SchedulerAssumption
  <1>5. Backoff(r.failures + 1) \in Nat
    <2> DEFINE f == r.failures
    <2>1. f \in Nat
      BY <1>3
    <2> HIDE DEF f
    <2>2. Backoff(f + 1) \in Nat
      BY <2>1, BackoffType
    <2> QED
      BY <2>2 DEF f
  <1>6. now + Backoff(r.failures + 1) \in Nat
        /\ (r.lastRun # 0 => r.lastRun + Interval <= now + Backoff(r.failures + 1))
    <2> DEFINE y == Backoff(r.failures + 1)  l == r.lastRun  n == r.nextRun
    <2>1. y \in Nat /\ l \in Nat /\ n \in Nat /\ n <= now /\ (l # 0 => l + Interval <= n)
      BY <1>2, <1>3, <1>5
    <2> HIDE DEF y, l, n
    <2>2. now + y \in Nat /\ (l # 0 => l + Interval <= now + y)
      BY <1>2, <1>4, <2>1
    <2> QED
      BY <2>2 DEF y, l, n
  <1> DEFINE b == now + Backoff(r.failures + 1)
             g == Released(r)
  <1>7. g \in Rows /\ g.token = NoToken /\ g.expires = 0 /\ g.status = r.status
        /\ g.lastRun = r.lastRun /\ g.nextRun = r.nextRun /\ g.failures = r.failures
    BY <1>2, ReleasedRow
  <1>a. b \in Nat /\ (r.lastRun # 0 => r.lastRun + Interval <= b)
    BY <1>6
  <1>b. r.failures + 1 \in Nat
    BY <1>3
  <1> DEFINE k == r.failures + 1
  <1>8. CASE CompleteSuccess(p, t, now)
    <2> DEFINE c == [g EXCEPT !.lastRun = now, !.nextRun = now + Interval,
                              !.failures = 0, !.degraded = "none"]
    <2>1. Complete(p, t, "success", c)
      BY <1>8 DEF CompleteSuccess
    <2>2. c \in Rows
      <3> DEFINE m == now + Interval
      <3>1. m \in Nat /\ 0 \in Nat /\ "none" \in Reasons
        BY <1>4, ReasonNames
      <3> HIDE DEF g, m
      <3>2. [g EXCEPT !.lastRun = now, !.nextRun = m, !.failures = 0, !.degraded = "none"]
                \in Rows
        BY <1>2, <1>7, <3>1, CompletedRow
      <3> QED
        BY <3>2 DEF m
    <2>3. c.token = NoToken /\ c.expires = 0 /\ c.status # "absent"
          /\ c.lastRun + Interval <= c.nextRun
      BY <1>2, <1>4, <1>7 DEF Rows
    <2> HIDE DEF c
    <2> QED
      BY <1>1, <1>2, <2>1, <2>2, <2>3, CompleteInv, ReceiptNames
  <1>9. CASE CompleteSkipped(p, t, now)
    <2> DEFINE c == [g EXCEPT !.lastRun = now, !.nextRun = now + Interval]
    <2>1. Complete(p, t, "skipped", c)
      BY <1>9 DEF CompleteSkipped
    <2>2. c \in Rows
      <3> HIDE DEF g
      <3> QED
        BY <1>2, <1>4, <1>7, CompletedRow, ReasonNames
    <2>3. c.token = NoToken /\ c.expires = 0 /\ c.status # "absent"
          /\ c.lastRun + Interval <= c.nextRun
      BY <1>2, <1>4, <1>7 DEF Rows
    <2> HIDE DEF c
    <2> QED
      BY <1>1, <1>2, <2>1, <2>2, <2>3, CompleteInv, ReceiptNames
  <1>10. CASE CompleteFailure(p, t, now)
    <2> DEFINE c == [g EXCEPT !.failures = k, !.nextRun = b]
    <2>1. Complete(p, t, "error", c)
      BY <1>7, <1>10 DEF CompleteFailure
    <2>2. c \in Rows
      <3> HIDE DEF b, g, k
      <3>1. k \in Nat
        BY <1>b DEF k
      <3> QED
        BY <1>a, <1>7, <3>1, CompletedRow, ReasonNames
    <2>3. c.token = NoToken /\ c.expires = 0 /\ c.status # "absent"
          /\ (c.lastRun # 0 => c.lastRun + Interval <= c.nextRun)
      BY <1>2, <1>a, <1>7 DEF Rows
    <2> HIDE DEF c
    <2> QED
      BY <1>1, <1>2, <2>1, <2>2, <2>3, CompleteInv, ReceiptNames
  <1>11. CASE DegradeUnknownCallback(p, t, now)
    <2> DEFINE c == [g EXCEPT !.status = "disabled", !.degraded = "callback",
                              !.failures = k]
    <2>1. Complete(p, t, "degraded", c)
      BY <1>7, <1>11 DEF DegradeUnknownCallback
    <2>2. c \in Rows
      <3> HIDE DEF g, k
      <3>1. k \in Nat
        BY <1>b DEF k
      <3> QED
        BY <1>7, <3>1, CompletedRow, ReasonNames
    <2>3. c.token = NoToken /\ c.expires = 0 /\ c.status # "absent"
          /\ (c.lastRun # 0 => c.lastRun + Interval <= c.nextRun)
      BY <1>3, <1>7 DEF Rows
    <2> HIDE DEF c
    <2> QED
      BY <1>1, <1>2, <2>1, <2>2, <2>3, CompleteInv, ReceiptNames
  <1> QED
    BY <1>8, <1>9, <1>10, <1>11

\* A completion that came too late keeps it: the run it belongs to is the
\* one leased, and gets its receipt now, or has its receipt already.
LEMMA CompletionRefusedInv ==
    ASSUME SchedulerInv, NEW p \in Processes, NEW t \in Tokens, NEW now \in Readings,
           CompletionRefused(p, t, now)
    PROVE  SchedulerInv'
  <1> DEFINE s == attempt[t].of
             r == row[s]
             g == Released(r)
             k == r.failures + 1
  <1>0. PICK phase : Holds(p, phase, t, now)
    BY DEF CompletionRefused
  <1>1. s \in Schedules /\ r \in Rows
        /\ (r.token = t => Open(t) /\ r.status # "absent")
    BY <1>0, HolderFacts
  <1>2. CASE r.token = t
    <2>1. g \in Rows /\ g.token = NoToken /\ g.expires = 0 /\ g.status = r.status
          /\ g.lastRun = r.lastRun /\ g.nextRun = r.nextRun /\ g.failures = r.failures
      BY <1>1, ReleasedRow
    <2> DEFINE c == [g EXCEPT !.failures = k]
    <2>2. Complete(p, t, "lease_expired", c)
      BY <1>1, <1>2, <2>1 DEF CompletionRefused, Open
    <2>3. k \in Nat
      BY <1>1 DEF Rows
    <2>4. c \in Rows
      <3> HIDE DEF g, k
      <3> QED
        BY <2>1, <2>3, CompletedRow, ReasonNames
    <2>5. c.token = NoToken /\ c.expires = 0 /\ c.status # "absent"
          /\ c.lastRun = r.lastRun /\ c.nextRun = r.nextRun
      BY <1>1, <1>2, <2>1 DEF Rows
    <2>6. c.lastRun # 0 => c.lastRun + Interval <= c.nextRun
      BY <1>1, <2>5 DEF SchedulerInv, Paced
    <2> HIDE DEF c
    <2> QED
      BY <1>1, <1>2, <2>2, <2>4, <2>5, <2>6, CompleteInv, ReceiptNames
  <1>3. CASE r.token # t
    <2>1. ~Open(t)
      BY <1>3 DEF SchedulerInv, OpenAttemptIsLeased
    <2>2. Complete(p, t, "lease_lost", r)
      BY <1>3, <2>1 DEF CompletionRefused, Open
    <2>3. row' = row /\ attempt' = attempt
      BY <1>1, <2>1, <2>2 DEF Complete, Receipted, Open, SchedulerInv, SchedulerTypeOK
    <2>4. Claiming \in Runners /\ Claiming.token = NoToken
      BY DEF Claiming, Runners
    <2>5. /\ runner' \in [Processes -> Runners]
          /\ \A q \in Processes : runner'[q] = runner[q] \/ runner'[q].token = NoToken
      BY <2>2, <2>4 DEF Complete, SchedulerInv, SchedulerTypeOK
    <2>6. UNCHANGED <<claimed, callbacks, operatorOff, clock>>
      BY <2>2 DEF Complete
    <2> QED
      BY <2>3, <2>5, <2>6, ConfigurationInv DEF SchedulerInv, SchedulerTypeOK, Paced
  <1> QED
    BY <1>2, <1>3

\* What claim_one_due finds: an enabled schedule that is due and whose lease,
\* if it has one, is over.
LEMMA SelectedFacts ==
    ASSUME SchedulerInv, NEW p \in Processes, NEW s \in Schedules, NEW now \in Readings,
           s \in Selected(p, now)
    PROVE  /\ now \in Nat /\ now > 0 /\ now <= clock
           /\ row[s] \in Rows
           /\ row[s].status = "enabled"
           /\ row[s].nextRun <= now
           /\ row[s].token # NoToken => row[s].expires <= now
  <1>1. now \in Nat /\ now > 0 /\ now <= clock
    BY ReadingType DEF SchedulerInv
  <1>2. row[s] \in Rows /\ row[s].nextRun \in Nat /\ row[s].expires \in Nat
    BY DEF SchedulerInv, SchedulerTypeOK, Rows
  <1>3. Due(s, now)
    BY DEF Selected
  <1> QED
    BY <1>1, <1>2, <1>3, IsoOrderWeak DEF Due

\* A claim keeps it: the run it evicts gets its receipt in the transaction
\* that leases the schedule to the new one.
LEMMA ClaimInv ==
    ASSUME SchedulerInv, NEW p \in Processes, NEW s \in Schedules, NEW t \in Tokens,
           NEW now \in Readings, Claim(p, s, t, now)
    PROVE  SchedulerInv'
  <1> DEFINE old == row[s].token
             f == IF Abandoned(s) THEN row[s].failures + 1 ELSE row[s].failures
             r == [row[s] EXCEPT !.token = t, !.expires = now + RunLease, !.failures = f]
             a == [of |-> s, status |-> "open"]
             e == Receipted(old, "lease_expired")
  <1>1. /\ now \in Nat /\ now > 0 /\ row[s] \in Rows /\ row[s].status = "enabled"
        /\ row[s].nextRun <= now
    BY SelectedFacts DEF Claim
  <1>2. row \in [Schedules -> Rows] /\ attempt \in [Tokens -> Attempts]
        /\ runner \in [Processes -> Runners]
    BY DEF SchedulerInv, SchedulerTypeOK
  <1>3. row' = [row EXCEPT ![s] = r]
    BY <1>2 DEF Claim
  <1>4. f \in Nat /\ now + RunLease \in Nat /\ now + RunLease # 0
    BY <1>1, SchedulerAssumption DEF Rows
  <1>5. r \in Rows /\ r.token = t /\ r.expires = now + RunLease /\ r.status = "enabled"
        /\ r.lastRun = row[s].lastRun /\ r.nextRun = row[s].nextRun
    <2> HIDE DEF f
    <2> QED
      BY <1>1, <1>4 DEF Rows
  <1>6. /\ e \in [Tokens -> Attempts]
        /\ \A u \in Tokens :
            /\ e[u].of = attempt[u].of
            /\ e[u].status = IF u = old /\ attempt[u].status = "open"
                            THEN "lease_expired" ELSE attempt[u].status
    BY ReceiptedFacts, ReceiptNames DEF SchedulerInv
  <1>7. attempt' = [e EXCEPT ![t] = a] /\ a \in Attempts
    BY DEF Claim, Attempts
  <1> HIDE DEF e, r
  <1>8. /\ attempt' \in [Tokens -> Attempts]
        /\ attempt'[t] = a
        /\ \A u \in Tokens : u # t =>
            /\ attempt'[u].of = attempt[u].of
            /\ attempt'[u].status = IF u = old /\ attempt[u].status = "open"
                                   THEN "lease_expired" ELSE attempt[u].status
    BY <1>6, <1>7
  <1>9. row' \in [Schedules -> Rows] /\ row'[s] = r
        /\ \A q \in Schedules : q # s => row'[q] = row[q]
    BY <1>2, <1>3, <1>5
  <1>10. /\ runner' \in [Processes -> Runners]
         /\ runner'[p].token = t /\ runner'[p].at = now
         /\ \A q \in Processes : q # p => runner'[q] = runner[q]
    BY <1>1, <1>2 DEF Claim, Runners
  <1>11. attempt[t].status = "unused" /\ t # NoToken
    BY SchedulerAssumption DEF Claim
  <1>12. \A u \in Tokens : attempt[u].of \in Schedules
    BY <1>2 DEF Attempts
  <1>13. SchedulerTypeOK'
    <2>1. /\ \A q \in Schedules : row'[q].token = NoToken <=> row'[q].expires = 0
          /\ \A q \in Schedules : row'[q].status = "absent" => row'[q] = Absent
      BY <1>4, <1>5, <1>9, <1>11 DEF SchedulerInv, SchedulerTypeOK
    <2>2. /\ claimed' \in [Processes -> SUBSET Schedules]
          /\ callbacks' \in [Processes -> SUBSET Schedules]
          /\ operatorOff' \subseteq Schedules /\ clock' \in Nat
      BY DEF Claim, SchedulerInv, SchedulerTypeOK
    <2>3. /\ row' \in [Schedules -> Rows] /\ attempt' \in [Tokens -> Attempts]
          /\ runner' \in [Processes -> Runners]
      BY <1>8, <1>9, <1>10
    <2> QED
      BY <2>1, <2>2, <2>3 DEF SchedulerTypeOK
  <1>14. OpenAttemptIsLeased'
    <2> SUFFICES ASSUME NEW u \in Tokens, attempt'[u].status = "open"
                 PROVE  row'[attempt'[u].of].token = u
      BY DEF OpenAttemptIsLeased, Open
    <2>1. CASE u = t
      BY <1>5, <1>8, <1>9, <2>1
    <2>2. CASE u # t
      <3>1. attempt[u].status = "open" /\ u # old /\ attempt'[u].of = attempt[u].of
        BY <1>8, <2>2
      <3>2. row[attempt[u].of].token = u
        BY <3>1 DEF SchedulerInv, OpenAttemptIsLeased, Open
      <3> QED
        BY <1>9, <1>12, <3>1, <3>2
    <2> QED
      BY <2>1, <2>2
  <1>15. LeaseIsOpenAttempt'
    <2> SUFFICES ASSUME NEW q \in Schedules, row'[q].token # NoToken
                 PROVE  attempt'[row'[q].token].status = "open"
                        /\ attempt'[row'[q].token].of = q
      BY DEF LeaseIsOpenAttempt, Open
    <2>1. CASE q = s
      BY <1>5, <1>8, <1>9, <2>1
    <2>2. CASE q # s
      <3>1. row'[q] = row[q] /\ row[q].token \in Tokens
        BY <1>2, <1>9, <2>2 DEF Rows
      <3>2. attempt[row[q].token].status = "open" /\ attempt[row[q].token].of = q
        BY <3>1 DEF SchedulerInv, LeaseIsOpenAttempt, Open
      <3>3. row[q].token # t /\ row[q].token # old
        BY <1>11, <2>2, <3>1, <3>2 DEF SchedulerInv, LeaseIsOpenAttempt, Open
      <3> QED
        BY <1>8, <3>1, <3>2, <3>3
    <2> QED
      BY <2>1, <2>2
  <1>16. Paced'
    BY <1>5, <1>9 DEF SchedulerInv, Paced
  <1>17. HeldRuns'
    <2> SUFFICES ASSUME NEW q \in Processes, runner'[q].token # NoToken
                 PROVE  /\ attempt'[runner'[q].token].status # "unused"
                        /\ row'[attempt'[runner'[q].token].of].token = runner'[q].token
                            => row'[attempt'[runner'[q].token].of].nextRun <= runner'[q].at
      BY DEF HeldRuns
    <2>1. CASE q = p
      BY <1>1, <1>5, <1>8, <1>9, <1>10, <2>1
    <2>2. CASE q # p
      <3> DEFINE u == runner[q].token
      <3>1. runner'[q] = runner[q] /\ u \in Tokens /\ u # NoToken
        BY <1>2, <1>10, <2>2 DEF Runners
      <3>2. attempt[u].status # "unused"
            /\ (row[attempt[u].of].token = u => row[attempt[u].of].nextRun <= runner[q].at)
        BY <3>1 DEF SchedulerInv, HeldRuns
      <3>3. u # t
        BY <1>11, <3>2
      <3>4. attempt'[u].of = attempt[u].of /\ attempt'[u].status # "unused"
        BY <1>8, <3>1, <3>2, <3>3
      <3>5. row'[attempt[u].of].token = u => row'[attempt[u].of] = row[attempt[u].of]
        BY <1>5, <1>9, <1>12, <3>1, <3>3
      <3> HIDE DEF u
      <3>6. runner'[q].token = u /\ runner'[q].at = runner[q].at
        BY <3>1 DEF u
      <3> QED
        BY <3>2, <3>4, <3>5, <3>6
    <2> QED
      BY <2>1, <2>2
  <1> QED
    BY <1>13, <1>14, <1>15, <1>16, <1>17 DEF SchedulerInv

-----------------------------------------------------------------------------
\* Every step of the scheduler keeps the invariant.
LEMMA SchedulerNextInv == SchedulerInv /\ [SchedulerNext]_schedulerVars => SchedulerInv'
  <1> SUFFICES ASSUME SchedulerInv, [SchedulerNext]_schedulerVars PROVE SchedulerInv'
    OBVIOUS
  <1>1. CASE UNCHANGED schedulerVars
    BY <1>1, ConfigurationInv DEF schedulerVars, SchedulerInv, SchedulerTypeOK, Paced
  <1>2. CASE \E p \in Processes : ProcessStep(p)
    <2> PICK p \in Processes, now \in Readings :
            \/ \E s \in Schedules, t \in Tokens : Claim(p, s, t, now)
            \/ TickEnds(p, now)
            \/ \E t \in Tokens : CompletionStep(p, t, now)
      BY <1>2 DEF ProcessStep
    <2>1. CASE \E s \in Schedules, t \in Tokens : Claim(p, s, t, now)
      BY <2>1, ClaimInv
    <2>2. CASE TickEnds(p, now)
      BY <2>2, TickInv
    <2>3. CASE \E t \in Tokens : CompletionStep(p, t, now)
      BY <2>3, OwnedCompletionInv, CompletionRefusedInv DEF CompletionStep
    <2> QED
      BY <2>1, <2>2, <2>3
  <1>3. CASE \E p \in Processes : RunAbandoned(p) \/ Restart(p)
    BY <1>3, RunAbandonedInv, RestartInv
  <1>4. CASE \E p \in Processes, s \in Schedules, now \in Readings : Register(p, s, now)
    BY <1>4, RegisterInv
  <1>5. CASE OperatorStep
    BY <1>5, SetEnabledInv, SetDisabledInv, DeleteInv, UpsertInv DEF OperatorStep
  <1>6. CASE SchedulerTick
    BY <1>6, TickInv
  <1> QED
    BY <1>1, <1>2, <1>3, <1>4, <1>5, <1>6 DEF SchedulerNext

\* SchedulerInv holds throughout every behaviour of the scheduler.
THEOREM SchedulerInvariant == SchedulerSpec => []SchedulerInv
  BY SchedulerInitInv, SchedulerNextInv, PTL DEF SchedulerSpec

\* Every table and every process keeps its shape; leases are whole.
THEOREM SchedulerTyped == SchedulerSpec => []SchedulerTypeOK
  <1>1. SchedulerInv => SchedulerTypeOK
    BY DEF SchedulerInv
  <1> QED
    BY <1>1, SchedulerInvariant, PTL

\* No claimed run is orphaned without a receipt.
THEOREM SchedulerOrphansNoRun == SchedulerSpec => []OpenAttemptIsLeased
  <1>1. SchedulerInv => OpenAttemptIsLeased
    BY DEF SchedulerInv
  <1> QED
    BY <1>1, SchedulerInvariant, PTL

\* No finished run holds a lease.
THEOREM SchedulerLeasesOpenRuns == SchedulerSpec => []LeaseIsOpenAttempt
  <1>1. SchedulerInv => LeaseIsOpenAttempt
    BY DEF SchedulerInv
  <1> QED
    BY <1>1, SchedulerInvariant, PTL

-----------------------------------------------------------------------------
\* What a step does to leases, receipts, cadence and failures: nothing, a
\* claim, or the end of the run a schedule is leased to.
LEMMA StepShape ==
    ASSUME SchedulerInv, [SchedulerNext]_schedulerVars
    PROVE  \/ /\ attempt' = attempt
              /\ \A s \in Schedules :
                    /\ row'[s].token = row[s].token
                    /\ \/ row'[s].lastRun = row[s].lastRun /\ row'[s].failures = row[s].failures
                       \/ row'[s].lastRun = 0 /\ row'[s].failures = 0 /\ row'[s].status = "absent"
           \/ \E p \in Processes, s \in Schedules, t \in Tokens, now \in Readings :
                    Claim(p, s, t, now)
           \/ \E s \in Schedules : SetDisabled(s)
           \/ \E p \in Processes, t \in Tokens, now \in Readings : CompletionStep(p, t, now)
  <1> USE DEF SchedulerInv
  <1>1. row \in [Schedules -> Rows]
        /\ \A s \in Schedules : row[s].status = "absent" => row[s] = Absent
    BY DEF SchedulerTypeOK
  <1>2. CASE UNCHANGED row /\ UNCHANGED attempt
    BY <1>2
  <1>3. CASE \E p \in Processes : Restart(p)
    <2>1. \A s \in Schedules : row'[s] = Migrated(s, row[s])
      BY <1>3 DEF Restart
    <2>2. \A s \in Schedules : /\ Migrated(s, row[s]).token = row[s].token
                              /\ Migrated(s, row[s]).lastRun = row[s].lastRun
                              /\ Migrated(s, row[s]).failures = row[s].failures
      BY <1>1 DEF Migrated, Rows
    <2>3. attempt' = attempt
      BY <1>3 DEF Restart
    <2> QED
      BY <2>1, <2>2, <2>3
  <1>4. CASE \E p \in Processes, s \in Schedules, now \in Readings : Register(p, s, now)
    <2> PICK p \in Processes, q \in Schedules, now \in Readings : Register(p, q, now)
      BY <1>4
    <2>1. \A s \in Schedules : s # q => row'[s] = row[s]
      BY <1>1 DEF Register
    <2>2. row'[q] = IF row[q].status = "absent" THEN New(now) ELSE Registered(row[q])
      BY <1>1 DEF Register
    <2>3. /\ row'[q].token = row[q].token /\ row'[q].lastRun = row[q].lastRun
          /\ row'[q].failures = row[q].failures
      <3>1. CASE row[q].status = "absent"
        BY <1>1, <2>2, <3>1 DEF New, Absent
      <3>2. CASE row[q].status # "absent"
        BY <1>1, <2>2, <3>2 DEF Registered, Rows
      <3> QED
        BY <3>1, <3>2
    <2>4. attempt' = attempt
      BY DEF Register
    <2> QED
      BY <2>1, <2>3, <2>4
  <1>5. CASE \E s \in Schedules : SetEnabled(s)
    BY <1>1, <1>5 DEF SetEnabled, Rows
  <1>6. CASE \E s \in Schedules : Delete(s)
    BY <1>1, <1>6 DEF Delete, Absent
  <1>7. CASE \E s \in Schedules, status \in {"enabled", "disabled"}, now \in Readings :
                Upsert(s, status, now)
    <2> PICK q \in Schedules, status \in {"enabled", "disabled"}, now \in Readings :
            Upsert(q, status, now)
      BY <1>7
    <2>1. \A s \in Schedules : s # q => row'[s] = row[s]
      BY <1>1 DEF Upsert
    <2>2. /\ row'[q].token = row[q].token /\ row'[q].lastRun = row[q].lastRun
          /\ row'[q].failures = row[q].failures
      BY <1>1 DEF Upsert, Rows
    <2>3. attempt' = attempt
      BY DEF Upsert
    <2> QED
      BY <2>1, <2>2, <2>3
  <1>8. CASE \E p \in Processes : ProcessStep(p)
    BY <1>2, <1>8 DEF ProcessStep, TickEnds
  <1> QED
    BY <1>2, <1>3, <1>4, <1>5, <1>6, <1>7, <1>8
    DEF SchedulerNext, OperatorStep, RunAbandoned, SchedulerTick, schedulerVars

\* What a completion does: nothing (the run was lost and has its receipt), or
\* it ends the run its schedule is leased to, as a failure or, before the
\* expiry and after the schedule was due, as a success.
LEMMA CompletionShape ==
    ASSUME SchedulerInv, NEW p \in Processes, NEW t \in Tokens, NEW now \in Readings,
           CompletionStep(p, t, now)
    PROVE  \/ row' = row /\ attempt' = attempt
           \/ \E s \in Schedules, status \in Receipts :
                /\ row[s].token = t /\ Open(t) /\ attempt[t].of = s
                /\ row'[s].token = NoToken
                /\ \A q \in Schedules : q # s => row'[q] = row[q]
                /\ attempt' = Receipted(t, status) /\ attempt'[t].status = status
                /\ \/ /\ row'[s].lastRun = row[s].lastRun
                      /\ row'[s].failures = row[s].failures + 1
                      /\ status \in Failing
                   \/ /\ row'[s].lastRun = now
                      /\ row[s].nextRun <= now
                      /\ clock < row[s].expires + MaxWait
                      /\ row'[s].failures \in {0, row[s].failures}
                      /\ status \in {"success", "skipped"}
  <1> DEFINE s == attempt[t].of
             r == row[s]
  <1>1. SchedulerTypeOK /\ row \in [Schedules -> Rows]
    BY DEF SchedulerInv, SchedulerTypeOK
  <1>2. \E phase : Holds(p, phase, t, now)
    BY DEF CompletionStep, CompleteSuccess, CompleteSkipped, CompleteFailure,
           DegradeUnknownCallback, CompletionRefused
  <1>3. s \in Schedules /\ r \in Rows /\ now \in Nat
        /\ (r.token = t => Open(t) /\ r.nextRun <= now)
    BY <1>2, HolderFacts
  <1>4. CASE r.token # t
    <2>1. ~Open(t)
      BY <1>4 DEF SchedulerInv, OpenAttemptIsLeased
    <2>2. Complete(p, t, "lease_lost", r)
      BY <1>4, <2>1 DEF CompletionStep, CompleteSuccess, CompleteSkipped, CompleteFailure,
           DegradeUnknownCallback, CompletionRefused, Owns, Open
    <2> QED
      BY <1>1, <1>3, <2>1, <2>2 DEF Complete, Receipted, Open
  <1>5. CASE r.token = t
    <2>1. ASSUME NEW c, NEW status \in Receipts, Complete(p, t, status, c)
          PROVE  /\ row'[s] = c
                 /\ \A q \in Schedules : q # s => row'[q] = row[q]
                 /\ attempt' = Receipted(t, status) /\ attempt'[t].status = status
      <3>1. attempt' = Receipted(t, status) /\ row' = [row EXCEPT ![s] = c]
        BY <2>1 DEF Complete
      <3>2. Receipted(t, status)[t].status = status
        BY <1>1, <1>3, <1>5, ReceiptedFacts DEF Open
      <3> QED
        BY <1>1, <1>3, <3>1, <3>2
    <2> DEFINE g == Released(r)
    <2>2. g \in Rows /\ g.token = NoToken /\ g.expires = 0 /\ g.status = r.status
          /\ g.lastRun = r.lastRun /\ g.nextRun = r.nextRun /\ g.failures = r.failures
      BY <1>3, ReleasedRow
    <2> HIDE DEF g
    <2>3. ASSUME Owns(t, now) PROVE clock < r.expires + MaxWait
      <3>1. now \in Nat /\ clock <= now + MaxWait /\ clock \in Nat /\ r.expires \in Nat
        BY <1>1, <1>3, ReadingType DEF SchedulerTypeOK, Rows
      <3>2. Before(now, r.expires)
        BY <2>3 DEF Owns
      <3>3. now < r.expires
        BY <3>1, <3>2, IsoOrder
      <3>4. MaxWait \in Nat
        BY ClockAssumption
      <3> QED
        BY <3>1, <3>3, <3>4
    <2>4. CASE CompleteSuccess(p, t, now)
      <3> DEFINE c == [g EXCEPT !.lastRun = now, !.nextRun = now + Interval,
                                !.failures = 0, !.degraded = "none"]
      <3>1. Complete(p, t, "success", c) /\ Owns(t, now)
        BY <2>4 DEF CompleteSuccess, g
      <3>2. c.token = NoToken /\ c.lastRun = now /\ c.failures = 0
        BY <2>2 DEF Rows
      <3> HIDE DEF c
      <3> QED
        BY <1>3, <1>5, <2>1, <2>3, <3>1, <3>2, ReceiptNames
    <2>5. CASE CompleteSkipped(p, t, now)
      <3> DEFINE c == [g EXCEPT !.lastRun = now, !.nextRun = now + Interval]
      <3>1. Complete(p, t, "skipped", c) /\ Owns(t, now)
        BY <2>5 DEF CompleteSkipped, g
      <3>2. c.token = NoToken /\ c.lastRun = now /\ c.failures = r.failures
        BY <2>2 DEF Rows
      <3> HIDE DEF c
      <3> QED
        BY <1>3, <1>5, <2>1, <2>3, <3>1, <3>2, ReceiptNames
    <2>6. CASE CompleteFailure(p, t, now)
      <3> DEFINE c == [g EXCEPT !.failures = r.failures + 1,
                                !.nextRun = now + Backoff(r.failures + 1)]
      <3>1. Complete(p, t, "error", c)
        BY <2>2, <2>6 DEF CompleteFailure, g
      <3>2. c.token = NoToken /\ c.lastRun = r.lastRun /\ c.failures = r.failures + 1
        BY <2>2 DEF Rows
      <3> HIDE DEF c
      <3> QED
        BY <1>3, <1>5, <2>1, <3>1, <3>2, ReceiptNames DEF Failing
    <2>7. CASE DegradeUnknownCallback(p, t, now)
      <3> DEFINE c == [g EXCEPT !.status = "disabled", !.degraded = "callback",
                                !.failures = r.failures + 1]
      <3>1. Complete(p, t, "degraded", c)
        BY <2>2, <2>7 DEF DegradeUnknownCallback, g
      <3>2. c.token = NoToken /\ c.lastRun = r.lastRun /\ c.failures = r.failures + 1
        BY <2>2 DEF Rows
      <3> HIDE DEF c
      <3> QED
        BY <1>3, <1>5, <2>1, <3>1, <3>2, ReceiptNames DEF Failing
    <2>8. CASE CompletionRefused(p, t, now)
      <3> DEFINE c == [g EXCEPT !.failures = r.failures + 1]
      <3>1. Complete(p, t, "lease_expired", c)
        BY <1>3, <1>5, <2>2, <2>8 DEF CompletionRefused, g, Open
      <3>2. c.token = NoToken /\ c.lastRun = r.lastRun /\ c.failures = r.failures + 1
        BY <2>2 DEF Rows
      <3> HIDE DEF c
      <3> QED
        BY <1>3, <1>5, <2>1, <3>1, <3>2, ReceiptNames DEF Failing
    <2> QED
      BY <2>4, <2>5, <2>6, <2>7, <2>8 DEF CompletionStep
  <1> QED
    BY <1>4, <1>5

\* What a claim does: one schedule passes to a new run, and the run it was
\* leased to, if any, gets the receipt that counts it as a failure.
LEMMA ClaimShape ==
    ASSUME SchedulerInv, NEW p \in Processes, NEW s \in Schedules, NEW t \in Tokens,
           NEW now \in Readings, Claim(p, s, t, now)
    PROVE  /\ \A q \in Schedules : q # s => row'[q] = row[q]
           /\ row'[s].lastRun = row[s].lastRun
           /\ row[s].token # NoToken => row[s].expires <= clock
           /\ attempt[t].status = "unused"
           /\ \A u \in Tokens \ {t} : attempt[u].status \in Receipts => attempt'[u] = attempt[u]
           /\ \/ row'[s].failures = row[s].failures
              \/ /\ row'[s].failures = row[s].failures + 1
                 /\ row[s].token \in Tokens \ {t} /\ Open(row[s].token)
                 /\ attempt[row[s].token].of = s
                 /\ attempt'[row[s].token].status = "lease_expired"
  <1>1. SchedulerTypeOK /\ row \in [Schedules -> Rows] /\ attempt \in [Tokens -> Attempts]
        /\ row[s].token \in Tokens \cup {NoToken}
    BY DEF SchedulerInv, SchedulerTypeOK, Rows
  <1>2. \A q \in Schedules : q # s => row'[q] = row[q]
    BY <1>1 DEF Claim
  <1>3. row'[s].lastRun = row[s].lastRun
        /\ row'[s].failures = IF Abandoned(s) THEN row[s].failures + 1 ELSE row[s].failures
    BY <1>1 DEF Claim, Rows
  <1>4. row[s].token # NoToken => row[s].expires <= clock
    <2>1. /\ now \in Nat /\ now <= clock /\ row[s] \in Rows
          /\ (row[s].token # NoToken => row[s].expires <= now)
      BY SelectedFacts DEF Claim
    <2>2. clock \in Nat /\ row[s].expires \in Nat
      BY <1>1, <2>1 DEF SchedulerTypeOK, Rows
    <2> QED
      BY <2>1, <2>2
  <1>5. attempt[t].status = "unused"
    BY DEF Claim
  <1> DEFINE e == Receipted(row[s].token, "lease_expired")
  <1>6. /\ e \in [Tokens -> Attempts]
        /\ \A u \in Tokens :
            /\ e[u].status = IF u = row[s].token /\ attempt[u].status = "open"
                            THEN "lease_expired" ELSE attempt[u].status
            /\ attempt[u].status # "open" => e[u] = attempt[u]
    BY <1>1, ReceiptedFacts, ReceiptNames
  <1>7. attempt' = [e EXCEPT ![t] = [of |-> s, status |-> "open"]]
    BY DEF Claim
  <1> HIDE DEF e
  <1>8. \A u \in Tokens \ {t} : attempt'[u] = e[u]
    BY <1>6, <1>7
  <1>9. \A u \in Tokens \ {t} : attempt[u].status \in Receipts => attempt'[u] = attempt[u]
    BY <1>6, <1>8, ReceiptNames
  <1>10. CASE Abandoned(s)
    <2>1. row[s].token \in Tokens \ {t} /\ Open(row[s].token) /\ attempt[row[s].token].of = s
      BY <1>1, <1>5, <1>10 DEF Abandoned, Open, SchedulerInv, LeaseIsOpenAttempt
    <2>2. attempt'[row[s].token].status = "lease_expired"
      BY <1>6, <1>8, <2>1 DEF Open
    <2> QED
      BY <1>2, <1>3, <1>4, <1>5, <1>9, <1>10, <2>1, <2>2
  <1>11. CASE ~Abandoned(s)
    BY <1>2, <1>3, <1>4, <1>5, <1>9, <1>11
  <1> QED
    BY <1>10, <1>11

-----------------------------------------------------------------------------
\* What disable does: it ends the run, if any, and counts nothing.
LEMMA DisableShape ==
    ASSUME SchedulerInv, NEW s \in Schedules, SetDisabled(s)
    PROVE  /\ \A q \in Schedules : q # s => row'[q] = row[q]
           /\ row'[s].token = NoToken /\ row'[s].lastRun = row[s].lastRun
           /\ row'[s].failures = row[s].failures
           /\ \A u \in Tokens : attempt[u].status \in Receipts => attempt'[u] = attempt[u]
  <1>1. row \in [Schedules -> Rows] /\ SchedulerTypeOK
    BY DEF SchedulerInv, SchedulerTypeOK
  <1>2. attempt' = Receipted(row[s].token, "disabled")
    BY DEF SetDisabled
  <1>3. \A u \in Tokens : attempt[u].status \in Receipts => attempt'[u] = attempt[u]
    BY <1>1, <1>2, ReceiptedFacts, ReceiptNames
  <1> QED
    BY <1>1, <1>3 DEF SetDisabled, Rows

\* A lease passes to another run only after its expiry, whoever interferes.
THEOREM SchedulerKeepsLeases == SchedulerSpec => LeaseNotStolen
  <1> DEFINE Step == \A s \in Schedules :
        /\ row[s].token # NoToken
        /\ row'[s].token \notin {row[s].token, NoToken}
        => row[s].expires <= clock
  <1>1. ASSUME SchedulerInv, [SchedulerNext]_schedulerVars PROVE Step
    <2>1. ASSUME NEW p \in Processes, NEW s \in Schedules, NEW t \in Tokens,
                 NEW now \in Readings, Claim(p, s, t, now)
          PROVE  Step
      BY <1>1, <2>1, ClaimShape
    <2>2. ASSUME NEW s \in Schedules, SetDisabled(s) PROVE Step
      BY <1>1, <2>2, DisableShape
    <2>3. ASSUME NEW p \in Processes, NEW t \in Tokens, NEW now \in Readings,
                 CompletionStep(p, t, now)
          PROVE  Step
      BY <1>1, <2>3, CompletionShape
    <2> QED
      BY <1>1, <2>1, <2>2, <2>3, StepShape
  <1> QED
    BY <1>1, SchedulerInvariant, PTL DEF SchedulerSpec, LeaseNotStolen

\* A late callback overwrites no receipt and does not advance its schedule.
THEOREM SchedulerRefusesLate == SchedulerSpec => LateCannotAdvance
  <1> DEFINE Kept == \A t \in Tokens :
                attempt[t].status \in Receipts => attempt'[t] = attempt[t]
             Earned == \A s \in Schedules :
                /\ row'[s].lastRun # row[s].lastRun
                /\ row'[s].status # "absent"
                => \E t \in Tokens :
                    /\ Open(t) /\ row[s].token = t
                    /\ clock < row[s].expires + MaxWait
                    /\ attempt'[t].status \in {"success", "skipped"}
  <1>1. ASSUME SchedulerInv, [SchedulerNext]_schedulerVars PROVE Kept /\ Earned
    <2>1. ASSUME NEW p \in Processes, NEW s \in Schedules, NEW t \in Tokens,
                 NEW now \in Readings, Claim(p, s, t, now)
          PROVE  Kept /\ Earned
      BY <1>1, <2>1, ClaimShape, ReceiptNames
    <2>2. ASSUME NEW s \in Schedules, SetDisabled(s) PROVE Kept /\ Earned
      BY <1>1, <2>2, DisableShape
    <2>3. ASSUME NEW p \in Processes, NEW t \in Tokens, NEW now \in Readings,
                 CompletionStep(p, t, now)
          PROVE  Kept /\ Earned
      <3>1. CASE row' = row /\ attempt' = attempt
        BY <3>1
      <3>2. ASSUME NEW s \in Schedules, NEW status \in Receipts,
                   /\ row[s].token = t /\ Open(t)
                   /\ \A q \in Schedules : q # s => row'[q] = row[q]
                   /\ attempt' = Receipted(t, status) /\ attempt'[t].status = status
                   /\ \/ row'[s].lastRun = row[s].lastRun
                      \/ clock < row[s].expires + MaxWait /\ status \in {"success", "skipped"}
            PROVE  Kept /\ Earned
        <4>1. Kept
          BY <1>1, <3>2, ReceiptedFacts, ReceiptNames DEF SchedulerInv
        <4>2. Earned
          BY <3>2
        <4> QED
          BY <4>1, <4>2
      <3> QED
        BY <1>1, <2>3, <3>1, <3>2, CompletionShape
    <2>4. ASSUME attempt' = attempt,
                 \A s \in Schedules : row'[s].lastRun = row[s].lastRun
                                      \/ row'[s].status = "absent"
          PROVE  Kept /\ Earned
      BY <2>4
    <2> QED
      BY <1>1, <2>1, <2>2, <2>3, <2>4, StepShape
  <1> QED
    BY <1>1, SchedulerInvariant, PTL DEF SchedulerSpec, LateCannotAdvance

\* Completed runs of a schedule lie an interval apart.
THEOREM SchedulerKeepsCadence == SchedulerSpec => CadenceHeld
  <1> DEFINE Step == \A s \in Schedules :
        /\ row[s].lastRun # 0
        /\ row'[s].lastRun \notin {0, row[s].lastRun}
        => row[s].lastRun + Interval <= row'[s].lastRun
  <1>1. ASSUME SchedulerInv, [SchedulerNext]_schedulerVars PROVE Step
    <2>1. ASSUME NEW p \in Processes, NEW s \in Schedules, NEW t \in Tokens,
                 NEW now \in Readings, Claim(p, s, t, now)
          PROVE  Step
      BY <1>1, <2>1, ClaimShape
    <2>2. ASSUME NEW s \in Schedules, SetDisabled(s) PROVE Step
      BY <1>1, <2>2, DisableShape
    <2>3. ASSUME NEW p \in Processes, NEW t \in Tokens, NEW now \in Readings,
                 CompletionStep(p, t, now)
          PROVE  Step
      <3>1. CASE row' = row
        BY <3>1
      <3>2. ASSUME NEW s \in Schedules,
                   /\ \A q \in Schedules : q # s => row'[q] = row[q]
                   /\ \/ row'[s].lastRun = row[s].lastRun
                      \/ row'[s].lastRun = now /\ row[s].nextRun <= now
            PROVE  Step
        <4>1. row[s].lastRun # 0 => row[s].lastRun + Interval <= row[s].nextRun
          BY <1>1 DEF SchedulerInv, Paced
        <4>2. row[s].lastRun \in Nat /\ row[s].nextRun \in Nat /\ now \in Nat /\ Interval \in Nat
          BY <1>1, ReadingType, SchedulerAssumption DEF SchedulerInv, SchedulerTypeOK, Rows
        <4>3. row[s].lastRun # 0 /\ row[s].nextRun <= now => row[s].lastRun + Interval <= now
          BY <4>1, <4>2
        <4> QED
          BY <3>2, <4>3
      <3> QED
        BY <1>1, <2>3, <3>1, <3>2, CompletionShape
    <2> QED
      BY <1>1, <2>1, <2>2, <2>3, StepShape
  <1> QED
    BY <1>1, SchedulerInvariant, PTL DEF SchedulerSpec, CadenceHeld

\* Each failure counted is the failing receipt of one run.
THEOREM SchedulerCountsOnce == SchedulerSpec => FailureCountedOnce
  <1> DEFINE Step == \A s \in Schedules :
        row'[s].failures > row[s].failures =>
            /\ row'[s].failures = row[s].failures + 1
            /\ \E t \in Tokens :
                /\ Open(t) /\ attempt[t].of = s
                /\ attempt'[t].status \in Failing
  <1>1. ASSUME SchedulerInv, [SchedulerNext]_schedulerVars PROVE Step
    <2>0. \A s \in Schedules : row[s].failures \in Nat
      BY <1>1 DEF SchedulerInv, SchedulerTypeOK, Rows
    <2>1. ASSUME NEW p \in Processes, NEW s \in Schedules, NEW t \in Tokens,
                 NEW now \in Readings, Claim(p, s, t, now)
          PROVE  Step
      <3>1. "lease_expired" \in Failing
        BY DEF Failing
      <3> QED
        BY <1>1, <2>0, <2>1, <3>1, ClaimShape
    <2>2. ASSUME NEW s \in Schedules, SetDisabled(s) PROVE Step
      BY <1>1, <2>0, <2>2, DisableShape
    <2>3. ASSUME NEW p \in Processes, NEW t \in Tokens, NEW now \in Readings,
                 CompletionStep(p, t, now)
          PROVE  Step
      <3>1. CASE row' = row
        BY <2>0, <3>1
      <3>2. ASSUME NEW s \in Schedules, NEW status,
                   /\ Open(t) /\ attempt[t].of = s /\ attempt'[t].status = status
                   /\ \A q \in Schedules : q # s => row'[q] = row[q]
                   /\ \/ row'[s].failures = row[s].failures + 1 /\ status \in Failing
                      \/ row'[s].failures \in {0, row[s].failures}
            PROVE  Step
        BY <2>0, <3>2
      <3> QED
        BY <1>1, <2>3, <3>1, <3>2, CompletionShape
    <2> QED
      BY <1>1, <2>0, <2>1, <2>2, <2>3, StepShape
  <1> QED
    BY <1>1, SchedulerInvariant, PTL DEF SchedulerSpec, FailureCountedOnce
=============================================================================
