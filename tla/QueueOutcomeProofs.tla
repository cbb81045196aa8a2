------------------------- MODULE QueueOutcomeProofs -------------------------
(***************************************************************************)
(* What the queue says about an attempt it says once and stands by: one    *)
(* outcome per attempt, a verified success that nothing takes back, no row *)
(* retired while something about it is open.                               *)
(*                                                                         *)
(* OutcomeInv is the inductive invariant, on top of QueueInv.  OutcomeOnce *)
(* needs to know that an attempt in hand has no outcome yet                *)
(* (InHandIsOpen), and that the attempt a quarantine closes as ambiguous   *)
(* has not been reported complete (ReportedStays) or failed                *)
(* (FailedBeforeStart).  What is open about an effect is visible in its    *)
(* row (OpenIsHeld): that is why the row may not be retired.               *)
(***************************************************************************)
EXTENDS WorkControlProofs, FiniteSetTheorems

Endings == {"complete", "failure", "ambiguous"}
\* A row nobody works on and that has not ended.
Waits(st) == st \notin Active \cup Terminal \cup {"absent"}

\* The outbox speaks of attempts that were minted.
OutboxOK ==
    /\ events \subseteq Attempts \X EventKinds
    /\ \A e \in events : of[e[1]] \in Jobs
    /\ DOMAIN result = Jobs
    /\ DOMAIN proof = Jobs
    /\ \A j \in Jobs : result[j] # NoAttempt => result[j] \in Attempts /\ of[result[j]] = j

\* The attempts of the older writer are of its rows.
LegacyIsOld == \A a \in Attempts : a <= Len(Legacy) => of[a] \in OldRows

\* The attempt a worker has in hand is the job's, without outcome or finding.
InHandIsOpen ==
    \A j \in Jobs : status[j] \in Active =>
        /\ attempt[j] \in Attempts
        /\ of[attempt[j]] = j
        /\ finding[attempt[j]] = "none"
        /\ \A k \in EventKinds : <<attempt[j], k>> \notin events
        /\ status[j] = "running" => attempt[j] \in started

\* A row that waits names no attempt, and a NEUTRAL one none that was found
\* to have done nothing.
RowNamesAttempt ==
    \A j \in Jobs :
        /\ Waits(status[j]) => attempt[j] = NoAttempt
        /\ status[j] = "neutral" /\ attempt[j] # NoAttempt =>
              /\ attempt[j] \in Attempts
              /\ of[attempt[j]] = j
              /\ finding[attempt[j]] # "not_applied"

\* One ending per attempt.
OneEnding ==
    \A a \in Attempts : \A k, l \in Endings :
        <<a, k>> \in events /\ <<a, l>> \in events => k = l

\* An effectful attempt fails without a doubt only before it started.
FailedBeforeStart ==
    \A a \in Attempts : <<a, "failure">> \in events /\ of[a] \in Effectful => a \notin started

\* An effectful job whose worker reported completion waits for evidence, or
\* has it.
ReportedStays ==
    \A a \in Attempts : <<a, "complete">> \in events =>
        /\ a \in started
        /\ of[a] \in Effectful /\ finding[a] = "none" =>
              status[of[a]] \in {"neutral", "completed"} \/ tomb[of[a]] # "none"

\* The started attempt nobody has ruled on is in hand, or its row waits for
\* evidence of it, or its worker or a verifier has vouched for it.
Vouched(a) == \E k \in {"complete", "attested"} : <<a, k>> \in events

OpenIsHeld ==
    \A j \in Effectful \ OldRows : \A a \in Unresolved(j) :
        \/ status[j] = "running" /\ attempt[j] = a
        \/ /\ status[j] = "neutral" /\ attempt[j] = a
           /\ proof[j] \in {"verify", "ambiguous"} \/ Vouched(a)
        \/ status[j] \in {"completed", "absent"} /\ Vouched(a)

\* What has been retired was delivered.
RetiredDelivered ==
    \A j \in Jobs : tomb[j] # "none" => \A e \in events : of[e[1]] = j => e \in delivered

OutcomeInv ==
    /\ OutboxOK
    /\ LegacyIsOld
    /\ InHandIsOpen
    /\ RowNamesAttempt
    /\ OneEnding
    /\ FailedBeforeStart
    /\ ReportedStays
    /\ OpenIsHeld
    /\ RetiredDelivered
    /\ AttestedIsDone

-----------------------------------------------------------------------------
(* The kinds of steps, by what they do to the rows and the outbox.          *)

\* Job k's row as the invariant sees it stays, or moves without ending an
\* attempt that may have had an effect.
Same(k) ==
    /\ status'[k] = status[k]
    /\ attempt'[k] = attempt[k]
    /\ proof'[k] = proof[k]
    /\ tomb'[k] = tomb[k]

Loose(k) ==
    /\ \/ status[k] \notin Active \cup {"neutral", "completed", "absent"}
       \/ status[k] = "absent" /\ tomb[k] = "none"
       \/ status[k] \in Active /\ ~(status[k] = "running" /\ k \in Effectful)
    /\ status'[k] \in {"queued", "blocked", "failed", "cancelled", "neutral"}
    /\ attempt'[k] = NoAttempt
    /\ tomb'[k] = tomb[k]

OthersLoose(j) == \A k \in Jobs \ {j} : Same(k) \/ Loose(k)

\* No attempt gets an outcome.
Steady ==
    /\ UNCHANGED <<ledgerVars, result, events>>
    /\ delivered \subseteq delivered'
    /\ DOMAIN proof' = Jobs
    /\ \A k \in Jobs : Same(k) \/ Loose(k)

\* The attempt in hand of job j gets its outcome, and job j the status s.
Concluded(j, kind, s) ==
    LET a == attempt[j] IN
    /\ UNCHANGED <<ledgerVars, delivered, tomb>>
    /\ DOMAIN proof' = Jobs
    /\ OthersLoose(j)
    /\ status[j] \in Active
    /\ result' = [result EXCEPT ![j] = a]
    /\ events' = events \cup {<<a, kind>>}
    /\ status'[j] = s
    /\ \/ kind = "failure" /\ s \in {"queued", "failed"}
          /\ (j \in Effectful => status[j] = "claimed")
          /\ (s = "queued" => attempt'[j] = NoAttempt)
       \/ kind = "ambiguous" /\ s = "neutral" /\ attempt'[j] = a /\ proof'[j] = "ambiguous"
          /\ j \in Effectful /\ status[j] = "running"
       \/ kind = "complete" /\ s \in {"neutral", "completed", "failed"} /\ attempt'[j] = a
          /\ status[j] = "running"
          /\ (j \in Effectful => s # "failed")

\* An unowned row is closed under the attempt that blocks it.
Quarantined(j) ==
    LET a == attempt'[j] IN
    /\ UNCHANGED <<ledgerVars, delivered, tomb>>
    /\ DOMAIN proof' = Jobs
    /\ OthersLoose(j)
    /\ Waits(status[j])
    /\ status'[j] = "neutral"
    /\ j \in Effectful
    /\ result' = [result EXCEPT ![j] = a]
    /\ \/ a \in Unresolved(j) /\ proof'[j] = "ambiguous" /\ events' = events \cup {<<a, "ambiguous">>}
       \/ a \in Exposed(j) /\ Unresolved(j) = {} /\ UNCHANGED events

\* At most one attempt of an effectful job of this version is exposed.
LEMMA OneExposed ==
    ASSUME QueueInv, LegacyIsOld, NEW j \in Effectful \ OldRows, NEW a \in Exposed(j), NEW b \in Exposed(j)
    PROVE  a = b
  <1>1. /\ a \in Attempts /\ b \in Attempts
        /\ of[a] = j /\ of[b] = j
        /\ a \in started /\ b \in started
        /\ finding[a] # "not_applied" /\ finding[b] # "not_applied"
    BY DEF Exposed, AttemptsOf
  <1>2. a \in Int /\ b \in Int
    BY <1>1, QueueAssumption DEF Attempts
  <1>3. a > Len(Legacy) /\ b > Len(Legacy)
    BY <1>1, <1>2, QueueAssumption DEF LegacyIsOld
  <1> QED
    BY <1>1, <1>2, <1>3 DEF QueueInv, NoBlindRetry, AttemptsOf

LEMMA SteadyOutcome ==
    ASSUME QueueInv, QueueInv', OutcomeInv, Steady
    PROVE  OutcomeInv'
  <1> USE DEF OutcomeInv
  <1>0. /\ UNCHANGED <<minted, of, by, started, finding, result, events>>
        /\ \A k \in Jobs : Same(k) \/ Loose(k)
        /\ \A k \in Jobs : tomb'[k] = tomb[k]
        /\ Effectful \subseteq Jobs /\ NoJob \notin Jobs
        /\ \A j : AttemptsOf(j)' = AttemptsOf(j)
        /\ \A j : Unresolved(j)' = Unresolved(j)
        /\ \A a : Vouched(a)' = Vouched(a)
    BY QueueAssumption DEF Steady, ledgerVars, Same, Loose, AttemptsOf, Unresolved, Vouched
  <1>1. OutboxOK' /\ LegacyIsOld'
    BY <1>0 DEF OutboxOK, LegacyIsOld, Steady
  <1>2. InHandIsOpen'
    BY <1>0 DEF InHandIsOpen, Same, Loose, Active
  <1>3. RowNamesAttempt'
    BY <1>0 DEF RowNamesAttempt, Same, Loose
  <1>4. OneEnding' /\ FailedBeforeStart'
    BY <1>0 DEF OneEnding, FailedBeforeStart
  <1>5. ReportedStays'
    BY <1>0 DEF ReportedStays, Same, Loose, Active
  <1>6. OpenIsHeld'
    <2>1. \A j \in Jobs : status[j] = "absent" /\ tomb[j] = "none" => Unresolved(j) = {}
      BY DEF QueueInv, RowsOK, RetiredOrNew, Unresolved
    <2> QED
      BY <1>0, <2>1 DEF OpenIsHeld, Same, Loose, Active
  <1>7. RetiredDelivered'
    BY <1>0 DEF RetiredDelivered, Steady
  <1>8. AttestedIsDone'
    BY <1>0 DEF AttestedIsDone, OutboxOK, Same, Loose, Active
  <1> QED
    BY <1>1, <1>2, <1>3, <1>4, <1>5, <1>6, <1>7, <1>8

LEMMA ConcludedOutcome ==
    ASSUME QueueInv, QueueInv', OutcomeInv, NEW j \in Jobs, NEW kind, NEW s, Concluded(j, kind, s)
    PROVE  OutcomeInv'
  <1> DEFINE a == attempt[j]
  <1> USE DEF OutcomeInv
  <1>0. /\ UNCHANGED <<minted, of, by, started, finding, delivered, tomb>>
        /\ \A k \in Jobs \ {j} : Same(k) \/ Loose(k)
        /\ Effectful \subseteq Jobs /\ NoJob \notin Jobs
        /\ \A k : Unresolved(k)' = Unresolved(k)
        /\ \A b : Vouched(b) => Vouched(b)'
        /\ NoAttempt \notin Attempts
    BY QueueAssumption DEF Concluded, OthersLoose, ledgerVars, AttemptsOf, Unresolved, Vouched,
                           NoAttempt, Attempts
  <1>1. /\ a \in Attempts /\ of[a] = j /\ finding[a] = "none"
        /\ \A k \in EventKinds : <<a, k>> \notin events
        /\ status[j] = "running" => a \in started
        /\ status[j] \in Active
    BY DEF InHandIsOpen, Concluded
  <1>2. /\ kind \in Endings
        /\ s \in {"queued", "failed", "neutral", "completed"}
        /\ status'[j] = s
        /\ result' = [result EXCEPT ![j] = a]
        /\ events' = events \cup {<<a, kind>>}
        /\ s = "queued" => attempt'[j] = NoAttempt
        /\ s = "neutral" => attempt'[j] = a
        /\ kind = "failure" /\ j \in Effectful => status[j] = "claimed"
        /\ kind = "complete" => status[j] = "running" /\ (j \in Effectful => s # "failed") /\ s # "queued"
        /\ j \in Effectful /\ status[j] = "running" =>
              \/ kind = "complete" /\ attempt'[j] = a
              \/ kind = "ambiguous" /\ s = "neutral" /\ proof'[j] = "ambiguous"
    BY DEF Concluded, Endings, Active
  <1>3. \A b : kind = "complete" /\ b = a => Vouched(b)'
    BY <1>2 DEF Vouched
  <1> HIDE DEF a
  <1>4. OutboxOK' /\ LegacyIsOld'
    BY <1>0, <1>1, <1>2 DEF OutboxOK, LegacyIsOld, Concluded, Endings, EventKinds
  <1>5. InHandIsOpen'
    BY <1>0, <1>1, <1>2 DEF InHandIsOpen, Same, Loose, Active
  <1>6. RowNamesAttempt'
    BY <1>0, <1>1, <1>2 DEF RowNamesAttempt, Same, Loose, Waits, Terminal, Active
  <1>7. OneEnding' /\ FailedBeforeStart'
    <2>1. j \in Effectful /\ kind = "failure" => a \notin started
      BY <1>2 DEF QueueInv, ClaimIsFresh, a
    <2> QED
      BY <1>0, <1>1, <1>2, <2>1 DEF OneEnding, FailedBeforeStart, Endings, EventKinds
  <1>8. ReportedStays'
    BY <1>0, <1>1, <1>2 DEF ReportedStays, Same, Loose, Active
  <1>9. OpenIsHeld'
    <2> SUFFICES ASSUME NEW k \in Effectful \ OldRows, NEW b \in Unresolved(k)
                 PROVE  \/ status'[k] = "running" /\ attempt'[k] = b
                        \/ /\ status'[k] = "neutral" /\ attempt'[k] = b
                           /\ proof'[k] \in {"verify", "ambiguous"} \/ Vouched(b)'
                        \/ status'[k] \in {"completed", "absent"} /\ Vouched(b)'
      BY <1>0 DEF OpenIsHeld
    <2>0. k \in Jobs
      BY QueueAssumption
    <2>1. \/ status[k] = "running" /\ attempt[k] = b
          \/ /\ status[k] = "neutral" /\ attempt[k] = b
             /\ proof[k] \in {"verify", "ambiguous"} \/ Vouched(b)
          \/ status[k] \in {"completed", "absent"} /\ Vouched(b)
      BY DEF OpenIsHeld
    <2>2. CASE k = j
      BY <1>1, <1>2, <1>3, <2>1, <2>2 DEF Active, a
    <2>3. CASE k # j
      <3>1. CASE Same(k)
        BY <1>0, <2>1, <3>1 DEF Same
      <3>2. CASE Loose(k)
        <4>1. status[k] = "absent" /\ tomb[k] = "none" => Unresolved(k) = {}
          BY <2>0 DEF QueueInv, RowsOK, RetiredOrNew, Unresolved
        <4> QED
          BY <2>1, <3>2, <4>1 DEF Loose, Active
      <3> QED
        BY <1>0, <2>0, <2>3, <3>1, <3>2
    <2> QED
      BY <2>2, <2>3
  <1>10. RetiredDelivered'
    <2>1. tomb[j] = "none"
      BY <1>1 DEF QueueInv, RowsOK, RetiredOrNew, Active
    <2> QED
      BY <1>0, <1>1, <1>2, <2>1 DEF RetiredDelivered
  <1>11. AttestedIsDone'
    BY <1>0, <1>1, <1>2 DEF AttestedIsDone, OutboxOK, Same, Loose, Active, Endings, EventKinds
  <1> QED
    BY <1>4, <1>5, <1>6, <1>7, <1>8, <1>9, <1>10, <1>11

LEMMA QuarantinedOutcome ==
    ASSUME QueueInv, QueueInv', OutcomeInv, NEW j \in Jobs, Quarantined(j)
    PROVE  OutcomeInv'
  <1> DEFINE a == attempt'[j]
  <1> USE DEF OutcomeInv
  <1>0. /\ UNCHANGED <<minted, of, by, started, finding, delivered, tomb>>
        /\ \A k \in Jobs \ {j} : Same(k) \/ Loose(k)
        /\ Effectful \subseteq Jobs /\ NoJob \notin Jobs
        /\ \A k : Unresolved(k)' = Unresolved(k)
        /\ \A b : Vouched(b) => Vouched(b)'
    BY QueueAssumption DEF Quarantined, OthersLoose, ledgerVars, AttemptsOf, Unresolved, Vouched
  <1>1. /\ a \in Attempts /\ of[a] = j
        /\ a \in started /\ finding[a] # "not_applied"
        /\ Waits(status[j])
        /\ status'[j] = "neutral"
        /\ j \in Effectful
        /\ result' = [result EXCEPT ![j] = a]
        /\ \/ /\ finding[a] = "none" /\ proof'[j] = "ambiguous"
              /\ events' = events \cup {<<a, "ambiguous">>}
           \/ Unresolved(j) = {} /\ UNCHANGED events
    BY DEF Quarantined, Exposed, Unresolved, AttemptsOf
  <1>2. events' # events => <<a, "failure">> \notin events /\ <<a, "complete">> \notin events
    BY <1>1 DEF FailedBeforeStart, ReportedStays, Waits, Terminal, Active, QueueInv, RowsOK, RetiredOrNew
  <1>3. tomb[j] = "none"
    BY <1>1 DEF QueueInv, RowsOK, RetiredOrNew, Waits, Terminal, Active
  <1>4. j \notin OldRows => Unresolved(j) \subseteq {a}
    <2>1. Unresolved(j) \subseteq Exposed(j) /\ a \in Exposed(j)
      BY <1>1 DEF Unresolved, Exposed, AttemptsOf
    <2> QED
      BY <1>1, <2>1, OneExposed
  <1>5. Unresolved(j) # {} => proof'[j] = "ambiguous"
    BY <1>1
  <1>6. DOMAIN proof' = Jobs
    BY DEF Quarantined
  <1> HIDE DEF a
  <1>7. OutboxOK' /\ LegacyIsOld'
    BY <1>0, <1>1, <1>6 DEF OutboxOK, LegacyIsOld, EventKinds
  <1>8. InHandIsOpen'
    BY <1>0, <1>1 DEF InHandIsOpen, Same, Loose, Active
  <1>9. RowNamesAttempt'
    BY <1>0, <1>1 DEF RowNamesAttempt, Same, Loose, Waits, Terminal, Active, a
  <1>10. OneEnding' /\ FailedBeforeStart'
    BY <1>0, <1>1, <1>2 DEF OneEnding, FailedBeforeStart, Endings
  <1>11. ReportedStays'
    BY <1>0, <1>1 DEF ReportedStays, Same, Loose, Active
  <1>12. OpenIsHeld'
    <2>1. \A k \in Jobs : status[k] = "absent" /\ tomb[k] = "none" => Unresolved(k) = {}
      BY DEF QueueInv, RowsOK, RetiredOrNew, Unresolved
    <2>2. \A k \in Effectful \ OldRows : k # j => \A b \in Unresolved(k)' :
             \/ status'[k] = "running" /\ attempt'[k] = b
             \/ /\ status'[k] = "neutral" /\ attempt'[k] = b
                /\ proof'[k] \in {"verify", "ambiguous"} \/ Vouched(b)'
             \/ status'[k] \in {"completed", "absent"} /\ Vouched(b)'
      BY <1>0, <2>1 DEF OpenIsHeld, Same, Loose, Active
    <2> QED
      BY <1>0, <1>1, <1>4, <1>5, <2>2 DEF OpenIsHeld, a
  <1>13. RetiredDelivered'
    BY <1>0, <1>1, <1>3 DEF RetiredDelivered
  <1>14. AttestedIsDone'
    BY <1>0, <1>1 DEF AttestedIsDone, OutboxOK, Same, Loose, Waits, Terminal, Active
  <1> QED
    BY <1>7, <1>8, <1>9, <1>10, <1>11, <1>12, <1>13, <1>14

LEMMA ClaimOutcome ==
    ASSUME QueueInv, QueueInv', OutcomeInv, NEW j \in Jobs, NEW w \in Workers, ClaimJob(w, j)
    PROVE  OutcomeInv'
  <1> DEFINE m == minted + 1
  <1> USE DEF OutcomeInv
  <1>0. /\ Effectful \subseteq Jobs /\ NoJob \notin Jobs
        /\ OldRows \subseteq Jobs /\ Len(Legacy) \in Nat
        /\ minted \in Nat
        /\ of \in [Attempts -> Jobs \cup {NoJob}]
        /\ started \subseteq 1..minted
        /\ \A a \in Attempts : of[a] # NoJob => a <= minted
        /\ \A a \in Attempts : finding[a] # "none" => a \in started
    BY QueueAssumption DEF QueueInv, LedgerOK
  <1>1. /\ m \in Attempts /\ m \notin started /\ of[m] = NoJob /\ finding[m] = "none"
        /\ m # NoAttempt
    BY <1>0 DEF ClaimJob, Attempts, NoAttempt
  <1>2. /\ status[j] = "queued"
        /\ status' = [status EXCEPT ![j] = "claimed"]
        /\ attempt' = [attempt EXCEPT ![j] = m]
        /\ proof' = [proof EXCEPT ![j] = proof[j]]
        /\ of' = [of EXCEPT ![m] = j]
        /\ UNCHANGED <<result, tomb, started, finding, delivered, events>>
    BY DEF ClaimJob, Claimable, SetRow
  <1>3. /\ DOMAIN status = Jobs /\ DOMAIN attempt = Jobs /\ DOMAIN proof = Jobs
        /\ tomb[j] = "none"
    BY <1>2 DEF QueueInv, RowsOK, Columns, RetiredOrNew, OutboxOK
  <1>4. \A k \in EventKinds : <<m, k>> \notin events
    BY <1>0, <1>1 DEF OutboxOK
  <1> HIDE DEF m
  <1>5. \A k \in Jobs : Unresolved(k)' = Unresolved(k)
    BY <1>0, <1>1, <1>2 DEF Unresolved, AttemptsOf
  <1>6. \A e \in events : e[1] # m /\ of'[e[1]] = of[e[1]]
    BY <1>0, <1>1, <1>2 DEF OutboxOK
  <1>7. OutboxOK' /\ LegacyIsOld'
    <2>1. LegacyIsOld'
      BY <1>0, <1>1, <1>2 DEF LegacyIsOld
    <2>2. OutboxOK'
      BY <1>0, <1>1, <1>2, <1>3, <1>6 DEF OutboxOK
    <2> QED
      BY <2>1, <2>2
  <1>8. InHandIsOpen'
    BY <1>0, <1>1, <1>2, <1>3, <1>4 DEF InHandIsOpen, Active
  <1>9. RowNamesAttempt'
    BY <1>0, <1>1, <1>2, <1>3 DEF RowNamesAttempt, Waits, Terminal, Active
  <1>10. OneEnding' /\ FailedBeforeStart'
    BY <1>0, <1>1, <1>2 DEF OneEnding, FailedBeforeStart
  <1>11. ReportedStays'
    BY <1>0, <1>1, <1>2, <1>3 DEF ReportedStays
  <1>12. OpenIsHeld'
    BY <1>0, <1>2, <1>3, <1>5 DEF OpenIsHeld, Vouched
  <1>13. RetiredDelivered'
    BY <1>2, <1>6 DEF RetiredDelivered
  <1>14. AttestedIsDone'
    BY <1>0, <1>1, <1>2, <1>3, <1>4 DEF AttestedIsDone, OutboxOK, EventKinds
  <1> QED
    BY <1>7, <1>8, <1>9, <1>10, <1>11, <1>12, <1>13, <1>14

LEMMA StartOutcome ==
    ASSUME QueueInv, QueueInv', OutcomeInv, NEW j \in Jobs, status[j] = "claimed", StartAttempt(j)
    PROVE  OutcomeInv'
  <1> DEFINE n == attempt[j]
  <1> USE DEF OutcomeInv
  <1>1. /\ n \in Attempts /\ n \notin started /\ of[n] = j /\ finding[n] = "none"
        /\ \A k \in EventKinds : <<n, k>> \notin events
        /\ j \in Effectful => Exposed(j) = {}
    BY DEF QueueInv, ClaimIsFresh, InHandIsOpen, Active
  <1>2. /\ status' = [status EXCEPT ![j] = "running"]
        /\ attempt' = [attempt EXCEPT ![j] = attempt[j]]
        /\ proof' = [proof EXCEPT ![j] = proof[j]]
        /\ started' = started \cup {n}
        /\ UNCHANGED <<of, result, tomb, finding, delivered, events>>
    BY DEF StartAttempt, SetRow
  <1>3. /\ DOMAIN status = Jobs /\ DOMAIN attempt = Jobs /\ DOMAIN proof = Jobs
        /\ tomb[j] = "none" /\ Effectful \subseteq Jobs
        /\ attempt'[j] = n
    BY <1>2, QueueAssumption DEF QueueInv, RowsOK, Columns, RetiredOrNew, OutboxOK
  <1> HIDE DEF n
  <1>4. OutboxOK' /\ LegacyIsOld'
    BY <1>2, <1>3 DEF OutboxOK, LegacyIsOld
  <1>5. InHandIsOpen'
    BY <1>1, <1>2, <1>3 DEF InHandIsOpen, Active, n
  <1>6. RowNamesAttempt'
    BY <1>2, <1>3 DEF RowNamesAttempt, Waits, Terminal, Active
  <1>7. OneEnding' /\ FailedBeforeStart'
    BY <1>1, <1>2 DEF OneEnding, FailedBeforeStart, EventKinds
  <1>8. ReportedStays'
    BY <1>1, <1>2, <1>3 DEF ReportedStays
  <1>9. OpenIsHeld'
    <2>1. \A k \in Effectful \ {j} : Unresolved(k)' = Unresolved(k)
      BY <1>1, <1>2 DEF Unresolved, AttemptsOf
    <2>2. j \in Effectful => Unresolved(j)' = {n}
      BY <1>1, <1>2 DEF Unresolved, AttemptsOf, Exposed
    <2> QED
      BY <1>2, <1>3, <2>1, <2>2 DEF OpenIsHeld, Vouched
  <1>10. RetiredDelivered' /\ AttestedIsDone'
    BY <1>2, <1>3 DEF RetiredDelivered, AttestedIsDone, OutboxOK
  <1> QED
    BY <1>4, <1>5, <1>6, <1>7, <1>8, <1>9, <1>10

LEMMA PruneOutcome ==
    ASSUME QueueInv, QueueInv', OutcomeInv, NEW j \in Jobs, Prune(j)
    PROVE  OutcomeInv'
  <1> USE DEF OutcomeInv
  <1>1. /\ status' = [status EXCEPT ![j] = "absent"]
        /\ attempt' = [attempt EXCEPT ![j] = NoAttempt]
        /\ proof' = [proof EXCEPT ![j] = "none"]
        /\ tomb' = [tomb EXCEPT ![j] = status[j]]
        /\ result' = [result EXCEPT ![j] = NoAttempt]
        /\ UNCHANGED <<of, started, finding, delivered, events>>
    BY DEF Prune, SetRow, ledgerVars
  <1>2. /\ status[j] \in Terminal \cup {"abandoned"}
        /\ ~(status[j] = "neutral" /\ proof[j] \in {"verify", "ambiguous"})
        /\ \A e \in events \ delivered : of[e[1]] # j
    BY DEF Prune, Prunable
  <1>3. /\ DOMAIN status = Jobs /\ DOMAIN attempt = Jobs /\ DOMAIN proof = Jobs
        /\ DOMAIN tomb = Jobs /\ DOMAIN result = Jobs
        /\ tomb[j] = "none" /\ Effectful \subseteq Jobs
    BY <1>2, QueueAssumption DEF QueueInv, RowsOK, Columns, RetiredOrNew, OutboxOK, Terminal
  <1>4. OutboxOK' /\ LegacyIsOld'
    BY <1>1, <1>3 DEF OutboxOK, LegacyIsOld
  <1>5. InHandIsOpen' /\ RowNamesAttempt'
    BY <1>1, <1>3 DEF InHandIsOpen, RowNamesAttempt, Active, Waits, Terminal
  <1>6. OneEnding' /\ FailedBeforeStart'
    BY <1>1 DEF OneEnding, FailedBeforeStart
  <1>7. ReportedStays'
    BY <1>1, <1>2, <1>3 DEF ReportedStays, Terminal
  <1>8. OpenIsHeld'
    <2>1. \A k : Unresolved(k)' = Unresolved(k)
      BY <1>1 DEF Unresolved, AttemptsOf
    <2>2. \A a : Vouched(a)' = Vouched(a)
      BY <1>1 DEF Vouched
    <2> QED
      BY <1>1, <1>2, <1>3, <2>1, <2>2 DEF OpenIsHeld, Terminal
  <1>9. RetiredDelivered'
    BY <1>1, <1>2, <1>3 DEF RetiredDelivered
  <1>10. AttestedIsDone'
    BY <1>1, <1>2, <1>3 DEF AttestedIsDone, OutboxOK
  <1> QED
    BY <1>4, <1>5, <1>6, <1>7, <1>8, <1>9, <1>10

\* A row that completes moves only rows that wait for it.
LEMMA CompleteRowOthers ==
    ASSUME QueueInv, OutcomeInv, NEW j \in Jobs, NEW hd, CompleteRow(j, hd), UNCHANGED tomb
    PROVE  /\ status'[j] = "completed"
           /\ attempt' = attempt
           /\ DOMAIN proof' = Jobs
           /\ OthersLoose(j)
  <1> DEFINE st == [status EXCEPT ![j] = "completed"]
             pr == [proof EXCEPT ![j] = "none"]
  <1>1. status' = Unblocked(st, pr) /\ attempt' = attempt /\ proof' = pr
    BY DEF CompleteRow
  <1>2. /\ st[j] = "completed"
        /\ \A k \in Jobs \ {j} : st[k] = status[k] /\ pr[k] = proof[k]
        /\ DOMAIN pr = Jobs
    BY DEF OutcomeInv, OutboxOK, QueueInv, RowsOK, Columns
  <1> HIDE DEF st, pr
  <1>3. \A k \in Jobs : \/ status'[k] = st[k]
                        \/ /\ st[k] = "blocked"
                           /\ status'[k] \in {"neutral", "failed", "queued", "blocked"}
    BY <1>1, UnblockedRows
  <1>4. status'[j] = "completed" /\ DOMAIN proof' = Jobs
    BY <1>1, <1>2, <1>3
  <1>5. \A k \in Jobs \ {j} : Same(k) \/ Loose(k)
    BY <1>1, <1>2, <1>3 DEF OutcomeInv, RowNamesAttempt, Same, Loose, Waits, Terminal, Active
  <1> QED
    BY <1>1, <1>4, <1>5 DEF OthersLoose

LEMMA AttestOutcome ==
    ASSUME QueueInv, QueueInv', OutcomeInv, NEW j \in Jobs, Attest(j)
    PROVE  OutcomeInv'
  <1> DEFINE a == result[j]
  <1> USE DEF OutcomeInv
  <1>0. /\ UNCHANGED <<minted, of, by, started, finding, result, delivered, tomb>>
        /\ events' = events \cup {<<a, "attested">>}
        /\ status[j] = "neutral" /\ attempt[j] = a /\ a # NoAttempt
    BY DEF Attest, ledgerVars, Enqueue
  <1>1. /\ status'[j] = "completed"
        /\ attempt' = attempt
        /\ DOMAIN proof' = Jobs
        /\ OthersLoose(j)
    BY <1>0, CompleteRowOthers DEF Attest
  <1>2. \A k \in Jobs \ {j} : Same(k) \/ Loose(k)
    BY <1>1 DEF OthersLoose
  <1>3. /\ a \in Attempts /\ of[a] = j
        /\ finding[a] # "not_applied"
        /\ tomb[j] = "none" /\ Effectful \subseteq Jobs
    BY <1>0, QueueAssumption DEF OutboxOK, RowNamesAttempt, QueueInv, RowsOK, RetiredOrNew
  <1>4. \A b : (Vouched(b) => Vouched(b)') /\ (b = a => Vouched(b)')
    BY <1>0 DEF Vouched
  <1> HIDE DEF a
  <1>5. OutboxOK' /\ LegacyIsOld'
    BY <1>0, <1>1, <1>3 DEF OutboxOK, LegacyIsOld, EventKinds
  <1>6. InHandIsOpen'
    BY <1>0, <1>1, <1>2, <1>3 DEF InHandIsOpen, Same, Loose, Active
  <1>7. RowNamesAttempt'
    BY <1>0, <1>1, <1>2 DEF RowNamesAttempt, Same, Loose, Waits, Terminal, Active
  <1>8. OneEnding' /\ FailedBeforeStart'
    BY <1>0 DEF OneEnding, FailedBeforeStart, Endings
  <1>9. ReportedStays'
    BY <1>0, <1>1, <1>2, <1>3 DEF ReportedStays, Same, Loose, Active
  <1>10. OpenIsHeld'
    <2>1. \A k : Unresolved(k)' = Unresolved(k)
      BY <1>0 DEF Unresolved, AttemptsOf
    <2>2. \A k \in Jobs : status[k] = "absent" /\ tomb[k] = "none" => Unresolved(k) = {}
      BY DEF QueueInv, RowsOK, RetiredOrNew, Unresolved
    <2>3. \A k \in Effectful \ OldRows : k # j => \A b \in Unresolved(k)' :
             \/ status'[k] = "running" /\ attempt'[k] = b
             \/ /\ status'[k] = "neutral" /\ attempt'[k] = b
                /\ proof'[k] \in {"verify", "ambiguous"} \/ Vouched(b)'
             \/ status'[k] \in {"completed", "absent"} /\ Vouched(b)'
      BY <1>2, <1>3, <1>4, <2>1, <2>2 DEF OpenIsHeld, Same, Loose, Active
    <2> QED
      BY <1>0, <1>1, <1>4, <2>1, <2>3 DEF OpenIsHeld
  <1>11. RetiredDelivered'
    BY <1>0, <1>3 DEF RetiredDelivered
  <1>12. AttestedIsDone'
    BY <1>0, <1>1, <1>2, <1>3 DEF AttestedIsDone, OutboxOK, Same, Loose, Active
  <1> QED
    BY <1>5, <1>6, <1>7, <1>8, <1>9, <1>10, <1>11, <1>12

-----------------------------------------------------------------------------
(* The newest of some attempts is one of them.                             *)

LEMMA LeastNatural ==
    ASSUME NEW T \in SUBSET Nat, T # {}
    PROVE  \E m \in T : \A n \in T : m <= n
  <1> DEFINE R == {x \in Nat \X Nat : x[1] < x[2]}
  <1>1. IsWellFoundedOn(R, Nat)
    BY NatLessThanWellFounded DEF OpToRel
  <1>2. \A x, y \in Nat : x < y => <<x, y>> \in R
    OBVIOUS
  <1> HIDE DEF R
  <1>3. PICK m \in T : \A n \in T : ~(<<n, m>> \in R)
    BY <1>1, WFMin
  <1>4. ASSUME NEW n \in T PROVE m <= n
    <2>1. m \in Nat /\ n \in Nat /\ ~(n < m)
      BY <1>2, <1>3
    <2> QED
      BY <2>1
  <1> QED
    BY <1>4

LEMMA NewestIsOne ==
    ASSUME NEW S \in SUBSET Attempts, S # {}
    PROVE  Newest(S) \in S
  <1> DEFINE T == {MaxAttempts - a : a \in S}
  <1>1. MaxAttempts \in Nat /\ \A a \in S : a \in 1..MaxAttempts
    BY QueueAssumption DEF Attempts
  <1>2. T \in SUBSET Nat /\ T # {}
    <2>1. \A a \in S : MaxAttempts - a \in Nat
      BY <1>1
    <2> QED
      BY <2>1
  <1>3. PICK m \in T : \A n \in T : m <= n
    BY <1>2, LeastNatural
  <1>4. PICK x \in S : m = MaxAttempts - x
    BY <1>3
  <1>5. ASSUME NEW b \in S PROVE b <= x
    <2>1. MaxAttempts - b \in T
      OBVIOUS
    <2> QED
      BY <1>1, <1>3, <1>4, <2>1
  <1> QED
    BY <1>5 DEF Newest

LEMMA ReconcileOutcome ==
    ASSUME QueueInv, QueueInv', OutcomeInv, NEW j \in Jobs, NEW a \in Attempts,
           NEW f \in {"applied", "not_applied"}, ReconcileEffect(j, a, f)
    PROVE  OutcomeInv'
  <1> DEFINE ran  == AttemptsOf(j) \cap started
             open == {b \in ran : finding'[b] = "none"}
             done == {b \in ran : finding'[b] = "applied"}
             held == IF open # {} THEN Newest(open) ELSE IF done # {} THEN Newest(done) ELSE a
  <1> USE DEF OutcomeInv
  <1>0. /\ finding \in [Attempts -> Findings]
        /\ DOMAIN status = Jobs /\ DOMAIN attempt = Jobs /\ DOMAIN proof = Jobs
        /\ DOMAIN result = Jobs
        /\ Effectful \subseteq Jobs /\ NoJob \notin Jobs
        /\ NoAttempt \notin Attempts
    BY QueueAssumption DEF QueueInv, LedgerOK, RowsOK, Columns, OutboxOK, NoAttempt, Attempts
  <1>1. /\ status[j] = "neutral" /\ proof[j] = "ambiguous"
        /\ a \in ran /\ finding[a] = "none"
        /\ finding' = [finding EXCEPT ![a] = f]
        /\ result' = [result EXCEPT ![j] = held]
        /\ attempt' = [attempt EXCEPT ![j] = held]
        /\ UNCHANGED <<tomb, of, started, delivered, events>>
    BY DEF ReconcileEffect, SetRow
  <1>2. \/ open # {} /\ status' = [status EXCEPT ![j] = "neutral"]
        \/ open = {} /\ done # {} /\ status' = [status EXCEPT ![j] = "neutral"]
        \/ open = {} /\ done = {} /\ status' = [status EXCEPT ![j] = "cancelled"]
    BY <1>1 DEF ReconcileEffect, SetRow
  <1>3. \E p : proof' = [proof EXCEPT ![j] = p]
    BY DEF ReconcileEffect, SetRow
  <1>4. /\ held \in ran
        /\ open # {} => held \in open
        /\ open = {} /\ done # {} => held \in done
    <2>1. open \subseteq Attempts /\ done \subseteq Attempts
      BY DEF AttemptsOf
    <2>2. (open # {} => Newest(open) \in open) /\ (done # {} => Newest(done) \in done)
      BY <2>1, NewestIsOne
    <2> HIDE DEF ran
    <2>3. open \subseteq ran /\ done \subseteq ran
      OBVIOUS
    <2> QED
      BY <1>1, <2>2, <2>3
  <1>5. ran = {b \in Attempts : of[b] = j /\ b \in started}
    BY DEF AttemptsOf
  <1> HIDE DEF held, ran
  <1>6. status'[j] = "neutral" => finding'[held] # "not_applied"
    BY <1>0, <1>2, <1>4
  <1>7. status'[j] = "cancelled" => \A b \in ran : finding'[b] # "none"
    BY <1>0, <1>2
  <1>8. /\ \A k \in Jobs \ {j} : status'[k] = status[k] /\ attempt'[k] = attempt[k] /\ proof'[k] = proof[k]
        /\ status'[j] \in {"neutral", "cancelled"}
        /\ attempt'[j] = held
        /\ DOMAIN proof' = Jobs
        /\ \A b \in Attempts : of[b] # j => finding'[b] = finding[b]
        /\ \A b \in Attempts : b # a => finding'[b] = finding[b]
        /\ a \in started /\ of[a] = j
    BY <1>0, <1>1, <1>2, <1>3, <1>5
  <1> HIDE DEF open, done
  <1>9. OutboxOK' /\ LegacyIsOld'
    BY <1>0, <1>1, <1>4, <1>5, <1>8 DEF OutboxOK, LegacyIsOld
  <1>10. InHandIsOpen'
    BY <1>1, <1>8 DEF InHandIsOpen, Active
  <1>11. RowNamesAttempt'
    <2> SUFFICES ASSUME NEW k \in Jobs
                 PROVE  /\ Waits(status'[k]) => attempt'[k] = NoAttempt
                        /\ status'[k] = "neutral" /\ attempt'[k] # NoAttempt =>
                              /\ attempt'[k] \in Attempts
                              /\ of'[attempt'[k]] = k
                              /\ finding'[attempt'[k]] # "not_applied"
      BY DEF RowNamesAttempt
    <2>1. CASE k = j
      BY <1>1, <1>4, <1>5, <1>6, <1>8, <2>1 DEF Waits, Terminal, Active
    <2>2. CASE k # j
      BY <1>1, <1>8, <2>2 DEF RowNamesAttempt
    <2> QED
      BY <2>1, <2>2
  <1>12. OneEnding' /\ FailedBeforeStart'
    BY <1>1 DEF OneEnding, FailedBeforeStart
  <1>13. ReportedStays'
    BY <1>0, <1>1, <1>5, <1>7, <1>8 DEF ReportedStays, QueueInv, RowsOK, RetiredOrNew
  <1>14. OpenIsHeld'
    <2>1. \A k \in Jobs \ {j} : Unresolved(k)' = Unresolved(k)
      BY <1>1, <1>8 DEF Unresolved, AttemptsOf
    <2>2. j \in Effectful \ OldRows => Unresolved(j)' = {}
      <3>1. a \in Exposed(j) /\ \A b \in Unresolved(j)' : b \in Exposed(j) /\ b # a
        BY <1>0, <1>1, <1>8 DEF Exposed, Unresolved, AttemptsOf
      <3> QED
        BY <3>1, OneExposed
    <2>3. \A b : Vouched(b)' = Vouched(b)
      BY <1>1 DEF Vouched
    <2>4. \A k \in Effectful \ OldRows : k # j =>
             status'[k] = status[k] /\ attempt'[k] = attempt[k] /\ proof'[k] = proof[k]
      BY <1>0, <1>8
    <2> QED
      BY <1>0, <2>1, <2>2, <2>3, <2>4 DEF OpenIsHeld
  <1>15. RetiredDelivered'
    BY <1>1 DEF RetiredDelivered
  <1>16. AttestedIsDone'
    <2>1. tomb[j] = "none"
      BY <1>1 DEF QueueInv, RowsOK, RetiredOrNew
    <2> QED
      BY <1>0, <1>1, <1>8, <2>1 DEF AttestedIsDone, OutboxOK
  <1> QED
    BY <1>9, <1>10, <1>11, <1>12, <1>13, <1>14, <1>15, <1>16

-----------------------------------------------------------------------------
(* Which kind each step is.                                                *)

\* A row is moved, and no attempt that may have had an effect is dropped.
LEMMA SetRowSteady ==
    ASSUME QueueInv, OutcomeInv, NEW j \in Jobs, NEW s, NEW h, NEW w, NEW a, NEW p,
           SetRow(j, s, h, w, a, p),
           s \in {"queued", "blocked", "failed", "cancelled"},
           \/ status[j] \notin Active \cup {"neutral", "completed", "absent"}
           \/ status[j] = "absent" /\ tomb[j] = "none"
           \/ status[j] \in Active /\ ~(status[j] = "running" /\ j \in Effectful),
           a = NoAttempt \/ (a = attempt[j] /\ Waits(status[j])),
           UNCHANGED <<ledgerVars, result, events, delivered, tomb>>
    PROVE  Steady
  <1>1. /\ DOMAIN status = Jobs /\ DOMAIN attempt = Jobs /\ DOMAIN proof = Jobs
        /\ a = NoAttempt
    BY DEF QueueInv, RowsOK, Columns, OutcomeInv, OutboxOK, RowNamesAttempt
  <1>2. /\ status'[j] = s /\ attempt'[j] = NoAttempt
        /\ DOMAIN proof' = Jobs
        /\ \A k \in Jobs \ {j} : status'[k] = status[k] /\ attempt'[k] = attempt[k] /\ proof'[k] = proof[k]
    BY <1>1 DEF SetRow
  <1>3. Loose(j)
    BY <1>2 DEF Loose
  <1>4. \A k \in Jobs \ {j} : Same(k)
    BY <1>2 DEF Same
  <1> QED
    BY <1>2, <1>3, <1>4 DEF Steady

\* The rows stay.
LEMMA RowsSteady ==
    ASSUME OutcomeInv, UNCHANGED <<rowVars, tomb, ledgerVars, result, events>>, delivered \subseteq delivered'
    PROVE  Steady
  BY DEF OutcomeInv, OutboxOK, Steady, Same, rowVars

LEMMA PostSteady ==
    ASSUME QueueInv, OutcomeInv, NEW j \in Jobs, Post(j)
    PROVE  Steady
  <1>1. \E s \in {"failed", "blocked", "queued"} : \E h, p : SetRow(j, s, h, NoWorker, NoAttempt, p)
    BY DEF Post
  <1>2. /\ status[j] = "absent" /\ tomb[j] = "none"
        /\ UNCHANGED <<ledgerVars, result, events, delivered, tomb>>
    BY DEF Post
  <1> QED
    BY <1>1, <1>2, SetRowSteady

LEMMA HoldingSteady ==
    ASSUME QueueInv, OutcomeInv, NEW j \in Jobs, NEW h,
           \/ HoldQueuedForRuntime(j) \/ HoldForMissingApproval(j)
           \/ HoldQueuedForGovernance(j, h) \/ CancelJob(j)
    PROVE  Steady
  <1>1. CASE HoldQueuedForRuntime(j)
    BY <1>1, SetRowSteady DEF HoldQueuedForRuntime, HoldUnclaimed, restVars, Waits, Terminal, Active
  <1>2. CASE HoldForMissingApproval(j)
    BY <1>2, SetRowSteady DEF HoldForMissingApproval, restVars, Waits, Terminal, Active
  <1>3. CASE HoldQueuedForGovernance(j, h)
    BY <1>3, SetRowSteady DEF HoldQueuedForGovernance, restVars, Waits, Terminal, Active
  <1>4. CASE CancelJob(j)
    BY <1>4, SetRowSteady DEF CancelJob, restVars, Terminal
  <1> QED
    BY <1>1, <1>2, <1>3, <1>4

LEMMA FenceKind ==
    ASSUME QueueInv, OutcomeInv, NEW j \in Jobs, Waits(status[j]), Fenced(j), FenceRow(j)
    PROVE  Quarantined(j)
  <1> DEFINE a == Blocking(j)
  <1>1. j \in Effectful /\ Exposed(j) # {}
    BY DEF Fenced
  <1>2. /\ Unresolved(j) # {} => a \in Unresolved(j)
        /\ Unresolved(j) = {} => a \in Exposed(j)
    <2>1. Unresolved(j) \subseteq Attempts /\ Exposed(j) \subseteq Attempts
      BY DEF Unresolved, Exposed, AttemptsOf
    <2> QED
      BY <1>1, <2>1, NewestIsOne DEF Blocking
  <1>3. /\ DOMAIN status = Jobs /\ DOMAIN attempt = Jobs /\ DOMAIN proof = Jobs
    BY DEF QueueInv, RowsOK, Columns, OutcomeInv, OutboxOK
  <1>4. \E h, p : /\ SetRow(j, "neutral", h, NoWorker, a, p)
                  /\ Unresolved(j) # {} => p = "ambiguous" /\ events' = events \cup {<<a, "ambiguous">>}
                  /\ Unresolved(j) = {} => UNCHANGED events
    BY DEF FenceRow, Enqueue
  <1>5. /\ result' = [result EXCEPT ![j] = a]
        /\ UNCHANGED <<ledgerVars, delivered, tomb>>
    BY DEF FenceRow
  <1> HIDE DEF a
  <1>6. /\ status'[j] = "neutral" /\ attempt'[j] = a
        /\ DOMAIN proof' = Jobs
        /\ Unresolved(j) # {} => proof'[j] = "ambiguous"
        /\ \A k \in Jobs \ {j} : status'[k] = status[k] /\ attempt'[k] = attempt[k] /\ proof'[k] = proof[k]
    BY <1>3, <1>4 DEF SetRow
  <1>7. OthersLoose(j)
    BY <1>5, <1>6 DEF OthersLoose, Same
  <1> QED
    BY <1>1, <1>2, <1>4, <1>5, <1>6, <1>7 DEF Quarantined

LEMMA FailKind ==
    ASSUME QueueInv, OutcomeInv, NEW j \in Jobs, status[j] \in Active, FailAttempt(j)
    PROVE  \E kind, s : Concluded(j, kind, s)
  <1> DEFINE a == attempt[j]
             ambiguous == status[j] = "running" /\ j \in Effectful
  <1>1. /\ DOMAIN status = Jobs /\ DOMAIN attempt = Jobs /\ DOMAIN proof = Jobs
    BY DEF QueueInv, RowsOK, Columns, OutcomeInv, OutboxOK
  <1>2. /\ result' = [result EXCEPT ![j] = a]
        /\ UNCHANGED <<ledgerVars, delivered, tomb>>
        /\ events' = events \cup {<<a, IF ambiguous THEN "ambiguous" ELSE "failure">>}
    BY DEF FailAttempt, Enqueue
  <1>3. \E s, h, b, p :
           /\ SetRow(j, s, h, NoWorker, b, p)
           /\ ambiguous => s = "neutral" /\ b = a /\ p = "ambiguous"
           /\ ~ambiguous => (s = "queued" /\ b = NoAttempt) \/ (s = "failed" /\ b = a)
    BY DEF FailAttempt, Requeue
  <1>4. PICK s, b, p :
           /\ status'[j] = s /\ attempt'[j] = b /\ proof'[j] = p
           /\ DOMAIN proof' = Jobs
           /\ \A k \in Jobs \ {j} : status'[k] = status[k] /\ attempt'[k] = attempt[k] /\ proof'[k] = proof[k]
           /\ ambiguous => s = "neutral" /\ b = a /\ p = "ambiguous"
           /\ ~ambiguous => (s = "queued" /\ b = NoAttempt) \/ (s = "failed" /\ b = a)
    BY <1>1, <1>3 DEF SetRow
  <1>5. OthersLoose(j)
    BY <1>2, <1>4 DEF OthersLoose, Same
  <1>6. CASE ambiguous
    <2>1. Concluded(j, "ambiguous", s)
      BY <1>2, <1>4, <1>5, <1>6 DEF Concluded
    <2> QED
      BY <2>1
  <1>7. CASE ~ambiguous
    <2>1. Concluded(j, "failure", s)
      BY <1>2, <1>4, <1>5, <1>7 DEF Concluded, Active
    <2> QED
      BY <2>1
  <1> QED
    BY <1>6, <1>7

LEMMA CompleteKind ==
    ASSUME QueueInv, OutcomeInv, NEW j \in Jobs, NEW w, NEW report, NEW attested,
           CompleteJob(w, j, attempt[j], report, attested)
    PROVE  \E kind, s : Concluded(j, kind, s)
  <1> DEFINE a == attempt[j]
             target == Completion(j, report, attested)
  <1>0. status[j] = "running" /\ status[j] \in Active
    BY DEF CompleteJob, Active
  <1>1. CASE FailAttempt(j)
    BY <1>0, <1>1, FailKind
  <1>2. CASE ~FailAttempt(j)
    <2>1. /\ result' = [result EXCEPT ![j] = a]
          /\ UNCHANGED <<ledgerVars, delivered, tomb>>
          /\ events' = events \cup {<<a, "complete">>}
      BY <1>2 DEF CompleteJob, Enqueue
    <2>2. /\ DOMAIN status = Jobs /\ DOMAIN attempt = Jobs /\ DOMAIN proof = Jobs
      BY DEF QueueInv, RowsOK, Columns, OutcomeInv, OutboxOK
    <2>3. CASE target[1] = "completed" /\ CompleteRow(j, hold)
      <3>1. /\ status'[j] = "completed"
            /\ attempt' = attempt
            /\ DOMAIN proof' = Jobs
            /\ OthersLoose(j)
        BY <2>1, <2>3, CompleteRowOthers
      <3>2. Concluded(j, "complete", "completed")
        BY <1>0, <2>1, <3>1 DEF Concluded
      <3> QED
        BY <3>2
    <2>4. CASE target[1] # "completed" /\ \E h : SetRow(j, target[1], h, NoWorker, a, target[2])
      <3>1. /\ target[1] \in {"neutral", "failed"}
            /\ j \in Effectful => target[1] # "failed"
        BY <2>4 DEF Completion
      <3> HIDE DEF target
      <3>2. /\ status'[j] = target[1] /\ attempt'[j] = a
            /\ DOMAIN proof' = Jobs
            /\ \A k \in Jobs \ {j} : status'[k] = status[k] /\ attempt'[k] = attempt[k] /\ proof'[k] = proof[k]
        BY <2>2, <2>4 DEF SetRow
      <3>3. OthersLoose(j)
        BY <2>1, <3>2 DEF OthersLoose, Same
      <3>4. Concluded(j, "complete", target[1])
        BY <1>0, <2>1, <3>1, <3>2, <3>3 DEF Concluded
      <3> QED
        BY <3>4
    <2> QED
      BY <1>2, <2>3, <2>4 DEF CompleteJob
  <1> QED
    BY <1>1, <1>2

\* The row of an attempt that had no effect goes back.
LEMMA GiveBackSteady ==
    ASSUME QueueInv, OutcomeInv, NEW j \in Jobs, status[j] \in Active,
           ~(status[j] = "running" /\ j \in Effectful),
           Requeue(j) \/ \E h : HoldUnclaimed(j, h),
           UNCHANGED <<restVars, ledgerVars, delivered, events>>
    PROVE  Steady
  BY SetRowSteady DEF Requeue, HoldUnclaimed, restVars

-----------------------------------------------------------------------------
(* The invariant is preserved, group by group.                             *)

LEMMA SubmittingOutcome ==
    ASSUME QueueInv, QueueInv', OutcomeInv, NEW j \in Jobs, Submitting(j)
    PROVE  OutcomeInv'
  BY PostSteady, HoldingSteady, SteadyOutcome DEF Submitting

LEMMA ClaimingOutcome ==
    ASSUME QueueInv, QueueInv', OutcomeInv, NEW j \in Jobs, Claiming(j)
    PROVE  OutcomeInv'
  <1>1. CASE HoldQueuedForRuntime(j) \/ HoldForMissingApproval(j)
    BY <1>1, HoldingSteady, SteadyOutcome
  <1>2. CASE \E h \in GovernorHolds : HoldQueuedForGovernance(j, h)
    BY <1>2, HoldingSteady, SteadyOutcome
  <1>3. CASE QuarantineQueued(j)
    BY <1>3, FenceKind, QuarantinedOutcome DEF QuarantineQueued, Waits, Terminal, Active
  <1>4. CASE \E w \in Workers : ClaimJob(w, j)
    BY <1>4, ClaimOutcome
  <1> QED
    BY <1>1, <1>2, <1>3, <1>4 DEF Claiming

LEMMA ReleaseOutcome ==
    ASSUME QueueInv, QueueInv', OutcomeInv, NEW j \in Jobs, NEW w, NEW a, ReleaseJob(w, j, a)
    PROVE  OutcomeInv'
  <1>1. status[j] \in Active
    BY DEF ReleaseJob, ExactClaim
  <1>2. CASE FailAttempt(j)
    BY <1>1, <1>2, FailKind, ConcludedOutcome
  <1>3. CASE ~FailAttempt(j)
    BY <1>1, <1>3, GiveBackSteady, SteadyOutcome DEF ReleaseJob
  <1> QED
    BY <1>2, <1>3

LEMMA FailJobOutcome ==
    ASSUME QueueInv, QueueInv', OutcomeInv, NEW j \in Jobs, NEW w, NEW a, FailJob(w, j, a)
    PROVE  OutcomeInv'
  BY FailKind, ConcludedOutcome DEF FailJob, ExactClaim

LEMMA WorkingOutcome ==
    ASSUME QueueInv, QueueInv', OutcomeInv, NEW j \in Jobs, NEW w \in Workers, Working(w, j)
    PROVE  OutcomeInv'
  <1>1. CASE StartJob(w, j, attempt[j])
    <2>0. status[j] = "claimed" /\ status[j] \in Active
      BY <1>1 DEF StartJob, Active
    <2>1. CASE FailAttempt(j)
      BY <2>0, <2>1, FailKind, ConcludedOutcome
    <2>2. CASE RetireClaim(j)
      BY <2>0, <2>2, GiveBackSteady, SteadyOutcome DEF RetireClaim
    <2>3. CASE StartAttempt(j)
      BY <2>0, <2>3, StartOutcome
    <2> QED
      BY <1>1, <2>1, <2>2, <2>3 DEF StartJob
  <1>2. CASE ReleaseJob(w, j, attempt[j])
    BY <1>2, ReleaseOutcome
  <1>3. CASE FailJob(w, j, attempt[j])
    BY <1>3, FailJobOutcome
  <1>4. CASE \E report \in Reports, attested \in BOOLEAN :
                CompleteJob(w, j, attempt[j], report, attested)
    BY <1>4, CompleteKind, ConcludedOutcome
  <1>5. CASE SendHeartbeat(w, j, attempt[j])
    BY <1>5, RowsSteady, SteadyOutcome DEF SendHeartbeat
  <1>6. CASE AbandonJobsForNode(w, j)
    BY <1>6, ReleaseOutcome, FailJobOutcome DEF AbandonJobsForNode
  <1> QED
    BY <1>1, <1>2, <1>3, <1>4, <1>5, <1>6 DEF Working

\* A row nobody works on is moved and keeps the attempt it names: none.
LEMMA WaitingOutcome ==
    ASSUME QueueInv, QueueInv', OutcomeInv, NEW j \in Jobs, Waits(status[j]),
           \E s \in {"queued", "blocked", "failed", "cancelled"} : \E h, w, a, p :
              SetRow(j, s, h, w, a, p) /\ a \in {NoAttempt, attempt[j]},
           UNCHANGED <<ledgerVars, result, events, delivered, tomb>>
    PROVE  OutcomeInv'
  BY SetRowSteady, SteadyOutcome DEF Waits, Terminal, Active

LEMMA SweepingOutcome ==
    ASSUME QueueInv, QueueInv', OutcomeInv, NEW j \in Jobs, Sweeping(j)
    PROVE  OutcomeInv'
  <1>1. CASE ExpirePastDeadlines(j)
    <2>1. CASE status[j] \in Active
      BY <1>1, <2>1, FailKind, ConcludedOutcome DEF ExpirePastDeadlines, Active
    <2>2. CASE status[j] \notin Active
      BY <1>1, <2>2, WaitingOutcome DEF ExpirePastDeadlines, Waits, Terminal, Active, restVars
    <2> QED
      BY <2>1, <2>2
  <1>2. CASE ExpireExecutionTimeouts(j)
    BY <1>2, FailKind, ConcludedOutcome DEF ExpireExecutionTimeouts, Active
  <1>3. CASE AbandonSilentJobs(j)
    <2>1. CASE status[j] = "claimed"
      BY <1>3, <2>1, GiveBackSteady, SteadyOutcome DEF AbandonSilentJobs, Active
    <2>2. CASE status[j] = "running"
      BY <1>3, <2>2, FailKind, ConcludedOutcome DEF AbandonSilentJobs, Active
    <2> QED
      BY <1>3, <2>1, <2>2 DEF AbandonSilentJobs
  <1>4. CASE RequeueRetryableJobs(j)
    <2>0. Waits(status[j])
      BY <1>4 DEF RequeueRetryableJobs, Waits, Terminal, Active
    <2>1. CASE Fenced(j)
      BY <1>4, <2>0, <2>1, FenceKind, QuarantinedOutcome DEF RequeueRetryableJobs
    <2>2. CASE ~Fenced(j)
      BY <1>4, <2>0, <2>2, WaitingOutcome DEF RequeueRetryableJobs, Requeue
    <2> QED
      BY <2>1, <2>2
  <1>5. CASE ExpireBlockedApprovals(j)
    BY <1>5, WaitingOutcome DEF ExpireBlockedApprovals, AwaitingOwner, Waits, Terminal, Active, restVars
  <1>6. CASE ReconcileBlockedApproval(j)
    <2>1. \E s \in {"queued", "blocked", "failed", "cancelled"} : \E h :
             SetRow(j, s, h, worker[j], attempt[j], proof[j])
      BY <1>6 DEF ReconcileBlockedApproval
    <2> QED
      BY <1>6, <2>1, WaitingOutcome DEF ReconcileBlockedApproval, AwaitingOwner, Waits, Terminal, Active
  <1>7. CASE ReconcileGovernanceHolds(j)
    BY <1>7, WaitingOutcome DEF ReconcileGovernanceHolds, Waits, Terminal, Active, restVars
  <1>8. CASE ReconcileRuntimeClaimHolds(j)
    BY <1>8, WaitingOutcome DEF ReconcileRuntimeClaimHolds, Waits, Terminal, Active, restVars
  <1> QED
    BY <1>1, <1>2, <1>3, <1>4, <1>5, <1>6, <1>7, <1>8 DEF Sweeping

LEMMA DecidingOutcome ==
    ASSUME QueueInv, QueueInv', OutcomeInv, NEW j \in Jobs, Deciding(j)
    PROVE  OutcomeInv'
  <1>1. CASE ApplyDecision(j)
    <2>0. UNCHANGED <<ledgerVars, result, events, delivered, tomb>>
      BY <1>1 DEF ApplyDecision
    <2>1. CASE UNCHANGED rowVars
      BY <2>0, <2>1, RowsSteady, SteadyOutcome
    <2>2. CASE ~(UNCHANGED rowVars)
      <3>1. /\ status[j] \notin Active \cup Terminal \cup {"absent"}
            /\ \E s \in {"queued", "blocked", "failed", "cancelled"} : \E h :
                  SetRow(j, s, h, worker[j], attempt[j], proof[j])
        BY <1>1, <2>2 DEF ApplyDecision
      <3> QED
        BY <2>0, <3>1, WaitingOutcome DEF Waits
    <2> QED
      BY <2>1, <2>2
  <1>2. CASE ~ApplyDecision(j)
    <2>1. UNCHANGED <<rowVars, tomb, ledgerVars, result, events, delivered>>
      BY <1>2 DEF Deciding, Decide, ReadDependencies, PrepareEffectAuthority, CrashHandler, SetWriter
    <2> QED
      BY <2>1, RowsSteady, SteadyOutcome
  <1> QED
    BY <1>1, <1>2

LEMMA RetiringOutcome ==
    ASSUME QueueInv, QueueInv', OutcomeInv, NEW j \in Jobs, Retiring(j)
    PROVE  OutcomeInv'
  BY AttestOutcome, PruneOutcome DEF Retiring

LEMMA UnblockingOutcome ==
    ASSUME QueueInv, QueueInv', OutcomeInv, Unblocking
    PROVE  OutcomeInv'
  <1>1. /\ \A k \in Jobs : \/ status'[k] = status[k]
                           \/ /\ status[k] = "blocked"
                              /\ status'[k] \in {"neutral", "failed", "queued", "blocked"}
        /\ UNCHANGED <<attempt, proof, tomb, ledgerVars, result, events, delivered>>
    BY UnblockedRows DEF Unblocking, UnblockReadyJobs, restVars
  <1>2. \A k \in Jobs : Same(k) \/ Loose(k)
    BY <1>1 DEF OutcomeInv, RowNamesAttempt, Same, Loose, Waits, Terminal, Active
  <1>3. Steady
    BY <1>1, <1>2 DEF Steady, OutcomeInv, OutboxOK
  <1> QED
    BY <1>3, SteadyOutcome

\* A stop that takes hold of a started effect leaves it ambiguous.
LEMMA StoppedOutcome ==
    ASSUME QueueInv, QueueInv', OutcomeInv, NEW o \in OpIds, ops[o].state = "pending", Stopped(o)
    PROVE  OutcomeInv'
  <1> DEFINE j == ops[o].job
             a == ops[o].attempt
             ambiguous == status[j] = "running" /\ Disposition(j) = "ambiguous"
  <1>1. j \in Jobs /\ status[j] \in Active /\ attempt[j] = a
    BY DEF QueueInv, RowsOK, PendingOwned
  <1>2. ambiguous <=> status[j] = "running" /\ j \in Effectful
    <2>1. status[j] = "running" => /\ a \in AttemptsOf(j) \cap started
                                   /\ a \in Unresolved(j)
      BY <1>1 DEF OutcomeInv, InHandIsOpen, AttemptsOf, Unresolved
    <2>2. status[j] = "running" => AttemptsOf(j) \cap started # {} /\ Unresolved(j) # {}
      BY <2>1
    <2> HIDE DEF j
    <2> QED
      BY <2>2 DEF Disposition
  <1>3. UNCHANGED <<ledgerVars, delivered, tomb>>
    BY DEF Stopped
  <1>4. CASE ambiguous
    <2>1. /\ SetRow(j, "neutral", "ambiguous", NoWorker, a, "ambiguous")
          /\ result' = [result EXCEPT ![j] = a]
          /\ events' = events \cup {<<a, "ambiguous">>}
      BY <1>4 DEF Stopped
    <2>2. /\ DOMAIN status = Jobs /\ DOMAIN attempt = Jobs /\ DOMAIN proof = Jobs
      BY DEF QueueInv, RowsOK, Columns, OutcomeInv, OutboxOK
    <2> HIDE DEF j, a
    <2>3. /\ status'[j] = "neutral" /\ attempt'[j] = a /\ proof'[j] = "ambiguous"
          /\ DOMAIN proof' = Jobs
          /\ \A k \in Jobs \ {j} : status'[k] = status[k] /\ attempt'[k] = attempt[k] /\ proof'[k] = proof[k]
      BY <1>1, <2>1, <2>2 DEF SetRow
    <2>4. OthersLoose(j)
      BY <1>3, <2>3 DEF OthersLoose, Same
    <2>5. Concluded(j, "ambiguous", "neutral")
      BY <1>1, <1>2, <1>3, <1>4, <2>1, <2>3, <2>4 DEF Concluded
    <2> QED
      BY <1>1, <2>5, ConcludedOutcome
  <1>5. CASE ~ambiguous
    <2>1. /\ \E s \in {"blocked", "cancelled"} : \E h, p : SetRow(j, s, h, NoWorker, NoAttempt, p)
          /\ UNCHANGED <<result, events>>
      BY <1>5 DEF Stopped, HoldUnclaimed
    <2> HIDE DEF j, a
    <2> QED
      BY <1>1, <1>2, <1>3, <1>5, <2>1, SetRowSteady, SteadyOutcome
  <1> QED
    BY <1>4, <1>5

LEMMA ControllingOutcome ==
    ASSUME QueueInv, QueueInv', OutcomeInv, NEW o \in OpIds, Controlling(o)
    PROVE  OutcomeInv'
  <1>1. CASE \E j \in Jobs : CancelNow(o, j)
    <2>1. PICK j \in Jobs : CancelNow(o, j)
      BY <1>1
    <2>2. ~(status[j] = "running" /\ j \in Effectful)
      BY <2>1 DEF CancelNow, MayCancel, CancelNeedsAck, Active
    <2>3. status[j] \in Active \cup {"queued", "blocked", "abandoned"}
      BY <2>1 DEF CancelNow, MayCancel
    <2> QED
      BY <2>1, <2>2, <2>3, SetRowSteady, SteadyOutcome DEF CancelNow, restVars
  <1>2. CASE \E j \in Jobs : Retry(o, j)
    <2>1. PICK j \in Jobs : Retry(o, j)
      BY <1>2
    <2>2. status[j] \notin Active \cup {"neutral", "completed", "absent"}
      BY <2>1 DEF Retry, MayRetry, Interrupted, Active
    <2>3. \E p : SetRow(j, "queued", "none", NoWorker, NoAttempt, p)
      BY <2>1 DEF Retry
    <2>4. UNCHANGED <<ledgerVars, result, events, delivered, tomb>>
      BY <2>1 DEF Retry
    <2> QED
      BY <2>2, <2>3, <2>4, SetRowSteady, SteadyOutcome
  <1>3. CASE ops[o].state = "pending" /\ Stopped(o)
    BY <1>3, StoppedOutcome
  <1>4. CASE /\ \A j \in Jobs : ~CancelNow(o, j) /\ ~Retry(o, j)
             /\ ~(ops[o].state = "pending" /\ Stopped(o))
    <2>1. UNCHANGED <<rowVars, tomb, ledgerVars, result, events, delivered>>
      BY <1>4 DEF Controlling, Ask, AckDeadlinePasses, RecordWorkerOutcome, Acknowledge,
                  ReconcileExpired, restVars
    <2> QED
      BY <2>1, RowsSteady, SteadyOutcome
  <1> QED
    BY <1>1, <1>2, <1>3, <1>4

LEMMA OutcomeStep ==
    ASSUME QueueInv, QueueInv', OutcomeInv, [Next]_ctlVars
    PROVE  OutcomeInv'
  <1>1. CASE UNCHANGED ctlVars
    BY <1>1, RowsSteady, SteadyOutcome DEF ctlVars, vars, restVars
  <1>2. CASE \E j \in Jobs : \/ Submitting(j) \/ Claiming(j) \/ \E w \in Workers : Working(w, j)
    BY <1>2, SubmittingOutcome, ClaimingOutcome, WorkingOutcome
  <1>3. CASE \E j \in Jobs : Sweeping(j) \/ Deciding(j) \/ Retiring(j)
    BY <1>3, SweepingOutcome, DecidingOutcome, RetiringOutcome
  <1>4. CASE \E j \in Jobs, b \in Passing : TimePassing(j, b)
    BY <1>4, RowsSteady, SteadyOutcome DEF TimePassing, TimePasses
  <1>5. CASE \E j \in Jobs : \E a \in Attempts, f \in {"applied", "not_applied"} : ReconcileEffect(j, a, f)
    BY <1>5, ReconcileOutcome
  <1>6. CASE Unblocking
    BY <1>6, UnblockingOutcome
  <1>7. CASE \E e \in events : Draining(e)
    BY <1>7, RowsSteady, SteadyOutcome DEF Draining, DrainOutcome, restVars
  <1>8. CASE \E o \in OpIds : Controlling(o)
    BY <1>8, ControllingOutcome
  <1>9. CASE \E live \in Modes : Restart(live)
    BY <1>9, RowsSteady, SteadyOutcome DEF Restart
  <1> QED
    BY <1>1, <1>2, <1>3, <1>4, <1>5, <1>6, <1>7, <1>8, <1>9 DEF Next

LEMMA OutcomeInit ==
    ASSUME Init
    PROVE  OutcomeInv
  <1>1. /\ status \in [Jobs -> {"absent", "queued", "abandoned"}]
        /\ attempt = [j \in Jobs |-> NoAttempt]
        /\ proof = [j \in Jobs |-> "none"]
        /\ result = [j \in Jobs |-> NoAttempt]
        /\ tomb = [j \in Jobs |-> "none"]
        /\ of = [a \in Attempts |-> IF a \in DOMAIN Legacy THEN Legacy[a] ELSE NoJob]
        /\ events = {}
        /\ started = DOMAIN Legacy
        /\ Effectful \subseteq Jobs /\ OldRows \subseteq Jobs /\ NoJob \notin Jobs
        /\ Legacy \in Seq(Jobs)
        /\ \A i \in DOMAIN Legacy : Legacy[i] \in OldRows
    BY QueueAssumption DEF Init, QueueInit
  <1>2. OutboxOK /\ InHandIsOpen /\ RowNamesAttempt /\ OneEnding /\ FailedBeforeStart
        /\ ReportedStays /\ RetiredDelivered /\ AttestedIsDone
    BY <1>1 DEF OutboxOK, InHandIsOpen, RowNamesAttempt, OneEnding, FailedBeforeStart,
                ReportedStays, RetiredDelivered, AttestedIsDone, Active
  <1>3. LegacyIsOld
    <2>1. \A a \in Attempts : a <= Len(Legacy) => a \in DOMAIN Legacy
      BY <1>1, QueueAssumption DEF Attempts
    <2> QED
      BY <1>1, <2>1 DEF LegacyIsOld
  <1>4. OpenIsHeld
    BY <1>1 DEF OpenIsHeld, Unresolved, AttemptsOf
  <1> QED
    BY <1>2, <1>3, <1>4 DEF OutcomeInv

-----------------------------------------------------------------------------
(* The theorems.                                                           *)

\* Rows, ledger and outbox agree about every attempt: what is in hand, what
\* was said of it and what is still open.
THEOREM QueueOutcomes == Spec => []OutcomeInv
  BY OutcomeInit, OutcomeStep, QueueInvariant, PTL DEF Spec

\* An attempt has one ending, however its report, its failure, its stop and
\* a later quarantine of its row interleave.
THEOREM QueueSpeaksOnce == Spec => []OutcomeOnce
  <1>1. OutcomeInv => OutcomeOnce
    <2> SUFFICES ASSUME OutcomeInv, NEW a \in Attempts
                 PROVE  Cardinality({k \in {"complete", "failure", "ambiguous"} : <<a, k>> \in events}) <= 1
      BY DEF OutcomeOnce
    <2> DEFINE S == {k \in {"complete", "failure", "ambiguous"} : <<a, k>> \in events}
    <2>1. \A k, l \in S : k = l
      BY DEF OutcomeInv, OneEnding, Endings
    <2>2. S = {} \/ \E k : S = {k}
      <3> HIDE DEF S
      <3> QED
        BY <2>1
    <2> HIDE DEF S
    <2>3. Cardinality(S) <= 1
      BY <2>2, FS_EmptySet, FS_Singleton
    <2> QED
      BY <2>3 DEF S
  <1> QED
    BY <1>1, QueueOutcomes, PTL

\* A verified success stands: the job stays completed and no finding says
\* that the attested attempt did nothing.
THEOREM QueueHonoursAttestation == Spec => []AttestedIsDone
  <1>1. OutcomeInv => AttestedIsDone
    BY DEF OutcomeInv
  <1> QED
    BY <1>1, QueueOutcomes, PTL

\* Nothing that is open is retired: neither an outcome the governor has not
\* recorded, nor an attempt whose effect nobody vouched for or ruled on.
THEOREM QueueRetiresSettled == Spec => []NothingOpenIsPruned
  <1>1. QueueInv /\ OutcomeInv => NothingOpenIsPruned
    BY DEF OutcomeInv, RetiredDelivered, OpenIsHeld, Vouched, QueueInv, RowsOK, RetiredOrNew,
           NothingOpenIsPruned
  <1> QED
    BY <1>1, QueueInvariant, QueueOutcomes, PTL

=============================================================================
