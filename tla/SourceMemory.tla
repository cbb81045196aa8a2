---------------------------- MODULE SourceMemory ----------------------------
(***************************************************************************)
(* The turn ledger with the workers that project it: the claim worker      *)
(* (beliefs/source_projection.py), which has a model read each of a        *)
(* person's messages and commits what it asserts, and the vector worker    *)
(* (turns/source_vectors.py), which embeds messages into a store of its    *)
(* own (vector/store.py).  Both hold a lease on a job, read the source,    *)
(* wait for a model and come back to a ledger that may have changed.       *)
(*                                                                         *)
(* The lease of a job outlives a call of a worker that goes on working,    *)
(* and lapses at any moment once its worker is late or gone.  A worker's   *)
(* token stands for the one of its latest claim: it never holds two.       *)
(***************************************************************************)
EXTENDS SourceLedger

CONSTANTS
    Claimers,     \* claim workers
    Embedders,    \* vector workers
    Survivors,    \* workers that are neither killed nor late
    Idle,         \* a worker between jobs
    NoClaim,      \* no claim, no message
    Modes         \* how a claim may follow an earlier one

ASSUME MemoryAssumption ==
    /\ Survivors \subseteq Claimers \cup Embedders
    /\ Modes \subseteq {"correct", "inherit", "restate"}
    /\ NoClaim \notin Turns \X Messages
    /\ "" \notin Embedders

VARIABLES
    cw,           \* the claim workers
    vw,           \* the vector workers
    vectors,      \* rows of the vector store: <<turn, message, scope key>>
    deletions     \* vector_projection_deletions

workVars == <<cw, vw, vectors, deletions>>
memVars == <<ledgerVars, hostVars, projVars, workVars>>

\* The lease on t may have run out: renewed for longer than a bounded call,
\* it does not under a worker that is never late.
MayLapse(ws, js, t) ==
    ~(js[t].token \in Survivors /\ ws[js[t].token] # Idle /\ ws[js[t].token].turn = t)

\* Workers take the messages of a source in its order.
First(todo) == CHOOSE m \in todo : TRUE

Key(k) == <<k.turn, k.msg, k.basis>>

\* The turns whose attribution was corrected.
Moved == UNION {receipts[o].sources : o \in {p \in OpIds : receipts[p] # NotUsed}}

-----------------------------------------------------------------------------
(* Claims.                                                                 *)

\* subject_basis: the claim b names still grounds a subject for contact c.
Grounded(b, c) ==
    \E g \in claims :
        /\ g.basis = NoClaim /\ <<g.turn, g.msg>> = b
        /\ src[g.turn].contact = c /\ Scope(src[g.turn].env) = "person"
        /\ job[g.turn].status = "complete"
        /\ g.turn \notin invalid
        /\ \A x \in redacted : x[1] # g.turn
        /\ g.msg \in src[g.turn].msgs

\* _rows: the claims of contact c as session s may read them.
ClaimReadable(k, c, s) ==
    /\ Readable(k.turn, c, s)
    /\ k.msg \in src[k.turn].msgs
    /\ k.basis # NoClaim => Grounded(k.basis, c)

\* prior: what the model is offered to correct.
Prior(t, c, s) ==
    {Key(k) : k \in {h \in claims : h.turn # t /\ ~h.retracted /\ ClaimReadable(h, c, s)}}

\* claim_job.
ClaimJob(w, t) ==
    /\ cw[w] = Idle
    /\ Present(t)
    /\ job[t].status = "pending" \/ (job[t].status = "running" /\ MayLapse(cw, job, t))
    /\ job' = [job EXCEPT ![t] = [status |-> "running", token |-> w]]
    /\ cw' = [cw EXCEPT ![w] = [turn |-> t, contact |-> src[t].contact, msg |-> NoClaim,
                                todo |-> {m \in src[t].msgs : Role(m) = "user"}, prior |-> {}]]
    /\ UNCHANGED <<ledgerVars, hostVars, claims, vjob, vw, vectors, deletions>>

Owns(w) == job[cw[w].turn].status = "running" /\ job[cw[w].turn].token = w

\* renew_job before each model call; a worker that lost its job stops.
Ask(w) ==
    /\ cw[w] # Idle /\ cw[w].msg = NoClaim
    /\ cw[w].todo # {}
    /\ IF Owns(w)
       THEN cw' = [cw EXCEPT ![w].msg = First(cw[w].todo),
                   ![w].prior = Prior(cw[w].turn, cw[w].contact, Session(src[cw[w].turn].env))]
       ELSE cw' = [cw EXCEPT ![w] = Idle]
    /\ UNCHANGED <<ledgerVars, hostVars, projVars, vw, vectors, deletions>>

\* Mutant: the commit trusts the lease.
CurrentByLease(w) == Owns(w)

\* The message the claims were read from is still the source's.
Current(w) ==
    LET t == cw[w].turn IN
    Owns(w) /\ Present(t) /\ t \notin invalid /\ cw[w].msg \in src[t].msgs

\* Mutant: a repeated extraction writes its claim again.
CommittedAgain(w, p, how) ==
    LET t == cw[w].turn
        new == [turn |-> t, msg |-> cw[w].msg, basis |-> NoClaim, retracted |-> FALSE,
                owner |-> src[t].contact]
    IN {[k EXCEPT !.retracted = @ \/ (Key(k) = p /\ how # "restate")] : k \in {h \in claims : Key(h) # Key(new)}}
          \cup {new}

\* The claims after commit: the model asserts, or corrects the claim p it was
\* offered (a new value, or a dated change, closes p for good), and may take
\* its subject from p, with a new value or restating it.  Whatever changed
\* meanwhile is read again: a claim that would inherit from one that is gone
\* is dropped, one that would correct it is asserted.
Committed(w, p, how) ==
    LET t == cw[w].turn
        c == src[t].contact
        inherits == how \in {"inherit", "restate"}
        old == {k \in claims : Key(k) = p /\ ~k.retracted
                                 /\ ClaimReadable(k, c, Session(src[t].env))}
        closed == IF how = "restate" THEN {} ELSE old
        basis == IF ~inherits THEN NoClaim
                 ELSE IF p[3] = NoClaim THEN <<p[1], p[2]>> ELSE p[3]
        new == [turn |-> t, msg |-> cw[w].msg, basis |-> basis, retracted |-> FALSE, owner |-> c]
    IN IF \/ \E k \in claims : Key(k) = Key(new)
          \/ inherits /\ (old = {} \/ ~Grounded(basis, c))
       THEN claims
       ELSE (claims \ closed) \cup {[k EXCEPT !.retracted = TRUE] : k \in closed} \cup {new}

\* The model answers: commit.
Commit(w) ==
    /\ cw[w] # Idle /\ cw[w].msg # NoClaim
    /\ \/ ~Current(w) /\ UNCHANGED claims
       \/ Current(w) /\ claims' = Committed(w, NoClaim, "assert")
       \/ /\ Current(w)
          /\ \E p \in cw[w].prior, how \in Modes : claims' = Committed(w, p, how)
    /\ cw' = [cw EXCEPT ![w].todo = @ \ {cw[w].msg}, ![w].msg = NoClaim]
    /\ UNCHANGED <<ledgerVars, hostVars, job, vjob, vw, vectors, deletions>>

\* finish_job, by token alone.
FinishJob(w, status) ==
    /\ job' = [job EXCEPT ![cw[w].turn] =
          IF @.token = w THEN [@ EXCEPT !.status = status] ELSE @]
    /\ cw' = [cw EXCEPT ![w] = Idle]
    /\ UNCHANGED <<ledgerVars, hostVars, claims, vjob, vw, vectors, deletions>>

ClaimsDone(w) == cw[w] # Idle /\ cw[w].todo = {} /\ FinishJob(w, "complete")

\* The model fails or is not there: the job waits and is tried again.
ClaimsFail(w) == cw[w] # Idle /\ cw[w].msg # NoClaim /\ FinishJob(w, "pending")

ClaimerKilled(w) ==
    /\ cw[w] # Idle /\ w \notin Survivors
    /\ cw' = [cw EXCEPT ![w] = Idle]
    /\ UNCHANGED <<ledgerVars, hostVars, projVars, vw, vectors, deletions>>

-----------------------------------------------------------------------------
(* Vectors.  A message is one chunk, a source one batch.                   *)

\* Whose the source is and who may read it, which the id of a row is made
\* of: scope_key with the contact and the session that stand beside it.
ScopeKey(t) == [contact |-> src[t].contact, scope |-> Scope(src[t].env),
                session |-> Session(src[t].env)]

\* hydrate: the row still quotes what its source says, for its readers.
Hydrates(v) ==
    /\ Present(v[1]) /\ v[1] \notin invalid
    /\ ScopeKey(v[1]) = v[3] /\ v[2] \in src[v[1]].msgs

\* _eligible.
Eligible(v) == v \notin deletions /\ Hydrates(v)

\* Mutant: a job whose worker died is not taken over.
VectorClaimPending(w, t) ==
    /\ vw[w] = Idle
    /\ Present(t)
    /\ vjob[t].status = "pending"
    /\ vjob' = [vjob EXCEPT ![t] = [status |-> "running", token |-> w]]
    /\ vw' = [vw EXCEPT ![w] = [turn |-> t, at |-> "claimed", key |-> NoSource,
                                todo |-> {}, msg |-> NoClaim]]
    /\ UNCHANGED <<ledgerVars, hostVars, claims, job, cw, vectors, deletions>>

\* _claim.
VectorClaim(w, t) ==
    /\ vw[w] = Idle
    /\ Present(t)
    /\ vjob[t].status = "pending" \/ (vjob[t].status = "running" /\ MayLapse(vw, vjob, t))
    /\ vjob' = [vjob EXCEPT ![t] = [status |-> "running", token |-> w]]
    /\ vw' = [vw EXCEPT ![w] = [turn |-> t, at |-> "claimed", key |-> NoSource,
                                todo |-> {}, msg |-> NoClaim]]
    /\ UNCHANGED <<ledgerVars, hostVars, claims, job, cw, vectors, deletions>>

\* The source is read in a transaction of its own, then embedded.
VectorRead(w) ==
    /\ vw[w] # Idle /\ vw[w].at = "claimed"
    /\ LET t == vw[w].turn IN
       vw' = [vw EXCEPT ![w] = IF Present(t)
                 THEN [@ EXCEPT !.at = "write", !.key = ScopeKey(t), !.todo = src[t].msgs]
                 ELSE Idle]
    /\ UNCHANGED <<ledgerVars, hostVars, projVars, cw, vectors, deletions>>

Row(w, m) == <<vw[w].turn, m, vw[w].key>>

VectorCheck(w) ==
    /\ vw[w] # Idle /\ vw[w].at = "write"
    /\ vw[w].todo # {}
    /\ LET m == First(vw[w].todo) IN
       vw' = [vw EXCEPT ![w] = IF Eligible(Row(w, m))
                 THEN [@ EXCEPT !.at = "insert", !.msg = m]
                 ELSE [@ EXCEPT !.todo = vw[w].todo \ {m}]]
    /\ UNCHANGED <<ledgerVars, hostVars, projVars, cw, vectors, deletions>>

VectorInsert(w) ==
    /\ vw[w] # Idle /\ vw[w].at = "insert"
    /\ vectors' = vectors \cup {Row(w, vw[w].msg)}
    /\ vw' = [vw EXCEPT ![w].at = "check"]
    /\ UNCHANGED <<ledgerVars, hostVars, projVars, cw, deletions>>

\* Checked again after the write: what was erased meanwhile is taken out,
\* behind a tombstone of its exact id.
VectorRecheck(w) ==
    LET v == Row(w, vw[w].msg) IN
    /\ vw[w] # Idle /\ vw[w].at = "check"
    /\ IF Eligible(v) THEN UNCHANGED <<vectors, deletions>>
       ELSE vectors' = vectors \ {v} /\ deletions' = deletions \cup {v}
    /\ vw' = [vw EXCEPT ![w].at = "write", ![w].todo = @ \ {vw[w].msg}, ![w].msg = NoClaim]
    /\ UNCHANGED <<ledgerVars, hostVars, projVars, cw>>

\* Mutant: the job is finished by its id.
FinishVectorById(w, status) ==
    /\ vjob' = [vjob EXCEPT ![vw[w].turn] =
          IF @.status # "none" THEN [@ EXCEPT !.status = status] ELSE @]
    /\ vw' = [vw EXCEPT ![w] = Idle]
    /\ UNCHANGED <<ledgerVars, hostVars, claims, job, cw, vectors, deletions>>

\* _finish, by token alone.
FinishVector(w, status) ==
    /\ vjob' = [vjob EXCEPT ![vw[w].turn] =
          IF @.token = w THEN [@ EXCEPT !.status = status] ELSE @]
    /\ vw' = [vw EXCEPT ![w] = Idle]
    /\ UNCHANGED <<ledgerVars, hostVars, claims, job, cw, vectors, deletions>>

VectorDone(w) ==
    vw[w] # Idle /\ vw[w].at = "write" /\ vw[w].todo = {} /\ FinishVector(w, "complete")

\* The embedding or a write fails: the job waits and is tried again.
VectorFail(w) == vw[w] # Idle /\ vw[w].at # "claimed" /\ FinishVector(w, "pending")

EmbedderKilled(w) ==
    /\ vw[w] # Idle /\ w \notin Survivors
    /\ vw' = [vw EXCEPT ![w] = Idle]
    /\ UNCHANGED <<ledgerVars, hostVars, projVars, cw, vectors, deletions>>

\* erase_source_projections, which the forget handler calls after its commit
\* for every turn the erasure of t touched.  It may fail or come late, and
\* asking again to forget t repeats it.
Cleanup(t) ==
    LET touched == {t} \cup {x[1] : x \in {y \in redacted : y[2] = t}}
        stale == {v \in vectors : v[1] \in touched /\ ~Hydrates(v)}
    IN /\ WholeErased(rules, t)
       /\ stale # {}
       /\ vectors' = vectors \ stale
       /\ deletions' = deletions \cup stale
       /\ UNCHANGED <<ledgerVars, hostVars, projVars, cw, vw>>

-----------------------------------------------------------------------------
Init ==
    /\ LedgerInit
    /\ cw = [w \in Claimers |-> Idle]
    /\ vw = [w \in Embedders |-> Idle]
    /\ vectors = {} /\ deletions = {}

Next ==
    \/ LedgerNext /\ UNCHANGED workVars
    \/ \E w \in Claimers :
          \/ \E t \in Turns : ClaimJob(w, t)
          \/ Ask(w) \/ Commit(w) \/ ClaimsDone(w) \/ ClaimsFail(w) \/ ClaimerKilled(w)
    \/ \E w \in Embedders :
          \/ \E t \in Turns : VectorClaim(w, t)
          \/ VectorRead(w) \/ VectorCheck(w) \/ VectorInsert(w) \/ VectorRecheck(w)
          \/ VectorDone(w) \/ VectorFail(w) \/ EmbedderKilled(w)
    \/ \E t \in Turns : Cleanup(t)

Spec == Init /\ [][Next]_memVars

\* A vector worker that is not killed keeps polling and finishes what it
\* began, and the embedder and the store it calls fail only so many times.
Fairness ==
    \A w \in Embedders \cap Survivors :
       /\ \A t \in Turns : SF_memVars(VectorClaim(w, t))
       /\ WF_memVars(\/ VectorRead(w) \/ VectorCheck(w) \/ VectorInsert(w)
                     \/ VectorRecheck(w) \/ VectorDone(w))
       /\ <>[][~VectorFail(w)]_memVars

FairSpec == Spec /\ Fairness

-----------------------------------------------------------------------------
(* Properties.                                                             *)

\* Turn t has a tombstone that was left for another contact than c.
Foreign(t, c) == \E r \in rules : r.source = t /\ r.contact # c

\* What was erased stays erased.  A whole source never comes back under its
\* id, and no exact copy of an erased message is kept for that contact in
\* that session, however late it is delivered.  Three limits of the second
\* part are the code's: a source moved by a correction is not held to the
\* tombstones of its new contact, a later tombstone of a source takes over
\* the hashes of those left for another contact, and record_source refuses an
\* answer on account of what it cites without a look at older copies of its
\* words.
ErasedStaysErased ==
    \A r \in rules, t \in Turns : Present(t) =>
        /\ r.whole => r.source # t
        /\ /\ t \notin Moved
           /\ src[t].contact = r.contact /\ Session(src[t].env) = r.session
           /\ \A q \in rules : ~Foreign(q.source, q.contact)
           => \A m \in src[t].msgs :
                 r.whole \/ Role(m) # "assistant" => Hash(src[t].env, m) \notin r.hashes

\* An answer that is kept and not set aside cites sources that are there,
\* say what they said when it was written and are the same person's: the
\* erasure or correction of a source reaches every answer drawn from it,
\* the ones that were still on their way included.  Only a revision that was
\* once tombstoned for another contact can lose messages unnoticed
\* (_append_erasure keeps one tombstone of a revision, whoever's it is).
AnswersCiteLiving ==
    \A t \in Turns : Present(t) /\ t \notin invalid \cup Moved
                     /\ (\E m \in src[t].msgs : Role(m) = "assistant") =>
        \A ref \in src[t].refs : ~Foreign(ref[1], src[t].contact) =>
            /\ Present(ref[1]) /\ Version(ref[1]) = ref[2]
            /\ src[ref[1]].contact = src[t].contact

\* A claim quotes a message its source still has, was formed for the person
\* the source is attributed to, and takes its subject only from a claim that
\* is there: a model's late answer restores nothing.
ClaimsGrounded ==
    \A k \in claims :
        /\ Present(k.turn) /\ k.turn \notin invalid
        /\ k.msg \in src[k.turn].msgs
        /\ k.owner = src[k.turn].contact
        /\ k.basis # NoClaim =>
              \E g \in claims : <<g.turn, g.msg>> = k.basis /\ g.basis = NoClaim /\ g.owner = k.owner

\* The effects of a turn id run for one envelope, once, and it is the one the
\* ledger keeps under that id as long as none of it is erased.
EffectsMatchRecord ==
    \A e \in Envelopes : ran[e] > 0 \/ stage[e] = "recorded" =>
        /\ ran[e] <= 1
        /\ \A f \in Envelopes \ {e} : Env[f].turn = Env[e].turn => ran[f] = 0
        /\ Present(Env[e].turn) /\ (\A x \in redacted : x[1] # Env[e].turn)
              => src[Env[e].turn].env = e

\* A value that was corrected is not asserted again, not by the erasure of
\* its correction and not by a second reading of its message.
RetractionHolds ==
    [][\A k \in claims : k.retracted =>
          \A h \in claims' : Key(h) = Key(k) => h.retracted]_memVars

\* A source whose projection is complete can be found by each of its
\* messages.  Only a row that was deleted may be missing, and no row is
\* deleted but on account of an erasure that took something from its source,
\* or of a correction that took the source away from its contact.
ProjectedInFull ==
    \A t \in Turns : Present(t) /\ t \notin invalid /\ vjob[t].status = "complete" =>
        \A m \in src[t].msgs :
            LET v == <<t, m, ScopeKey(t)>> IN
            \/ v \in vectors
            \/ /\ v \in deletions
               /\ \/ \E x \in redacted : x[1] = t
                  \/ \E o \in OpIds : /\ receipts[o] # NotUsed /\ t \in receipts[o].sources
                                      /\ receipts[o].old = src[t].contact

\* Every source that is kept is projected in the end.
VectorsSettle ==
    \A t \in Turns : Present(t) ~> ~Present(t) \/ vjob[t].status = "complete"
=============================================================================
