---------------------------- MODULE SourceLedger ----------------------------
(***************************************************************************)
(* The turn ledger (turns/idempotency.py): one SQLite database that keeps  *)
(* what participants said (turn_sources), which turns' effects have been   *)
(* reserved (turn_ingestion), the tombstones of what was erased            *)
(* (source_erasures with source_erasure_revisions) and the corrections of  *)
(* who said it (turns/source_attribution.py), with the handler of          *)
(* /turns/sync and of /memory/sources/forget around it.                    *)
(*                                                                         *)
(* A host submits envelopes.  An envelope is immutable and carries a turn  *)
(* id; two envelopes may carry the same id.  A message is a pair of a role *)
(* and a text, its hash the message with its session.  An assistant's      *)
(* message carries references <<source, version>> to the sources it was    *)
(* written from: `needs', read before the answer was generated and sent    *)
(* with it, and `inputs', the exact messages it answers, resolved when it  *)
(* is recorded.  A version is the digest of a source's messages: here the  *)
(* envelope with the messages it still has.                                *)
(***************************************************************************)
EXTENDS Naturals, FiniteSets

CONSTANTS
    Turns,        \* source ids
    Contacts,     \* participants
    Envelopes,    \* what hosts submit
    Env,          \* Env[e]: turn, contact, session, kind, msgs, needs, inputs
    NoSource,     \* no row
    NotDrafted,   \* the answer has not been generated
    OpIds,        \* corrections of attribution
    NotUsed,      \* an operation id without a receipt
    Selections    \* the sets of sources an erasure or a correction may name

Kinds == {"turn", "checkpoint", "import"}

Messages == UNION {Env[e].msgs : e \in Envelopes}
Versions == Envelopes \X SUBSET Messages

\* The rows of turn_sources.
Rows == [env : Envelopes, contact : Contacts, msgs : SUBSET Messages,
         refs : SUBSET (Turns \X Versions)]

ASSUME SourceAssumption ==
    /\ IsFiniteSet(Turns) /\ IsFiniteSet(Envelopes)
    /\ Selections \subseteq (SUBSET Turns) \ {{}}
    /\ \A e \in Envelopes :
          /\ Env[e].turn \in Turns /\ Env[e].contact \in Contacts
          /\ Env[e].kind \in Kinds
          /\ IsFiniteSet(Env[e].msgs) /\ Env[e].msgs # {}
          /\ Env[e].needs \subseteq Turns \ {Env[e].turn}
          /\ Env[e].kind # "turn" => Env[e].inputs = {}
          /\ \A in \in Env[e].inputs : in[1] \in Turns
    /\ NoSource \notin Rows
    /\ NotUsed \notin [old : Contacts, new : Contacts, sources : SUBSET Turns]

VARIABLES
    src,          \* turn_sources: the row of a turn
    rules,        \* source_erasures and their revisions
    redacted,     \* source_projection_erasures: <<turn, cause>>
    invalid,      \* source_attribution_invalidations: turns
    receipts,     \* source_attribution_operations and _revisions, by operation
    ing,          \* turn_ingestion: the envelope and state of a turn id
    draft,        \* the references an answer was generated from
    stage,        \* the handler of an envelope
    ran,          \* how often the effects of an envelope have run
    claims,       \* source_claims
    job,          \* source_claim_jobs
    vjob          \* source_vector_jobs

ledgerVars == <<src, rules, redacted, invalid, receipts>>
hostVars == <<ing, draft, stage, ran>>
projVars == <<claims, job, vjob>>

Session(e) == Env[e].session
Scope(e) == IF Env[e].kind = "checkpoint" THEN "session" ELSE "person"
Role(m) == m[1]
Hash(e, m) == <<Session(e), m>>

Present(t) == src[t] # NoSource
Version(t) == <<src[t].env, src[t].msgs>>

NoJob == [status |-> "none", token |-> ""]
Queued == [status |-> "pending", token |-> ""]

\* What contact c may read in session s: turn_sources as every reader
\* filters it.
Readable(t, c, s) ==
    /\ Present(t)
    /\ src[t].contact = c
    /\ Scope(src[t].env) = "person" \/ Session(src[t].env) = s
    /\ t \notin invalid

-----------------------------------------------------------------------------
(* Tombstones.                                                             *)

\* Mutant: only tombstones of whole sources reach the answers drawn from them.
CausesWhole(rs, c, e, m, refs) ==
    {r.source : r \in {q \in rs :
        /\ q.contact = c
        /\ \/ q.session = Session(e) /\ Hash(e, m) \in q.hashes
           \/ Role(m) = "assistant" /\ \E ref \in refs : ref[1] = q.source /\ q.whole}}

\* _erasure_causes: the erased sources on whose account message m, recorded
\* by envelope e for contact c with references refs, may not be kept.
Causes(rs, c, e, m, refs) ==
    {r.source : r \in {q \in rs :
        /\ q.contact = c
        /\ \/ q.session = Session(e) /\ Hash(e, m) \in q.hashes
           \/ /\ Role(m) = "assistant"
              /\ \E ref \in refs : ref[1] = q.source /\ (q.whole \/ ref[2] = q.version)}}

\* _retained_messages.
Retained(rs, c, e, ms, refs) == {m \in ms : Causes(rs, c, e, m, refs) = {}}

\* is_source_erased, and the check that opens record_source and correct: an
\* event that carries the turn's own id is the tombstone of a whole source.
WholeErased(rs, t) == \E r \in rs : r.source = t /\ r.whole

\* _append_erasure.
Append(rs, t, c, e, ms, removed, whole) ==
    IF \/ \E r \in rs : r.source = t /\ r.version = <<e, ms>> /\ r.whole = whole
       \/ whole /\ WholeErased(rs, t)
    THEN rs
    ELSE rs \cup {[contact |-> c, source |-> t, version |-> <<e, ms>>, whole |-> whole,
                   session |-> Session(e), scope |-> Scope(e),
                   hashes |-> (UNION {r.hashes : r \in {q \in rs : q.source = t}})
                                 \cup {Hash(e, m) : m \in removed}]}

\* erase_removed (beliefs/source_projection.py), for the turns T that still
\* have the pairs kept: claims of other messages go, and those whose subject
\* they grounded.
EraseRemoved(cs, T, kept) ==
    LET gone == {k \in cs : k.turn \in T /\ <<k.turn, k.msg>> \notin kept}
    IN {k \in cs \ gone : \A g \in gone : k.basis # <<g.turn, g.msg>>}

-----------------------------------------------------------------------------
(* record_source.                                                          *)

\* A tombstone that answers for a reference from envelope e.
Covers(r, e, s) ==
    /\ r.source = s
    /\ r.contact = Env[e].contact
    /\ r.scope = "person" \/ r.session = Session(e)

\* _resolve_input_dependencies: the version an input message was part of,
\* an erased one first.
Erasing(e, in) == {r \in rules : Covers(r, e, in[1]) /\ in[2] \in r.hashes}

InputHeld(e, in) ==
    /\ Readable(in[1], Env[e].contact, Session(e))
    /\ \E m \in src[in[1]].msgs : Role(m) = "user" /\ Hash(src[in[1]].env, m) = in[2]

InputPending(e) ==
    \E in \in Env[e].inputs : Erasing(e, in) = {} /\ ~Present(in[1])

InputInvalid(e) ==
    \E in \in Env[e].inputs :
        Erasing(e, in) = {} /\ Present(in[1]) /\ ~InputHeld(e, in)

Resolved(e) ==
    {<<in[1], IF Erasing(e, in) # {}
              THEN (CHOOSE r \in Erasing(e, in) : TRUE).version
              ELSE Version(in[1])>> : in \in Env[e].inputs}

Refs(e) ==
    IF \E m \in Env[e].msgs : Role(m) = "assistant" THEN draft[e] \cup Resolved(e) ELSE {}

\* _validate_dependencies: each reference is current, or was erased.
RefsValid(e) ==
    \A ref \in Refs(e) :
        \/ /\ Readable(ref[1], Env[e].contact, Session(e))
           /\ Version(ref[1]) = ref[2]
        \/ \E r \in rules : Covers(r, e, ref[1]) /\ r.version = ref[2]

Kept(e) == Retained(rules, Env[e].contact, e, Env[e].msgs, Refs(e))

\* Mutant: a source id may be asked for again with different evidence.
OutcomeAnyDigest(e) ==
    LET t == Env[e].turn IN
    IF WholeErased(rules, t) THEN "erased"
    ELSE IF InputPending(e) THEN "pending"
    ELSE IF InputInvalid(e) \/ ~RefsValid(e) THEN "invalid"
    ELSE IF Kept(e) = {} THEN "erased"
    ELSE IF Present(t) THEN "same" ELSE "new"

\* The way record_source ends for envelope e.  Each exception rolls back.
Outcome(e) ==
    LET t == Env[e].turn IN
    IF WholeErased(rules, t) THEN "erased"
    ELSE IF InputPending(e) THEN "pending"
    ELSE IF InputInvalid(e) \/ ~RefsValid(e) THEN "invalid"
    ELSE IF Kept(e) = {} THEN "erased"
    ELSE IF ~Present(t) THEN "new"
    ELSE IF src[t].env = e THEN "same" ELSE "conflict"

\* The committed transaction: the redaction it had to make, the row and the
\* jobs of its projections.
RecordSource(e) ==
    LET t == Env[e].turn
        c == Env[e].contact
        kept == Kept(e)
    IN /\ Outcome(e) \in {"same", "new"}
       /\ IF kept = Env[e].msgs THEN UNCHANGED <<rules, redacted>>
          ELSE /\ rules' = Append(rules, t, c, e, Env[e].msgs, Env[e].msgs \ kept, FALSE)
               /\ redacted' = redacted \cup {<<t, s>> : s \in
                     UNION {Causes(rules, c, e, m, Refs(e)) : m \in Env[e].msgs}}
       /\ IF Outcome(e) = "same" THEN UNCHANGED <<src, job, vjob>>
          ELSE /\ src' = [src EXCEPT ![t] =
                     [env |-> e, contact |-> c, msgs |-> kept, refs |-> Refs(e)]]
               /\ job' = [job EXCEPT ![t] =
                     IF @ = NoJob /\ Env[e].kind = "turn" /\ \E m \in kept : Role(m) = "user"
                     THEN Queued ELSE @]
               /\ vjob' = [vjob EXCEPT ![t] = Queued]
       /\ UNCHANGED <<invalid, receipts, claims>>

-----------------------------------------------------------------------------
(* /turns/sync: _ingest_turn_idempotently and _process_turn_sync; and the  *)
(* importer of turns/hermes_history.py.                                    *)

\* The host generates the answer of e from the sources it can read now
\* (source_references), and keeps it until it can deliver it.
Draft(e) ==
    /\ draft[e] = NotDrafted
    /\ draft' = [draft EXCEPT ![e] =
          {<<t, Version(t)>> : t \in {n \in Env[e].needs :
                                        Readable(n, Env[e].contact, Session(e))}}]
    /\ UNCHANGED <<ledgerVars, projVars, ing, stage, ran>>

\* A checkpoint, or a message of an imported history, is one transaction and
\* no effects.
RecordOnly(e) ==
    /\ Env[e].kind # "turn" /\ draft[e] # NotDrafted
    /\ RecordSource(e)
    /\ UNCHANGED hostVars

\* reserve: a turn id is bound to the first envelope that asks.  Whatever
\* else it answers (a replay, a conflict, a retry too early, an ambiguous
\* turn) changes nothing.
Reserve(e) ==
    LET t == Env[e].turn IN
    /\ Env[e].kind = "turn" /\ draft[e] # NotDrafted
    /\ ~\E r \in rules : r.source = t /\ r.whole /\ r.contact = Env[e].contact
    /\ ~InputPending(e) /\ ~InputInvalid(e)
    /\ ing[t].state = "none"
    /\ ing' = [ing EXCEPT ![t] = [env |-> e, state |-> "processing"]]
    /\ stage' = [stage EXCEPT ![e] = "reserved"]
    /\ UNCHANGED <<ledgerVars, projVars, draft, ran>>

Settle(e, state) ==
    /\ ing' = [ing EXCEPT ![Env[e].turn].state = state]
    /\ stage' = [stage EXCEPT ![e] = "out"]

\* _process_turn_sync records the source.  An envelope some of which was
\* erased, now or before, is kept without effects.
Process(e) ==
    LET t == Env[e].turn IN
    /\ stage[e] = "reserved"
    /\ RecordSource(e)
    /\ IF \/ Kept(e) # Env[e].msgs
          \/ \E x \in redacted' : x[1] = t
       THEN Settle(e, "completed")
       ELSE stage' = [stage EXCEPT ![e] = "recorded"] /\ UNCHANGED ing
    /\ UNCHANGED <<draft, ran>>

\* Nothing was recorded: an erased turn is declined and done with, any other
\* refusal is an exception and leaves the turn ambiguous.
Decline(e) ==
    /\ stage[e] = "reserved"
    /\ Outcome(e) \notin {"same", "new"}
    /\ Settle(e, IF Outcome(e) = "erased" THEN "completed" ELSE "ambiguous")
    /\ UNCHANGED <<ledgerVars, projVars, draft, ran>>

\* The effects of the turn, and complete().
RunEffects(e) ==
    /\ stage[e] = "recorded"
    /\ ran' = [ran EXCEPT ![e] = IF @ = 2 THEN 2 ELSE @ + 1]
    /\ Settle(e, "completed")
    /\ UNCHANGED <<ledgerVars, projVars, draft>>

\* An exception or a cancellation in the middle of the effects, some of
\* which have run: mark_ambiguous.
Interrupted(e) ==
    /\ stage[e] \in {"reserved", "recorded"}
    /\ ran' = [ran EXCEPT ![e] = IF stage[e] = "recorded" /\ @ < 2 THEN @ + 1 ELSE @]
    /\ Settle(e, "ambiguous")
    /\ UNCHANGED <<ledgerVars, projVars, draft>>

\* The process is killed: nothing marks the turn.
Killed(e) ==
    /\ stage[e] \in {"reserved", "recorded"}
    /\ ran' = [ran EXCEPT ![e] = IF stage[e] = "recorded" /\ @ < 2 THEN @ + 1 ELSE @]
    /\ stage' = [stage EXCEPT ![e] = "out"]
    /\ UNCHANGED <<ledgerVars, projVars, ing, draft>>

-----------------------------------------------------------------------------
(* /memory/sources/forget.                                                 *)

\* The messages of turn t in a set of pairs <<turn, message>>.
Of(t, held) == {x[2] : x \in {y \in held : y[1] = t}}

Held(c) == UNION {{t} \X src[t].msgs : t \in {u \in Turns : Present(u) /\ src[u].contact = c}}

\* What the tombstones rs take of the messages contact c still has.
Gone(c, held, rs) ==
    {x \in held : \/ \E r \in rs : r.contact = c /\ r.source = x[1] /\ r.whole
                  \/ Causes(rs, c, src[x[1]].env, x[2], src[x[1]].refs) # {}}

\* erase_sources takes a row, with the tombstones read again: one that loses
\* some message, but was not erased whole, leaves a tombstone of the revision
\* it was.  No ORDER BY says which row is next.
Strip(c, p) ==
    LET gone == Gone(c, p.held, p.rules)
        whole(t) == \E r \in p.rules : r.contact = c /\ r.source = t /\ r.whole
    IN {[held |-> p.held \ ({t} \X Of(t, gone)),
         rules |-> IF whole(t) THEN p.rules
                   ELSE Append(p.rules, t, c, src[t].env, Of(t, p.held), Of(t, gone), FALSE)]
           : t \in {x[1] : x \in gone}}

\* Mutant: one row, as if no tombstone could reach another.
EraseOnce(c, rs) == Strip(c, [held |-> Held(c), rules |-> rs])

\* The states the loop may end in: each row it takes loses a message, so
\* there are no more of them than messages.
EraseClosure(c, rs) ==
    LET after[n \in 0..Cardinality(Held(c))] ==
            IF n = 0 THEN {[held |-> Held(c), rules |-> rs]}
            ELSE UNION {IF Gone(c, p.held, p.rules) = {} THEN {p} ELSE Strip(c, p)
                           : p \in after[n - 1]}
    IN after[Cardinality(Held(c))]

EraseSources(c, sel) ==
    LET mine == {t \in Turns : Present(t) /\ src[t].contact = c}
        tombs == rules \cup UNION {
                    Append(rules, t, c, src[t].env, src[t].msgs, src[t].msgs, TRUE)
                       : t \in sel \cap mine}
    IN /\ \A t \in sel \ mine : \E r \in rules : r.contact = c /\ r.source = t /\ r.whole
       /\ \E end \in EraseClosure(c, tombs) :
             LET changed == {x[1] : x \in Held(c) \ end.held}
                 emptied == {t \in changed : Of(t, end.held) = {}}
             IN /\ src' = [t \in Turns |->
                      IF t \in emptied THEN NoSource
                      ELSE IF t \in changed THEN [src[t] EXCEPT !.msgs = Of(t, end.held)]
                      ELSE src[t]]
                /\ rules' = end.rules
                /\ redacted' = redacted \cup (changed \X sel)
                /\ claims' = EraseRemoved(claims, changed, end.held)
                /\ job' = [t \in Turns |-> IF t \in emptied THEN NoJob ELSE job[t]]
                /\ vjob' = [t \in Turns |-> IF t \in emptied THEN NoJob
                                            ELSE IF t \in changed THEN Queued ELSE vjob[t]]
       /\ UNCHANGED <<invalid, receipts, hostVars>>

-----------------------------------------------------------------------------
(* source_attribution.correct: sources said by one person that were kept   *)
(* for another.                                                            *)

\* The answers of contact c drawn from the turns in T, directly or not.
Descendants(c, T) ==
    LET cites(t, X) == \E m \in src[t].msgs : /\ Role(m) = "assistant"
                                              /\ \E ref \in src[t].refs : ref[1] \in X
        own == {t \in Turns \ T : Present(t) /\ src[t].contact = c}
        level[n \in 0..Cardinality(Turns)] ==
            IF n = 0 THEN T
            ELSE LET above == level[n - 1] IN above \cup {t \in own : cites(t, above)}
    IN level[Cardinality(Turns)] \ T

Correct(o, old, new, sel) ==
    LET desc == Descendants(old, sel)
    IN /\ receipts[o] = NotUsed
       /\ old # new
       /\ \A t \in sel : /\ ~WholeErased(rules, t)
                         /\ Present(t) /\ src[t].contact = old
                         /\ Scope(src[t].env) = "person"
       /\ receipts' = [receipts EXCEPT ![o] = [old |-> old, new |-> new, sources |-> sel]]
       /\ redacted' = redacted \cup (desc \X sel)
       /\ invalid' = invalid \cup desc
       /\ src' = [t \in Turns |-> IF t \in sel THEN [src[t] EXCEPT !.contact = new] ELSE src[t]]
       /\ claims' = EraseRemoved(claims, sel \cup desc, {})
       /\ job' = [t \in Turns |->
             IF t \in sel /\ job[t] # NoJob /\ \E m \in src[t].msgs : Role(m) = "user"
             THEN Queued
             ELSE IF t \in sel \cup desc THEN NoJob ELSE job[t]]
       /\ vjob' = [t \in Turns |-> IF t \in sel THEN Queued ELSE vjob[t]]
       /\ UNCHANGED <<rules, hostVars>>

-----------------------------------------------------------------------------
LedgerInit ==
    /\ src = [t \in Turns |-> NoSource]
    /\ rules = {} /\ redacted = {} /\ invalid = {}
    /\ receipts = [o \in OpIds |-> NotUsed]
    /\ ing = [t \in Turns |-> [env |-> NoSource, state |-> "none"]]
    /\ draft = [e \in Envelopes |-> IF Env[e].needs = {} THEN {} ELSE NotDrafted]
    /\ stage = [e \in Envelopes |-> "out"]
    /\ ran = [e \in Envelopes |-> 0]
    /\ claims = {}
    /\ job = [t \in Turns |-> NoJob]
    /\ vjob = [t \in Turns |-> NoJob]

LedgerNext ==
    \/ \E e \in Envelopes :
          \/ Draft(e) \/ RecordOnly(e) \/ Reserve(e) \/ Process(e) \/ Decline(e)
          \/ RunEffects(e) \/ Interrupted(e) \/ Killed(e)
    \/ \E c \in Contacts, sel \in Selections : EraseSources(c, sel)
    \/ \E o \in OpIds, old, new \in Contacts, sel \in Selections : Correct(o, old, new, sel)
=============================================================================
