------------------------- MODULE SourceMemoryProofs -------------------------
(***************************************************************************)
(* What SourceMemory keeps for every set of turns, envelopes and workers.  *)
(*                                                                         *)
(* The erasure's loop and the answers a correction sets aside are          *)
(* recursive functions: a function that satisfies the recursion is first   *)
(* shown to exist, then what each of its values has follows from the least *)
(* index at which it would not.                                            *)
(***************************************************************************)
EXTENDS SourceMemory, FiniteSetTheorems, TLAPS

\* Every set of naturals with an element has a least one.
LEMMA LeastNatural ==
    ASSUME NEW S \in SUBSET Nat, S # {}
    PROVE  \E m \in S : \A n \in S : m <= n
  <1> DEFINE Less == {x \in Nat \X Nat : x[1] < x[2]}
  <1>1. IsWellFoundedOn(Less, Nat)
    BY NatLessThanWellFounded DEF OpToRel
  <1>2. \A x, y \in Nat : x < y => <<x, y>> \in Less
    OBVIOUS
  <1> HIDE DEF Less
  <1>3. PICK m \in S : \A n \in S : ~(<<n, m>> \in Less)
    BY <1>1, WFMin
  <1>4. ASSUME NEW n \in S PROVE m <= n
    <2>1. m \in Nat /\ n \in Nat /\ ~(n < m)
      BY <1>2, <1>3
    <2> QED
      BY <2>1
  <1> QED
    BY <1>4

-----------------------------------------------------------------------------
(* The loop of erase_sources.                                              *)

\* One round of the loop, from any of the states in X.
Round(c, X) ==
    UNION {IF Gone(c, p.held, p.rules) = {} THEN {p} ELSE Strip(c, p) : p \in X}

\* The states of the loop after each round.
LEMMA ClosureUnfolds ==
    ASSUME NEW c, NEW rs, Cardinality(Held(c)) \in Nat
    PROVE  \E f : /\ EraseClosure(c, rs) = f[Cardinality(Held(c))]
                  /\ f[0] = {[held |-> Held(c), rules |-> rs]}
                  /\ \A n \in 1..Cardinality(Held(c)) : f[n] = Round(c, f[n - 1])
  <1> DEFINE N == Cardinality(Held(c))
             start == {[held |-> Held(c), rules |-> rs]}
             Is(f, k) == f = [n \in 0..k |-> IF n = 0 THEN start ELSE Round(c, f[n - 1])]
             S == {k \in Nat : ~\E f : Is(f, k)}
  <1> HIDE DEF N, start
  <1>1. S = {}
    <2> SUFFICES ASSUME S # {} PROVE FALSE
      OBVIOUS
    <2>1. PICK m \in S : \A n \in S : m <= n
      <3>1. S \in SUBSET Nat
        OBVIOUS
      <3> QED
        BY <3>1, LeastNatural
    <2>2. CASE m = 0
      <3> DEFINE g == [n \in 0..m |-> start]
      <3>1. \A n \in 0..m : n = 0
        BY <2>2
      <3>2. Is(g, m)
        BY <3>1
      <3> QED
        BY <3>2
    <2>3. CASE m # 0
      <3>0. m - 1 \in Nat /\ ~(m <= m - 1)
        BY <2>3
      <3>1. PICK f : Is(f, m - 1)
        <4>1. m - 1 \notin S
          BY <2>1, <3>0
        <4> QED
          BY <3>0, <4>1
      <3> DEFINE g == [n \in 0..m |-> IF n = m THEN Round(c, f[m - 1]) ELSE f[n]]
      <3>2. ASSUME NEW n \in 0..m
            PROVE  g[n] = IF n = 0 THEN start ELSE Round(c, g[n - 1])
        BY <2>3, <3>1, m \in Nat
      <3>3. Is(g, m)
        BY <3>2
      <3> QED
        BY <3>3
    <2> QED
      BY <2>2, <2>3
  <1>2. \E f : Is(f, N)
    BY <1>1 DEF N
  <1> DEFINE f == CHOOSE f : Is(f, N)
  <1>3. Is(f, N)
    BY <1>2
  <1>4. EraseClosure(c, rs) = f[N]
    BY DEF EraseClosure, Round, N, start
  <1>5. N \in Nat
    BY DEF N
  <1> HIDE DEF f
  <1>6. f[0] = start /\ \A n \in 1..N : f[n] = Round(c, f[n - 1])
    BY <1>3, <1>5
  <1> QED
    BY <1>4, <1>6 DEF N, start

Sessions == {Session(e) : e \in Envelopes}

\* The rows of source_erasures, with their revisions.
Tombstones ==
    [contact : Contacts, source : Turns, version : Versions, whole : BOOLEAN,
     session : Sessions, scope : {"person", "session"}, hashes : SUBSET (Sessions \X Messages)]

\* A row of turn_sources has a message left.
RowsOK ==
    /\ src \in [Turns -> Rows \cup {NoSource}]
    /\ \A t \in Turns : Present(t) => src[t].msgs # {}

Mine(c) == {t \in Turns : Present(t) /\ src[t].contact = c}

\* A hash in a tombstone is in one of the same source and of its own session.
HashesAccounted(rs) ==
    \A r \in rs : \A h \in r.hashes :
        \E q \in rs : q.source = r.source /\ q.session = h[1] /\ h \in q.hashes

\* The tombstones rs tell of the revision of t that is recorded.
Told(c, t, rs) ==
    \E r \in rs : /\ r.source = t
                  /\ \/ r.whole /\ r.contact = c
                     \/ ~r.whole /\ r.version = Version(t)

\* What holds after each round of the loop that began with the tombstones rs.
LoopInv(c, rs, p) ==
    /\ p \in [held : SUBSET Held(c), rules : SUBSET Tombstones]
    /\ rs \subseteq p.rules
    /\ \A r \in p.rules \ rs : r.contact = c /\ ~r.whole
    /\ HashesAccounted(p.rules)
    /\ \A t \in Mine(c) : Of(t, p.held) # src[t].msgs => Told(c, t, p.rules)

LEMMA RowFields ==
    ASSUME RowsOK, NEW t \in Turns, Present(t)
    PROVE  /\ src[t] \in Rows
           /\ src[t] = [env |-> src[t].env, contact |-> src[t].contact,
                        msgs |-> src[t].msgs, refs |-> src[t].refs]
           /\ src[t].env \in Envelopes /\ src[t].contact \in Contacts
           /\ src[t].msgs \in SUBSET Messages /\ src[t].msgs # {}
           /\ src[t].refs \in SUBSET (Turns \X Versions)
           /\ Version(t) \in Versions
  <1>1. src[t] \in Rows
    BY DEF RowsOK, Present
  <1> QED
    BY <1>1 DEF RowsOK, Rows, Version, Versions

LEMMA RefTurn ==
    ASSUME RowsOK, NEW t \in Turns, Present(t), NEW ref \in src[t].refs
    PROVE  ref[1] \in Turns
  <1>1. src[t].refs \in SUBSET (Turns \X Versions)
    BY RowFields
  <1> QED
    BY <1>1

\* The messages of contact c, by turn.
LEMMA HeldPairs ==
    ASSUME RowsOK, NEW c
    PROVE  /\ Held(c) \subseteq Turns \X Messages
           /\ \A t, m : <<t, m>> \in Held(c) <=> t \in Mine(c) /\ m \in src[t].msgs
  <1>1. ASSUME NEW t \in Mine(c) PROVE src[t].msgs \subseteq Messages /\ t \in Turns
    BY RowFields DEF Mine
  <1>2. Held(c) = UNION {{t} \X src[t].msgs : t \in Mine(c)}
    BY DEF Held, Mine
  <1>3. ASSUME NEW x \in Held(c)
        PROVE  x = <<x[1], x[2]>> /\ x[1] \in Mine(c) /\ x[2] \in src[x[1]].msgs
    <2>1. PICK t \in Mine(c) : x \in {t} \X src[t].msgs
      BY <1>2
    <2> QED
      BY <2>1
  <1>4. ASSUME NEW t \in Mine(c), NEW m \in src[t].msgs PROVE <<t, m>> \in Held(c)
    <2>1. <<t, m>> \in {t} \X src[t].msgs
      OBVIOUS
    <2> QED
      BY <1>2, <2>1
  <1>5. ASSUME NEW t, NEW m, <<t, m>> \in Held(c)
        PROVE  t \in Mine(c) /\ m \in src[t].msgs
    BY <1>3, <1>5
  <1>6. Held(c) \subseteq Turns \X Messages
    BY <1>1, <1>3
  <1> QED
    BY <1>4, <1>5, <1>6

LEMMA HeldFinite ==
    ASSUME RowsOK, NEW c
    PROVE  IsFiniteSet(Held(c)) /\ Cardinality(Held(c)) \in Nat
  <1> DEFINE Sets == {Env[e].msgs : e \in Envelopes}
  <1>1. IsFiniteSet(Sets)
    <2> DEFINE f == [e \in Envelopes |-> Env[e].msgs]
    <2>1. f \in Surjection(Envelopes, Sets)
      BY DEF Surjection
    <2> QED
      BY <2>1, SourceAssumption, FS_Surjection
  <1>2. \A S \in Sets : IsFiniteSet(S)
    BY SourceAssumption
  <1>3. IsFiniteSet(Messages)
    BY <1>1, <1>2, FS_UNION DEF Messages
  <1>4. IsFiniteSet(Turns \X Messages)
    BY <1>3, SourceAssumption, FS_Product
  <1> QED
    BY <1>4, HeldPairs, FS_Subset, FS_CardinalityType

\* The hashes the next tombstone of t takes over.
Carried(rs, t) == UNION {r.hashes : r \in {q \in rs : q.source = t}}

LEMMA CarriedHashes ==
    ASSUME NEW rs \in SUBSET Tombstones, NEW t
    PROVE  Carried(rs, t) \in SUBSET (Sessions \X Messages)
  <1>1. ASSUME NEW h \in Carried(rs, t) PROVE h \in Sessions \X Messages
    <2>1. PICK r \in rs : h \in r.hashes
      BY DEF Carried
    <2>2. r.hashes \in SUBSET (Sessions \X Messages)
      BY DEF Tombstones
    <2> QED
      BY <2>1, <2>2
  <1> QED
    BY <1>1

\* A tombstone's own hashes are of its session, the others were accounted for.
LEMMA HashesStay ==
    ASSUME NEW rs, HashesAccounted(rs), NEW new, NEW its,
           new.hashes = Carried(rs, new.source) \cup its, \A h \in its : h[1] = new.session
    PROVE  HashesAccounted(rs \cup {new})
  <1>1. ASSUME NEW h \in Carried(rs, new.source)
        PROVE  \E q \in rs : q.source = new.source /\ q.session = h[1] /\ h \in q.hashes
    <2>1. PICK r \in rs : r.source = new.source /\ h \in r.hashes
      BY DEF Carried
    <2> QED
      BY <2>1 DEF HashesAccounted
  <1> QED
    BY <1>1 DEF HashesAccounted

\* What _append_erasure makes of the tombstones rs, whichever tombstone it adds.
Extended(rs, new, t, c, e, removed) ==
    /\ new \in SUBSET Tombstones /\ rs \subseteq new
    /\ HashesAccounted(rs) => HashesAccounted(new)
    /\ \A r \in new \ rs : /\ r.source = t /\ r.contact = c /\ r.session = Session(e)
                          /\ r.hashes = Carried(rs, t) \cup {Hash(e, m) : m \in removed}

RevisionTold(rs, new, t, e, ms) ==
    /\ \A r \in new \ rs : ~r.whole
    /\ \E r \in new : r.source = t /\ ~r.whole /\ r.version = <<e, ms>>

WholeTold(rs, new, t) ==
    /\ \A r \in new \ rs : r.whole
    /\ \E r \in new : r.source = t /\ r.whole

\* _append_erasure of a revision that loses messages.
LEMMA AppendPart ==
    ASSUME NEW rs \in SUBSET Tombstones, NEW t \in Turns, NEW c \in Contacts,
           NEW e \in Envelopes, NEW ms \in SUBSET Messages, NEW removed \in SUBSET Messages
    PROVE  /\ Extended(rs, Append(rs, t, c, e, ms, removed, FALSE), t, c, e, removed)
           /\ RevisionTold(rs, Append(rs, t, c, e, ms, removed, FALSE), t, e, ms)
  <1> DEFINE R == Append(rs, t, c, e, ms, removed, FALSE)
             its == {Hash(e, m) : m \in removed}
             new == [contact |-> c, source |-> t, version |-> <<e, ms>>, whole |-> FALSE,
                     session |-> Session(e), scope |-> Scope(e),
                     hashes |-> Carried(rs, t) \cup its]
  <1>1. R = rs \/ R = rs \cup {new}
    BY DEF Append, Carried
  <1>2. new \in Tombstones
    <2>1. Session(e) \in Sessions /\ Scope(e) \in {"person", "session"} /\ <<e, ms>> \in Versions
      BY DEF Sessions, Scope, Versions
    <2>2. its \in SUBSET (Sessions \X Messages)
      BY DEF Hash, Sessions
    <2> HIDE DEF its
    <2>3. Carried(rs, t) \cup its \in SUBSET (Sessions \X Messages)
      BY <2>2, CarriedHashes
    <2> QED
      BY <2>1, <2>3 DEF Tombstones
  <1>3. new.hashes = Carried(rs, new.source) \cup its /\ \A h \in its : h[1] = new.session
    BY DEF Hash
  <1>4. new.source = t /\ new.contact = c /\ new.whole = FALSE /\ new.session = Session(e)
        /\ new.version = <<e, ms>>
    OBVIOUS
  <1>5. \E r \in R : r.source = t /\ ~r.whole /\ r.version = <<e, ms>>
    <2>1. CASE \E r \in rs : r.source = t /\ r.version = <<e, ms>> /\ r.whole = FALSE
      BY <2>1 DEF Append
    <2>2. CASE ~\E r \in rs : r.source = t /\ r.version = <<e, ms>> /\ r.whole = FALSE
      <3>1. R = rs \cup {new}
        BY <2>2 DEF Append, Carried
      <3> QED
        BY <1>4, <3>1
    <2> QED
      BY <2>1, <2>2
  <1> HIDE DEF new, R, its
  <1>6. R \in SUBSET Tombstones /\ rs \subseteq R
    BY <1>1, <1>2
  <1>7. HashesAccounted(rs) => HashesAccounted(R)
    BY <1>1, <1>3, HashesStay
  <1>8. \A r \in R \ rs : /\ r.source = t /\ r.contact = c /\ ~r.whole
                        /\ r.session = Session(e) /\ r.hashes = Carried(rs, t) \cup its
    BY <1>1, <1>3, <1>4
  <1>9. Extended(rs, R, t, c, e, removed)
    BY <1>6, <1>7, <1>8 DEF Extended, its
  <1>10. RevisionTold(rs, R, t, e, ms)
    BY <1>5, <1>8 DEF RevisionTold
  <1> QED
    BY <1>9, <1>10 DEF R

\* _append_erasure of a whole source.
LEMMA AppendWhole ==
    ASSUME NEW rs \in SUBSET Tombstones, NEW t \in Turns, NEW c \in Contacts,
           NEW e \in Envelopes, NEW ms \in SUBSET Messages, NEW removed \in SUBSET Messages
    PROVE  /\ Extended(rs, Append(rs, t, c, e, ms, removed, TRUE), t, c, e, removed)
           /\ WholeTold(rs, Append(rs, t, c, e, ms, removed, TRUE), t)
  <1> DEFINE R == Append(rs, t, c, e, ms, removed, TRUE)
             its == {Hash(e, m) : m \in removed}
             new == [contact |-> c, source |-> t, version |-> <<e, ms>>, whole |-> TRUE,
                     session |-> Session(e), scope |-> Scope(e),
                     hashes |-> Carried(rs, t) \cup its]
  <1>1. R = rs \/ R = rs \cup {new}
    BY DEF Append, Carried
  <1>2. new \in Tombstones
    <2>1. Session(e) \in Sessions /\ Scope(e) \in {"person", "session"} /\ <<e, ms>> \in Versions
      BY DEF Sessions, Scope, Versions
    <2>2. its \in SUBSET (Sessions \X Messages)
      BY DEF Hash, Sessions
    <2> HIDE DEF its
    <2>3. Carried(rs, t) \cup its \in SUBSET (Sessions \X Messages)
      BY <2>2, CarriedHashes
    <2> QED
      BY <2>1, <2>3 DEF Tombstones
  <1>3. new.hashes = Carried(rs, new.source) \cup its /\ \A h \in its : h[1] = new.session
    BY DEF Hash
  <1>4. new.source = t /\ new.contact = c /\ new.whole = TRUE /\ new.session = Session(e)
        /\ new.version = <<e, ms>>
    OBVIOUS
  <1>5. \E r \in R : r.source = t /\ r.whole
    <2>1. CASE WholeErased(rs, t)
      BY <1>1, <2>1 DEF WholeErased
    <2>2. CASE ~WholeErased(rs, t)
      <3>1. R = rs \cup {new}
        BY <2>2 DEF Append, Carried, WholeErased
      <3> QED
        BY <1>4, <3>1
    <2> QED
      BY <2>1, <2>2
  <1> HIDE DEF new, R, its
  <1>6. R \in SUBSET Tombstones /\ rs \subseteq R
    BY <1>1, <1>2
  <1>7. HashesAccounted(rs) => HashesAccounted(R)
    BY <1>1, <1>3, HashesStay
  <1>8. \A r \in R \ rs : /\ r.source = t /\ r.contact = c /\ r.whole
                        /\ r.session = Session(e) /\ r.hashes = Carried(rs, t) \cup its
    BY <1>1, <1>3, <1>4
  <1>9. Extended(rs, R, t, c, e, removed)
    BY <1>6, <1>7, <1>8 DEF Extended, its
  <1>10. WholeTold(rs, R, t)
    BY <1>5, <1>8 DEF WholeTold
  <1> QED
    BY <1>9, <1>10 DEF R

\* A round that finds something to erase keeps the loop's invariant and
\* takes at least one message.
LEMMA StripStep ==
    ASSUME RowsOK, NEW c \in Contacts, NEW rs \in SUBSET Tombstones, NEW p, LoopInv(c, rs, p),
           NEW q \in Strip(c, p)
    PROVE  LoopInv(c, rs, q) /\ Cardinality(q.held) < Cardinality(p.held)
  <1> DEFINE gone == Gone(c, p.held, p.rules)
             whole(u) == \E r \in p.rules : r.contact = c /\ r.source = u /\ r.whole
  <1>0. /\ p \in [held : SUBSET Held(c), rules : SUBSET Tombstones]
        /\ p.held \in SUBSET Held(c) /\ p.rules \in SUBSET Tombstones /\ rs \subseteq p.rules
        /\ HashesAccounted(p.rules)
    BY DEF LoopInv
  <1>1. PICK x \in gone :
           q = [held |-> p.held \ ({x[1]} \X Of(x[1], gone)),
                rules |-> IF whole(x[1]) THEN p.rules
                          ELSE Append(p.rules, x[1], c, src[x[1]].env, Of(x[1], p.held),
                                      Of(x[1], gone), FALSE)]
    BY DEF Strip
  <1> DEFINE t == x[1]
             lost == {t} \X Of(t, gone)
             after == Append(p.rules, t, c, src[t].env, Of(t, p.held), Of(t, gone), FALSE)
  <1>2. gone \subseteq p.held
    BY DEF Gone
  <1>3. x \in p.held /\ x = <<t, x[2]>> /\ t \in Mine(c) /\ x[2] \in src[t].msgs
    <2>1. x \in Held(c) /\ x \in Turns \X Messages
      BY <1>0, <1>2, HeldPairs
    <2> QED
      BY <1>2, <2>1, HeldPairs
  <1>4. t \in Turns /\ Present(t) /\ src[t].env \in Envelopes /\ src[t].contact = c
    BY <1>3, RowFields DEF Mine
  <1>5. Of(t, p.held) \in SUBSET Messages /\ Of(t, gone) \in SUBSET Messages
    <2>1. \A y \in p.held : y[2] \in Messages
      BY <1>0, HeldPairs
    <2> QED
      BY <1>2, <2>1 DEF Of
  <1> HIDE DEF gone, whole, t, lost, after
  <1>6. q.held = p.held \ lost /\ q.rules = (IF whole(t) THEN p.rules ELSE after)
    BY <1>1 DEF t, lost, after
  <1>7. /\ \A r \in after \ p.rules : r.contact = c /\ ~r.whole
        /\ after \in SUBSET Tombstones /\ p.rules \subseteq after /\ HashesAccounted(after)
        /\ \E r \in after : r.source = t /\ ~r.whole /\ r.version = <<src[t].env, Of(t, p.held)>>
    <2> DEFINE env == src[t].env  had == Of(t, p.held)  out == Of(t, gone)  old == p.rules
    <2>1. /\ env \in Envelopes /\ had \in SUBSET Messages /\ out \in SUBSET Messages
          /\ old \in SUBSET Tombstones /\ HashesAccounted(old)
      BY <1>0, <1>4, <1>5
    <2>2. after = Append(old, t, c, env, had, out, FALSE)
      BY DEF after
    <2> HIDE DEF env, had, out, old
    <2>3. Extended(old, Append(old, t, c, env, had, out, FALSE), t, c, env, out)
      BY <1>4, <2>1, AppendPart
    <2>4. RevisionTold(old, Append(old, t, c, env, had, out, FALSE), t, env, had)
      BY <1>4, <2>1, AppendPart
    <2>5. Extended(old, after, t, c, env, out) /\ RevisionTold(old, after, t, env, had)
      BY <2>2, <2>3, <2>4
    <2> QED
      BY <2>1, <2>5 DEF env, had, old, Extended, RevisionTold
  <1>8. q \in [held : SUBSET Held(c), rules : SUBSET Tombstones]
    BY <1>0, <1>1, <1>6, <1>7
  <1>9. p.rules \subseteq q.rules /\ HashesAccounted(q.rules)
    BY <1>0, <1>6, <1>7
  <1>10. ASSUME NEW r \in q.rules \ rs PROVE r.contact = c /\ ~r.whole
    <2>1. CASE r \in p.rules
      BY <2>1 DEF LoopInv
    <2>2. CASE r \notin p.rules
      BY <1>6, <1>7, <2>2
    <2> QED
      BY <2>1, <2>2
  <1>11. ASSUME NEW u \in Mine(c), Of(u, q.held) # src[u].msgs
         PROVE  Told(c, u, q.rules)
    <2>1. CASE Of(u, p.held) # src[u].msgs
      BY <1>9, <2>1 DEF LoopInv, Told
    <2>2. CASE Of(u, p.held) = src[u].msgs /\ u # t
      <3>1. \A y \in p.held : y[1] = u => y \notin lost
        BY <2>2 DEF lost
      <3>2. Of(u, q.held) = Of(u, p.held)
        BY <1>6, <3>1 DEF Of
      <3> QED
        BY <1>11, <2>2, <3>2
    <2>3. CASE Of(u, p.held) = src[u].msgs /\ u = t
      <3>1. CASE whole(t)
        BY <1>6, <2>3, <3>1 DEF Told, whole
      <3>2. CASE ~whole(t)
        BY <1>6, <1>7, <2>3, <3>2 DEF Told, Version
      <3> QED
        BY <3>1, <3>2
    <2> QED
      BY <2>1, <2>2, <2>3
  <1>12. LoopInv(c, rs, q)
    <2>1. rs \subseteq q.rules
      BY <1>0, <1>9
    <2> QED
      BY <1>8, <1>9, <1>10, <1>11, <2>1 DEF LoopInv
  <1>13. Cardinality(q.held) < Cardinality(p.held)
    <2>1. x \in lost
      <3>1. x[2] \in Of(t, gone)
        BY <1>1 DEF Of, t
      <3> QED
        BY <1>3, <3>1 DEF lost
    <2>2. q.held \in SUBSET p.held /\ q.held # p.held
      BY <1>3, <1>6, <2>1
    <2>3. IsFiniteSet(p.held)
      BY <1>0, HeldFinite, FS_Subset
    <2>4. /\ IsFiniteSet(q.held) /\ Cardinality(q.held) <= Cardinality(p.held)
          /\ Cardinality(p.held) # Cardinality(q.held)
      BY <2>2, <2>3, FS_Subset
    <2>5. Cardinality(p.held) \in Nat /\ Cardinality(q.held) \in Nat
      BY <2>3, <2>4, FS_CardinalityType
    <2> QED
      BY <2>4, <2>5
  <1> QED
    BY <1>12, <1>13

\* The states the loop ends in: nothing is left to erase.
LEMMA ClosureEnds ==
    ASSUME RowsOK, NEW c \in Contacts, NEW rs \in SUBSET Tombstones, HashesAccounted(rs),
           NEW end \in EraseClosure(c, rs)
    PROVE  LoopInv(c, rs, end) /\ Gone(c, end.held, end.rules) = {}
  <1> DEFINE N == Cardinality(Held(c))
             start == [held |-> Held(c), rules |-> rs]
             Settled(p) == Gone(c, p.held, p.rules) = {}
  <1>0. N \in Nat /\ IsFiniteSet(Held(c))
    BY HeldFinite
  <1>1. PICK f : /\ EraseClosure(c, rs) = f[N]
                 /\ f[0] = {start}
                 /\ \A n \in 1..N : f[n] = Round(c, f[n - 1])
    BY <1>0, ClosureUnfolds
  <1> DEFINE Good(n) == \A p \in f[n] : /\ LoopInv(c, rs, p)
                                        /\ Settled(p) \/ Cardinality(p.held) <= N - n
             S == {n \in 0..N : ~Good(n)}
  <1>2. Good(0)
    <2>1. start.held = Held(c) /\ start.rules = rs
          /\ start \in [held : SUBSET Held(c), rules : SUBSET Tombstones]
      OBVIOUS
    <2>2. ASSUME NEW t \in Mine(c) PROVE Of(t, Held(c)) = src[t].msgs
      <3>1. ASSUME NEW m \in src[t].msgs PROVE m \in Of(t, Held(c))
        <4>1. <<t, m>> \in Held(c)
          BY HeldPairs
        <4>2. <<t, m>>[1] = t /\ <<t, m>>[2] = m
          OBVIOUS
        <4> QED
          BY <4>1, <4>2 DEF Of
      <3>2. ASSUME NEW m \in Of(t, Held(c)) PROVE m \in src[t].msgs
        <4>1. PICK y \in Held(c) : y[1] = t /\ y[2] = m
          BY DEF Of
        <4>2. y \in Turns \X Messages
          BY HeldPairs
        <4>3. <<t, m>> \in Held(c)
          BY <4>1, <4>2
        <4> QED
          BY <4>3, HeldPairs
      <3> QED
        BY <3>1, <3>2
    <2> HIDE DEF start
    <2>3. LoopInv(c, rs, start)
      BY <2>1, <2>2 DEF LoopInv
    <2>4. Cardinality(start.held) <= N - 0
      BY <1>0, <2>1
    <2> HIDE DEF N, Settled
    <2> QED
      BY <1>1, <2>3, <2>4
  <1>3. ASSUME NEW n \in 1..N, Good(n - 1) PROVE Good(n)
    <2> SUFFICES ASSUME NEW q \in f[n]
                 PROVE  LoopInv(c, rs, q) /\ (Settled(q) \/ Cardinality(q.held) <= N - n)
      OBVIOUS
    <2>1. PICK p \in f[n - 1] : q \in IF Settled(p) THEN {p} ELSE Strip(c, p)
      <3>1. q \in Round(c, f[n - 1])
        BY <1>1
      <3> QED
        BY <3>1 DEF Round
    <2>2. LoopInv(c, rs, p) /\ (Settled(p) \/ Cardinality(p.held) <= N - (n - 1))
      BY <1>3
    <2> HIDE DEF Settled
    <2>3. CASE Settled(p)
      BY <2>1, <2>2, <2>3
    <2>4. CASE ~Settled(p)
      <3>1. LoopInv(c, rs, q) /\ Cardinality(q.held) < Cardinality(p.held)
        BY <2>1, <2>2, <2>4, StripStep
      <3>2. Cardinality(p.held) \in Nat /\ Cardinality(q.held) \in Nat
        <4>1. p.held \in SUBSET Held(c) /\ q.held \in SUBSET Held(c)
          BY <2>2, <3>1 DEF LoopInv
        <4>2. IsFiniteSet(p.held) /\ IsFiniteSet(q.held)
          BY <1>0, <4>1, FS_Subset
        <4> QED
          BY <4>2, FS_CardinalityType
      <3> HIDE DEF N
      <3>3. Cardinality(q.held) <= N - n
        BY <1>0, <2>2, <2>4, <3>1, <3>2
      <3> QED
        BY <3>1, <3>3
    <2> QED
      BY <2>3, <2>4
  <1> HIDE DEF N, start, Good
  <1>4. S = {}
    <2> SUFFICES ASSUME S # {} PROVE FALSE
      OBVIOUS
    <2>1. S \in SUBSET Nat
      BY <1>0
    <2>2. PICK m \in S : \A n \in S : m <= n
      BY <2>1, LeastNatural
    <2>3. m \in 0..N /\ ~Good(m)
      OBVIOUS
    <2>4. m # 0
      BY <1>2, <2>3
    <2>5. m - 1 \in 0..N /\ m \in 1..N /\ ~(m <= m - 1)
      BY <1>0, <2>3, <2>4
    <2>6. Good(m - 1)
      BY <2>2, <2>5
    <2> QED
      BY <1>3, <2>3, <2>5, <2>6
  <1>5. Good(N)
    BY <1>0, <1>4
  <1>6. LoopInv(c, rs, end) /\ (Settled(end) \/ Cardinality(end.held) <= N - N)
    BY <1>1, <1>5 DEF Good
  <1>7. ASSUME Cardinality(end.held) <= N - N PROVE Settled(end)
    <2>1. end.held \in SUBSET Held(c)
      BY <1>6 DEF LoopInv
    <2>2. IsFiniteSet(end.held) /\ Cardinality(end.held) \in Nat
      BY <1>0, <2>1, FS_Subset, FS_CardinalityType
    <2>3. Cardinality(end.held) = 0
      BY <1>0, <1>7, <2>2
    <2>4. end.held = {}
      BY <2>2, <2>3, FS_EmptySet
    <2> QED
      BY <2>4 DEF Gone
  <1> QED
    BY <1>6, <1>7

-----------------------------------------------------------------------------
(* The answers a correction sets aside.                                    *)

Cites(t, X) == \E m \in src[t].msgs : /\ Role(m) = "assistant"
                                      /\ \E ref \in src[t].refs : ref[1] \in X

Own(c, T) == {t \in Turns \ T : Present(t) /\ src[t].contact = c}

Below(c, T, X) == X \cup {t \in Own(c, T) : Cites(t, X)}

\* The levels of answers below the turns T.
LEMMA DescendantsUnfold ==
    ASSUME NEW c, NEW T
    PROVE  \E f : /\ Descendants(c, T) = f[Cardinality(Turns)] \ T
                  /\ f[0] = T
                  /\ \A n \in 1..Cardinality(Turns) : f[n] = Below(c, T, f[n - 1])
  <1> DEFINE N == Cardinality(Turns)
             Is(f, k) == f = [n \in 0..k |-> IF n = 0 THEN T ELSE Below(c, T, f[n - 1])]
             S == {k \in Nat : ~\E f : Is(f, k)}
  <1>0. N \in Nat
    BY SourceAssumption, FS_CardinalityType
  <1> HIDE DEF N
  <1>1. S = {}
    <2> SUFFICES ASSUME S # {} PROVE FALSE
      OBVIOUS
    <2>1. PICK m \in S : \A n \in S : m <= n
      <3>1. S \in SUBSET Nat
        OBVIOUS
      <3> QED
        BY <3>1, LeastNatural
    <2>2. CASE m = 0
      <3> DEFINE g == [n \in 0..m |-> T]
      <3>1. \A n \in 0..m : n = 0
        BY <2>2
      <3>2. Is(g, m)
        BY <3>1
      <3> QED
        BY <3>2
    <2>3. CASE m # 0
      <3>0. m - 1 \in Nat /\ ~(m <= m - 1)
        BY <2>3
      <3>1. PICK f : Is(f, m - 1)
        <4>1. m - 1 \notin S
          BY <2>1, <3>0
        <4> QED
          BY <3>0, <4>1
      <3> DEFINE g == [n \in 0..m |-> IF n = m THEN Below(c, T, f[m - 1]) ELSE f[n]]
      <3>2. ASSUME NEW n \in 0..m
            PROVE  g[n] = IF n = 0 THEN T ELSE Below(c, T, g[n - 1])
        BY <2>3, <3>1, m \in Nat
      <3>3. Is(g, m)
        BY <3>2
      <3> QED
        BY <3>3
    <2> QED
      BY <2>2, <2>3
  <1>2. \E f : Is(f, N)
    BY <1>0, <1>1
  <1> DEFINE f == CHOOSE f : Is(f, N)
  <1>3. Is(f, N)
    BY <1>2
  <1>4. Descendants(c, T) = f[N] \ T
    BY DEF Descendants, Below, Own, Cites, N
  <1> HIDE DEF f
  <1>5. f[0] = T /\ \A n \in 1..N : f[n] = Below(c, T, f[n - 1])
    BY <1>0, <1>3
  <1> QED
    BY <1>4, <1>5 DEF N

\* They are turns, and every answer of contact c drawn from T is among them.
LEMMA DescendantsReach ==
    ASSUME NEW c, NEW T \in SUBSET Turns
    PROVE  /\ Descendants(c, T) \in SUBSET Turns
           /\ \A t \in Own(c, T) : Cites(t, T) => t \in Descendants(c, T)
  <1> DEFINE N == Cardinality(Turns)
             first == {t \in Own(c, T) : Cites(t, T)}
  <1>0. N \in Nat
    BY SourceAssumption, FS_CardinalityType
  <1>1. PICK f : /\ Descendants(c, T) = f[N] \ T
                 /\ f[0] = T
                 /\ \A n \in 1..N : f[n] = Below(c, T, f[n - 1])
    BY DescendantsUnfold
  <1>2. N = 0 => Turns = {}
    BY SourceAssumption, FS_EmptySet
  <1> HIDE DEF N
  <1> DEFINE Good(n) == f[n] \in SUBSET Turns /\ (n # 0 => first \subseteq f[n])
             S == {n \in 0..N : ~Good(n)}
  <1>3. Good(0)
    BY <1>1
  <1>4. ASSUME NEW n \in 1..N, Good(n - 1) PROVE Good(n)
    <2>1. f[n] = f[n - 1] \cup {t \in Own(c, T) : Cites(t, f[n - 1])}
      BY <1>1 DEF Below
    <2>2. f[n] \in SUBSET Turns
      BY <1>4, <2>1 DEF Own
    <2>3. CASE n = 1
      BY <1>1, <2>1, <2>2, <2>3
    <2>4. CASE n # 1
      BY <1>4, <2>1, <2>2, <2>4
    <2> QED
      BY <2>3, <2>4
  <1> HIDE DEF Good
  <1>5. S = {}
    <2> SUFFICES ASSUME S # {} PROVE FALSE
      OBVIOUS
    <2>1. S \in SUBSET Nat
      BY <1>0
    <2>2. PICK m \in S : \A n \in S : m <= n
      BY <2>1, LeastNatural
    <2>3. m \in 0..N /\ ~Good(m)
      OBVIOUS
    <2>4. m # 0
      BY <1>3, <2>3
    <2>5. m - 1 \in 0..N /\ m \in 1..N /\ ~(m <= m - 1)
      BY <1>0, <2>3, <2>4
    <2>6. Good(m - 1)
      BY <2>2, <2>5
    <2> QED
      BY <1>4, <2>3, <2>5, <2>6
  <1>6. f[N] \in SUBSET Turns /\ (N # 0 => first \subseteq f[N])
    BY <1>0, <1>5 DEF Good
  <1> QED
    BY <1>1, <1>2, <1>6 DEF Own

-----------------------------------------------------------------------------
(* The invariant.                                                          *)

\* The rows of source_claims, and what a claim worker keeps between calls.
ClaimRows ==
    [turn : Turns, msg : Messages, basis : (Turns \X Messages) \cup {NoClaim},
     retracted : BOOLEAN, owner : Contacts]

Readings ==
    [turn : Turns, contact : Contacts, msg : Messages \cup {NoClaim}, todo : SUBSET Messages,
     prior : SUBSET (Turns \X Messages \X ((Turns \X Messages) \cup {NoClaim}))]

TypeOK ==
    /\ RowsOK
    /\ rules \in SUBSET Tombstones
    /\ redacted \in SUBSET (Turns \X Turns)
    /\ invalid \in SUBSET Turns
    /\ receipts \in [OpIds -> [old : Contacts, new : Contacts, sources : SUBSET Turns]
                                 \cup {NotUsed}]
    /\ ing \in [Turns -> [env : Envelopes \cup {NoSource},
                          state : {"none", "processing", "completed", "ambiguous"}]]
    /\ draft \in [Envelopes -> (SUBSET (Turns \X Versions)) \cup {NotDrafted}]
    /\ stage \in [Envelopes -> {"out", "reserved", "recorded"}]
    /\ ran \in [Envelopes -> 0..2]
    /\ claims \in SUBSET ClaimRows
    /\ cw \in [Claimers -> Readings \cup {Idle}]

\* Some of turn t was erased, or an answer in it refused.
Redacted(t) == \E x \in redacted : x[1] = t

\* The handler that reserved a turn id is the only one there will be, and it
\* runs the effects of what is recorded under that id.
HandlersOK ==
    \A e \in Envelopes :
        /\ stage[e] # "out" =>
              /\ ing[Env[e].turn] = [env |-> e, state |-> "processing"]
              /\ ran[e] = 0 /\ draft[e] # NotDrafted
        /\ ran[e] > 0 => /\ ran[e] = 1
                         /\ ing[Env[e].turn].env = e /\ ing[Env[e].turn].state # "none"
        /\ stage[e] = "recorded" \/ ran[e] > 0 =>
              Redacted(Env[e].turn) \/ (Present(Env[e].turn) /\ src[Env[e].turn].env = e)

\* A claim is written once.
KeysUnique == \A k, h \in claims : Key(k) = Key(h) => k = h

MemoryInv ==
    /\ TypeOK
    /\ HandlersOK
    /\ KeysUnique /\ ClaimsGrounded
    /\ HashesAccounted(rules)
    /\ ErasedStaysErased
    /\ AnswersCiteLiving

LEMMA InitMemory == Init => MemoryInv
  <1> SUFFICES ASSUME Init PROVE MemoryInv
    OBVIOUS
  <1> USE DEF Init, LedgerInit
  <1>1. \A t \in Turns : ~Present(t)
    BY DEF Present
  <1>2. TypeOK
    <2>1. {} \in SUBSET (Turns \X Versions)
      OBVIOUS
    <2>2. draft \in [Envelopes -> (SUBSET (Turns \X Versions)) \cup {NotDrafted}]
      BY <2>1
    <2>3. ing \in [Turns -> [env : Envelopes \cup {NoSource},
                             state : {"none", "processing", "completed", "ambiguous"}]]
      OBVIOUS
    <2> QED
      BY <1>1, <2>2, <2>3 DEF TypeOK, RowsOK
  <1>3. HandlersOK
    BY SourceAssumption DEF HandlersOK
  <1>4. ErasedStaysErased /\ AnswersCiteLiving
    BY <1>1 DEF ErasedStaysErased, AnswersCiteLiving
  <1> QED
    BY <1>2, <1>3, <1>4 DEF MemoryInv, KeysUnique, ClaimsGrounded, HashesAccounted

-----------------------------------------------------------------------------
(* record_source.                                                          *)

LEMMA RefsTyped ==
    ASSUME TypeOK, NEW e \in Envelopes, draft[e] # NotDrafted, ~InputPending(e)
    PROVE  Refs(e) \in SUBSET (Turns \X Versions)
  <1>1. draft[e] \in SUBSET (Turns \X Versions)
    BY DEF TypeOK
  <1>2. ASSUME NEW in \in Env[e].inputs
        PROVE  /\ in[1] \in Turns
               /\ Erasing(e, in) # {} => (CHOOSE r \in Erasing(e, in) : TRUE).version \in Versions
               /\ Erasing(e, in) = {} => Version(in[1]) \in Versions
    <2>1. in[1] \in Turns
      BY SourceAssumption
    <2>2. ASSUME Erasing(e, in) # {}
          PROVE  (CHOOSE r \in Erasing(e, in) : TRUE).version \in Versions
      <3> DEFINE r == CHOOSE r \in Erasing(e, in) : TRUE
      <3>1. r \in Erasing(e, in)
        BY <2>2
      <3> HIDE DEF r
      <3>2. r \in Tombstones
        BY <3>1 DEF Erasing, TypeOK
      <3>3. r.version \in Versions
        BY <3>2 DEF Tombstones
      <3> QED
        BY <3>3 DEF r
    <2>3. ASSUME Erasing(e, in) = {} PROVE Version(in[1]) \in Versions
      <3>1. Present(in[1])
        BY <2>3 DEF InputPending
      <3> QED
        BY <2>1, <3>1, RowFields DEF TypeOK
    <2> QED
      BY <2>1, <2>2, <2>3
  <1>3. ASSUME NEW x \in Resolved(e) PROVE x \in Turns \X Versions
    <2>1. PICK in \in Env[e].inputs :
             x = <<in[1], IF Erasing(e, in) # {}
                          THEN (CHOOSE r \in Erasing(e, in) : TRUE).version
                          ELSE Version(in[1])>>
      BY DEF Resolved
    <2> QED
      BY <1>2, <2>1
  <1> QED
    BY <1>1, <1>3 DEF Refs

\* Envelope e's row.
NewRow(e) == [env |-> e, contact |-> Env[e].contact, msgs |-> Kept(e), refs |-> Refs(e)]

\* A recorded envelope was not erased, its references are valid, and its row
\* is the one that is there or a new one; a redaction leaves a tombstone.
LEMMA RecordFacts ==
    ASSUME TypeOK, HashesAccounted(rules), NEW e \in Envelopes, draft[e] # NotDrafted,
           RecordSource(e)
    PROVE  /\ ~WholeErased(rules, Env[e].turn)
           /\ RefsValid(e)
           /\ Kept(e) # {} /\ Kept(e) \subseteq Env[e].msgs
           /\ \/ src' = src /\ Present(Env[e].turn) /\ src[Env[e].turn].env = e
              \/ ~Present(Env[e].turn) /\ src' = [src EXCEPT ![Env[e].turn] = NewRow(e)]
           /\ RowsOK'
           /\ rules' \in SUBSET Tombstones /\ rules \subseteq rules' /\ HashesAccounted(rules')
           /\ \A r \in rules' \ rules :
                 /\ r.source = Env[e].turn /\ r.contact = Env[e].contact /\ ~r.whole
                 /\ r.session = Session(e)
                 /\ r.hashes = Carried(rules, Env[e].turn)
                                  \cup {Hash(e, m) : m \in Env[e].msgs \ Kept(e)}
           /\ redacted' \in SUBSET (Turns \X Turns) /\ redacted \subseteq redacted'
           /\ invalid' = invalid /\ receipts' = receipts /\ claims' = claims
           /\ NewRow(e) \in Rows
  <1> DEFINE t == Env[e].turn  c == Env[e].contact  kept == Kept(e)  lost == Env[e].msgs \ kept
  <1>0. t \in Turns /\ c \in Contacts /\ Env[e].msgs \in SUBSET Messages
        /\ lost \in SUBSET Messages
    BY SourceAssumption DEF Messages
  <1>1. /\ ~WholeErased(rules, t) /\ ~InputPending(e) /\ RefsValid(e) /\ kept # {}
        /\ \/ Outcome(e) = "same" /\ Present(t) /\ src[t].env = e
           \/ Outcome(e) = "new" /\ ~Present(t)
    BY DEF RecordSource, Outcome
  <1>2. kept \subseteq Env[e].msgs
    BY DEF Kept, Retained
  <1>3. NewRow(e) \in Rows
    <2>1. kept \in SUBSET Messages
      BY <1>0, <1>2
    <2> QED
      BY <1>0, <1>1, <2>1, RefsTyped DEF NewRow, Rows
  <1>4. /\ Outcome(e) = "same" => src' = src
        /\ Outcome(e) = "new" => src' = [src EXCEPT ![t] = NewRow(e)]
    BY DEF RecordSource, NewRow
  <1>5. RowsOK'
    <2>1. CASE src' = src
      BY <2>1 DEF TypeOK, RowsOK, Present
    <2>2. CASE src' = [src EXCEPT ![t] = NewRow(e)]
      <3>1. src' \in [Turns -> Rows \cup {NoSource}]
        BY <1>0, <1>3, <2>2 DEF TypeOK, RowsOK
      <3>2. NewRow(e).msgs # {}
        BY <1>1 DEF NewRow
      <3>3. ASSUME NEW u \in Turns, Present(u)' PROVE src'[u].msgs # {}
        BY <1>0, <2>2, <3>2, <3>3 DEF TypeOK, RowsOK, Present
      <3> QED
        BY <3>1, <3>3 DEF RowsOK
    <2> QED
      BY <1>1, <1>4, <2>1, <2>2
  <1>6. rules' = rules \/ rules' = Append(rules, t, c, e, Env[e].msgs, lost, FALSE)
    BY DEF RecordSource
  <1>7. rules \in SUBSET Tombstones
    BY DEF TypeOK
  <1>8. Extended(rules, rules', t, c, e, lost) /\ \A r \in rules' \ rules : ~r.whole
    <2> DEFINE all == Env[e].msgs
               R == Append(rules, t, c, e, all, lost, FALSE)
    <2> HIDE DEF t, c, lost, all
    <2>1. Extended(rules, R, t, c, e, lost) /\ RevisionTold(rules, R, t, e, all)
      BY <1>0, <1>7, AppendPart DEF all
    <2>2. Extended(rules, rules, t, c, e, lost)
      BY <1>7 DEF Extended
    <2>3. rules' = rules \/ rules' = R
      BY <1>6 DEF all
    <2> HIDE DEF R
    <2> QED
      BY <2>1, <2>2, <2>3 DEF RevisionTold
  <1>9. redacted' \in SUBSET (Turns \X Turns) /\ redacted \subseteq redacted'
    <2> DEFINE causes == UNION {Causes(rules, c, e, m, Refs(e)) : m \in Env[e].msgs}
    <2>1. causes \subseteq Turns
      <3>1. ASSUME NEW m PROVE Causes(rules, c, e, m, Refs(e)) \subseteq Turns
        <4>1. \A r \in rules : r.source \in Turns
          BY <1>7 DEF Tombstones
        <4> QED
          BY <4>1 DEF Causes
      <3> QED
        BY <3>1
    <2>2. redacted' = redacted \/ redacted' = redacted \cup {<<t, s>> : s \in causes}
      BY DEF RecordSource
    <2> HIDE DEF causes, t
    <2> QED
      BY <1>0, <2>1, <2>2 DEF TypeOK
  <1>10. invalid' = invalid /\ receipts' = receipts /\ claims' = claims
    BY DEF RecordSource
  <1> QED
    BY <1>1, <1>2, <1>3, <1>4, <1>5, <1>8, <1>9, <1>10 DEF Extended

\* A kept message has no cause to be erased, and a dropped one has.
LEMMA KeptUncaused ==
    ASSUME NEW e, NEW m \in Kept(e), NEW q \in rules, q.contact = Env[e].contact
    PROVE  /\ q.session = Session(e) => Hash(e, m) \notin q.hashes
           /\ Role(m) = "assistant" =>
                 \A ref \in Refs(e) : ref[1] = q.source => ~q.whole /\ ref[2] # q.version
  <1>1. Causes(rules, Env[e].contact, e, m, Refs(e)) = {}
    BY DEF Kept, Retained
  <1>2. ~( /\ q.contact = Env[e].contact
           /\ \/ q.session = Session(e) /\ Hash(e, m) \in q.hashes
              \/ /\ Role(m) = "assistant"
                 /\ \E ref \in Refs(e) : ref[1] = q.source /\ (q.whole \/ ref[2] = q.version))
    BY <1>1 DEF Causes
  <1> QED
    BY <1>2

LEMMA DroppedCaused ==
    ASSUME NEW e, NEW m \in Env[e].msgs \ Kept(e), Role(m) # "assistant"
    PROVE  \E q \in rules : /\ q.contact = Env[e].contact
                            /\ q.session = Session(e) /\ Hash(e, m) \in q.hashes
  <1>1. Causes(rules, Env[e].contact, e, m, Refs(e)) # {}
    BY DEF Kept, Retained
  <1> QED
    BY <1>1 DEF Causes

LEMMA RecordErased ==
    ASSUME MemoryInv, NEW e \in Envelopes, draft[e] # NotDrafted, RecordSource(e)
    PROVE  ErasedStaysErased'
  <1> DEFINE T == Env[e].turn  c == Env[e].contact
  <1>0. TypeOK /\ HashesAccounted(rules) /\ ErasedStaysErased /\ T \in Turns
    BY SourceAssumption DEF MemoryInv
  <1>1. /\ ~WholeErased(rules, T)
        /\ \/ src' = src
           \/ ~Present(T) /\ src' = [src EXCEPT ![T] = NewRow(e)]
        /\ rules \subseteq rules' /\ receipts' = receipts
        /\ \A r \in rules' \ rules :
              /\ r.source = T /\ r.contact = c /\ ~r.whole /\ r.session = Session(e)
              /\ r.hashes = Carried(rules, T) \cup {Hash(e, m) : m \in Env[e].msgs \ Kept(e)}
    BY <1>0, RecordFacts
  <1>2. Moved' = Moved
    BY <1>1 DEF Moved
  <1>3. DOMAIN src = Turns
    BY <1>0 DEF TypeOK, RowsOK
  <1> SUFFICES ASSUME NEW r \in rules', NEW u \in Turns, Present(u)'
               PROVE  /\ r.whole => r.source # u
                      /\ /\ u \notin Moved'
                         /\ src'[u].contact = r.contact /\ Session(src'[u].env) = r.session
                         /\ \A q \in rules' : ~Foreign(q.source, q.contact)'
                         => \A m \in src'[u].msgs : r.whole \/ Role(m) # "assistant" =>
                               Hash(src'[u].env, m) \notin r.hashes
    BY DEF ErasedStaysErased
  <1> HIDE DEF T, c
  <1>4. \/ Present(u) /\ src'[u] = src[u]
        \/ u = T /\ src'[u] = NewRow(e)
    BY <1>0, <1>1, <1>3 DEF Present
  <1>5. r.whole => r.source # u
    <2>1. CASE Present(u)
      BY <1>0, <1>1, <2>1 DEF ErasedStaysErased
    <2>2. CASE u = T
      BY <1>1, <2>2 DEF WholeErased
    <2> QED
      BY <1>4, <2>1, <2>2
  <1>6. ASSUME u \notin Moved', src'[u].contact = r.contact, Session(src'[u].env) = r.session,
               \A q \in rules' : ~Foreign(q.source, q.contact)',
               NEW m \in src'[u].msgs, r.whole \/ Role(m) # "assistant"
        PROVE  Hash(src'[u].env, m) \notin r.hashes
    <2> DEFINE h == Hash(src'[u].env, m)
    <2>0. h = <<Session(src'[u].env), m>>
      BY DEF Hash
    <2>1. \A p, q \in rules' : p.source = q.source => p.contact = q.contact
      BY <1>6 DEF Foreign
    <2>2. ASSUME NEW q \in rules, q.contact = src'[u].contact, q.session = Session(src'[u].env),
                 q.whole \/ Role(m) # "assistant"
          PROVE  h \notin q.hashes
      <3>1. CASE Present(u) /\ src'[u] = src[u]
        <4>1. \A p \in rules : ~Foreign(p.source, p.contact)
          BY <1>1, <2>1 DEF Foreign
        <4> QED
          BY <1>0, <1>2, <1>6, <2>2, <3>1, <4>1 DEF ErasedStaysErased
      <3>2. CASE u = T /\ src'[u] = NewRow(e)
        <4>1. src'[u].env = e /\ src'[u].contact = Env[e].contact /\ m \in Kept(e)
          BY <1>6, <3>2 DEF NewRow
        <4> QED
          BY <2>2, <4>1, KeptUncaused
      <3> QED
        BY <1>4, <3>1, <3>2
    <2> HIDE DEF h
    <2>3. CASE r \in rules
      BY <1>6, <2>2, <2>3 DEF h
    <2>4. CASE r \in rules' \ rules
      <3>1. /\ r.source = T /\ r.contact = c /\ ~r.whole /\ r.session = Session(e)
            /\ r.hashes = Carried(rules, T) \cup {Hash(e, x) : x \in Env[e].msgs \ Kept(e)}
        BY <1>1, <2>4
      <3>2. Role(m) # "assistant"
        BY <1>6, <3>1
      <3>3. ASSUME h \in Carried(rules, T) PROVE FALSE
        <4>1. PICK p \in rules : p.source = T /\ h \in p.hashes
          BY <3>3 DEF Carried
        <4>2. PICK q \in rules : q.source = T /\ q.session = h[1] /\ h \in q.hashes
          BY <1>0, <4>1 DEF HashesAccounted
        <4>3. q.contact = src'[u].contact
          BY <1>1, <1>6, <2>1, <3>1, <4>2
        <4>4. q.session = Session(src'[u].env)
          BY <2>0, <4>2
        <4> QED
          BY <2>2, <3>2, <4>2, <4>3, <4>4
      <3>4. ASSUME NEW x \in Env[e].msgs \ Kept(e), h = Hash(e, x) PROVE FALSE
        <4>1. x = m
          BY <2>0, <3>4 DEF Hash
        <4>2. PICK q \in rules : /\ q.contact = Env[e].contact
                                 /\ q.session = Session(e) /\ Hash(e, x) \in q.hashes
          BY <3>2, <4>1, DroppedCaused
        <4> QED
          BY <1>6, <2>2, <3>1, <3>2, <3>4, <4>2 DEF c
      <3> QED
        BY <3>1, <3>3, <3>4 DEF h
    <2> QED
      BY <2>3, <2>4
  <1> QED
    BY <1>5, <1>6

LEMMA RecordCites ==
    ASSUME MemoryInv, NEW e \in Envelopes, draft[e] # NotDrafted, RecordSource(e)
    PROVE  AnswersCiteLiving'
  <1> DEFINE T == Env[e].turn  c == Env[e].contact
  <1>0. TypeOK /\ RowsOK /\ HashesAccounted(rules) /\ AnswersCiteLiving /\ T \in Turns
    BY SourceAssumption DEF MemoryInv, TypeOK
  <1>1. /\ RefsValid(e)
        /\ \/ src' = src
           \/ ~Present(T) /\ src' = [src EXCEPT ![T] = NewRow(e)]
        /\ rules \subseteq rules' /\ receipts' = receipts /\ invalid' = invalid
        /\ NewRow(e) \in Rows
    BY <1>0, RecordFacts
  <1>2. Moved' = Moved
    BY <1>1 DEF Moved
  <1>3. DOMAIN src = Turns
    BY <1>0 DEF RowsOK
  <1>4. ASSUME NEW s \in Turns, Present(s)
        PROVE  Present(s)' /\ src'[s] = src[s] /\ Version(s)' = Version(s)
    BY <1>1, <1>3, <1>4 DEF Present, Version
  <1> SUFFICES ASSUME NEW u \in Turns, Present(u)', u \notin invalid' \cup Moved',
                      NEW m \in src'[u].msgs, Role(m) = "assistant",
                      NEW ref \in src'[u].refs,
                      ~\E r \in rules' : r.source = ref[1] /\ r.contact # src'[u].contact
               PROVE  /\ Present(ref[1])' /\ Version(ref[1])' = ref[2]
                      /\ src'[ref[1]].contact = src'[u].contact
    BY DEF AnswersCiteLiving, Foreign
  <1>5. CASE Present(u) /\ src'[u] = src[u]
    <2>1. ~Foreign(ref[1], src[u].contact)
      BY <1>1, <1>5 DEF Foreign
    <2>2. /\ Present(ref[1]) /\ Version(ref[1]) = ref[2]
          /\ src[ref[1]].contact = src[u].contact
      BY <1>0, <1>1, <1>2, <1>5, <2>1 DEF AnswersCiteLiving
    <2>3. ref[1] \in Turns
      BY <1>0, <1>5, RefTurn
    <2> QED
      BY <1>4, <1>5, <2>2, <2>3
  <1>6. CASE u = T /\ src'[u] = NewRow(e)
    <2>1. ref \in Refs(e) /\ m \in Kept(e) /\ src'[u].contact = Env[e].contact
      BY <1>6 DEF NewRow
    <2>2. ref[1] \in Turns
      BY <1>1, <2>1 DEF NewRow, Rows
    <2>3. CASE Readable(ref[1], Env[e].contact, Session(e)) /\ Version(ref[1]) = ref[2]
      BY <1>4, <2>1, <2>2, <2>3 DEF Readable
    <2>4. CASE \E r \in rules : Covers(r, e, ref[1]) /\ r.version = ref[2]
      <3>1. PICK r \in rules : r.source = ref[1] /\ r.contact = Env[e].contact /\ r.version = ref[2]
        BY <2>4 DEF Covers
      <3> QED
        BY <2>1, <3>1, KeptUncaused
    <2> QED
      BY <1>1, <2>1, <2>3, <2>4 DEF RefsValid
  <1>7. \/ Present(u) /\ src'[u] = src[u]
        \/ u = T /\ src'[u] = NewRow(e)
    BY <1>0, <1>1, <1>3 DEF Present
  <1> QED
    BY <1>5, <1>6, <1>7

\* Rows that keep what they have keep their claims.
LEMMA ClaimsStay ==
    ASSUME KeysUnique, ClaimsGrounded, claims' = claims, invalid' = invalid,
           \A k \in claims : src'[k.turn] = src[k.turn]
    PROVE  KeysUnique' /\ ClaimsGrounded'
  <1>1. KeysUnique'
    BY DEF KeysUnique, Key
  <1>2. ClaimsGrounded'
    BY DEF ClaimsGrounded, Present
  <1> QED
    BY <1>1, <1>2

LEMMA RecordClaims ==
    ASSUME MemoryInv, NEW e \in Envelopes, draft[e] # NotDrafted, RecordSource(e)
    PROVE  KeysUnique' /\ ClaimsGrounded'
  <1>0. TypeOK /\ RowsOK /\ HashesAccounted(rules) /\ KeysUnique /\ ClaimsGrounded
    BY DEF MemoryInv, TypeOK
  <1>1. /\ src' = src \/ (~Present(Env[e].turn) /\ src' = [src EXCEPT ![Env[e].turn] = NewRow(e)])
        /\ invalid' = invalid /\ claims' = claims
    BY <1>0, RecordFacts
  <1>2. ASSUME NEW k \in claims PROVE src'[k.turn] = src[k.turn]
    <2>1. Present(k.turn) /\ k.turn \in Turns
      BY <1>0 DEF ClaimsGrounded, TypeOK, ClaimRows
    <2> QED
      BY <1>0, <1>1, <2>1 DEF RowsOK
  <1> QED
    BY <1>0, <1>1, <1>2, ClaimsStay

-----------------------------------------------------------------------------
(* erase_sources.                                                          *)

\* The tombstones of the sources that are named.
Tombs(c, sel) ==
    rules \cup UNION {Append(rules, t, c, src[t].env, src[t].msgs, src[t].msgs, TRUE)
                         : t \in sel \cap Mine(c)}

LEMMA TombsFacts ==
    ASSUME TypeOK, HashesAccounted(rules), NEW c \in Contacts, NEW sel \in SUBSET Turns
    PROVE  /\ Tombs(c, sel) \in SUBSET Tombstones
           /\ rules \subseteq Tombs(c, sel)
           /\ HashesAccounted(Tombs(c, sel))
           /\ \A r \in Tombs(c, sel) \ rules : r.contact = c /\ r.source \in Mine(c)
  <1> DEFINE A(t) == Append(rules, t, c, src[t].env, src[t].msgs, src[t].msgs, TRUE)
  <1>0. RowsOK /\ rules \in SUBSET Tombstones
    BY DEF TypeOK
  <1>1. ASSUME NEW t \in sel \cap Mine(c)
        PROVE  /\ A(t) \in SUBSET Tombstones /\ HashesAccounted(A(t))
               /\ \A r \in A(t) \ rules : r.contact = c /\ r.source = t
    <2> DEFINE e == src[t].env  ms == src[t].msgs
    <2>1. t \in Turns /\ Present(t)
      BY DEF Mine
    <2>2. e \in Envelopes /\ ms \in SUBSET Messages
      BY <1>0, <2>1, RowFields
    <2> HIDE DEF e, ms
    <2>3. Extended(rules, Append(rules, t, c, e, ms, ms, TRUE), t, c, e, ms)
      BY <1>0, <2>1, <2>2, AppendWhole
    <2>4. Extended(rules, A(t), t, c, e, ms)
      BY <2>3 DEF e, ms
    <2> HIDE DEF A
    <2> QED
      BY <2>4 DEF Extended
  <1> HIDE DEF A
  <1>2. Tombs(c, sel) = rules \cup UNION {A(t) : t \in sel \cap Mine(c)}
    BY DEF Tombs, A
  <1>3. ASSUME NEW r \in Tombs(c, sel)
        PROVE  r \in rules \/ \E t \in sel \cap Mine(c) : r \in A(t)
    BY <1>2
  <1>4. \A t \in sel \cap Mine(c) : A(t) \subseteq Tombs(c, sel)
    BY <1>2
  <1>5. rules \subseteq Tombs(c, sel)
    BY <1>2
  <1>6. Tombs(c, sel) \in SUBSET Tombstones
    BY <1>0, <1>1, <1>3
  <1>7. HashesAccounted(Tombs(c, sel))
    <2> SUFFICES ASSUME NEW r \in Tombs(c, sel), NEW h \in r.hashes
                 PROVE  \E q \in Tombs(c, sel) :
                           q.source = r.source /\ q.session = h[1] /\ h \in q.hashes
      BY DEF HashesAccounted
    <2>1. CASE r \in rules
      BY <1>5, <2>1 DEF HashesAccounted
    <2>2. ASSUME NEW t \in sel \cap Mine(c), r \in A(t)
          PROVE  \E q \in Tombs(c, sel) :
                    q.source = r.source /\ q.session = h[1] /\ h \in q.hashes
      <3>1. HashesAccounted(A(t))
        BY <1>1
      <3> QED
        BY <1>4, <2>2, <3>1 DEF HashesAccounted
    <2> QED
      BY <1>3, <2>1, <2>2
  <1>8. ASSUME NEW r \in Tombs(c, sel) \ rules PROVE r.contact = c /\ r.source \in Mine(c)
    BY <1>1, <1>3
  <1> QED
    BY <1>5, <1>6, <1>7, <1>8

\* How the rows, the tombstones and the claims follow from the end of the loop.
ErasedTo(c, end) ==
    /\ end.held \subseteq Held(c)
    /\ Gone(c, end.held, rules') = {}
    /\ \A u \in Turns \ Mine(c) : src'[u] = src[u]
    /\ \A u \in Mine(c) :
          /\ Of(u, end.held) \in SUBSET src[u].msgs
          /\ src'[u] = IF Of(u, end.held) = {} THEN NoSource
                       ELSE [src[u] EXCEPT !.msgs = Of(u, end.held)]
          /\ Of(u, end.held) # src[u].msgs =>
                Told(c, u, rules') /\ \E x \in redacted' : x[1] = u
    /\ claims' = EraseRemoved(claims, {u \in Mine(c) : Of(u, end.held) # src[u].msgs}, end.held)

LEMMA EraseFacts ==
    ASSUME TypeOK, HashesAccounted(rules), NEW c \in Contacts, NEW sel \in Selections,
           EraseSources(c, sel)
    PROVE  /\ \E end : ErasedTo(c, end)
           /\ src' = [u \in Turns |-> src'[u]]
           /\ rules' \in SUBSET Tombstones /\ rules \subseteq rules' /\ HashesAccounted(rules')
           /\ \A r \in rules' \ rules : r.contact = c /\ (r.whole => r.source \in Mine(c))
           /\ redacted' \in SUBSET (Turns \X Turns) /\ redacted \subseteq redacted'
           /\ invalid' = invalid /\ receipts' = receipts
           /\ UNCHANGED hostVars
  <1> DEFINE tombs == Tombs(c, sel)
             changed(end) == {x[1] : x \in Held(c) \ end.held}
             emptied(end) == {t \in changed(end) : Of(t, end.held) = {}}
  <1>0. RowsOK /\ sel \in SUBSET Turns /\ sel # {}
    BY SourceAssumption DEF TypeOK
  <1>1. PICK end \in EraseClosure(c, tombs) :
           /\ src' = [t \in Turns |->
                  IF t \in emptied(end) THEN NoSource
                  ELSE IF t \in changed(end) THEN [src[t] EXCEPT !.msgs = Of(t, end.held)]
                  ELSE src[t]]
           /\ rules' = end.rules
           /\ redacted' = redacted \cup (changed(end) \X sel)
           /\ claims' = EraseRemoved(claims, changed(end), end.held)
    BY DEF EraseSources, Tombs, Mine
  <1>2. /\ tombs \in SUBSET Tombstones /\ rules \subseteq tombs /\ HashesAccounted(tombs)
        /\ \A r \in tombs \ rules : r.contact = c /\ r.source \in Mine(c)
    BY <1>0, TombsFacts
  <1> HIDE DEF tombs
  <1>3. LoopInv(c, tombs, end) /\ Gone(c, end.held, end.rules) = {}
    BY <1>0, <1>1, <1>2, ClosureEnds
  <1>4. /\ end.held \subseteq Held(c) /\ end.rules \in SUBSET Tombstones
        /\ tombs \subseteq end.rules /\ HashesAccounted(end.rules)
        /\ \A r \in end.rules \ tombs : r.contact = c /\ ~r.whole
    BY <1>3 DEF LoopInv
  <1>5. ASSUME NEW u \in Mine(c)
        PROVE  /\ Of(u, end.held) \in SUBSET src[u].msgs
               /\ u \in changed(end) <=> Of(u, end.held) # src[u].msgs
    <2>1. \A m : m \in Of(u, end.held) <=> <<u, m>> \in end.held
      <3>1. \A y \in end.held : y = <<y[1], y[2]>>
        BY <1>0, <1>4, HeldPairs
      <3> QED
        BY <3>1 DEF Of
    <2>2. \A m : <<u, m>> \in Held(c) <=> m \in src[u].msgs
      BY <1>0, HeldPairs
    <2>3. Of(u, end.held) \in SUBSET src[u].msgs
      BY <1>4, <2>1, <2>2
    <2>4. ASSUME u \in changed(end) PROVE Of(u, end.held) # src[u].msgs
      <3>1. PICK x \in Held(c) \ end.held : x[1] = u
        BY <2>4
      <3>2. x = <<u, x[2]>>
        BY <1>0, <3>1, HeldPairs
      <3> QED
        BY <2>1, <2>2, <3>1, <3>2
    <2>5. ASSUME Of(u, end.held) # src[u].msgs PROVE u \in changed(end)
      <3>1. PICK m \in src[u].msgs : m \notin Of(u, end.held)
        BY <2>3, <2>5
      <3>2. <<u, m>> \in Held(c) \ end.held
        BY <2>1, <2>2, <3>1
      <3>3. <<u, m>>[1] = u
        OBVIOUS
      <3> QED
        BY <3>2, <3>3
    <2> QED
      BY <2>3, <2>4, <2>5
  <1>6. changed(end) \subseteq Mine(c)
    <2>1. ASSUME NEW x \in Held(c) PROVE x[1] \in Mine(c)
      <3>1. x = <<x[1], x[2]>>
        BY <1>0, HeldPairs
      <3> QED
        BY <1>0, <3>1, HeldPairs
    <2> QED
      BY <2>1
  <1>7. changed(end) = {u \in Mine(c) : Of(u, end.held) # src[u].msgs}
    BY <1>5, <1>6
  <1>8. ASSUME NEW u \in Mine(c)
        PROVE  src'[u] = IF Of(u, end.held) = {} THEN NoSource
                         ELSE [src[u] EXCEPT !.msgs = Of(u, end.held)]
    <2>0. u \in Turns /\ Present(u)
      BY DEF Mine
    <2>1. /\ src[u].msgs # {}
          /\ src[u] = [env |-> src[u].env, contact |-> src[u].contact,
                       msgs |-> src[u].msgs, refs |-> src[u].refs]
      BY <1>0, <2>0, RowFields
    <2>2. CASE u \in changed(end)
      BY <1>1, <2>0, <2>2
    <2>3. CASE u \notin changed(end)
      <3>1. Of(u, end.held) = src[u].msgs
        BY <1>5, <2>3
      <3>2. src'[u] = src[u]
        BY <1>1, <2>0, <2>3
      <3>3. [src[u] EXCEPT !.msgs = src[u].msgs] = src[u]
        BY <2>1
      <3> QED
        BY <2>1, <3>1, <3>2, <3>3
    <2> QED
      BY <2>2, <2>3
  <1>9. ASSUME NEW u \in Mine(c), Of(u, end.held) # src[u].msgs
        PROVE  Told(c, u, rules') /\ \E x \in redacted' : x[1] = u
    <2>1. Told(c, u, rules')
      BY <1>1, <1>3, <1>9 DEF LoopInv
    <2>2. PICK s \in sel : TRUE
      BY <1>0
    <2>3. <<u, s>> \in redacted'
      BY <1>1, <1>5, <1>9, <2>2
    <2>4. <<u, s>>[1] = u
      OBVIOUS
    <2> QED
      BY <2>1, <2>3, <2>4
  <1>10. \A u \in Turns \ Mine(c) : src'[u] = src[u]
    BY <1>1, <1>6
  <1>11. redacted' \in SUBSET (Turns \X Turns) /\ redacted \subseteq redacted'
    <2>1. changed(end) \subseteq Turns
      BY <1>6 DEF Mine
    <2> HIDE DEF changed
    <2> QED
      BY <1>0, <1>1, <2>1 DEF TypeOK
  <1>12. src' = [u \in Turns |-> src'[u]]
    BY <1>1
  <1>13. ErasedTo(c, end)
    <2>1. claims' = EraseRemoved(claims, {u \in Mine(c) : Of(u, end.held) # src[u].msgs}, end.held)
      BY <1>1, <1>7
    <2>2. Gone(c, end.held, rules') = {}
      BY <1>1, <1>3
    <2> QED
      BY <1>4, <1>5, <1>8, <1>9, <1>10, <2>1, <2>2 DEF ErasedTo
  <1>14. /\ rules' \in SUBSET Tombstones /\ rules \subseteq rules' /\ HashesAccounted(rules')
         /\ \A r \in rules' \ rules : r.contact = c /\ (r.whole => r.source \in Mine(c))
    BY <1>1, <1>2, <1>4
  <1>15. invalid' = invalid /\ receipts' = receipts /\ UNCHANGED hostVars
    BY DEF EraseSources
  <1> QED
    BY <1>11, <1>12, <1>13, <1>14, <1>15

\* A row that is left has what the loop left of it, and one that lost
\* something was touched by the loop.
LEMMA EraseRows ==
    ASSUME RowsOK, NEW c, NEW end, ErasedTo(c, end), src' = [u \in Turns |-> src'[u]]
    PROVE  /\ RowsOK'
           /\ \A u \in Turns : Present(u)' =>
                 /\ Present(u)
                 /\ src'[u].env = src[u].env /\ src'[u].contact = src[u].contact
                 /\ src'[u].refs = src[u].refs /\ src'[u].msgs \subseteq src[u].msgs
                 /\ src[u].contact = c => \A m \in src'[u].msgs : <<u, m>> \in end.held
                 /\ src[u].contact # c => src'[u] = src[u]
           /\ \A u \in Turns : Present(u) /\ src'[u] # src[u] =>
                 u \in Mine(c) /\ Of(u, end.held) # src[u].msgs
           /\ \A u \in Mine(c) : \A m : <<u, m>> \in end.held =>
                 Present(u)' /\ m \in src'[u].msgs /\ src'[u].contact = c
  <1> DEFINE left(u) == Of(u, end.held)
  <1>1. ASSUME NEW u \in Turns \ Mine(c)
        PROVE  src'[u] = src[u]
    BY DEF ErasedTo
  <1>2. ASSUME NEW u \in Mine(c)
        PROVE  /\ u \in Turns /\ Present(u) /\ left(u) \in SUBSET src[u].msgs
               /\ left(u) = {} => src'[u] = NoSource
               /\ left(u) # {} =>
                     /\ src'[u] = [env |-> src[u].env, contact |-> c, msgs |-> left(u),
                                   refs |-> src[u].refs]
                     /\ src'[u] \in Rows
               /\ left(u) = src[u].msgs => src'[u] = src[u]
    <2>0. u \in Turns /\ Present(u) /\ src[u].contact = c
      BY DEF Mine
    <2>1. /\ src[u] = [env |-> src[u].env, contact |-> src[u].contact,
                       msgs |-> src[u].msgs, refs |-> src[u].refs]
          /\ src[u].env \in Envelopes /\ src[u].contact \in Contacts
          /\ src[u].msgs \in SUBSET Messages /\ src[u].msgs # {}
          /\ src[u].refs \in SUBSET (Turns \X Versions)
      BY <2>0, RowFields
    <2>2. /\ left(u) \in SUBSET src[u].msgs
          /\ src'[u] = IF left(u) = {} THEN NoSource ELSE [src[u] EXCEPT !.msgs = left(u)]
      BY DEF ErasedTo
    <2> HIDE DEF left
    <2>3. [src[u] EXCEPT !.msgs = left(u)]
             = [env |-> src[u].env, contact |-> c, msgs |-> left(u), refs |-> src[u].refs]
      BY <2>0, <2>1
    <2>4. left(u) \in SUBSET Messages
      BY <2>1, <2>2
    <2>5. [env |-> src[u].env, contact |-> c, msgs |-> left(u), refs |-> src[u].refs] \in Rows
      BY <2>0, <2>1, <2>4 DEF Rows
    <2>6. left(u) = src[u].msgs => [src[u] EXCEPT !.msgs = left(u)] = src[u]
      BY <2>1
    <2> QED
      BY <2>0, <2>1, <2>2, <2>3, <2>5, <2>6
  <1>3. \A u \in Mine(c) : \A m \in left(u) : <<u, m>> \in end.held
    <2>1. ASSUME NEW y \in end.held PROVE y = <<y[1], y[2]>>
      BY HeldPairs DEF ErasedTo
    <2> QED
      BY <2>1 DEF Of
  <1> HIDE DEF left
  <1>4. ASSUME NEW u \in Turns, Present(u)'
        PROVE  /\ Present(u) /\ src'[u] \in Rows /\ src'[u].msgs # {}
               /\ src'[u].env = src[u].env /\ src'[u].contact = src[u].contact
               /\ src'[u].refs = src[u].refs /\ src'[u].msgs \subseteq src[u].msgs
               /\ src[u].contact = c => \A m \in src'[u].msgs : <<u, m>> \in end.held
               /\ src[u].contact # c => src'[u] = src[u]
    <2>1. CASE u \in Mine(c)
      <3>1. left(u) # {}
        BY <1>2, <1>4, <2>1 DEF Present
      <3>2. src[u].contact = c
        BY <2>1 DEF Mine
      <3>3. /\ Present(u) /\ src'[u] \in Rows /\ left(u) \in SUBSET src[u].msgs
            /\ src'[u] = [env |-> src[u].env, contact |-> c, msgs |-> left(u),
                          refs |-> src[u].refs]
        BY <1>2, <2>1, <3>1
      <3>4. src'[u].msgs = left(u)
        BY <3>3
      <3> QED
        BY <1>3, <2>1, <3>1, <3>2, <3>3, <3>4
    <2>2. CASE u \notin Mine(c)
      <3>1. src'[u] = src[u] /\ Present(u)
        BY <1>1, <1>4, <2>2 DEF Present
      <3>2. src[u].contact # c
        BY <2>2, <3>1 DEF Mine
      <3> QED
        BY <3>1, <3>2, RowFields
    <2> QED
      BY <2>1, <2>2
  <1>5. RowsOK'
    <2>1. \A u \in Turns : src'[u] \in Rows \cup {NoSource}
      BY <1>4 DEF Present
    <2>2. src' \in [Turns -> Rows \cup {NoSource}]
      BY <2>1
    <2> QED
      BY <1>4, <2>2 DEF RowsOK
  <1>6. ASSUME NEW u \in Turns, Present(u), src'[u] # src[u]
        PROVE  u \in Mine(c) /\ Of(u, end.held) # src[u].msgs
    BY <1>1, <1>2, <1>6 DEF left
  <1>7. ASSUME NEW u \in Mine(c), NEW m, <<u, m>> \in end.held
        PROVE  Present(u)' /\ m \in src'[u].msgs /\ src'[u].contact = c
    <2>1. m \in left(u)
      <3>1. <<u, m>>[1] = u /\ <<u, m>>[2] = m
        OBVIOUS
      <3> QED
        BY <1>7, <3>1 DEF left, Of
    <2>2. /\ src'[u] \in Rows
          /\ src'[u] = [env |-> src[u].env, contact |-> c, msgs |-> left(u), refs |-> src[u].refs]
      BY <1>2, <2>1
    <2>3. Present(u)'
      BY <2>2, SourceAssumption DEF Present
    <2> QED
      BY <2>1, <2>2, <2>3
  <1> QED
    BY <1>4, <1>5, <1>6, <1>7

\* Where the loop ended nothing it left has a cause to be erased.
LEMMA NothingGone ==
    ASSUME NEW c, NEW held, NEW rs, Gone(c, held, rs) = {}, NEW u, NEW m, <<u, m>> \in held,
           NEW r \in rs, r.contact = c
    PROVE  /\ r.whole => r.source # u
           /\ r.session = Session(src[u].env) => Hash(src[u].env, m) \notin r.hashes
           /\ Role(m) = "assistant" =>
                 \A ref \in src[u].refs : ref[1] = r.source => ~r.whole /\ ref[2] # r.version
  <1> DEFINE x == <<u, m>>
  <1>1. x[1] = u /\ x[2] = m
    OBVIOUS
  <1>2. /\ ~\E q \in rs : q.contact = c /\ q.source = x[1] /\ q.whole
        /\ Causes(rs, c, src[x[1]].env, x[2], src[x[1]].refs) = {}
    BY DEF Gone
  <1> HIDE DEF x
  <1>3. Causes(rs, c, src[u].env, m, src[u].refs) = {}
    BY <1>1, <1>2
  <1>4. ~( /\ r.contact = c
           /\ \/ r.session = Session(src[u].env) /\ Hash(src[u].env, m) \in r.hashes
              \/ /\ Role(m) = "assistant"
                 /\ \E ref \in src[u].refs : ref[1] = r.source /\ (r.whole \/ ref[2] = r.version))
    BY <1>3 DEF Causes
  <1> QED
    BY <1>1, <1>2, <1>4

LEMMA EraseErased ==
    ASSUME MemoryInv, NEW c \in Contacts, NEW sel \in Selections, EraseSources(c, sel)
    PROVE  ErasedStaysErased'
  <1>0. TypeOK /\ RowsOK /\ HashesAccounted(rules) /\ ErasedStaysErased
    BY DEF MemoryInv, TypeOK
  <1>1. /\ src' = [u \in Turns |-> src'[u]]
        /\ rules \subseteq rules' /\ receipts' = receipts
        /\ \A r \in rules' \ rules : r.contact = c /\ (r.whole => r.source \in Mine(c))
    BY <1>0, EraseFacts
  <1>2. PICK end : ErasedTo(c, end)
    BY <1>0, EraseFacts
  <1>3. /\ RowsOK'
        /\ \A u \in Turns : Present(u)' =>
              /\ Present(u)
              /\ src'[u].env = src[u].env /\ src'[u].contact = src[u].contact
              /\ src[u].contact = c => \A m \in src'[u].msgs : <<u, m>> \in end.held
              /\ src[u].contact # c => src'[u] = src[u]
    BY <1>0, <1>1, <1>2, EraseRows
  <1>4. Gone(c, end.held, rules') = {}
    BY <1>2 DEF ErasedTo
  <1>5. Moved' = Moved
    BY <1>1 DEF Moved
  <1> SUFFICES ASSUME NEW r \in rules', NEW u \in Turns, Present(u)'
               PROVE  /\ r.whole => r.source # u
                      /\ /\ u \notin Moved'
                         /\ src'[u].contact = r.contact /\ Session(src'[u].env) = r.session
                         /\ \A q \in rules' : ~Foreign(q.source, q.contact)'
                         => \A m \in src'[u].msgs : r.whole \/ Role(m) # "assistant" =>
                               Hash(src'[u].env, m) \notin r.hashes
    BY DEF ErasedStaysErased
  <1>6. ASSUME r.whole PROVE r.source # u
    <2>1. CASE r \in rules
      BY <1>0, <1>3, <1>6, <2>1 DEF ErasedStaysErased
    <2>2. CASE r \notin rules
      <3>1. SUFFICES ASSUME r.source = u PROVE FALSE
        OBVIOUS
      <3>2. r.contact = c /\ src[u].contact = c
        BY <1>1, <1>6, <2>2, <3>1 DEF Mine
      <3>3. PICK m : m \in src'[u].msgs
        BY <1>3 DEF RowsOK
      <3>4. <<u, m>> \in end.held
        BY <1>3, <3>2, <3>3
      <3> QED
        BY <1>4, <1>6, <3>1, <3>2, <3>4, NothingGone
    <2> QED
      BY <2>1, <2>2
  <1>7. ASSUME u \notin Moved', src'[u].contact = r.contact, Session(src'[u].env) = r.session,
               \A q \in rules' : ~Foreign(q.source, q.contact)',
               NEW m \in src'[u].msgs, r.whole \/ Role(m) # "assistant"
        PROVE  Hash(src'[u].env, m) \notin r.hashes
    <2>1. CASE src[u].contact = c
      <3>1. <<u, m>> \in end.held /\ r.contact = c /\ r.session = Session(src[u].env)
        BY <1>3, <1>7, <2>1
      <3> QED
        BY <1>3, <1>4, <3>1, NothingGone
    <2>2. CASE src[u].contact # c
      <3>1. r \in rules /\ src'[u] = src[u] /\ Present(u)
        BY <1>1, <1>3, <1>7, <2>2
      <3>2. \A q \in rules : ~Foreign(q.source, q.contact)
        BY <1>1, <1>7 DEF Foreign
      <3> QED
        BY <1>0, <1>5, <1>7, <3>1, <3>2 DEF ErasedStaysErased
    <2> QED
      BY <2>1, <2>2
  <1> QED
    BY <1>6, <1>7

LEMMA EraseCites ==
    ASSUME MemoryInv, NEW c \in Contacts, NEW sel \in Selections, EraseSources(c, sel)
    PROVE  AnswersCiteLiving'
  <1>0. TypeOK /\ RowsOK /\ HashesAccounted(rules) /\ AnswersCiteLiving
    BY DEF MemoryInv, TypeOK
  <1>1. /\ src' = [u \in Turns |-> src'[u]]
        /\ rules \subseteq rules' /\ receipts' = receipts /\ invalid' = invalid
    BY <1>0, EraseFacts
  <1>2. PICK end : ErasedTo(c, end)
    BY <1>0, EraseFacts
  <1>3. /\ \A u \in Turns : Present(u)' =>
              /\ Present(u)
              /\ src'[u].contact = src[u].contact
              /\ src'[u].refs = src[u].refs /\ src'[u].msgs \subseteq src[u].msgs
              /\ src[u].contact = c => \A m \in src'[u].msgs : <<u, m>> \in end.held
        /\ \A u \in Turns : Present(u) /\ src'[u] # src[u] =>
              u \in Mine(c) /\ Of(u, end.held) # src[u].msgs
    BY <1>0, <1>1, <1>2, EraseRows
  <1>4. Gone(c, end.held, rules') = {}
    BY <1>2 DEF ErasedTo
  <1>5. Moved' = Moved
    BY <1>1 DEF Moved
  <1> SUFFICES ASSUME NEW u \in Turns, Present(u)', u \notin invalid' \cup Moved',
                      NEW m \in src'[u].msgs, Role(m) = "assistant",
                      NEW ref \in src'[u].refs,
                      ~\E r \in rules' : r.source = ref[1] /\ r.contact # src'[u].contact
               PROVE  /\ Present(ref[1])' /\ Version(ref[1])' = ref[2]
                      /\ src'[ref[1]].contact = src'[u].contact
    BY DEF AnswersCiteLiving, Foreign
  <1>6. Present(u) /\ m \in src[u].msgs /\ ref \in src[u].refs /\ src'[u].contact = src[u].contact
    BY <1>3
  <1>7. /\ Present(ref[1]) /\ Version(ref[1]) = ref[2]
        /\ src[ref[1]].contact = src[u].contact
    <2>1. ~Foreign(ref[1], src[u].contact)
      BY <1>1, <1>6 DEF Foreign
    <2> QED
      BY <1>0, <1>1, <1>5, <1>6, <2>1 DEF AnswersCiteLiving
  <1>8. ref[1] \in Turns
    BY <1>0, <1>6, RefTurn
  <1>9. src'[ref[1]] = src[ref[1]]
    <2> SUFFICES ASSUME src'[ref[1]] # src[ref[1]] PROVE FALSE
      OBVIOUS
    <2>1. ref[1] \in Mine(c) /\ Of(ref[1], end.held) # src[ref[1]].msgs
      BY <1>3, <1>7, <1>8
    <2>2. src[u].contact = c
      BY <1>7, <2>1 DEF Mine
    <2>3. Told(c, ref[1], rules')
      BY <1>2, <2>1 DEF ErasedTo
    <2>4. PICK r \in rules' : r.source = ref[1] /\ (r.whole \/ r.version = Version(ref[1]))
      BY <2>3 DEF Told
    <2>5. r.contact = c
      BY <1>6, <2>2, <2>4
    <2>6. <<u, m>> \in end.held
      BY <1>3, <2>2
    <2> QED
      BY <1>4, <1>6, <1>7, <2>4, <2>5, <2>6, NothingGone
  <1> QED
    BY <1>6, <1>7, <1>9 DEF Present, Version

\* erase_removed takes the claims that lost their words with those they
\* grounded; the rest stays grounded.
LEMMA RemovedClaims ==
    ASSUME TypeOK, KeysUnique, ClaimsGrounded, NEW T, NEW kept,
           claims' = EraseRemoved(claims, T, kept),
           \A k \in claims : k.turn \notin T \/ <<k.turn, k.msg>> \in kept =>
              /\ Present(k.turn)' /\ k.turn \notin invalid'
              /\ k.msg \in src'[k.turn].msgs /\ k.owner = src'[k.turn].contact
    PROVE  KeysUnique' /\ ClaimsGrounded' /\ claims' \subseteq claims
  <1> DEFINE gone == {k \in claims : k.turn \in T /\ <<k.turn, k.msg>> \notin kept}
  <1>1. claims' = {k \in claims \ gone : \A g \in gone : k.basis # <<g.turn, g.msg>>}
    BY DEF EraseRemoved
  <1>2. claims' \subseteq claims
    BY <1>1
  <1>3. KeysUnique'
    BY <1>2 DEF KeysUnique, Key
  <1>4. ASSUME NEW k \in claims'
        PROVE  /\ Present(k.turn)' /\ k.turn \notin invalid'
               /\ k.msg \in src'[k.turn].msgs
               /\ k.owner = src'[k.turn].contact
    BY <1>1
  <1>5. ASSUME NEW k \in claims', k.basis # NoClaim
        PROVE  \E g \in claims' :
                  <<g.turn, g.msg>> = k.basis /\ g.basis = NoClaim /\ g.owner = k.owner
    <2>1. PICK g \in claims :
             <<g.turn, g.msg>> = k.basis /\ g.basis = NoClaim /\ g.owner = k.owner
      BY <1>2, <1>5 DEF ClaimsGrounded
    <2>2. g \notin gone
      BY <1>1, <2>1
    <2>3. \A x \in gone : <<x.turn, x.msg>> \in Turns \X Messages
      BY DEF TypeOK, ClaimRows
    <2> HIDE DEF gone
    <2>4. g \in claims'
      <3>1. NoClaim \notin Turns \X Messages
        BY MemoryAssumption
      <3>2. ASSUME NEW x \in gone PROVE g.basis # <<x.turn, x.msg>>
        BY <2>1, <2>3, <3>1
      <3> QED
        BY <1>1, <2>2, <3>2
    <2> QED
      BY <2>1, <2>4
  <1> QED
    BY <1>2, <1>3, <1>4, <1>5 DEF ClaimsGrounded

LEMMA EraseClaims ==
    ASSUME MemoryInv, NEW c \in Contacts, NEW sel \in Selections, EraseSources(c, sel)
    PROVE  KeysUnique' /\ ClaimsGrounded' /\ claims' \subseteq claims
  <1>0. TypeOK /\ RowsOK /\ HashesAccounted(rules) /\ KeysUnique /\ ClaimsGrounded
    BY DEF MemoryInv, TypeOK
  <1>1. src' = [u \in Turns |-> src'[u]] /\ invalid' = invalid
    BY <1>0, EraseFacts
  <1>2. PICK end : ErasedTo(c, end)
    BY <1>0, EraseFacts
  <1>3. /\ \A u \in Turns : Present(u) /\ src'[u] # src[u] =>
              u \in Mine(c) /\ Of(u, end.held) # src[u].msgs
        /\ \A u \in Mine(c) : \A m : <<u, m>> \in end.held =>
              Present(u)' /\ m \in src'[u].msgs /\ src'[u].contact = c
    BY <1>0, <1>1, <1>2, EraseRows
  <1> DEFINE T == {u \in Mine(c) : Of(u, end.held) # src[u].msgs}
  <1>4. claims' = EraseRemoved(claims, T, end.held) /\ end.held \subseteq Held(c)
    BY <1>2 DEF ErasedTo
  <1>5. ASSUME NEW k \in claims, k.turn \notin T \/ <<k.turn, k.msg>> \in end.held
        PROVE  /\ Present(k.turn)' /\ k.turn \notin invalid'
               /\ k.msg \in src'[k.turn].msgs /\ k.owner = src'[k.turn].contact
    <2>1. /\ k.turn \in Turns /\ Present(k.turn) /\ k.turn \notin invalid
          /\ k.msg \in src[k.turn].msgs /\ k.owner = src[k.turn].contact
      BY <1>0 DEF ClaimsGrounded, TypeOK, ClaimRows
    <2>2. CASE k.turn \notin T
      <3>1. src'[k.turn] = src[k.turn]
        BY <1>3, <2>1, <2>2
      <3> QED
        BY <1>1, <2>1, <3>1 DEF Present
    <2>3. CASE <<k.turn, k.msg>> \in end.held
      <3>1. k.turn \in Mine(c)
        BY <1>0, <1>4, <2>3, HeldPairs
      <3> QED
        BY <1>1, <1>3, <2>1, <2>3, <3>1 DEF Mine
    <2> QED
      BY <1>5, <2>2, <2>3
  <1> HIDE DEF T
  <1> QED
    BY <1>0, <1>4, <1>5, RemovedClaims

-----------------------------------------------------------------------------
(* correct.                                                                *)

\* What a correction makes of the ledger.
Corrected(old, sel) ==
    /\ RowsOK'
    /\ \A u \in Turns \ sel : src'[u] = src[u]
    /\ \A u \in Turns : Present(u)' => Present(u)
    /\ \A u \in Turns : Present(u) => Present(u)' /\ src'[u].env = src[u].env
    /\ \A u \in sel : src[u].contact = old
    /\ rules' = rules /\ UNCHANGED hostVars
    /\ invalid' = invalid \cup Descendants(old, sel)
    /\ invalid' \in SUBSET Turns
    /\ redacted' \in SUBSET (Turns \X Turns) /\ redacted \subseteq redacted'
    /\ receipts' \in [OpIds -> [old : Contacts, new : Contacts, sources : SUBSET Turns]
                                  \cup {NotUsed}]
    /\ Moved' = Moved \cup sel
    /\ claims' = EraseRemoved(claims, sel \cup Descendants(old, sel), {})

LEMMA CorrectFacts ==
    ASSUME TypeOK, NEW o \in OpIds, NEW old \in Contacts, NEW new \in Contacts,
           NEW sel \in Selections, Correct(o, old, new, sel)
    PROVE  Corrected(old, sel)
  <1> DEFINE desc == Descendants(old, sel)
             receipt == [old |-> old, new |-> new, sources |-> sel]
  <1>0. RowsOK /\ sel \in SUBSET Turns
    BY SourceAssumption DEF TypeOK
  <1>1. desc \in SUBSET Turns
    BY <1>0, DescendantsReach
  <1> HIDE DEF desc
  <1>2. /\ receipts[o] = NotUsed
        /\ \A t \in sel : Present(t) /\ src[t].contact = old
        /\ receipts' = [receipts EXCEPT ![o] = receipt]
        /\ redacted' = redacted \cup (desc \X sel)
        /\ invalid' = invalid \cup desc
        /\ src' = [t \in Turns |-> IF t \in sel THEN [src[t] EXCEPT !.contact = new] ELSE src[t]]
        /\ claims' = EraseRemoved(claims, sel \cup desc, {})
        /\ rules' = rules /\ UNCHANGED hostVars
    BY DEF Correct, desc
  <1>3. ASSUME NEW u \in sel
        PROVE  /\ u \in Turns /\ src'[u] \in Rows /\ Present(u)'
               /\ src'[u].env = src[u].env /\ src'[u].msgs = src[u].msgs
               /\ src'[u].refs = src[u].refs /\ src'[u].msgs # {}
    <2>1. u \in Turns /\ Present(u)
      BY <1>0, <1>2
    <2>2. /\ src[u] = [env |-> src[u].env, contact |-> src[u].contact,
                       msgs |-> src[u].msgs, refs |-> src[u].refs]
          /\ src[u] \in Rows /\ src[u].msgs # {}
      BY <1>0, <2>1, RowFields
    <2>3. src'[u] = [src[u] EXCEPT !.contact = new]
      BY <1>2, <2>1
    <2>4. src'[u] = [env |-> src[u].env, contact |-> new, msgs |-> src[u].msgs, refs |-> src[u].refs]
      BY <2>2, <2>3
    <2>5. src'[u] \in Rows
      BY <2>2, <2>4 DEF Rows
    <2>6. Present(u)'
      BY <2>5, SourceAssumption DEF Present
    <2> QED
      BY <2>1, <2>2, <2>4, <2>5, <2>6
  <1>4. \A u \in Turns \ sel : src'[u] = src[u]
    BY <1>2
  <1>5. \A u \in Turns : Present(u)' <=> Present(u)
    BY <1>2, <1>3, <1>4 DEF Present
  <1>6. RowsOK'
    <2>1. \A u \in Turns : src'[u] \in Rows \cup {NoSource}
      BY <1>0, <1>3, <1>4 DEF RowsOK
    <2>2. src' = [u \in Turns |-> src'[u]]
      BY <1>2
    <2>3. src' \in [Turns -> Rows \cup {NoSource}]
      BY <2>1, <2>2
    <2>4. \A u \in Turns : Present(u)' => src'[u].msgs # {}
      BY <1>0, <1>3, <1>4, <1>5 DEF RowsOK
    <2> QED
      BY <2>3, <2>4 DEF RowsOK
  <1>7. /\ invalid' \in SUBSET Turns /\ redacted' \in SUBSET (Turns \X Turns)
        /\ redacted \subseteq redacted'
    BY <1>0, <1>1, <1>2 DEF TypeOK
  <1>8. receipt \in [old : Contacts, new : Contacts, sources : SUBSET Turns]
        /\ receipt # NotUsed /\ receipt.sources = sel
    BY <1>0, SourceAssumption
  <1> HIDE DEF receipt
  <1>9. receipts' \in [OpIds -> [old : Contacts, new : Contacts, sources : SUBSET Turns]
                                   \cup {NotUsed}]
    BY <1>2, <1>8 DEF TypeOK
  <1>10. Moved' = Moved \cup sel
    <2>1. \A p \in OpIds \ {o} : receipts'[p] = receipts[p]
      BY <1>2 DEF TypeOK
    <2>2. receipts'[o] = receipt
      BY <1>2 DEF TypeOK
    <2>3. ASSUME NEW u \in Moved' PROVE u \in Moved \cup sel
      BY <1>8, <2>1, <2>2 DEF Moved
    <2>4. ASSUME NEW u \in Moved PROVE u \in Moved'
      BY <1>2, <2>1 DEF Moved
    <2>5. sel \subseteq Moved'
      BY <1>8, <2>2 DEF Moved
    <2> QED
      BY <2>3, <2>4, <2>5
  <1> QED
    BY <1>2, <1>3, <1>4, <1>5, <1>6, <1>7, <1>9, <1>10 DEF Corrected, desc

LEMMA CorrectErased ==
    ASSUME MemoryInv, NEW o \in OpIds, NEW old \in Contacts, NEW new \in Contacts,
           NEW sel \in Selections, Correct(o, old, new, sel)
    PROVE  ErasedStaysErased'
  <1>0. TypeOK /\ ErasedStaysErased
    BY DEF MemoryInv
  <1>1. /\ \A u \in Turns \ sel : src'[u] = src[u]
        /\ \A u \in Turns : Present(u)' => Present(u)
        /\ rules' = rules /\ Moved' = Moved \cup sel
    <2>1. Corrected(old, sel)
      BY <1>0, CorrectFacts
    <2> QED
      BY <2>1 DEF Corrected
  <1> SUFFICES ASSUME NEW r \in rules', NEW u \in Turns, Present(u)'
               PROVE  /\ r.whole => r.source # u
                      /\ /\ u \notin Moved'
                         /\ src'[u].contact = r.contact /\ Session(src'[u].env) = r.session
                         /\ \A q \in rules' : ~Foreign(q.source, q.contact)'
                         => \A m \in src'[u].msgs : r.whole \/ Role(m) # "assistant" =>
                               Hash(src'[u].env, m) \notin r.hashes
    BY DEF ErasedStaysErased
  <1>2. r.whole => r.source # u
    BY <1>0, <1>1 DEF ErasedStaysErased
  <1>3. ASSUME u \notin Moved', src'[u].contact = r.contact, Session(src'[u].env) = r.session,
               \A q \in rules' : ~Foreign(q.source, q.contact)',
               NEW m \in src'[u].msgs, r.whole \/ Role(m) # "assistant"
        PROVE  Hash(src'[u].env, m) \notin r.hashes
    <2>1. src'[u] = src[u] /\ Present(u) /\ u \notin Moved /\ r \in rules
      BY <1>1, <1>3
    <2>2. \A q \in rules : ~Foreign(q.source, q.contact)
      BY <1>1, <1>3 DEF Foreign
    <2> QED
      BY <1>0, <1>3, <2>1, <2>2 DEF ErasedStaysErased
  <1> QED
    BY <1>2, <1>3

LEMMA CorrectCites ==
    ASSUME MemoryInv, NEW o \in OpIds, NEW old \in Contacts, NEW new \in Contacts,
           NEW sel \in Selections, Correct(o, old, new, sel)
    PROVE  AnswersCiteLiving'
  <1>0. TypeOK /\ RowsOK /\ AnswersCiteLiving /\ sel \in SUBSET Turns
    BY SourceAssumption DEF MemoryInv, TypeOK
  <1>1. /\ \A u \in Turns \ sel : src'[u] = src[u]
        /\ \A u \in Turns : Present(u)' => Present(u)
        /\ \A u \in sel : src[u].contact = old
        /\ invalid' = invalid \cup Descendants(old, sel)
        /\ rules' = rules /\ Moved' = Moved \cup sel
    <2>1. Corrected(old, sel)
      BY <1>0, CorrectFacts
    <2> QED
      BY <2>1 DEF Corrected
  <1> SUFFICES ASSUME NEW u \in Turns, Present(u)', u \notin invalid' \cup Moved',
                      NEW m \in src'[u].msgs, Role(m) = "assistant",
                      NEW ref \in src'[u].refs,
                      ~\E r \in rules' : r.source = ref[1] /\ r.contact # src'[u].contact
               PROVE  /\ Present(ref[1])' /\ Version(ref[1])' = ref[2]
                      /\ src'[ref[1]].contact = src'[u].contact
    BY DEF AnswersCiteLiving, Foreign
  <1>2. /\ Present(u) /\ u \notin sel /\ src'[u] = src[u]
        /\ u \notin invalid \cup Moved /\ u \notin Descendants(old, sel)
    BY <1>1
  <1>3. /\ Present(ref[1]) /\ Version(ref[1]) = ref[2]
        /\ src[ref[1]].contact = src[u].contact
    <2>1. ~Foreign(ref[1], src[u].contact)
      BY <1>1, <1>2 DEF Foreign
    <2> QED
      BY <1>0, <1>2, <2>1 DEF AnswersCiteLiving
  <1>4. ref[1] \in Turns
    BY <1>0, <1>2, RefTurn
  <1>5. ref[1] \notin sel
    <2> SUFFICES ASSUME ref[1] \in sel PROVE FALSE
      OBVIOUS
    <2>1. u \in Own(old, sel)
      BY <1>1, <1>2, <1>3 DEF Own
    <2>2. Cites(u, sel)
      BY <1>2 DEF Cites
    <2> QED
      BY <1>0, <1>2, <2>1, <2>2, DescendantsReach
  <1>6. src'[ref[1]] = src[ref[1]]
    BY <1>1, <1>4, <1>5
  <1> QED
    BY <1>2, <1>3, <1>6 DEF Present, Version

LEMMA CorrectClaims ==
    ASSUME MemoryInv, NEW o \in OpIds, NEW old \in Contacts, NEW new \in Contacts,
           NEW sel \in Selections, Correct(o, old, new, sel)
    PROVE  KeysUnique' /\ ClaimsGrounded' /\ claims' \subseteq claims
  <1> DEFINE T == sel \cup Descendants(old, sel)
  <1>0. TypeOK /\ KeysUnique /\ ClaimsGrounded
    BY DEF MemoryInv
  <1>1. /\ \A u \in Turns \ sel : src'[u] = src[u]
        /\ invalid' = invalid \cup Descendants(old, sel)
        /\ claims' = EraseRemoved(claims, T, {})
    <2>1. Corrected(old, sel)
      BY <1>0, CorrectFacts
    <2> QED
      BY <2>1 DEF Corrected
  <1>2. ASSUME NEW k \in claims, k.turn \notin T \/ <<k.turn, k.msg>> \in {}
        PROVE  /\ Present(k.turn)' /\ k.turn \notin invalid'
               /\ k.msg \in src'[k.turn].msgs /\ k.owner = src'[k.turn].contact
    <2>1. /\ k.turn \in Turns /\ Present(k.turn) /\ k.turn \notin invalid
          /\ k.msg \in src[k.turn].msgs /\ k.owner = src[k.turn].contact
      BY <1>0 DEF ClaimsGrounded, TypeOK, ClaimRows
    <2>2. src'[k.turn] = src[k.turn]
      BY <1>1, <1>2, <2>1
    <2> QED
      BY <1>1, <1>2, <2>1, <2>2 DEF Present
  <1> HIDE DEF T
  <1> QED
    BY <1>0, <1>1, <1>2, RemovedClaims

-----------------------------------------------------------------------------
(* The commit of a claim.                                                  *)

\* A commit adds at most one claim, with a key no claim has, and may retract
\* another; what the new one inherits from is there and the same person's.
LEMMA CommitClaims ==
    ASSUME MemoryInv, NEW w \in Claimers, cw[w] # Idle, Current(w), NEW p, NEW how,
           claims' = Committed(w, p, how), UNCHANGED ledgerVars
    PROVE  /\ claims' \in SUBSET ClaimRows /\ KeysUnique' /\ ClaimsGrounded'
           /\ \A k \in claims : k.retracted => \A h \in claims' : Key(h) = Key(k) => h.retracted
  <1> DEFINE t == cw[w].turn
             c == src[t].contact
             inherits == how \in {"inherit", "restate"}
             old == {k \in claims : Key(k) = p /\ ~k.retracted
                                      /\ ClaimReadable(k, c, Session(src[t].env))}
             closed == IF how = "restate" THEN {} ELSE old
             basis == IF ~inherits THEN NoClaim
                      ELSE IF p[3] = NoClaim THEN <<p[1], p[2]>> ELSE p[3]
             new == [turn |-> t, msg |-> cw[w].msg, basis |-> basis, retracted |-> FALSE,
                     owner |-> c]
             mark(k) == [k EXCEPT !.retracted = TRUE]
             img(k) == IF k \in closed THEN mark(k) ELSE k
  <1>0. TypeOK /\ RowsOK /\ KeysUnique /\ ClaimsGrounded
    BY DEF MemoryInv, TypeOK
  <1>1. src' = src /\ invalid' = invalid
    BY DEF ledgerVars
  <1>2. \/ claims' = claims
        \/ /\ ~\E k \in claims : Key(k) = Key(new)
           /\ inherits => Grounded(basis, c)
           /\ claims' = (claims \ closed) \cup {mark(k) : k \in closed} \cup {new}
    BY DEF Committed
  <1>3. CASE claims' = claims
    <2>1. KeysUnique' /\ ClaimsGrounded'
      BY <1>0, <1>1, <1>3, ClaimsStay
    <2>2. \A k \in claims : k.retracted => \A h \in claims' : Key(h) = Key(k) => h.retracted
      BY <1>0, <1>3 DEF KeysUnique
    <2> QED
      BY <1>0, <1>3, <2>1, <2>2 DEF TypeOK
  <1>4. CASE /\ ~\E k \in claims : Key(k) = Key(new)
             /\ inherits => Grounded(basis, c)
             /\ claims' = (claims \ closed) \cup {mark(k) : k \in closed} \cup {new}
    <2>1. closed \subseteq claims
      OBVIOUS
    <2>2. claims' = {img(k) : k \in claims} \cup {new}
      BY <1>4, <2>1
    <2>3. /\ t \in Turns /\ Present(t) /\ t \notin invalid /\ cw[w].msg \in src[t].msgs
          /\ cw[w].msg \in Messages /\ c \in Contacts
      <3>1. t \in Turns
        BY <1>0 DEF TypeOK, Readings
      <3>2. Present(t) /\ t \notin invalid /\ cw[w].msg \in src[t].msgs
        BY DEF Current
      <3> QED
        BY <1>0, <3>1, <3>2, RowFields
    <2>4. ASSUME basis # NoClaim
          PROVE  \E g \in claims : <<g.turn, g.msg>> = basis /\ g.basis = NoClaim /\ g.owner = c
      <3>1. Grounded(basis, c)
        BY <1>4, <2>4
      <3>2. PICK g \in claims : /\ g.basis = NoClaim /\ <<g.turn, g.msg>> = basis
                                /\ src[g.turn].contact = c
        BY <3>1 DEF Grounded
      <3>3. g.owner = src[g.turn].contact
        BY <1>0 DEF ClaimsGrounded
      <3> QED
        BY <3>2, <3>3
    <2>5. ASSUME NEW k \in claims
          PROVE  /\ img(k) \in ClaimRows /\ Key(img(k)) = Key(k)
                 /\ img(k).turn = k.turn /\ img(k).msg = k.msg /\ img(k).basis = k.basis
                 /\ img(k).owner = k.owner /\ (k.retracted => img(k).retracted)
      <3>1. k \in ClaimRows
        BY <1>0 DEF TypeOK
      <3>2. /\ mark(k) \in ClaimRows
            /\ mark(k).turn = k.turn /\ mark(k).msg = k.msg /\ mark(k).basis = k.basis
            /\ mark(k).owner = k.owner /\ mark(k).retracted
        BY <3>1 DEF ClaimRows
      <3> HIDE DEF mark, closed
      <3> QED
        BY <3>1, <3>2 DEF Key
    <2> HIDE DEF img, closed
    <2>6. basis \in (Turns \X Messages) \cup {NoClaim}
      <3>1. \A g \in claims : <<g.turn, g.msg>> \in Turns \X Messages
        BY <1>0 DEF TypeOK, ClaimRows
      <3> HIDE DEF basis
      <3> QED
        BY <2>4, <3>1
    <2>7. /\ new.turn = t /\ new.msg = cw[w].msg /\ new.basis = basis /\ new.owner = c
          /\ new \in ClaimRows
      BY <2>3, <2>6 DEF ClaimRows
    <2>8. \A k \in claims : Key(k) # Key(new)
      BY <1>4
    <2> HIDE DEF new, basis, t, c
    <2>9. claims' \in SUBSET ClaimRows
      BY <2>2, <2>5, <2>7
    <2>10. ASSUME NEW h \in claims' PROVE h = new \/ \E k \in claims : h = img(k)
      BY <2>2
    <2>11. KeysUnique'
      <3> SUFFICES ASSUME NEW g \in claims', NEW h \in claims', Key(g) = Key(h) PROVE g = h
        BY DEF KeysUnique, Key
      <3>1. ASSUME NEW k \in claims, g = img(k), NEW x \in claims, h = img(x) PROVE g = h
        <4>1. Key(k) = Key(x)
          BY <2>5, <3>1
        <4>2. k = x
          BY <1>0, <4>1 DEF KeysUnique
        <4> QED
          BY <3>1, <4>2
      <3>2. ASSUME NEW k \in claims, g = img(k), h = new PROVE FALSE
        BY <2>5, <2>8, <3>2
      <3>3. ASSUME NEW k \in claims, h = img(k), g = new PROVE FALSE
        BY <2>5, <2>8, <3>3
      <3> QED
        BY <2>10, <3>1, <3>2, <3>3
    <2>12. ASSUME NEW k \in claims, k.retracted, NEW h \in claims', Key(h) = Key(k)
           PROVE  h.retracted
      <3>1. PICK x \in claims : h = img(x)
        BY <2>8, <2>10, <2>12
      <3>2. x = k
        BY <1>0, <2>5, <2>12, <3>1 DEF KeysUnique
      <3> QED
        BY <2>5, <2>12, <3>1, <3>2
    <2>13. ASSUME NEW h \in claims'
           PROVE  /\ Present(h.turn)' /\ h.turn \notin invalid'
                  /\ h.msg \in src'[h.turn].msgs /\ h.owner = src'[h.turn].contact
                  /\ h.basis # NoClaim =>
                       \E g \in claims : <<g.turn, g.msg>> = h.basis /\ g.basis = NoClaim
                                           /\ g.owner = h.owner
      <3>1. CASE h = new
        BY <1>1, <2>3, <2>4, <2>7, <3>1 DEF Present, c
      <3>2. ASSUME NEW k \in claims, h = img(k)
            PROVE  /\ Present(h.turn)' /\ h.turn \notin invalid'
                   /\ h.msg \in src'[h.turn].msgs /\ h.owner = src'[h.turn].contact
                   /\ h.basis # NoClaim =>
                        \E g \in claims : <<g.turn, g.msg>> = h.basis /\ g.basis = NoClaim
                                            /\ g.owner = h.owner
        <4>1. /\ h.turn = k.turn /\ h.msg = k.msg /\ h.basis = k.basis /\ h.owner = k.owner
          BY <2>5, <3>2
        <4> QED
          BY <1>0, <1>1, <4>1 DEF ClaimsGrounded, Present
      <3> QED
        BY <2>10, <3>1, <3>2
    <2>14. ASSUME NEW g \in claims
           PROVE  \E x \in claims' : x.turn = g.turn /\ x.msg = g.msg /\ x.basis = g.basis
                                       /\ x.owner = g.owner
      BY <2>2, <2>5
    <2>15. ClaimsGrounded'
      <3>1. ASSUME NEW h \in claims', h.basis # NoClaim
            PROVE  \E x \in claims' : <<x.turn, x.msg>> = h.basis /\ x.basis = NoClaim
                                        /\ x.owner = h.owner
        <4>1. PICK g \in claims : <<g.turn, g.msg>> = h.basis /\ g.basis = NoClaim
                                    /\ g.owner = h.owner
          BY <2>13, <3>1
        <4>2. PICK x \in claims' : x.turn = g.turn /\ x.msg = g.msg /\ x.basis = g.basis
                                     /\ x.owner = g.owner
          BY <2>14
        <4> QED
          BY <4>1, <4>2
      <3> QED
        BY <2>13, <3>1 DEF ClaimsGrounded
    <2> QED
      BY <2>9, <2>11, <2>12, <2>15
  <1> QED
    BY <1>2, <1>3, <1>4

-----------------------------------------------------------------------------
(* The handlers of /turns/sync.                                            *)

HostTypeOK ==
    /\ ing \in [Turns -> [env : Envelopes \cup {NoSource},
                          state : {"none", "processing", "completed", "ambiguous"}]]
    /\ draft \in [Envelopes -> (SUBSET (Turns \X Versions)) \cup {NotDrafted}]
    /\ stage \in [Envelopes -> {"out", "reserved", "recorded"}]
    /\ ran \in [Envelopes -> 0..2]

\* A step of the ledger leaves the envelope of a row or marks its turn.
RowsAnswer ==
    /\ redacted \subseteq redacted'
    /\ \A u \in Turns : Present(u) => \/ Present(u)' /\ src'[u].env = src[u].env
                                      \/ \E x \in redacted' : x[1] = u

\* What a handler that recorded its envelope can rely on.
LEMMA RowAnswers ==
    ASSUME RowsAnswer, NEW u \in Turns, NEW e, Redacted(u) \/ (Present(u) /\ src[u].env = e)
    PROVE  Redacted(u)' \/ (Present(u)' /\ src'[u].env = e)
  BY DEF RowsAnswer, Redacted

\* What HandlersOK says of one envelope.
LEMMA HandlerIn ==
    ASSUME HandlersOK, NEW e \in Envelopes, stage[e] # "out"
    PROVE  /\ ing[Env[e].turn] = [env |-> e, state |-> "processing"]
           /\ ing[Env[e].turn].env = e /\ ing[Env[e].turn].state = "processing"
           /\ ran[e] = 0 /\ draft[e] # NotDrafted
  <1>1. /\ ing[Env[e].turn] = [env |-> e, state |-> "processing"]
        /\ ran[e] = 0 /\ draft[e] # NotDrafted
    BY Zenon DEF HandlersOK
  <1> QED
    BY <1>1

LEMMA HandlerRan ==
    ASSUME HandlersOK, NEW e \in Envelopes, ran[e] > 0
    PROVE  ran[e] = 1 /\ ing[Env[e].turn].env = e /\ ing[Env[e].turn].state # "none"
  BY Zenon DEF HandlersOK

LEMMA HandlerRow ==
    ASSUME HandlersOK, NEW e \in Envelopes, stage[e] = "recorded" \/ ran[e] > 0
    PROVE  Redacted(Env[e].turn) \/ (Present(Env[e].turn) /\ src[Env[e].turn].env = e)
  BY Zenon DEF HandlersOK

LEMMA HandlerKeeps ==
    ASSUME HandlersOK, RowsAnswer, NEW e \in Envelopes, stage[e] = "recorded" \/ ran[e] > 0
    PROVE  Redacted(Env[e].turn)' \/ (Present(Env[e].turn)' /\ src'[Env[e].turn].env = e)
  <1>1. Env[e].turn \in Turns
    BY SourceAssumption
  <1>2. Redacted(Env[e].turn) \/ (Present(Env[e].turn) /\ src[Env[e].turn].env = e)
    BY HandlerRow
  <1> QED
    BY <1>1, <1>2, RowAnswers

LEMMA HandlersStay ==
    ASSUME HostTypeOK, HandlersOK, RowsAnswer, UNCHANGED hostVars
    PROVE  HostTypeOK' /\ HandlersOK'
  <1>1. ing' = ing /\ draft' = draft /\ stage' = stage /\ ran' = ran
    BY DEF hostVars
  <1>2. HostTypeOK'
    BY <1>1 DEF HostTypeOK
  <1>3. ASSUME NEW e \in Envelopes, stage[e] = "recorded" \/ ran[e] > 0
        PROVE  Redacted(Env[e].turn)' \/ (Present(Env[e].turn)' /\ src'[Env[e].turn].env = e)
    BY <1>3, HandlerKeeps
  <1>4. HandlersOK'
    <2>1. \A e \in Envelopes : stage[e] = "recorded" \/ ran[e] > 0 =>
              Redacted(Env[e].turn)' \/ (Present(Env[e].turn)' /\ src'[Env[e].turn].env = e)
      BY <1>3
    <2> QED
      BY <1>1, <2>1, Zenon DEF HandlersOK
  <1> QED
    BY <1>2, <1>4

\* While a handler of e is in, and once its effects have run, no handler of
\* another envelope of the same turn is or has.
LEMMA OneHandler ==
    ASSUME HandlersOK, NEW e \in Envelopes, stage[e] # "out",
           NEW f \in Envelopes \ {e}, Env[f].turn = Env[e].turn
    PROVE  stage[f] = "out" /\ ~(ran[f] > 0)
  <1>1. ing[Env[e].turn].env = e
    BY HandlerIn
  <1>2. stage[f] # "out" => ing[Env[f].turn].env = f
    BY HandlerIn
  <1>3. ran[f] > 0 => ing[Env[f].turn].env = f
    BY HandlerRan
  <1> QED
    BY <1>1, <1>2, <1>3

\* The handler of e ends; only one that recorded its envelope runs effects.
Ends(e) ==
    /\ stage[e] # "out" /\ stage' = [stage EXCEPT ![e] = "out"] /\ draft' = draft
    /\ \E n \in {0, 1} : ran' = [ran EXCEPT ![e] = n] /\ (n = 1 => stage[e] = "recorded")
    /\ \/ ing' = ing
       \/ \E s \in {"completed", "ambiguous"} : ing' = [ing EXCEPT ![Env[e].turn].state = s]

LEMMA HandlerEnds ==
    ASSUME HostTypeOK, HandlersOK, RowsAnswer, NEW e \in Envelopes, Ends(e)
    PROVE  HostTypeOK' /\ HandlersOK'
  <1> DEFINE T == Env[e].turn
  <1>ends. /\ stage[e] # "out" /\ stage' = [stage EXCEPT ![e] = "out"] /\ draft' = draft
           /\ \/ ing' = ing
              \/ \E s \in {"completed", "ambiguous"} : ing' = [ing EXCEPT ![Env[e].turn].state = s]
    BY DEF Ends
  <1>n. PICK n \in {0, 1} : ran' = [ran EXCEPT ![e] = n] /\ (n = 1 => stage[e] = "recorded")
    BY DEF Ends
  <1> USE <1>ends, <1>n
  <1>0. T \in Turns /\ ing[T] = [env |-> e, state |-> "processing"] /\ draft[e] # NotDrafted
    BY SourceAssumption, HandlerIn
  <1>1. \E s \in {"processing", "completed", "ambiguous"} :
           ing' = [ing EXCEPT ![T] = [env |-> e, state |-> s]]
    <2>1. CASE ing' = ing
      <3>1. ing = [ing EXCEPT ![T] = [env |-> e, state |-> "processing"]]
        BY <1>0 DEF HostTypeOK
      <3> QED
        BY <2>1, <3>1
    <2>2. ASSUME NEW s \in {"completed", "ambiguous"},
                 ing' = [ing EXCEPT ![T].state = s]
          PROVE  ing' = [ing EXCEPT ![T] = [env |-> e, state |-> s]]
      <3>1. [ing[T] EXCEPT !.state = s] = [env |-> e, state |-> s]
        BY <1>0
      <3>2. [ing EXCEPT ![T].state = s] = [ing EXCEPT ![T] = [ing[T] EXCEPT !.state = s]]
        OBVIOUS
      <3> HIDE DEF T
      <3> QED
        BY <2>2, <3>1, <3>2
    <2> QED
      BY <2>1, <2>2
  <1>2. PICK s \in {"processing", "completed", "ambiguous"} :
           ing' = [ing EXCEPT ![T] = [env |-> e, state |-> s]]
    BY <1>1
  <1>3. HostTypeOK'
    <2>1. ing' \in [Turns -> [env : Envelopes \cup {NoSource},
                              state : {"none", "processing", "completed", "ambiguous"}]]
      BY <1>0, <1>2 DEF HostTypeOK
    <2> QED
      BY <2>1 DEF HostTypeOK
  <1>4. ing'[T] = [env |-> e, state |-> s] /\ \A u \in Turns \ {T} : ing'[u] = ing[u]
    BY <1>0, <1>2 DEF HostTypeOK
  <1>5. /\ stage'[e] = "out" /\ ran'[e] = n
        /\ \A f \in Envelopes \ {e} : stage'[f] = stage[f] /\ ran'[f] = ran[f]
    BY DEF HostTypeOK
  <1> HIDE DEF T
  <1>6. HandlersOK'
    <2> SUFFICES ASSUME NEW f \in Envelopes
                 PROVE  /\ stage'[f] # "out" =>
                              /\ ing'[Env[f].turn] = [env |-> f, state |-> "processing"]
                              /\ ran'[f] = 0 /\ draft'[f] # NotDrafted
                        /\ ran'[f] > 0 => /\ ran'[f] = 1
                                          /\ ing'[Env[f].turn].env = f
                                          /\ ing'[Env[f].turn].state # "none"
                        /\ stage'[f] = "recorded" \/ ran'[f] > 0 =>
                              \/ Redacted(Env[f].turn)'
                              \/ Present(Env[f].turn)' /\ src'[Env[f].turn].env = f
      BY DEF HandlersOK
    <2>0. Env[f].turn \in Turns
      BY SourceAssumption
    <2>1. CASE f = e
      <3>1. n = 1 => \/ Redacted(Env[e].turn)'
                     \/ Present(Env[e].turn)' /\ src'[Env[e].turn].env = e
        BY HandlerKeeps
      <3>2. ing'[Env[e].turn].env = e /\ ing'[Env[e].turn].state # "none"
        BY <1>4 DEF T
      <3> QED
        BY <1>5, <2>1, <3>1, <3>2
    <2>2. CASE f # e /\ Env[f].turn = T
      <3>1. stage[f] = "out" /\ ~(ran[f] > 0)
        BY <2>2, OneHandler DEF T
      <3> QED
        BY <1>5, <2>2, <3>1
    <2>3. CASE f # e /\ Env[f].turn # T
      <3>1. ing'[Env[f].turn] = ing[Env[f].turn] /\ stage'[f] = stage[f] /\ ran'[f] = ran[f]
        BY <1>4, <1>5, <2>0, <2>3
      <3>2. stage[f] = "recorded" \/ ran[f] > 0 =>
               \/ Redacted(Env[f].turn)'
               \/ Present(Env[f].turn)' /\ src'[Env[f].turn].env = f
        BY HandlerKeeps
      <3>3. stage[f] # "out" => /\ ing[Env[f].turn] = [env |-> f, state |-> "processing"]
                                /\ ran[f] = 0 /\ draft[f] # NotDrafted
        BY HandlerIn
      <3>4. ran[f] > 0 => /\ ran[f] = 1 /\ ing[Env[f].turn].env = f
                          /\ ing[Env[f].turn].state # "none"
        BY HandlerRan
      <3> QED
        BY <3>1, <3>2, <3>3, <3>4
    <2> QED
      BY <2>1, <2>2, <2>3
  <1> QED
    BY <1>3, <1>6

LEMMA ReserveHandlers ==
    ASSUME HostTypeOK, HandlersOK, NEW e \in Envelopes, Reserve(e)
    PROVE  HostTypeOK' /\ HandlersOK'
  <1> DEFINE T == Env[e].turn
  <1>0. T \in Turns
    BY SourceAssumption
  <1>1. /\ draft[e] # NotDrafted /\ ing[T].state = "none"
        /\ ing' = [ing EXCEPT ![T] = [env |-> e, state |-> "processing"]]
        /\ stage' = [stage EXCEPT ![e] = "reserved"]
        /\ draft' = draft /\ ran' = ran /\ src' = src /\ redacted' = redacted
    BY DEF Reserve, ledgerVars
  <1>2. HostTypeOK'
    <2>1. ing' \in [Turns -> [env : Envelopes \cup {NoSource},
                              state : {"none", "processing", "completed", "ambiguous"}]]
      BY <1>0, <1>1 DEF HostTypeOK
    <2> QED
      BY <1>1, <2>1 DEF HostTypeOK
  <1>3. ASSUME NEW f \in Envelopes, Env[f].turn = T
        PROVE  stage[f] = "out" /\ ran[f] = 0
    <2>1. ran[f] \in 0..2
      BY DEF HostTypeOK
    <2>2. ing[Env[f].turn].state = "none"
      BY <1>1, <1>3
    <2>3. stage[f] # "out" => ing[Env[f].turn].state = "processing"
      BY HandlerIn
    <2>4. ran[f] > 0 => ing[Env[f].turn].state # "none"
      BY HandlerRan
    <2> QED
      BY <2>1, <2>2, <2>3, <2>4
  <1>4. /\ ing'[T] = [env |-> e, state |-> "processing"]
        /\ \A u \in Turns \ {T} : ing'[u] = ing[u]
        /\ stage'[e] = "reserved" /\ \A f \in Envelopes \ {e} : stage'[f] = stage[f]
    BY <1>0, <1>1 DEF HostTypeOK
  <1> HIDE DEF T
  <1>5. ASSUME NEW f \in Envelopes, f # e
        PROVE  /\ stage'[f] = stage[f]
               /\ Env[f].turn = T \/ ing'[Env[f].turn] = ing[Env[f].turn]
    BY <1>4, <1>5, SourceAssumption
  <1>6. HandlersOK'
    <2> SUFFICES ASSUME NEW f \in Envelopes
                 PROVE  /\ stage'[f] # "out" =>
                              /\ ing'[Env[f].turn] = [env |-> f, state |-> "processing"]
                              /\ ran'[f] = 0 /\ draft'[f] # NotDrafted
                        /\ ran'[f] > 0 => /\ ran'[f] = 1
                                          /\ ing'[Env[f].turn].env = f
                                          /\ ing'[Env[f].turn].state # "none"
                        /\ stage'[f] = "recorded" \/ ran'[f] > 0 =>
                              \/ Redacted(Env[f].turn)'
                              \/ Present(Env[f].turn)' /\ src'[Env[f].turn].env = f
      BY DEF HandlersOK
    <2>1. CASE f = e
      BY <1>1, <1>3, <1>4, <2>1 DEF T
    <2>2. CASE f # e /\ Env[f].turn = T
      BY <1>1, <1>3, <1>5, <2>2
    <2>3. CASE f # e /\ Env[f].turn # T
      BY <1>1, <1>5, <2>3 DEF HandlersOK, Redacted, Present
    <2> QED
      BY <2>1, <2>2, <2>3
  <1> QED
    BY <1>2, <1>6

LEMMA RecordAnswers ==
    ASSUME MemoryInv, NEW e \in Envelopes, draft[e] # NotDrafted, RecordSource(e)
    PROVE  RowsAnswer
  <1>1. /\ \/ src' = src
           \/ ~Present(Env[e].turn) /\ src' = [src EXCEPT ![Env[e].turn] = NewRow(e)]
        /\ redacted \subseteq redacted'
    BY RecordFacts DEF MemoryInv
  <1>2. ASSUME NEW u \in Turns, Present(u) PROVE src'[u] = src[u]
    BY <1>1, <1>2 DEF MemoryInv, TypeOK, RowsOK
  <1> QED
    BY <1>1, <1>2 DEF RowsAnswer, Present

LEMMA EraseAnswers ==
    ASSUME MemoryInv, NEW c \in Contacts, NEW sel \in Selections, EraseSources(c, sel)
    PROVE  RowsAnswer
  <1>0. TypeOK /\ HashesAccounted(rules)
    BY DEF MemoryInv
  <1>1. /\ \E end : ErasedTo(c, end)
        /\ redacted \subseteq redacted'
    BY <1>0, EraseFacts
  <1>2. PICK end : ErasedTo(c, end)
    BY <1>1
  <1>3. ASSUME NEW u \in Turns, Present(u)
        PROVE  \/ Present(u)' /\ src'[u].env = src[u].env
               \/ \E x \in redacted' : x[1] = u
    <2>1. CASE u \notin Mine(c)
      BY <1>2, <1>3, <2>1 DEF ErasedTo, Present
    <2>2. CASE u \in Mine(c) /\ Of(u, end.held) # src[u].msgs
      BY <1>2, <2>2 DEF ErasedTo
    <2>3. CASE u \in Mine(c) /\ Of(u, end.held) = src[u].msgs
      <3>1. src[u] \in Rows /\ src[u].msgs # {}
        BY <1>0, <1>3 DEF TypeOK, RowsOK, Present
      <3>2. src'[u] = [src[u] EXCEPT !.msgs = Of(u, end.held)]
        BY <1>2, <2>3, <3>1 DEF ErasedTo
      <3>3. src'[u] = src[u]
        BY <2>3, <3>1, <3>2 DEF Rows
      <3> QED
        BY <1>3, <3>3 DEF Present
    <2> QED
      BY <2>1, <2>2, <2>3
  <1> QED
    BY <1>1, <1>3 DEF RowsAnswer

LEMMA CorrectAnswers ==
    ASSUME MemoryInv, NEW o \in OpIds, NEW old \in Contacts, NEW new \in Contacts,
           NEW sel \in Selections, Correct(o, old, new, sel)
    PROVE  RowsAnswer
  <1>1. Corrected(old, sel)
    BY CorrectFacts DEF MemoryInv
  <1> QED
    BY <1>1 DEF Corrected, RowsAnswer

LEMMA ProcessHandlers ==
    ASSUME MemoryInv, NEW e \in Envelopes, Process(e)
    PROVE  HostTypeOK' /\ HandlersOK'
  <1> DEFINE T == Env[e].turn
  <1>0. HandlersOK /\ HostTypeOK /\ T \in Turns
    BY SourceAssumption DEF MemoryInv, TypeOK, HostTypeOK
  <1>1. stage[e] = "reserved" /\ RecordSource(e) /\ draft' = draft /\ ran' = ran
    BY DEF Process
  <1>2. draft[e] # NotDrafted /\ ran[e] = 0 /\ ing[T] = [env |-> e, state |-> "processing"]
    BY <1>0, <1>1, HandlerIn
  <1>3. RowsAnswer
    BY <1>1, <1>2, RecordAnswers
  <1>4. CASE Settle(e, "completed")
    <2>1. ran' = [ran EXCEPT ![e] = 0]
      BY <1>0, <1>1, <1>2 DEF HostTypeOK
    <2>2. stage' = [stage EXCEPT ![e] = "out"] /\ ing' = [ing EXCEPT ![Env[e].turn].state = "completed"]
      BY <1>4 DEF Settle
    <2>3. stage[e] # "out"
      BY <1>1
    <2>4. \E s \in {"completed", "ambiguous"} : ing' = [ing EXCEPT ![Env[e].turn].state = s]
      BY <2>2
    <2> QED
      <3>0. \E n \in {0, 1} : ran' = [ran EXCEPT ![e] = n] /\ (n = 1 => stage[e] = "recorded")
        BY <2>1
      <3>1. Ends(e)
        BY <1>1, <2>2, <2>3, <2>4, <3>0 DEF Ends
      <3> QED
        BY <1>0, <1>3, <3>1, HandlerEnds
  <1>5. ASSUME ~\E x \in redacted' : x[1] = T,
               stage' = [stage EXCEPT ![e] = "recorded"], ing' = ing
        PROVE  HostTypeOK' /\ HandlersOK'
    <2>1. HostTypeOK'
      BY <1>0, <1>1, <1>5 DEF HostTypeOK
    <2>2. stage'[e] = "recorded" /\ \A f \in Envelopes \ {e} : stage'[f] = stage[f]
      BY <1>0, <1>5 DEF HostTypeOK
    <2>3. Present(T)' /\ src'[T].env = e
      <3>1. /\ \/ src' = src /\ Present(T) /\ src[T].env = e
               \/ ~Present(T) /\ src' = [src EXCEPT ![T] = NewRow(e)]
            /\ NewRow(e) \in Rows
        BY <1>1, <1>2, RecordFacts DEF MemoryInv
      <3>2. CASE src' = src /\ Present(T) /\ src[T].env = e
        BY <3>2 DEF Present
      <3>3. CASE ~Present(T) /\ src' = [src EXCEPT ![T] = NewRow(e)]
        <4>1. src'[T] = NewRow(e)
          BY <1>0, <3>3 DEF MemoryInv, TypeOK, RowsOK
        <4>2. NewRow(e) # NoSource
          BY <3>1, SourceAssumption
        <4> QED
          BY <4>1, <4>2 DEF Present, NewRow
      <3> QED
        BY <3>1, <3>2, <3>3
    <2>4. HandlersOK'
      <3> SUFFICES ASSUME NEW f \in Envelopes
                   PROVE  /\ stage'[f] # "out" =>
                                /\ ing'[Env[f].turn] = [env |-> f, state |-> "processing"]
                                /\ ran'[f] = 0 /\ draft'[f] # NotDrafted
                          /\ ran'[f] > 0 => /\ ran'[f] = 1
                                            /\ ing'[Env[f].turn].env = f
                                            /\ ing'[Env[f].turn].state # "none"
                          /\ stage'[f] = "recorded" \/ ran'[f] > 0 =>
                                \/ Redacted(Env[f].turn)'
                                \/ Present(Env[f].turn)' /\ src'[Env[f].turn].env = f
        BY DEF HandlersOK
      <3>1. CASE f = e
        <4>1. ~(ran[e] > 0)
          BY <1>2
        <4> QED
          BY <1>1, <1>2, <1>5, <2>3, <3>1, <4>1
      <3>2. CASE f # e
        <4>1. stage'[f] = stage[f]
          BY <2>2, <3>2
        <4>2. stage[f] # "out" => /\ ing[Env[f].turn] = [env |-> f, state |-> "processing"]
                                  /\ ran[f] = 0 /\ draft[f] # NotDrafted
          BY <1>0, HandlerIn
        <4>3. ran[f] > 0 => /\ ran[f] = 1 /\ ing[Env[f].turn].env = f
                            /\ ing[Env[f].turn].state # "none"
          BY <1>0, HandlerRan
        <4>4. stage[f] = "recorded" \/ ran[f] > 0 =>
                 Redacted(Env[f].turn)' \/ (Present(Env[f].turn)' /\ src'[Env[f].turn].env = f)
          BY <1>0, <1>3, HandlerKeeps
        <4> QED
          BY <1>1, <1>5, <4>1, <4>2, <4>3, <4>4
      <3> QED
        BY <3>1, <3>2
    <2> QED
      BY <2>1, <2>4
  <1> QED
    BY <1>4, <1>5 DEF Process

LEMMA LedgerAnswers ==
    ASSUME UNCHANGED ledgerVars
    PROVE  RowsAnswer
  BY DEF RowsAnswer, ledgerVars, Present

LEMMA DraftHandlers ==
    ASSUME MemoryInv, NEW e \in Envelopes, Draft(e)
    PROVE  HostTypeOK' /\ HandlersOK'
  <1> DEFINE read == {n \in Env[e].needs : Readable(n, Env[e].contact, Session(e))}
             new == {<<t, Version(t)>> : t \in read}
  <1>0. HandlersOK /\ HostTypeOK /\ RowsOK
    BY DEF MemoryInv, TypeOK, HostTypeOK
  <1>1. /\ draft[e] = NotDrafted /\ draft' = [draft EXCEPT ![e] = new]
        /\ ing' = ing /\ stage' = stage /\ ran' = ran /\ UNCHANGED ledgerVars
    BY DEF Draft
  <1>2. new \in SUBSET (Turns \X Versions)
    <2>1. ASSUME NEW t \in read PROVE t \in Turns /\ Version(t) \in Versions
      <3>1. t \in Turns /\ Present(t)
        BY SourceAssumption DEF Readable
      <3> QED
        BY <1>0, <3>1, RowFields
    <2> QED
      BY <2>1
  <1> HIDE DEF new
  <1>3. HostTypeOK'
    BY <1>0, <1>1, <1>2 DEF HostTypeOK
  <1>4. stage[e] = "out"
    BY <1>0, <1>1, HandlerIn
  <1>5. \A f \in Envelopes : stage[f] # "out" => draft'[f] = draft[f]
    BY <1>0, <1>1, <1>4 DEF HostTypeOK
  <1>6. HandlersOK'
    <2> SUFFICES ASSUME NEW f \in Envelopes
                 PROVE  /\ stage'[f] # "out" =>
                              /\ ing'[Env[f].turn] = [env |-> f, state |-> "processing"]
                              /\ ran'[f] = 0 /\ draft'[f] # NotDrafted
                        /\ ran'[f] > 0 => /\ ran'[f] = 1
                                          /\ ing'[Env[f].turn].env = f
                                          /\ ing'[Env[f].turn].state # "none"
                        /\ stage'[f] = "recorded" \/ ran'[f] > 0 =>
                              \/ Redacted(Env[f].turn)'
                              \/ Present(Env[f].turn)' /\ src'[Env[f].turn].env = f
      BY DEF HandlersOK
    <2>1. stage[f] # "out" => /\ ing[Env[f].turn] = [env |-> f, state |-> "processing"]
                              /\ ran[f] = 0 /\ draft[f] # NotDrafted
      BY <1>0, HandlerIn
    <2>2. ran[f] > 0 => /\ ran[f] = 1 /\ ing[Env[f].turn].env = f
                        /\ ing[Env[f].turn].state # "none"
      BY <1>0, HandlerRan
    <2>3. stage[f] = "recorded" \/ ran[f] > 0 =>
             Redacted(Env[f].turn)' \/ (Present(Env[f].turn)' /\ src'[Env[f].turn].env = f)
      BY <1>0, <1>1, HandlerKeeps, LedgerAnswers
    <2> QED
      BY <1>1, <1>5, <2>1, <2>2, <2>3
  <1> QED
    BY <1>3, <1>6

\* The other ways a handler ends.
LEMMA EndHandlers ==
    ASSUME MemoryInv, NEW e \in Envelopes,
           Decline(e) \/ RunEffects(e) \/ Interrupted(e) \/ Killed(e)
    PROVE  HostTypeOK' /\ HandlersOK' /\ UNCHANGED <<ledgerVars, projVars>>
  <1>0. HandlersOK /\ HostTypeOK
    BY DEF MemoryInv, TypeOK, HostTypeOK
  <1>1. /\ stage[e] \in {"reserved", "recorded"}
        /\ stage' = [stage EXCEPT ![e] = "out"] /\ draft' = draft
        /\ UNCHANGED <<ledgerVars, projVars>>
    BY DEF Decline, RunEffects, Interrupted, Killed, Settle
  <1>2. stage[e] # "out" /\ ran[e] = 0
    BY <1>0, <1>1, HandlerIn
  <1>3. ran = [ran EXCEPT ![e] = 0]
    BY <1>0, <1>2 DEF HostTypeOK
  <1>4. \E n \in {0, 1} : ran' = [ran EXCEPT ![e] = n] /\ (n = 1 => stage[e] = "recorded")
    <2>1. CASE Decline(e)
      BY <1>3, <2>1 DEF Decline
    <2>2. CASE RunEffects(e)
      <3>1. stage[e] = "recorded" /\ ran' = [ran EXCEPT ![e] = IF ran[e] = 2 THEN 2 ELSE ran[e] + 1]
        BY <2>2 DEF RunEffects
      <3>2. ran' = [ran EXCEPT ![e] = 1]
        BY <1>2, <3>1
      <3> QED
        BY <3>1, <3>2
    <2>3. CASE Interrupted(e) \/ Killed(e)
      <3>1. ran' = [ran EXCEPT ![e] = IF stage[e] = "recorded" /\ ran[e] < 2 THEN ran[e] + 1
                                                                         ELSE ran[e]]
        BY <2>3 DEF Interrupted, Killed
      <3>2. CASE stage[e] = "recorded"
        <4>1. ran' = [ran EXCEPT ![e] = 1]
          BY <1>2, <3>1, <3>2
        <4> QED
          BY <3>2, <4>1
      <3>3. CASE stage[e] # "recorded"
        <4>1. ran' = [ran EXCEPT ![e] = 0]
          BY <1>2, <3>1, <3>3
        <4> QED
          BY <4>1
      <3> QED
        BY <3>2, <3>3
    <2> QED
      BY <2>1, <2>2, <2>3
  <1>5. \/ ing' = ing
        \/ \E s \in {"completed", "ambiguous"} : ing' = [ing EXCEPT ![Env[e].turn].state = s]
    BY DEF Decline, RunEffects, Interrupted, Killed, Settle
  <1>6. Ends(e)
    BY <1>1, <1>2, <1>4, <1>5 DEF Ends
  <1>7. RowsAnswer
    BY <1>1, LedgerAnswers
  <1> QED
    BY <1>0, <1>1, <1>6, <1>7, HandlerEnds

-----------------------------------------------------------------------------
(* Every step.                                                             *)

\* The parts of the invariant that are about the ledger, about the claims and
\* about what the claim workers hold.
LedgerOK ==
    /\ RowsOK
    /\ rules \in SUBSET Tombstones
    /\ redacted \in SUBSET (Turns \X Turns)
    /\ invalid \in SUBSET Turns
    /\ receipts \in [OpIds -> [old : Contacts, new : Contacts, sources : SUBSET Turns]
                                 \cup {NotUsed}]
    /\ HashesAccounted(rules)
    /\ ErasedStaysErased
    /\ AnswersCiteLiving

ClaimsOK == claims \in SUBSET ClaimRows /\ KeysUnique /\ ClaimsGrounded

WorkersOK == cw \in [Claimers -> Readings \cup {Idle}]

LEMMA InvParts == MemoryInv <=> LedgerOK /\ HostTypeOK /\ HandlersOK /\ ClaimsOK /\ WorkersOK
  BY DEF MemoryInv, TypeOK, LedgerOK, HostTypeOK, ClaimsOK, WorkersOK

LEMMA LedgerStays ==
    ASSUME LedgerOK, UNCHANGED ledgerVars
    PROVE  LedgerOK'
  <1>1. src' = src /\ rules' = rules /\ redacted' = redacted /\ invalid' = invalid
        /\ receipts' = receipts
    BY DEF ledgerVars
  <1>2. RowsOK' /\ HashesAccounted(rules)'
    BY <1>1 DEF LedgerOK, RowsOK, Present, HashesAccounted
  <1>3. ErasedStaysErased'
    BY <1>1 DEF LedgerOK, ErasedStaysErased, Present, Moved, Foreign
  <1>4. AnswersCiteLiving'
    BY <1>1 DEF LedgerOK, AnswersCiteLiving, Present, Moved, Foreign, Version
  <1> QED
    BY <1>1, <1>2, <1>3, <1>4 DEF LedgerOK

LEMMA ClaimsFrame ==
    ASSUME ClaimsOK, UNCHANGED <<ledgerVars, claims>>
    PROVE  ClaimsOK'
  <1>1. claims' = claims /\ invalid' = invalid /\ src' = src
    BY DEF ledgerVars
  <1>2. KeysUnique /\ ClaimsGrounded
    BY DEF ClaimsOK
  <1>3. \A k \in claims : src'[k.turn] = src[k.turn]
    BY <1>1
  <1>4. KeysUnique' /\ ClaimsGrounded'
    BY <1>1, <1>2, <1>3, ClaimsStay
  <1> QED
    BY <1>1, <1>4 DEF ClaimsOK

LEMMA RecordStep ==
    ASSUME MemoryInv, NEW e \in Envelopes, draft[e] # NotDrafted, RecordSource(e)
    PROVE  LedgerOK' /\ ClaimsOK' /\ claims' = claims
  <1>1. /\ RowsOK' /\ rules' \in SUBSET Tombstones /\ HashesAccounted(rules')
        /\ redacted' \in SUBSET (Turns \X Turns)
        /\ invalid' = invalid /\ receipts' = receipts /\ claims' = claims
    BY RecordFacts DEF MemoryInv
  <1>2. ErasedStaysErased' /\ AnswersCiteLiving' /\ KeysUnique' /\ ClaimsGrounded'
    BY RecordErased, RecordCites, RecordClaims
  <1> QED
    BY <1>1, <1>2 DEF MemoryInv, TypeOK, LedgerOK, ClaimsOK, HashesAccounted

LEMMA EraseStep ==
    ASSUME MemoryInv, NEW c \in Contacts, NEW sel \in Selections, EraseSources(c, sel)
    PROVE  LedgerOK' /\ ClaimsOK' /\ claims' \subseteq claims /\ UNCHANGED hostVars
  <1>0. TypeOK /\ HashesAccounted(rules)
    BY DEF MemoryInv
  <1>1. /\ \E end : ErasedTo(c, end)
        /\ src' = [u \in Turns |-> src'[u]]
        /\ rules' \in SUBSET Tombstones /\ HashesAccounted(rules')
        /\ redacted' \in SUBSET (Turns \X Turns)
        /\ invalid' = invalid /\ receipts' = receipts
        /\ UNCHANGED hostVars
    BY <1>0, EraseFacts
  <1>2. RowsOK'
    <2>1. PICK end : ErasedTo(c, end)
      BY <1>1
    <2> QED
      BY <1>0, <1>1, <2>1, EraseRows DEF TypeOK
  <1>3. ErasedStaysErased' /\ AnswersCiteLiving'
    BY EraseErased, EraseCites
  <1>4. KeysUnique' /\ ClaimsGrounded' /\ claims' \subseteq claims
    BY EraseClaims
  <1> QED
    BY <1>0, <1>1, <1>2, <1>3, <1>4 DEF TypeOK, LedgerOK, ClaimsOK, HashesAccounted

LEMMA CorrectStep ==
    ASSUME MemoryInv, NEW o \in OpIds, NEW old \in Contacts, NEW new \in Contacts,
           NEW sel \in Selections, Correct(o, old, new, sel)
    PROVE  LedgerOK' /\ ClaimsOK' /\ claims' \subseteq claims /\ UNCHANGED hostVars
  <1>0. TypeOK /\ HashesAccounted(rules)
    BY DEF MemoryInv
  <1>1. Corrected(old, sel)
    BY <1>0, CorrectFacts
  <1>2. /\ RowsOK' /\ rules' = rules /\ UNCHANGED hostVars /\ invalid' \in SUBSET Turns
        /\ redacted' \in SUBSET (Turns \X Turns)
        /\ receipts' \in [OpIds -> [old : Contacts, new : Contacts, sources : SUBSET Turns]
                                      \cup {NotUsed}]
    BY <1>1 DEF Corrected
  <1>3. ErasedStaysErased' /\ AnswersCiteLiving'
    BY CorrectErased, CorrectCites
  <1>4. KeysUnique' /\ ClaimsGrounded' /\ claims' \subseteq claims
    BY CorrectClaims
  <1> QED
    BY <1>0, <1>2, <1>3, <1>4 DEF TypeOK, LedgerOK, ClaimsOK, HashesAccounted

LEMMA LedgerNextStep ==
    ASSUME MemoryInv, LedgerNext, UNCHANGED workVars
    PROVE  MemoryInv' /\ claims' \subseteq claims
  <1>0. LedgerOK /\ HostTypeOK /\ HandlersOK /\ ClaimsOK /\ WorkersOK
    BY InvParts
  <1>1. WorkersOK'
    BY <1>0 DEF WorkersOK, workVars
  <1>2. ASSUME NEW e \in Envelopes,
               Draft(e) \/ Reserve(e) \/ Decline(e) \/ RunEffects(e) \/ Interrupted(e) \/ Killed(e)
        PROVE  LedgerOK' /\ HostTypeOK' /\ HandlersOK' /\ ClaimsOK' /\ claims' = claims
    <2>1. HostTypeOK' /\ HandlersOK'
      BY <1>0, <1>2, DraftHandlers, ReserveHandlers, EndHandlers
    <2>2. UNCHANGED <<ledgerVars, projVars>>
      BY <1>2 DEF Draft, Reserve, Decline, RunEffects, Interrupted, Killed
    <2>3. claims' = claims
      BY <2>2 DEF projVars
    <2> QED
      BY <1>0, <2>1, <2>2, <2>3, LedgerStays, ClaimsFrame
  <1>3. ASSUME NEW e \in Envelopes, RecordOnly(e)
        PROVE  LedgerOK' /\ HostTypeOK' /\ HandlersOK' /\ ClaimsOK' /\ claims' = claims
    <2>1. draft[e] # NotDrafted /\ RecordSource(e) /\ UNCHANGED hostVars
      BY <1>3 DEF RecordOnly
    <2> QED
      BY <1>0, <2>1, RecordStep, RecordAnswers, HandlersStay
  <1>4. ASSUME NEW e \in Envelopes, Process(e)
        PROVE  LedgerOK' /\ HostTypeOK' /\ HandlersOK' /\ ClaimsOK' /\ claims' = claims
    <2>1. stage[e] # "out" /\ RecordSource(e)
      BY <1>4 DEF Process
    <2>2. draft[e] # NotDrafted
      BY <1>0, <2>1, HandlerIn
    <2> QED
      BY <1>4, <2>1, <2>2, RecordStep, ProcessHandlers
  <1>5. ASSUME NEW c \in Contacts, NEW sel \in Selections, EraseSources(c, sel)
        PROVE  LedgerOK' /\ HostTypeOK' /\ HandlersOK' /\ ClaimsOK' /\ claims' \subseteq claims
    BY <1>0, <1>5, EraseStep, EraseAnswers, HandlersStay
  <1>6. ASSUME NEW o \in OpIds, NEW old \in Contacts, NEW new \in Contacts,
               NEW sel \in Selections, Correct(o, old, new, sel)
        PROVE  LedgerOK' /\ HostTypeOK' /\ HandlersOK' /\ ClaimsOK' /\ claims' \subseteq claims
    BY <1>0, <1>6, CorrectStep, CorrectAnswers, HandlersStay
  <1>7. LedgerOK' /\ HostTypeOK' /\ HandlersOK' /\ ClaimsOK' /\ claims' \subseteq claims
    <2>1. ASSUME NEW e \in Envelopes,
                 \/ Draft(e) \/ RecordOnly(e) \/ Reserve(e) \/ Process(e) \/ Decline(e)
                 \/ RunEffects(e) \/ Interrupted(e) \/ Killed(e)
          PROVE  LedgerOK' /\ HostTypeOK' /\ HandlersOK' /\ ClaimsOK' /\ claims' \subseteq claims
      BY <1>2, <1>3, <1>4, <2>1
    <2> QED
      BY <2>1, <1>5, <1>6 DEF LedgerNext
  <1>8. MemoryInv'
    BY <1>1, <1>7 DEF MemoryInv, TypeOK, LedgerOK, HostTypeOK, ClaimsOK, WorkersOK
  <1> QED
    BY <1>7, <1>8

\* The claims a claim worker is offered to correct.
LEMMA PriorTyped ==
    ASSUME claims \in SUBSET ClaimRows, NEW t, NEW c, NEW s
    PROVE  Prior(t, c, s) \in SUBSET (Turns \X Messages \X ((Turns \X Messages) \cup {NoClaim}))
  <1>1. ASSUME NEW k \in claims
        PROVE  Key(k) \in Turns \X Messages \X ((Turns \X Messages) \cup {NoClaim})
    <2>1. k.turn \in Turns /\ k.msg \in Messages /\ k.basis \in (Turns \X Messages) \cup {NoClaim}
      BY DEF ClaimRows
    <2> QED
      BY <2>1 DEF Key
  <1> QED
    BY <1>1 DEF Prior

\* Two fields of a reading are set at once.
LEMMA ReadingExcept ==
    ASSUME NEW r \in Readings, NEW a, NEW b
    PROVE  /\ [[r EXCEPT !.msg = a] EXCEPT !.prior = b] =
                 [turn |-> r.turn, contact |-> r.contact, msg |-> a, todo |-> r.todo, prior |-> b]
           /\ [[r EXCEPT !.todo = a] EXCEPT !.msg = b] =
                 [turn |-> r.turn, contact |-> r.contact, msg |-> b, todo |-> a, prior |-> r.prior]
  <1> DEFINE asked == [turn |-> r.turn, contact |-> r.contact, msg |-> a, todo |-> r.todo,
                       prior |-> r.prior]
             done == [turn |-> r.turn, contact |-> r.contact, msg |-> r.msg, todo |-> a,
                      prior |-> r.prior]
  <1>1. r = [turn |-> r.turn, contact |-> r.contact, msg |-> r.msg, todo |-> r.todo,
             prior |-> r.prior]
    BY DEF Readings
  <1>2. [r EXCEPT !.msg = a] = asked /\ [r EXCEPT !.todo = a] = done
    BY <1>1
  <1>3. [asked EXCEPT !.prior = b] =
           [turn |-> r.turn, contact |-> r.contact, msg |-> a, todo |-> r.todo, prior |-> b]
    OBVIOUS
  <1>4. [done EXCEPT !.msg = b] =
           [turn |-> r.turn, contact |-> r.contact, msg |-> b, todo |-> a, prior |-> r.prior]
    OBVIOUS
  <1> HIDE DEF asked, done
  <1> QED
    BY <1>2, <1>3, <1>4, Zenon

LEMMA WorkersTyped ==
    ASSUME MemoryInv, NEW w \in Claimers,
           \/ \E t \in Turns : ClaimJob(w, t)
           \/ Ask(w) \/ Commit(w) \/ ClaimsDone(w) \/ ClaimsFail(w) \/ ClaimerKilled(w)
    PROVE  WorkersOK'
  <1>0. WorkersOK /\ RowsOK /\ claims \in SUBSET ClaimRows
    BY DEF MemoryInv, TypeOK, WorkersOK
  <1>1. ASSUME NEW x \in Readings \cup {Idle}, cw' = [cw EXCEPT ![w] = x] PROVE WorkersOK'
    BY <1>0, <1>1 DEF WorkersOK
  <1>2. ASSUME cw[w] # Idle
        PROVE  /\ cw[w] \in Readings
               /\ cw[w].turn \in Turns /\ cw[w].contact \in Contacts
               /\ cw[w].msg \in Messages \cup {NoClaim} /\ cw[w].todo \in SUBSET Messages
               /\ cw[w].prior \in SUBSET (Turns \X Messages \X ((Turns \X Messages) \cup {NoClaim}))
    <2>1. cw[w] \in Readings
      BY <1>0, <1>2 DEF WorkersOK
    <2> QED
      BY <2>1 DEF Readings
  <1>3. CASE \E t \in Turns : ClaimJob(w, t)
    <2>1. PICK t \in Turns : ClaimJob(w, t)
      BY <1>3
    <2> DEFINE x == [turn |-> t, contact |-> src[t].contact, msg |-> NoClaim,
                     todo |-> {m \in src[t].msgs : Role(m) = "user"}, prior |-> {}]
    <2>2. Present(t) /\ cw' = [cw EXCEPT ![w] = x]
      BY <2>1 DEF ClaimJob
    <2>3. src[t].contact \in Contacts /\ src[t].msgs \in SUBSET Messages
      BY <1>0, <2>2, RowFields
    <2>4. x \in Readings
      BY <2>3 DEF Readings
    <2> HIDE DEF x
    <2> QED
      BY <1>1, <2>2, <2>4
  <1>4. CASE Ask(w)
    <2> DEFINE a == First(cw[w].todo)
               b == Prior(cw[w].turn, cw[w].contact, Session(src[cw[w].turn].env))
               x == [turn |-> cw[w].turn, contact |-> cw[w].contact, msg |-> a,
                     todo |-> cw[w].todo, prior |-> b]
    <2>1. /\ cw[w] # Idle /\ cw[w].todo # {}
          /\ \/ cw' = [cw EXCEPT ![w].msg = a, ![w].prior = b]
             \/ cw' = [cw EXCEPT ![w] = Idle]
      BY <1>4 DEF Ask
    <2>2. a \in cw[w].todo
      BY <2>1 DEF First
    <2>3. b \in SUBSET (Turns \X Messages \X ((Turns \X Messages) \cup {NoClaim}))
      BY <1>0, PriorTyped
    <2> HIDE DEF a, b
    <2>4. x \in Readings
      BY <1>2, <2>1, <2>2, <2>3 DEF Readings
    <2>5. ASSUME cw' = [cw EXCEPT ![w].msg = a, ![w].prior = b]
          PROVE  cw' = [cw EXCEPT ![w] = x]
      <3>1. [[cw[w] EXCEPT !.msg = a] EXCEPT !.prior = b] = x
        BY <1>2, <2>1, ReadingExcept
      <3>2. cw' = [cw EXCEPT ![w] = [[cw[w] EXCEPT !.msg = a] EXCEPT !.prior = b]]
        BY <1>0, <2>5 DEF WorkersOK
      <3> HIDE DEF x
      <3> QED
        BY <3>1, <3>2
    <2> HIDE DEF x
    <2> QED
      BY <1>1, <2>1, <2>4, <2>5
  <1>5. CASE Commit(w)
    <2> DEFINE a == cw[w].todo \ {cw[w].msg}
               x == [turn |-> cw[w].turn, contact |-> cw[w].contact, msg |-> NoClaim,
                     todo |-> a, prior |-> cw[w].prior]
    <2>1. cw[w] # Idle /\ cw' = [cw EXCEPT ![w].todo = @ \ {cw[w].msg}, ![w].msg = NoClaim]
      BY <1>5 DEF Commit
    <2>2. x \in Readings
      BY <1>2, <2>1 DEF Readings
    <2>3. [[cw[w] EXCEPT !.todo = a] EXCEPT !.msg = NoClaim] = x
      BY <1>2, <2>1, ReadingExcept
    <2>4. cw' = [cw EXCEPT ![w] = [[cw[w] EXCEPT !.todo = a] EXCEPT !.msg = NoClaim]]
      BY <1>0, <2>1 DEF WorkersOK
    <2> HIDE DEF x
    <2> QED
      BY <1>1, <2>2, <2>3, <2>4
  <1>6. CASE ClaimsDone(w) \/ ClaimsFail(w) \/ ClaimerKilled(w)
    <2>1. cw' = [cw EXCEPT ![w] = Idle]
      BY <1>6 DEF ClaimsDone, ClaimsFail, FinishJob, ClaimerKilled
    <2> QED
      BY <1>1, <2>1
  <1> QED
    BY <1>3, <1>4, <1>5, <1>6

\* No claim that was retracted is asserted after the step.
Closed == \A k \in claims : k.retracted => \A h \in claims' : Key(h) = Key(k) => h.retracted

LEMMA FewerClosed ==
    ASSUME KeysUnique, claims' \subseteq claims
    PROVE  Closed
  BY DEF KeysUnique, Closed

LEMMA ClaimerStep ==
    ASSUME MemoryInv, NEW w \in Claimers,
           \/ \E t \in Turns : ClaimJob(w, t)
           \/ Ask(w) \/ Commit(w) \/ ClaimsDone(w) \/ ClaimsFail(w) \/ ClaimerKilled(w)
    PROVE  MemoryInv' /\ Closed
  <1>0. LedgerOK /\ HostTypeOK /\ HandlersOK /\ ClaimsOK /\ WorkersOK /\ KeysUnique
    BY InvParts DEF ClaimsOK
  <1>1. WorkersOK'
    BY WorkersTyped
  <1>2. UNCHANGED ledgerVars /\ UNCHANGED hostVars
    BY DEF ClaimJob, Ask, Commit, ClaimsDone, ClaimsFail, FinishJob, ClaimerKilled
  <1>3. LedgerOK' /\ HostTypeOK' /\ HandlersOK'
    BY <1>0, <1>2, LedgerStays, LedgerAnswers, HandlersStay
  <1>4. ASSUME claims' = claims PROVE ClaimsOK' /\ Closed
    BY <1>0, <1>2, <1>4, ClaimsFrame, FewerClosed
  <1>5. ASSUME Commit(w) PROVE ClaimsOK' /\ Closed
    <2>1. /\ cw[w] # Idle
          /\ \/ claims' = claims
             \/ Current(w) /\ \E p, how : claims' = Committed(w, p, how)
      BY <1>5 DEF Commit
    <2>2. ASSUME Current(w), NEW p, NEW how, claims' = Committed(w, p, how)
          PROVE  ClaimsOK' /\ Closed
      <3>1. /\ claims' \in SUBSET ClaimRows /\ KeysUnique' /\ ClaimsGrounded'
            /\ \A k \in claims : k.retracted =>
                  \A h \in claims' : Key(h) = Key(k) => h.retracted
        BY <1>2, <2>1, <2>2, CommitClaims
      <3> QED
        BY <3>1 DEF ClaimsOK, Closed
    <2> QED
      BY <1>4, <2>1, <2>2
  <1>6. ASSUME ~Commit(w) PROVE ClaimsOK' /\ Closed
    <2>1. claims' = claims
      BY <1>6 DEF ClaimJob, Ask, ClaimsDone, ClaimsFail, FinishJob, ClaimerKilled, projVars
    <2> QED
      BY <1>4, <2>1
  <1>7. ClaimsOK' /\ Closed
    BY <1>5, <1>6
  <1> QED
    BY <1>1, <1>3, <1>7
       DEF MemoryInv, TypeOK, LedgerOK, HostTypeOK, ClaimsOK, WorkersOK

LEMMA NextMemory ==
    ASSUME MemoryInv, [Next]_memVars
    PROVE  MemoryInv' /\ Closed
  <1>0. LedgerOK /\ HostTypeOK /\ HandlersOK /\ ClaimsOK /\ WorkersOK /\ KeysUnique
    BY InvParts DEF ClaimsOK
  <1>1. CASE LedgerNext /\ UNCHANGED workVars
    BY <1>0, <1>1, LedgerNextStep, FewerClosed
  <1>2. ASSUME NEW w \in Claimers,
               \/ \E t \in Turns : ClaimJob(w, t)
               \/ Ask(w) \/ Commit(w) \/ ClaimsDone(w) \/ ClaimsFail(w) \/ ClaimerKilled(w)
        PROVE  MemoryInv' /\ Closed
    BY <1>2, ClaimerStep
  <1>3. ASSUME UNCHANGED <<ledgerVars, hostVars, claims, cw>> PROVE MemoryInv' /\ Closed
    <2>1. LedgerOK' /\ HostTypeOK' /\ HandlersOK' /\ ClaimsOK' /\ Closed
      BY <1>0, <1>3, LedgerStays, LedgerAnswers, HandlersStay, ClaimsFrame, FewerClosed
    <2>2. WorkersOK'
      BY <1>0, <1>3 DEF WorkersOK
    <2> QED
      BY <2>1, <2>2 DEF MemoryInv, TypeOK, LedgerOK, HostTypeOK, ClaimsOK, WorkersOK
  <1>4. ASSUME NEW w \in Embedders,
               \/ \E t \in Turns : VectorClaim(w, t)
               \/ VectorRead(w) \/ VectorCheck(w) \/ VectorInsert(w) \/ VectorRecheck(w)
               \/ VectorDone(w) \/ VectorFail(w) \/ EmbedderKilled(w)
        PROVE  UNCHANGED <<ledgerVars, hostVars, claims, cw>>
    BY <1>4 DEF VectorClaim, VectorRead, VectorCheck, VectorInsert, VectorRecheck, VectorDone,
                VectorFail, FinishVector, EmbedderKilled, projVars
  <1>5. ASSUME NEW t \in Turns, Cleanup(t) PROVE UNCHANGED <<ledgerVars, hostVars, claims, cw>>
    BY <1>5 DEF Cleanup, projVars
  <1>6. CASE UNCHANGED memVars
    BY <1>3, <1>6 DEF memVars, projVars, workVars
  <1> QED
    BY <1>1, <1>2, <1>3, <1>4, <1>5, <1>6 DEF Next

-----------------------------------------------------------------------------
(* The vector workers.                                                     *)

ScopeKeys == [contact : Contacts, scope : {"person", "session"}, session : Sessions]

VectorRows == Turns \X Messages \X ScopeKeys

\* What a vector worker keeps between its calls.
Embeddings ==
    [turn : Turns, at : {"claimed", "write", "insert", "check"}, key : ScopeKeys \cup {NoSource},
     todo : SUBSET Messages, msg : Messages \cup {NoClaim}]

\* The rows of source_vector_jobs.
JobRows == [status : {"none", "pending", "running", "complete"}, token : Embedders \cup {""}]

VectorTypeOK ==
    /\ vjob \in [Turns -> JobRows]
    /\ vw \in [Embedders -> Embeddings \cup {Idle}]
    /\ vectors \in SUBSET VectorRows /\ deletions \in SUBSET VectorRows

\* The source of row v lost something, or was taken from the row's contact.
Lost(v) ==
    \/ Redacted(v[1]) \/ v[1] \in invalid
    \/ \E o \in OpIds : /\ receipts[o] # NotUsed /\ v[1] \in receipts[o].sources
                        /\ receipts[o].old = v[3].contact

Fresh(v) == Hydrates(v) \/ Lost(v)

\* Source t, as it is, has a row for each of its messages but those in todo.
CoveredBut(t, todo) ==
    Present(t) /\ t \notin invalid =>
        \A m \in src[t].msgs \ todo : <<t, m, ScopeKey(t)>> \in vectors \cup deletions

\* The rows a worker has still to write.
Pending(w) == {Row(w, m) : m \in vw[w].todo}

\* A worker writes what the source said when it was read.
WritesFresh(w) ==
    vw[w] # Idle /\ vw[w].at # "claimed" =>
        /\ vw[w].key \in ScopeKeys
        /\ \A v \in Pending(w) : Fresh(v)
        /\ vw[w].at \in {"insert", "check"} => vw[w].msg \in vw[w].todo
        /\ vw[w].at = "check" => Row(w, vw[w].msg) \in vectors \cup deletions

\* The worker whose lease still stands has seen the source as it is.
Covering(w) ==
    vw[w] # Idle /\ vw[w].at # "claimed" /\ vjob[vw[w].turn].token = w =>
        /\ CoveredBut(vw[w].turn, vw[w].todo)
        /\ Present(vw[w].turn) /\ vw[w].turn \notin invalid => vw[w].key = ScopeKey(vw[w].turn)

VectorInv ==
    /\ VectorTypeOK
    /\ \A v \in deletions : Lost(v)
    /\ \A v \in vectors : Fresh(v)
    /\ \A w \in Embedders : WritesFresh(w) /\ Covering(w)
    /\ \A t \in Turns : vjob[t].status = "complete" => CoveredBut(t, {})

\* A step of the ledger: what was fresh is fresh or lost, and a job that is
\* left alone is that of a source that stays as it is, or cannot be read.
Moves ==
    /\ vjob' \in [Turns -> JobRows]
    /\ \A v \in VectorRows : (Lost(v) => Lost(v)') /\ (Fresh(v) => Fresh(v)')
    /\ \A u \in Turns : \/ vjob'[u] \in {Queued, NoJob}
                        \/ /\ vjob'[u] = vjob[u]
                           /\ Present(u)' /\ u \notin invalid' =>
                                 src'[u] = src[u] /\ u \notin invalid

LEMMA PendingTyped ==
    ASSUME VectorTypeOK, NEW w \in Embedders, vw[w] # Idle
    PROVE  /\ vw[w] \in Embeddings
           /\ vw[w] = [turn |-> vw[w].turn, at |-> vw[w].at, key |-> vw[w].key,
                       todo |-> vw[w].todo, msg |-> vw[w].msg]
           /\ vw[w].turn \in Turns /\ vw[w].at \in {"claimed", "write", "insert", "check"}
           /\ vw[w].todo \in SUBSET Messages /\ vw[w].msg \in Messages \cup {NoClaim}
           /\ vw[w].key \in ScopeKeys => Pending(w) \in SUBSET VectorRows
  <1>1. vw[w] \in Embeddings
    BY DEF VectorTypeOK
  <1>2. /\ vw[w] = [turn |-> vw[w].turn, at |-> vw[w].at, key |-> vw[w].key,
                    todo |-> vw[w].todo, msg |-> vw[w].msg]
        /\ vw[w].turn \in Turns /\ vw[w].at \in {"claimed", "write", "insert", "check"}
        /\ vw[w].todo \in SUBSET Messages /\ vw[w].msg \in Messages \cup {NoClaim}
    BY <1>1 DEF Embeddings
  <1>3. ASSUME vw[w].key \in ScopeKeys, NEW m \in vw[w].todo PROVE Row(w, m) \in VectorRows
    BY <1>2, <1>3 DEF Row, VectorRows
  <1> QED
    BY <1>1, <1>2, <1>3 DEF Pending

LEMMA JobTokens ==
    \A j \in {Queued, NoJob} : j.token = "" /\ j.status # "complete"
  <1>1. Queued.token = "" /\ NoJob.token = ""
    BY DEF Queued, NoJob
  <1>2. Queued.status = "pending" /\ NoJob.status = "none"
    BY DEF Queued, NoJob
  <1> QED
    BY <1>1, <1>2

\* A source that stays as it is stays covered.
LEMMA CoverStays ==
    ASSUME NEW u \in Turns, NEW todo, CoveredBut(u, todo),
           Present(u)' /\ u \notin invalid' => src'[u] = src[u] /\ u \notin invalid,
           vectors \cup deletions \subseteq vectors' \cup deletions'
    PROVE  /\ Present(u)' /\ u \notin invalid' =>
                 \A m \in src'[u].msgs \ todo :
                    <<u, m, ScopeKey(u)'>> \in vectors' \cup deletions'
           /\ Present(u)' /\ u \notin invalid' =>
                 Present(u) /\ u \notin invalid /\ ScopeKey(u)' = ScopeKey(u)
  <1>1. ASSUME Present(u)', u \notin invalid'
        PROVE  /\ Present(u) /\ u \notin invalid /\ ScopeKey(u)' = ScopeKey(u)
               /\ src'[u].msgs = src[u].msgs
    BY <1>1 DEF Present, ScopeKey
  <1> QED
    BY <1>1 DEF CoveredBut

LEMMA LedgerVectors ==
    ASSUME VectorInv, Moves, UNCHANGED <<vw, vectors, deletions>>
    PROVE  VectorInv'
  <1>0. vw' = vw /\ vectors' = vectors /\ deletions' = deletions
    OBVIOUS
  <1>1. VectorTypeOK'
    BY <1>0 DEF VectorInv, VectorTypeOK, Moves
  <1>2. (\A v \in deletions' : Lost(v)') /\ (\A v \in vectors' : Fresh(v)')
    BY <1>0 DEF VectorInv, VectorTypeOK, Moves
  <1>3. ASSUME NEW w \in Embedders PROVE WritesFresh(w)'
    <2>1. Pending(w)' = Pending(w)
      BY <1>0 DEF Pending, Row
    <2>2. ASSUME vw[w] # Idle, vw[w].key \in ScopeKeys, \A v \in Pending(w) : Fresh(v)
          PROVE  \A v \in Pending(w) : Fresh(v)'
      <3>1. Pending(w) \in SUBSET VectorRows
        BY <2>2, PendingTyped DEF VectorInv
      <3> QED
        BY <2>2, <3>1 DEF Moves
    <2>3. WritesFresh(w)
      BY DEF VectorInv
    <2> QED
      BY <1>0, <2>1, <2>2, <2>3 DEF WritesFresh, Row
  <1>4. ASSUME NEW w \in Embedders PROVE Covering(w)'
    <2> SUFFICES ASSUME vw[w] # Idle, vw[w].at # "claimed", vjob'[vw[w].turn].token = w
                 PROVE  /\ CoveredBut(vw[w].turn, vw[w].todo)'
                        /\ Present(vw[w].turn)' /\ vw[w].turn \notin invalid' =>
                              vw[w].key = ScopeKey(vw[w].turn)'
      BY <1>0 DEF Covering
    <2>1. PICK u \in Turns : u = vw[w].turn
      BY PendingTyped DEF VectorInv
    <2>2. /\ vjob'[u] = vjob[u]
          /\ Present(u)' /\ u \notin invalid' => src'[u] = src[u] /\ u \notin invalid
      <3>1. vjob'[u] \notin {Queued, NoJob}
        <4>1. vjob'[u].token # ""
          BY <2>1, MemoryAssumption
        <4> QED
          BY <4>1, JobTokens
      <3> QED
        BY <3>1 DEF Moves
    <2>3. /\ CoveredBut(u, vw[w].todo)
          /\ Present(u) /\ u \notin invalid => vw[w].key = ScopeKey(u)
      BY <2>1, <2>2 DEF VectorInv, Covering
    <2>4. /\ Present(u)' /\ u \notin invalid' =>
                \A m \in src'[u].msgs \ vw[w].todo :
                   <<u, m, ScopeKey(u)'>> \in vectors' \cup deletions'
          /\ Present(u)' /\ u \notin invalid' =>
                Present(u) /\ u \notin invalid /\ ScopeKey(u)' = ScopeKey(u)
      BY <1>0, <2>2, <2>3, CoverStays
    <2> QED
      BY <1>0, <2>1, <2>3, <2>4 DEF CoveredBut
  <1>5. ASSUME NEW u \in Turns, vjob'[u].status = "complete" PROVE CoveredBut(u, {})'
    <2>1. /\ vjob'[u] = vjob[u]
          /\ Present(u)' /\ u \notin invalid' => src'[u] = src[u] /\ u \notin invalid
      <3>1. vjob'[u] \notin {Queued, NoJob}
        BY <1>5, JobTokens
      <3> QED
        BY <3>1 DEF Moves
    <2>2. CoveredBut(u, {})
      BY <1>5, <2>1 DEF VectorInv
    <2>3. Present(u)' /\ u \notin invalid' =>
             \A m \in src'[u].msgs \ {} : <<u, m, ScopeKey(u)'>> \in vectors' \cup deletions'
      BY <1>0, <2>1, <2>2, CoverStays
    <2> QED
      BY <2>3 DEF CoveredBut
  <1> QED
    BY <1>1, <1>2, <1>3, <1>4, <1>5 DEF VectorInv

LEMMA MovesBy ==
    ASSUME redacted \subseteq redacted', invalid \subseteq invalid',
           \A o \in OpIds : receipts[o] # NotUsed => receipts'[o] = receipts[o],
           \A u \in Turns : Present(u) =>
              \/ src'[u] = src[u] \/ Redacted(u)'
              \/ \E o \in OpIds : /\ receipts'[o] # NotUsed /\ u \in receipts'[o].sources
                                  /\ receipts'[o].old = src[u].contact,
           vjob' \in [Turns -> JobRows],
           \A u \in Turns : \/ vjob'[u] \in {Queued, NoJob}
                            \/ vjob'[u] = vjob[u] /\ src'[u] = src[u]
    PROVE  Moves
  <1>1. ASSUME NEW v, Lost(v) PROVE Lost(v)'
    <2>1. CASE Redacted(v[1]) \/ v[1] \in invalid
      BY <2>1 DEF Redacted, Lost
    <2>2. ASSUME NEW o \in OpIds, receipts[o] # NotUsed, v[1] \in receipts[o].sources,
                 receipts[o].old = v[3].contact
          PROVE  Lost(v)'
      <3>1. receipts'[o] = receipts[o]
        BY <2>2
      <3> QED
        BY <2>2, <3>1 DEF Lost
    <2> QED
      BY <1>1, <2>1, <2>2 DEF Lost
  <1>2. ASSUME NEW v \in VectorRows, Hydrates(v) PROVE Fresh(v)'
    <2>0. v[1] \in Turns /\ Present(v[1]) /\ src[v[1]].contact = v[3].contact
      <3>1. v[1] \in Turns
        BY DEF VectorRows
      <3>2. Present(v[1]) /\ ScopeKey(v[1]) = v[3]
        BY <1>2 DEF Hydrates
      <3>3. ScopeKey(v[1]).contact = src[v[1]].contact
        BY DEF ScopeKey
      <3> QED
        BY <3>1, <3>2, <3>3
    <2>1. CASE src'[v[1]] = src[v[1]] /\ v[1] \notin invalid'
      <3>1. Hydrates(v)'
        BY <1>2, <2>1 DEF Hydrates, Present, ScopeKey
      <3> QED
        BY <3>1 DEF Fresh
    <2>2. CASE Redacted(v[1])' \/ v[1] \in invalid'
      BY <2>2 DEF Fresh, Lost
    <2>3. ASSUME NEW o \in OpIds, receipts'[o] # NotUsed, v[1] \in receipts'[o].sources,
                 receipts'[o].old = src[v[1]].contact
          PROVE  Fresh(v)'
      BY <2>0, <2>3 DEF Fresh, Lost
    <2> QED
      BY <2>0, <2>1, <2>2, <2>3
  <1>3. \A v \in VectorRows : (Lost(v) => Lost(v)') /\ (Fresh(v) => Fresh(v)')
    <2>1. ASSUME NEW v \in VectorRows, Fresh(v) PROVE Fresh(v)'
      <3>1. CASE Hydrates(v)
        BY <1>2, <3>1
      <3>2. CASE Lost(v)
        BY <1>1, <3>2 DEF Fresh
      <3> QED
        BY <2>1, <3>1, <3>2 DEF Fresh
    <2> QED
      BY <1>1, <2>1
  <1> QED
    BY <1>3 DEF Moves

LEMMA StillMoves ==
    ASSUME VectorTypeOK, UNCHANGED ledgerVars, vjob' = vjob
    PROVE  Moves
  <1>1. src' = src /\ redacted' = redacted /\ invalid' = invalid /\ receipts' = receipts
    BY DEF ledgerVars
  <1> QED
    BY <1>1, MovesBy DEF VectorTypeOK

LEMMA JobsTyped ==
    /\ Queued \in JobRows /\ NoJob \in JobRows
    /\ \A w \in Embedders : \A status \in {"pending", "running", "complete"} :
          [status |-> status, token |-> w] \in JobRows
    /\ \A j \in JobRows : j.token \in Embedders \cup {""}
    /\ \A j \in JobRows : \A status :
          [j EXCEPT !.status = status] = [status |-> status, token |-> j.token]
  <1>1. Queued \in JobRows
    BY DEF Queued, JobRows
  <1>2. NoJob \in JobRows
    BY DEF NoJob, JobRows
  <1>3. \A w \in Embedders : \A status \in {"pending", "running", "complete"} :
           [status |-> status, token |-> w] \in JobRows
    BY DEF JobRows
  <1>4. \A j \in JobRows : j.token \in Embedders \cup {""}
    BY DEF JobRows
  <1>5. ASSUME NEW j \in JobRows, NEW status
        PROVE  [j EXCEPT !.status = status] = [status |-> status, token |-> j.token]
    <2>1. j = [status |-> j.status, token |-> j.token]
      BY DEF JobRows
    <2> QED
      BY <2>1
  <1> QED
    BY <1>1, <1>2, <1>3, <1>4, <1>5

LEMMA RecordMoves ==
    ASSUME MemoryInv, VectorTypeOK, NEW e \in Envelopes, draft[e] # NotDrafted, RecordSource(e)
    PROVE  Moves
  <1> DEFINE T == Env[e].turn
  <1>0. T \in Turns /\ src \in [Turns -> Rows \cup {NoSource}]
    BY SourceAssumption DEF MemoryInv, TypeOK, RowsOK
  <1>1. /\ redacted \subseteq redacted' /\ invalid' = invalid /\ receipts' = receipts
    BY RecordFacts DEF MemoryInv
  <1>2. \/ src' = src /\ vjob' = vjob
        \/ /\ ~Present(T)
           /\ src' = [src EXCEPT ![T] = NewRow(e)] /\ vjob' = [vjob EXCEPT ![T] = Queued]
    <2>1. \/ src' = src /\ vjob' = vjob
          \/ /\ Outcome(e) = "new"
             /\ src' = [src EXCEPT ![T] = NewRow(e)] /\ vjob' = [vjob EXCEPT ![T] = Queued]
      BY DEF RecordSource, NewRow
    <2>2. Outcome(e) = "new" => ~Present(T)
      BY DEF Outcome
    <2> QED
      BY <2>1, <2>2
  <1> HIDE DEF T
  <1>3. \A u \in Turns : Present(u) => src'[u] = src[u]
    BY <1>0, <1>2
  <1>4. \A u \in Turns : \/ vjob'[u] \in {Queued, NoJob}
                         \/ vjob'[u] = vjob[u] /\ src'[u] = src[u]
    BY <1>0, <1>2 DEF VectorTypeOK
  <1>5. vjob' \in [Turns -> JobRows]
    BY <1>0, <1>2, JobsTyped DEF VectorTypeOK
  <1> QED
    BY <1>1, <1>3, <1>4, <1>5, MovesBy

LEMMA EraseMoves ==
    ASSUME MemoryInv, VectorTypeOK, NEW c \in Contacts, NEW sel \in Selections,
           EraseSources(c, sel)
    PROVE  Moves
  <1>0. src \in [Turns -> Rows \cup {NoSource}] /\ sel # {}
    BY SourceAssumption DEF MemoryInv, TypeOK, RowsOK
  <1>1. PICK changed, emptied, end :
           /\ emptied \subseteq changed
           /\ src' = [t \in Turns |->
                 IF t \in emptied THEN NoSource
                 ELSE IF t \in changed THEN [src[t] EXCEPT !.msgs = Of(t, end.held)]
                 ELSE src[t]]
           /\ redacted' = redacted \cup (changed \X sel)
           /\ vjob' = [t \in Turns |-> IF t \in emptied THEN NoJob
                                       ELSE IF t \in changed THEN Queued ELSE vjob[t]]
    <2>1. PICK end : LET changed == {x[1] : x \in Held(c) \ end.held}
                         emptied == {t \in changed : Of(t, end.held) = {}}
                     IN /\ src' = [t \in Turns |->
                              IF t \in emptied THEN NoSource
                              ELSE IF t \in changed THEN [src[t] EXCEPT !.msgs = Of(t, end.held)]
                              ELSE src[t]]
                        /\ redacted' = redacted \cup (changed \X sel)
                        /\ vjob' = [t \in Turns |-> IF t \in emptied THEN NoJob
                                         ELSE IF t \in changed THEN Queued ELSE vjob[t]]
      BY DEF EraseSources
    <2> DEFINE changed == {x[1] : x \in Held(c) \ end.held}
               emptied == {t \in changed : Of(t, end.held) = {}}
    <2>2. emptied \subseteq changed
      OBVIOUS
    <2>3. /\ src' = [t \in Turns |->
                 IF t \in emptied THEN NoSource
                 ELSE IF t \in changed THEN [src[t] EXCEPT !.msgs = Of(t, end.held)]
                 ELSE src[t]]
          /\ redacted' = redacted \cup (changed \X sel)
          /\ vjob' = [t \in Turns |-> IF t \in emptied THEN NoJob
                                      ELSE IF t \in changed THEN Queued ELSE vjob[t]]
      BY <2>1
    <2> HIDE DEF changed, emptied
    <2> QED
      BY <2>2, <2>3
  <1>2. invalid' = invalid /\ receipts' = receipts
    BY DEF EraseSources
  <1>3. ASSUME NEW u \in changed PROVE Redacted(u)'
    <2>1. PICK s \in sel : TRUE
      BY <1>0
    <2>2. <<u, s>> \in redacted'
      BY <1>1
    <2> QED
      BY <2>2 DEF Redacted
  <1>4. \A u \in Turns : src'[u] = src[u] \/ Redacted(u)'
    BY <1>1, <1>3
  <1>5. \A u \in Turns : \/ vjob'[u] \in {Queued, NoJob}
                         \/ vjob'[u] = vjob[u] /\ src'[u] = src[u]
    BY <1>1
  <1>6. vjob' \in [Turns -> JobRows]
    BY <1>1, JobsTyped DEF VectorTypeOK
  <1>7. redacted \subseteq redacted'
    BY <1>1
  <1> QED
    BY <1>2, <1>4, <1>5, <1>6, <1>7, MovesBy

LEMMA CorrectMoves ==
    ASSUME MemoryInv, VectorTypeOK, NEW o \in OpIds, NEW old \in Contacts,
           NEW new \in Contacts, NEW sel \in Selections, Correct(o, old, new, sel)
    PROVE  Moves
  <1>0. /\ src \in [Turns -> Rows \cup {NoSource}] /\ sel \in SUBSET Turns
        /\ receipts \in [OpIds -> [old : Contacts, new : Contacts, sources : SUBSET Turns]
                                     \cup {NotUsed}]
    BY SourceAssumption DEF MemoryInv, TypeOK, RowsOK
  <1>1. /\ receipts[o] = NotUsed
        /\ receipts' = [receipts EXCEPT ![o] = [old |-> old, new |-> new, sources |-> sel]]
        /\ \A t \in sel : src[t].contact = old
        /\ src' = [t \in Turns |-> IF t \in sel THEN [src[t] EXCEPT !.contact = new] ELSE src[t]]
        /\ vjob' = [t \in Turns |-> IF t \in sel THEN Queued ELSE vjob[t]]
        /\ redacted \subseteq redacted' /\ invalid \subseteq invalid'
    BY DEF Correct
  <1>2. receipts'[o].old = old /\ receipts'[o].sources = sel /\ receipts'[o] # NotUsed
    <2>1. receipts'[o] = [old |-> old, new |-> new, sources |-> sel]
      BY <1>0, <1>1
    <2>2. receipts'[o] \in [old : Contacts, new : Contacts, sources : SUBSET Turns]
      BY <1>0, <2>1
    <2> QED
      BY <2>1, <2>2, SourceAssumption
  <1>3. \A p \in OpIds : receipts[p] # NotUsed => receipts'[p] = receipts[p]
    BY <1>0, <1>1
  <1>4. ASSUME NEW u \in Turns
        PROVE  \/ src'[u] = src[u]
               \/ \E p \in OpIds : /\ receipts'[p] # NotUsed /\ u \in receipts'[p].sources
                                   /\ receipts'[p].old = src[u].contact
    <2>1. CASE u \in sel
      BY <1>1, <1>2, <2>1
    <2>2. CASE u \notin sel
      BY <1>1, <2>2
    <2> QED
      BY <2>1, <2>2
  <1>5. \A u \in Turns : \/ vjob'[u] \in {Queued, NoJob}
                         \/ vjob'[u] = vjob[u] /\ src'[u] = src[u]
    BY <1>1
  <1>6. vjob' \in [Turns -> JobRows]
    BY <1>1, JobsTyped DEF VectorTypeOK
  <1> QED
    BY <1>1, <1>3, <1>4, <1>5, <1>6, MovesBy

\* Steps of the vector workers and of the clean-up: the ledger stays.
LEMMA RowsStay ==
    ASSUME UNCHANGED ledgerVars
    PROVE  /\ \A v : Lost(v)' = Lost(v)
           /\ \A v : Hydrates(v)' = Hydrates(v)
           /\ \A v : Fresh(v)' = Fresh(v)
           /\ src' = src /\ invalid' = invalid /\ \A t : ScopeKey(t)' = ScopeKey(t)
           /\ \A t : Present(t)' = Present(t)
  <1>1. src' = src /\ redacted' = redacted /\ invalid' = invalid /\ receipts' = receipts
    BY DEF ledgerVars
  <1>2. \A t : ScopeKey(t)' = ScopeKey(t)
    BY <1>1 DEF ScopeKey
  <1>3. \A t : Present(t)' = Present(t)
    BY <1>1 DEF Present
  <1>4. \A v : Lost(v)' = Lost(v)
    BY <1>1 DEF Lost, Redacted
  <1>5. \A v : Hydrates(v)' = Hydrates(v)
    BY <1>1 DEF Hydrates, Present, ScopeKey
  <1>6. \A v : Fresh(v)' = Fresh(v)
    BY <1>4, <1>5 DEF Fresh
  <1> QED
    BY <1>1, <1>2, <1>3, <1>4, <1>5, <1>6

\* A worker other than w is not disturbed by a step of w.
LEMMA OthersStay ==
    ASSUME VectorInv, UNCHANGED ledgerVars, NEW w \in Embedders,
           vw'[w] = vw[w],
           vjob'[vw[w].turn].token = w => vjob[vw[w].turn].token = w,
           vectors \cup deletions \subseteq vectors' \cup deletions'
    PROVE  WritesFresh(w)' /\ Covering(w)'
  <1>1. WritesFresh(w) /\ Covering(w)
    BY DEF VectorInv
  <1>2. Pending(w)' = Pending(w) /\ Row(w, vw[w].msg)' = Row(w, vw[w].msg)
    BY DEF Pending, Row
  <1>3. /\ \A v : Fresh(v)' = Fresh(v)
        /\ src' = src /\ invalid' = invalid /\ \A t : ScopeKey(t)' = ScopeKey(t)
        /\ \A t : Present(t)' = Present(t)
    BY RowsStay
  <1>4. WritesFresh(w)'
    BY <1>1, <1>2, <1>3 DEF WritesFresh
  <1>5. Covering(w)'
    BY <1>1, <1>3 DEF Covering, CoveredBut
  <1> QED
    BY <1>4, <1>5

\* What is left to show of a step of one worker.
LEMMA WorkerStep ==
    ASSUME VectorInv, UNCHANGED ledgerVars, NEW w \in Embedders,
           NEW x \in Embeddings \cup {Idle}, vw' = [vw EXCEPT ![w] = x],
           vjob' \in [Turns -> JobRows],
           \A u \in Turns : vjob'[u] = vjob[u] \/ vjob'[u].token = w,
           \A u \in Turns : vjob'[u].status = "complete" /\ vjob'[u] # vjob[u] => CoveredBut(u, {}),
           vectors' \in SUBSET VectorRows, deletions' \in SUBSET VectorRows,
           vectors \cup deletions \subseteq vectors' \cup deletions',
           \A v \in vectors' : Fresh(v), \A v \in deletions' : Lost(v),
           WritesFresh(w)', Covering(w)'
    PROVE  VectorInv'
  <1>1. VectorTypeOK'
    BY DEF VectorInv, VectorTypeOK
  <1>2. /\ \A v : Fresh(v)' = Fresh(v)
        /\ \A v : Lost(v)' = Lost(v)
        /\ src' = src /\ invalid' = invalid /\ \A t : ScopeKey(t)' = ScopeKey(t)
        /\ \A t : Present(t)' = Present(t)
    BY RowsStay
  <1>3. (\A v \in deletions' : Lost(v)') /\ (\A v \in vectors' : Fresh(v)')
    BY <1>2
  <1>4. ASSUME NEW y \in Embedders PROVE WritesFresh(y)' /\ Covering(y)'
    <2>1. CASE y # w
      <3>1. vw'[y] = vw[y]
        BY <2>1 DEF VectorInv, VectorTypeOK
      <3>2. CASE vw[y] = Idle
        BY <3>1, <3>2 DEF WritesFresh, Covering
      <3>3. CASE vw[y] # Idle
        <4>1. vw[y].turn \in Turns
          BY <3>3, PendingTyped DEF VectorInv
        <4>2. vjob'[vw[y].turn].token = y => vjob[vw[y].turn].token = y
          BY <2>1, <4>1
        <4> QED
          BY <3>1, <4>2, OthersStay
      <3> QED
        BY <3>2, <3>3
    <2> QED
      BY <2>1
  <1>5. ASSUME NEW u \in Turns, vjob'[u].status = "complete" PROVE CoveredBut(u, {})'
    <2>1. CoveredBut(u, {})
      BY <1>5 DEF VectorInv
    <2> QED
      BY <1>2, <2>1 DEF CoveredBut
  <1> QED
    BY <1>1, <1>3, <1>4, <1>5 DEF VectorInv

\* The worker lets go, or has only claimed: nothing is asked of it.
LEMMA LetsGo ==
    ASSUME VectorInv, UNCHANGED <<ledgerVars, vectors, deletions>>, NEW w \in Embedders,
           NEW x \in Embeddings \cup {Idle}, vw' = [vw EXCEPT ![w] = x],
           x = Idle \/ x.at = "claimed",
           vjob' \in [Turns -> JobRows],
           \A u \in Turns : vjob'[u] = vjob[u] \/ vjob'[u].token = w,
           \A u \in Turns : vjob'[u].status = "complete" /\ vjob'[u] # vjob[u] => CoveredBut(u, {})
    PROVE  VectorInv'
  <1>1. vw'[w] = x
    BY DEF VectorInv, VectorTypeOK
  <1>2. WritesFresh(w)' /\ Covering(w)'
    BY <1>1 DEF WritesFresh, Covering
  <1>3. /\ UNCHANGED ledgerVars /\ vectors' = vectors /\ deletions' = deletions
        /\ vectors' \in SUBSET VectorRows /\ deletions' \in SUBSET VectorRows
        /\ vectors \cup deletions \subseteq vectors' \cup deletions'
        /\ \A v \in vectors' : Fresh(v)
        /\ \A v \in deletions' : Lost(v)
    BY DEF VectorInv, VectorTypeOK
  <1> QED
    BY <1>2, <1>3, WorkerStep

\* FinishVector changes the job of w's turn if its token still stands.
LEMMA FinishStep ==
    ASSUME VectorInv, NEW w \in Embedders, vw[w] # Idle,
           NEW status \in {"pending", "complete"}, FinishVector(w, status),
           status = "complete" => vw[w].at = "write" /\ vw[w].todo = {}
    PROVE  VectorInv'
  <1>0. PICK T \in Turns : T = vw[w].turn
    BY PendingTyped DEF VectorInv
  <1>1. /\ vjob' = [vjob EXCEPT ![T] = IF vjob[T].token = w THEN [vjob[T] EXCEPT !.status = status]
                                                            ELSE vjob[T]]
        /\ vw' = [vw EXCEPT ![w] = Idle] /\ UNCHANGED <<ledgerVars, vectors, deletions>>
    BY <1>0 DEF FinishVector
  <1>2. vjob \in [Turns -> JobRows] /\ vjob[T] \in JobRows
    BY <1>0 DEF VectorInv, VectorTypeOK
  <1>3. vjob[T].token = w => [vjob[T] EXCEPT !.status = status] = [status |-> status, token |-> w]
    BY <1>2, JobsTyped
  <1>4. [status |-> status, token |-> w] \in JobRows
    BY JobsTyped
  <1>5. PICK j : j = [status |-> status, token |-> w]
    OBVIOUS
  <1>6. j.token = w /\ j.status = status /\ j \in JobRows
    BY <1>4, <1>5
  <1>7. /\ vjob[T].token = w => vjob'[T] = j
        /\ vjob[T].token # w => vjob'[T] = vjob[T]
        /\ \A u \in Turns \ {T} : vjob'[u] = vjob[u]
        /\ vjob' \in [Turns -> JobRows]
    <2>1. CASE vjob[T].token = w
      <3>1. vjob' = [vjob EXCEPT ![T] = j]
        BY <1>1, <1>3, <1>5, <2>1
      <3> QED
        BY <1>2, <1>6, <2>1, <3>1
    <2>2. CASE vjob[T].token # w
      <3>1. vjob' = [vjob EXCEPT ![T] = vjob[T]]
        BY <1>1, <2>2
      <3> QED
        BY <1>2, <2>2, <3>1
    <2> QED
      BY <2>1, <2>2
  <1>8. \A u \in Turns : vjob'[u] = vjob[u] \/ vjob'[u].token = w
    BY <1>6, <1>7
  <1>9. ASSUME NEW u \in Turns, vjob'[u].status = "complete", vjob'[u] # vjob[u]
        PROVE  CoveredBut(u, {})
    <2>1. u = T /\ vjob[T].token = w /\ status = "complete"
      BY <1>6, <1>7, <1>9
    <2>2. CoveredBut(T, vw[w].todo)
      BY <1>0, <2>1 DEF VectorInv, Covering
    <2> QED
      BY <2>1, <2>2
  <1> QED
    BY <1>1, <1>7, <1>8, <1>9, LetsGo

LEMMA ClaimStep ==
    ASSUME VectorInv, NEW w \in Embedders, NEW t \in Turns, VectorClaim(w, t)
    PROVE  VectorInv'
  <1> DEFINE x == [turn |-> t, at |-> "claimed", key |-> NoSource, todo |-> {}, msg |-> NoClaim]
  <1>1. /\ vjob' = [vjob EXCEPT ![t] = [status |-> "running", token |-> w]]
        /\ vw' = [vw EXCEPT ![w] = x] /\ UNCHANGED <<ledgerVars, vectors, deletions>>
    BY DEF VectorClaim
  <1>2. x \in Embeddings /\ x.at = "claimed"
    BY DEF Embeddings
  <1> HIDE DEF x
  <1>3. PICK j \in JobRows : j = [status |-> "running", token |-> w]
    BY JobsTyped
  <1>4. j.token = w /\ j.status # "complete"
    BY <1>3
  <1>5. /\ vjob'[t] = j
        /\ \A u \in Turns \ {t} : vjob'[u] = vjob[u]
        /\ vjob' \in [Turns -> JobRows]
    <2>1. vjob' = [vjob EXCEPT ![t] = j]
      BY <1>1, <1>3
    <2> QED
      BY <2>1 DEF VectorInv, VectorTypeOK
  <1>6. /\ \A u \in Turns : vjob'[u] = vjob[u] \/ vjob'[u].token = w
        /\ \A u \in Turns : vjob'[u].status = "complete" /\ vjob'[u] # vjob[u] => CoveredBut(u, {})
    BY <1>4, <1>5
  <1> QED
    BY <1>1, <1>2, <1>5, <1>6, LetsGo

LEMMA IdleStep ==
    ASSUME VectorInv, NEW w \in Embedders, vw' = [vw EXCEPT ![w] = Idle],
           UNCHANGED <<ledgerVars, vjob, vectors, deletions>>
    PROVE  VectorInv'
  <1>1. /\ vjob' \in [Turns -> JobRows]
        /\ \A u \in Turns : vjob'[u] = vjob[u]
    BY DEF VectorInv, VectorTypeOK
  <1> QED
    BY <1>1, LetsGo

Embedding(turn, at, key, todo, msg) ==
    [turn |-> turn, at |-> at, key |-> key, todo |-> todo, msg |-> msg]

\* The ways the actions set its fields.
ReadAs(r, at, key, todo) == [r EXCEPT !.at = at, !.key = key, !.todo = todo]
NextAs(r, at, todo, msg) == [r EXCEPT !.at = at, !.todo = todo, !.msg = msg]
PickAs(r, at, msg) == [r EXCEPT !.at = at, !.msg = msg]
AtAs(r, at) == [r EXCEPT !.at = at]
LessAs(r, todo) == [r EXCEPT !.todo = todo]

LEMMA EmbeddingRead ==
    ASSUME NEW r, NEW t, NEW a, NEW k, NEW d, NEW m, r = Embedding(t, a, k, d, m),
           NEW x, NEW y, NEW z
    PROVE  ReadAs(r, x, y, z) = Embedding(t, x, y, z, m)
  <1> DEFINE r1 == Embedding(t, x, k, d, m)  r2 == Embedding(t, x, y, d, m)
             r3 == Embedding(t, x, y, z, m)
  <1>1. [r EXCEPT !.at = x] = r1
    BY DEF Embedding
  <1>2. [r1 EXCEPT !.key = y] = r2
    BY DEF Embedding
  <1>3. [r2 EXCEPT !.todo = z] = r3
    BY DEF Embedding
  <1> HIDE DEF r1, r2, r3
  <1>4. [r EXCEPT !.at = x, !.key = y, !.todo = z] = r3
    BY <1>1, <1>2, <1>3, Zenon
  <1> QED
    BY <1>4, Zenon DEF r3, ReadAs

LEMMA EmbeddingNext ==
    ASSUME NEW r, NEW t, NEW a, NEW k, NEW d, NEW m, r = Embedding(t, a, k, d, m),
           NEW x, NEW y, NEW z
    PROVE  NextAs(r, x, y, z) = Embedding(t, x, k, y, z)
  <1> DEFINE r1 == Embedding(t, x, k, d, m)  r2 == Embedding(t, x, k, y, m)
             r3 == Embedding(t, x, k, y, z)
  <1>1. [r EXCEPT !.at = x] = r1
    BY DEF Embedding
  <1>2. [r1 EXCEPT !.todo = y] = r2
    BY DEF Embedding
  <1>3. [r2 EXCEPT !.msg = z] = r3
    BY DEF Embedding
  <1> HIDE DEF r1, r2, r3
  <1>4. [r EXCEPT !.at = x, !.todo = y, !.msg = z] = r3
    BY <1>1, <1>2, <1>3, Zenon
  <1> QED
    BY <1>4, Zenon DEF r3, NextAs

LEMMA EmbeddingPicked ==
    ASSUME NEW r, NEW t, NEW a, NEW k, NEW d, NEW m, r = Embedding(t, a, k, d, m),
           NEW x, NEW y
    PROVE  /\ PickAs(r, x, y) = Embedding(t, x, k, d, y)
           /\ AtAs(r, x) = Embedding(t, x, k, d, m)
           /\ LessAs(r, x) = Embedding(t, a, k, x, m)
  <1> DEFINE r1 == Embedding(t, x, k, d, m)  r2 == Embedding(t, x, k, d, y)
             r3 == Embedding(t, a, k, x, m)
  <1>1. [r EXCEPT !.at = x] = r1
    BY DEF Embedding
  <1>2. [r1 EXCEPT !.msg = y] = r2
    BY DEF Embedding
  <1>3. [r EXCEPT !.todo = x] = r3
    BY DEF Embedding
  <1> HIDE DEF r1, r2, r3
  <1>4. [r EXCEPT !.at = x, !.msg = y] = r2
    BY <1>1, <1>2, Zenon
  <1> QED
    BY <1>1, <1>3, <1>4, Zenon DEF r1, r2, r3, PickAs, AtAs, LessAs

\* The source is read, all of it still to be written.
LEMMA ReadStep ==
    ASSUME MemoryInv, VectorInv, NEW w \in Embedders, VectorRead(w)
    PROVE  VectorInv'
  <1>T. PICK T : T = vw[w].turn
    OBVIOUS
  <1> DEFINE x == Embedding(T, "write", ScopeKey(T), src[T].msgs, vw[w].msg)
  <1>0. vw[w] # Idle /\ UNCHANGED <<ledgerVars, vjob, vectors, deletions>>
    BY DEF VectorRead, projVars
  <1>1. /\ T \in Turns /\ vw[w].msg \in Messages \cup {NoClaim}
        /\ vw[w] = Embedding(T, vw[w].at, vw[w].key, vw[w].todo, vw[w].msg)
    BY <1>0, <1>T, PendingTyped DEF VectorInv, Embedding
  <1>2. CASE ~Present(T)
    <2>1. vw' = [vw EXCEPT ![w] = Idle]
      BY <1>T, <1>2 DEF VectorRead
    <2> QED
      BY <1>0, <2>1, IdleStep
  <1>3. CASE Present(T)
    <2>1. vw' = [vw EXCEPT ![w] = ReadAs(vw[w], "write", ScopeKey(T), src[T].msgs)]
      BY <1>T, <1>3 DEF VectorRead, ReadAs
    <2>2. ReadAs(vw[w], "write", ScopeKey(T), src[T].msgs) = x
      BY <1>1, EmbeddingRead
    <2>3. /\ src[T].msgs \in SUBSET Messages /\ src[T].contact \in Contacts
          /\ src[T].env \in Envelopes
      BY <1>1, <1>3, RowFields DEF MemoryInv, TypeOK
    <2>4. ScopeKey(T) \in ScopeKeys
      BY <2>3 DEF ScopeKey, ScopeKeys, Scope, Sessions
    <2>5. x \in Embeddings
      BY <1>1, <2>3, <2>4 DEF Embeddings, Embedding
    <2>6. vw'[w] = x /\ vw' = [vw EXCEPT ![w] = x]
      BY <2>1, <2>2 DEF VectorInv, VectorTypeOK
    <2>7. \A m \in src[T].msgs : Fresh(<<T, m, ScopeKey(T)>>)
      <3>1. ASSUME NEW m \in src[T].msgs PROVE Fresh(<<T, m, ScopeKey(T)>>)
        BY <1>3 DEF Fresh, Hydrates, Lost
      <3> QED
        BY <3>1
    <2>8. /\ \A v : Fresh(v)' = Fresh(v)
          /\ src' = src /\ ScopeKey(T)' = ScopeKey(T)
      BY <1>0, RowsStay
    <2>9. WritesFresh(w)'
      <3>1. vw'[w].at = "write" /\ vw'[w].key = ScopeKey(T) /\ vw'[w].todo = src[T].msgs
            /\ vw'[w].turn = T
        BY <2>6 DEF Embedding
      <3>2. ASSUME NEW v \in Pending(w)' PROVE Fresh(v)'
        <4>1. PICK m \in src[T].msgs : v = <<T, m, ScopeKey(T)>>
          BY <3>1 DEF Pending, Row
        <4> QED
          BY <2>7, <2>8, <4>1
      <3> QED
        BY <2>4, <3>1, <3>2 DEF WritesFresh
    <2>10. Covering(w)'
      BY <2>6, <2>8 DEF Covering, CoveredBut, Embedding
    <2>11. /\ UNCHANGED ledgerVars
           /\ vectors' \in SUBSET VectorRows /\ deletions' \in SUBSET VectorRows
           /\ vectors \cup deletions \subseteq vectors' \cup deletions'
           /\ \A v \in vectors' : Fresh(v)
           /\ \A v \in deletions' : Lost(v)
           /\ vjob' \in [Turns -> JobRows]
           /\ \A u \in Turns : vjob'[u] = vjob[u]
      BY <1>0 DEF VectorInv, VectorTypeOK
    <2> HIDE DEF x
    <2> QED
      BY <2>5, <2>6, <2>9, <2>10, <2>11, WorkerStep
  <1> QED
    BY <1>2, <1>3

\* A worker goes on with what it read: what it drops from its list has its
\* row, or is no longer what the source says.
Writes(w, T, a, K, D, M) ==
    /\ vw[w] # Idle /\ vw[w].at # "claimed" /\ T = vw[w].turn /\ K = vw[w].key
    /\ a \in {"write", "insert", "check"} /\ D \in SUBSET vw[w].todo
    /\ M \in Messages \cup {NoClaim}
    /\ vw' = [vw EXCEPT ![w] = Embedding(T, a, K, D, M)]
    /\ a \in {"insert", "check"} => M \in D
    /\ a = "check" => <<T, M, K>> \in vectors' \cup deletions'
    /\ UNCHANGED <<ledgerVars, vjob>>
    /\ vectors' \in SUBSET VectorRows /\ deletions' \in SUBSET VectorRows
    /\ vectors \cup deletions \subseteq vectors' \cup deletions'
    /\ \A v \in vectors' : Fresh(v)
    /\ \A v \in deletions' : Lost(v)
    /\ \A m \in vw[w].todo \ D :
          Hydrates(<<T, m, K>>) => <<T, m, K>> \in vectors' \cup deletions'

LEMMA WriteStep ==
    ASSUME VectorInv, NEW w \in Embedders, NEW T, NEW a, NEW K, NEW D, NEW M,
           Writes(w, T, a, K, D, M)
    PROVE  VectorInv'
  <1> USE DEF Writes
  <1> DEFINE x == Embedding(T, a, K, D, M)
  <1>0. /\ T \in Turns /\ vw[w].todo \in SUBSET Messages
        /\ K \in ScopeKeys /\ \A v \in Pending(w) : Fresh(v)
        /\ Covering(w)
    BY PendingTyped DEF VectorInv, WritesFresh
  <1>1. x \in Embeddings
    BY <1>0 DEF Embedding, Embeddings
  <1>2. vw'[w] = x
    BY DEF VectorInv, VectorTypeOK
  <1>3. /\ vw'[w].turn = T /\ vw'[w].at = a /\ vw'[w].key = K /\ vw'[w].todo = D /\ vw'[w].msg = M
    BY <1>2 DEF Embedding
  <1> HIDE DEF x
  <1>4. /\ \A v : Fresh(v)' = Fresh(v)
        /\ src' = src /\ invalid' = invalid /\ ScopeKey(T)' = ScopeKey(T)
        /\ Present(T)' = Present(T)
    BY RowsStay
  <1>5. WritesFresh(w)'
    <2>1. ASSUME NEW v \in Pending(w)' PROVE Fresh(v)'
      <3>1. PICK m \in D : v = <<T, m, K>>
        BY <1>3 DEF Pending, Row
      <3>2. v \in Pending(w)
        BY <3>1 DEF Pending, Row
      <3> QED
        BY <1>0, <1>4, <3>2
    <2> QED
      BY <1>0, <1>3, <2>1 DEF WritesFresh, Row
  <1>6. Covering(w)'
    <2> SUFFICES ASSUME vjob'[T].token = w, Present(T), T \notin invalid
                 PROVE  /\ \A m \in src[T].msgs \ D : <<T, m, ScopeKey(T)>> \in vectors' \cup deletions'
                        /\ K = ScopeKey(T)
      BY <1>3, <1>4 DEF Covering, CoveredBut
    <2>1. /\ K = ScopeKey(T)
          /\ \A m \in src[T].msgs \ vw[w].todo : <<T, m, ScopeKey(T)>> \in vectors \cup deletions
      BY <1>0 DEF Covering, CoveredBut
    <2>2. ASSUME NEW m \in src[T].msgs \ D, m \in vw[w].todo
          PROVE  <<T, m, ScopeKey(T)>> \in vectors' \cup deletions'
      <3>1. Hydrates(<<T, m, K>>)
        BY <2>1, <2>2 DEF Hydrates
      <3> QED
        BY <2>1, <2>2, <3>1
    <2> QED
      BY <2>1, <2>2
  <1>7. /\ vjob' \in [Turns -> JobRows] /\ \A u \in Turns : vjob'[u] = vjob[u]
        /\ UNCHANGED ledgerVars /\ vw' = [vw EXCEPT ![w] = x]
    BY DEF VectorInv, VectorTypeOK, x
  <1> QED
    BY <1>1, <1>5, <1>6, <1>7, WorkerStep

LEMMA CheckStep ==
    ASSUME VectorInv, NEW w \in Embedders, VectorCheck(w)
    PROVE  VectorInv'
  <1>1. PICK T, K, D, M : /\ T = vw[w].turn /\ K = vw[w].key /\ D = vw[w].todo /\ M = vw[w].msg
    OBVIOUS
  <1>2. PICK m : m = First(D)
    OBVIOUS
  <1>3. /\ vw[w] # Idle /\ vw[w].at = "write" /\ D # {}
        /\ vw' = [vw EXCEPT ![w] = IF Eligible(<<T, m, K>>) THEN PickAs(vw[w], "insert", m)
                                                           ELSE LessAs(vw[w], D \ {m})]
        /\ UNCHANGED <<ledgerVars, vjob>> /\ vectors' = vectors /\ deletions' = deletions
    <2>1. vw' = [vw EXCEPT ![w] =
             IF Eligible(Row(w, First(vw[w].todo))) THEN PickAs(vw[w], "insert", First(vw[w].todo))
             ELSE LessAs(vw[w], vw[w].todo \ {First(vw[w].todo)})]
      <3>1. vw' = [vw EXCEPT ![w] =
               IF Eligible(Row(w, First(vw[w].todo)))
               THEN [vw[w] EXCEPT !.at = "insert", !.msg = First(vw[w].todo)]
               ELSE [vw[w] EXCEPT !.todo = vw[w].todo \ {First(vw[w].todo)}]]
        BY DEF VectorCheck
      <3>2. /\ PickAs(vw[w], "insert", First(vw[w].todo)) =
                  [vw[w] EXCEPT !.at = "insert", !.msg = First(vw[w].todo)]
            /\ LessAs(vw[w], vw[w].todo \ {First(vw[w].todo)}) =
                  [vw[w] EXCEPT !.todo = vw[w].todo \ {First(vw[w].todo)}]
        BY DEF PickAs, LessAs
      <3> QED
        BY <3>1, <3>2, Zenon
    <2>2. Row(w, First(vw[w].todo)) = <<T, m, K>>
      BY <1>1, <1>2 DEF Row
    <2> QED
      BY <1>1, <1>2, <2>1, <2>2 DEF VectorCheck, projVars
  <1>4. /\ vw[w] = Embedding(T, "write", K, D, M) /\ D \in SUBSET Messages
        /\ M \in Messages \cup {NoClaim}
    BY <1>1, <1>3, PendingTyped DEF VectorInv, Embedding
  <1>5. m \in D
    BY <1>2, <1>3 DEF First
  <1>6. /\ vectors' \in SUBSET VectorRows /\ deletions' \in SUBSET VectorRows
        /\ vectors \cup deletions \subseteq vectors' \cup deletions'
        /\ \A v \in vectors' : Fresh(v)
        /\ \A v \in deletions' : Lost(v)
    BY <1>3 DEF VectorInv, VectorTypeOK
  <1>7. CASE Eligible(<<T, m, K>>)
    <2>1. PICK a \in {"write", "insert", "check"} : a = "insert"
      OBVIOUS
    <2>2. PickAs(vw[w], a, m) = Embedding(T, a, K, D, m)
      BY <1>4, EmbeddingPicked
    <2>3. vw' = [vw EXCEPT ![w] = Embedding(T, a, K, D, m)]
      BY <1>3, <1>7, <2>1, <2>2
    <2>4. D \in SUBSET vw[w].todo /\ vw[w].todo \ D = {} /\ m \in Messages \cup {NoClaim}
      BY <1>1, <1>4, <1>5
    <2> QED
      <3>1. Writes(w, T, a, K, D, m)
        BY <1>1, <1>3, <1>5, <1>6, <2>1, <2>3, <2>4 DEF Writes
      <3> QED
        BY <3>1, WriteStep
  <1>8. CASE ~Eligible(<<T, m, K>>)
    <2>1. PICK a \in {"write", "insert", "check"} : a = "write"
      OBVIOUS
    <2>2. PICK less \in SUBSET vw[w].todo : less = D \ {m}
      BY <1>1
    <2>3. LessAs(vw[w], less) = Embedding(T, a, K, less, M)
      BY <1>4, <2>1, EmbeddingPicked
    <2>4. vw' = [vw EXCEPT ![w] = Embedding(T, a, K, less, M)]
      BY <1>3, <1>8, <2>2, <2>3
    <2>5. \A n \in vw[w].todo \ less : Hydrates(<<T, n, K>>) => <<T, n, K>> \in vectors' \cup deletions'
      BY <1>1, <1>3, <1>8, <2>2 DEF Eligible
    <2> QED
      <3>1. Writes(w, T, a, K, less, M)
        BY <1>1, <1>3, <1>4, <1>6, <2>1, <2>4, <2>5 DEF Writes
      <3> QED
        BY <3>1, WriteStep
  <1> QED
    BY <1>7, <1>8

LEMMA InsertStep ==
    ASSUME VectorInv, NEW w \in Embedders, VectorInsert(w)
    PROVE  VectorInv'
  <1>1. PICK T, K, D, M : /\ T = vw[w].turn /\ K = vw[w].key /\ D = vw[w].todo /\ M = vw[w].msg
    OBVIOUS
  <1>2. /\ vw[w] # Idle /\ vw[w].at = "insert"
        /\ vw' = [vw EXCEPT ![w] = AtAs(vw[w], "check")]
        /\ vectors' = vectors \cup {<<T, M, K>>}
        /\ UNCHANGED <<ledgerVars, vjob>> /\ deletions' = deletions
    BY <1>1 DEF VectorInsert, Row, AtAs, projVars
  <1>3. /\ vw[w] = Embedding(T, "insert", K, D, M) /\ T \in Turns /\ D \in SUBSET Messages
        /\ M \in Messages \cup {NoClaim}
    BY <1>1, <1>2, PendingTyped DEF VectorInv, Embedding
  <1>4. M \in D /\ K \in ScopeKeys /\ \A v \in Pending(w) : Fresh(v)
    BY <1>1, <1>2 DEF VectorInv, WritesFresh
  <1>5. <<T, M, K>> \in VectorRows /\ Fresh(<<T, M, K>>)
    <2>1. <<T, M, K>> \in Pending(w)
      BY <1>1, <1>4 DEF Pending, Row
    <2>2. <<T, M, K>> \in VectorRows
      BY <1>3, <1>4 DEF VectorRows
    <2> QED
      BY <1>4, <2>1, <2>2
  <1>6. /\ vectors' \in SUBSET VectorRows /\ deletions' \in SUBSET VectorRows
        /\ vectors \cup deletions \subseteq vectors' \cup deletions'
        /\ \A v \in vectors' : Fresh(v)
        /\ \A v \in deletions' : Lost(v)
    BY <1>2, <1>5 DEF VectorInv, VectorTypeOK
  <1>7. PICK a \in {"write", "insert", "check"} : a = "check"
    OBVIOUS
  <1>8. AtAs(vw[w], a) = Embedding(T, a, K, D, M)
    BY <1>3, EmbeddingPicked
  <1>9. vw' = [vw EXCEPT ![w] = Embedding(T, a, K, D, M)]
    BY <1>2, <1>7, <1>8
  <1>10. D \in SUBSET vw[w].todo /\ vw[w].todo \ D = {} /\ <<T, M, K>> \in vectors' \cup deletions'
    BY <1>1, <1>2
  <1>11. vw[w].at # "claimed"
    BY <1>2
  <1> QED
    <2>1. Writes(w, T, a, K, D, M)
      BY <1>1, <1>2, <1>3, <1>4, <1>6, <1>9, <1>10, <1>11 DEF Writes
    <2> QED
      BY <2>1, WriteStep

LEMMA RecheckStep ==
    ASSUME VectorInv, NEW w \in Embedders, VectorRecheck(w)
    PROVE  VectorInv'
  <1>1. PICK T, K, D, M : /\ T = vw[w].turn /\ K = vw[w].key /\ D = vw[w].todo /\ M = vw[w].msg
    OBVIOUS
  <1>2. /\ vw[w] # Idle /\ vw[w].at = "check"
        /\ vw' = [vw EXCEPT ![w] = NextAs(vw[w], "write", D \ {M}, NoClaim)]
        /\ \/ vectors' = vectors /\ deletions' = deletions
           \/ /\ ~Eligible(<<T, M, K>>)
              /\ vectors' = vectors \ {<<T, M, K>>} /\ deletions' = deletions \cup {<<T, M, K>>}
        /\ UNCHANGED <<ledgerVars, vjob>>
    BY <1>1 DEF VectorRecheck, Row, NextAs, projVars
  <1>3. /\ vw[w] = Embedding(T, "check", K, D, M) /\ T \in Turns /\ D \in SUBSET Messages
    BY <1>1, <1>2, PendingTyped DEF VectorInv, Embedding
  <1>4. /\ M \in D /\ K \in ScopeKeys /\ \A v \in Pending(w) : Fresh(v)
        /\ <<T, M, K>> \in vectors \cup deletions
    BY <1>1, <1>2 DEF VectorInv, WritesFresh, Row
  <1>5. <<T, M, K>> \in VectorRows /\ Fresh(<<T, M, K>>)
    <2>1. <<T, M, K>> \in Pending(w)
      BY <1>1, <1>4 DEF Pending, Row
    <2>2. <<T, M, K>> \in VectorRows
      BY <1>3, <1>4 DEF VectorRows
    <2> QED
      BY <1>4, <2>1, <2>2
  <1>6. /\ vectors \in SUBSET VectorRows /\ deletions \in SUBSET VectorRows
        /\ \A v \in vectors : Fresh(v)
        /\ \A v \in deletions : Lost(v)
    BY DEF VectorInv, VectorTypeOK
  <1>7. ~Eligible(<<T, M, K>>) => Lost(<<T, M, K>>)
    BY <1>5, <1>6 DEF Eligible, Fresh
  <1>8. /\ vectors' \in SUBSET VectorRows /\ deletions' \in SUBSET VectorRows
        /\ vectors \cup deletions \subseteq vectors' \cup deletions'
        /\ \A v \in vectors' : Fresh(v)
        /\ \A v \in deletions' : Lost(v)
    BY <1>2, <1>5, <1>6, <1>7
  <1>9. PICK a \in {"write", "insert", "check"} : a = "write"
    OBVIOUS
  <1>10. PICK less \in SUBSET vw[w].todo : less = D \ {M}
    BY <1>1
  <1>11. NextAs(vw[w], a, less, NoClaim) = Embedding(T, a, K, less, NoClaim)
    BY <1>3, EmbeddingNext
  <1>12. vw' = [vw EXCEPT ![w] = Embedding(T, a, K, less, NoClaim)]
    BY <1>2, <1>9, <1>10, <1>11
  <1>13. \A n \in vw[w].todo \ less : Hydrates(<<T, n, K>>) => <<T, n, K>> \in vectors' \cup deletions'
    BY <1>1, <1>4, <1>8, <1>10
  <1>14. vw[w].at # "claimed" /\ NoClaim \in Messages \cup {NoClaim}
         /\ ~(a \in {"insert", "check"}) /\ a # "check"
    BY <1>2, <1>9
  <1> QED
    <2>1. Writes(w, T, a, K, less, NoClaim)
      BY <1>1, <1>2, <1>8, <1>9, <1>12, <1>13, <1>14 DEF Writes
    <2> QED
      BY <2>1, WriteStep

\* The clean-up deletes what its source no longer says.
LEMMA CleanupStep ==
    ASSUME VectorInv, NEW t \in Turns, Cleanup(t)
    PROVE  VectorInv'
  <1>1. PICK stale \in SUBSET vectors :
           /\ \A v \in stale : ~Hydrates(v)
           /\ vectors' = vectors \ stale /\ deletions' = deletions \cup stale
    BY DEF Cleanup
  <1>2. vw' = vw /\ vjob' = vjob /\ UNCHANGED ledgerVars
    BY DEF Cleanup, projVars
  <1>3. /\ \A v : Fresh(v)' = Fresh(v)
        /\ \A v : Lost(v)' = Lost(v)
        /\ src' = src /\ invalid' = invalid /\ \A u : ScopeKey(u)' = ScopeKey(u)
        /\ \A u : Present(u)' = Present(u)
    BY <1>2, RowsStay
  <1>4. VectorTypeOK' /\ vectors \cup deletions \subseteq vectors' \cup deletions'
    BY <1>1, <1>2 DEF VectorInv, VectorTypeOK
  <1>5. (\A v \in deletions' : Lost(v)') /\ (\A v \in vectors' : Fresh(v)')
    BY <1>1, <1>3 DEF VectorInv, Fresh
  <1>6. ASSUME NEW w \in Embedders PROVE WritesFresh(w)' /\ Covering(w)'
    BY <1>2, <1>4, OthersStay
  <1>7. ASSUME NEW u \in Turns, vjob'[u].status = "complete" PROVE CoveredBut(u, {})'
    <2>1. CoveredBut(u, {})
      BY <1>2, <1>7 DEF VectorInv
    <2> QED
      BY <1>3, <1>4, <2>1 DEF CoveredBut
  <1> QED
    BY <1>4, <1>5, <1>6, <1>7 DEF VectorInv

LEMMA InitVectors == Init => VectorInv
  <1> SUFFICES ASSUME Init PROVE VectorInv
    OBVIOUS
  <1>1. /\ src = [t \in Turns |-> NoSource] /\ vjob = [t \in Turns |-> NoJob]
        /\ vw = [w \in Embedders |-> Idle] /\ vectors = {} /\ deletions = {}
    BY DEF Init, LedgerInit
  <1>2. VectorTypeOK
    BY <1>1, JobsTyped DEF VectorTypeOK
  <1>3. \A w \in Embedders : WritesFresh(w) /\ Covering(w)
    BY <1>1 DEF WritesFresh, Covering
  <1>4. \A t \in Turns : CoveredBut(t, {})
    BY <1>1 DEF CoveredBut, Present
  <1> QED
    BY <1>1, <1>2, <1>3, <1>4 DEF VectorInv

LEMMA NextVectors ==
    ASSUME MemoryInv, VectorInv, [Next]_memVars
    PROVE  VectorInv'
  <1>0. VectorTypeOK /\ HandlersOK
    BY DEF VectorInv, MemoryInv
  <1>1. ASSUME UNCHANGED <<ledgerVars, vjob, vw, vectors, deletions>> PROVE VectorInv'
    BY <1>0, <1>1, StillMoves, LedgerVectors
  <1>2. CASE LedgerNext /\ UNCHANGED workVars
    <2>0. UNCHANGED <<vw, vectors, deletions>>
      BY <1>2 DEF workVars
    <2>1. ASSUME NEW e \in Envelopes,
                 \/ Draft(e) \/ RecordOnly(e) \/ Reserve(e) \/ Process(e) \/ Decline(e)
                 \/ RunEffects(e) \/ Interrupted(e) \/ Killed(e)
          PROVE  Moves
      <3>1. CASE RecordOnly(e) \/ Process(e)
        <4>1. RecordSource(e)
          BY <3>1 DEF RecordOnly, Process
        <4>2. RecordOnly(e) => draft[e] # NotDrafted
          BY DEF RecordOnly
        <4>3. Process(e) => stage[e] # "out"
          BY DEF Process
        <4>4. draft[e] # NotDrafted
          BY <1>0, <3>1, <4>2, <4>3, HandlerIn
        <4> QED
          BY <1>0, <4>1, <4>4, RecordMoves
      <3>2. CASE ~RecordOnly(e) /\ ~Process(e)
        <4>1. UNCHANGED <<ledgerVars, projVars>>
          BY <2>1, <3>2 DEF Draft, Reserve, Decline, RunEffects, Interrupted, Killed
        <4>2. vjob' = vjob
          BY <4>1 DEF projVars
        <4> QED
          BY <1>0, <4>1, <4>2, StillMoves
      <3> QED
        BY <3>1, <3>2
    <2>2. ASSUME NEW c \in Contacts, NEW sel \in Selections, EraseSources(c, sel) PROVE Moves
      BY <1>0, <2>2, EraseMoves
    <2>3. ASSUME NEW o \in OpIds, NEW old \in Contacts, NEW new \in Contacts,
                 NEW sel \in Selections, Correct(o, old, new, sel)
          PROVE  Moves
      BY <1>0, <2>3, CorrectMoves
    <2>4. Moves
      BY <1>2, <2>1, <2>2, <2>3 DEF LedgerNext
    <2> QED
      BY <2>0, <2>4, LedgerVectors
  <1>3. ASSUME NEW w \in Claimers,
               \/ \E t \in Turns : ClaimJob(w, t)
               \/ Ask(w) \/ Commit(w) \/ ClaimsDone(w) \/ ClaimsFail(w) \/ ClaimerKilled(w)
        PROVE  VectorInv'
    <2>1. UNCHANGED <<ledgerVars, vjob, vw, vectors, deletions>>
      BY <1>3 DEF ClaimJob, Ask, Commit, ClaimsDone, ClaimsFail, FinishJob, ClaimerKilled, projVars
    <2> QED
      BY <1>1, <2>1
  <1>4. ASSUME NEW w \in Embedders,
               \/ \E t \in Turns : VectorClaim(w, t)
               \/ VectorRead(w) \/ VectorCheck(w) \/ VectorInsert(w) \/ VectorRecheck(w)
               \/ VectorDone(w) \/ VectorFail(w) \/ EmbedderKilled(w)
        PROVE  VectorInv'
    <2>1. CASE VectorDone(w) \/ VectorFail(w)
      <3>1. PICK status \in {"pending", "complete"} :
               /\ vw[w] # Idle /\ FinishVector(w, status)
               /\ status = "complete" => vw[w].at = "write" /\ vw[w].todo = {}
        BY <2>1 DEF VectorDone, VectorFail
      <3> QED
        BY <3>1, FinishStep
    <2>2. CASE EmbedderKilled(w)
      <3>1. vw' = [vw EXCEPT ![w] = Idle] /\ UNCHANGED <<ledgerVars, vjob, vectors, deletions>>
        BY <2>2 DEF EmbedderKilled, projVars
      <3> QED
        BY <3>1, IdleStep
    <2> QED
      BY <1>4, <2>1, <2>2, ClaimStep, ReadStep, CheckStep, InsertStep, RecheckStep
  <1>5. ASSUME NEW t \in Turns, Cleanup(t) PROVE VectorInv'
    BY <1>5, CleanupStep
  <1>6. CASE UNCHANGED memVars
    BY <1>1, <1>6 DEF memVars, projVars, workVars
  <1> QED
    BY <1>2, <1>3, <1>4, <1>5, <1>6 DEF Next

-----------------------------------------------------------------------------
(* The theorems.                                                           *)

\* The invariant holds of every behaviour of the ledger and its workers.
THEOREM SourcesInvariant == Spec => []MemoryInv
  <1>1. Init => MemoryInv
    BY InitMemory
  <1>2. MemoryInv /\ [Next]_memVars => MemoryInv'
    BY NextMemory
  <1> QED
    BY <1>1, <1>2, PTL DEF Spec

\* What erase_sources took out stays out: no source that was erased whole is
\* recorded again, and no exact copy of an erased message is kept.
THEOREM ErasureHolds == Spec => []ErasedStaysErased
  <1>1. MemoryInv => ErasedStaysErased
    BY DEF MemoryInv
  <1> QED
    BY <1>1, SourcesInvariant, PTL

\* Every answer that is kept rests on sources that are there, unchanged and of
\* the same person: erasures and corrections reach all that was drawn from
\* what they change.
THEOREM ErasureReachesAnswers == Spec => []AnswersCiteLiving
  <1>1. MemoryInv => AnswersCiteLiving
    BY DEF MemoryInv
  <1> QED
    BY <1>1, SourcesInvariant, PTL

\* A claim is grounded in a message its source has, for the person the source
\* is attributed to, however late the model answered.
THEOREM ClaimsStayGrounded == Spec => []ClaimsGrounded
  <1>1. MemoryInv => ClaimsGrounded
    BY DEF MemoryInv
  <1> QED
    BY <1>1, SourcesInvariant, PTL

\* The effects of a turn id run at most once, for one envelope, the one the
\* ledger keeps.
THEOREM EffectsRunOnce == Spec => []EffectsMatchRecord
  <1>1. MemoryInv => EffectsMatchRecord
    <2> SUFFICES ASSUME MemoryInv, NEW e \in Envelopes, ran[e] > 0 \/ stage[e] = "recorded"
                 PROVE  /\ ran[e] <= 1
                        /\ \A f \in Envelopes \ {e} : Env[f].turn = Env[e].turn => ran[f] = 0
                        /\ Present(Env[e].turn) /\ (\A x \in redacted : x[1] # Env[e].turn)
                              => src[Env[e].turn].env = e
      BY DEF EffectsMatchRecord
    <2>0. HandlersOK /\ HostTypeOK
      BY DEF MemoryInv, TypeOK, HostTypeOK
    <2>1. ran[e] = 0 \/ ran[e] = 1
      <3>1. ran[e] > 0 => ran[e] = 1
        BY <2>0, HandlerRan
      <3>2. stage[e] = "recorded" => ran[e] = 0
        BY <2>0, HandlerIn
      <3> QED
        BY <3>1, <3>2
    <2>2. ing[Env[e].turn].env = e
      BY <2>0, HandlerIn, HandlerRan
    <2>3. ASSUME NEW f \in Envelopes \ {e}, Env[f].turn = Env[e].turn PROVE ran[f] = 0
      <3>1. ~(ran[f] > 0)
        BY <2>0, <2>2, <2>3, HandlerRan
      <3>2. ran[f] \in 0..2
        BY <2>0 DEF HostTypeOK
      <3> QED
        BY <3>1, <3>2
    <2>4. Redacted(Env[e].turn) \/ (Present(Env[e].turn) /\ src[Env[e].turn].env = e)
      BY <2>0, HandlerRow
    <2> QED
      BY <2>1, <2>3, <2>4 DEF Redacted
  <1> QED
    BY <1>1, SourcesInvariant, PTL

\* A claim that a correction closed is never asserted again.
THEOREM RetractionsHold == Spec => RetractionHolds
  <1>1. MemoryInv /\ [Next]_memVars => Closed
    BY NextMemory
  <1>2. Closed => [\A k \in claims : k.retracted =>
                      \A h \in claims' : Key(h) = Key(k) => h.retracted]_memVars
    BY DEF Closed
  <1> QED
    BY <1>1, <1>2, SourcesInvariant, PTL DEF Spec, RetractionHolds

\* The projection of a source is complete only when each of its messages has
\* its row, whichever worker finished the job and whatever changed meanwhile;
\* a row is missing only if it was deleted for an erasure or a correction.
THEOREM ProjectionsComplete == Spec => []ProjectedInFull
  <1>1. Init => VectorInv
    BY InitVectors
  <1>2. MemoryInv /\ VectorInv /\ [Next]_memVars => VectorInv'
    BY NextVectors
  <1>3. VectorInv => ProjectedInFull
    <2> SUFFICES ASSUME VectorInv, NEW t \in Turns, Present(t), t \notin invalid,
                        vjob[t].status = "complete", NEW m \in src[t].msgs,
                        <<t, m, ScopeKey(t)>> \notin vectors
                 PROVE  /\ <<t, m, ScopeKey(t)>> \in deletions
                        /\ \/ \E x \in redacted : x[1] = t
                           \/ \E o \in OpIds : /\ receipts[o] # NotUsed /\ t \in receipts[o].sources
                                               /\ receipts[o].old = src[t].contact
      BY DEF ProjectedInFull
    <2>1. <<t, m, ScopeKey(t)>> \in deletions
      BY DEF VectorInv, CoveredBut
    <2>2. PICK v \in deletions : v = <<t, m, ScopeKey(t)>>
      BY <2>1
    <2>3. Lost(v)
      BY DEF VectorInv
    <2>4. v[1] = t /\ v[3].contact = src[t].contact
      BY <2>2 DEF ScopeKey
    <2>5. \/ Redacted(t)
          \/ \E o \in OpIds : /\ receipts[o] # NotUsed /\ t \in receipts[o].sources
                              /\ receipts[o].old = src[t].contact
      BY <2>3, <2>4 DEF Lost
    <2> QED
      BY <2>1, <2>5 DEF Redacted
  <1> QED
    BY <1>1, <1>2, <1>3, SourcesInvariant, PTL DEF Spec

=============================================================================
