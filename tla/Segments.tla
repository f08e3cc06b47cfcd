------------------------------ MODULE Segments ------------------------------
(***************************************************************************)
(* Contiguous pieces of a replicated log: a server's log above its         *)
(* snapshot, or what an AppendEntries carries.  A segment knows the term   *)
(* of the entry just before its first one (lastIncludeTerm, PrevLogTerm).  *)
(* The lemmas say which operations of the Raft peer on logs keep two       *)
(* segments from disagreeing; they mention no state.                       *)
(***************************************************************************)
EXTENDS Integers, TLAPS

IsSegment(s) ==
  /\ s.base \in Nat /\ s.last \in Nat /\ s.base <= s.last
  /\ s.term \in Nat
  /\ \A i \in (s.base + 1)..s.last : s.at[i].Term \in Nat

\* s holds the entry at index i, not only its term.
Has(s, i) == i \in (s.base + 1)..s.last

TermAt(s, i) == IF i = s.base THEN s.term ELSE s.at[i].Term

\* No vote was forgotten in term t or before; C is the history cleared.
Clean(t, C) == \A c \in C : c[2] > t

\* Two segments that have an entry of one term at one index agree on all that
\* both know below it.
Same(s, r, j) ==
  /\ TermAt(s, j) = TermAt(r, j)
  /\ Has(s, j) /\ Has(r, j) => s.at[j] = r.at[j]

Agree(s, r, C) ==
  \A i \in Nat :
    Has(s, i) /\ Has(r, i) /\ s.at[i].Term = r.at[i].Term /\ Clean(s.at[i].Term, C)
    => \A j \in Nat : s.base <= j /\ r.base <= j /\ j <= i => Same(s, r, j)

\* Terms never fall along a segment.
Sorted(s) ==
  \A i, j \in s.base..s.last : i <= j => TermAt(s, i) <= TermAt(s, j)

\* q is s without some entries at its ends.
Within(q, s) ==
  /\ s.base <= q.base /\ q.last <= s.last
  /\ q.term = TermAt(s, q.base)
  /\ \A i \in (q.base + 1)..q.last : q.at[i] = s.at[i]

\* A segment that knows no entry disagrees with nobody.
Part(q, s) == q.base = q.last \/ Within(q, s)

\* AppendEntries: p up to where m begins, then m.
Merged(q, p, m) ==
  /\ p.base <= m.base /\ m.base <= p.last
  /\ TermAt(p, m.base) = m.term
  /\ q.base = p.base /\ q.term = p.term /\ q.last = m.last
  /\ \A i \in (p.base + 1)..m.base : q.at[i] = p.at[i]
  /\ \A i \in (m.base + 1)..m.last : q.at[i] = m.at[i]

\* Start: p and one entry of term t.
Extended(q, p, t) ==
  /\ q.base = p.base /\ q.term = p.term /\ q.last = p.last + 1
  /\ \A i \in (p.base + 1)..p.last : q.at[i] = p.at[i]
  /\ q.at[q.last].Term = t

\* No term in s is later than t.
Bounded(s, t) == \A i \in s.base..s.last : TermAt(s, i) <= t

-----------------------------------------------------------------------------
\* Agreement does not depend on the order of the two.
LEMMA AgreeSymmetric ==
  ASSUME NEW s, NEW r, NEW C, Agree(s, r, C)
  PROVE  Agree(r, s, C)
BY DEF Agree, Same

\* The more votes were forgotten, the less is claimed.
LEMMA AgreeLess ==
  ASSUME NEW s, NEW r, NEW C, NEW D, C \subseteq D, Agree(s, r, C)
  PROVE  Agree(s, r, D)
BY DEF Agree, Clean

\* A segment agrees with itself.
LEMMA AgreeItself ==
  ASSUME NEW s, NEW C
  PROVE  Agree(s, s, C)
BY DEF Agree, Same

\* A segment is a part of itself.
LEMMA PartItself ==
  ASSUME NEW s, IsSegment(s)
  PROVE  Part(s, s)
BY DEF Part, Within, IsSegment, TermAt

\* A part of a segment, with the terms it knows.
LEMMA WithinTerms ==
  ASSUME NEW q, NEW s, IsSegment(q), IsSegment(s), Within(q, s), NEW j \in q.base..q.last
  PROVE  /\ j \in s.base..s.last /\ TermAt(q, j) = TermAt(s, j)
         /\ Has(q, j) => Has(s, j) /\ q.at[j] = s.at[j]
<1>1. /\ s.base <= q.base /\ q.last <= s.last
      /\ q.term = TermAt(s, q.base)
      /\ \A i \in (q.base + 1)..q.last : q.at[i] = s.at[i]
  BY DEF Within
<1>2. j \in s.base..s.last
  BY <1>1 DEF IsSegment
<1>3. CASE j = q.base
  BY <1>1, <1>2, <1>3 DEF TermAt, Has, IsSegment
<1>4. CASE j # q.base
  <2>1. j \in (q.base + 1)..q.last /\ j # s.base /\ j \in (s.base + 1)..s.last
    BY <1>1, <1>2, <1>4 DEF IsSegment
  <2> QED
    BY <1>1, <1>2, <1>4, <2>1 DEF TermAt, Has
<1> QED
  BY <1>3, <1>4

\* Dropping entries at either end keeps what agreed in agreement.
LEMMA PartAgrees ==
  ASSUME NEW q, NEW s, NEW r, NEW C, IsSegment(q), IsSegment(s), IsSegment(r),
         Part(q, s), Agree(s, r, C)
  PROVE  Agree(q, r, C)
<1> SUFFICES ASSUME NEW i \in Nat, Has(q, i), Has(r, i), q.at[i].Term = r.at[i].Term,
                    Clean(q.at[i].Term, C),
                    NEW j \in Nat, q.base <= j, r.base <= j, j <= i
             PROVE  Same(q, r, j)
  BY DEF Agree
<1>1. Within(q, s) /\ i \in q.base..q.last /\ j \in q.base..q.last
  BY DEF Has, IsSegment, Part
<1>2. Has(s, i) /\ q.at[i] = s.at[i]
  BY <1>1, WithinTerms
<1>3. /\ j \in s.base..s.last /\ TermAt(q, j) = TermAt(s, j)
      /\ Has(q, j) => Has(s, j) /\ q.at[j] = s.at[j]
  BY <1>1, WithinTerms
<1>4. s.base <= j
  BY <1>3 DEF IsSegment
<1>5. Same(s, r, j)
  BY <1>2, <1>4 DEF Agree
<1> QED
  BY <1>3, <1>5 DEF Same

\* What is left of a sorted segment is sorted.
LEMMA PartSorted ==
  ASSUME NEW q, NEW s, IsSegment(q), IsSegment(s), Part(q, s), Sorted(s)
  PROVE  Sorted(q)
<1>1. CASE q.base = q.last
  BY <1>1 DEF Sorted, IsSegment, TermAt
<1>2. CASE Within(q, s)
  <2> SUFFICES ASSUME NEW i \in q.base..q.last, NEW j \in q.base..q.last, i <= j
               PROVE  TermAt(q, i) <= TermAt(q, j)
    BY DEF Sorted
  <2>1. /\ i \in s.base..s.last /\ TermAt(q, i) = TermAt(s, i)
        /\ j \in s.base..s.last /\ TermAt(q, j) = TermAt(s, j)
    BY <1>2, WithinTerms
  <2> QED
    BY <2>1 DEF Sorted
<1> QED
  BY <1>1, <1>2 DEF Part

\* What holds between the members of T holds between their parts.
LEMMA PartsAgree ==
  ASSUME NEW S, NEW T, NEW C, NEW D, C \subseteq D,
         \A s \in T : IsSegment(s), \A q \in S : IsSegment(q),
         \A s, r \in T : Agree(s, r, C),
         \A q \in S : \E s \in T : Part(q, s)
  PROVE  \A q, r \in S : Agree(q, r, D)
<1> SUFFICES ASSUME NEW q \in S, NEW r \in S PROVE Agree(q, r, D)
  OBVIOUS
<1>1. PICK s \in T : Part(q, s)
  OBVIOUS
<1>2. PICK u \in T : Part(r, u)
  OBVIOUS
<1>3. Agree(q, u, C)
  BY <1>1, PartAgrees
<1>4. Agree(u, q, C)
  BY <1>3, AgreeSymmetric
<1>5. Agree(r, q, C)
  BY <1>2, <1>4, PartAgrees
<1>6. Agree(q, r, C)
  BY <1>5, AgreeSymmetric
<1> QED
  BY <1>6, AgreeLess

\* What a merged log knows below and above the place where m begins.
LEMMA MergedTerms ==
  ASSUME NEW q, NEW p, NEW m, IsSegment(q), IsSegment(p), IsSegment(m), Merged(q, p, m)
  PROVE  /\ \A k \in q.base..m.base :
              TermAt(q, k) = TermAt(p, k) /\ (Has(q, k) => Has(p, k) /\ q.at[k] = p.at[k])
         /\ \A k \in m.base..m.last : TermAt(q, k) = TermAt(m, k)
         /\ \A k \in (m.base + 1)..m.last : Has(m, k) /\ q.at[k] = m.at[k]
<1>1. /\ p.base <= m.base /\ m.base <= p.last
      /\ TermAt(p, m.base) = m.term
      /\ q.base = p.base /\ q.term = p.term /\ q.last = m.last
      /\ \A i \in (p.base + 1)..m.base : q.at[i] = p.at[i]
      /\ \A i \in (m.base + 1)..m.last : q.at[i] = m.at[i]
  BY DEF Merged
<1>2. ASSUME NEW k \in q.base..m.base
      PROVE  TermAt(q, k) = TermAt(p, k) /\ (Has(q, k) => Has(p, k) /\ q.at[k] = p.at[k])
  BY <1>1 DEF IsSegment, TermAt, Has
<1>3. ASSUME NEW k \in (m.base + 1)..m.last
      PROVE  Has(m, k) /\ q.at[k] = m.at[k] /\ TermAt(q, k) = TermAt(m, k)
  BY <1>1 DEF IsSegment, TermAt, Has
<1>4. TermAt(q, m.base) = TermAt(m, m.base)
  BY <1>1, <1>2 DEF IsSegment, TermAt
<1>5. ASSUME NEW k \in m.base..m.last
      PROVE  TermAt(q, k) = TermAt(m, k)
  <2>1. k = m.base \/ k \in (m.base + 1)..m.last
    BY DEF IsSegment
  <2> QED
    BY <1>3, <1>4, <2>1
<1> QED
  BY <1>2, <1>3, <1>5

\* A follower that takes over a leader's entries agrees with whoever agreed
\* with both: the term at PrevLogIndex vouches for all that comes before it.
LEMMA MergedAgrees ==
  ASSUME NEW q, NEW p, NEW m, NEW r, NEW C,
         IsSegment(q), IsSegment(p), IsSegment(m), IsSegment(r),
         \A c \in C : c[2] \in Nat,
         Merged(q, p, m), Sorted(m), Agree(p, r, C), Agree(m, r, C)
  PROVE  Agree(q, r, C)
<1> SUFFICES ASSUME NEW i \in Nat, Has(q, i), Has(r, i), q.at[i].Term = r.at[i].Term,
                    Clean(q.at[i].Term, C),
                    NEW j \in Nat, q.base <= j, r.base <= j, j <= i
             PROVE  Same(q, r, j)
  BY DEF Agree
<1> DEFINE b == m.base
<1>1. /\ \A k \in q.base..b :
           TermAt(q, k) = TermAt(p, k) /\ (Has(q, k) => Has(p, k) /\ q.at[k] = p.at[k])
      /\ \A k \in b..m.last : TermAt(q, k) = TermAt(m, k)
      /\ \A k \in (b + 1)..m.last : Has(m, k) /\ q.at[k] = m.at[k]
  BY MergedTerms
<1>2. /\ q.base = p.base /\ q.last = m.last /\ p.base <= b /\ b <= p.last
      /\ b \in Nat /\ q.base \in Nat /\ m.last \in Nat /\ b <= m.last
      /\ r.base \in Nat /\ r.last \in Nat /\ p.last \in Nat
  BY DEF Merged, IsSegment
<1>3. ASSUME j <= b, Same(p, r, j) PROVE Same(q, r, j)
  <2>1. j \in q.base..b
    BY <1>2, <1>3
  <2> QED
    BY <1>1, <1>3, <2>1 DEF Same
<1>4. CASE i <= b
  <2>1. i \in q.base..b
    BY <1>2, <1>4 DEF Has
  <2>2. Has(p, i) /\ q.at[i] = p.at[i]
    BY <1>1, <2>1
  <2>3. Same(p, r, j)
    BY <1>2, <2>2 DEF Agree
  <2> QED
    BY <1>2, <1>3, <1>4, <2>3
<1>5. CASE i > b
  <2>1. i \in (b + 1)..m.last
    BY <1>2, <1>5 DEF Has
  <2>2. Has(m, i) /\ q.at[i] = m.at[i]
    BY <1>1, <2>1
  <2>3. \A k \in Nat : b <= k /\ r.base <= k /\ k <= i => Same(m, r, k)
    BY <2>2 DEF Agree
  <2>4. CASE j > b
    <3>1. j \in (b + 1)..m.last /\ j \in b..m.last
      BY <1>2, <2>1, <2>4
    <3>2. Same(m, r, j)
      BY <1>2, <2>3, <2>4
    <3> QED
      BY <1>1, <3>1, <3>2 DEF Same
  <2>5. CASE j <= b
    <3>1. Same(m, r, b) /\ b \in q.base..b /\ b \in b..m.last
      BY <1>2, <1>5, <2>3, <2>5
    <3>2. TermAt(p, b) = TermAt(r, b) /\ TermAt(q, b) = TermAt(r, b)
      BY <1>1, <3>1 DEF Same
    <3>3. CASE b = r.base \/ b = p.base
      <4>1. j = b /\ ~(Has(q, b) /\ Has(r, b))
        BY <1>2, <2>5, <3>3 DEF Has
      <4> QED
        BY <3>2, <4>1 DEF Same
    <3>4. CASE b # r.base /\ b # p.base
      <4>1. Has(p, b) /\ Has(r, b) /\ p.at[b].Term = r.at[b].Term
        BY <1>2, <2>5, <3>2, <3>4, <1>5 DEF Has, TermAt
      <4>2. TermAt(m, b) <= TermAt(m, i)
        BY <1>2, <2>1 DEF Sorted
      <4>3. TermAt(m, i) = q.at[i].Term /\ TermAt(m, b) = p.at[b].Term
        BY <1>1, <1>2, <2>1, <2>2, <3>1, <3>4 DEF TermAt
      <4>4. p.at[b].Term \in Nat /\ q.at[i].Term \in Nat
        BY <4>1 DEF IsSegment, Has
      <4>5. Clean(p.at[b].Term, C)
        BY <4>2, <4>3, <4>4 DEF Clean
      <4>6. Same(p, r, j)
        BY <1>2, <2>5, <4>1, <4>5 DEF Agree
      <4> QED
        BY <1>3, <2>5, <4>6
    <3> QED
      BY <3>3, <3>4
  <2> QED
    BY <1>2, <2>4, <2>5
<1> QED
  BY <1>2, <1>4, <1>5

\* The term at PrevLogIndex keeps a follower's log sorted where the leader's entries begin.
LEMMA MergedSorted ==
  ASSUME NEW q, NEW p, NEW m, IsSegment(q), IsSegment(p), IsSegment(m),
         Merged(q, p, m), Sorted(p), Sorted(m)
  PROVE  Sorted(q)
<1> DEFINE b == m.base
<1>1. /\ \A k \in q.base..b : TermAt(q, k) = TermAt(p, k)
      /\ \A k \in b..m.last : TermAt(q, k) = TermAt(m, k)
  BY MergedTerms
<1>2. /\ q.base = p.base /\ q.last = m.last /\ p.base <= b /\ b <= p.last
      /\ b \in Nat /\ q.base \in Nat /\ m.last \in Nat /\ b <= m.last /\ p.last \in Nat
  BY DEF Merged, IsSegment
<1> SUFFICES ASSUME NEW i \in q.base..q.last, NEW j \in q.base..q.last, i <= j
             PROVE  TermAt(q, i) <= TermAt(q, j)
  BY DEF Sorted
<1>3. CASE j <= b
  <2>1. i \in q.base..b /\ j \in q.base..b /\ i \in p.base..p.last /\ j \in p.base..p.last
    BY <1>2, <1>3
  <2> QED
    BY <1>1, <2>1 DEF Sorted
<1>4. CASE b <= i
  <2>1. i \in b..m.last /\ j \in b..m.last
    BY <1>2, <1>4
  <2> QED
    BY <1>1, <2>1 DEF Sorted
<1>5. CASE i <= b /\ b <= j
  <2>1. /\ i \in q.base..b /\ i \in p.base..p.last /\ b \in q.base..b /\ b \in p.base..p.last
        /\ j \in b..m.last /\ b \in b..m.last
    BY <1>2, <1>5
  <2>2. TermAt(q, i) <= TermAt(q, b)
    BY <1>1, <1>5, <2>1 DEF Sorted
  <2>3. TermAt(q, b) <= TermAt(q, j)
    BY <1>1, <1>5, <2>1 DEF Sorted
  <2>4. TermAt(q, i) \in Nat /\ TermAt(q, b) \in Nat /\ TermAt(q, j) \in Nat
    BY <1>2, <2>1 DEF TermAt, IsSegment
  <2> QED
    BY <2>2, <2>3, <2>4
<1> QED
  BY <1>2, <1>3, <1>4, <1>5

\* A leader's new entry disagrees with nobody, as long as nobody has one of
\* its term at its index, or a vote was forgotten in that term.
LEMMA ExtendedAgrees ==
  ASSUME NEW q, NEW p, NEW r, NEW C, NEW t, IsSegment(q), IsSegment(p), IsSegment(r),
         Extended(q, p, t), Agree(p, r, C),
         Has(r, q.last) /\ Clean(t, C) => r.at[q.last].Term # t
  PROVE  Agree(q, r, C)
<1> SUFFICES ASSUME NEW i \in Nat, Has(q, i), Has(r, i), q.at[i].Term = r.at[i].Term,
                    Clean(q.at[i].Term, C),
                    NEW j \in Nat, q.base <= j, r.base <= j, j <= i
             PROVE  Same(q, r, j)
  BY DEF Agree
<1>1. i # q.last
  BY DEF Extended
<1>2. Has(p, i) /\ q.at[i] = p.at[i]
  BY <1>1 DEF Has, IsSegment, Extended
<1>3. Same(p, r, j) /\ q.base = p.base
  BY <1>2 DEF Agree, Extended
<1>4. TermAt(q, j) = TermAt(p, j) /\ (Has(q, j) => Has(p, j) /\ q.at[j] = p.at[j])
  BY <1>2 DEF Has, IsSegment, Extended, TermAt
<1> QED
  BY <1>3, <1>4 DEF Same

\* So does a new entry whose term is not below the last one.
LEMMA ExtendedSorted ==
  ASSUME NEW q, NEW p, NEW t \in Nat, IsSegment(q), IsSegment(p), Extended(q, p, t), Sorted(p),
         TermAt(p, p.last) <= t
  PROVE  Sorted(q)
<1>1. \A k \in p.base..p.last : TermAt(q, k) = TermAt(p, k) /\ TermAt(p, k) \in Nat
  BY DEF IsSegment, Extended, TermAt
<1>2. TermAt(q, q.last) = t /\ q.base = p.base /\ q.last = p.last + 1
  BY DEF IsSegment, Extended, TermAt
<1> SUFFICES ASSUME NEW i \in q.base..q.last, NEW j \in q.base..q.last, i <= j
             PROVE  TermAt(q, i) <= TermAt(q, j)
  BY DEF Sorted
<1>3. p.base \in Nat /\ p.last \in Nat /\ p.base <= p.last
  BY DEF IsSegment
<1>4. CASE j = q.last
  <2>1. CASE i = q.last
    BY <1>2, <1>4, <2>1
  <2>2. CASE i # q.last
    <3>1. i \in p.base..p.last /\ p.last \in p.base..p.last
      BY <1>2, <1>3, <2>2
    <3>2. TermAt(p, i) <= TermAt(p, p.last)
      BY <1>3, <3>1 DEF Sorted
    <3> QED
      BY <1>1, <1>2, <1>4, <3>1, <3>2
  <2> QED
    BY <2>1, <2>2
<1>5. CASE j # q.last
  <2>1. i \in p.base..p.last /\ j \in p.base..p.last
    BY <1>2, <1>3, <1>5
  <2> QED
    BY <1>1, <2>1 DEF Sorted
<1> QED
  BY <1>4, <1>5

-----------------------------------------------------------------------------
(* The bounds on the terms.                                                *)

\* Every term a segment knows is a natural number.
LEMMA TermsTyped ==
  ASSUME NEW s, IsSegment(s), NEW i \in s.base..s.last
  PROVE  TermAt(s, i) \in Nat
BY DEF IsSegment, TermAt

\* What bounds a segment bounds what is left of it.
LEMMA WithinBounded ==
  ASSUME NEW q, NEW s, NEW t, IsSegment(q), IsSegment(s), Within(q, s), Bounded(s, t)
  PROVE  Bounded(q, t)
BY WithinTerms DEF Bounded

\* A later term bounds what an earlier one bounds.
LEMMA BoundedLater ==
  ASSUME NEW s, NEW t \in Nat, NEW u \in Nat, IsSegment(s), Bounded(s, t), t <= u
  PROVE  Bounded(s, u)
BY TermsTyped DEF Bounded

\* A log that is cut, or left with nothing but its snapshot.
LEMMA PartBounded ==
  ASSUME NEW q, NEW s, NEW t \in Nat, NEW u \in Nat, IsSegment(q), IsSegment(s), Part(q, s),
         Bounded(s, t), t <= u, q.term <= u
  PROVE  Bounded(q, u)
<1> SUFFICES ASSUME NEW i \in q.base..q.last PROVE TermAt(q, i) <= u
  BY DEF Bounded
<1>1. CASE q.base = q.last
  BY <1>1 DEF TermAt, IsSegment
<1>2. CASE Within(q, s)
  <2>1. TermAt(q, i) <= t
    BY <1>2, WithinBounded DEF Bounded
  <2> QED
    BY <2>1, TermsTyped
<1> QED
  BY <1>1, <1>2 DEF Part

\* What bounds a follower's log and a leader's entries bounds the log they make.
LEMMA MergedBounded ==
  ASSUME NEW q, NEW p, NEW m, NEW t, IsSegment(q), IsSegment(p), IsSegment(m),
         Merged(q, p, m), Bounded(p, t), Bounded(m, t)
  PROVE  Bounded(q, t)
<1> SUFFICES ASSUME NEW i \in q.base..q.last PROVE TermAt(q, i) <= t
  BY DEF Bounded
<1>1. /\ q.base = p.base /\ q.last = m.last /\ p.base <= m.base /\ m.base <= p.last
      /\ m.base \in Nat /\ q.base \in Nat /\ m.last \in Nat /\ p.last \in Nat
  BY DEF Merged, IsSegment
<1>2. CASE i <= m.base
  <2>1. i \in q.base..m.base /\ i \in p.base..p.last
    BY <1>1, <1>2
  <2> QED
    BY <2>1, MergedTerms DEF Bounded
<1>3. CASE m.base <= i
  <2>1. i \in m.base..m.last
    BY <1>1, <1>3
  <2> QED
    BY <2>1, MergedTerms DEF Bounded
<1> QED
  BY <1>1, <1>2, <1>3

\* A leader's term bounds its log with a new entry of that term.
LEMMA ExtendedBounded ==
  ASSUME NEW q, NEW p, NEW t \in Nat, IsSegment(q), IsSegment(p), Extended(q, p, t), Bounded(p, t)
  PROVE  Bounded(q, t)
BY DEF Bounded, IsSegment, Extended, TermAt
=============================================================================
