---------------------------- MODULE Authoring_proofs ----------------------------
(***************************************************************************)
(* Theorems about the way of a question into the bank (QuestionIntake) and *)
(* of the bank's questions into a published assessment (Authoring), for    *)
(* any files, texts and marks, and for any number of questions, students   *)
(* and administrators.                                                     *)
(***************************************************************************)
EXTENDS Authoring, QuestionIntake, WellFoundedInduction, SequenceTheorems, TLAPS

-----------------------------------------------------------------------------
(* How a question enters the bank. *)

LEMMA Least ==
    ASSUME NEW S, S # {}, S \subseteq Nat
    PROVE  \E n \in S : \A m \in S : n <= m
<1>1. IsWellFoundedOn(OpToRel(<, Nat), Nat)
  BY NatLessThanWellFounded
<1>2. PICK n \in S : \A m \in S : <<m, n>> \notin OpToRel(<, Nat)
  BY <1>1, WFMin
<1>3. \A m \in S : ~(m < n)
  BY <1>2 DEF OpToRel
<1> QED
  BY <1>3

(***************************************************************************)
(* The sum of the points.                                                  *)
(***************************************************************************)
Sums(tests, g) ==
    /\ g[0] = 0
    /\ \A k \in 1..Len(tests) : g[k] = g[k - 1] + tests[k].points

LEMMA SumExists ==
    ASSUME NEW tests, Len(tests) \in Nat
    PROVE  \E g : g = [k \in 0..Len(tests) |->
                         IF k = 0 THEN 0 ELSE g[k - 1] + tests[k].points]
<1> DEFINE Upto(n, g) == g = [k \in 0..n |-> IF k = 0 THEN 0 ELSE g[k - 1] + tests[k].points]
           Bad == {n \in Nat : ~\E g : Upto(n, g)}
<1>1. SUFFICES Bad = {}
  OBVIOUS
<1>2. SUFFICES ASSUME Bad # {} PROVE FALSE
  OBVIOUS
<1>3. PICK n \in Bad : \A m \in Bad : n <= m
  BY <1>2, Least
<1>4. n # 0
  <2>1. Upto(0, [k \in 0..0 |-> 0])
    OBVIOUS
  <2> QED
    BY <2>1
<1>5. n - 1 \in Nat /\ n - 1 \notin Bad
  <2>1. n - 1 \in Nat /\ ~(n <= n - 1)
    BY <1>3, <1>4
  <2> QED
    BY <2>1, <1>3
<1>6. PICK g : Upto(n - 1, g)
  BY <1>5
<1> DEFINE h == [k \in 0..n |-> IF k = n THEN g[n - 1] + tests[n].points ELSE g[k]]
<1>7. Upto(n, h)
  <2>1. ASSUME NEW k \in 0..n
        PROVE  h[k] = IF k = 0 THEN 0 ELSE h[k - 1] + tests[k].points
    <3>1. CASE k = n
      BY <3>1, <1>4, <1>5
    <3>2. CASE k # n
      BY <3>2, <1>4, <1>5, <1>6
    <3> QED
      BY <3>1, <3>2
  <2> HIDE DEF h
  <2>2. DOMAIN h = 0..n /\ h = [k \in 0..n |-> h[k]]
    BY DEF h
  <2> QED
    BY <2>1, <2>2
<1> QED
  BY <1>7, <1>3

LEMMA SumIsTotal ==
    ASSUME NEW tests, Len(tests) \in Nat
    PROVE  \E g : g = [k \in 0..Len(tests) |-> IF k = 0 THEN 0 ELSE g[k - 1] + tests[k].points]
                  /\ Total(tests) = g[Len(tests)]
BY SumExists DEF Total

(* A function that adds up like the sum is the sum. *)
LEMMA TotalIs ==
    ASSUME NEW tests, Len(tests) \in Nat, NEW g, Sums(tests, g)
    PROVE  Total(tests) = g[Len(tests)]
<1>1. PICK f : /\ f = [k \in 0..Len(tests) |-> IF k = 0 THEN 0 ELSE f[k - 1] + tests[k].points]
               /\ Total(tests) = f[Len(tests)]
  BY SumIsTotal
<1> DEFINE Bad == {k \in 0..Len(tests) : f[k] # g[k]}
<1>2. SUFFICES ASSUME Bad # {} PROVE FALSE
  <2>1. Len(tests) \in 0..Len(tests)
    OBVIOUS
  <2> QED
    BY <1>1, <2>1
<1>3. PICK n \in Bad : \A m \in Bad : n <= m
  <2>1. Bad \subseteq Nat
    OBVIOUS
  <2> HIDE DEF Bad
  <2> QED
    BY <1>2, <2>1, Least
<1>4. n # 0
  BY <1>1 DEF Sums
<1>5. n \in 1..Len(tests) /\ n - 1 \in 0..Len(tests) /\ n - 1 \notin Bad
  <2>1. n \in 1..Len(tests) /\ n - 1 \in 0..Len(tests) /\ ~(n <= n - 1)
    BY <1>3, <1>4
  <2> QED
    BY <2>1, <1>3
<1>6. f[n] = f[n - 1] + tests[n].points /\ g[n] = g[n - 1] + tests[n].points
  BY <1>1, <1>5, <1>4 DEF Sums
<1> QED
  BY <1>5, <1>6

(* Lists of tests with the same points have the same sum. *)
LEMMA TotalSame ==
    ASSUME NEW s, NEW t, Len(s) \in Nat, Len(s) = Len(t),
           \A i \in 1..Len(s) : s[i].points = t[i].points
    PROVE  Total(s) = Total(t)
<1>1. PICK f : /\ f = [k \in 0..Len(s) |-> IF k = 0 THEN 0 ELSE f[k - 1] + s[k].points]
               /\ Total(s) = f[Len(s)]
  BY SumIsTotal
<1>2. Sums(t, f)
  <2>1. f[0] = 0
    BY <1>1
  <2>2. ASSUME NEW k \in 1..Len(t) PROVE f[k] = f[k - 1] + t[k].points
    <3>1. k \in 0..Len(s) /\ k # 0
      OBVIOUS
    <3>2. f[k] = f[k - 1] + s[k].points
      BY <1>1, <3>1
    <3> QED
      BY <3>2
  <2> QED
    BY <2>1, <2>2 DEF Sums
<1> QED
  BY <1>1, <1>2, TotalIs

LEMMA Division ==
    ASSUME NEW T \in Nat, NEW n \in Nat \ {0}
    PROVE  /\ T \div n \in Nat /\ (T % n) \in 0..(n - 1)
           /\ n * (T \div n) + (T % n) = T
           /\ T >= n => T \div n >= 1
  OBVIOUS

LEMMA Repointed ==
    ASSUME NEW t \in Tests, NEW p \in Int
    PROVE  LET u == [t EXCEPT !.points = p]
           IN /\ u \in Tests /\ u.points = p
              /\ u.id = t.id /\ u.hidden = t.hidden /\ u.input = t.input /\ u.output = t.output
              /\ u.example = t.example /\ u.verified = t.verified
BY DEF Tests

(* Points that the pipeline spreads over the tests of a question add up to those of the question, *)
(* whatever the tests were worth, when there is a point for every test.                           *)
THEOREM SpreadAddsUp ==
    ASSUME NEW tests \in Seq(Tests), NEW total \in Int, total >= Len(tests), Len(tests) > 0
    PROVE  Total(Spread(tests, total)) = total
<1>1. CASE Total(tests) = total
  BY <1>1 DEF Spread
<1>2. CASE Total(tests) # total
  <2>1. PICK n \in Nat \ {0} : n = Len(tests)
    OBVIOUS
  <2>2. PICK q \in Nat : q = total \div n
    BY <2>1, Division
  <2>3. PICK r \in 0..(n - 1) : r = (total % n)
    BY <2>1, Division
  <2>4. n * q + r = total
    BY <2>1, <2>2, <2>3, Division
  <2> DEFINE more(i) == IF i <= r THEN 1 ELSE 0
             s == [i \in 1..n |-> [tests[i] EXCEPT !.points = q + more(i)]]
             g == [k \in 0..n |-> k * q + (IF k <= r THEN k ELSE r)]
  <2>5. Spread(tests, total) = s
    BY <1>2, <2>1, <2>2, <2>3 DEF Spread
  <2>6. ASSUME NEW i \in 1..n PROVE s[i] \in Tests /\ s[i].points = q + more(i)
    <3>1. tests[i] \in Tests /\ q + more(i) \in Int
      BY <2>1, <2>2, <2>3
    <3>2. s[i] = [tests[i] EXCEPT !.points = q + more(i)]
      OBVIOUS
    <3> HIDE DEF s, more
    <3> QED
      BY <3>1, <3>2, Repointed
  <2>7. s \in [1..n -> Tests]
    BY <2>6
  <2>8. s \in Seq(Tests) /\ Len(s) = n
    BY <2>7
  <2>9. Sums(s, g)
    <3> HIDE DEF s
    <3>1. g[0] = 0
      BY <2>2, <2>3
    <3>2. ASSUME NEW k \in 1..n PROVE g[k] = g[k - 1] + s[k].points
      <4>1. k * q = (k - 1) * q + q /\ k * q \in Nat /\ (k - 1) * q \in Nat
        BY <2>2
      <4>2. g[k] = k * q + (IF k <= r THEN k ELSE r)
        BY <2>1
      <4>3. g[k - 1] = (k - 1) * q + (IF k - 1 <= r THEN k - 1 ELSE r)
        BY <2>1
      <4>4. s[k].points = q + more(k)
        BY <2>6
      <4> HIDE DEF g
      <4> QED
        BY <4>1, <4>2, <4>3, <4>4, <2>3
    <3> HIDE DEF g
    <3> QED
      BY <3>1, <3>2, <2>8 DEF Sums
  <2>10. g[n] = total
    <3>1. g[n] = n * q + (IF n <= r THEN n ELSE r)
      BY <2>1
    <3>2. ~(n <= r)
      BY <2>1, <2>3
    <3> QED
      BY <3>1, <3>2, <2>4
  <2> HIDE DEF g, s
  <2> QED
    BY <2>5, <2>8, <2>9, <2>10, TotalIs
<1> QED
  BY <1>1, <1>2

(***************************************************************************)
(* The pipeline on the tests of a question.                                *)
(***************************************************************************)
SameCase(u, t) == u.id = t.id /\ u.hidden = t.hidden /\ u.input = t.input /\ u.output = t.output
Alike(s, t) == Len(s) = Len(t) /\ \A i \in 1..Len(t) : SameCase(s[i], t[i])
Tidy(t) == t.points >= 1 /\ ~(t.hidden /\ t.example) /\ (t.verified => t.output \notin {"", "TODO"})
TidyAll(tests) == \A i \in 1..Len(tests) : Tidy(tests[i])
AsVerified(s, t) == \A i \in 1..Len(t) : t[i].verified /\ t[i].output \notin {"", "TODO"} => s[i].verified

LEMMA CleanOne ==
    ASSUME NEW t \in Tests
    PROVE  /\ Clean(t) \in Tests /\ SameCase(Clean(t), t) /\ Tidy(Clean(t))
           /\ t.verified /\ t.output \notin {"", "TODO"} => Clean(t).verified
<1> DEFINE p == IF t.points < 1 THEN 1 ELSE t.points
           e == t.example /\ ~t.hidden
           v == t.verified /\ t.output \notin {"", "TODO"}
<1>1. t.points \in Int /\ p \in Int /\ p >= 1 /\ e \in BOOLEAN /\ v \in BOOLEAN
  BY DEF Tests
<1>2. Clean(t) = [t EXCEPT !.points = p, !.example = e, !.verified = v]
  BY DEF Clean
<1> HIDE DEF p, e, v
<1>3. /\ Clean(t) \in Tests /\ SameCase(Clean(t), t)
      /\ Clean(t).points = p /\ Clean(t).example = e /\ Clean(t).verified = v
  BY <1>1, <1>2 DEF Tests, SameCase
<1> QED
  BY <1>1, <1>3 DEF Tidy, SameCase, e, v

LEMMA CleanTidy ==
    ASSUME NEW t \in Tests, Tidy(t)
    PROVE  Clean(t) = t
<1> DEFINE p == IF t.points < 1 THEN 1 ELSE t.points
           e == t.example /\ ~t.hidden
           v == t.verified /\ t.output \notin {"", "TODO"}
<1>1. p = t.points
  <2>1. t.points \in Int
    BY DEF Tests
  <2>2. t.points >= 1
    BY DEF Tidy
  <2> QED
    BY <2>1, <2>2
<1>2. e = t.example
  <2>1. t.example \in BOOLEAN /\ t.hidden \in BOOLEAN
    BY DEF Tests
  <2> QED
    BY <2>1, Zenon DEF Tidy
<1>3. v = t.verified
  <2>1. t.verified \in BOOLEAN
    BY DEF Tests
  <2> QED
    BY <2>1, Zenon DEF Tidy
<1>4. Clean(t) = [t EXCEPT !.points = p, !.example = e, !.verified = v]
  BY DEF Clean
<1> HIDE DEF p, e, v
<1> QED
  BY <1>1, <1>2, <1>3, <1>4 DEF Tests

LEMMA CleanList ==
    ASSUME NEW tests \in Seq(Tests)
    PROVE  LET c == [i \in DOMAIN tests |-> Clean(tests[i])]
           IN c \in Seq(Tests) /\ Alike(c, tests) /\ TidyAll(c) /\ AsVerified(c, tests)
<1> DEFINE c == [i \in DOMAIN tests |-> Clean(tests[i])]
<1>1. ASSUME NEW i \in 1..Len(tests)
      PROVE  /\ c[i] \in Tests /\ SameCase(c[i], tests[i]) /\ Tidy(c[i])
             /\ tests[i].verified /\ tests[i].output \notin {"", "TODO"} => c[i].verified
  <2>1. tests[i] \in Tests /\ c[i] = Clean(tests[i])
    OBVIOUS
  <2> HIDE DEF c
  <2> QED
    BY <2>1, CleanOne
<1>2. DOMAIN tests = 1..Len(tests)
  OBVIOUS
<1>3. c \in [1..Len(tests) -> Tests]
  BY <1>1, <1>2
<1>4. c \in Seq(Tests) /\ Len(c) = Len(tests)
  BY <1>3
<1> HIDE DEF c
<1>5. Alike(c, tests) /\ TidyAll(c) /\ AsVerified(c, tests)
  BY <1>1, <1>4 DEF Alike, TidyAll, AsVerified
<1> QED
  BY <1>4, <1>5 DEF c

LEMMA CleanListTidy ==
    ASSUME NEW tests \in Seq(Tests), TidyAll(tests)
    PROVE  [i \in DOMAIN tests |-> Clean(tests[i])] = tests
<1>1. \A i \in DOMAIN tests : Clean(tests[i]) = tests[i]
  BY CleanTidy DEF TidyAll
<1> QED
  BY <1>1

LEMMA SpreadList ==
    ASSUME NEW tests \in Seq(Tests), TidyAll(tests), NEW total \in Int
    PROVE  LET s == Spread(tests, total)
           IN /\ s \in Seq(Tests) /\ Alike(s, tests) /\ TidyAll(s) /\ AsVerified(s, tests)
              /\ total >= Len(tests) /\ Len(tests) > 0 => Total(s) = total
<1> DEFINE s == Spread(tests, total)
<1>1. total >= Len(tests) /\ Len(tests) > 0 => Total(s) = total
  BY SpreadAddsUp
<1>2. CASE total < Len(tests) \/ Total(tests) = total
  BY <1>1, <1>2 DEF Spread, Alike, SameCase, AsVerified
<1>3. CASE ~(total < Len(tests) \/ Total(tests) = total) /\ Len(tests) = 0
  <2>1. tests = <<>> /\ DOMAIN tests = {}
    BY <1>3
  <2>2. s = [i \in DOMAIN tests |-> [tests[i] EXCEPT !.points =
               total \div Len(tests) + (IF i <= total % Len(tests) THEN 1 ELSE 0)]]
    BY <1>3 DEF Spread
  <2>3. s = tests
    BY <2>1, <2>2
  <2> HIDE DEF s
  <2> QED
    BY <2>3, <1>1 DEF Alike, SameCase, AsVerified, s
<1>4. CASE ~(total < Len(tests) \/ Total(tests) = total) /\ Len(tests) > 0
  <2>1. PICK n \in Nat \ {0} : n = Len(tests)
    BY <1>4
  <2>2. total \in Nat /\ total >= n
    BY <1>4, <2>1
  <2>3. PICK q \in Nat \ {0} : q = total \div n
    <3>1. total \div n \in Nat /\ total \div n >= 1
      BY <2>2, Division
    <3> QED
      BY <3>1
  <2>4. PICK r \in 0..(n - 1) : r = (total % n)
    BY <2>1, <2>2, Division
  <2> DEFINE more(i) == IF i <= r THEN 1 ELSE 0
  <2>5. s = [i \in 1..n |-> [tests[i] EXCEPT !.points = q + more(i)]]
    BY <1>4, <2>1, <2>3, <2>4 DEF Spread
  <2>6. ASSUME NEW i \in 1..n
        PROVE  /\ s[i] \in Tests /\ SameCase(s[i], tests[i]) /\ Tidy(s[i])
               /\ s[i].verified = tests[i].verified
    <3>1. tests[i] \in Tests /\ Tidy(tests[i]) /\ q + more(i) \in Int /\ q + more(i) >= 1
      BY <2>1, <2>3, <2>4 DEF TidyAll
    <3>2. s[i] = [tests[i] EXCEPT !.points = q + more(i)]
      BY <2>5
    <3> HIDE DEF s, more
    <3>3. /\ s[i] \in Tests /\ SameCase(s[i], tests[i]) /\ s[i].points = q + more(i)
          /\ s[i].example = tests[i].example /\ s[i].verified = tests[i].verified
      BY <3>1, <3>2, Repointed DEF SameCase
    <3> QED
      BY <3>1, <3>3 DEF SameCase, Tidy
  <2>7. s \in [1..n -> Tests]
    <3> HIDE DEF s
    <3>1. DOMAIN s = 1..n /\ s = [i \in 1..n |-> s[i]]
      BY <2>5
    <3> QED
      BY <3>1, <2>6
  <2> HIDE DEF s
  <2>8. s \in Seq(Tests) /\ Len(s) = n
    BY <2>7
  <2> QED
    BY <1>1, <2>1, <2>6, <2>8 DEF Alike, TidyAll, AsVerified, s
<1> QED
  BY <1>2, <1>3, <1>4

LEMMA Marked ==
    ASSUME NEW t \in Tests, NEW e \in BOOLEAN
    PROVE  LET u == [t EXCEPT !.example = t.example \/ e]
           IN /\ u \in Tests /\ SameCase(u, t) /\ u.points = t.points
              /\ u.verified = t.verified /\ u.example = (t.example \/ e)
BY DEF Tests, SameCase

LEMMA MarkList ==
    ASSUME NEW tests \in Seq(Tests), TidyAll(tests)
    PROVE  LET m == MarkExample(tests)
           IN /\ m \in Seq(Tests) /\ Alike(m, tests) /\ TidyAll(m) /\ AsVerified(m, tests)
              /\ \A i \in 1..Len(tests) : m[i].points = tests[i].points
              /\ Some(m, Shows) \/ \A i \in 1..Len(m) : ~Sample(m[i])
<1> DEFINE m == MarkExample(tests)
<1>1. CASE Some(tests, Shows)
  BY <1>1 DEF MarkExample, Alike, SameCase, AsVerified
<1>2. CASE ~Some(tests, Shows)
  <2>1. m = [i \in 1..Len(tests) |-> [tests[i] EXCEPT !.example = tests[i].example \/ FirstSample(tests, i)]]
    BY <1>2 DEF MarkExample
  <2>2. ASSUME NEW i \in 1..Len(tests)
        PROVE  /\ m[i] \in Tests /\ SameCase(m[i], tests[i]) /\ Tidy(m[i])
               /\ m[i].verified = tests[i].verified /\ m[i].points = tests[i].points
               /\ FirstSample(tests, i) => m[i].example
    <3>1. tests[i] \in Tests /\ Tidy(tests[i]) /\ FirstSample(tests, i) \in BOOLEAN
      BY DEF TidyAll, FirstSample, Sample
    <3>2. m[i] = [tests[i] EXCEPT !.example = tests[i].example \/ FirstSample(tests, i)]
      BY <2>1
    <3>3. FirstSample(tests, i) => ~tests[i].hidden
      BY DEF FirstSample, Sample
    <3> HIDE DEF m
    <3>4. /\ m[i] \in Tests /\ SameCase(m[i], tests[i]) /\ m[i].points = tests[i].points
          /\ m[i].verified = tests[i].verified
          /\ m[i].example = (tests[i].example \/ FirstSample(tests, i))
      BY <3>1, <3>2, Marked
    <3> QED
      BY <3>1, <3>3, <3>4 DEF SameCase, Tidy
  <2>3. m \in [1..Len(tests) -> Tests]
    <3> HIDE DEF m
    <3>1. DOMAIN m = 1..Len(tests) /\ m = [i \in 1..Len(tests) |-> m[i]]
      BY <2>1
    <3> QED
      BY <3>1, <2>2
  <2> HIDE DEF m
  <2>4. m \in Seq(Tests) /\ Len(m) = Len(tests)
    BY <2>3
  <2>5. Alike(m, tests) /\ TidyAll(m) /\ AsVerified(m, tests)
    BY <2>2, <2>4 DEF Alike, TidyAll, AsVerified
  <2>6. ASSUME NEW k \in 1..Len(m), Sample(m[k]) PROVE Some(m, Shows)
    <3> DEFINE S == {i \in 1..Len(tests) : Sample(tests[i])}
    <3>1. k \in S
      BY <2>2, <2>4, <2>6 DEF SameCase, Sample
    <3>2. PICK n \in S : \A j \in S : n <= j
      <4>1. S # {} /\ S \subseteq Nat
        BY <3>1
      <4> HIDE DEF S
      <4> QED
        BY <4>1, Least
    <3>3. FirstSample(tests, n)
      <4>1. ASSUME NEW j \in 1..(n - 1) PROVE ~Sample(tests[j])
        <5>1. j \in 1..Len(tests) /\ ~(n <= j)
          BY <3>2
        <5> QED
          BY <5>1, <3>2
      <4> QED
        BY <3>2, <4>1 DEF FirstSample
    <3>4. n \in 1..Len(m) /\ Shows(m[n])
      BY <2>2, <2>4, <3>2, <3>3 DEF Shows, Sample, SameCase
    <3> QED
      BY <3>4, <2>4 DEF Some
  <2> QED
    BY <2>2, <2>4, <2>5, <2>6 DEF m
<1> QED
  BY <1>1, <1>2

LEMMA MarkMarked ==
    ASSUME NEW m \in Seq(Tests), Some(m, Shows) \/ \A i \in 1..Len(m) : ~Sample(m[i])
    PROVE  MarkExample(m) = m
<1>1. CASE Some(m, Shows)
  BY <1>1 DEF MarkExample
<1>2. CASE ~Some(m, Shows)
  <2>1. ASSUME NEW i \in 1..Len(m)
        PROVE  [m[i] EXCEPT !.example = @ \/ FirstSample(m, i)] = m[i]
    <3>1. ~FirstSample(m, i)
      BY <1>2 DEF FirstSample
    <3>2. m[i] \in Tests
      OBVIOUS
    <3>3. (m[i].example \/ FirstSample(m, i)) = m[i].example
      <4>1. m[i].example \in BOOLEAN
        BY <3>2 DEF Tests
      <4> QED
        BY <3>1, <4>1
    <3> QED
      BY <3>2, <3>3 DEF Tests
  <2>2. MarkExample(m) = [i \in 1..Len(m) |-> [m[i] EXCEPT !.example = @ \/ FirstSample(m, i)]]
    BY <1>2 DEF MarkExample
  <2>3. m = [i \in 1..Len(m) |-> m[i]]
    OBVIOUS
  <2> QED
    BY <2>1, <2>2, <2>3
<1> QED
  BY <1>1, <1>2

LEMMA AlikeTransitive ==
    ASSUME NEW r, NEW s, NEW t, Alike(r, s), Alike(s, t)
    PROVE  Alike(r, t)
BY DEF Alike, SameCase

(* What the pipeline makes of the tests of a question. *)
LEMMA NormalList ==
    ASSUME NEW q \in Entries
    PROVE  LET m == NormalTests(q)
           IN /\ m \in Seq(Tests) /\ Alike(m, q.tests) /\ TidyAll(m) /\ AsVerified(m, q.tests)
              /\ Some(m, Shows) \/ \A i \in 1..Len(m) : ~Sample(m[i])
              /\ q.points < Len(q.tests) \/ Len(q.tests) = 0 \/ Total(m) = q.points
<1> DEFINE c == [i \in DOMAIN q.tests |-> Clean(q.tests[i])]
           s == Spread(c, q.points)
           m == MarkExample(s)
<1>0. q.tests \in Seq(Tests) /\ q.points \in Int
  BY DEF Entries
<1>1. c \in Seq(Tests) /\ Alike(c, q.tests) /\ TidyAll(c) /\ AsVerified(c, q.tests)
  BY <1>0, CleanList
<1> HIDE DEF c
<1>2. /\ s \in Seq(Tests) /\ Alike(s, c) /\ TidyAll(s) /\ AsVerified(s, c)
      /\ q.points >= Len(c) /\ Len(c) > 0 => Total(s) = q.points
  BY <1>0, <1>1, SpreadList
<1> HIDE DEF s
<1>3. /\ m \in Seq(Tests) /\ Alike(m, s) /\ TidyAll(m) /\ AsVerified(m, s)
      /\ \A i \in 1..Len(s) : m[i].points = s[i].points
      /\ Some(m, Shows) \/ \A i \in 1..Len(m) : ~Sample(m[i])
  BY <1>2, MarkList
<1>4. NormalTests(q) = m
  BY DEF NormalTests, m, s, c
<1> HIDE DEF m
<1>5. Alike(m, q.tests)
  BY <1>1, <1>2, <1>3, AlikeTransitive
<1>6. AsVerified(m, q.tests)
  BY <1>1, <1>2, <1>3 DEF AsVerified, Alike, SameCase
<1>7. Total(m) = Total(s)
  BY <1>2, <1>3, TotalSame DEF Alike
<1>8. q.points < Len(q.tests) \/ Len(q.tests) = 0 \/ Total(m) = q.points
  BY <1>0, <1>1, <1>2, <1>7 DEF Alike
<1> QED
  BY <1>3, <1>4, <1>5, <1>6, <1>8

(* The pipeline leaves tests alone that have been through it. *)
LEMMA NormalListAgain ==
    ASSUME NEW q \in Entries, NEW r \in Entries, r.tests = NormalTests(q), r.points = q.points
    PROVE  NormalTests(r) = r.tests
<1> DEFINE m == r.tests
<1>1. /\ m \in Seq(Tests) /\ Alike(m, q.tests) /\ TidyAll(m)
      /\ Some(m, Shows) \/ \A i \in 1..Len(m) : ~Sample(m[i])
      /\ q.points < Len(q.tests) \/ Len(q.tests) = 0 \/ Total(m) = q.points
  BY NormalList
<1>2. [i \in DOMAIN m |-> Clean(m[i])] = m
  BY <1>1, CleanListTidy
<1>3. Spread(m, q.points) = m
  <2>1. CASE q.points < Len(m) \/ Total(m) = q.points
    BY <2>1 DEF Spread
  <2>2. CASE Len(m) = 0 /\ ~(q.points < Len(m) \/ Total(m) = q.points)
    <3>1. DOMAIN m = {} /\ m = <<>>
      BY <1>1, <2>2
    <3>2. Spread(m, q.points) = [i \in DOMAIN m |-> [m[i] EXCEPT !.points =
             q.points \div Len(m) + (IF i <= q.points % Len(m) THEN 1 ELSE 0)]]
      BY <2>2 DEF Spread
    <3> QED
      BY <3>1, <3>2
  <2> QED
    BY <1>1, <2>1, <2>2 DEF Alike
<1>4. MarkExample(m) = m
  BY <1>1, MarkMarked
<1> QED
  BY <1>2, <1>3, <1>4 DEF NormalTests

LEMMA NormalFields ==
    ASSUME NEW q \in Entries
    PROVE  /\ Normal(q) \in Entries
           /\ Normal(q).type = q.type /\ Normal(q).statement = q.statement
           /\ Normal(q).starters = q.starters /\ Normal(q).points = q.points
           /\ Normal(q).negative = q.negative
           /\ Normal(q).options = (IF q.type = "MCQ" THEN NormalOptions(q) ELSE <<>>)
           /\ Normal(q).tests = (IF q.type = "CODING" THEN NormalTests(q) ELSE <<>>)
<1> DEFINE o == IF q.type = "MCQ" THEN NormalOptions(q) ELSE <<>>
           t == IF q.type = "CODING" THEN NormalTests(q) ELSE <<>>
<1>1. o \in Seq(Options)
  BY DEF Entries, NormalOptions
<1>2. t \in Seq(Tests)
  BY NormalList
<1>3. Normal(q) = [q EXCEPT !.options = o, !.tests = t]
  BY DEF Normal
<1> HIDE DEF o, t
<1>4. /\ Normal(q) \in Entries
      /\ Normal(q).type = q.type /\ Normal(q).statement = q.statement
      /\ Normal(q).starters = q.starters /\ Normal(q).points = q.points
      /\ Normal(q).negative = q.negative /\ Normal(q).options = o /\ Normal(q).tests = t
  BY <1>1, <1>2, <1>3 DEF Entries
<1> QED
  BY <1>4 DEF o, t

(* The pipeline does nothing the second time: an import that is sent what its preview made of a *)
(* question stores just that.                                                                   *)
THEOREM NormalTwice ==
    ASSUME NEW q \in Entries
    PROVE  Normal(Normal(q)) = Normal(q)
<1> DEFINE r == Normal(q)
<1>1. /\ r \in Entries /\ r.type = q.type /\ r.points = q.points
      /\ r.options = (IF q.type = "MCQ" THEN NormalOptions(q) ELSE <<>>)
      /\ r.tests = (IF q.type = "CODING" THEN NormalTests(q) ELSE <<>>)
  BY NormalFields
<1> HIDE DEF r
<1> DEFINE o == IF r.type = "MCQ" THEN NormalOptions(r) ELSE <<>>
           t == IF r.type = "CODING" THEN NormalTests(r) ELSE <<>>
<1>2. o = r.options
  BY <1>1 DEF NormalOptions
<1>3. t = r.tests
  BY <1>1, NormalListAgain
<1>4. Normal(r) = [r EXCEPT !.options = o, !.tests = t]
  BY DEF Normal
<1> HIDE DEF o, t
<1>5. Normal(r) = r
  BY <1>1, <1>2, <1>3, <1>4 DEF Entries
<1> QED
  BY <1>5 DEF r

(* Errors, as what is wrong with a question. *)
LEMMA NoErrors ==
    ASSUME NEW q \in Entries
    PROVE  Errors(q) = {} <=>
             /\ q.statement /\ ~(q.points < 1) /\ ~(q.negative < 0) /\ q.type \in Supported
             /\ q.type = "MCQ" => McqErrors(q) = {}
             /\ q.type = "CODING" => CodingErrors(q) = {}
BY DEF Errors, When

LEMMA NoCodingErrors ==
    ASSUME NEW q \in Entries
    PROVE  CodingErrors(q) = {} <=>
             /\ q.starters /\ ~(q.points < Len(q.tests))
             /\ \A i, j \in 1..Len(q.tests) : i < j => q.tests[i].id # q.tests[j].id
             /\ \A i \in 1..Len(q.tests) : /\ ~(q.tests[i].hidden /\ q.tests[i].example)
                                           /\ q.tests[i].output # ""
<1>1. q.tests \in Seq(Tests) /\ DOMAIN q.tests = 1..Len(q.tests)
  BY DEF Entries
<1> QED
  BY <1>1 DEF CodingErrors, When, Some, Twice

LEMMA NoMcqErrors ==
    ASSUME NEW q \in Entries
    PROVE  McqErrors(q) = {} <=>
             \/ Len(q.options) < 2
             \/ /\ ~Some(q.options, LAMBDA o : ~o.text)
                /\ ~Twice(q.options, LAMBDA o : o.key)
                /\ Right(q.options) # {}
                /\ ~\E i, j \in Right(q.options) : i < j
BY DEF McqErrors, When

(* What the pipeline accepted it accepts again, once it has been through it. *)
THEOREM NormalErrors ==
    ASSUME NEW q \in Entries, Errors(q) = {}
    PROVE  Errors(Normal(q)) = {}
<1> DEFINE r == Normal(q)
<1>1. /\ r \in Entries /\ r.type = q.type /\ r.statement = q.statement
      /\ r.starters = q.starters /\ r.points = q.points /\ r.negative = q.negative
      /\ r.options = (IF q.type = "MCQ" THEN NormalOptions(q) ELSE <<>>)
      /\ r.tests = (IF q.type = "CODING" THEN NormalTests(q) ELSE <<>>)
  BY NormalFields
<1> HIDE DEF r
<1>2. q.type = "MCQ" => McqErrors(r) = {}
  <2> SUFFICES ASSUME q.type = "MCQ" PROVE McqErrors(r) = {}
    OBVIOUS
  <2>1. McqErrors(q) = {}
    BY NoErrors
  <2>2. CASE Len(q.options) < 2
    BY <1>1, <2>2 DEF McqErrors, NormalOptions
  <2>3. CASE ~(Len(q.options) < 2)
    BY <1>1, <2>1, <2>3 DEF McqErrors, NormalOptions
  <2> QED
    BY <2>2, <2>3
<1>3. q.type = "CODING" => CodingErrors(r) = {}
  <2> SUFFICES ASSUME q.type = "CODING" PROVE CodingErrors(r) = {}
    OBVIOUS
  <2>1. CodingErrors(q) = {}
    BY NoErrors
  <2>2. /\ q.starters /\ ~(q.points < Len(q.tests))
        /\ \A i, j \in 1..Len(q.tests) : i < j => q.tests[i].id # q.tests[j].id
        /\ \A i \in 1..Len(q.tests) : q.tests[i].output # ""
    BY <2>1, NoCodingErrors
  <2>3. Alike(r.tests, q.tests) /\ TidyAll(r.tests)
    BY <1>1, NormalList
  <2>4. Len(r.tests) = Len(q.tests) /\ \A i \in 1..Len(q.tests) : SameCase(r.tests[i], q.tests[i])
    BY <2>3 DEF Alike
  <2>5. ASSUME NEW i \in 1..Len(r.tests), NEW j \in 1..Len(r.tests), i < j
        PROVE  r.tests[i].id # r.tests[j].id
    <3>1. r.tests[i].id = q.tests[i].id /\ r.tests[j].id = q.tests[j].id
      BY <2>4 DEF SameCase
    <3>2. q.tests[i].id # q.tests[j].id
      BY <2>2, <2>4, <2>5
    <3> QED
      BY <3>1, <3>2
  <2>6. \A i \in 1..Len(r.tests) : r.tests[i].output # ""
    BY <2>2, <2>4 DEF SameCase
  <2>7. \A i \in 1..Len(r.tests) : ~(r.tests[i].hidden /\ r.tests[i].example)
    BY <2>3 DEF TidyAll, Tidy
  <2>8. r.starters /\ ~(r.points < Len(r.tests))
    BY <1>1, <2>2, <2>4
  <2> QED
    BY <1>1, <2>5, <2>6, <2>7, <2>8, NoCodingErrors
<1>4. Errors(r) = {}
  BY <1>1, <1>2, <1>3, NoErrors
<1> QED
  BY <1>4 DEF r

(* A question without errors and warnings whose tests were all verified can be published. *)
LEMMA NoWarnings ==
    ASSUME NEW q \in Entries, Warnings(q) = {}
    PROVE  /\ q.type = "MCQ" => ~(Len(q.options) < 2)
           /\ q.type # "MCQ" =>
                /\ \A i \in 1..Len(q.tests) : q.tests[i].output # "TODO"
                /\ ~RepeatsInput(q.tests) /\ Len(q.tests) > 0
<1>1. q.tests \in Seq(Tests) /\ DOMAIN q.tests = 1..Len(q.tests)
  BY DEF Entries
<1>2. q.type = "MCQ" => ~(Len(q.options) < 2)
  BY DEF Warnings, When
<1>3. ASSUME q.type # "MCQ"
      PROVE  /\ \A i \in 1..Len(q.tests) : q.tests[i].output # "TODO"
             /\ ~RepeatsInput(q.tests) /\ Len(q.tests) > 0
  <2>1. /\ ~Some(q.tests, LAMBDA t : t.output = "TODO")
        /\ ~RepeatsInput(q.tests) /\ Some(q.tests, LAMBDA t : ~t.hidden)
    BY <1>3 DEF Warnings, When
  <2> QED
    BY <1>1, <2>1 DEF Some
<1> QED
  BY <1>2, <1>3

LEMMA SameRepeats ==
    ASSUME NEW s, NEW t, NEW n \in Nat, DOMAIN s = 1..n, DOMAIN t = 1..n,
           \A i \in 1..n : s[i].input = t[i].input /\ s[i].output = t[i].output,
           ~RepeatsInput(t)
    PROVE  ~RepeatsInput(s)
BY DEF RepeatsInput, NoInput, Some

LEMMA RowsOf ==
    ASSUME NEW tests \in Seq(Tests)
    PROVE  /\ Rows(tests) \in Seq(StoredTests) /\ Len(Rows(tests)) = Len(tests)
           /\ DOMAIN Rows(tests) = 1..Len(tests)
           /\ \A i \in 1..Len(tests) :
                 /\ Rows(tests)[i] = Row(tests[i])
                 /\ SameCase(Rows(tests)[i], tests[i])
                 /\ Rows(tests)[i].points = tests[i].points
                 /\ Rows(tests)[i].verified = tests[i].verified
<1> DEFINE r == Rows(tests)
<1>1. r = [i \in 1..Len(tests) |-> Row(tests[i])]
  BY DEF Rows
<1>2. ASSUME NEW i \in 1..Len(tests)
      PROVE  /\ r[i] = Row(tests[i]) /\ r[i] \in StoredTests /\ SameCase(r[i], tests[i])
             /\ r[i].points = tests[i].points /\ r[i].verified = tests[i].verified
  <2>1. r[i] = Row(tests[i]) /\ tests[i] \in Tests
    BY <1>1
  <2> HIDE DEF r
  <2> QED
    BY <2>1 DEF Row, Tests, StoredTests, SameCase
<1> HIDE DEF r
<1>3. r \in [1..Len(tests) -> StoredTests]
  <2>1. DOMAIN r = 1..Len(tests) /\ r = [i \in 1..Len(tests) |-> r[i]]
    BY <1>1
  <2> QED
    BY <2>1, <1>2
<1>4. r \in Seq(StoredTests) /\ Len(r) = Len(tests) /\ DOMAIN r = 1..Len(tests)
  BY <1>3
<1> QED
  BY <1>2, <1>4 DEF r

(* The sum is that of the points alone, stored or not. *)
LEMMA RowsTotal ==
    ASSUME NEW tests \in Seq(Tests)
    PROVE  Total(Rows(tests)) = Total(tests)
<1>1. /\ Len(Rows(tests)) \in Nat /\ Len(Rows(tests)) = Len(tests)
      /\ \A k \in 1..Len(Rows(tests)) : Rows(tests)[k].points = tests[k].points
  BY RowsOf
<1> QED
  BY <1>1, TotalSame

LEMMA NormalSound ==
    ASSUME NEW q \in Entries, Errors(q) = {}, Warnings(q) = {}, q.type = "CODING",
           \A i \in 1..Len(q.tests) : q.tests[i].verified
    PROVE  CodingSound(AsShown(Normal(q)))
<1> DEFINE m == NormalTests(q)
           d == AsShown(Normal(q))
<1>1. /\ Normal(q).points = q.points /\ Normal(q).tests = m /\ q.tests \in Seq(Tests)
      /\ q.points \in Int
  BY NormalFields DEF Entries
<1>2. /\ m \in Seq(Tests) /\ Alike(m, q.tests) /\ AsVerified(m, q.tests)
      /\ q.points < Len(q.tests) \/ Len(q.tests) = 0 \/ Total(m) = q.points
  BY NormalList
<1>3. /\ \A i \in 1..Len(q.tests) : q.tests[i].output # "TODO"
      /\ ~RepeatsInput(q.tests) /\ Len(q.tests) > 0
  BY NoWarnings
<1>4. ~(q.points < Len(q.tests)) /\ \A i \in 1..Len(q.tests) : q.tests[i].output # ""
  BY NoErrors, NoCodingErrors
<1>5. d.tests = Rows(m) /\ d.points = q.points /\ d.reference = FALSE
  BY <1>1 DEF AsShown, Stored
<1>6. /\ Rows(m) \in Seq(StoredTests) /\ Len(Rows(m)) = Len(q.tests)
      /\ DOMAIN Rows(m) = 1..Len(q.tests) /\ DOMAIN q.tests = 1..Len(q.tests)
  BY <1>1, <1>2, RowsOf DEF Alike
<1>7. ASSUME NEW i \in 1..Len(q.tests)
      PROVE  /\ Rows(m)[i].input = q.tests[i].input /\ Rows(m)[i].output = q.tests[i].output
             /\ Rows(m)[i].verified
  <2>1. SameCase(m[i], q.tests[i]) /\ i \in 1..Len(m)
    BY <1>2 DEF Alike
  <2>2. SameCase(Rows(m)[i], m[i]) /\ Rows(m)[i].verified = m[i].verified
    BY <1>2, <2>1, RowsOf
  <2>3. m[i].verified
    BY <1>2, <1>3, <1>4 DEF AsVerified
  <2> QED
    BY <2>1, <2>2, <2>3 DEF SameCase
<1> HIDE DEF m, d
<1>8. Total(Rows(m)) = q.points
  <2>1. Total(m) = q.points
    <3>1. q.points < Len(q.tests) \/ Len(q.tests) = 0 \/ Total(m) = q.points
      BY <1>2
    <3>2. ~(q.points < Len(q.tests))
      BY <1>4
    <3>3. Len(q.tests) \in Nat
      BY <1>1
    <3>4. Len(q.tests) > 0
      BY <1>3
    <3>5. Len(q.tests) # 0
      BY <3>3, <3>4
    <3> QED
      BY <3>1, <3>2, <3>5
  <2> QED
    BY <1>2, <2>1, RowsTotal
<1>9. ~RepeatsInput(Rows(m))
  <2>1. Len(q.tests) \in Nat
    BY <1>1
  <2> QED
    BY <2>1, <1>3, <1>6, <1>7, SameRepeats
<1>10. ~Some(Rows(m), LAMBDA t : t.output = "")
  BY <1>4, <1>6, <1>7 DEF Some
<1>11. Verified(d)
  BY <1>5, <1>6, <1>7 DEF Verified
<1>12. Rows(m) # <<>>
  BY <1>3, <1>6
<1>13. CodingSound(d)
  BY <1>5, <1>8, <1>9, <1>10, <1>11, <1>12 DEF CodingSound
<1> QED
  BY <1>13 DEF d

LEMMA NormalMcqSound ==
    ASSUME NEW q \in Entries, Errors(q) = {}, Warnings(q) = {}, q.type = "MCQ"
    PROVE  McqSound(AsShown(Normal(q)))
<1> DEFINE d == AsShown(Normal(q))
           o == q.options
<1>1. ~(Len(o) < 2) /\ o \in Seq(Options)
  BY NoWarnings DEF Entries
<1>2. d.options = o /\ d.correct = CorrectOf(o)
  BY <1>1, NormalFields DEF AsShown, Stored, NormalOptions
<1>3. /\ ~Some(o, LAMBDA p : ~p.text) /\ ~Twice(o, LAMBDA p : p.key)
      /\ Right(o) # {} /\ ~\E i, j \in Right(o) : i < j
  BY <1>1, NoErrors, NoMcqErrors
<1> HIDE DEF o
<1>4. PICK k \in Right(o) : TRUE
  BY <1>3
<1>5. k \in DOMAIN o /\ Right(o) \subseteq Nat
  BY <1>1 DEF Right
<1>6. Right(o) = {k}
  BY <1>3, <1>4, <1>5
<1>7. CorrectOf(o) = {o[k].key}
  BY <1>6 DEF CorrectOf
<1>8. Some(d.options, LAMBDA p : d.correct = {p.key})
  BY <1>2, <1>5, <1>7 DEF Some
<1> HIDE DEF d
<1>9. McqSound(d)
  BY <1>1, <1>2, <1>3, <1>8 DEF McqSound
<1> QED
  BY <1>9 DEF d

(* What the pipeline accepts without a warning, the validation that publishes accepts too, but for *)
(* a penalty above the points.                                                                     *)
THEOREM NormalPublishable ==
    ASSUME NEW q \in Entries, Errors(q) = {}, Warnings(q) = {},
           q.type = "CODING" => \A i \in 1..Len(q.tests) : q.tests[i].verified,
           q.negative <= q.points
    PROVE  Publishable(AsShown(Normal(q)))
<1> DEFINE d == AsShown(Normal(q))
<1>1. /\ q.statement /\ q.points >= 1 /\ q.type \in Supported
  BY NoErrors DEF Entries
<1>2. /\ d.statement = q.statement /\ d.points = q.points /\ d.negative = q.negative /\ d.type = q.type
  BY NormalFields DEF AsShown, Stored
<1>3. IF q.type = "MCQ" THEN McqSound(d) ELSE CodingSound(d)
  BY <1>1, NormalSound, NormalMcqSound DEF Supported
<1> HIDE DEF d
<1>4. Publishable(d)
  BY <1>1, <1>2, <1>3 DEF Publishable
<1> QED
  BY <1>4 DEF d

(***************************************************************************)
(* What is stored, and by which rows.                                      *)
(***************************************************************************)
Public(d) == \A e \in d.examples :
    \E s \in DOMAIN d.tests : ~d.tests[s].hidden /\ e = Pair(d.tests[s])
Shareable == {d \in StoredQuestions : Public(d) /\ d.points >= 1}
Forms == {f \in Entries : /\ f.points >= 1
                          /\ \A k \in 1..Len(f.tests) : ~(f.tests[k].hidden /\ f.tests[k].example)}

LEMMA StoredTyped ==
    ASSUME NEW q \in Entries, NEW examples \in SUBSET (Inputs \X Outputs), NEW correct \in SUBSET Nat,
           NEW reference \in BOOLEAN
    PROVE  LET d == Stored(q, examples, correct, reference)
           IN /\ d \in StoredQuestions /\ d.examples = examples /\ d.tests = Rows(q.tests)
              /\ d.points = q.points
<1>1. q.tests \in Seq(Tests)
  BY DEF Entries
<1>2. Rows(q.tests) \in Seq(StoredTests)
  BY <1>1, RowsOf
<1> QED
  BY <1>2 DEF Stored, StoredQuestions, Entries

LEMMA PairTyped ==
    ASSUME NEW tests \in Seq(Tests), NEW I \in SUBSET (DOMAIN tests)
    PROVE  {Pair(tests[i]) : i \in I} \in SUBSET (Inputs \X Outputs)
<1>1. ASSUME NEW i \in I PROVE Pair(tests[i]) \in Inputs \X Outputs
  <2>1. tests[i] \in Tests
    OBVIOUS
  <2> QED
    BY <2>1 DEF Tests, Pair
<1> QED
  BY <1>1

LEMMA KeysTyped ==
    ASSUME NEW options \in Seq(Options), NEW I \in SUBSET (DOMAIN options)
    PROVE  {options[i].key : i \in I} \in SUBSET Nat
<1>1. ASSUME NEW i \in I PROVE options[i].key \in Nat
  <2>1. options[i] \in Options
    OBVIOUS
  <2> QED
    BY <2>1 DEF Options
<1> QED
  BY <1>1

LEMMA CorrectTyped ==
    ASSUME NEW options \in Seq(Options)
    PROVE  CorrectOf(options) \in SUBSET Nat
BY KeysTyped DEF CorrectOf, Right

LEMMA ExamplesTyped ==
    ASSUME NEW tests \in Seq(Tests)
    PROVE  ExamplesOf(tests) \in SUBSET (Inputs \X Outputs)
<1>1. {j \in DOMAIN tests : Shows(tests[j])} \in SUBSET (DOMAIN tests)
  OBVIOUS
<1> QED
  BY <1>1, PairTyped DEF ExamplesOf

(* Examples are public when they are those of the sample tests among others that are alike. *)
LEMMA PublicExamples ==
    ASSUME NEW tests \in Seq(Tests), NEW others \in Seq(Tests), Alike(others, tests),
           NEW e \in ExamplesOf(tests)
    PROVE  \E s \in DOMAIN Rows(others) : ~Rows(others)[s].hidden /\ e = Pair(Rows(others)[s])
<1>1. PICK i \in DOMAIN tests : Shows(tests[i]) /\ e = Pair(tests[i])
  BY DEF ExamplesOf
<1>2. i \in 1..Len(tests) /\ i \in 1..Len(others) /\ SameCase(others[i], tests[i])
  BY <1>1 DEF Alike
<1>3. i \in DOMAIN Rows(others) /\ SameCase(Rows(others)[i], others[i])
  BY <1>2, RowsOf
<1>4. ~Rows(others)[i].hidden /\ Pair(Rows(others)[i]) = Pair(tests[i])
  BY <1>1, <1>2, <1>3 DEF SameCase, Shows, Sample, Pair
<1> QED
  BY <1>1, <1>3, <1>4

LEMMA AsShownShareable ==
    ASSUME NEW q \in Entries, q.points >= 1
    PROVE  AsShown(q) \in Shareable
<1> DEFINE d == AsShown(q)
<1>1. q.tests \in Seq(Tests) /\ q.options \in Seq(Options) /\ Alike(q.tests, q.tests)
  BY DEF Entries, Alike, SameCase
<1>2. d \in StoredQuestions /\ d.examples = ExamplesOf(q.tests) /\ d.tests = Rows(q.tests)
      /\ d.points = q.points
  BY <1>1, ExamplesTyped, CorrectTyped, StoredTyped DEF AsShown
<1> HIDE DEF d
<1>3. Public(d)
  BY <1>1, <1>2, PublicExamples DEF Public
<1>4. d \in Shareable
  BY <1>2, <1>3 DEF Shareable
<1> QED
  BY <1>4 DEF d

LEMMA ImportedShareable ==
    ASSUME NEW batch \in Seq(Entries), ~Refused(batch)
    PROVE  Imported(batch) \in Seq(Shareable)
<1>1. ASSUME NEW i \in 1..Len(batch) PROVE AsShown(Normal(batch[i])) \in Shareable
  <2>1. batch[i] \in Entries /\ Errors(batch[i]) = {}
    BY DEF Refused, Some
  <2>2. batch[i].points >= 1
    <3>1. batch[i].points \in Int
      BY <2>1 DEF Entries
    <3>2. ~(batch[i].points < 1)
      BY <2>1, NoErrors
    <3> QED
      BY <3>1, <3>2
  <2>3. Normal(batch[i]) \in Entries /\ Normal(batch[i]).points >= 1
    BY <2>1, <2>2, NormalFields
  <2> QED
    BY <2>3, AsShownShareable
<1>2. Imported(batch) = [i \in 1..Len(batch) |-> AsShown(Normal(batch[i]))]
  BY DEF Imported
<1>3. Imported(batch) \in [1..Len(batch) -> Shareable]
  BY <1>1, <1>2
<1> QED
  BY <1>3

LEMMA TypedTyped ==
    ASSUME NEW q \in Entries
    PROVE  /\ Typed(q) \in Entries /\ Typed(q).points = q.points
           /\ Normal(q).tests \in Seq(Tests)
           /\ Alike(Typed(q).tests, Normal(q).tests)
<1> DEFINE n == Normal(q)
           o == IF n.options = <<>> THEN q.options ELSE n.options
           t == [i \in DOMAIN n.tests |-> [n.tests[i] EXCEPT !.points = q.tests[i].points]]
<1>1. n \in Entries /\ n.points = q.points
      /\ n.tests = (IF q.type = "CODING" THEN NormalTests(q) ELSE <<>>)
  BY NormalFields
<1>2. n.tests \in Seq(Tests) /\ o \in Seq(Options)
  BY <1>1 DEF Entries
<1>3. ASSUME NEW i \in 1..Len(n.tests) PROVE i \in 1..Len(q.tests)
  BY <1>1, <1>2, NormalList DEF Alike
<1>4. Typed(q) = [n EXCEPT !.options = o, !.tests = t]
  BY DEF Typed
<1> HIDE DEF n, o
<1>5. ASSUME NEW i \in 1..Len(n.tests)
      PROVE  t[i] \in Tests /\ SameCase(t[i], n.tests[i])
  <2>1. n.tests[i] \in Tests
    BY <1>2
  <2>2. q.tests[i] \in Tests
    BY <1>3 DEF Entries
  <2>3. q.tests[i].points \in Int
    BY <2>2 DEF Tests
  <2>4. t[i] = [n.tests[i] EXCEPT !.points = q.tests[i].points]
    BY <1>2
  <2> HIDE DEF t
  <2> QED
    BY <2>1, <2>3, <2>4, Repointed DEF SameCase
<1>6. t \in [1..Len(n.tests) -> Tests]
  <2>1. t = [i \in 1..Len(n.tests) |-> t[i]] /\ DOMAIN t = 1..Len(n.tests)
    BY <1>2
  <2> HIDE DEF t
  <2> QED
    BY <2>1, <1>5
<1> HIDE DEF t
<1>7. t \in Seq(Tests) /\ Alike(t, n.tests)
  BY <1>2, <1>5, <1>6 DEF Alike
<1>8. Typed(q) \in Entries /\ Typed(q).points = n.points /\ Typed(q).tests = t
  BY <1>1, <1>2, <1>4, <1>7 DEF Entries
<1> QED
  BY <1>1, <1>2, <1>7, <1>8 DEF n

LEMMA CreatedShareable ==
    ASSUME NEW q \in Entries, ~FormRefused(q), NEW reference \in BOOLEAN
    PROVE  Created(q, reference) \in Shareable
<1> DEFINE d == Created(q, reference)
<1>1. q.points >= 1
  <2>1. "no points" \notin Errors(q)
    <3>1. Errors(q) \ {"no correct option"} = {}
      BY DEF FormRefused
    <3>2. "no points" # "no correct option"
      OBVIOUS
    <3> QED
      BY <3>1, <3>2
  <2>2. ~(q.points < 1)
    BY <2>1 DEF Errors, When
  <2>3. q.points \in Int
    BY DEF Entries
  <2> QED
    BY <2>2, <2>3
<1>2. /\ Typed(q) \in Entries /\ Typed(q).points = q.points
      /\ Normal(q).tests \in Seq(Tests)
      /\ Alike(Typed(q).tests, Normal(q).tests)
  BY TypedTyped
<1>3. Typed(q).tests \in Seq(Tests) /\ Typed(q).options \in Seq(Options)
  BY <1>2 DEF Entries
<1>4. d \in StoredQuestions /\ d.examples = ExamplesOf(Normal(q).tests)
      /\ d.tests = Rows(Typed(q).tests) /\ d.points = q.points
  BY <1>2, <1>3, ExamplesTyped, CorrectTyped, StoredTyped DEF Created
<1> HIDE DEF d
<1>5. Public(d)
  BY <1>2, <1>3, <1>4, PublicExamples DEF Public
<1>6. d \in Shareable
  BY <1>1, <1>4, <1>5 DEF Shareable
<1> QED
  BY <1>6 DEF d

LEMMA UpdatedShareable ==
    ASSUME NEW d \in StoredQuestions, NEW form \in Forms
    PROVE  Updated(d, form) \in Shareable
<1> DEFINE u == Updated(d, form)
           I == {j \in DOMAIN form.tests : form.tests[j].example}
<1>1. form \in Entries /\ form.tests \in Seq(Tests) /\ form.options \in Seq(Options) /\ form.points >= 1
  BY DEF Forms, Entries
<1>2. Examples(form) = {Pair(form.tests[i]) : i \in I} /\ I \in SUBSET (DOMAIN form.tests)
  BY DEF Examples
<1>3. Examples(form) \in SUBSET (Inputs \X Outputs)
  BY <1>1, <1>2, PairTyped
<1>4. CorrectOption(form) \in SUBSET Nat
  <2> DEFINE K == {j \in Right(form.options) : \A k \in Right(form.options) : j <= k}
  <2>1. K \in SUBSET (DOMAIN form.options)
    BY DEF Right
  <2>2. {form.options[i].key : i \in K} \in SUBSET Nat
    BY <1>1, <2>1, KeysTyped
  <2> QED
    BY <2>2 DEF CorrectOption
<1>5. d.reference \in BOOLEAN
  BY DEF StoredQuestions
<1>6. u \in StoredQuestions /\ u.examples = Examples(form) /\ u.tests = Rows(form.tests)
      /\ u.points = form.points
  BY <1>1, <1>3, <1>4, <1>5, StoredTyped DEF Updated
<1> HIDE DEF u
<1>7. ASSUME NEW e \in u.examples
      PROVE  \E s \in DOMAIN u.tests : ~u.tests[s].hidden /\ e = Pair(u.tests[s])
  <2>1. PICK i \in I : e = Pair(form.tests[i])
    BY <1>2, <1>6, <1>7
  <2>2. i \in 1..Len(form.tests) /\ ~form.tests[i].hidden
    BY <1>1, <2>1 DEF Forms
  <2>3. i \in DOMAIN u.tests /\ SameCase(u.tests[i], form.tests[i])
    BY <1>1, <1>6, <2>2, RowsOf
  <2> QED
    BY <2>1, <2>2, <2>3 DEF SameCase, Pair
<1>8. u \in Shareable
  BY <1>1, <1>6, <1>7 DEF Shareable, Public
<1> QED
  BY <1>8 DEF u

LEMMA JudgedShareable ==
    ASSUME NEW d \in Shareable
    PROVE  Judged(d) \in Shareable
<1> DEFINE s == IF Publishable(d) THEN "PUBLISHED" ELSE d.status
<1>1. s \in {"DRAFT", "PUBLISHED"} /\ d \in StoredQuestions /\ Public(d) /\ d.points >= 1
  BY DEF Shareable, StoredQuestions
<1>2. Judged(d) = [d EXCEPT !.status = s]
  BY DEF Judged
<1> HIDE DEF s
<1>3. /\ Judged(d) \in StoredQuestions /\ Judged(d).examples = d.examples
      /\ Judged(d).tests = d.tests /\ Judged(d).points = d.points
  BY <1>1, <1>2 DEF StoredQuestions
<1> QED
  BY <1>1, <1>3 DEF Shareable, Public

(***************************************************************************)
(* What the files make.                                                    *)
(***************************************************************************)
LEMMA QuestionTyped ==
    ASSUME NEW type \in Types, NEW statement \in BOOLEAN, NEW starters \in BOOLEAN,
           NEW points \in Int, NEW negative \in Int, NEW options \in Seq(Options),
           NEW tests \in Seq(Tests)
    PROVE  LET q == Question(type, statement, starters, points, negative, options, tests)
           IN /\ q \in Entries /\ q.type = type /\ q.tests = tests /\ q.points = points
              /\ q.options = options
BY DEF Question, Entries

LEMMA VerifiedTests ==
    ASSUME NEW wb \in Workbooks, NEW id \in QuestionIds
    PROVE  /\ TestsOf(wb, id) \in Seq(Tests)
           /\ \A i \in 1..Len(TestsOf(wb, id)) : TestsOf(wb, id)[i].verified
<1> DEFINE own == wb.tests[id]
           t == TestsOf(wb, id)
<1>1. own \in Seq(Tests)
  BY FilesAssumption DEF WorkbookType
<1> HIDE DEF own
<1>2. t = [i \in 1..Len(own) |-> [own[i] EXCEPT !.verified = TRUE]]
  BY <1>1 DEF TestsOf, own
<1>3. ASSUME NEW i \in 1..Len(own) PROVE t[i] \in Tests /\ t[i].verified
  <2>1. own[i] \in Tests /\ t[i] = [own[i] EXCEPT !.verified = TRUE]
    BY <1>1, <1>2
  <2> HIDE DEF t
  <2> QED
    BY <2>1 DEF Tests
<1> HIDE DEF t
<1>4. t \in [1..Len(own) -> Tests]
  <2>1. DOMAIN t = 1..Len(own) /\ t = [i \in 1..Len(own) |-> t[i]]
    BY <1>2
  <2> QED
    BY <2>1, <1>3
<1>5. t \in Seq(Tests) /\ Len(t) = Len(own)
  BY <1>1, <1>4
<1> QED
  BY <1>3, <1>5 DEF t

LEMMA AssembledTyped ==
    ASSUME NEW wb \in Workbooks, NEW i \in 1..Len(wb.questions)
    PROVE  LET q == Assembled(wb, wb.questions[i])
           IN q \in Entries /\ (q.type = "CODING" => \A k \in 1..Len(q.tests) : q.tests[k].verified)
<1> DEFINE r == wb.questions[i]
           o == IF r.type = "MCQ" THEN OptionsOf(wb, r.id) ELSE <<>>
           t == IF r.type = "CODING" THEN TestsOf(wb, r.id) ELSE <<>>
           s == r.type = "MCQ" \/ StartersOf(wb, r.id)
<1>1. r \in AskedType
  <2>1. wb.questions \in Seq(AskedType)
    BY FilesAssumption DEF WorkbookType
  <2> QED
    BY <2>1
<1>2. /\ r.id \in QuestionIds /\ r.type \in Types /\ r.statement \in BOOLEAN /\ r.points \in Int
      /\ r.negative \in Int
  BY <1>1 DEF AskedType
<1> HIDE DEF r
<1>3. o \in Seq(Options)
  BY <1>2, FilesAssumption DEF OptionsOf, WorkbookType
<1>4. t \in Seq(Tests)
  BY <1>2, VerifiedTests
<1>5. s \in BOOLEAN
  BY DEF StartersOf
<1>6. Assembled(wb, r) = Question(r.type, r.statement, s, r.points, r.negative, o, t)
  BY DEF Assembled
<1>7. r.type = "CODING" => \A k \in 1..Len(t) : t[k].verified
  BY <1>2, VerifiedTests
<1> HIDE DEF o, t, s
<1> DEFINE q == Assembled(wb, r)
<1>8. q \in Entries /\ q.type = r.type /\ q.tests = t
  <2> DEFINE a == Question(r.type, r.statement, s, r.points, r.negative, o, t)
  <2>1. a \in Entries /\ a.type = r.type /\ a.tests = t
    BY <1>2, <1>3, <1>4, <1>5, QuestionTyped
  <2> HIDE DEF a
  <2>2. q = a
    BY <1>6 DEF a
  <2> QED
    BY <2>1, <2>2
<1> HIDE DEF q
<1>9. q \in Entries /\ (q.type = "CODING" => \A k \in 1..Len(q.tests) : q.tests[k].verified)
  BY <1>7, <1>8
<1> QED
  BY <1>9 DEF q, r

(* A workbook without errors: every row was kept, and none of its questions has an error. *)
LEMMA ParsedRight ==
    ASSUME NEW wb \in Workbooks, ParseErrors(wb) = {}
    PROVE  /\ Parsed(wb) \in Seq(Entries) /\ DOMAIN Parsed(wb) = KeptRows(wb)
           /\ \A i \in DOMAIN Parsed(wb) :
                 /\ Errors(Parsed(wb)[i]) = {}
                 /\ Parsed(wb)[i].type = "CODING" =>
                       \A k \in 1..Len(Parsed(wb)[i].tests) : Parsed(wb)[i].tests[k].verified
<1> DEFINE rows == wb.questions
           n == Len(wb.questions)
<1>1. rows \in Seq(AskedType)
  BY FilesAssumption DEF WorkbookType
<1>2. n \in Nat /\ DOMAIN rows = 1..n
  BY <1>1
<1>3. RowErrors(wb) = {}
  BY DEF ParseErrors
<1>4. /\ ~Some(rows, LAMBDA r : r.id = "")
      /\ ~\E i, j \in DOMAIN rows : i < j /\ rows[i].id = rows[j].id /\ rows[i].id # ""
      /\ ~Some(rows, LAMBDA r : r.type \notin Supported)
  BY <1>3 DEF RowErrors, When
<1> HIDE DEF rows, n
<1>5. KeptRows(wb) = 1..n
  <2>1. ASSUME NEW i \in 1..n, NEW j \in 1..(i - 1) PROVE rows[j].id # rows[i].id
    <3>1. j \in DOMAIN rows /\ i \in DOMAIN rows /\ j < i
      BY <1>2
    <3> QED
      BY <3>1, <1>4 DEF Some
  <2>2. \A i \in 1..n : rows[i].id # "" /\ rows[i].type \in Supported
    BY <1>2, <1>4 DEF Some
  <2>3. KeptRows(wb) = {i \in DOMAIN rows : /\ rows[i].id # "" /\ rows[i].type \in Supported
                                           /\ \A j \in 1..(i - 1) : rows[j].id # rows[i].id}
    BY DEF KeptRows, rows
  <2> QED
    BY <1>2, <2>1, <2>2, <2>3
<1>6. Parsed(wb) = [i \in 1..n |-> Assembled(wb, rows[i])]
  BY <1>5 DEF Parsed, rows
<1>7. ASSUME NEW i \in 1..n
      PROVE  /\ Parsed(wb)[i] \in Entries
             /\ Parsed(wb)[i].type = "CODING" =>
                   \A k \in 1..Len(Parsed(wb)[i].tests) : Parsed(wb)[i].tests[k].verified
  BY <1>6, AssembledTyped DEF n, rows
<1>8. Parsed(wb) \in [1..n -> Entries]
  BY <1>6, <1>7
<1>9. Parsed(wb) \in Seq(Entries) /\ DOMAIN Parsed(wb) = 1..n
  BY <1>2, <1>8
<1>10. \A i \in 1..n : Errors(Parsed(wb)[i]) = {}
  <2>1. UNION {Errors(Parsed(wb)[i]) \cup AssemblyErrors(Parsed(wb)[i]) : i \in KeptRows(wb)} = {}
    BY DEF ParseErrors
  <2>2. ASSUME NEW i \in 1..n, NEW e \in Errors(Parsed(wb)[i]) PROVE FALSE
    <3>1. Errors(Parsed(wb)[i]) \cup AssemblyErrors(Parsed(wb)[i])
             \in {Errors(Parsed(wb)[j]) \cup AssemblyErrors(Parsed(wb)[j]) : j \in KeptRows(wb)}
      BY <1>5
    <3> QED
      BY <2>1, <2>2, <3>1
  <2> QED
    BY <2>2
<1> QED
  BY <1>5, <1>7, <1>9, <1>10

LEMMA TestTyped ==
    ASSUME NEW id \in Names, NEW hidden \in BOOLEAN, NEW input \in Inputs, NEW output \in Outputs,
           NEW points \in Int, NEW example \in BOOLEAN, NEW verified \in BOOLEAN
    PROVE  Test(id, hidden, input, output, points, example, verified) \in Tests
BY DEF Test, Tests

LEMMA CsvTestTyped ==
    ASSUME NEW word \in {"Sample", "Hidden"}, NEW hidden \in BOOLEAN,
           NEW pair \in Inputs \X Outputs
    PROVE  CsvTest(<<word, 1>>, hidden, pair) \in Tests
<1>1. (pair[2] \notin {"", "TODO"}) \in BOOLEAN /\ pair[1] \in Inputs /\ pair[2] \in Outputs
  OBVIOUS
<1>2. <<word, 1>> \in Names
  BY DEF Names
<1> DEFINE v == pair[2] \notin {"", "TODO"}
<1>3. CsvTest(<<word, 1>>, hidden, pair) = Test(<<word, 1>>, hidden, pair[1], pair[2], 5, FALSE, v)
  BY DEF CsvTest
<1> HIDE DEF v
<1>4. v \in BOOLEAN
  BY DEF v
<1>5. Test(<<word, 1>>, hidden, pair[1], pair[2], 5, FALSE, v) \in Tests
  <2>1. 5 \in Int
    OBVIOUS
  <2>2. FALSE \in BOOLEAN
    BY Zenon
  <2> QED
    BY <1>1, <1>2, <1>4, <2>1, <2>2, TestTyped
<1> QED
  BY <1>3, <1>5

LEMMA CsvTestsTyped ==
    ASSUME NEW r \in CsvRowType
    PROVE  CsvTests(r) \in Seq(Tests)
<1> DEFINE s == CsvTest(<<"Sample", 1>>, FALSE, r.sample)
           h == CsvTest(<<"Hidden", 1>>, TRUE, r.unseen)
           a == IF r.sample = <<"", "">> THEN <<>> ELSE <<s>>
           b == IF r.unseen = <<"", "">> THEN <<>> ELSE <<h>>
<1>1. r.sample \in Inputs \X Outputs /\ r.unseen \in Inputs \X Outputs
  BY DEF CsvRowType
<1>2. s \in Tests /\ h \in Tests
  BY <1>1, CsvTestTyped
<1>3. CsvTests(r) = a \o b
  BY DEF CsvTests
<1> HIDE DEF s, h
<1>4. <<>> \in Seq(Tests) /\ <<s>> \in Seq(Tests) /\ <<h>> \in Seq(Tests)
  BY <1>2
<1>5. a \in Seq(Tests) /\ b \in Seq(Tests)
  BY <1>4
<1> HIDE DEF a, b
<1> QED
  BY <1>3, <1>5, ConcatProperties

LEMMA SpreadTyped ==
    ASSUME NEW tests \in Seq(Tests), NEW total \in Int
    PROVE  Spread(tests, total) \in Seq(Tests) /\ Len(Spread(tests, total)) = Len(tests)
<1> DEFINE s == Spread(tests, total)
<1>1. CASE total < Len(tests) \/ Total(tests) = total
  BY <1>1 DEF Spread
<1>2. CASE ~(total < Len(tests) \/ Total(tests) = total) /\ Len(tests) = 0
  <2>1. DOMAIN tests = {} /\ tests = <<>>
    BY <1>2
  <2>2. s = [i \in DOMAIN tests |-> [tests[i] EXCEPT !.points =
               total \div Len(tests) + (IF i <= total % Len(tests) THEN 1 ELSE 0)]]
    BY <1>2 DEF Spread
  <2>3. s = tests
    BY <2>1, <2>2
  <2> QED
    BY <2>3
<1>3. CASE ~(total < Len(tests) \/ Total(tests) = total) /\ Len(tests) > 0
  <2>1. PICK n \in Nat \ {0} : n = Len(tests)
    BY <1>3
  <2>2. total \in Nat
    BY <1>3, <2>1
  <2>3. PICK q \in Nat : q = total \div n
    BY <2>1, <2>2, Division
  <2>4. PICK r \in 0..(n - 1) : r = (total % n)
    BY <2>1, <2>2, Division
  <2> DEFINE more(i) == IF i <= r THEN 1 ELSE 0
  <2>5. s = [i \in 1..n |-> [tests[i] EXCEPT !.points = q + more(i)]]
    BY <1>3, <2>1, <2>3, <2>4 DEF Spread
  <2>6. ASSUME NEW i \in 1..n PROVE s[i] \in Tests
    <3>1. tests[i] \in Tests /\ q + more(i) \in Int
      BY <2>1, <2>3, <2>4
    <3>2. s[i] = [tests[i] EXCEPT !.points = q + more(i)]
      BY <2>5
    <3> HIDE DEF s, more
    <3> QED
      BY <3>1, <3>2, Repointed
  <2>7. s \in [1..n -> Tests]
    <3>1. DOMAIN s = 1..n /\ s = [i \in 1..n |-> s[i]]
      BY <2>5
    <3> HIDE DEF s
    <3> QED
      BY <3>1, <2>6
  <2> HIDE DEF s
  <2> QED
    BY <2>1, <2>7 DEF s
<1> QED
  BY <1>1, <1>2, <1>3

LEMMA FromCsvTyped ==
    ASSUME NEW r \in CsvRowType
    PROVE  FromCsv(r) \in Entries
<1> DEFINE t == IF r.type = "CODING" THEN CsvTests(r) ELSE <<>>
           s == r.type # "CODING" \/ r.starter
           u == Spread(t, r.points)
<1>1. /\ r.type \in Types /\ r.statement \in BOOLEAN /\ r.points \in Int
  BY DEF CsvRowType
<1>2. t \in Seq(Tests)
  BY CsvTestsTyped
<1> HIDE DEF t
<1>3. u \in Seq(Tests)
  BY <1>1, <1>2, SpreadTyped
<1>4. FromCsv(r) = Question(r.type, r.statement, s, r.points, 0, <<>>, u)
  BY DEF FromCsv, t
<1>5. s \in BOOLEAN
  BY DEF CsvRowType
<1>6. <<>> \in Seq(Options) /\ 0 \in Int
  OBVIOUS
<1> HIDE DEF s, u
<1>7. Question(r.type, r.statement, s, r.points, 0, <<>>, u) \in Entries
  BY ZenonT(40), <1>1, <1>3, <1>5, <1>6, QuestionTyped
<1> QED
  BY <1>4, <1>7

(* The questions of a CSV file, row by row. *)
CsvStep(rows, i, g) ==
    IF CsvErrors(rows[i]) = {} THEN Append(g[i - 1], FromCsv(rows[i])) ELSE g[i - 1]

LEMMA CsvExists ==
    ASSUME NEW rows, Len(rows) \in Nat
    PROVE  \E g : g = [i \in 0..Len(rows) |-> IF i = 0 THEN <<>> ELSE CsvStep(rows, i, g)]
<1> DEFINE Upto(n, g) == g = [i \in 0..n |-> IF i = 0 THEN <<>> ELSE CsvStep(rows, i, g)]
           Bad == {n \in Nat : ~\E g : Upto(n, g)}
<1>1. SUFFICES ASSUME Bad # {} PROVE FALSE
  OBVIOUS
<1>2. PICK n \in Bad : \A m \in Bad : n <= m
  <2>1. Bad \subseteq Nat
    OBVIOUS
  <2> HIDE DEF Bad
  <2> QED
    BY <1>1, <2>1, Least
<1>3. n # 0
  <2>1. Upto(0, [i \in 0..0 |-> <<>>])
    OBVIOUS
  <2> QED
    BY <2>1
<1>4. n - 1 \in Nat /\ n - 1 \notin Bad
  <2>1. n - 1 \in Nat /\ ~(n <= n - 1)
    BY <1>2, <1>3
  <2> QED
    BY <2>1, <1>2
<1>5. PICK g : Upto(n - 1, g)
  BY <1>4
<1> DEFINE h == [i \in 0..n |-> IF i = n THEN CsvStep(rows, n, g) ELSE g[i]]
<1>6. h[n - 1] = g[n - 1] /\ h[n] = CsvStep(rows, n, g)
  BY <1>3, <1>4
<1>7. ASSUME NEW i \in 0..n
      PROVE  h[i] = (IF i = 0 THEN <<>> ELSE CsvStep(rows, i, h))
  <2>1. CASE i = n
    <3>1. CsvStep(rows, n, h) = CsvStep(rows, n, g)
      BY <1>6 DEF CsvStep
    <3> QED
      BY <2>1, <3>1, <1>3, <1>6
  <2>2. CASE i # n
    <3>1. i \in 0..(n - 1) /\ h[i] = g[i]
      BY <2>2, <1>4
    <3>2. i # 0 => h[i - 1] = g[i - 1]
      BY <3>1, <1>4
    <3>3. g[i] = (IF i = 0 THEN <<>> ELSE CsvStep(rows, i, g))
      BY <3>1, <1>5
    <3> HIDE DEF h
    <3> QED
      BY <3>1, <3>2, <3>3 DEF CsvStep
  <2> QED
    BY <2>1, <2>2
<1>8. Upto(n, h)
  <2>1. DOMAIN h = 0..n /\ h = [i \in 0..n |-> h[i]]
    OBVIOUS
  <2> HIDE DEF h
  <2> QED
    BY <2>1, <1>7
<1> HIDE DEF h
<1> QED
  BY <1>2, <1>8

LEMMA CsvQuestionsTyped ==
    ASSUME NEW rows \in Seq(CsvRowType)
    PROVE  CsvQuestions(rows) \in Seq(Entries)
<1>1. PICK g : /\ g = [i \in 0..Len(rows) |-> IF i = 0 THEN <<>> ELSE CsvStep(rows, i, g)]
               /\ CsvQuestions(rows) = g[Len(rows)]
  BY SMTT(30), CsvExists DEF CsvQuestions, CsvStep
<1> DEFINE Bad == {i \in 0..Len(rows) : g[i] \notin Seq(Entries)}
<1>2. SUFFICES ASSUME Bad # {} PROVE FALSE
  <2>1. Len(rows) \in 0..Len(rows)
    OBVIOUS
  <2> QED
    BY <1>1, <2>1
<1>3. PICK n \in Bad : \A m \in Bad : n <= m
  <2>1. Bad \subseteq Nat
    OBVIOUS
  <2> HIDE DEF Bad
  <2> QED
    BY <1>2, <2>1, Least
<1>4. g[0] = <<>> /\ <<>> \in Seq(Entries)
  BY <1>1
<1>5. n # 0
  BY <1>3, <1>4
<1>6. n \in 1..Len(rows) /\ n - 1 \in 0..Len(rows) /\ ~(n <= n - 1)
  BY <1>3, <1>5
<1>7. g[n - 1] \in Seq(Entries)
  BY <1>3, <1>6
<1>8. FromCsv(rows[n]) \in Entries
  BY <1>6, FromCsvTyped
<1>9. g[n] = CsvStep(rows, n, g)
  BY <1>1, <1>5, <1>6
<1>10. CsvStep(rows, n, g) \in Seq(Entries)
  BY <1>7, <1>8 DEF CsvStep
<1> QED
  BY <1>3, <1>9, <1>10

LEMMA ListIsSeq ==
    ASSUME NEW S, NEW n \in Nat, NEW f, DOMAIN f = 1..n, f = [i \in 1..n |-> f[i]],
           \A i \in 1..n : f[i] \in S
    PROVE  f \in Seq(S) /\ Len(f) = n
<1>1. f \in [1..n -> S]
  OBVIOUS
<1> QED
  BY <1>1

LEMMA ListedTyped ==
    ASSUME NEW p \in PayloadType
    PROVE  Listed(p) \in Seq(Tests)
<1> DEFINE l == Listed(p)
           n == Len(p.tests)
<1>1. p.tests \in Seq(Tests) /\ n \in Nat /\ p.samples \in Nat
  BY DEF PayloadType
<1>2. CASE p.layout # "apart"
  BY <1>1, <1>2 DEF Listed
<1>3. CASE p.layout = "apart"
  <2>1. l = [i \in 1..n |-> [p.tests[i] EXCEPT !.hidden = i > p.samples]]
    BY <1>1, <1>3 DEF Listed
  <2>2. DOMAIN l = 1..n /\ l = [i \in 1..n |-> l[i]]
    BY <2>1
  <2>3. ASSUME NEW i \in 1..n PROVE l[i] \in Tests
    <3>1. p.tests[i] \in Tests /\ (i > p.samples) \in BOOLEAN
      BY <1>1
    <3>2. l[i] = [p.tests[i] EXCEPT !.hidden = i > p.samples]
      BY <2>1
    <3> HIDE DEF l
    <3> QED
      BY <3>1, <3>2 DEF Tests
  <2> HIDE DEF l
  <2>4. l \in Seq(Tests)
    BY <1>1, <2>2, <2>3, ListIsSeq
  <2> QED
    BY <2>4 DEF l
<1> QED
  BY <1>2, <1>3

LEMMA FileTestsTyped ==
    ASSUME NEW p \in PayloadType
    PROVE  FileTests(p) \in Seq(Tests)
<1> DEFINE l == FileTests(p)
           n == Len(p.tests)
<1>1. p.tests \in Seq(Tests) /\ n \in Nat
  BY DEF PayloadType
<1>2. l = [i \in 1..n |-> [p.tests[i] EXCEPT !.points = 5, !.hidden = i > 2]]
  BY <1>1 DEF FileTests
<1>3. DOMAIN l = 1..n /\ l = [i \in 1..n |-> l[i]]
  BY <1>2
<1>4. ASSUME NEW i \in 1..n PROVE l[i] \in Tests
  <2>1. p.tests[i] \in Tests /\ (i > 2) \in BOOLEAN
    BY <1>1
  <2>2. l[i] = [p.tests[i] EXCEPT !.points = 5, !.hidden = i > 2]
    BY <1>2
  <2> HIDE DEF l
  <2>3. l[i] = [[p.tests[i] EXCEPT !.points = 5] EXCEPT !.hidden = i > 2]
    BY <2>2
  <2>4. [p.tests[i] EXCEPT !.points = 5] \in Tests
    BY <2>1 DEF Tests
  <2> QED
    BY <2>1, <2>3, <2>4 DEF Tests
<1> HIDE DEF l
<1>5. l \in Seq(Tests)
  BY <1>1, <1>3, <1>4, ListIsSeq
<1> QED
  BY <1>5 DEF l

LEMMA PlatformTestTyped ==
    ASSUME NEW p, NEW t \in Tests
    PROVE  PlatformTest(p, t) \in Tests
<1> DEFINE v == IF Says(p) THEN t.verified ELSE t.output \notin {"", "TODO"}
<1>1. v \in BOOLEAN
  BY DEF Tests
<1>2. PlatformTest(p, t) = [t EXCEPT !.example = FALSE, !.verified = v]
  BY DEF PlatformTest
<1> HIDE DEF v
<1>3. FALSE \in BOOLEAN
  BY Zenon
<1> QED
  BY <1>1, <1>2, <1>3 DEF Tests

LEMMA PayloadedTyped ==
    ASSUME NEW p \in PayloadType, NEW raw \in Seq(Tests)
    PROVE  Payloaded(p, raw) \in Entries
<1> DEFINE n == Len(raw)
           l == [i \in DOMAIN raw |-> PlatformTest(p, raw[i])]
           u == PlatformTests(p, raw)
           s == Enabled(p) \subseteq p.codes
<1>1. /\ p.statement \in BOOLEAN /\ PointsOf(p) \in Int /\ n \in Nat
  BY DEF PayloadType, PointsOf
<1>2. DOMAIN l = 1..n /\ l = [i \in 1..n |-> l[i]]
  OBVIOUS
<1>3. ASSUME NEW i \in 1..n PROVE l[i] \in Tests
  BY PlatformTestTyped
<1> HIDE DEF l
<1>4. l \in Seq(Tests)
  BY <1>1, <1>2, <1>3, ListIsSeq
<1>5. u \in Seq(Tests)
  BY <1>1, <1>4, SpreadTyped DEF PlatformTests, l
<1>6. Payloaded(p, raw) = Question("CODING", p.statement, s, PointsOf(p), 0, <<>>, u)
  BY DEF Payloaded
<1>7. s \in BOOLEAN
  OBVIOUS
<1>8. <<>> \in Seq(Options) /\ 0 \in Int
  OBVIOUS
<1>9. "CODING" \in Types
  BY DEF Types, Supported
<1> HIDE DEF s, u
<1>10. Question("CODING", p.statement, s, PointsOf(p), 0, <<>>, u) \in Entries
  BY ZenonT(40), <1>1, <1>5, <1>7, <1>8, <1>9, QuestionTyped
<1> QED
  BY <1>6, <1>10

LEMMA FromPlatformTyped ==
    ASSUME NEW p \in PayloadType
    PROVE  FromPlatform(p) \in Entries
BY ListedTyped, FileTestsTyped, PayloadedTyped
   DEF FromPlatform, FromHackerRank, FromLeetCode, FromZip

(***************************************************************************)
(* The forms of the editor.                                                *)
(***************************************************************************)
LEMMA FormWithTests ==
    ASSUME NEW f \in Forms, NEW t \in Seq(Tests),
           \A k \in 1..Len(t) : ~(t[k].hidden /\ t[k].example)
    PROVE  [f EXCEPT !.tests = t] \in Forms
<1> DEFINE g == [f EXCEPT !.tests = t]
<1>1. f \in Entries /\ f.points >= 1
  BY DEF Forms
<1>2. g \in Entries /\ g.points = f.points /\ g.tests = t
  BY <1>1 DEF Entries
<1> HIDE DEF g
<1>3. g \in Forms
  BY <1>1, <1>2 DEF Forms
<1> QED
  BY <1>3 DEF g

LEMMA FormWithOptions ==
    ASSUME NEW f \in Forms, NEW o \in Seq(Options)
    PROVE  [f EXCEPT !.options = o] \in Forms
<1> DEFINE g == [f EXCEPT !.options = o]
<1>1. f \in Entries /\ f.points >= 1 /\ \A k \in 1..Len(f.tests) : ~(f.tests[k].hidden /\ f.tests[k].example)
  BY DEF Forms
<1>2. g \in Entries /\ g.points = f.points /\ g.tests = f.tests
  BY <1>1 DEF Entries
<1> HIDE DEF g
<1>3. g \in Forms
  BY <1>1, <1>2 DEF Forms
<1> QED
  BY <1>3 DEF g

LEMMA FormWithTexts ==
    ASSUME NEW f \in Forms
    PROVE  /\ [f EXCEPT !.statement = ~@] \in Forms /\ [f EXCEPT !.starters = ~@] \in Forms
           /\ \A v \in Marks : [f EXCEPT !.points = v] \in Forms
           /\ \A v \in Marks \cup {0} : [f EXCEPT !.negative = v] \in Forms
<1>1. f \in Entries /\ f.points >= 1 /\ \A k \in 1..Len(f.tests) : ~(f.tests[k].hidden /\ f.tests[k].example)
  BY DEF Forms
<1>2. ASSUME NEW g \in Entries, g.points >= 1, g.tests = f.tests
      PROVE  g \in Forms
  BY <1>1, <1>2 DEF Forms
<1>3. [f EXCEPT !.statement = ~@] \in Forms
  <2> DEFINE g == [f EXCEPT !.statement = ~f.statement]
  <2>1. g \in Entries /\ g.points = f.points /\ g.tests = f.tests
    BY <1>1 DEF Entries
  <2> HIDE DEF g
  <2>2. g \in Forms
    BY <1>1, <1>2, <2>1
  <2> QED
    BY <2>2 DEF g
<1>4. [f EXCEPT !.starters = ~@] \in Forms
  <2> DEFINE g == [f EXCEPT !.starters = ~f.starters]
  <2>1. g \in Entries /\ g.points = f.points /\ g.tests = f.tests
    BY <1>1 DEF Entries
  <2> HIDE DEF g
  <2>2. g \in Forms
    BY <1>1, <1>2, <2>1
  <2> QED
    BY <2>2 DEF g
<1>5. ASSUME NEW v \in Marks PROVE [f EXCEPT !.points = v] \in Forms
  <2> DEFINE g == [f EXCEPT !.points = v]
  <2>1. v \in Int /\ v >= 1
    BY MarksAssumption
  <2>2. g \in Entries /\ g.points = v /\ g.tests = f.tests
    BY <1>1, <2>1 DEF Entries
  <2> HIDE DEF g
  <2>3. g \in Forms
    BY <1>2, <2>1, <2>2
  <2> QED
    BY <2>3 DEF g
<1>6. ASSUME NEW v \in Marks \cup {0} PROVE [f EXCEPT !.negative = v] \in Forms
  <2> DEFINE g == [f EXCEPT !.negative = v]
  <2>1. v \in Int
    BY MarksAssumption
  <2>2. g \in Entries /\ g.points = f.points /\ g.tests = f.tests
    BY <1>1, <2>1 DEF Entries
  <2> HIDE DEF g
  <2>3. g \in Forms
    BY <1>1, <1>2, <2>2
  <2> QED
    BY <2>3 DEF g
<1> QED
  BY <1>3, <1>4, <1>5, <1>6

LEMMA RemoveAtTyped ==
    ASSUME NEW S, NEW s \in Seq(S), NEW k \in 1..Len(s)
    PROVE  /\ RemoveAt(s, k) \in Seq(S) /\ Len(RemoveAt(s, k)) = Len(s) - 1
           /\ \A i \in 1..(Len(s) - 1) : RemoveAt(s, k)[i] = s[i] \/ RemoveAt(s, k)[i] = s[i + 1]
<1> DEFINE a == SubSeq(s, 1, k - 1)
           b == SubSeq(s, k + 1, Len(s))
<1>1. a \in Seq(S) /\ b \in Seq(S) /\ Len(a) = k - 1 /\ Len(b) = Len(s) - k
  OBVIOUS
<1>2. \A i \in 1..(k - 1) : a[i] = s[i]
  OBVIOUS
<1>3. \A i \in 1..(Len(s) - k) : b[i] = s[i + k]
  OBVIOUS
<1> HIDE DEF a, b
<1>4. /\ a \o b \in Seq(S) /\ Len(a \o b) = Len(a) + Len(b)
      /\ \A i \in 1..(Len(a) + Len(b)) : (a \o b)[i] = IF i <= Len(a) THEN a[i] ELSE b[i - Len(a)]
  BY <1>1, ConcatProperties
<1>5. RemoveAt(s, k) = a \o b
  BY DEF RemoveAt, a, b
<1>6. ASSUME NEW i \in 1..(Len(s) - 1) PROVE (a \o b)[i] = s[i] \/ (a \o b)[i] = s[i + 1]
  <2>1. CASE i <= k - 1
    BY <2>1, <1>1, <1>2, <1>4
  <2>2. CASE ~(i <= k - 1)
    <3>1. i - (k - 1) \in 1..(Len(s) - k) /\ i - (k - 1) + k = i + 1
      BY <2>2
    <3>2. (a \o b)[i] = b[i - (k - 1)]
      BY <1>1, <1>4, <2>2
    <3> QED
      BY <1>3, <3>1, <3>2
  <2> QED
    BY <2>1, <2>2
<1>7. Len(a) + Len(b) = Len(s) - 1
  BY <1>1
<1>8. RemoveAt(s, k) \in Seq(S) /\ Len(RemoveAt(s, k)) = Len(s) - 1
  BY <1>4, <1>5, <1>7
<1> QED
  BY <1>5, <1>6, <1>8

(* What a page reads of a stored question, and what it begins with. *)
LEMMA UnmarkedTyped ==
    ASSUME NEW d \in StoredQuestions
    PROVE  LET u == Unmarked(d)
           IN /\ u \in Entries /\ u.points = d.points /\ u.type = d.type
              /\ Len(u.tests) = Len(d.tests)
              /\ \A k \in 1..Len(u.tests) : ~u.tests[k].example
<1> DEFINE o == [i \in DOMAIN d.options |-> [d.options[i] EXCEPT !.correct =
                    @ \/ d.options[i].key \in d.correct]]
           t == [i \in DOMAIN d.tests |-> Test(d.tests[i].id, d.tests[i].hidden, d.tests[i].input,
                    d.tests[i].output, d.tests[i].points, FALSE, TRUE)]
           n == Len(d.options)
           m == Len(d.tests)
<1>1. /\ d.type \in Types /\ d.statement \in BOOLEAN /\ d.starters \in BOOLEAN
      /\ d.points \in Int /\ d.negative \in Int
      /\ d.options \in Seq(Options) /\ d.tests \in Seq(StoredTests)
  BY DEF StoredQuestions
<1>2. Unmarked(d) = Question(d.type, d.statement, d.starters, d.points, d.negative, o, t)
  BY DEF Unmarked
<1>3. n \in Nat /\ DOMAIN o = 1..n /\ o = [i \in 1..n |-> o[i]]
  BY <1>1
<1>4. ASSUME NEW i \in 1..n PROVE o[i] \in Options
  <2> DEFINE right == d.options[i].correct \/ d.options[i].key \in d.correct
  <2>1. d.options[i] \in Options
    BY <1>1
  <2>2. o[i] = [d.options[i] EXCEPT !.correct = right]
    BY <1>1
  <2>3. right \in BOOLEAN
    BY <2>1 DEF Options
  <2> HIDE DEF right, o
  <2> QED
    BY <2>1, <2>2, <2>3 DEF Options
<1>5. m \in Nat /\ DOMAIN t = 1..m /\ t = [i \in 1..m |-> t[i]]
  BY <1>1 DEF Test
<1>6. ASSUME NEW i \in 1..m PROVE t[i] \in Tests /\ ~t[i].example
  <2> DEFINE s == d.tests[i]
             v == Test(s.id, s.hidden, s.input, s.output, s.points, FALSE, TRUE)
  <2>1. s \in StoredTests
    BY <1>1
  <2>2. /\ s.id \in Names /\ s.hidden \in BOOLEAN /\ s.input \in Inputs /\ s.output \in Outputs
        /\ s.points \in Int
    BY <2>1 DEF StoredTests
  <2>3. FALSE \in BOOLEAN /\ TRUE \in BOOLEAN
    BY Zenon
  <2>4. t[i] = v
    BY <1>1 DEF Test
  <2> HIDE DEF s, t
  <2>5. v \in Tests
    BY <2>2, <2>3, TestTyped
  <2>6. v.example = FALSE
    BY DEF Test
  <2> HIDE DEF v
  <2> QED
    BY <2>4, <2>5, <2>6
<1> HIDE DEF o, t
<1>7. o \in Seq(Options)
  BY <1>3, <1>4, ListIsSeq
<1>8. t \in Seq(Tests) /\ Len(t) = m
  BY <1>5, <1>6, ListIsSeq
<1> DEFINE u == Unmarked(d)
<1>9. u \in Entries /\ u.type = d.type /\ u.tests = t /\ u.points = d.points
  <2> DEFINE a == Question(d.type, d.statement, d.starters, d.points, d.negative, o, t)
  <2>1. a \in Entries /\ a.type = d.type /\ a.tests = t /\ a.points = d.points
    BY <1>1, <1>7, <1>8 DEF Question, Entries
  <2> HIDE DEF a
  <2>2. u = a
    BY <1>2 DEF a
  <2> QED
    BY <2>1, <2>2
<1> HIDE DEF u
<1>10. \A k \in 1..Len(u.tests) : ~u.tests[k].example
  BY <1>6, <1>8, <1>9
<1> QED
  BY <1>8, <1>9, <1>10 DEF u

LEMMA BlankTyped ==
    ASSUME NEW type \in Supported
    PROVE  Blank(type) \in Forms
<1>1. "" \in Inputs /\ "1" \in Inputs /\ "2" \in Inputs /\ "x" \in Outputs
  BY TextsAssumption
<1>2. FALSE \in BOOLEAN /\ TRUE \in BOOLEAN
  BY Zenon
<1>3. 10 \in Int /\ 0 \in Int /\ 5 \in Int
  OBVIOUS
<1>4. CASE type = "MCQ"
  <2> DEFINE o == <<Option(1, FALSE, TRUE), Option(2, FALSE, FALSE)>>
             b == Question("MCQ", FALSE, TRUE, 10, 0, o, <<>>)
  <2> HIDE DEF o
  <2>1. Option(1, FALSE, TRUE) \in Options /\ Option(2, FALSE, FALSE) \in Options
    BY DEF Option, Options
  <2>2. o \in Seq(Options)
    <3>1. \A p, r \in Options : <<p, r>> \in Seq(Options)
      OBVIOUS
    <3> QED
      BY <2>1, <3>1 DEF o
  <2>3. "MCQ" \in Types /\ <<>> \in Seq(Tests)
    BY DEF Types, Supported
  <2>4. b \in Entries /\ b.points = 10 /\ b.tests = <<>>
    BY <1>2, <1>3, <2>2, <2>3 DEF Question, Entries
  <2>5. Blank(type) = b
    BY <1>4 DEF Blank, o
  <2> HIDE DEF b
  <2>6. b \in Forms
    BY <2>4 DEF Forms
  <2> QED
    BY <2>5, <2>6
<1>5. CASE type # "MCQ"
  <2> DEFINE s == Test(Case(1), FALSE, "1", "x", 5, TRUE, TRUE)
             h == Test(Case(2), TRUE, "2", "x", 5, FALSE, TRUE)
             b == Question("CODING", FALSE, TRUE, 10, 0, <<>>, <<s, h>>)
  <2>1. Case(1) \in Names /\ Case(2) \in Names
    BY DEF Case, Names
  <2>2. s \in Tests /\ h \in Tests
    BY <1>1, <1>2, <1>3, <2>1, TestTyped
  <2>3. ~s.hidden /\ ~h.example
    BY DEF Test
  <2>4. Blank(type) = b
    BY <1>5 DEF Blank
  <2> HIDE DEF s, h
  <2>5. "CODING" \in Types /\ <<>> \in Seq(Options) /\ <<s, h>> \in Seq(Tests)
    BY <2>2 DEF Types, Supported
  <2>6. b \in Entries /\ b.points = 10 /\ b.tests = <<s, h>>
    BY <1>2, <1>3, <2>5 DEF Question, Entries
  <2> HIDE DEF b
  <2>7. \A k \in 1..Len(b.tests) : ~(b.tests[k].hidden /\ b.tests[k].example)
    BY <2>3, <2>6
  <2>8. b \in Forms
    BY <2>6, <2>7 DEF Forms
  <2> QED
    BY <2>4, <2>8
<1> QED
  BY <1>4, <1>5

LEMMA LoadedTyped ==
    ASSUME NEW d \in Shareable
    PROVE  Loaded(d) \in Forms
<1> DEFINE u == Unmarked(d)
           b == Blank("CODING").tests
           t == IF d.type = "CODING" /\ u.tests = <<>> THEN b ELSE u.tests
<1>1. d \in StoredQuestions /\ d.points >= 1
  BY DEF Shareable
<1>2. u \in Entries /\ u.points = d.points /\ \A k \in 1..Len(u.tests) : ~u.tests[k].example
  BY <1>1, UnmarkedTyped
<1>3. Loaded(d) = [u EXCEPT !.tests = t]
  BY DEF Loaded
<1>4. Blank("CODING") \in Forms
  BY BlankTyped DEF Supported
<1>5. b \in Seq(Tests) /\ \A k \in 1..Len(b) : ~(b[k].hidden /\ b[k].example)
  BY <1>4 DEF Forms, Entries
<1>6. u \in Forms
  BY <1>1, <1>2 DEF Forms
<1>7. u.tests \in Seq(Tests)
  BY <1>2 DEF Entries
<1> HIDE DEF u, b
<1>8. t \in Seq(Tests) /\ \A k \in 1..Len(t) : ~(t[k].hidden /\ t[k].example)
  BY <1>2, <1>5, <1>7
<1> HIDE DEF t
<1> QED
  BY <1>3, <1>6, <1>8, FormWithTests

(* Tests whose verification was changed. *)
LEMMA WithVerified ==
    ASSUME NEW q \in Entries, NEW V \in [DOMAIN q.tests -> BOOLEAN]
    PROVE  [q EXCEPT !.tests = [i \in DOMAIN @ |-> [@[i] EXCEPT !.verified = V[i]]]] \in Entries
<1> DEFINE n == Len(q.tests)
           t == [i \in DOMAIN q.tests |-> [q.tests[i] EXCEPT !.verified = V[i]]]
<1>1. q.tests \in Seq(Tests) /\ n \in Nat /\ DOMAIN q.tests = 1..n
  BY DEF Entries
<1>2. DOMAIN t = 1..n /\ t = [i \in 1..n |-> t[i]]
  BY <1>1
<1>3. ASSUME NEW i \in 1..n PROVE t[i] \in Tests
  <2>1. q.tests[i] \in Tests /\ V[i] \in BOOLEAN
    BY <1>1
  <2>2. t[i] = [q.tests[i] EXCEPT !.verified = V[i]]
    BY <1>1
  <2> HIDE DEF t
  <2> QED
    BY <2>1, <2>2 DEF Tests
<1>4. [q EXCEPT !.tests = [i \in DOMAIN @ |-> [@[i] EXCEPT !.verified = V[i]]]]
         = [q EXCEPT !.tests = t]
  OBVIOUS
<1> HIDE DEF t
<1>5. t \in Seq(Tests)
  BY <1>1, <1>2, <1>3, ListIsSeq
<1>6. [q EXCEPT !.tests = t] \in Entries
  BY <1>5 DEF Entries
<1> QED
  BY <1>4, <1>6

LEMMA CopiedTyped ==
    ASSUME NEW d \in StoredQuestions
    PROVE  Copied(d) \in Entries
<1> DEFINE u == Unmarked(d)
           V == [i \in DOMAIN u.tests |-> d.tests[i].verified]
<1>1. u \in Entries /\ Len(u.tests) = Len(d.tests)
  BY UnmarkedTyped
<1>2. d.tests \in Seq(StoredTests) /\ u.tests \in Seq(Tests)
  BY <1>1 DEF StoredQuestions, Entries
<1> HIDE DEF u
<1>3. V \in [DOMAIN u.tests -> BOOLEAN]
  <2>1. ASSUME NEW i \in DOMAIN u.tests PROVE d.tests[i].verified \in BOOLEAN
    <3>1. d.tests[i] \in StoredTests
      BY <1>1, <1>2
    <3> QED
      BY <3>1 DEF StoredTests
  <2> QED
    BY <2>1
<1>4. Copied(d) = [u EXCEPT !.tests = [i \in DOMAIN @ |-> [@[i] EXCEPT !.verified = V[i]]]]
  BY DEF Copied, u
<1> HIDE DEF V
<1> QED
  BY <1>1, <1>3, <1>4, WithVerified

LEMMA FilledTyped ==
    ASSUME NEW f \in Entries
    PROVE  Filled(f) \in Entries
<1>1. TRUE \in BOOLEAN
  BY Zenon
<1> QED
  BY <1>1 DEF Filled, Entries

LEMMA ByHandTyped ==
    ASSUME NEW q \in Entries, NEW checked \in BOOLEAN
    PROVE  [q EXCEPT !.statement = TRUE, !.starters = TRUE, !.tests = [i \in DOMAIN @ |->
               [@[i] EXCEPT !.verified = q.tests[i].verified /\ checked]]] \in Entries
<1> DEFINE f == [q EXCEPT !.statement = TRUE, !.starters = TRUE]
           V == [i \in DOMAIN f.tests |-> f.tests[i].verified /\ checked]
<1>1. f \in Entries /\ f.tests = q.tests
  <2>1. TRUE \in BOOLEAN
    BY Zenon
  <2>2. f \in Entries
    BY <2>1 DEF Entries
  <2>3. f.tests = q.tests
    BY DEF Entries
  <2> QED
    BY <2>2, <2>3
<1>2. V \in [DOMAIN f.tests -> BOOLEAN]
  <2>1. ASSUME NEW i \in DOMAIN f.tests PROVE (f.tests[i].verified /\ checked) \in BOOLEAN
    BY Zenon
  <2> QED
    BY <2>1
<1> DEFINE t == [i \in DOMAIN q.tests |-> [q.tests[i] EXCEPT !.verified = q.tests[i].verified /\ checked]]
<1>3. [f EXCEPT !.tests = [i \in DOMAIN @ |-> [@[i] EXCEPT !.verified = V[i]]]] = [f EXCEPT !.tests = t]
  BY <1>1
<1>4. [q EXCEPT !.statement = TRUE, !.starters = TRUE, !.tests = t] = [f EXCEPT !.tests = t]
  <2> HIDE DEF t
  <2> QED
    BY DEF Entries
<1>5. [q EXCEPT !.statement = TRUE, !.starters = TRUE, !.tests = [i \in DOMAIN @ |->
               [@[i] EXCEPT !.verified = q.tests[i].verified /\ checked]]]
      = [q EXCEPT !.statement = TRUE, !.starters = TRUE, !.tests = t]
  OBVIOUS
<1>6. [f EXCEPT !.tests = [i \in DOMAIN @ |-> [@[i] EXCEPT !.verified = V[i]]]] \in Entries
  <2> HIDE DEF f, V
  <2> QED
    BY <1>1, <1>2, WithVerified
<1> HIDE DEF f, V, t
<1> QED
  BY <1>3, <1>4, <1>5, <1>6

(***************************************************************************)
(* The invariant.                                                          *)
(***************************************************************************)
ModalType == [source : Platforms \cup {"none", "xlsx", "csv"},
              stage : {"closed", "previewed", "imported", "refused"},
              valid : BOOLEAN, warned : BOOLEAN, reference : BOOLEAN,
              shown : Seq(Entries), made : Seq(StoredQuestions)]
PageType == [mode : {"closed", "new", "edit"}, at : Nat, form : Entries, ready : BOOLEAN]

(* A question that has been through the pipeline. *)
Through(q) == Errors(q) = {} /\ Normal(q) = q
(* A penalty above the points is the one thing the pipeline leaves to the validation. *)
Publishes(q) == q.negative <= q.points => Publishable(AsShown(q))

SheetShown ==
    modal.source = "xlsx" /\ modal.valid =>
        /\ modal.shown # <<>>
        /\ \A i \in DOMAIN modal.shown :
              Through(modal.shown[i]) /\ (~modal.warned => Publishes(modal.shown[i]))
SheetMade ==
    modal.source = "xlsx" /\ modal.stage \in {"imported", "refused"} =>
        /\ modal.valid /\ modal.stage = "imported"
        /\ modal.made = [i \in DOMAIN modal.shown |-> AsShown(modal.shown[i])]
ModalKept == /\ modal \in ModalType
             /\ modal.source \in Platforms => Len(modal.shown) = 1
             /\ SheetShown /\ SheetMade

BankKept == bank \in Seq(Shareable)
PageKept == /\ page \in PageType
            /\ page.mode # "closed" => page.form \in Forms
            /\ page.mode = "edit" => page.at \in DOMAIN bank
IntakeInv == ModalKept /\ BankKept /\ PageKept /\ edits \in Nat

LEMMA ShareableStored == Shareable \subseteq StoredQuestions
BY DEF Shareable

LEMMA SeqWider ==
    ASSUME NEW S, NEW T, S \subseteq T, NEW s \in Seq(S)
    PROVE  s \in Seq(T)
<1>1. \A i \in 1..Len(s) : s[i] \in T
  OBVIOUS
<1>2. DOMAIN s = 1..Len(s) /\ s = [i \in 1..Len(s) |-> s[i]] /\ Len(s) \in Nat
  OBVIOUS
<1> QED
  BY <1>1, <1>2, ListIsSeq

(***************************************************************************)
(* The import.                                                             *)
(***************************************************************************)
LEMMA PreviewRight ==
    ASSUME NEW wb \in Workbooks, ParseErrors(wb) = {}, KeptRows(wb) # {}
    PROVE  LET p == Parsed(wb)
               s == [i \in DOMAIN p |-> Normal(p[i])]
           IN /\ s \in Seq(Entries) /\ s # <<>>
              /\ \A i \in DOMAIN s : Through(s[i])
              /\ ~Some(p, LAMBDA q : Warnings(q) # {}) => \A i \in DOMAIN s : Publishes(s[i])
<1> DEFINE p == Parsed(wb)
           n == Len(p)
           s == [i \in DOMAIN p |-> Normal(p[i])]
<1>1. /\ p \in Seq(Entries) /\ DOMAIN p = KeptRows(wb)
      /\ \A i \in DOMAIN p :
            /\ Errors(p[i]) = {}
            /\ p[i].type = "CODING" => \A k \in 1..Len(p[i].tests) : p[i].tests[k].verified
  BY ParsedRight
<1> HIDE DEF p
<1>2. n \in Nat /\ DOMAIN p = 1..n /\ DOMAIN s = 1..n /\ s = [i \in 1..n |-> s[i]]
  BY <1>1
<1>3. ASSUME NEW i \in 1..n
      PROVE  p[i] \in Entries /\ Errors(p[i]) = {} /\ s[i] = Normal(p[i])
  BY <1>1, <1>2
<1>4. ASSUME NEW i \in 1..n PROVE s[i] \in Entries /\ Through(s[i])
  BY <1>3, NormalFields, NormalTwice, NormalErrors DEF Through
<1>5. ASSUME ~Some(p, LAMBDA q : Warnings(q) # {}), NEW i \in 1..n PROVE Publishes(s[i])
  <2>1. Warnings(p[i]) = {}
    BY <1>2, <1>5 DEF Some
  <2>2. s[i].negative = p[i].negative /\ s[i].points = p[i].points
    BY <1>3, NormalFields
  <2>3. p[i].type = "CODING" => \A k \in 1..Len(p[i].tests) : p[i].tests[k].verified
    BY <1>1, <1>2
  <2>4. p[i].negative <= p[i].points => Publishable(AsShown(Normal(p[i])))
    BY <1>3, <2>1, <2>3, NormalPublishable
  <2> QED
    BY <1>3, <2>2, <2>4 DEF Publishes
<1> HIDE DEF s
<1>6. s \in Seq(Entries) /\ s # <<>>
  <2>1. s \in Seq(Entries)
    BY <1>2, <1>4, ListIsSeq
  <2>2. DOMAIN s # {}
    BY <1>1, <1>2
  <2> QED
    BY <2>1, <2>2
<1> QED
  BY <1>2, <1>4, <1>5, <1>6 DEF s, p

LEMMA NothingMade == <<>> \in Seq(StoredQuestions)
OBVIOUS

LEMMA PreviewWorkbookKeeps ==
    ASSUME NEW wb \in Workbooks, PreviewWorkbook(wb)
    PROVE  ModalKept'
<1> DEFINE p == Parsed(wb)
           valid == ParseErrors(wb) = {} /\ KeptRows(wb) # {}
           warned == Some(p, LAMBDA q : Warnings(q) # {})
           s == [i \in DOMAIN p |-> Normal(p[i])]
           shown == IF valid THEN s ELSE <<>>
<1>1. modal' = Previewed("xlsx", valid, warned, FALSE, shown)
  BY DEF PreviewWorkbook
<1>2. valid => /\ s \in Seq(Entries) /\ s # <<>>
               /\ \A i \in DOMAIN s : Through(s[i])
               /\ ~warned => \A i \in DOMAIN s : Publishes(s[i])
  BY PreviewRight
<1>3. valid \in BOOLEAN /\ warned \in BOOLEAN /\ FALSE \in BOOLEAN
  BY Zenon DEF Some
<1> HIDE DEF valid, warned, s
<1>4. <<>> \in Seq(Entries)
  OBVIOUS
<1>5. shown \in Seq(Entries)
  BY <1>2, <1>4
<1> DEFINE m == Previewed("xlsx", valid, warned, FALSE, shown)
<1>6. /\ m \in ModalType /\ m.source = "xlsx" /\ m.stage = "previewed" /\ m.valid = valid
      /\ m.warned = warned /\ m.shown = shown
  <2> HIDE DEF shown
  <2> QED
    BY <1>3, <1>5, NothingMade DEF Previewed, ModalType
<1>7. modal' = m
  BY <1>1
<1> HIDE DEF m
<1>8. (modal.source \in Platforms => Len(modal.shown) = 1)' /\ SheetMade'
  BY <1>6, <1>7 DEF SheetMade, Platforms
<1>9. SheetShown'
  BY <1>2, <1>6, <1>7 DEF SheetShown
<1> QED
  BY <1>6, <1>7, <1>8, <1>9 DEF ModalKept

LEMMA PreviewCsvKeeps ==
    ASSUME NEW rows \in CsvFiles, PreviewCsv(rows)
    PROVE  ModalKept'
<1> DEFINE shown == CsvQuestions(rows)
           valid == shown # <<>>
           m == Previewed("csv", valid, FALSE, FALSE, shown)
<1>1. modal' = m
  BY DEF PreviewCsv
<1>2. shown \in Seq(Entries)
  BY CsvQuestionsTyped, FilesAssumption
<1>3. valid \in BOOLEAN /\ FALSE \in BOOLEAN
  BY Zenon
<1> HIDE DEF shown, valid
<1>4. m \in ModalType /\ m.source = "csv"
  BY <1>2, <1>3, NothingMade DEF Previewed, ModalType
<1> HIDE DEF m
<1> QED
  BY <1>1, <1>4 DEF ModalKept, SheetShown, SheetMade, Platforms

LEMMA PreviewPlatformKeeps ==
    ASSUME NEW p \in Payloads, PreviewPlatform(p)
    PROVE  ModalKept'
<1> DEFINE q == FromPlatform(p)
           m == Previewed(p.source, TRUE, FALSE, p.reference, <<q>>)
<1>1. modal' = m
  BY DEF PreviewPlatform
<1>2. p \in PayloadType
  BY FilesAssumption
<1>3. q \in Entries
  BY <1>2, FromPlatformTyped
<1>4. p.source \in Platforms /\ p.reference \in BOOLEAN
  BY <1>2 DEF PayloadType
<1>5. FALSE \in BOOLEAN /\ TRUE \in BOOLEAN
  BY Zenon
<1> HIDE DEF q
<1>6. <<q>> \in Seq(Entries) /\ Len(<<q>>) = 1
  BY <1>3
<1> DEFINE l == <<q>>
<1> HIDE DEF l
<1>7. m \in ModalType /\ m.source = p.source /\ m.shown = <<q>>
  BY <1>4, <1>5, <1>6, NothingMade DEF Previewed, ModalType
<1> HIDE DEF m
<1>8. m.source # "xlsx"
  BY <1>4, <1>7 DEF Platforms
<1> QED
  BY <1>1, <1>6, <1>7, <1>8 DEF ModalKept, SheetShown, SheetMade

(* The end of an import: what it makes can be shared, whatever the end. *)
LEMMA ConcludesKeeps ==
    ASSUME modal \in ModalType, NEW stage \in {"imported", "refused"}, NEW made \in Seq(Shareable),
           Concludes(stage, made), BankKept
    PROVE  /\ modal' \in ModalType /\ modal'.source = modal.source /\ modal'.valid = modal.valid
           /\ modal'.warned = modal.warned /\ modal'.shown = modal.shown
           /\ modal'.stage = stage /\ modal'.made = made
           /\ BankKept' /\ DOMAIN bank \subseteq DOMAIN bank'
<1>1. modal' = [modal EXCEPT !.stage = stage, !.made = made] /\ bank' = bank \o made
  BY DEF Concludes
<1>2. made \in Seq(StoredQuestions)
  BY ShareableStored, SeqWider
<1>3. BankKept' /\ DOMAIN bank \subseteq DOMAIN bank'
  <2>1. bank \in Seq(Shareable)
    BY DEF BankKept
  <2>2. bank' \in Seq(Shareable) /\ Len(bank') = Len(bank) + Len(made)
    BY <1>1, <2>1, ConcatProperties
  <2>3. Len(bank) \in Nat /\ Len(made) \in Nat /\ DOMAIN bank = 1..Len(bank)
    BY <2>1
  <2> QED
    BY <2>2, <2>3 DEF BankKept
<1>4. stage \in {"closed", "previewed", "imported", "refused"}
  OBVIOUS
<1>5. /\ modal' \in ModalType /\ modal'.source = modal.source /\ modal'.valid = modal.valid
      /\ modal'.warned = modal.warned /\ modal'.shown = modal.shown
      /\ modal'.stage = stage /\ modal'.made = made
  BY <1>1, <1>2, <1>4 DEF ModalType
<1> QED
  BY <1>3, <1>5

LEMMA ConfirmImportKeeps ==
    ASSUME ModalKept, BankKept, ConfirmImport
    PROVE  ModalKept' /\ BankKept' /\ DOMAIN bank \subseteq DOMAIN bank'
<1>1. modal \in ModalType /\ modal.valid /\ modal.source \in {"xlsx", "csv"}
  BY DEF ModalKept, ConfirmImport
<1>2. modal.shown \in Seq(Entries)
  BY <1>1 DEF ModalType
<1>3. SheetShown
  BY DEF ModalKept
<1>4. CASE Refused(modal.shown)
  <2>1. modal.source # "xlsx"
    <3>1. ASSUME modal.source = "xlsx" PROVE FALSE
      <4>1. modal.shown # <<>> /\ \A i \in DOMAIN modal.shown : Errors(modal.shown[i]) = {}
        BY <1>1, <1>3, <3>1 DEF SheetShown, Through
      <4> QED
        BY <1>4, <4>1 DEF Refused, Some
    <3> QED
      BY <3>1
  <2>2. Concludes("refused", <<>>)
    BY <1>4 DEF ConfirmImport
  <2>3. <<>> \in Seq(Shareable)
    OBVIOUS
  <2>4. /\ modal' \in ModalType /\ modal'.source = modal.source /\ BankKept'
        /\ DOMAIN bank \subseteq DOMAIN bank'
    BY <1>1, <2>2, <2>3, ConcludesKeeps
  <2> QED
    BY <1>1, <2>1, <2>4 DEF ModalKept, SheetShown, SheetMade, Platforms
<1>5. CASE ~Refused(modal.shown)
  <2> DEFINE made == Imported(modal.shown)
  <2>1. made \in Seq(Shareable)
    BY <1>2, <1>5, ImportedShareable
  <2>2. Concludes("imported", made)
    BY <1>5 DEF ConfirmImport
  <2>3. modal.source = "xlsx" => made = [i \in DOMAIN modal.shown |-> AsShown(modal.shown[i])]
    BY <1>1, <1>3 DEF Imported, SheetShown, Through
  <2> HIDE DEF made
  <2>4. /\ modal' \in ModalType /\ modal'.source = modal.source /\ modal'.valid = modal.valid
        /\ modal'.warned = modal.warned /\ modal'.shown = modal.shown
        /\ modal'.stage = "imported" /\ modal'.made = made
        /\ BankKept' /\ DOMAIN bank \subseteq DOMAIN bank'
    BY <1>1, <2>1, <2>2, ConcludesKeeps
  <2>5. SheetShown'
    BY <1>3, <2>4 DEF SheetShown
  <2>6. SheetMade'
    BY <1>1, <2>3, <2>4 DEF SheetMade
  <2> QED
    BY <1>1, <2>4, <2>5, <2>6 DEF ModalKept, Platforms
<1> QED
  BY <1>4, <1>5

LEMMA ConfirmPlatformKeeps ==
    ASSUME ModalKept, BankKept, ConfirmPlatform
    PROVE  ModalKept' /\ BankKept' /\ DOMAIN bank \subseteq DOMAIN bank'
<1> DEFINE shown == modal.shown[1]
           checked == modal.source # "hackerrank"
           q == [shown EXCEPT !.statement = TRUE, !.starters = TRUE, !.tests = [i \in DOMAIN @ |->
                    [@[i] EXCEPT !.verified = shown.tests[i].verified /\ checked]]]
           new == Created(q, modal.reference)
<1>1. modal \in ModalType /\ modal.source \in Platforms /\ Len(modal.shown) = 1
  BY DEF ModalKept, ConfirmPlatform
<1>2. shown \in Entries /\ modal.reference \in BOOLEAN
  BY <1>1 DEF ModalType
<1>3. checked \in BOOLEAN
  BY Zenon
<1>4. IF FormRefused(q) THEN Concludes("refused", <<>>) ELSE Concludes("imported", <<new>>)
  BY DEF ConfirmPlatform
<1> HIDE DEF shown, checked
<1>5. q \in Entries
  BY <1>2, <1>3, ByHandTyped
<1> HIDE DEF q
<1>6. ~FormRefused(q) => new \in Shareable
  BY <1>2, <1>5, CreatedShareable
<1> HIDE DEF new
<1>7. PICK stage \in {"imported", "refused"}, made \in Seq(Shareable) : Concludes(stage, made)
  <2>1. CASE FormRefused(q)
    <3>1. <<>> \in Seq(Shareable)
      OBVIOUS
    <3> QED
      BY <1>4, <2>1, <3>1
  <2>2. CASE ~FormRefused(q)
    <3>1. <<new>> \in Seq(Shareable)
      BY <1>6, <2>2
    <3> QED
      BY <1>4, <2>2, <3>1
  <2> QED
    BY <2>1, <2>2
<1>8. /\ modal' \in ModalType /\ modal'.source = modal.source /\ modal'.shown = modal.shown
      /\ BankKept' /\ DOMAIN bank \subseteq DOMAIN bank'
  BY <1>1, <1>7, ConcludesKeeps
<1>9. modal'.source # "xlsx"
  BY <1>1, <1>8 DEF Platforms
<1> QED
  BY <1>1, <1>8, <1>9 DEF ModalKept, SheetShown, SheetMade

LEMMA ClosedKept == modal' = Closed => ModalKept'
<1> SUFFICES ASSUME modal' = Closed PROVE ModalKept'
  OBVIOUS
<1>1. <<>> \in Seq(Entries)
  OBVIOUS
<1>2. FALSE \in BOOLEAN
  BY Zenon
<1>3. Closed \in ModalType
  BY <1>1, <1>2, NothingMade DEF Closed, ModalType
<1> QED
  BY <1>3 DEF Closed, ModalKept, SheetShown, SheetMade, Platforms

LEMMA SameModal == ModalKept /\ UNCHANGED modal => ModalKept'
BY DEF ModalKept, SheetShown, SheetMade

(***************************************************************************)
(* The editor.                                                             *)
(***************************************************************************)
LEMMA AwayTyped == Away \in PageType
<1>1. FALSE \in BOOLEAN /\ TRUE \in BOOLEAN
  BY Zenon
<1>2. "MCQ" \in Types /\ <<>> \in Seq(Options) /\ <<>> \in Seq(Tests) /\ 0 \in Int /\ 0 \in Nat
  BY DEF Types, Supported
<1>3. NoForm \in Entries
  BY <1>1, <1>2 DEF NoForm, Question, Entries
<1> QED
  BY <1>1, <1>2, <1>3 DEF Away, PageType

LEMMA AwayKept == page' = Away => PageKept'
BY AwayTyped DEF PageKept, Away

LEMMA FormShown ==
    ASSUME NEW mode \in {"new", "edit"}, NEW at \in Nat, NEW form \in Forms, NEW ready \in BOOLEAN,
           page' = [mode |-> mode, at |-> at, form |-> form, ready |-> ready],
           mode = "edit" => at \in DOMAIN bank'
    PROVE  PageKept'
<1>1. form \in Entries
  BY DEF Forms
<1> QED
  BY <1>1 DEF PageKept, PageType

LEMMA NewQuestionKeeps ==
    ASSUME NEW type \in Supported, NewQuestion(type)
    PROVE  PageKept'
<1>1. Blank(type) \in Forms /\ 0 \in Nat
  BY BlankTyped
<1>2. TRUE \in BOOLEAN
  BY Zenon
<1>3. page' = [mode |-> "new", at |-> 0, form |-> Blank(type), ready |-> TRUE]
  BY DEF NewQuestion
<1> DEFINE f == Blank(type)
<1> HIDE DEF f
<1> QED
  BY <1>1, <1>2, <1>3, FormShown

LEMMA OpenKeeps ==
    ASSUME BankKept, NEW i \in DOMAIN bank, Open(i)
    PROVE  PageKept'
<1> DEFINE r == bank[i].type = "MCQ" \/ DataReady(bank[i])
<1>1. bank[i] \in Shareable /\ i \in Nat
  BY DEF BankKept
<1>2. Loaded(bank[i]) \in Forms
  BY <1>1, LoadedTyped
<1>3. r \in BOOLEAN
  BY Zenon DEF DataReady
<1>4. page' = [mode |-> "edit", at |-> i, form |-> Loaded(bank[i]), ready |-> r] /\ bank' = bank
  BY DEF Open
<1> HIDE DEF r
<1> QED
  BY <1>1, <1>2, <1>3, <1>4, FormShown

(* A change keeps what the editor holds, when the changed question is one it may hold. *)
LEMMA ChangeKeeps ==
    ASSUME PageKept, edits \in Nat, NEW form, Change(form),
           page.mode # "closed" => form \in Forms
    PROVE  PageKept' /\ edits' \in Nat
<1>1. /\ page.mode # "closed" /\ page' = [page EXCEPT !.form = form] /\ edits' = edits + 1
      /\ bank' = bank
  BY DEF Change
<1>2. form \in Forms /\ form \in Entries
  BY <1>1 DEF Forms
<1>3. page' \in PageType /\ page'.mode = page.mode /\ page'.at = page.at /\ page'.form = form
  BY <1>1, <1>2 DEF PageKept, PageType
<1> QED
  BY <1>1, <1>2, <1>3 DEF PageKept

(* What an edit may do with the tests and the options of a question. *)
LEMMA OneTest ==
    ASSUME NEW f \in Forms, NEW k \in DOMAIN f.tests, NEW c \in Tests, ~(c.hidden /\ c.example)
    PROVE  [f EXCEPT !.tests[k] = c] \in Forms
<1> DEFINE t == [f.tests EXCEPT ![k] = c]
<1>1. f.tests \in Seq(Tests) /\ \A j \in 1..Len(f.tests) : ~(f.tests[j].hidden /\ f.tests[j].example)
  BY DEF Forms, Entries
<1>2. t \in Seq(Tests) /\ Len(t) = Len(f.tests)
  BY <1>1
<1>3. \A j \in 1..Len(t) : ~(t[j].hidden /\ t[j].example)
  BY <1>1, <1>2
<1>4. [f EXCEPT !.tests[k] = c] = [f EXCEPT !.tests = t]
  OBVIOUS
<1> HIDE DEF t
<1> QED
  BY <1>2, <1>3, <1>4, FormWithTests

LEMMA TestChanges ==
    ASSUME NEW t \in Tests, ~(t.hidden /\ t.example)
    PROVE  LET c == {[t EXCEPT !.hidden = TRUE, !.example = FALSE], [t EXCEPT !.hidden = FALSE]}
                    \cup (IF t.hidden THEN {} ELSE {[t EXCEPT !.example = ~@]})
                    \cup {[t EXCEPT !.input = v] : v \in Inputs}
                    \cup {[t EXCEPT !.output = v] : v \in Outputs}
                    \cup {[t EXCEPT !.points = v] : v \in Marks}
           IN \A s \in c : s \in Tests /\ ~(s.hidden /\ s.example)
<1> DEFINE Good(s) == s \in Tests /\ ~(s.hidden /\ s.example)
<1>0. FALSE \in BOOLEAN /\ TRUE \in BOOLEAN
  BY Zenon
<1>1. Good([t EXCEPT !.hidden = TRUE, !.example = FALSE])
  BY <1>0 DEF Tests
<1>2. Good([t EXCEPT !.hidden = FALSE])
  BY <1>0 DEF Tests
<1>3. ~t.hidden => Good([t EXCEPT !.example = ~@])
  BY DEF Tests
<1>4. \A v \in Inputs : Good([t EXCEPT !.input = v])
  BY DEF Tests
<1>5. \A v \in Outputs : Good([t EXCEPT !.output = v])
  BY DEF Tests
<1>6. \A v \in Marks : Good([t EXCEPT !.points = v])
  BY MarksAssumption DEF Tests
<1> HIDE DEF Good
<1>7. \A s : Good(s) => s \in Tests /\ ~(s.hidden /\ s.example)
  BY DEF Good
<1> DEFINE a == [t EXCEPT !.hidden = TRUE, !.example = FALSE]
           b == [t EXCEPT !.hidden = FALSE]
           e == [t EXCEPT !.example = ~@]
           I(v) == [t EXCEPT !.input = v]
           O(v) == [t EXCEPT !.output = v]
           P(v) == [t EXCEPT !.points = v]
<1>8. \A s \in {a, b} \cup (IF t.hidden THEN {} ELSE {e}) \cup {I(v) : v \in Inputs}
              \cup {O(v) : v \in Outputs} \cup {P(v) : v \in Marks} : Good(s)
  <2> HIDE DEF a, b, e, I, O, P
  <2>1. Good(a) /\ Good(b) /\ (~t.hidden => Good(e))
    BY <1>1, <1>2, <1>3 DEF a, b, e
  <2>2. \A v \in Inputs : Good(I(v))
    BY <1>4 DEF I
  <2>3. \A v \in Outputs : Good(O(v))
    BY <1>5 DEF O
  <2>4. \A v \in Marks : Good(P(v))
    BY <1>6 DEF P
  <2> QED
    BY <2>1, <2>2, <2>3, <2>4
<1> QED
  BY <1>7, <1>8

LEMMA ChangeTestKeeps ==
    ASSUME PageKept, edits \in Nat, NEW k \in DOMAIN page.form.tests, ChangeTest(k)
    PROVE  PageKept' /\ edits' \in Nat
<1> DEFINE t == page.form.tests[k]
           changed == {[t EXCEPT !.hidden = TRUE, !.example = FALSE], [t EXCEPT !.hidden = FALSE]}
                      \cup (IF t.hidden THEN {} ELSE {[t EXCEPT !.example = ~@]})
                      \cup {[t EXCEPT !.input = v] : v \in Inputs}
                      \cup {[t EXCEPT !.output = v] : v \in Outputs}
                      \cup {[t EXCEPT !.points = v] : v \in Marks}
<1>1. PICK c \in changed : Change([page.form EXCEPT !.tests[k] = c])
  BY DEF ChangeTest
<1>2. ASSUME page.mode # "closed" PROVE [page.form EXCEPT !.tests[k] = c] \in Forms
  <2>1. page.form \in Forms
    BY <1>2 DEF PageKept
  <2>2. t \in Tests /\ ~(t.hidden /\ t.example)
    BY <2>1 DEF Forms, Entries
  <2>3. c \in Tests /\ ~(c.hidden /\ c.example)
    BY <2>2, TestChanges
  <2> QED
    BY <2>1, <2>3, OneTest
<1> DEFINE f == [page.form EXCEPT !.tests[k] = c]
<1> HIDE DEF f
<1>3. Change(f) /\ (page.mode # "closed" => f \in Forms)
  BY <1>1, <1>2 DEF f
<1> QED
  BY <1>3, ChangeKeeps

LEMMA AddTestKeeps ==
    ASSUME PageKept, edits \in Nat, AddTest
    PROVE  PageKept' /\ edits' \in Nat
<1> DEFINE s == page.form.tests
           n == Len(s) + 1
           c == Test(Case(n), n > 1, "", "", 5, ~(n > 1), TRUE)
           f == [page.form EXCEPT !.tests = Append(s, c)]
<1>1. Change(f)
  BY DEF AddTest
<1>2. ASSUME page.mode # "closed" PROVE f \in Forms
  <2>1. page.form \in Forms
    BY <1>2 DEF PageKept
  <2>2. s \in Seq(Tests) /\ \A j \in 1..Len(s) : ~(s[j].hidden /\ s[j].example)
    BY <2>1 DEF Forms, Entries
  <2>3. n \in Nat
    BY <2>2
  <2>4. Case(n) \in Names /\ "" \in Inputs /\ "" \in Outputs /\ 5 \in Int
    <3>1. Case(n) \in Names
      BY <2>3 DEF Case, Names
    <3>2. "" \in Inputs /\ "" \in Outputs
      BY TextsAssumption
    <3>3. 5 \in Int
      OBVIOUS
    <3> QED
      BY <3>1, <3>2, <3>3
  <2>5. c \in Tests /\ ~(c.hidden /\ c.example)
    <3> DEFINE h == n > 1
    <3>0. TRUE \in BOOLEAN
      BY Zenon
    <3>1. h \in BOOLEAN /\ (~h) \in BOOLEAN
      OBVIOUS
    <3>2. c = Test(Case(n), h, "", "", 5, ~h, TRUE)
      OBVIOUS
    <3> HIDE DEF h, c
    <3>3. c \in Tests
      BY <2>4, <3>0, <3>1, <3>2 DEF Test, Tests
    <3>4. c.hidden = h /\ c.example = ~h
      BY <3>2 DEF Test
    <3> QED
      BY <3>3, <3>4
  <2> HIDE DEF c
  <2>6. /\ Append(s, c) \in Seq(Tests)
        /\ \A j \in 1..Len(Append(s, c)) : ~(Append(s, c)[j].hidden /\ Append(s, c)[j].example)
    BY <2>2, <2>5
  <2> QED
    BY <2>1, <2>6, FormWithTests
<1> HIDE DEF f
<1> QED
  BY <1>1, <1>2, ChangeKeeps

LEMMA RemoveTestKeeps ==
    ASSUME PageKept, edits \in Nat, NEW k \in DOMAIN page.form.tests, RemoveTest(k)
    PROVE  PageKept' /\ edits' \in Nat
<1> DEFINE s == page.form.tests
           r == RemoveAt(s, k)
           f == [page.form EXCEPT !.tests = r]
<1>1. Change(f)
  BY DEF RemoveTest
<1>2. ASSUME page.mode # "closed" PROVE f \in Forms
  <2>1. page.form \in Forms
    BY <1>2 DEF PageKept
  <2>2. s \in Seq(Tests) /\ \A j \in 1..Len(s) : ~(s[j].hidden /\ s[j].example)
    BY <2>1 DEF Forms, Entries
  <2>3. k \in 1..Len(s)
    BY <2>2
  <2>4. /\ r \in Seq(Tests) /\ Len(r) = Len(s) - 1
        /\ \A i \in 1..(Len(s) - 1) : r[i] = s[i] \/ r[i] = s[i + 1]
    BY <2>2, <2>3, RemoveAtTyped
  <2> HIDE DEF s, r
  <2>5. \A j \in 1..Len(r) : ~(r[j].hidden /\ r[j].example)
    <3>1. ASSUME NEW j \in 1..Len(r) PROVE ~(r[j].hidden /\ r[j].example)
      <4>1. j \in 1..Len(s) /\ j + 1 \in 1..Len(s) /\ j \in 1..(Len(s) - 1)
        BY <2>2, <2>4
      <4> QED
        BY <2>2, <2>4, <4>1
    <3> QED
      BY <3>1
  <2> QED
    BY <2>1, <2>4, <2>5, FormWithTests
<1> HIDE DEF f
<1> QED
  BY <1>1, <1>2, ChangeKeeps

LEMMA ChangeOptionKeeps ==
    ASSUME PageKept, edits \in Nat, NEW k \in DOMAIN page.form.options, ChangeOption(k)
    PROVE  PageKept' /\ edits' \in Nat
<1> DEFINE s == page.form.options
           a == [s EXCEPT ![k].text = ~@]
           b == [i \in DOMAIN s |-> [s[i] EXCEPT !.correct = (i = k)]]
<1>1. PICK o \in {a, b} : Change([page.form EXCEPT !.options = o])
  <2>1. \/ Change([page.form EXCEPT !.options[k].text = ~@])
        \/ Change([page.form EXCEPT !.options = [i \in DOMAIN @ |-> [@[i] EXCEPT !.correct = (i = k)]]])
    BY DEF ChangeOption
  <2>2. [page.form EXCEPT !.options[k].text = ~@] = [page.form EXCEPT !.options = a]
    OBVIOUS
  <2>3. [page.form EXCEPT !.options = [i \in DOMAIN @ |-> [@[i] EXCEPT !.correct = (i = k)]]]
           = [page.form EXCEPT !.options = b]
    OBVIOUS
  <2> DEFINE x == [page.form EXCEPT !.options[k].text = ~@]
             y == [page.form EXCEPT !.options = [i \in DOMAIN @ |-> [@[i] EXCEPT !.correct = (i = k)]]]
  <2>4. Change(x) \/ Change(y)
    BY <2>1
  <2>5. x = [page.form EXCEPT !.options = a] /\ y = [page.form EXCEPT !.options = b]
    BY <2>2, <2>3
  <2> HIDE DEF x, y, a, b
  <2> QED
    BY <2>4, <2>5
<1>2. ASSUME page.mode # "closed" PROVE [page.form EXCEPT !.options = o] \in Forms
  <2>1. page.form \in Forms
    BY <1>2 DEF PageKept
  <2>2. s \in Seq(Options) /\ k \in DOMAIN s
    BY <2>1 DEF Forms, Entries
  <2>3. a \in Seq(Options)
    <3>1. s[k] \in Options
      BY <2>2
    <3>2. [s[k] EXCEPT !.text = ~@] \in Options
      BY <3>1 DEF Options
    <3>3. a = [s EXCEPT ![k] = [s[k] EXCEPT !.text = ~@]]
      BY <2>2
    <3> DEFINE c == [s[k] EXCEPT !.text = ~@]
    <3> HIDE DEF s, a, c
    <3>4. a = [s EXCEPT ![k] = c] /\ c \in Options
      BY <3>2, <3>3 DEF c
    <3> QED
      BY <2>2, <3>4
  <2>4. b \in Seq(Options)
    <3>1. ASSUME NEW i \in 1..Len(s) PROVE b[i] \in Options
      <4>1. s[i] \in Options /\ b[i] = [s[i] EXCEPT !.correct = (i = k)] /\ (i = k) \in BOOLEAN
        BY <2>2
      <4> HIDE DEF s, b
      <4> QED
        BY <4>1 DEF Options
    <3>2. DOMAIN b = 1..Len(s) /\ b = [i \in 1..Len(s) |-> b[i]] /\ Len(s) \in Nat
      BY <2>2
    <3> HIDE DEF b
    <3> QED
      BY <3>1, <3>2, ListIsSeq
  <2> HIDE DEF a, b
  <2>5. o \in Seq(Options)
    BY <2>3, <2>4
  <2> QED
    BY <2>1, <2>5, FormWithOptions
<1> DEFINE f == [page.form EXCEPT !.options = o]
<1> HIDE DEF f
<1>3. Change(f) /\ (page.mode # "closed" => f \in Forms)
  BY <1>1, <1>2 DEF f
<1> QED
  BY <1>3, ChangeKeeps

LEMMA AddOptionKeeps ==
    ASSUME PageKept, edits \in Nat, AddOption
    PROVE  PageKept' /\ edits' \in Nat
<1> DEFINE s == page.form.options
           c == Option(Len(s) + 1, FALSE, FALSE)
           f == [page.form EXCEPT !.options = Append(s, c)]
<1>1. Change(f)
  BY DEF AddOption
<1>2. ASSUME page.mode # "closed" PROVE f \in Forms
  <2>1. page.form \in Forms
    BY <1>2 DEF PageKept
  <2>2. s \in Seq(Options)
    BY <2>1 DEF Forms, Entries
  <2>3. c \in Options
    <3>1. Len(s) + 1 \in Nat
      BY <2>2
    <3>2. FALSE \in BOOLEAN
      BY Zenon
    <3> QED
      BY <3>1, <3>2 DEF Option, Options
  <2> HIDE DEF c
  <2>4. Append(s, c) \in Seq(Options)
    BY <2>2, <2>3
  <2> QED
    BY <2>1, <2>4, FormWithOptions
<1> HIDE DEF f
<1> QED
  BY <1>1, <1>2, ChangeKeeps

LEMMA RemoveOptionKeeps ==
    ASSUME PageKept, edits \in Nat, NEW k \in DOMAIN page.form.options, RemoveOption(k)
    PROVE  PageKept' /\ edits' \in Nat
<1> DEFINE s == page.form.options
           r == RemoveAt(s, k)
           lost == s[k].correct
           o == [i \in DOMAIN r |-> Option(i, r[i].text, r[i].correct \/ (lost /\ i = 1))]
           f == [page.form EXCEPT !.options = o]
<1>1. Change(f)
  BY DEF RemoveOption
<1>2. ASSUME page.mode # "closed" PROVE f \in Forms
  <2>1. page.form \in Forms
    BY <1>2 DEF PageKept
  <2>2. s \in Seq(Options) /\ k \in 1..Len(s)
    BY <2>1 DEF Forms, Entries
  <2>3. r \in Seq(Options)
    BY <2>2, RemoveAtTyped
  <2> HIDE DEF s, r, lost
  <2>4. DOMAIN o = 1..Len(r) /\ o = [i \in 1..Len(r) |-> o[i]] /\ Len(r) \in Nat
    BY <2>3 DEF Option
  <2>5. ASSUME NEW i \in 1..Len(r) PROVE o[i] \in Options
    <3> DEFINE right == r[i].correct \/ (lost /\ i = 1)
    <3>1. right \in BOOLEAN
      BY Zenon
    <3>2. r[i] \in Options /\ i \in Nat
      BY <2>3
    <3>3. o[i] = Option(i, r[i].text, right)
      BY <2>3 DEF Option
    <3> HIDE DEF right, o
    <3> QED
      BY <3>1, <3>2, <3>3 DEF Option, Options
  <2> HIDE DEF o
  <2>6. o \in Seq(Options)
    BY <2>4, <2>5, ListIsSeq
  <2> QED
    BY <2>1, <2>6, FormWithOptions
<1> HIDE DEF f
<1> QED
  BY <1>1, <1>2, ChangeKeeps

LEMMA ChangeTextsKeeps ==
    ASSUME PageKept, edits \in Nat, ChangeTexts
    PROVE  PageKept' /\ edits' \in Nat
<1> DEFINE g == page.form
           a == [g EXCEPT !.statement = ~@]
           b == [g EXCEPT !.starters = ~@]
           p(v) == [g EXCEPT !.points = v]
           n(v) == [g EXCEPT !.negative = v]
<1>1. ASSUME page.mode # "closed"
      PROVE  /\ a \in Forms /\ b \in Forms /\ \A v \in Marks : p(v) \in Forms
             /\ \A v \in Marks \cup {0} : n(v) \in Forms
  <2>1. g \in Forms
    BY <1>1 DEF PageKept
  <2> QED
    BY <2>1, FormWithTexts
<1>2. \/ Change(a) \/ Change(b) \/ \E v \in Marks : Change(p(v))
      \/ \E v \in Marks \cup {0} : Change(n(v))
  BY DEF ChangeTexts
<1> HIDE DEF a, b, p, n
<1>3. PICK f : Change(f) /\ (page.mode # "closed" => f \in Forms)
  BY <1>1, <1>2
<1> QED
  BY <1>3, ChangeKeeps

LEMMA EditKeeps ==
    ASSUME PageKept, edits \in Nat, Edit
    PROVE  PageKept' /\ edits' \in Nat
<1>1. CASE \E k \in DOMAIN page.form.tests : ChangeTest(k) \/ RemoveTest(k)
  BY <1>1, ChangeTestKeeps, RemoveTestKeeps
<1>2. CASE \E k \in DOMAIN page.form.options : ChangeOption(k) \/ RemoveOption(k)
  BY <1>2, ChangeOptionKeeps, RemoveOptionKeeps
<1>3. CASE AddTest \/ AddOption \/ ChangeTexts
  BY <1>3, AddTestKeeps, AddOptionKeeps, ChangeTextsKeeps
<1> QED
  BY <1>1, <1>2, <1>3 DEF Edit

LEMMA EditChanges == Edit => UNCHANGED <<bank, modal>>
<1>1. \A form : Change(form) => UNCHANGED <<bank, modal>>
  BY DEF Change
<1> QED
  BY <1>1 DEF Edit, ChangeTest, RemoveTest, ChangeOption, RemoveOption, AddTest, AddOption,
              ChangeTexts

(***************************************************************************)
(* Saving and publishing.                                                  *)
(***************************************************************************)
(* A question is added at the end of the bank: the editor stays on its own. *)
LEMMA AddedToBank ==
    ASSUME BankKept, NEW d \in Shareable, bank' = Append(bank, d)
    PROVE  BankKept' /\ DOMAIN bank \subseteq DOMAIN bank'
BY DEF BankKept

LEMMA ReplacedInBank ==
    ASSUME BankKept, NEW i \in DOMAIN bank, NEW d \in Shareable, bank' = [bank EXCEPT ![i] = d]
    PROVE  BankKept' /\ DOMAIN bank \subseteq DOMAIN bank'
BY DEF BankKept

LEMMA SamePage == PageKept /\ page' = page /\ DOMAIN bank \subseteq DOMAIN bank' => PageKept'
BY DEF PageKept

LEMMA NewMade ==
    ASSUME NEW form \in Forms, ~FormRefused(Filled(form))
    PROVE  Created(Filled(form), FALSE) \in Shareable
<1>1. Filled(form) \in Entries
  BY FilledTyped DEF Forms
<1>2. FALSE \in BOOLEAN
  BY Zenon
<1> QED
  BY <1>1, <1>2, CreatedShareable

LEMMA SaveNewKeeps ==
    ASSUME BankKept, PageKept, SaveNew
    PROVE  BankKept' /\ PageKept'
<1>1. page.form \in Forms
  BY DEF SaveNew, PageKept
<1>2. bank' = Append(bank, Created(Filled(page.form), FALSE)) /\ ~FormRefused(Filled(page.form))
      /\ page' = Away
  BY DEF SaveNew, Creates
<1>3. Created(Filled(page.form), FALSE) \in Shareable
  BY <1>1, <1>2, NewMade
<1> DEFINE d == Created(Filled(page.form), FALSE)
<1>4. bank' = Append(bank, d) /\ d \in Shareable
  BY <1>2, <1>3
<1> HIDE DEF d
<1> QED
  BY <1>2, <1>4, AddedToBank, AwayKept

LEMMA SavedShareable ==
    ASSUME BankKept, PageKept, page.mode = "edit"
    PROVE  /\ page.at \in DOMAIN bank /\ page.form \in Forms
           /\ Updated(bank[page.at], page.form) \in Shareable
<1>1. page.at \in DOMAIN bank /\ page.form \in Forms
  BY DEF PageKept
<1>2. bank[page.at] \in StoredQuestions
  BY <1>1, ShareableStored DEF BankKept
<1> QED
  BY <1>1, <1>2, UpdatedShareable

LEMMA SaveDraftKeeps ==
    ASSUME BankKept, PageKept, SaveDraft
    PROVE  BankKept' /\ PageKept'
<1> DEFINE saved == Updated(bank[page.at], page.form)
           r == saved.type = "MCQ" \/ DataReady(saved)
<1>1. page.at \in DOMAIN bank /\ page.form \in Forms /\ saved \in Shareable
  BY SavedShareable DEF SaveDraft
<1>2. /\ page.mode = "edit" /\ bank' = [bank EXCEPT ![page.at] = saved]
      /\ page' = [page EXCEPT !.ready = r]
  BY DEF SaveDraft
<1>3. r \in BOOLEAN
  BY Zenon DEF DataReady
<1> HIDE DEF saved, r
<1>4. BankKept' /\ DOMAIN bank \subseteq DOMAIN bank'
  BY <1>1, <1>2, ReplacedInBank
<1>5. page' \in PageType /\ page'.mode = page.mode /\ page'.at = page.at /\ page'.form = page.form
  BY <1>2, <1>3 DEF PageKept, PageType
<1> QED
  BY <1>1, <1>2, <1>4, <1>5 DEF PageKept

LEMMA PublishNewKeeps ==
    ASSUME BankKept, PageKept, PublishNew
    PROVE  BankKept' /\ PageKept'
<1> DEFINE d == Created(Filled(page.form), FALSE)
           made == Judged(d)
<1>1. page.form \in Forms /\ ~FormRefused(Filled(page.form))
  BY DEF PublishNew, PageKept
<1>2. d \in Shareable
  BY <1>1, NewMade
<1>3. made \in Shareable
  <2> HIDE DEF d
  <2> QED
    BY <1>2, JudgedShareable
<1>4. bank' = Append(bank, made) /\ (page' = Away \/ page' = page)
  BY DEF PublishNew
<1> HIDE DEF made
<1> QED
  BY <1>3, <1>4, AddedToBank, AwayKept, SamePage

LEMMA PublishEditedKeeps ==
    ASSUME BankKept, PageKept, PublishEdited
    PROVE  BankKept' /\ PageKept'
<1> DEFINE saved == Updated(bank[page.at], page.form)
           judged == Judged(saved)
<1>1. page.at \in DOMAIN bank /\ saved \in Shareable
  BY SavedShareable DEF PublishEdited
<1>2. judged \in Shareable
  <2> HIDE DEF saved
  <2> QED
    BY <1>1, JudgedShareable
<1>3. bank' = [bank EXCEPT ![page.at] = judged] /\ page' = page
  BY DEF PublishEdited
<1> HIDE DEF judged
<1> QED
  BY <1>1, <1>2, <1>3, ReplacedInBank, SamePage

LEMMA DuplicateKeeps ==
    ASSUME BankKept, PageKept, NEW i \in DOMAIN bank, Duplicate(i)
    PROVE  BankKept' /\ PageKept'
<1> DEFINE q == Filled(Copied(bank[i]))
           d == Created(q, bank[i].reference)
<1>1. bank[i] \in StoredQuestions
  BY ShareableStored DEF BankKept
<1>2. q \in Entries /\ bank[i].reference \in BOOLEAN
  BY <1>1, CopiedTyped, FilledTyped DEF StoredQuestions
<1>3. bank' = Append(bank, d) /\ page' = page /\ ~FormRefused(q)
  BY DEF Duplicate
<1> HIDE DEF q
<1>4. d \in Shareable
  BY <1>2, <1>3, CreatedShareable
<1> HIDE DEF d
<1> QED
  BY <1>3, <1>4, AddedToBank, SamePage

LEMMA OpenSteps ==
    /\ \A type : NewQuestion(type) => UNCHANGED <<bank, modal, edits>>
    /\ \A i : Open(i) => UNCHANGED <<bank, modal, edits>>
    /\ Leave => UNCHANGED <<bank, modal, edits>> /\ page' = Away
BY DEF NewQuestion, Open, Leave

LEMMA SaveSteps ==
    /\ \A i : Duplicate(i) => UNCHANGED <<modal, edits>>
    /\ SaveNew \/ SaveDraft \/ PublishNew \/ PublishEdited => UNCHANGED <<modal, edits>>
BY DEF Duplicate, SaveNew, SaveDraft, PublishNew, PublishEdited

LEMMA ImportSteps == Import => UNCHANGED <<page, edits>>
BY DEF Import, PreviewWorkbook, PreviewCsv, PreviewPlatform, ConfirmImport, ConfirmPlatform,
       CloseModal, Concludes

LEMMA ImportKeeps ==
    ASSUME ModalKept, BankKept, Import
    PROVE  ModalKept' /\ BankKept' /\ DOMAIN bank \subseteq DOMAIN bank'
<1>1. CASE \E wb \in Workbooks : PreviewWorkbook(wb)
  BY <1>1, PreviewWorkbookKeeps DEF PreviewWorkbook, BankKept
<1>2. CASE \E rows \in CsvFiles : PreviewCsv(rows)
  BY <1>2, PreviewCsvKeeps DEF PreviewCsv, BankKept
<1>3. CASE \E p \in Payloads : PreviewPlatform(p)
  BY <1>3, PreviewPlatformKeeps DEF PreviewPlatform, BankKept
<1>4. CASE ConfirmImport
  BY <1>4, ConfirmImportKeeps
<1>5. CASE ConfirmPlatform
  BY <1>5, ConfirmPlatformKeeps
<1>6. CASE CloseModal
  BY <1>6, ClosedKept DEF CloseModal, BankKept
<1> QED
  BY <1>1, <1>2, <1>3, <1>4, <1>5, <1>6 DEF Import

(***************************************************************************)
(* The specification keeps it.                                             *)
(***************************************************************************)
LEMMA IntakeInitKept == IntakeInit => IntakeInv
<1> SUFFICES ASSUME IntakeInit PROVE IntakeInv
  OBVIOUS
<1>1. bank = <<>> /\ modal = Closed /\ page = Away /\ edits = 0
  BY DEF IntakeInit
<1>2. <<>> \in Seq(Entries) /\ <<>> \in Seq(Shareable)
  OBVIOUS
<1>3. FALSE \in BOOLEAN
  BY Zenon
<1>4. Closed \in ModalType
  BY <1>2, <1>3, NothingMade DEF Closed, ModalType
<1>5. ModalKept
  BY <1>1, <1>4 DEF Closed, ModalKept, SheetShown, SheetMade, Platforms
<1>6. PageKept
  BY <1>1, AwayTyped DEF PageKept, Away
<1> QED
  BY <1>1, <1>2, <1>5, <1>6 DEF IntakeInv, BankKept

LEMMA IntakeStep == IntakeInv /\ [IntakeNext]_intakeVars => IntakeInv'
<1> SUFFICES ASSUME IntakeInv, [IntakeNext]_intakeVars PROVE IntakeInv'
  OBVIOUS
<1>1. ModalKept /\ BankKept /\ PageKept /\ edits \in Nat
  BY DEF IntakeInv
<1>2. CASE Import
  <2>1. ModalKept' /\ BankKept' /\ DOMAIN bank \subseteq DOMAIN bank' /\ UNCHANGED <<page, edits>>
    BY <1>1, <1>2, ImportKeeps, ImportSteps
  <2> QED
    BY <1>1, <2>1, SamePage DEF IntakeInv
<1>3. CASE Edit
  <2>1. PageKept' /\ edits' \in Nat /\ UNCHANGED <<bank, modal>>
    BY <1>1, <1>3, EditKeeps, EditChanges
  <2>2. BankKept'
    BY <1>1, <2>1 DEF BankKept
  <2> QED
    BY <1>1, <2>1, <2>2, SameModal DEF IntakeInv
<1>4. CASE \/ \E type \in Supported : NewQuestion(type)
           \/ \E i \in DOMAIN bank : Open(i)
           \/ Leave
  <2>1. PageKept'
    BY <1>1, <1>4, NewQuestionKeeps, OpenKeeps, OpenSteps, AwayKept
  <2>2. UNCHANGED <<bank, modal, edits>>
    BY <1>4, OpenSteps
  <2>3. BankKept'
    BY <1>1, <2>2 DEF BankKept
  <2> QED
    BY <1>1, <2>1, <2>2, <2>3, SameModal DEF IntakeInv
<1>5. CASE \/ \E i \in DOMAIN bank : Duplicate(i)
           \/ SaveNew \/ SaveDraft \/ PublishNew \/ PublishEdited
  <2>1. BankKept' /\ PageKept'
    BY <1>1, <1>5, DuplicateKeeps, SaveNewKeeps, SaveDraftKeeps, PublishNewKeeps, PublishEditedKeeps
  <2>2. UNCHANGED <<modal, edits>>
    BY <1>5, SaveSteps
  <2> QED
    BY <1>1, <2>1, <2>2, SameModal DEF IntakeInv
<1>6. CASE UNCHANGED intakeVars
  <2>1. UNCHANGED <<bank, modal, page, edits>>
    BY <1>6 DEF intakeVars
  <2>2. BankKept' /\ PageKept'
    BY <1>1, <2>1 DEF BankKept, PageKept
  <2> QED
    BY <1>1, <2>1, <2>2, SameModal DEF IntakeInv
<1> QED
  BY <1>2, <1>3, <1>4, <1>5, <1>6 DEF IntakeNext

LEMMA IntakeKept == IntakeSpec => []IntakeInv
BY IntakeInitKept, IntakeStep, PTL DEF IntakeSpec

(* IntakeTypeOK: the editor and the import hold what they should, and the bank what the rows of *)
(* the models can hold, whatever was read, typed or published.                                  *)
THEOREM IntakeTyping == IntakeSpec => []IntakeTypeOK
<1>1. IntakeInv => IntakeTypeOK
  <2> SUFFICES ASSUME IntakeInv PROVE IntakeTypeOK
    OBVIOUS
  <2>1. bank \in Seq(StoredQuestions)
    BY ShareableStored, SeqWider DEF IntakeInv, BankKept
  <2> QED
    BY <2>1 DEF IntakeInv, ModalKept, ModalType, PageKept, PageType, IntakeTypeOK
<1> QED
  BY <1>1, IntakeKept, PTL

(* PreviewHonoured: what the preview of a workbook accepts is imported, and stored as shown. *)
THEOREM Honoured == IntakeSpec => []PreviewHonoured
<1>1. IntakeInv => PreviewHonoured
  BY DEF IntakeInv, ModalKept, SheetMade, PreviewHonoured
<1> QED
  BY <1>1, IntakeKept, PTL

(* AcceptedPublishes: a workbook imported without a warning can be published as it is, unless a *)
(* wrong answer costs more than the question is worth.                                          *)
THEOREM Accepted == IntakeSpec => []AcceptedPublishes
<1>1. IntakeInv => AcceptedPublishes
  <2> SUFFICES ASSUME IntakeInv, modal.source = "xlsx", modal.stage = "imported", ~modal.warned,
                      NEW i \in DOMAIN modal.made, modal.made[i].negative <= modal.made[i].points
               PROVE  Publishable(modal.made[i])
    BY DEF AcceptedPublishes
  <2>1. modal.valid /\ modal.made = [j \in DOMAIN modal.shown |-> AsShown(modal.shown[j])]
    BY DEF IntakeInv, ModalKept, SheetMade
  <2>2. i \in DOMAIN modal.shown /\ modal.made[i] = AsShown(modal.shown[i])
    BY <2>1
  <2>3. Publishes(modal.shown[i])
    BY <2>1, <2>2 DEF IntakeInv, ModalKept, SheetShown
  <2>4. /\ modal.made[i].negative = modal.shown[i].negative
        /\ modal.made[i].points = modal.shown[i].points
    BY <2>2 DEF AsShown, Stored
  <2> QED
    BY <2>2, <2>3, <2>4 DEF Publishes
<1> QED
  BY <1>1, IntakeKept, PTL

(* ExamplesArePublic: whatever way a question came, what students are shown as an example is the *)
(* input and output of one of its sample tests.                                                  *)
THEOREM SamplesOnly == IntakeSpec => []ExamplesArePublic
<1>1. IntakeInv => ExamplesArePublic
  BY DEF IntakeInv, BankKept, Shareable, Public, ExamplesArePublic
<1> QED
  BY <1>1, IntakeKept, PTL

(* ReadyPublishes: what the health view calls ready can be published, but for the penalty that *)
(* the view does not look at.                                                                  *)
THEOREM HealthAgrees == IntakeSpec => []ReadyPublishes
<1>1. IntakeInv => ReadyPublishes
  <2> SUFFICES ASSUME IntakeInv, NEW i \in DOMAIN bank, DataReady(bank[i]),
                      bank[i].negative <= bank[i].points
               PROVE  Publishable(bank[i])
    BY DEF ReadyPublishes
  <2> DEFINE d == bank[i]
  <2>1. d.points >= 1
    BY DEF IntakeInv, BankKept, Shareable
  <2>2. d.type = "CODING" /\ d.statement
    BY DEF DataReady, Described
  <2>3. CodingSound(d)
    BY DEF DataReady, VerificationCheck, OutputsCheck, PointsCheck, CodingSound
  <2> QED
    BY <2>1, <2>2, <2>3 DEF Publishable
<1> QED
  BY <1>1, IntakeKept, PTL

-----------------------------------------------------------------------------
(* How an assessment is made and published. *)

USE PointsAssumption, AdminAssumption

(***************************************************************************)
(* Type correctness, in the groups of variables of the module.             *)
(***************************************************************************)
Requests == [op : Ops, stage : Stages, on : Questions \cup {Nobody},
             new : Statuses, total : Totals \cup {0}]
Snapshots == [taken : BOOLEAN, list : Lists, total : Totals \cup {0}, summed : Lists]

BankTyped == version \in [Questions -> Statuses] /\ sound \subseteq Questions
ExamTyped ==
    /\ exam \in [status : Statuses, total : Totals \cup {0}]
    /\ links \in Lists /\ targets \subseteq Students
    /\ assigned \in [Students -> {"NONE", "ASSIGNED", "REVOKED"}]
    /\ snapshot \in Snapshots
WorkTyped == work \in [Admins -> Requests]
PublishTyped == lock \in Admins \cup {Nobody} /\ eligible \subseteq Students /\ summed \in Lists

LEMMA TypeParts == TypeOK <=> BankTyped /\ ExamTyped /\ WorkTyped /\ PublishTyped
BY DEF TypeOK, BankTyped, ExamTyped, WorkTyped, PublishTyped, Requests, Snapshots

LEMMA TypePartsNext ==
    TypeOK' <=> BankTyped' /\ ExamTyped' /\ WorkTyped' /\ PublishTyped'
BY DEF TypeOK, BankTyped, ExamTyped, WorkTyped, PublishTyped, Requests, Snapshots

LEMMA NoListTyped == NoList \in Lists
BY DEF NoList, Lists

LEMMA IdleTyped == Idle \in Requests
BY DEF Idle, Request, Requests, Ops, Stages, Statuses

LEMMA NoSnapshotTyped == NoSnapshot \in Snapshots
BY NoListTyped DEF NoSnapshot, Snapshots

LEMMA InitTyped == Init => TypeOK
<1> SUFFICES ASSUME Init PROVE TypeOK
  OBVIOUS
<1>1. BankTyped
  BY DEF Init, BankTyped, Statuses
<1>2. ExamTyped
  BY NoListTyped, NoSnapshotTyped DEF Init, ExamTyped, Statuses
<1>3. WorkTyped /\ PublishTyped
  BY NoListTyped, IdleTyped DEF Init, WorkTyped, PublishTyped
<1> QED BY <1>1, <1>2, <1>3, TypeParts

\* What a step of a request does to work.
LEMMA EndsTyped ==
    ASSUME TypeOK, NEW w \in Admins, Ends(w)
    PROVE  WorkTyped'
BY TypeParts, IdleTyped DEF Ends, WorkTyped

LEMMA ChecksTyped ==
    ASSUME TypeOK, NEW w \in Admins, Checks(w)
    PROVE  WorkTyped'
<1> DEFINE r == Request(work[w].op, "checked", work[w].on, work[w].new, work[w].total)
<1>1. r \in Requests
  BY TypeParts DEF Request, Requests, WorkTyped, Stages
<1>2. work' = [work EXCEPT ![w] = r]
  BY DEF Checks
<1> HIDE DEF r
<1> QED BY <1>1, <1>2, TypeParts DEF WorkTyped

LEMMA StartsTyped ==
    ASSUME TypeOK, NEW w \in Admins, NEW r \in Requests, Starts(w, r)
    PROVE  WorkTyped'
BY TypeParts DEF Starts, WorkTyped

LEMMA RequestTyped ==
    ASSUME NEW op \in Ops, NEW on \in Questions \cup {Nobody}, NEW new \in Statuses,
           NEW total \in Totals \cup {0}
    PROVE  Request(op, "read", on, new, total) \in Requests
BY DEF Request, Requests, Stages

LEMMA BankStepTyped ==
    ASSUME TypeOK, NEW w \in Admins,
           \/ \E q \in Questions, op \in {"edit_version", "publish_version", "archive_version",
                                          "delete_question"} : ReadQuestion(w, op, q)
           \/ CheckVersion(w) \/ SaveVersion(w) \/ DeleteQuestion(w)
    PROVE  TypeOK'
<1>1. CASE \E q \in Questions, op \in {"edit_version", "publish_version", "archive_version",
                                       "delete_question"} : ReadQuestion(w, op, q)
  <2>1. PICK q \in Questions, op \in {"edit_version", "publish_version", "archive_version",
                                      "delete_question"} : ReadQuestion(w, op, q)
    BY <1>1
  <2>2. Request(op, "read", q, "NONE", 0) \in Requests
    BY DEF Request, Requests, Ops, Stages, Statuses
  <2>3. WorkTyped'
    BY <2>1, <2>2, StartsTyped DEF ReadQuestion
  <2> QED BY <2>1, <2>3, TypeParts, TypePartsNext DEF ReadQuestion, BankTyped, ExamTyped,
             PublishTyped, bankVars, examVars, publishVars
<1>2. CASE CheckVersion(w)
  BY <1>2, ChecksTyped, TypeParts, TypePartsNext DEF CheckVersion, BankTyped, ExamTyped,
     PublishTyped, bankVars, examVars, publishVars
<1>3. CASE SaveVersion(w)
  <2>1. PICK q \in Questions :
            /\ version' = [version EXCEPT ![q] = NewStatus(work[w].op)]
            /\ sound' \subseteq sound \cup {q}
            /\ work[w].op \in {"edit_version", "publish_version", "archive_version"}
    BY <1>3 DEF SaveVersion, UpdateDraftVersion, PublishVersion, ArchiveVersion, SavesStatus, At
  <2>2. NewStatus(work[w].op) \in Statuses
    BY <2>1 DEF NewStatus, Statuses
  <2>3. BankTyped'
    BY <2>1, <2>2, TypeParts DEF BankTyped
  <2> QED BY <1>3, <2>3, EndsTyped, TypeParts, TypePartsNext
          DEF SaveVersion, UpdateDraftVersion, PublishVersion, ArchiveVersion, SavesStatus,
              ExamTyped, PublishTyped, examVars, publishVars
<1>4. CASE DeleteQuestion(w)
  BY <1>4, EndsTyped, TypeParts, TypePartsNext DEF DeleteQuestion, BankTyped, ExamTyped,
     PublishTyped, examVars, publishVars, Statuses
<1> QED BY <1>1, <1>2, <1>3, <1>4

LEMMA DraftStepTyped ==
    ASSUME TypeOK, NEW w \in Admins,
           \/ ReadForUpdate(w) \/ ReadForArchive(w) \/ CheckAssessment(w) \/ SaveAssessment(w)
           \/ ReadForAudience(w) \/ ReadForAdd(w) \/ ReadForRemove(w) \/ ReadForDelete(w)
    PROVE  TypeOK'
<1> USE DEF BankTyped, ExamTyped, PublishTyped, bankVars, examVars, publishVars
<1>1. CASE ReadForUpdate(w) \/ ReadForArchive(w)
  <2>1. \A n \in Totals : Request("update", "read", Nobody, exam.status, n) \in Requests
    BY TypeParts DEF Request, Requests, Ops, Stages
  <2>2. Request("archive", "read", Nobody, "ARCHIVED", exam.total) \in Requests
    BY TypeParts DEF Request, Requests, Ops, Stages, Statuses
  <2>3. WorkTyped'
    BY <1>1, <2>1, <2>2, StartsTyped DEF ReadForUpdate, ReadForArchive
  <2> QED BY <1>1, <2>3, TypeParts, TypePartsNext DEF ReadForUpdate, ReadForArchive
<1>2. CASE CheckAssessment(w)
  BY <1>2, ChecksTyped, TypeParts, TypePartsNext DEF CheckAssessment
<1>3. CASE SaveAssessment(w)
  <2>1. work[w].new \in Statuses /\ work[w].total \in Totals \cup {0}
    BY TypeParts DEF WorkTyped, Requests
  <2>2. exam' \in [status : Statuses, total : Totals \cup {0}] /\ targets' \subseteq Students
    BY <1>3, <2>1, TypeParts DEF SaveAssessment, UpdateAssessment, ArchiveAssessment, SavesCopy
  <2> QED BY <1>3, <2>2, EndsTyped, TypeParts, TypePartsNext
       DEF SaveAssessment, UpdateAssessment, ArchiveAssessment, SavesCopy
<1>4. CASE \/ ReadForAudience(w) \/ ReadForAdd(w)
          \/ ReadForRemove(w) \/ ReadForDelete(w)
  <2>1. \A op \in {"configure", "delete"} : Request(op, "read", Nobody, "NONE", 0) \in Requests
    BY DEF Request, Requests, Ops, Stages, Statuses
  <2>2. \A q \in Questions : /\ Request("add", "read", q, "NONE", 0) \in Requests
                            /\ Request("remove", "read", q, "NONE", 0) \in Requests
    BY DEF Request, Requests, Ops, Stages, Statuses
  <2>3. WorkTyped'
    BY <1>4, <2>1, <2>2, StartsTyped
      DEF ReadForAudience, ReadForAdd, ReadForRemove, ReadForDelete, ReadDraft
  <2> QED BY <1>4, <2>3, TypeParts, TypePartsNext
       DEF ReadForAudience, ReadForAdd, ReadForRemove, ReadForDelete, ReadDraft
<1> QED BY <1>1, <1>2, <1>3, <1>4

LEMMA LinkStepTyped ==
    ASSUME TypeOK, NEW w \in Admins,
           \/ ConfigureAudience(w) \/ AddQuestion(w) \/ RemoveQuestion(w) \/ DeleteAssessment(w)
    PROVE  TypeOK'
<1> USE DEF BankTyped, ExamTyped, PublishTyped, bankVars, examVars, publishVars
<1>1. CASE ConfigureAudience(w)
  BY <1>1, EndsTyped, TypeParts, TypePartsNext DEF ConfigureAudience
<1>2. CASE AddQuestion(w)
  <2>1. PICK p \in Points : links' = [links EXCEPT ![work[w].on] = p]
    BY <1>2 DEF AddQuestion
  <2>2. links' \in Lists
    BY <2>1, TypeParts DEF Lists
  <2> QED BY <1>2, <2>2, EndsTyped, TypeParts, TypePartsNext DEF AddQuestion
<1>3. CASE RemoveQuestion(w)
  BY <1>3, EndsTyped, TypeParts, TypePartsNext DEF RemoveQuestion, Lists
<1>4. CASE DeleteAssessment(w)
  BY <1>4, EndsTyped, NoListTyped, NoSnapshotTyped, TypeParts, TypePartsNext
  DEF DeleteAssessment, Statuses
<1> QED BY <1>1, <1>2, <1>3, <1>4

LEMMA AdmitTyped ==
    ASSUME TypeOK, NEW S
    PROVE  Admit(S) \in [Students -> {"NONE", "ASSIGNED", "REVOKED"}]
BY TypeParts DEF Admit, ExamTyped

LEMMA AccessStepTyped ==
    ASSUME TypeOK,
           \/ \E q \in Questions : CreateQuestion(q) \/ ArchiveQuestion(q)
           \/ \E S \in SUBSET Questions \ {{}} : ImportCanonical(S) \/ CommitRows(S)
           \/ \E q, from \in Questions : DuplicateQuestion(q, from)
           \/ \E n \in Totals : CreateAssessment(n)
           \/ \E S \in SUBSET Students \ {{}} : AssignStudents(S)
           \/ \E s \in Students : RevokeAssignment(s)
    PROVE  TypeOK'
<1> USE DEF BankTyped, ExamTyped, PublishTyped, WorkTyped, bankVars, examVars, publishVars
<1>1. CASE \E S \in SUBSET Students \ {{}} : AssignStudents(S)
  BY <1>1, AdmitTyped, TypeParts, TypePartsNext DEF AssignStudents
<1>2. CASE \E s \in Students : RevokeAssignment(s)
  BY <1>2, TypeParts, TypePartsNext DEF RevokeAssignment
<1>3. CASE \/ \E q \in Questions : CreateQuestion(q)
          \/ \E S \in SUBSET Questions \ {{}} : ImportCanonical(S) \/ CommitRows(S)
          \/ \E q, from \in Questions : DuplicateQuestion(q, from)
  <2>1. \E S, some \in SUBSET Questions : Born(S, some)
    BY <1>3 DEF CreateQuestion, ImportCanonical, CommitRows, DuplicateQuestion
  <2> QED BY <2>1, TypeParts, TypePartsNext DEF Born, Statuses
<1>4. CASE \E n \in Totals : CreateAssessment(n)
  BY <1>4, TypeParts, TypePartsNext DEF CreateAssessment, Statuses
<1>5. CASE \E q \in Questions : ArchiveQuestion(q)
  BY <1>5, TypeParts, TypePartsNext DEF ArchiveQuestion, Statuses
<1> QED BY <1>1, <1>2, <1>3, <1>4, <1>5

LEMMA PublishStepTyped ==
    ASSUME TypeOK, NEW w \in Admins, StartPublish(w) \/ Publish(w) \/ Refuse(w)
    PROVE  TypeOK'
<1> USE DEF BankTyped, ExamTyped, PublishTyped, bankVars, examVars, publishVars
<1>1. CASE StartPublish(w)
  <2>1. Request("publish", "read", Nobody, "NONE", 0) \in Requests
    BY DEF Request, Requests, Ops, Stages, Statuses
  <2>2. WorkTyped'
    BY <1>1, <2>1, StartsTyped DEF StartPublish
  <2> QED BY <1>1, <2>2, TypeParts, TypePartsNext DEF StartPublish, Audience, Admitted
<1>2. CASE Publish(w)
  <2>1. Frozen(links, exam.total, summed) \in Snapshots
    BY TypeParts DEF Frozen, Snapshots
  <2>2. snapshot' = snapshot \/ snapshot' = Frozen(links, exam.total, summed)
    BY <1>2 DEF Publish, CreateSnapshot
  <2> QED BY <1>2, <2>1, <2>2, EndsTyped, AdmitTyped, NoListTyped, TypeParts, TypePartsNext
          DEF Publish, Statuses
<1>3. CASE Refuse(w)
  BY <1>3, EndsTyped, NoListTyped, TypeParts, TypePartsNext DEF Refuse
<1> QED BY <1>1, <1>2, <1>3

LEMMA NextTyped == TypeOK /\ [Next]_vars => TypeOK'
<1> SUFFICES ASSUME TypeOK, [Next]_vars PROVE TypeOK'
  OBVIOUS
<1>1. CASE Next
  BY <1>1, BankStepTyped, DraftStepTyped, LinkStepTyped, AccessStepTyped, PublishStepTyped
  DEF Next
<1>2. CASE UNCHANGED vars
  BY <1>2, TypeParts, TypePartsNext DEF vars, BankTyped, ExamTyped, WorkTyped, PublishTyped,
     bankVars, examVars, publishVars
<1> QED BY <1>1, <1>2

\* Every variable keeps its type.
THEOREM Typing == Spec => []TypeOK
<1> QED BY InitTyped, NextTyped, PTL DEF Spec

(***************************************************************************)
(* The lock, the copies and the snapshot.  While publish_assessment holds  *)
(* the lock nothing is added to the list it added up or to the audience it *)
(* resolved, and a copy of a published row only exists after the snapshot. *)
(***************************************************************************)
Holder == \A w \in Admins : lock = w <=> work[w].op = "publish"
LockHeld ==
    lock # Nobody =>
        /\ exam.status = "DRAFT" /\ SumFunction(summed) = exam.total
        /\ \A q \in Questions : links[q] \in {0, summed[q]}
        /\ targets \subseteq eligible
Copies == \A w \in Admins : work[w].new = "PUBLISHED" => snapshot.taken

PublishInv == Holder /\ LockHeld /\ Copies /\ SnapshotWithinTotal /\ PublishedHasSnapshot

\* What every step but those of publish_assessment leaves alone.
Bystander ==
    /\ UNCHANGED publishVars
    /\ \A w \in Admins : /\ work'[w].op = "publish" <=> work[w].op = "publish"
                         /\ work'[w].new = "PUBLISHED" =>
                                work[w].new = "PUBLISHED" \/ exam.status = "PUBLISHED"
    /\ lock # Nobody /\ exam.status = "DRAFT" =>
           /\ exam' = exam /\ targets' \subseteq targets
           /\ \A q \in Questions : links'[q] \in {0, links[q]}
    /\ snapshot' = snapshot \/ (~snapshot.taken /\ ~snapshot'.taken)
    /\ exam'.status = "PUBLISHED" =>
           exam.status = "PUBLISHED" \/ \E w \in Admins : work[w].new = "PUBLISHED"

\* A request that starts, moves on or ends, and is not a publication.
LEMMA OtherWork ==
    ASSUME TypeOK, NEW w \in Admins, NEW r \in Requests, work' = [work EXCEPT ![w] = r],
           work[w].op # "publish", r.op # "publish",
           r.new = "PUBLISHED" => work[w].new = "PUBLISHED" \/ exam.status = "PUBLISHED"
    PROVE  \A v \in Admins : /\ work'[v].op = "publish" <=> work[v].op = "publish"
                             /\ work'[v].new = "PUBLISHED" =>
                                    work[v].new = "PUBLISHED" \/ exam.status = "PUBLISHED"
BY TypeParts DEF WorkTyped

LEMMA OtherEnds ==
    ASSUME TypeOK, NEW w \in Admins, Ends(w), work[w].op # "publish"
    PROVE  \A v \in Admins : /\ work'[v].op = "publish" <=> work[v].op = "publish"
                             /\ work'[v].new = "PUBLISHED" =>
                                    work[v].new = "PUBLISHED" \/ exam.status = "PUBLISHED"
BY OtherWork, IdleTyped DEF Ends, Idle, Request

LEMMA OtherStarts ==
    ASSUME TypeOK, NEW w \in Admins, NEW op \in Ops, NEW on \in Questions \cup {Nobody},
           NEW new \in Statuses, NEW total \in Totals \cup {0},
           Starts(w, Request(op, "read", on, new, total)), op # "publish",
           new = "PUBLISHED" => exam.status = "PUBLISHED"
    PROVE  \A v \in Admins : /\ work'[v].op = "publish" <=> work[v].op = "publish"
                             /\ work'[v].new = "PUBLISHED" =>
                                    work[v].new = "PUBLISHED" \/ exam.status = "PUBLISHED"
<1>1. Request(op, "read", on, new, total) \in Requests
  BY RequestTyped
<1>2. work[w].op # "publish"
  BY DEF Starts, Idle, Request
<1> QED BY <1>1, <1>2, OtherWork DEF Starts, Request

LEMMA OtherChecks ==
    ASSUME TypeOK, NEW w \in Admins, Checks(w), work[w].op # "publish"
    PROVE  \A v \in Admins : /\ work'[v].op = "publish" <=> work[v].op = "publish"
                             /\ work'[v].new = "PUBLISHED" =>
                                    work[v].new = "PUBLISHED" \/ exam.status = "PUBLISHED"
<1>1. Request(work[w].op, "checked", work[w].on, work[w].new, work[w].total) \in Requests
  BY TypeParts DEF Request, Requests, WorkTyped, Stages
<1> QED BY <1>1, OtherWork DEF Checks, Request

LEMMA BankBystander ==
    ASSUME TypeOK, NEW w \in Admins,
           \/ \E q \in Questions, op \in {"edit_version", "publish_version", "archive_version",
                                          "delete_question"} : ReadQuestion(w, op, q)
           \/ CheckVersion(w) \/ SaveVersion(w) \/ DeleteQuestion(w)
    PROVE  Bystander
<1> SUFFICES /\ UNCHANGED publishVars /\ UNCHANGED examVars
             /\ \A v \in Admins : /\ work'[v].op = "publish" <=> work[v].op = "publish"
                                  /\ work'[v].new = "PUBLISHED" =>
                                         work[v].new = "PUBLISHED" \/ exam.status = "PUBLISHED"
  BY DEF Bystander, examVars
<1>1. CASE \E q \in Questions, op \in {"edit_version", "publish_version", "archive_version",
                                       "delete_question"} : ReadQuestion(w, op, q)
  <2>1. PICK q \in Questions, op \in {"edit_version", "publish_version", "archive_version",
                                      "delete_question"} : ReadQuestion(w, op, q)
    BY <1>1
  <2>2. op \in Ops /\ "NONE" \in Statuses
    BY DEF Ops, Statuses
  <2> QED BY <2>1, <2>2, OtherStarts DEF ReadQuestion
<1>2. CASE CheckVersion(w)
  BY <1>2, OtherChecks DEF CheckVersion
<1>3. CASE SaveVersion(w)
  BY <1>3, OtherEnds
  DEF SaveVersion, UpdateDraftVersion, PublishVersion, ArchiveVersion, SavesStatus, At
<1>4. CASE DeleteQuestion(w)
  BY <1>4, OtherEnds DEF DeleteQuestion, At
<1> QED BY <1>1, <1>2, <1>3, <1>4

LEMMA DraftBystander ==
    ASSUME TypeOK, NEW w \in Admins,
           \/ ReadForUpdate(w) \/ ReadForArchive(w) \/ CheckAssessment(w) \/ SaveAssessment(w)
           \/ ReadForAudience(w) \/ ReadForAdd(w) \/ ReadForRemove(w) \/ ReadForDelete(w)
    PROVE  Bystander
<1>1. CASE ReadForUpdate(w) \/ ReadForArchive(w)
  <2>1. "update" \in Ops /\ "archive" \in Ops /\ "ARCHIVED" \in Statuses
    BY DEF Ops, Statuses
  <2>2. exam.status \in Statuses /\ exam.total \in Totals \cup {0}
    BY TypeParts DEF ExamTyped
  <2>3. \A v \in Admins : /\ work'[v].op = "publish" <=> work[v].op = "publish"
                          /\ work'[v].new = "PUBLISHED" =>
                                 work[v].new = "PUBLISHED" \/ exam.status = "PUBLISHED"
    BY <1>1, <2>1, <2>2, OtherStarts DEF ReadForUpdate, ReadForArchive
  <2> QED BY <1>1, <2>3 DEF ReadForUpdate, ReadForArchive, Bystander, examVars
<1>2. CASE CheckAssessment(w)
  BY <1>2, OtherChecks DEF CheckAssessment, At, Bystander, examVars
<1>3. CASE SaveAssessment(w)
  <2>1. \A v \in Admins : /\ work'[v].op = "publish" <=> work[v].op = "publish"
                          /\ work'[v].new = "PUBLISHED" =>
                                 work[v].new = "PUBLISHED" \/ exam.status = "PUBLISHED"
    BY <1>3, OtherEnds DEF SaveAssessment, UpdateAssessment, ArchiveAssessment, SavesCopy, At
  <2> QED BY <1>3, <2>1
       DEF SaveAssessment, UpdateAssessment, ArchiveAssessment, SavesCopy, Bystander
<1>4. CASE \/ ReadForAudience(w) \/ ReadForAdd(w)
          \/ ReadForRemove(w) \/ ReadForDelete(w)
  <2>1. {"configure", "delete", "add", "remove"} \subseteq Ops /\ "NONE" \in Statuses
    BY DEF Ops, Statuses
  <2>2. \A v \in Admins : /\ work'[v].op = "publish" <=> work[v].op = "publish"
                          /\ work'[v].new = "PUBLISHED" =>
                                 work[v].new = "PUBLISHED" \/ exam.status = "PUBLISHED"
    BY <1>4, <2>1, OtherStarts
      DEF ReadForAudience, ReadForAdd, ReadForRemove, ReadForDelete, ReadDraft
  <2> QED BY <1>4, <2>2
       DEF ReadForAudience, ReadForAdd, ReadForRemove, ReadForDelete, ReadDraft, Bystander, examVars
<1> QED BY <1>1, <1>2, <1>3, <1>4

LEMMA LinkBystander ==
    ASSUME TypeOK, NEW w \in Admins,
           \/ ConfigureAudience(w) \/ AddQuestion(w) \/ RemoveQuestion(w) \/ DeleteAssessment(w)
    PROVE  Bystander
<1>1. \A v \in Admins : /\ work'[v].op = "publish" <=> work[v].op = "publish"
                        /\ work'[v].new = "PUBLISHED" =>
                               work[v].new = "PUBLISHED" \/ exam.status = "PUBLISHED"
  BY OtherEnds DEF ConfigureAudience, AddQuestion, RemoveQuestion, DeleteAssessment, At
<1>2. CASE ConfigureAudience(w)
  BY <1>1, <1>2 DEF ConfigureAudience, MayRefer, Bystander
<1>3. CASE AddQuestion(w)
  BY <1>1, <1>3 DEF AddQuestion, MayRefer, Bystander
<1>4. CASE RemoveQuestion(w)
  <2>1. \A q \in Questions : links'[q] \in {0, links[q]}
    BY <1>4, TypeParts DEF RemoveQuestion, ExamTyped, Lists
  <2> QED BY <1>1, <1>4, <2>1 DEF RemoveQuestion, Bystander
<1>5. CASE DeleteAssessment(w)
  BY <1>1, <1>5 DEF DeleteAssessment, Deletable, Bystander, NoSnapshot
<1> QED BY <1>2, <1>3, <1>4, <1>5

LEMMA AccessBystander ==
    ASSUME TypeOK,
           \/ \E q \in Questions : CreateQuestion(q) \/ ArchiveQuestion(q)
           \/ \E S \in SUBSET Questions \ {{}} : ImportCanonical(S) \/ CommitRows(S)
           \/ \E q, from \in Questions : DuplicateQuestion(q, from)
           \/ \E n \in Totals : CreateAssessment(n)
           \/ \E S \in SUBSET Students \ {{}} : AssignStudents(S)
           \/ \E s \in Students : RevokeAssignment(s)
    PROVE  Bystander
BY DEF CreateQuestion, ArchiveQuestion, ImportCanonical, CommitRows, DuplicateQuestion, Born,
   CreateAssessment, AssignStudents, RevokeAssignment, Bystander, examVars

LEMMA BystanderKeeps ==
    ASSUME TypeOK, PublishInv, Bystander
    PROVE  PublishInv'
<1> USE DEF PublishInv
<1>1. Holder' /\ lock' = lock /\ summed' = summed /\ eligible' = eligible
  BY DEF Bystander, Holder, publishVars
<1>2. LockHeld'
  BY <1>1 DEF Bystander, LockHeld
<1>3. snapshot.taken => snapshot' = snapshot
  BY DEF Bystander
<1>4. Copies'
  BY <1>3 DEF Bystander, Copies, PublishedHasSnapshot
<1>5. SnapshotWithinTotal'
  BY DEF Bystander, SnapshotWithinTotal
<1>6. PublishedHasSnapshot'
  BY <1>3 DEF Bystander, PublishedHasSnapshot, Copies
<1> QED BY <1>1, <1>2, <1>4, <1>5, <1>6

LEMMA StartKeeps ==
    ASSUME TypeOK, PublishInv, NEW w \in Admins, StartPublish(w)
    PROVE  PublishInv'
<1> USE DEF PublishInv
<1>1. /\ work' = [work EXCEPT ![w] = Request("publish", "read", Nobody, "NONE", 0)]
      /\ work[w].op = "idle"
  BY DEF StartPublish, Starts, Idle, Request
<1>2. Holder'
  <2> SUFFICES ASSUME NEW v \in Admins PROVE lock' = v <=> work'[v].op = "publish"
    BY DEF Holder
  <2>1. lock' = w /\ lock = Nobody
    BY DEF StartPublish
  <2> QED BY <1>1, <2>1, TypeParts DEF Holder, WorkTyped, Request
<1>3. LockHeld'
  BY TypeParts DEF StartPublish, LockHeld, examVars, Audience, ExamTyped, Lists
<1>4. Copies'
  BY <1>1, TypeParts DEF StartPublish, Copies, WorkTyped, Request, examVars
<1>5. SnapshotWithinTotal' /\ PublishedHasSnapshot'
  BY DEF StartPublish, SnapshotWithinTotal, PublishedHasSnapshot, examVars
<1> QED BY <1>2, <1>3, <1>4, <1>5

LEMMA EndsCopies ==
    ASSUME TypeOK, NEW w \in Admins, Ends(w)
    PROVE  \A v \in Admins : /\ work'[v].op = "publish" <=> v # w /\ work[v].op = "publish"
                             /\ work'[v].new = "PUBLISHED" => work[v].new = "PUBLISHED"
BY TypeParts DEF Ends, WorkTyped, Idle, Request

LEMMA PublishKeeps ==
    ASSUME TypeOK, PublishInv, NEW w \in Admins, Publish(w)
    PROVE  PublishInv'
<1> USE DEF PublishInv
<1>1. lock = w /\ lock' = Nobody
  BY DEF Publish, At, Holder
<1>2. Holder'
  BY <1>1, EndsCopies DEF Publish, Holder
<1>3. snapshot'.taken
  BY DEF Publish, CreateSnapshot, Frozen
<1>4. LockHeld' /\ Copies' /\ PublishedHasSnapshot'
  BY <1>1, <1>3 DEF LockHeld, Copies, PublishedHasSnapshot
<1>5. SnapshotWithinTotal'
  <2>1. CASE snapshot.taken
    BY <2>1 DEF Publish, CreateSnapshot, SnapshotWithinTotal
  <2>2. CASE ~snapshot.taken
    <3>1. snapshot' = Frozen(links, exam.total, summed) /\ links # NoList
      BY <2>2 DEF Publish, CreateSnapshot
    <3>2. SumFunction(summed) = exam.total /\ \A q \in Questions : links[q] \in {0, summed[q]}
      BY <1>1 DEF LockHeld
    <3>3. /\ snapshot'.list = links /\ snapshot'.total = exam.total /\ snapshot'.summed = summed
      BY <3>1 DEF Frozen
    <3> QED BY <3>1, <3>2, <3>3 DEF SnapshotWithinTotal
  <2> QED BY <2>1, <2>2
<1> QED BY <1>2, <1>4, <1>5

LEMMA RefuseKeeps ==
    ASSUME TypeOK, PublishInv, NEW w \in Admins, Refuse(w)
    PROVE  PublishInv'
<1> USE DEF PublishInv
<1>1. CASE lock = w
  <2>1. lock' = Nobody
    BY <1>1 DEF Refuse
  <2>2. Holder' /\ LockHeld'
    BY <1>1, <2>1, EndsCopies DEF Refuse, Holder, LockHeld
  <2> QED BY <2>2, EndsCopies DEF Refuse, Copies, SnapshotWithinTotal, PublishedHasSnapshot,
             examVars
<1>2. CASE lock # w
  <2>1. UNCHANGED publishVars /\ work[w].op # "publish"
    BY <1>2 DEF Refuse, Holder
  <2>2. Holder' /\ LockHeld'
    BY <2>1, EndsCopies DEF Refuse, Holder, LockHeld, publishVars, examVars
  <2> QED BY <2>2, EndsCopies DEF Refuse, Copies, SnapshotWithinTotal, PublishedHasSnapshot,
             examVars
<1> QED BY <1>1, <1>2

LEMMA PublishStep == TypeOK /\ PublishInv /\ [Next]_vars => PublishInv'
<1> SUFFICES ASSUME TypeOK, PublishInv, [Next]_vars PROVE PublishInv'
  OBVIOUS
<1>1. CASE Next
  BY <1>1, BankBystander, DraftBystander, LinkBystander, AccessBystander, BystanderKeeps,
     StartKeeps, PublishKeeps, RefuseKeeps DEF Next
<1>2. CASE UNCHANGED vars
  BY <1>2 DEF vars, PublishInv, Holder, LockHeld, Copies, SnapshotWithinTotal,
     PublishedHasSnapshot, examVars, publishVars
<1> QED BY <1>1, <1>2

LEMMA PublishInit == Init => PublishInv
BY DEF Init, PublishInv, Holder, LockHeld, Copies, SnapshotWithinTotal, PublishedHasSnapshot,
   Idle, Request, NoSnapshot

\* What students get is part of a list that comes to the total it is marked against.
THEOREM Snapshot == Spec => []SnapshotWithinTotal
<1>1. PublishInv => SnapshotWithinTotal
  BY DEF PublishInv
<1> QED BY <1>1, PublishInit, PublishStep, Typing, PTL DEF Spec

\* An assessment is never open without a snapshot, whatever copies are written back.
THEOREM Published == Spec => []PublishedHasSnapshot
<1>1. PublishInv => PublishedHasSnapshot
  BY DEF PublishInv
<1> QED BY <1>1, PublishInit, PublishStep, Typing, PTL DEF Spec

LEMMA AdmittedStep ==
    TypeOK /\ PublishInv /\ [Next]_vars =>
        [\A w \in Admins : lock = w /\ exam' # exam => targets \subseteq Admitted(assigned')]_vars
<1> SUFFICES ASSUME TypeOK, PublishInv, Next, NEW w \in Admins, lock = w, exam' # exam
             PROVE  targets \subseteq Admitted(assigned')
  OBVIOUS
<1>1. ~Bystander
  BY DEF Bystander, PublishInv, LockHeld
<1>2. PICK v \in Admins : StartPublish(v) \/ Publish(v) \/ Refuse(v)
  BY <1>1, BankBystander, DraftBystander, LinkBystander, AccessBystander DEF Next
<1>3. Publish(v)
  BY <1>2 DEF StartPublish, Refuse, examVars
<1>4. targets \subseteq eligible
  BY DEF PublishInv, LockHeld
<1>5. \A s \in eligible : assigned'[s] = "ASSIGNED"
  BY <1>3, TypeParts DEF Publish, Admit, PublishTyped
<1> QED BY <1>4, <1>5, TypeParts DEF Admitted, ExamTyped

\* Whom a draft is meant for may take it once it is published.
THEOREM Access == Spec => AudienceAdmitted
<1> QED BY AdmittedStep, PublishInit, PublishStep, Typing, PTL DEF Spec, AudienceAdmitted
=============================================================================
