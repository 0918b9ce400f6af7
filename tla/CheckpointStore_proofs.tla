------------------------ MODULE CheckpointStore_proofs ------------------------
(***************************************************************************)
(* Proofs about the checkpoint stores, for any first round, any page size, *)
(* any number of models and any number of crashes.                         *)
(***************************************************************************)
EXTENDS CheckpointStore, FiniteSetTheorems, WellFoundedInduction, TLAPS

\* A set of naturals that is not empty has a least element.
LEMMA LeastNatural ==
  ASSUME NEW T \in SUBSET Nat, T # {}
  PROVE  \E x \in T : \A y \in T : x <= y
<1>1. PICK x \in T : \A y \in T : ~(<<y, x>> \in OpToRel(<, Nat))
  BY NatLessThanWellFounded, WFMin, Zenon
<1>2. \A y \in T : ~(y < x)
  BY <1>1, Zenon DEF OpToRel
<1> QED
  BY <1>2

\* A bounded one has a greatest element, which is what Max chooses.
LEMMA MaxOfBounded ==
  ASSUME NEW T \in SUBSET Nat, T # {}, NEW b \in Nat, \A y \in T : y <= b
  PROVE  Max(T) \in T /\ \A y \in T : y <= Max(T)
<1> DEFINE U == {u \in Nat : \A y \in T : y <= u}
<1>1. PICK u \in U : \A w \in U : u <= w
  BY LeastNatural
<1>2. u \in T
  <2> SUFFICES ASSUME u \notin T PROVE FALSE
    OBVIOUS
  <2>1. u \in Nat /\ \A y \in T : y \in Nat /\ y <= u - 1
    BY <1>1
  <2>2. u - 1 \in Nat
    <3>1. PICK y \in T : TRUE
      OBVIOUS
    <3> QED
      BY <2>1, <3>1
  <2>3. u - 1 \in U
    BY <2>1, <2>2
  <2> QED
    BY <1>1, <2>1, <2>3
<1>3. \A y \in T : u >= y
  BY <1>1
<1>4. \E x \in T : \A y \in T : x >= y
  BY <1>2, <1>3
<1> QED
  BY <1>4 DEF Max

\* The greatest element of a singleton.
LEMMA MaxOfOne ==
  ASSUME NEW m \in Nat
  PROVE  Max({m}) = m
BY MaxOfBounded

\* The greatest round with a checkpoint.
LEMMA MaxRound ==
  ASSUME NEW R \in SUBSET (0 .. LastRound), R # {}
  PROVE  Max(R) \in R /\ \A r \in R : r <= Max(R)
<1>1. LastRound \in Nat /\ R \in SUBSET Nat /\ \A r \in R : r <= LastRound
  BY StoreAssumption DEF LastRound
<1> QED
  BY <1>1, MaxOfBounded

\* What the store answers, case by case.
LEMMA AnswerCases ==
  ASSUME NEW files, DOMAIN files \subseteq 0 .. LastRound, NEW target \in Nat
  PROVE  /\ target = Latest /\ DOMAIN files = {} => Answer(target, files) = NoCheckpoint
         /\ target = Latest /\ DOMAIN files # {} =>
              Answer(target, files) = files[Max(DOMAIN files)].model
         /\ target # Latest /\ target \notin DOMAIN files => Answer(target, files) = NoCheckpoint
         /\ target # Latest /\ target \in DOMAIN files =>
              Answer(target, files) = files[target].model
<1>1. CASE target = Latest /\ DOMAIN files = {}
  BY <1>1 DEF Answer
<1>2. CASE target = Latest /\ DOMAIN files # {}
  <2>1. Max(DOMAIN files) \in Nat
    BY <1>2, MaxRound
  <2> QED
    BY <1>2, <2>1, MaxOfOne DEF Answer
<1>3. CASE target # Latest /\ target \notin DOMAIN files
  BY <1>3 DEF Answer
<1>4. CASE target # Latest /\ target \in DOMAIN files
  <2>1. {target} \cap DOMAIN files = {target}
    BY <1>4
  <2> QED
    BY <1>4, <2>1, MaxOfOne DEF Answer
<1> QED
  BY <1>1, <1>2, <1>3, <1>4

\* The answer when the newest round has just been stored.
LEMMA AnswerNewest ==
  ASSUME NEW files, DOMAIN files \subseteq 0 .. LastRound, NEW n \in DOMAIN files,
         \A r \in DOMAIN files : r <= n
  PROVE  Answer(Latest, files) = files[n].model
<1>1. Max(DOMAIN files) \in DOMAIN files /\ \A r \in DOMAIN files : r <= Max(DOMAIN files)
  BY MaxRound
<1>2. Max(DOMAIN files) = n
  BY <1>1
<1> QED
  BY <1>2, AnswerCases DEF Latest

\* What an answer is, when every checkpoint is one.
LEMMA AnswerType ==
  ASSUME NEW files, DOMAIN files \subseteq 0 .. LastRound, NEW target \in Nat,
         \A r \in DOMAIN files : files[r] \in Blob
  PROVE  Answer(target, files) \in Int
<1>1. \A r \in DOMAIN files : files[r].model \in Int
  BY DEF Blob
<1>2. DOMAIN files # {} => Max(DOMAIN files) \in DOMAIN files
  BY MaxRound
<1>3. NoCheckpoint \in Int
  BY DEF NoCheckpoint
<1>4. \/ Answer(target, files) = NoCheckpoint
      \/ \E r \in DOMAIN files : Answer(target, files) = files[r].model
  BY <1>2, AnswerCases
<1> QED
  BY <1>1, <1>3, <1>4

\* What Tens must satisfy up to n.
TensUpTo(g, n) == \A m \in 0 .. n : g[m] = IF m < 10 THEN 10 ELSE 10 * g[m \div 10]

\* A tenth is smaller.
LEMMA Tenth ==
  ASSUME NEW m \in Nat, ~(m < 10)
  PROVE  m \div 10 \in Nat /\ m \div 10 < m
OBVIOUS

\* Induction over the naturals, for a set instead of a predicate.
LEMMA Induct ==
  ASSUME NEW T \in SUBSET Nat, 0 \in T, \A n \in Nat : n \in T => n + 1 \in T
  PROVE  T = Nat
<1> SUFFICES ASSUME T # Nat PROVE FALSE
  OBVIOUS
<1>1. PICK x \in Nat \ T : \A y \in Nat \ T : x <= y
  BY LeastNatural
<1>2. x # 0 /\ x - 1 \in Nat /\ x - 1 \in T
  BY <1>1
<1> QED
  BY <1>1, <1>2

\* From a function that satisfies it up to m to one up to m + 1.
LEMMA TensExtend ==
  ASSUME NEW m \in Nat, NEW g, TensUpTo(g, m)
  PROVE  \E h : TensUpTo(h, m + 1)
<1> DEFINE k == IF m + 1 < 10 THEN 10 ELSE 10 * g[(m + 1) \div 10]
           h == [i \in 0 .. m + 1 |-> IF i <= m THEN g[i] ELSE k]
<1>1. h[m + 1] = k /\ \A i \in 0 .. m : h[i] = g[i]
  <2> HIDE DEF k
  <2> QED OBVIOUS
<1> HIDE DEF h
<1>2. ASSUME NEW i \in 0 .. m + 1 PROVE h[i] = IF i < 10 THEN 10 ELSE 10 * h[i \div 10]
  <2>1. ~(i < 10) => i \div 10 \in 0 .. m
    BY Tenth
  <2>2. CASE i = m + 1
    BY <1>1, <2>1, <2>2
  <2>3. CASE i \in 0 .. m
    <3>1. h[i] = IF i < 10 THEN 10 ELSE 10 * g[i \div 10]
      BY <1>1, <2>3 DEF TensUpTo
    <3> QED BY <1>1, <2>1, <3>1
  <2> QED BY <2>2, <2>3
<1> QED
  BY <1>2 DEF TensUpTo

\* Such a function exists for every bound.
LEMMA TensExists ==
  ASSUME NEW n \in Nat
  PROVE  \E g : TensUpTo(g, n)
<1> DEFINE T == {m \in Nat : \E g : TensUpTo(g, m)}
<1>1. 0 \in T
  <2> DEFINE g == [m \in 0 .. 0 |-> 10]
  <2>1. TensUpTo(g, 0)
    BY DEF TensUpTo
  <2> QED
    BY <2>1
<1>2. \A m \in Nat : m \in T => m + 1 \in T
  BY TensExtend
<1>3. T = Nat
  <2> HIDE DEF T
  <2>1. T \in SUBSET Nat
    BY DEF T
  <2> QED BY <1>1, <1>2, <2>1, Induct
<1> QED
  BY <1>3

\* Two such functions agree.
LEMMA TensUnique ==
  ASSUME NEW n \in Nat, NEW m \in Nat, n <= m, NEW g, NEW h, TensUpTo(g, n), TensUpTo(h, m)
  PROVE  \A i \in 0 .. n : g[i] = h[i]
<1> DEFINE B == {i \in 0 .. n : g[i] # h[i]}
<1> SUFFICES ASSUME B # {} PROVE FALSE
  OBVIOUS
<1>1. PICK i \in B : \A j \in B : i <= j
  <2> HIDE DEF B
  <2>1. B \in SUBSET Nat
    BY DEF B
  <2> QED BY <2>1, LeastNatural
<1>2. ~(i < 10) => i \div 10 \in 0 .. n /\ i \div 10 < i
  BY <1>1, Tenth
<1>3. ~(i < 10) => g[i \div 10] = h[i \div 10]
  BY <1>1, <1>2
<1> QED
  BY <1>1, <1>3 DEF TensUpTo

\* So the recursive definition of Tens defines it.
LEMMA TensDef ==
  \A n \in Nat : Tens[n] = IF n < 10 THEN 10 ELSE 10 * Tens[n \div 10]
<1> DEFINE u == [n \in Nat |-> CHOOSE g : TensUpTo(g, n)]
           G == [n \in Nat |-> u[n][n]]
<1>1. \A n \in Nat : TensUpTo(u[n], n)
  BY TensExists
<1> HIDE DEF u
<1>2. \A n \in Nat : G[n] = u[n][n]
  OBVIOUS
<1>3. G = [n \in Nat |-> G[n]]
  OBVIOUS
<1> HIDE DEF G
<1>4. ASSUME NEW n \in Nat, NEW m \in 0 .. n
      PROVE  u[n][m] = G[m]
  <2>1. \A c \in 0 .. m : u[m][c] = u[n][c]
    <3>1. TensUpTo(u[n], n) /\ TensUpTo(u[m], m)
      BY <1>1
    <3> QED BY <3>1, TensUnique
  <2> QED
    BY <2>1, <1>2
<1>5. ASSUME NEW n \in Nat
      PROVE  G[n] = IF n < 10 THEN 10 ELSE 10 * G[n \div 10]
  <2>1. G[n] = IF n < 10 THEN 10 ELSE 10 * u[n][n \div 10]
    BY <1>1, <1>2 DEF TensUpTo
  <2>2. ~(n < 10) => n \div 10 \in 0 .. n
    BY Tenth
  <2> QED BY <2>1, <2>2, <1>4
<1>6. G = [n \in Nat |-> IF n < 10 THEN 10 ELSE 10 * G[n \div 10]]
  BY <1>3, <1>5
<1>7. Tens = [n \in Nat |-> IF n < 10 THEN 10 ELSE 10 * Tens[n \div 10]]
  BY <1>6, Zenon DEF Tens
<1> QED
  BY <1>7

\* A power of ten is positive.
LEMMA TensPositive ==
  ASSUME NEW n \in Nat
  PROVE  Tens[n] \in Nat /\ Tens[n] > 0
<1> DEFINE B == {m \in Nat : ~(Tens[m] \in Nat /\ Tens[m] > 0)}
<1> SUFFICES ASSUME B # {} PROVE FALSE
  OBVIOUS
<1>1. PICK m \in B : \A j \in B : m <= j
  <2> HIDE DEF B
  <2>1. B \in SUBSET Nat
    BY DEF B
  <2> QED BY <2>1, LeastNatural
<1>2. ~(m < 10)
  BY <1>1, TensDef
<1>3. Tens[m \div 10] \in Nat /\ Tens[m \div 10] > 0
  BY <1>1, <1>2, Tenth
<1>4. Tens[m] = 10 * Tens[m \div 10]
  BY <1>1, <1>2, TensDef
<1> QED
  BY <1>1, <1>3, <1>4

\* Multiplying by a positive number keeps the order, both ways.
LEMMA TimesOrder ==
  ASSUME NEW a \in Nat, NEW b \in Nat, NEW c \in Nat, c > 0
  PROVE  /\ a * c \in Nat /\ b * c \in Nat
         /\ a <= b <=> a * c <= b * c
         /\ a = b <=> a * c = b * c
<1>0. a * c \in Nat /\ b * c \in Nat
  OBVIOUS
<1>1. ASSUME NEW x \in Nat, NEW y \in Nat, x < y PROVE x * c < y * c
  <2>1. PICK d \in Nat : y = x + 1 + d
    <3>1. y - x - 1 \in Nat /\ y = x + 1 + (y - x - 1)
      BY <1>1
    <3> QED BY <3>1
  <2>2. (x + 1 + d) * c = x * c + c + d * c /\ d * c \in Nat /\ x * c \in Nat
    OBVIOUS
  <2> QED BY <2>1, <2>2
<1>2. a < b \/ a = b \/ b < a
  OBVIOUS
<1>3. a < b => a * c < b * c
  BY <1>1
<1>4. b < a => b * c < a * c
  BY <1>1
<1> DEFINE x == a * c
           y == b * c
<1>5. x \in Nat /\ y \in Nat /\ (a < b => x < y) /\ (b < a => y < x) /\ (a = b => x = y)
  BY <1>0, <1>3, <1>4
<1> HIDE DEF x, y
<1>6. (a <= b <=> x <= y) /\ (a = b <=> x = y)
  BY <1>2, <1>5
<1> QED BY <1>5, <1>6 DEF x, y

\* Fractions r/p, s/q and t/u in order.
LEMMA CrossOrder ==
  ASSUME NEW r \in Nat, NEW s \in Nat, NEW t \in Nat,
         NEW p \in Nat, NEW q \in Nat, NEW u \in Nat, p > 0, q > 0, u > 0,
         r * q <= s * p, s * u <= t * q
  PROVE  /\ r * u <= t * p
         /\ r * u = t * p => r * q = s * p /\ s * u = t * q
<1> DEFINE rq == r * q
           sp == s * p
           su == s * u
           tq == t * q
           ru == r * u
           tp == t * p
           A == rq * u
           B == sp * u
           C == tq * p
<1>1. rq \in Nat /\ sp \in Nat /\ su \in Nat /\ tq \in Nat /\ ru \in Nat /\ tp \in Nat
  OBVIOUS
<1>2. A = ru * q /\ B = su * p /\ C = tp * q
  OBVIOUS
<1>3. rq <= sp /\ su <= tq
  OBVIOUS
<1> HIDE DEF rq, sp, su, tq, ru, tp
<1>4. A <= B /\ A \in Nat /\ B \in Nat /\ (rq = sp <=> A = B)
  BY <1>1, <1>3, TimesOrder
<1>5. su * p <= tq * p /\ C \in Nat /\ (su = tq <=> su * p = tq * p)
  BY <1>1, <1>3, TimesOrder
<1>6. (ru <= tp <=> ru * q <= tp * q) /\ (ru = tp <=> ru * q = tp * q)
  BY <1>1, TimesOrder
<1>7. B <= C /\ (su = tq <=> B = C) /\ (ru <= tp <=> A <= C) /\ (ru = tp <=> A = C)
  BY <1>2, <1>5, <1>6
<1> HIDE DEF A, B, C
<1>8. ru <= tp /\ (ru = tp => rq = sp /\ su = tq)
  BY <1>4, <1>5, <1>7
<1> QED BY <1>8 DEF rq, sp, su, tq, ru, tp

\* The text order of the keys is a strict total order, for rounds of any length.
LEMMA KeyOrder ==
  ASSUME NEW r \in Nat, NEW s \in Nat, NEW t \in Nat
  PROVE  /\ ~KeyBefore(r, r)
         /\ KeyBefore(r, s) /\ KeyBefore(s, t) => KeyBefore(r, t)
         /\ r # s => KeyBefore(r, s) \/ KeyBefore(s, r)
<1> DEFINE p == Tens[r]
           q == Tens[s]
           u == Tens[t]
<1>1. p \in Nat /\ p > 0 /\ q \in Nat /\ q > 0 /\ u \in Nat /\ u > 0
  BY TensPositive
<1>2. /\ KeyBefore(r, r) <=> r * p < r * p \/ (r * p = r * p /\ r < r)
      /\ KeyBefore(r, s) <=> r * q < s * p \/ (r * q = s * p /\ r < s)
      /\ KeyBefore(s, r) <=> s * p < r * q \/ (s * p = r * q /\ s < r)
      /\ KeyBefore(s, t) <=> s * u < t * q \/ (s * u = t * q /\ s < t)
      /\ KeyBefore(r, t) <=> r * u < t * p \/ (r * u = t * p /\ r < t)
  BY DEF KeyBefore
<1> HIDE DEF p, q, u
<1>3. /\ r * p \in Nat /\ r * q \in Nat /\ s * p \in Nat
      /\ s * u \in Nat /\ t * q \in Nat /\ r * u \in Nat /\ t * p \in Nat
  BY <1>1
<1>4. r * q <= s * p /\ s * u <= t * q =>
        r * u <= t * p /\ (r * u = t * p => r * q = s * p /\ s * u = t * q)
  BY <1>1, CrossOrder
<1> DEFINE rp == r * p
           rq == r * q
           sp == s * p
           su == s * u
           tq == t * q
           ru == r * u
           tp == t * p
<1>5. /\ rp \in Nat /\ rq \in Nat /\ sp \in Nat /\ su \in Nat /\ tq \in Nat /\ ru \in Nat /\ tp \in Nat
      /\ KeyBefore(r, r) <=> rp < rp \/ r < r
      /\ KeyBefore(r, s) <=> rq < sp \/ (rq = sp /\ r < s)
      /\ KeyBefore(s, r) <=> sp < rq \/ (sp = rq /\ s < r)
      /\ KeyBefore(s, t) <=> su < tq \/ (su = tq /\ s < t)
      /\ KeyBefore(r, t) <=> ru < tp \/ (ru = tp /\ r < t)
      /\ rq <= sp /\ su <= tq => ru <= tp /\ (ru = tp => rq = sp /\ su = tq)
  BY <1>2, <1>3, <1>4
<1> HIDE DEF rp, rq, sp, su, tq, ru, tp
<1> QED
  BY <1>5

\* The rounds of a page: the whole rest when it is the last one, and otherwise
\* a part that comes before what is left.
LEMMA PageIsPrefix ==
  ASSUME NEW rest \in SUBSET (0 .. LastRound)
  PROVE  LET page == {r \in rest : Cardinality({s \in rest : KeyBefore(s, r)}) < PageSize}
         IN  /\ LastPage(rest) => page = rest
             /\ \A r \in page, m \in rest \ page : KeyBefore(r, m)
<1> DEFINE before(r) == {s \in rest : KeyBefore(s, r)}
           page == {r \in rest : Cardinality(before(r)) < PageSize}
<1>0. IsFiniteSet(rest) /\ Cardinality(rest) \in Nat /\ PageSize \in Nat
  <2>1. IsFiniteSet(0 .. LastRound)
    <3>1. 0 \in Int /\ LastRound \in Int
      BY StoreAssumption DEF LastRound
    <3> QED
      BY <3>1, FS_Interval, Zenon
  <2> QED
    BY <2>1, FS_Subset, FS_CardinalityType, StoreAssumption
<1>1. ASSUME NEW r \in rest
      PROVE  /\ IsFiniteSet(before(r)) /\ Cardinality(before(r)) \in Nat
             /\ Cardinality(before(r)) < Cardinality(rest)
  <2>1. before(r) \in SUBSET rest /\ r \notin before(r)
    BY KeyOrder
  <2>2. IsFiniteSet(before(r)) /\ Cardinality(before(r)) <= Cardinality(rest)
        /\ (Cardinality(rest) = Cardinality(before(r)) => rest = before(r))
    BY <1>0, <2>1, FS_Subset
  <2>3. Cardinality(before(r)) \in Nat
    BY <2>2, FS_CardinalityType
  <2> QED
    BY <1>0, <2>1, <2>2, <2>3
<1>2. ASSUME LastPage(rest) PROVE page = rest
  <2>1. \A r \in rest : Cardinality(before(r)) < PageSize
    BY <1>0, <1>1, <1>2 DEF LastPage
  <2> QED
    BY <2>1
<1>3. ASSUME NEW r \in page, NEW m \in rest \ page PROVE KeyBefore(r, m)
  <2> SUFFICES ASSUME ~KeyBefore(r, m) PROVE FALSE
    OBVIOUS
  <2>1. r \in rest /\ m \in rest /\ r \in Nat /\ m \in Nat /\ r # m
    BY <1>3
  <2>2. KeyBefore(m, r)
    BY <2>1, KeyOrder
  <2>3. ASSUME NEW s \in before(m) PROVE s \in before(r)
    <3>1. s \in Nat /\ s \in rest /\ KeyBefore(s, m)
      BY <2>3
    <3> QED
      BY <2>1, <2>2, <3>1, KeyOrder
  <2>4. Cardinality(before(m)) <= Cardinality(before(r))
    <3>1. before(m) \in SUBSET before(r)
      BY <2>3
    <3> HIDE DEF before
    <3> QED
      BY <1>1, <2>1, <3>1, FS_Subset
  <2>5. Cardinality(before(r)) < PageSize /\ ~(Cardinality(before(m)) < PageSize)
    BY <1>3
  <2> QED
    BY <1>0, <1>1, <2>1, <2>4, <2>5
<1> QED
  BY <1>2, <1>3

-----------------------------------------------------------------------------
Loading == [stage : {"idle", "query", "page", "read", "done"}, target : Nat,
            listed : SUBSET Nat, answer : Int, right : SUBSET Int]

LEMMA StoreConstants ==
  /\ FirstRound \in Nat /\ FirstRound >= 1 /\ MaxModel \in Nat /\ LastRound = FirstRound + MaxModel /\ LastRound \in Nat
  /\ Latest = 0 /\ NoCheckpoint \in Int /\ MalformedCheckpoint \in Int /\ BackendError \in Int
BY StoreAssumption DEF LastRound, Latest, NoCheckpoint, MalformedCheckpoint, BackendError

\* What becomes of a load when the files change.
LEMMA BecomesEffect ==
  ASSUME StoreRangeInv, NEW files, Becomes(files), Answer(loading.target, files) \in Int
  PROVE  /\ held' = files /\ loading' \in Loading
         /\ loading'.stage = loading.stage /\ loading'.target = loading.target
         /\ loading'.listed = loading.listed /\ loading'.answer = loading.answer
         /\ loading'.right = IF loading.stage \in {"idle", "done"} THEN loading.right
                             ELSE loading.right \cup {Answer(loading.target, files)}
<1>1. loading \in Loading
  BY DEF StoreRangeInv, Loading
<1> QED
  BY <1>1 DEF Becomes, Loading

\* A load that is over.
LEMMA AnsweredEffect ==
  ASSUME StoreRangeInv, NEW a \in Int, Answered(a)
  PROVE  /\ loading' \in Loading
         /\ loading'.stage = "done" /\ loading'.answer = a /\ loading'.right = loading.right
<1>1. loading \in Loading
  BY DEF StoreRangeInv, Loading
<1> QED
  BY <1>1 DEF Answered, Loading

\* A load that goes on to another stage or another page.
LEMMA LoadProceeds ==
  ASSUME StoreRangeInv, NEW st \in {"page", "read"}, NEW ls \in SUBSET Nat,
         loading' = [loading EXCEPT !.stage = st, !.listed = ls]
  PROVE  /\ loading' \in Loading
         /\ loading'.stage = st /\ loading'.listed = ls /\ loading'.target = loading.target
         /\ loading'.answer = loading.answer /\ loading'.right = loading.right
<1>1. loading \in Loading
  BY DEF StoreRangeInv, Loading
<1> QED
  BY <1>1 DEF Loading

\* The load answers that there is no checkpoint, or settles on a round of the
\* listing: the one it was asked for, or the greatest.
LEMMA ChosenEffect ==
  ASSUME StoreRangeInv, NEW rounds \in SUBSET (0 .. LastRound), Chosen(rounds)
  PROVE  /\ loading' \in Loading
         /\ \/ /\ loading.target = Latest => rounds = {}
               /\ loading.target # Latest => loading.target \notin rounds
               /\ loading'.stage = "done" /\ loading'.answer = NoCheckpoint
               /\ loading'.right = loading.right
            \/ \E m \in rounds :
                 /\ IF loading.target = Latest THEN \A r \in rounds : r <= m ELSE m = loading.target
                 /\ loading'.stage = "read" /\ loading'.listed = {m}
                 /\ loading'.target = loading.target /\ loading'.right = loading.right
<1> DEFINE asked == IF loading.target # Latest THEN {loading.target} \cap rounds
                    ELSE IF rounds = {} THEN {} ELSE {Max(rounds)}
<1>1. loading \in Loading
  BY DEF StoreRangeInv, Loading
<1>2. CASE asked = {}
  <2>1. Answered(NoCheckpoint)
    BY <1>2 DEF Chosen
  <2>2. /\ loading.target = Latest => rounds = {}
        /\ loading.target # Latest => loading.target \notin rounds
    BY <1>2
  <2> QED
    BY <2>1, <2>2, AnsweredEffect, StoreConstants
<1>3. CASE asked # {}
  <2>1. PICK m \in rounds :
          /\ asked = {m}
          /\ IF loading.target = Latest THEN \A r \in rounds : r <= m ELSE m = loading.target
    BY <1>3, MaxRound
  <2>2. loading' = [loading EXCEPT !.stage = "read", !.listed = {m}]
    BY <1>3, <2>1 DEF Chosen
  <2>3. {m} \in SUBSET Nat
    BY <2>1
  <2> HIDE DEF asked
  <2>4. /\ loading' \in Loading /\ loading'.stage = "read" /\ loading'.listed = {m}
        /\ loading'.target = loading.target /\ loading'.right = loading.right
    BY <2>2, <2>3, LoadProceeds
  <2> QED
    BY <2>1, <2>4
<1> QED
  BY <1>2, <1>3

-----------------------------------------------------------------------------
\* The initial state has the invariant.
LEMMA InitStoreInv == StoreInit => StoreInv
<1> SUFFICES ASSUME StoreInit PROVE StoreInv
  OBVIOUS
<1>1. /\ saving.stage = "idle" /\ saving = Idle
      /\ loading.stage = "idle" /\ loading = NoLoad
  BY DEF StoreInit, Idle, NoLoad
<1>2. DOMAIN held \subseteq 0 .. LastRound /\ \A r \in DOMAIN held : held[r] = [model |-> 0, whole |-> TRUE]
  <2>1. PICK kept \in {{0}, {FirstRound - 1}, {}} :
          held = [r \in kept |-> [model |-> 0, whole |-> TRUE]]
    BY DEF StoreInit
  <2>2. kept \subseteq 0 .. LastRound
    BY StoreAssumption DEF LastRound
  <2> QED
    BY <2>1, <2>2
<1>3. StoreRangeInv
  BY <1>1, <1>2, StoreConstants DEF StoreInit, StoreRangeInv, Idle, NoLoad
<1>4. WholeInv
  <2>1. DOMAIN tmp = {}
    BY DEF StoreInit
  <2>2. \A r \in DOMAIN held : held[r] \in Blob /\ held[r].whole
    <3>1. LET b == [model |-> 0, whole |-> TRUE] IN b \in Blob /\ b.whole
      BY DEF Blob
    <3> QED
      BY <1>2, <3>1
  <2> QED
    BY <1>1, <2>1, <2>2 DEF WholeInv
<1>5. LoadInv
  BY <1>1 DEF LoadInv, LoadsAnswerTheStore
<1> QED
  BY <1>3, <1>4, <1>5 DEF StoreInv

-----------------------------------------------------------------------------
\* A checkpoint lands under the round being saved: the files change to these.
Lands(files, blob) ==
  \/ backend = "memory" /\ (files = held \/ files = [s \in {nextRound} |-> blob])
  \/ backend # "memory" /\ files = With(held, nextRound, blob)

LEMMA StoredLands ==
  ASSUME StoreRangeInv, NEW blob
  PROVE  Lands(Stored(nextRound, blob), blob)
BY DEF StoreRangeInv, Stored, Lands

\* The round being saved is within range.
LEMMA SavedRound ==
  ASSUME StoreRangeInv, saving.stage # "idle"
  PROVE  nextRound \in 0 .. LastRound /\ nextRound + 1 <= FirstRound + models
BY StoreConstants DEF StoreRangeInv

\* The files after a checkpoint landed are all whole and in range.
LEMMA LandedFiles ==
  ASSUME StoreRangeInv, WholeInv, saving.stage # "idle",
         NEW blob \in Blob, blob.whole, NEW files, Lands(files, blob)
  PROVE  /\ DOMAIN files \subseteq 0 .. LastRound
         /\ \A r \in DOMAIN files : files[r] \in Blob /\ files[r].whole
         /\ backend # "memory" =>
              /\ DOMAIN files = DOMAIN held \cup {nextRound} /\ files[nextRound] = blob
              /\ \A s \in DOMAIN held : s # nextRound => files[s] = held[s]
<1>1. nextRound \in 0 .. LastRound
  BY SavedRound
<1>2. CASE files = held /\ backend = "memory"
  BY <1>2 DEF StoreRangeInv, WholeInv
<1>3. CASE files = [s \in {nextRound} |-> blob] /\ backend = "memory"
  BY <1>1, <1>3
<1>4. CASE backend # "memory" /\ files = With(held, nextRound, blob)
  <2>1. /\ DOMAIN files = DOMAIN held \cup {nextRound} /\ files[nextRound] = blob
        /\ \A s \in DOMAIN held : s # nextRound => files[s] = held[s]
    BY <1>4 DEF With
  <2>2. DOMAIN files \subseteq 0 .. LastRound
    BY <1>1, <2>1 DEF StoreRangeInv
  <2>3. ASSUME NEW r \in DOMAIN files PROVE files[r] \in Blob /\ files[r].whole
    <3>1. CASE r = nextRound
      BY <2>1, <3>1
    <3>2. CASE r # nextRound
      BY <2>1, <3>2 DEF WholeInv
    <3> QED
      BY <3>1, <3>2
  <2> QED
    BY <2>1, <2>2, <2>3
<1> QED
  BY <1>2, <1>3, <1>4 DEF Lands

\* A load in progress survives a checkpoint landing beside it.
LEMMA LandingKeepsLoads ==
  ASSUME StoreInv, saving.stage # "idle",
         NEW blob \in Blob, blob.whole, NEW files, Lands(files, blob), Becomes(files),
         nextRound' = nextRound \/ nextRound' = nextRound + 1, backend' = backend
  PROVE  LoadInv' /\ loading' \in Loading
<1> USE DEF StoreInv
<1>0. loading \in Loading /\ loading.target \in Nat
  BY DEF StoreRangeInv, Loading
<1>1. /\ DOMAIN files \subseteq 0 .. LastRound
      /\ \A r \in DOMAIN files : files[r] \in Blob /\ files[r].whole
      /\ backend # "memory" =>
           /\ DOMAIN files = DOMAIN held \cup {nextRound} /\ files[nextRound] = blob
           /\ \A s \in DOMAIN held : s # nextRound => files[s] = held[s]
  <2>1. StoreRangeInv /\ WholeInv
    OBVIOUS
  <2> HIDE DEF StoreInv
  <2>2. DOMAIN files \subseteq 0 .. LastRound
    BY <2>1, LandedFiles
  <2>3. \A r \in DOMAIN files : files[r] \in Blob /\ files[r].whole
    BY <2>1, LandedFiles
  <2>4. backend # "memory" =>
          /\ DOMAIN files = DOMAIN held \cup {nextRound} /\ files[nextRound] = blob
          /\ \A s \in DOMAIN held : s # nextRound => files[s] = held[s]
    BY DEF Lands, With
  <2> QED
    BY <2>2, <2>3, <2>4
<1>2. Answer(loading.target, files) \in Int
  BY <1>0, <1>1, AnswerType
<1>3. /\ held' = files /\ loading' \in Loading
      /\ loading'.stage = loading.stage /\ loading'.target = loading.target
      /\ loading'.listed = loading.listed /\ loading'.answer = loading.answer
      /\ loading'.right = IF loading.stage \in {"idle", "done"} THEN loading.right
                          ELSE loading.right \cup {Answer(loading.target, files)}
  BY <1>2, BecomesEffect
<1>4. nextRound \in Nat /\ nextRound' \in Nat /\ nextRound <= nextRound'
  BY DEF StoreRangeInv
<1>5. CASE loading.stage \in {"idle", "done"}
  BY <1>3, <1>5 DEF LoadInv, LoadsAnswerTheStore
<1>6. CASE loading.stage \in {"query", "page", "read"}
  <2>1. loading'.right = loading.right \cup {Answer(loading.target, files)}
    BY <1>3, <1>6
  <2>2. Answer(loading'.target, held') \in loading'.right
    BY <1>3, <2>1
  <2>3. ASSUME loading.stage \in {"page", "read"}, loading.target = Latest,
               NEW r \in DOMAIN files, r # nextRound => held[r].model \in loading.right,
               r = nextRound => \A s \in DOMAIN held : s <= nextRound
        PROVE  files[r].model \in loading'.right
    <3>1. backend # "memory"
      BY <2>3 DEF LoadInv
    <3>2. CASE r # nextRound
      BY <1>1, <2>1, <2>3, <3>1, <3>2
    <3>3. CASE r = nextRound
      <4>1. \A s \in DOMAIN files : s <= nextRound
        BY <1>1, <1>4, <2>3, <3>1, <3>3
      <4>2. nextRound \in DOMAIN files
        BY <2>3, <3>3
      <4>3. Answer(Latest, files) = files[nextRound].model
        BY <1>1, <4>1, <4>2, AnswerNewest
      <4> QED
        BY <2>1, <2>3, <3>3, <4>3
    <3> QED
      BY <3>2, <3>3
  <2>4. ASSUME loading.stage \in {"page", "read"}, NEW m \in DOMAIN held, Floor(m)
        PROVE  Floor(m)' /\ m \in DOMAIN held'
    <3>1. backend # "memory" /\ m \in DOMAIN files /\ m \in Nat
      BY <1>1, <2>4 DEF LoadInv
    <3>2. CASE loading.target # Latest
      BY <1>3, <2>4, <3>1, <3>2 DEF Floor
    <3>3. CASE loading.target = Latest
      <4>1. \A r \in DOMAIN held : (r >= m => held[r].model \in loading.right)
                                   /\ (r <= m \/ r <= nextRound)
        BY <2>4, <3>3 DEF Floor
      <4>2. ASSUME NEW r \in DOMAIN files
            PROVE  (r >= m => files[r].model \in loading'.right) /\ (r <= m \/ r <= nextRound')
        <5>1. r \in Nat /\ \A s \in DOMAIN held : s \in Nat
          BY <1>1, <3>1
        <5>2. CASE r # nextRound
          <6>1. r \in DOMAIN held
            BY <1>1, <3>1, <5>2
          <6> QED
            BY <1>4, <2>3, <2>4, <3>1, <3>3, <4>1, <5>1, <5>2, <6>1
        <5>3. CASE r = nextRound
          <6>1. r >= m => \A s \in DOMAIN held : s <= nextRound
            BY <1>4, <3>1, <4>1, <5>1, <5>3
          <6> QED
            BY <1>4, <2>3, <2>4, <3>3, <5>3, <6>1
        <5> QED
          BY <5>2, <5>3
      <4> QED
        BY <1>3, <3>1, <3>3, <4>2 DEF Floor
    <3> QED
      BY <3>2, <3>3
  <2>5. CASE loading.stage = "query"
    BY <1>3, <2>2, <2>5 DEF LoadInv, LoadsAnswerTheStore
  <2>6. CASE loading.stage = "page"
    <3>1. ListingInv /\ backend = "s3"
      BY <2>6 DEF LoadInv
    <3>2. loading'.listed \subseteq DOMAIN held'
      BY <1>1, <1>3, <3>1 DEF ListingInv
    <3>3. CASE /\ NoCheckpoint \in loading.right
               /\ loading.target = Latest =>
                    \A r \in DOMAIN held : held[r].model \in loading.right /\ r <= nextRound
      <4>1. ASSUME loading.target = Latest, NEW r \in DOMAIN files
            PROVE  files[r].model \in loading'.right /\ r <= nextRound'
        <5>1. r = nextRound \/ r \in DOMAIN held
          BY <1>1, <3>1
        <5>2. \A s \in DOMAIN held : s \in Nat /\ held[s].model \in loading.right /\ s <= nextRound
          BY <3>3, <4>1 DEF StoreRangeInv
        <5>3. files[r].model \in loading'.right
          BY <2>3, <2>6, <4>1, <5>1, <5>2
        <5>4. r <= nextRound'
          BY <1>4, <5>1, <5>2
        <5> QED
          BY <5>3, <5>4
      <4>2. ListingInv'
        BY <1>3, <2>1, <3>2, <3>3, <4>1 DEF ListingInv
      <4> QED
        BY <1>3, <2>2, <2>6, <3>1, <4>2 DEF LoadInv, LoadsAnswerTheStore
    <3>4. CASE \E m \in DOMAIN held :
                 /\ Floor(m)
                 /\ m \in loading.listed \/ \A s \in loading.listed : KeyBefore(s, m)
      <4>1. PICK m \in DOMAIN held :
                 /\ Floor(m)
                 /\ m \in loading.listed \/ \A s \in loading.listed : KeyBefore(s, m)
        BY <3>4
      <4>2. Floor(m)' /\ m \in DOMAIN held'
        BY <2>4, <2>6, <4>1
      <4>3. ListingInv'
        BY <1>3, <3>2, <4>1, <4>2 DEF ListingInv
      <4> QED
        BY <1>3, <2>2, <2>6, <3>1, <4>3 DEF LoadInv, LoadsAnswerTheStore
    <3> QED
      BY <3>1, <3>3, <3>4 DEF ListingInv
  <2>7. CASE loading.stage = "read"
    <3>1. PICK m \in DOMAIN held : loading.listed = {m} /\ Floor(m)
      BY <2>7 DEF LoadInv
    <3>2. Floor(m)' /\ m \in DOMAIN held'
      BY <2>4, <2>7, <3>1
    <3>3. backend' \in {"file", "s3"}
      BY <2>7 DEF LoadInv
    <3> QED
      BY <1>3, <2>2, <2>7, <3>1, <3>2, <3>3 DEF LoadInv, LoadsAnswerTheStore
  <2> QED
    BY <1>3, <1>6, <2>5, <2>6, <2>7
<1> QED
  BY <1>0, <1>5, <1>6 DEF Loading

-----------------------------------------------------------------------------
\* The loads do not see a step that changes neither files nor load.
LEMMA QuietLoads ==
  ASSUME LoadInv, UNCHANGED <<backend, held, nextRound, loading>>
  PROVE  LoadInv'
BY DEF LoadInv, ListingInv, Floor, LoadsAnswerTheStore, Answer

\* A save begins.
LEMMA BeginSaveStep ==
  ASSUME StoreInv, BeginSave
  PROVE  StoreInv'
<1> USE DEF StoreInv
<1>1. saving' \in [stage : {"put", "create"}, model : Nat] /\ saving'.stage # "idle"
  BY DEF BeginSave, FirstWrite, StoreRangeInv
<1>2. saving'.stage = "create" => backend = "file"
  BY DEF BeginSave, FirstWrite
<1>3. saving' \in [stage : {"idle", "put", "create", "write", "rename"}, model : Nat]
  BY <1>1
<1>4. models' = models + 1 /\ models < MaxModel /\ saving.stage = "idle"
      /\ UNCHANGED <<backend, held, tmp, nextRound, loading>>
  BY DEF BeginSave
<1>5. StoreRangeInv'
  BY <1>1, <1>3, <1>4, StoreConstants DEF StoreRangeInv
<1>6. WholeInv'
  BY <1>1, <1>2, <1>4 DEF WholeInv
<1> QED
  BY <1>4, <1>5, <1>6, QuietLoads

\* FileStore's temporary file is created, and then filled.
LEMMA TmpStep ==
  ASSUME StoreInv, CreateTmp \/ WriteTmp
  PROVE  StoreInv'
<1> USE DEF StoreInv
<1>1. CASE CreateTmp
  <2>1. /\ saving' = [saving EXCEPT !.stage = "write"] /\ saving.stage = "create"
        /\ UNCHANGED <<backend, held, nextRound, loading, models>>
    BY <1>1 DEF CreateTmp
  <2>2. saving' \in [stage : {"idle", "put", "create", "write", "rename"}, model : Nat]
        /\ saving'.stage = "write"
    BY <2>1 DEF StoreRangeInv
  <2>3. StoreRangeInv'
    BY <2>1, <2>2 DEF StoreRangeInv
  <2>4. /\ nextRound \in DOMAIN tmp' /\ \A r \in DOMAIN tmp' : tmp'[r] \in Blob
    <3>1. [model |-> saving.model, whole |-> FALSE] \in Blob
      BY DEF StoreRangeInv, Blob
    <3> QED
      BY <1>1, <3>1 DEF CreateTmp, With, WholeInv
  <2>5. WholeInv'
    BY <2>1, <2>2, <2>4 DEF WholeInv
  <2> QED
    BY <2>1, <2>3, <2>5, QuietLoads
<1>2. CASE WriteTmp
  <2>1. /\ saving' = [saving EXCEPT !.stage = "rename"] /\ saving.stage = "write"
        /\ UNCHANGED <<backend, held, nextRound, loading, models>>
    BY <1>2 DEF WriteTmp
  <2>2. saving' \in [stage : {"idle", "put", "create", "write", "rename"}, model : Nat]
        /\ saving'.stage = "rename"
    BY <2>1 DEF StoreRangeInv
  <2>3. StoreRangeInv'
    BY <2>1, <2>2 DEF StoreRangeInv
  <2>4. /\ nextRound \in DOMAIN tmp' /\ tmp'[nextRound].whole
        /\ \A r \in DOMAIN tmp' : tmp'[r] \in Blob
    <3>1. nextRound \in DOMAIN tmp /\ \A r \in DOMAIN tmp : tmp[r] \in Blob
      BY <2>1 DEF WholeInv
    <3>2. tmp' = [tmp EXCEPT ![nextRound] = [tmp[nextRound] EXCEPT !.whole = TRUE]]
      BY <1>2 DEF WriteTmp
    <3>3. LET b == [tmp[nextRound] EXCEPT !.whole = TRUE] IN b \in Blob /\ b.whole
      BY <3>1 DEF Blob
    <3> QED
      BY <3>1, <3>2, <3>3
  <2>5. WholeInv'
    BY <2>1, <2>2, <2>4 DEF WholeInv
  <2> QED
    BY <2>1, <2>3, <2>5, QuietLoads
<1> QED
  BY <1>1, <1>2

\* A checkpoint lands and the save returns, or its answer is lost.
LEMMA LandingStep ==
  ASSUME StoreInv, saving.stage # "idle", saving' = Idle,
         NEW blob \in Blob, blob.whole, NEW files, Lands(files, blob), Becomes(files),
         nextRound' = nextRound \/ nextRound' = nextRound + 1,
         UNCHANGED <<backend, models>>, \A r \in DOMAIN tmp' : tmp'[r] \in Blob
  PROVE  StoreInv'
<1>1. LoadInv' /\ loading' \in Loading
  BY LandingKeepsLoads
<1>2. StoreRangeInv /\ WholeInv
  BY DEF StoreInv
<1>3. held' = files
  BY DEF Becomes
<1>4. DOMAIN files \subseteq 0 .. LastRound /\ \A r \in DOMAIN files : files[r] \in Blob /\ files[r].whole
  BY <1>2, LandedFiles
<1>5. saving' \in [stage : {"idle", "put", "create", "write", "rename"}, model : Nat]
      /\ saving'.stage = "idle"
  BY DEF Idle
<1>6. StoreRangeInv'
  BY <1>1, <1>2, <1>3, <1>4, <1>5, SavedRound, StoreConstants DEF StoreRangeInv, Loading
<1>7. WholeInv'
  BY <1>3, <1>4, <1>5 DEF WholeInv
<1> QED
  BY <1>1, <1>6, <1>7 DEF StoreInv

LEMMA PutStep ==
  ASSUME StoreInv, Put \/ RenameTmp
  PROVE  StoreInv'
<1>1. CASE Put
  <2> DEFINE blob == [model |-> saving.model, whole |-> TRUE]
  <2>1. blob \in Blob /\ blob.whole
    BY DEF StoreInv, StoreRangeInv, Blob
  <2>2. Lands(Stored(nextRound, blob), blob)
    BY StoredLands DEF StoreInv
  <2>3. /\ Becomes(Stored(nextRound, blob)) /\ saving' = Idle /\ nextRound' = nextRound + 1
        /\ UNCHANGED <<backend, tmp, models>> /\ saving.stage # "idle"
    BY <1>1 DEF Put, SaveReturns
  <2>4. \A r \in DOMAIN tmp' : tmp'[r] \in Blob
    BY <2>3 DEF StoreInv, WholeInv
  <2> HIDE DEF blob
  <2> QED
    BY <2>1, <2>2, <2>3, <2>4, LandingStep
<1>2. CASE RenameTmp
  <2> DEFINE blob == tmp[nextRound]
             files == With(held, nextRound, blob)
  <2>1. blob \in Blob /\ blob.whole /\ backend = "file"
    BY <1>2 DEF StoreInv, WholeInv, RenameTmp
  <2>2. Lands(files, blob)
    BY <2>1 DEF Lands
  <2>3. /\ Becomes(files) /\ saving' = Idle /\ nextRound' = nextRound + 1
        /\ UNCHANGED <<backend, models>> /\ saving.stage # "idle"
    BY <1>2 DEF RenameTmp, SaveReturns
  <2>4. \A r \in DOMAIN tmp' : tmp'[r] \in Blob
    BY <1>2 DEF StoreInv, WholeInv, RenameTmp
  <2> HIDE DEF blob, files
  <2> QED
    BY <2>1, <2>2, <2>3, <2>4, LandingStep
<1> QED
  BY <1>1, <1>2

\* A save that fails, whether or not its checkpoint landed.
LEMMA SaveFailsStep ==
  ASSUME StoreInv, SaveFails
  PROVE  StoreInv'
<1>1. CASE UNCHANGED <<held, loading>>
  <2>1. /\ saving' = Idle /\ saving.stage # "idle"
        /\ UNCHANGED <<backend, tmp, nextRound, models, held, loading>>
    BY <1>1 DEF SaveFails
  <2>2. saving' \in [stage : {"idle", "put", "create", "write", "rename"}, model : Nat]
        /\ saving'.stage = "idle"
    BY <2>1 DEF Idle
  <2>3. StoreRangeInv'
    BY <2>1, <2>2, StoreConstants DEF StoreInv, StoreRangeInv
  <2>4. WholeInv'
    BY <2>1, <2>2 DEF StoreInv, WholeInv
  <2> QED
    BY <2>1, <2>3, <2>4, QuietLoads DEF StoreInv
<1>2. CASE /\ saving.stage = "put"
           /\ Becomes(Stored(nextRound, [model |-> saving.model, whole |-> TRUE]))
  <2> DEFINE blob == [model |-> saving.model, whole |-> TRUE]
  <2>1. blob \in Blob /\ blob.whole
    BY DEF StoreInv, StoreRangeInv, Blob
  <2>2. Lands(Stored(nextRound, blob), blob)
    BY StoredLands DEF StoreInv
  <2>3. /\ Becomes(Stored(nextRound, blob)) /\ saving' = Idle /\ nextRound' = nextRound
        /\ UNCHANGED <<backend, tmp, models>> /\ saving.stage # "idle"
    BY <1>2 DEF SaveFails
  <2>4. \A r \in DOMAIN tmp' : tmp'[r] \in Blob
    BY <2>3 DEF StoreInv, WholeInv
  <2> HIDE DEF blob
  <2> QED
    BY <2>1, <2>2, <2>3, <2>4, LandingStep
<1> QED
  BY <1>1, <1>2 DEF SaveFails

-----------------------------------------------------------------------------
\* A step of a load leaves the files and the save alone.
LEMMA LoadOnly ==
  ASSUME StoreInv, UNCHANGED <<backend, held, tmp, nextRound, saving, models>>,
         loading' \in Loading, LoadInv'
  PROVE  StoreInv'
<1>1. StoreRangeInv'
  BY DEF StoreInv, StoreRangeInv, Loading
<1>2. WholeInv'
  BY DEF StoreInv, WholeInv
<1> QED
  BY <1>1, <1>2 DEF StoreInv

\* The greatest of the files is a floor.
LEMMA FloorAtMax ==
  ASSUME DOMAIN held \subseteq 0 .. LastRound, NEW m \in DOMAIN held, \A r \in DOMAIN held : r <= m,
         Answer(Latest, held) \in loading.right
  PROVE  loading.target = Latest => Floor(m)
<1>1. held[m].model \in loading.right
  BY AnswerNewest
<1> QED
  BY <1>1 DEF Floor

\* A load begins.
LEMMA BeginLoadStep ==
  ASSUME StoreInv, NEW target \in {Latest, FirstRound}, BeginLoad(target)
  PROVE  StoreInv'
<1>1. UNCHANGED <<backend, held, tmp, nextRound, saving, models>>
  BY DEF BeginLoad
<1>2. target \in Nat
  BY StoreConstants
<1>3. DOMAIN held \subseteq 0 .. LastRound /\ Answer(target, held) \in Int
  BY <1>2, AnswerType DEF StoreInv, StoreRangeInv, WholeInv
<1>4. /\ loading' \in Loading /\ loading'.target = target /\ loading'.listed = {}
      /\ loading'.right = {Answer(target, held)}
      /\ loading'.stage = IF backend = "s3" THEN "page" ELSE "query"
  BY <1>2, <1>3 DEF BeginLoad, Loading
<1>5. CASE backend # "s3"
  BY <1>1, <1>4, <1>5, LoadOnly DEF LoadInv, LoadsAnswerTheStore
<1>6. CASE backend = "s3"
  <2>1. ListingInv'
    <3>1. CASE target = Latest /\ DOMAIN held = {}
      BY <1>1, <1>2, <1>3, <1>4, <3>1, AnswerCases DEF ListingInv
    <3>2. CASE target = Latest /\ DOMAIN held # {}
      <4>1. PICK m \in DOMAIN held : \A r \in DOMAIN held : r <= m
        BY <1>3, <3>2, MaxRound
      <4>2. held[m].model = Answer(target, held)
        BY <1>3, <3>2, <4>1, AnswerNewest
      <4>3. \A r \in DOMAIN held : r >= m => r = m
        BY <1>3, <4>1
      <4>4. Floor(m)'
        BY <1>1, <1>4, <3>2, <4>1, <4>2, <4>3 DEF Floor
      <4> QED
        BY <1>1, <1>4, <4>4 DEF ListingInv
    <3>3. CASE target # Latest /\ target \notin DOMAIN held
      BY <1>1, <1>2, <1>3, <1>4, <3>3, AnswerCases DEF ListingInv
    <3>4. CASE target # Latest /\ target \in DOMAIN held
      BY <1>1, <1>4, <3>4 DEF ListingInv, Floor
    <3> QED
      BY <3>1, <3>2, <3>3, <3>4
  <2> QED
    BY <1>1, <1>4, <1>6, <2>1, LoadOnly DEF LoadInv, LoadsAnswerTheStore
<1> QED
  BY <1>5, <1>6

\* A load that ends with an answer the store could have given, or an error.
LEMMA AnsweredStep ==
  ASSUME StoreInv, NEW a \in Int, Answered(a), a \in loading.right \cup {BackendError},
         UNCHANGED <<backend, held, tmp, nextRound, saving, models>>
  PROVE  StoreInv'
<1>1. /\ loading' \in Loading
      /\ loading'.stage = "done" /\ loading'.answer = a /\ loading'.right = loading.right
  BY AnsweredEffect DEF StoreInv
<1>2. LoadInv'
  BY <1>1 DEF LoadInv, LoadsAnswerTheStore
<1> QED
  BY <1>1, <1>2, LoadOnly

\* A load that settles on a round: there is nothing to find, or its floor is there.
LEMMA ChosenStep ==
  ASSUME StoreInv, backend \in {"file", "s3"}, loading.stage \in {"query", "page"},
         NEW rounds \in SUBSET DOMAIN held, Chosen(rounds),
         UNCHANGED <<backend, held, tmp, nextRound, saving, models>>,
         \/ NoCheckpoint \in loading.right
         \/ IF loading.target = Latest THEN rounds # {} ELSE loading.target \in rounds,
         ASSUME NEW m \in rounds, loading.target = Latest, \A r \in rounds : r <= m
         PROVE  Floor(m)
  PROVE  StoreInv'
<1>1. StoreRangeInv /\ rounds \in SUBSET (0 .. LastRound)
  BY DEF StoreInv, StoreRangeInv
<1>2. loading' \in Loading
  BY <1>1, ChosenEffect
<1>3. CASE /\ loading.target = Latest => rounds = {}
           /\ loading.target # Latest => loading.target \notin rounds
           /\ loading'.stage = "done" /\ loading'.answer = NoCheckpoint
           /\ loading'.right = loading.right
  <2>1. NoCheckpoint \in loading.right
    BY <1>3
  <2>2. LoadInv'
    BY <1>3, <2>1 DEF LoadInv, LoadsAnswerTheStore
  <2> QED
    BY <1>2, <2>2, LoadOnly
<1>4. CASE \E m \in rounds :
             /\ IF loading.target = Latest THEN \A r \in rounds : r <= m ELSE m = loading.target
             /\ loading'.stage = "read" /\ loading'.listed = {m}
             /\ loading'.target = loading.target /\ loading'.right = loading.right
  <2>1. PICK m \in rounds :
             /\ IF loading.target = Latest THEN \A r \in rounds : r <= m ELSE m = loading.target
             /\ loading'.stage = "read" /\ loading'.listed = {m}
             /\ loading'.target = loading.target /\ loading'.right = loading.right
    BY <1>4
  <2>2. Floor(m)
    BY <2>1 DEF Floor
  <2>3. Floor(m)'
    BY <2>1, <2>2 DEF Floor
  <2>4. Answer(loading'.target, held') \in loading'.right
    BY <2>1 DEF StoreInv, LoadInv
  <2>5. LoadInv'
    BY <2>1, <2>3, <2>4 DEF LoadInv, LoadsAnswerTheStore
  <2> QED
    BY <1>2, <2>5, LoadOnly
<1> QED
  BY <1>1, <1>3, <1>4, ChosenEffect

\* The one-step answer, and FileStore's scan of its directory.
LEMMA QueryStep ==
  ASSUME StoreInv, Query
  PROVE  StoreInv'
<1>1. /\ UNCHANGED <<backend, held, tmp, nextRound, saving, models>>
      /\ loading.stage = "query" /\ Answer(loading.target, held) \in loading.right
  BY DEF Query, StoreInv, LoadInv
<1>2. DOMAIN held \subseteq 0 .. LastRound /\ loading.target \in Nat /\ Answer(loading.target, held) \in Int
  BY AnswerType DEF StoreInv, StoreRangeInv, WholeInv
<1>3. CASE Answered(Answer(loading.target, held))
  BY <1>1, <1>2, <1>3, AnsweredStep
<1>4. CASE backend = "file" /\ Chosen(DOMAIN held)
  <2>1. \/ NoCheckpoint \in loading.right
        \/ IF loading.target = Latest THEN DOMAIN held # {} ELSE loading.target \in DOMAIN held
    BY <1>1, <1>2, AnswerCases
  <2>2. ASSUME NEW m \in DOMAIN held, loading.target = Latest, \A r \in DOMAIN held : r <= m
        PROVE  Floor(m)
    BY <1>1, <1>2, <2>2, FloorAtMax
  <2> QED
    BY <1>1, <1>4, <2>1, <2>2, ChosenStep
<1> QED
  BY <1>3, <1>4 DEF Query

\* A page of an S3 listing, the last one or not.
LEMMA ListPageStep ==
  ASSUME StoreInv, ListPage
  PROVE  StoreInv'
<1> DEFINE rest == {r \in DOMAIN held : \A s \in loading.listed : KeyBefore(s, r)}
           page == {r \in rest : Cardinality({s \in rest : KeyBefore(s, r)}) < PageSize}
<1>1. /\ UNCHANGED <<backend, held, tmp, nextRound, saving, models>>
      /\ loading.stage = "page" /\ backend = "s3" /\ ListingInv
      /\ Answer(loading.target, held) \in loading.right
  BY DEF ListPage, StoreInv, LoadInv
<1>2. DOMAIN held \subseteq 0 .. LastRound /\ loading.listed \subseteq DOMAIN held /\ loading \in Loading
  BY <1>1 DEF StoreInv, StoreRangeInv, ListingInv, Loading
<1>3. /\ rest \in SUBSET (0 .. LastRound) /\ page \subseteq rest
      /\ loading.listed \cup page \subseteq DOMAIN held
  BY <1>2
<1>4. (LastPage(rest) => page = rest) /\ \A r \in page, m \in rest \ page : KeyBefore(r, m)
  BY <1>3, PageIsPrefix
<1>5. \/ LastPage(rest) /\ Chosen(loading.listed \cup page)
      \/ ~LastPage(rest) /\ loading' = [loading EXCEPT !.listed = loading.listed \cup page]
  BY DEF ListPage
<1>6. \A m \in DOMAIN held : m \in rest <=> \A s \in loading.listed : KeyBefore(s, m)
  OBVIOUS
<1>7. \/ /\ NoCheckpoint \in loading.right
         /\ loading.target = Latest =>
              \A r \in DOMAIN held : held[r].model \in loading.right /\ r <= nextRound
      \/ \E m \in DOMAIN held : Floor(m) /\ (m \in loading.listed \/ m \in rest)
  BY <1>1, <1>6 DEF ListingInv
<1> HIDE DEF rest, page
<1>8. CASE LastPage(rest) /\ Chosen(loading.listed \cup page)
  <2> DEFINE rounds == loading.listed \cup page
  <2>1. rounds = loading.listed \cup rest /\ rounds \in SUBSET DOMAIN held
    BY <1>3, <1>4, <1>8
  <2>2. \/ NoCheckpoint \in loading.right
        \/ IF loading.target = Latest THEN rounds # {} ELSE loading.target \in rounds
    BY <1>7, <2>1 DEF Floor
  <2>3. ASSUME NEW m \in rounds, loading.target = Latest, \A r \in rounds : r <= m
        PROVE  Floor(m)
    <3>1. CASE \A r \in DOMAIN held : held[r].model \in loading.right /\ r <= nextRound
      BY <2>3, <3>1 DEF Floor
    <3>2. CASE \E f \in DOMAIN held : Floor(f) /\ (f \in loading.listed \/ f \in rest)
      <4>1. PICK f \in DOMAIN held : Floor(f) /\ f \in rounds
        BY <2>1, <3>2
      <4>2. f <= m /\ m \in DOMAIN held
        BY <2>1, <2>3, <4>1
      <4>3. f \in Nat /\ m \in Nat /\ nextRound \in Nat /\ \A r \in DOMAIN held : r \in Nat
        BY <1>2, <4>2 DEF StoreInv, StoreRangeInv
      <4> QED
        BY <2>3, <4>1, <4>2, <4>3 DEF Floor
    <3> QED
      BY <1>7, <2>3, <3>1, <3>2
  <2>4. backend \in {"file", "s3"} /\ loading.stage \in {"query", "page"} /\ Chosen(rounds)
    BY <1>1, <1>8
  <2> HIDE DEF rounds
  <2> QED
    BY <1>1, <2>1, <2>2, <2>3, <2>4, ChosenStep
<1>9. CASE loading' = [loading EXCEPT !.listed = loading.listed \cup page]
  <2>1. loading.listed \cup page \in SUBSET Nat
    BY <1>2, <1>3
  <2>2. /\ loading' \in Loading /\ loading'.stage = "page"
        /\ loading'.listed = loading.listed \cup page /\ loading'.target = loading.target
        /\ loading'.right = loading.right
    BY <1>1, <1>2, <1>9, <2>1 DEF Loading
  <2>3. ASSUME NEW m \in DOMAIN held, Floor(m) PROVE Floor(m)'
    BY <1>1, <2>2, <2>3 DEF Floor
  <2>4. ASSUME NEW m \in DOMAIN held, m \in loading.listed \/ m \in rest
        PROVE  m \in loading'.listed \/ \A s \in loading'.listed : KeyBefore(s, m)
    <3>1. CASE m \in rest /\ m \notin page
      BY <1>4, <2>2, <3>1 DEF rest
    <3>2. CASE m \in page \/ m \in loading.listed
      BY <2>2, <3>2
    <3> QED
      BY <2>4, <3>1, <3>2
  <2>5. ListingInv'
    BY <1>1, <1>3, <1>7, <2>2, <2>3, <2>4 DEF ListingInv
  <2>6. LoadInv'
    BY <1>1, <2>2, <2>5 DEF LoadInv, LoadsAnswerTheStore
  <2> QED
    BY <1>1, <2>2, <2>6, LoadOnly
<1> QED
  BY <1>5, <1>8, <1>9

\* The file or object is fetched, or something fails.
LEMMA ReadStep ==
  ASSUME StoreInv, ReadBlob \/ LoadFails
  PROVE  StoreInv'
<1>1. CASE ReadBlob
  <2>1. PICK m \in DOMAIN held : loading.listed = {m} /\ Floor(m)
    BY <1>1 DEF ReadBlob, StoreInv, LoadInv
  <2>2. m \in Nat /\ DOMAIN held \subseteq 0 .. LastRound /\ held[m].whole /\ held[m].model \in Int
    BY DEF StoreInv, StoreRangeInv, WholeInv, Blob
  <2>3. Max(loading.listed) = m
    BY <2>1, <2>2, MaxOfOne
  <2>4. Answered(held[m].model)
    BY <1>1, <2>2, <2>3 DEF ReadBlob
  <2>5. held[m].model \in loading.right
    <3>1. CASE loading.target = Latest
      BY <2>1, <2>2, <3>1 DEF Floor
    <3>2. CASE loading.target # Latest
      <4>1. Answer(loading.target, held) \in loading.right
        BY <1>1 DEF ReadBlob, StoreInv, LoadInv
      <4> QED
        BY <2>1, <2>2, <3>2, <4>1, AnswerCases DEF Floor
    <3> QED
      BY <3>1, <3>2
  <2> QED
    BY <1>1, <2>2, <2>4, <2>5, AnsweredStep DEF ReadBlob
<1>2. CASE LoadFails
  BY <1>2, AnsweredStep, StoreConstants DEF LoadFails
<1> QED
  BY <1>1, <1>2

\* The server dies.
LEMMA StoreCrashStep ==
  ASSUME StoreInv, StoreCrash
  PROVE  StoreInv'
<1>1. /\ saving' = Idle /\ nextRound' = 1 /\ UNCHANGED <<backend, tmp, models>>
  BY DEF StoreCrash
<1>2. saving' \in [stage : {"idle", "put", "create", "write", "rename"}, model : Nat]
      /\ saving'.stage = "idle"
  BY <1>1 DEF Idle
<1>3. CASE backend = "memory"
  <2>1. /\ DOMAIN held' = {0} /\ held'[0] = [model |-> 0, whole |-> TRUE] /\ loading' = NoLoad
    BY <1>3 DEF StoreCrash
  <2>2. held'[0] \in Blob /\ held'[0].whole
    BY <2>1 DEF Blob
  <2>3. loading' \in Loading /\ loading'.stage = "idle"
    BY <2>1 DEF Loading, NoLoad
  <2>4. StoreRangeInv'
    BY <1>1, <1>2, <2>1, <2>3, StoreConstants DEF StoreInv, StoreRangeInv, Loading
  <2>5. WholeInv'
    BY <1>1, <1>2, <2>1, <2>2 DEF StoreInv, WholeInv
  <2>6. LoadInv'
    BY <2>3 DEF LoadInv, LoadsAnswerTheStore
  <2> QED
    BY <2>4, <2>5, <2>6 DEF StoreInv
<1>4. CASE backend # "memory"
  <2>1. held' = held /\ loading' = IF loading.target = Latest THEN NoLoad ELSE loading
    BY <1>4 DEF StoreCrash
  <2>2. WholeInv'
    BY <1>1, <1>2, <2>1 DEF StoreInv, WholeInv
  <2>3. NoLoad \in Loading /\ NoLoad.stage = "idle" /\ loading \in Loading
    BY DEF Loading, NoLoad, StoreInv, StoreRangeInv
  <2>4. StoreRangeInv'
    BY <1>1, <1>2, <2>1, <2>3, StoreConstants DEF StoreInv, StoreRangeInv, Loading
  <2>5. CASE loading.target = Latest
    BY <2>1, <2>2, <2>3, <2>4, <2>5 DEF StoreInv, LoadInv, LoadsAnswerTheStore
  <2>6. CASE loading.target # Latest
    <3>1. loading' = loading
      BY <2>1, <2>6
    <3>2. \A m \in DOMAIN held : Floor(m) => Floor(m)'
      BY <2>6, <3>1 DEF Floor
    <3>3. ListingInv => ListingInv'
      BY <2>1, <2>6, <3>1, <3>2 DEF ListingInv
    <3>4. LoadInv'
      BY <1>1, <2>1, <3>1, <3>2, <3>3 DEF StoreInv, LoadInv, LoadsAnswerTheStore
    <3> QED
      BY <2>2, <2>4, <3>4 DEF StoreInv
  <2> QED
    BY <2>5, <2>6
<1> QED
  BY <1>3, <1>4

-----------------------------------------------------------------------------
\* StoreInv holds in every reachable state.
THEOREM StoreInvariant == StoreSpec => []StoreInv
<1>1. ASSUME StoreInv, [StoreNext]_storeVars PROVE StoreInv'
  <2>1. CASE UNCHANGED storeVars
    <3>1. StoreRangeInv' /\ WholeInv'
      BY <1>1, <2>1 DEF StoreInv, StoreRangeInv, WholeInv, storeVars
    <3> QED
      BY <1>1, <2>1, <3>1, QuietLoads DEF StoreInv, storeVars
  <2> QED
    BY <1>1, <2>1, BeginSaveStep, TmpStep, PutStep, SaveFailsStep, BeginLoadStep, QueryStep,
       ListPageStep, ReadStep, StoreCrashStep DEF StoreNext
<1> QED
  BY InitStoreInv, <1>1, PTL DEF StoreSpec

\* A load, in any of the four stores, answers with what the store held in one
\* piece at some moment of the load: for any page size of the S3 listing and
\* any saves, failures and crashes beside it, with rounds of any length
\* (load_latest_weights, load_checkpoint, save_checkpoint).
THEOREM LoadsAnswerTheStoreHolds == StoreSpec => []LoadsAnswerTheStore
<1>1. StoreInv => LoadsAnswerTheStore
  BY DEF StoreInv, LoadInv
<1> QED
  BY <1>1, StoreInvariant, PTL
=============================================================================
