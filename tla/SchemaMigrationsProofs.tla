----------------------- MODULE SchemaMigrationsProofs -----------------------
(***************************************************************************)
(* Theorems about SchemaMigrations, for any environments, any first file   *)
(* and any bounds.  What is computed of the fourteen files is taken from   *)
(* FilesAssumption, which TLC evaluates.                                   *)
(***************************************************************************)
EXTENDS SchemaMigrations, SequenceTheorems, WellFoundedInduction, TLAPS

\* Every set of natural numbers that is not empty has a least one: the inductions
\* below are on a least counterexample.
LEMMA LeastNumber ==
    ASSUME NEW T \in SUBSET Nat, T # {}
    PROVE  \E m \in T : \A k \in T : m <= k
<1> DEFINE R == {ss \in Nat \X Nat : ss[1] < ss[2]}
<1>1. IsWellFoundedOn(R, Nat)
  BY NatLessThanWellFounded DEF OpToRel
<1>2. PICK m \in T : \A k \in T : <<k, m>> \notin R
  <2> HIDE DEF R
  <2> QED
    BY <1>1, WFMin, Zenon
<1>3. \A k \in T : <<k, m>> \in Nat \X Nat /\ ~ k < m
  BY <1>2
<1>4. ASSUME NEW k \in T PROVE m <= k
  <2>1. k \in Nat /\ m \in Nat /\ ~ k < m
    BY <1>3
  <2> QED
    BY <2>1
<1> QED
  BY <1>4

-------------------------------------------------------------------------------
(* Statements and files *)

\* Function h goes through the statements on schema S, as Outcome does.
GoesThrough(h, S, statements) ==
    h = [k \in 0 .. Len(statements) |->
            IF k = 0 THEN [ok |-> TRUE, schema |-> S]
            ELSE [ok |-> h[k - 1].ok /\ Accepts(h[k - 1].schema, statements[k]),
                  schema |-> After(h[k - 1].schema, statements[k])]]

LEMMA OutcomeGoesThrough ==
    ASSUME NEW S, NEW statements
    PROVE  Outcome(S, statements) =
               (CHOOSE h : GoesThrough(h, S, statements))[Len(statements)]
BY DEF Outcome, GoesThrough

\* The schemas between the statements tell the outcome.
LEMMA OutcomeAlong ==
    ASSUME NEW S, NEW statements, Len(statements) \in Nat, NEW at, at[0] = S,
           \A k \in 1 .. Len(statements) : at[k] = After(at[k - 1], statements[k])
    PROVE  /\ Outcome(S, statements).ok <=>
                  \A k \in 1 .. Len(statements) : Accepts(at[k - 1], statements[k])
           /\ Outcome(S, statements).schema = at[Len(statements)]
<1> DEFINE n == Len(statements)
           Fine(k) == \A j \in 1 .. k : Accepts(at[j - 1], statements[j])
           g == [k \in 0 .. n |-> [ok |-> Fine(k), schema |-> at[k]]]
           Step(f, k) == IF k = 0 THEN [ok |-> TRUE, schema |-> S]
                         ELSE [ok |-> f[k - 1].ok /\ Accepts(f[k - 1].schema, statements[k]),
                               schema |-> After(f[k - 1].schema, statements[k])]
<1>1. \A k : Fine(k) \in BOOLEAN
  OBVIOUS
<1>2. Fine(0) = TRUE
  <2>1. Fine(0)
    OBVIOUS
  <2> HIDE DEF Fine
  <2> QED
    BY <1>1, <2>1
<1>3. ASSUME NEW k \in 1 .. n
      PROVE  Fine(k) = (Fine(k - 1) /\ Accepts(at[k - 1], statements[k]))
  <2>1. Fine(k) <=> (Fine(k - 1) /\ Accepts(at[k - 1], statements[k]))
    <3>1. k \in 1 .. k /\ \A j \in 1 .. k : j = k \/ j \in 1 .. (k - 1)
      OBVIOUS
    <3>2. \A j \in 1 .. (k - 1) : j \in 1 .. k
      OBVIOUS
    <3> QED
      BY <3>1, <3>2, Zenon
  <2>2. (Fine(k - 1) /\ Accepts(at[k - 1], statements[k])) \in BOOLEAN
    OBVIOUS
  <2> HIDE DEF Fine
  <2> QED
    BY <1>1, <2>1, <2>2
<1>4. ASSUME NEW k \in 0 .. n PROVE g[k] = Step(g, k)
  <2>1. g[k] = [ok |-> Fine(k), schema |-> at[k]]
    <3> HIDE DEF Fine
    <3> QED
      OBVIOUS
  <2>2. CASE k = 0
    <3> HIDE DEF Fine, g
    <3> QED
      BY <1>2, <2>1, <2>2
  <2>3. CASE k # 0
    <3>1. k \in 1 .. n /\ k - 1 \in 0 .. n
      BY <2>3
    <3>2. g[k - 1] = [ok |-> Fine(k - 1), schema |-> at[k - 1]]
      <4> HIDE DEF Fine
      <4> QED
        BY <3>1
    <3> HIDE DEF Fine, g
    <3>3. g[k - 1].ok = Fine(k - 1) /\ g[k - 1].schema = at[k - 1]
      BY <3>2
    <3>4. at[k] = After(at[k - 1], statements[k])
      BY <3>1
    <3>5. Step(g, k) = [ok |-> Fine(k - 1) /\ Accepts(at[k - 1], statements[k]),
                        schema |-> at[k]]
      BY <2>3, <3>3, <3>4, Zenon
    <3> QED
      BY <1>3, <2>1, <3>1, <3>5, Zenon
  <2> QED
    BY <2>2, <2>3
<1> DEFINE Goes(f) == f = [k \in 0 .. n |-> Step(f, k)]
<1>5. \A f : GoesThrough(f, S, statements) <=> Goes(f)
  BY DEF GoesThrough
<1>6. Goes(g)
  <2>1. g = [k \in 0 .. n |-> g[k]]
    OBVIOUS
  <2> HIDE DEF g, Step
  <2> QED
    BY <1>4, <2>1
<1>7. ASSUME NEW h, Goes(h) PROVE h[n] = g[n]
  <2> DEFINE T == {k \in 0 .. n : h[k] # g[k]}
  <2> SUFFICES ASSUME T # {} PROVE FALSE
    <3>1. n \in 0 .. n
      OBVIOUS
    <3> HIDE DEF g, n
    <3> QED
      BY <3>1
  <2>1. PICK k \in T : \A j \in T : k <= j
    <3>1. T \in SUBSET Nat
      OBVIOUS
    <3> HIDE DEF T
    <3> QED
      BY <3>1, LeastNumber
  <2>2. h[k] = Step(h, k) /\ g[k] = Step(g, k)
    <3>1. k \in 0 .. n
      OBVIOUS
    <3> HIDE DEF T, g, Step
    <3> QED
      BY <1>4, <1>7, <3>1
  <2>3. k # 0
    <3>1. Step(h, 0) = Step(g, 0)
      BY Zenon
    <3>2. h[k] # g[k]
      OBVIOUS
    <3> HIDE DEF T, g, Step
    <3> QED
      BY <2>2, <3>1, <3>2
  <2>4. h[k - 1] = g[k - 1]
    <3>1. k - 1 \in 0 .. n /\ ~ k <= k - 1
      BY <2>3
    <3> HIDE DEF g
    <3> QED
      BY <2>1, <3>1
  <2>5. Step(h, k) = Step(g, k)
    <3> HIDE DEF T, g
    <3> QED
      BY <2>4
  <2> HIDE DEF g, Step
  <2> QED
    BY <2>2, <2>5
<1>8. Outcome(S, statements) = g[n]
  <2> DEFINE H == CHOOSE h : GoesThrough(h, S, statements)
  <2> HIDE DEF g, Goes
  <2>1. GoesThrough(H, S, statements)
    BY <1>5, <1>6
  <2> HIDE DEF H
  <2>2. H[n] = g[n]
    BY <1>5, <1>7, <2>1
  <2> QED
    BY <2>2, OutcomeGoesThrough DEF H
<1>9. g[n] = [ok |-> Fine(n), schema |-> at[n]]
  <2> HIDE DEF Fine
  <2> QED
    OBVIOUS
<1>10. Outcome(S, statements).ok = Fine(n) /\ Outcome(S, statements).schema = at[n]
  <2> HIDE DEF Fine, g
  <2> QED
    BY <1>8, <1>9
<1> QED
  BY <1>10

\* Every element has in S what it stands on.
Closed(S) == \A x \in S : Needs(x) \subseteq S

\* File f can be executed on schema S.
Fits(S, f) == Brings[f] \cap S = {} /\ Takes[f] \subseteq S

LEMMA FilesAreLists ==
    ASSUME NEW f \in File
    PROVE  /\ f \in DOMAIN Migrations
           /\ Migrations[f].up \in Seq(Statement)
           /\ Migrations[f].down \in Seq(Statement)
<1> DEFINE Lists == Seq(Statement)
           Files == [up : Lists, down : Lists]
<1>1. Migrations \in Seq(Files)
  BY FilesAssumption DEF StatementsAssumption
<1> HIDE DEF Files
<1>2. f \in DOMAIN Migrations /\ Migrations[f] \in Files
  BY <1>1 DEF File
<1> HIDE DEF Lists
<1>3. Migrations[f].up \in Lists /\ Migrations[f].down \in Lists
  BY <1>2 DEF Files
<1> QED
  BY <1>2, <1>3 DEF Lists

\* What a file brings is what its additions add.
LEMMA BringsIsAdded ==
    ASSUME NEW f \in File
    PROVE  /\ \A x : x \in Brings[f] <=>
                 \E k \in 1 .. Len(Migrations[f].up) :
                    Migrations[f].up[k].verb = "add" /\ x \in Migrations[f].up[k].what
           /\ Brings[f] \subseteq Elements
<1> DEFINE up == Migrations[f].up
<1>1. up \in Seq(Statement) /\ f \in DOMAIN Migrations
  BY FilesAreLists
<1>2. Brings[f] = UNION {s.what : s \in {t \in Range(up) : t.verb = "add"}}
  BY <1>1 DEF Brings
<1>3. Brings[f] \subseteq Elements
  BY <1>1 DEF Elements
<1>4. \A s : s \in Range(up) <=> \E k \in 1 .. Len(up) : s = up[k]
  BY <1>1 DEF Range
<1> HIDE DEF up
<1>5. \A x : x \in Brings[f] <=> \E s : s \in Range(up) /\ s.verb = "add" /\ x \in s.what
  BY <1>2
<1>6. \A x : x \in Brings[f] <=> \E k \in 1 .. Len(up) : up[k].verb = "add" /\ x \in up[k].what
  BY <1>4, <1>5
<1> QED
  BY <1>3, <1>6 DEF up

LEMMA TakesIsNeeded ==
    ASSUME NEW f \in File
    PROVE  /\ Takes[f] \cap Brings[f] = {}
           /\ \A x \in Brings[f] : Needs(x) \subseteq Takes[f] \cup Brings[f]
           /\ \A y \in Takes[f] :
                 \/ \E x \in Brings[f] : y \in Needs(x)
                 \/ \E k \in 1 .. Len(Migrations[f].up) :
                       Migrations[f].up[k].verb = "alter" /\ y \in Migrations[f].up[k].what
<1> DEFINE up == Migrations[f].up
           B == Brings[f]
           altered == UNION {s.what : s \in {t \in Range(up) : t.verb = "alter"}}
           needed == UNION {Needs(x) : x \in B}
<1>1. up \in Seq(Statement) /\ f \in DOMAIN Migrations
  BY FilesAreLists
<1>2. Takes[f] = (needed \cup altered) \ B
  BY <1>1 DEF Takes
<1>3. ASSUME NEW y \in altered
      PROVE  \E k \in 1 .. Len(up) : up[k].verb = "alter" /\ y \in up[k].what
  BY <1>1, <1>3 DEF Range
<1> HIDE DEF up, B, altered
<1>4. \A y : y \in needed <=> \E x \in B : y \in Needs(x)
  OBVIOUS
<1> HIDE DEF needed
<1>5. \A y : y \in Takes[f] <=> (y \in needed \/ y \in altered) /\ y \notin B
  BY <1>2
<1>6. \A y \in Takes[f] :
         \/ \E x \in B : y \in Needs(x)
         \/ \E k \in 1 .. Len(up) : up[k].verb = "alter" /\ y \in up[k].what
  BY <1>3, <1>4, <1>5
<1>7. Takes[f] \cap B = {} /\ \A x \in B : Needs(x) \subseteq Takes[f] \cup B
  BY <1>4, <1>5
<1> QED
  BY <1>6, <1>7 DEF up, B

LEMMA BroughtStep ==
    ASSUME NEW f \in File, NEW n \in 1 .. Len(Migrations[f].up)
    PROVE  Brought(f, n) = IF Migrations[f].up[n].verb = "add"
                             THEN Brought(f, n - 1) \cup Migrations[f].up[n].what
                             ELSE Brought(f, n - 1)
<1> DEFINE up == Migrations[f].up
           U(k) == up[k].what
<1>1. Len(up) \in Nat
  BY FilesAreLists
<1>2. n \in 1 .. n /\ \A j \in 1 .. n : j = n \/ j \in 1 .. (n - 1)
  BY <1>1
<1>3. \A j \in 1 .. (n - 1) : j \in 1 .. n
  BY <1>1
<1> HIDE DEF up
<1>4. \A x, m : x \in UNION {U(k) : k \in {j \in 1 .. m : up[j].verb = "add"}} <=>
          \E k \in 1 .. m : up[k].verb = "add" /\ x \in up[k].what
  OBVIOUS
<1>5. \A x, m : x \in Brought(f, m) <=>
          \E k \in 1 .. m : up[k].verb = "add" /\ x \in up[k].what
  BY <1>4 DEF Brought, up
<1>6. CASE up[n].verb = "add"
  <2>1. \A x : x \in Brought(f, n) <=> x \in Brought(f, n - 1) \/ x \in up[n].what
    BY <1>2, <1>3, <1>5, <1>6
  <2> QED
    BY <2>1, <1>6 DEF up
<1>7. CASE up[n].verb # "add"
  <2>1. \A x : x \in Brought(f, n) <=> x \in Brought(f, n - 1)
    BY <1>2, <1>3, <1>5, <1>7
  <2> QED
    BY <2>1, <1>7 DEF up
<1> QED
  BY <1>6, <1>7

LEMMA BroughtInAll ==
    ASSUME NEW f \in File
    PROVE  /\ Brought(f, 0) = {}
           /\ \A n \in 0 .. Len(Migrations[f].up) : Brought(f, n) \subseteq Brings[f]
           /\ Brought(f, Len(Migrations[f].up)) = Brings[f]
<1> DEFINE up == Migrations[f].up
<1>1. Len(up) \in Nat
  BY FilesAreLists
<1>2. \A x : x \in Brings[f] <=>
          \E k \in 1 .. Len(up) : up[k].verb = "add" /\ x \in up[k].what
  BY BringsIsAdded
<1>3. \A n \in 0 .. Len(up) : \A j \in 1 .. n : j \in 1 .. Len(up)
  BY <1>1
<1>4. Len(up) \in 0 .. Len(up) /\ \A j : j \notin 1 .. 0
  BY <1>1
<1> HIDE DEF up
<1>5. \A x, m : x \in UNION {up[k].what : k \in {j \in 1 .. m : up[j].verb = "add"}} <=>
          \E k \in 1 .. m : up[k].verb = "add" /\ x \in up[k].what
  OBVIOUS
<1>6. \A x, m : x \in Brought(f, m) <=>
          \E k \in 1 .. m : up[k].verb = "add" /\ x \in up[k].what
  BY <1>5 DEF Brought, up
<1> QED
  BY <1>2, <1>3, <1>4, <1>6 DEF up

\* A schema takes the up statements of a file if and only if the file fits; what they
\* make of it has what the file brings.
LEMMA UpRuns ==
    ASSUME NEW f \in File, NEW S
    PROVE  /\ Outcome(S, Migrations[f].up).ok <=> Fits(S, f)
           /\ Outcome(S, Migrations[f].up).schema = S \cup Brings[f]
<1> DEFINE up == Migrations[f].up
           n == Len(up)
           at == [k \in 0 .. n |-> S \cup Brought(f, k)]
<1>1. up \in Seq(Statement) /\ n \in Nat /\ f \in DOMAIN Migrations
  BY FilesAreLists
<1>2. ASSUME NEW k \in 1 .. n
      PROVE  /\ up[k].verb \in {"add", "alter"}
             /\ Accepts(Takes[f] \cup Brought(f, k - 1), up[k])
  BY <1>1, FilesAssumption DEF UpAssumption
<1>3. /\ Brought(f, 0) = {}
      /\ \A k \in 0 .. n : Brought(f, k) \subseteq Brings[f]
      /\ Brought(f, n) = Brings[f]
  BY BroughtInAll
<1>4. at[0] = S /\ at[n] = S \cup Brings[f]
  BY <1>1, <1>3
<1>5. ASSUME NEW k \in 1 .. n
      PROVE  /\ at[k - 1] = S \cup Brought(f, k - 1)
             /\ at[k] = S \cup Brought(f, k)
             /\ Brought(f, k - 1) \subseteq Brings[f]
             /\ up[k].verb = "add" => up[k].what \subseteq Brings[f]
  <2>1. k - 1 \in 0 .. n /\ k \in 0 .. n
    BY <1>1
  <2>2. up[k].verb = "add" => up[k].what \subseteq Brings[f]
    BY BringsIsAdded
  <2> QED
    BY <1>3, <2>1, <2>2
<1>6. \A k \in 1 .. n : Brought(f, k) = IF up[k].verb = "add"
                                         THEN Brought(f, k - 1) \cup up[k].what
                                         ELSE Brought(f, k - 1)
  BY BroughtStep
<1> HIDE DEF up, at, n
<1>7. ASSUME NEW k \in 1 .. n PROVE at[k] = After(at[k - 1], up[k])
  <2>1. CASE up[k].verb = "add"
    <3>1. After(at[k - 1], up[k]) = at[k - 1] \cup up[k].what
      BY <2>1 DEF After
    <3> QED
      BY <1>5, <1>6, <2>1, <3>1
  <2>2. CASE up[k].verb = "alter"
    <3>1. After(at[k - 1], up[k]) = at[k - 1]
      BY <2>2 DEF After
    <3> QED
      BY <1>5, <1>6, <2>2, <3>1
  <2> QED
    BY <1>2, <2>1, <2>2
<1>8. /\ Outcome(S, up).ok <=> \A k \in 1 .. n : Accepts(at[k - 1], up[k])
      /\ Outcome(S, up).schema = at[n]
  BY <1>1, <1>4, <1>7, OutcomeAlong DEF n
<1>9. ASSUME Fits(S, f), NEW k \in 1 .. n PROVE Accepts(at[k - 1], up[k])
  <2>1. S \cap Brings[f] = {} /\ Takes[f] \subseteq S
    BY <1>9 DEF Fits
  <2>2. CASE up[k].verb = "add"
    <3>1. /\ up[k].what \cap (Takes[f] \cup Brought(f, k - 1)) = {}
          /\ \A x \in up[k].what :
                Needs(x) \subseteq (Takes[f] \cup Brought(f, k - 1)) \cup up[k].what
      BY <1>2, <2>2 DEF Accepts
    <3>2. /\ up[k].what \cap at[k - 1] = {}
          /\ \A x \in up[k].what : Needs(x) \subseteq at[k - 1] \cup up[k].what
      BY <1>5, <2>1, <2>2, <3>1
    <3> QED
      BY <2>2, <3>2 DEF Accepts
  <2>3. CASE up[k].verb = "alter"
    <3>1. up[k].what \subseteq Takes[f] \cup Brought(f, k - 1)
      BY <1>2, <2>3 DEF Accepts
    <3>2. up[k].what \subseteq at[k - 1]
      BY <1>5, <2>1, <3>1
    <3> QED
      BY <2>3, <3>2 DEF Accepts
  <2> QED
    BY <1>2, <2>2, <2>3
<1>10. ASSUME \A k \in 1 .. n : Accepts(at[k - 1], up[k]) PROVE Fits(S, f)
  <2>1. ASSUME NEW k \in 1 .. n, up[k].verb = "add"
        PROVE  /\ up[k].what \cap at[k - 1] = {}
               /\ \A x \in up[k].what : Needs(x) \subseteq at[k - 1] \cup up[k].what
    BY <1>10, <2>1 DEF Accepts
  <2>2. ASSUME NEW k \in 1 .. n, up[k].verb = "alter"
        PROVE  up[k].what \subseteq at[k - 1]
    BY <1>10, <2>2 DEF Accepts
  <2>3. ASSUME NEW x \in Brings[f] PROVE x \notin S /\ Needs(x) \subseteq S \cup Brings[f]
    <3>1. PICK k \in 1 .. n : up[k].verb = "add" /\ x \in up[k].what
      BY BringsIsAdded DEF n, up
    <3> QED
      BY <1>5, <2>1, <3>1
  <2>4. ASSUME NEW y \in Takes[f] PROVE y \in S
    <3>1. y \notin Brings[f]
      BY TakesIsNeeded
    <3>2. CASE \E x \in Brings[f] : y \in Needs(x)
      BY <2>3, <3>1, <3>2
    <3>3. CASE \E k \in 1 .. n : up[k].verb = "alter" /\ y \in up[k].what
      BY <1>5, <2>2, <3>1, <3>3
    <3> QED
      BY <3>2, <3>3, TakesIsNeeded DEF n, up
  <2> QED
    BY <2>3, <2>4 DEF Fits
<1> QED
  BY <1>4, <1>8, <1>9, <1>10 DEF up

\* What goes with an element that a file brought does not reach into the schema the
\* file was executed on.
LEMMA GoesNoFurther ==
    ASSUME NEW f \in File, NEW S \in SUBSET Elements, Closed(S), S \cap Brings[f] = {},
           NEW R \in SUBSET Brings[f], NEW x \in Brings[f]
    PROVE  /\ GoesWith(S \cup R, x) \cap S = {}
           /\ GoesWith(S \cup R, x) \cap R = GoesWith(Brings[f], x) \cap R
<1>1. x \in Elements /\ x \notin S /\ R \subseteq Elements
  BY BringsIsAdded
<1>2. \A y \in Elements : \/ y = Table(y[2])
                          \/ y = Column(y[2], y[3])
                          \/ y = Index(y[2], y[3])
                          \/ y = ForeignKey(y[2], y[3], y[4])
  BY FilesAssumption DEF ElementsAssumption
<1>3. CASE x = Table(x[2])
  <2>1. x[1] = "table"
    BY <1>3 DEF Table
  <2>2. \A T : GoesWith(T, x) = {y \in T : y[2] = x[2]}
    BY <2>1 DEF GoesWith
  <2>3. ASSUME NEW y \in S, y[2] = x[2] PROVE FALSE
    <3>0. Needs(y) \subseteq S /\ \A z \in S : Needs(z) \subseteq S
      BY DEF Closed
    <3>1. CASE y = Table(y[2])
      BY <1>1, <1>3, <2>3, <3>1
    <3>2. ASSUME y = Column(y[2], y[3]) PROVE FALSE
      <4>1. Needs(y) = {Table(y[2])}
        BY <3>2 DEF Needs, Column
      <4> QED
        BY <1>1, <1>3, <2>3, <3>0, <4>1
    <3>3. ASSUME NEW t, NEW c, Column(t, c) \in S PROVE Table(t) \in S
      <4>1. Needs(Column(t, c)) = {Table(t)}
        BY DEF Needs, Column
      <4> QED
        BY <3>0, <3>3, <4>1
    <3>4. CASE y = Index(y[2], y[3])
      <4>1. Needs(y) = {Column(y[2], y[3])}
        BY <3>4 DEF Needs, Index
      <4> QED
        BY <1>1, <1>3, <2>3, <3>0, <3>3, <4>1
    <3>5. CASE y = ForeignKey(y[2], y[3], y[4])
      <4>1. Column(y[2], y[3]) \in Needs(y)
        BY <3>5 DEF Needs, ForeignKey
      <4> QED
        BY <1>1, <1>3, <2>3, <3>0, <3>3, <4>1
    <3> QED
      BY <1>2, <3>1, <3>2, <3>4, <3>5
  <2> QED
    BY <2>2, <2>3
<1>4. CASE x = Column(x[2], x[3])
  <2>1. x[1] = "column"
    BY <1>4 DEF Column
  <2>2. \A T : GoesWith(T, x) = {y \in T : Len(y) > 2 /\ y[2] = x[2] /\ y[3] = x[3]}
    BY <2>1 DEF GoesWith
  <2>3. ASSUME NEW y \in S, Len(y) > 2, y[2] = x[2], y[3] = x[3] PROVE FALSE
    <3>0. Needs(y) \subseteq S
      BY DEF Closed
    <3>1. CASE y = Table(y[2])
      <4>1. \A t : Len(Table(t)) = 2
        BY DEF Table
      <4> QED
        BY <2>3, <3>1, <4>1
    <3>2. CASE y = Column(y[2], y[3])
      BY <1>1, <1>4, <2>3, <3>2
    <3>4. CASE y = Index(y[2], y[3])
      <4>1. Needs(y) = {Column(y[2], y[3])}
        BY <3>4 DEF Needs, Index
      <4> QED
        BY <1>1, <1>4, <2>3, <3>0, <4>1
    <3>5. CASE y = ForeignKey(y[2], y[3], y[4])
      <4>1. Column(y[2], y[3]) \in Needs(y)
        BY <3>5 DEF Needs, ForeignKey
      <4> QED
        BY <1>1, <1>4, <2>3, <3>0, <4>1
    <3> QED
      BY <1>2, <3>1, <3>2, <3>4, <3>5
  <2> QED
    BY <2>2, <2>3
<1>5. CASE x = Index(x[2], x[3]) \/ x = ForeignKey(x[2], x[3], x[4])
  <2>1. x[1] # "table" /\ x[1] # "column"
    BY <1>5 DEF Index, ForeignKey
  <2>2. \A T : GoesWith(T, x) = {x}
    BY <2>1 DEF GoesWith
  <2> QED
    BY <1>1, <2>2
<1> QED
  BY <1>1, <1>2, <1>3, <1>4, <1>5

LEMMA RemainsStep ==
    ASSUME NEW f \in File, NEW n \in 1 .. Len(Migrations[f].down)
    PROVE  \A y : y \in Remains(f, n) <=>
              /\ y \in Remains(f, n - 1)
              /\ Migrations[f].down[n].verb = "drop" =>
                    \A x \in Migrations[f].down[n].what : y \notin GoesWith(Brings[f], x)
<1> DEFINE down == Migrations[f].down
           B == Brings[f]
           dropped(m) == UNION {down[k].what : k \in {j \in 1 .. m : down[j].verb = "drop"}}
           gone(m) == UNION {GoesWith(B, x) : x \in dropped(m)}
<1>1. Len(down) \in Nat
  BY FilesAreLists
<1>2. /\ n \in 1 .. n /\ \A j \in 1 .. n : j = n \/ j \in 1 .. (n - 1)
      /\ \A j \in 1 .. (n - 1) : j \in 1 .. n
  BY <1>1
<1>3. \A m : Remains(f, m) = B \ gone(m)
  BY DEF Remains
<1> HIDE DEF down, B
<1>4. \A x, m : x \in dropped(m) <=>
          \E k \in 1 .. m : down[k].verb = "drop" /\ x \in down[k].what
  OBVIOUS
<1> HIDE DEF dropped
<1>5. \A y, m : y \in gone(m) <=> \E x \in dropped(m) : y \in GoesWith(B, x)
  OBVIOUS
<1> HIDE DEF gone
<1>6. \A x : x \in dropped(n) <=>
          x \in dropped(n - 1) \/ (down[n].verb = "drop" /\ x \in down[n].what)
  BY <1>2, <1>4
<1>7. \A y, m : y \in Remains(f, m) <=> y \in B /\ \A x \in dropped(m) : y \notin GoesWith(B, x)
  BY <1>3, <1>5
<1> QED
  BY <1>6, <1>7 DEF B, down

LEMMA RemainsOfAll ==
    ASSUME NEW f \in File
    PROVE  /\ Remains(f, 0) = Brings[f]
           /\ \A n : Remains(f, n) \subseteq Brings[f]
<1>1. {k \in 1 .. 0 : Migrations[f].down[k].verb = "drop"} = {}
  OBVIOUS
<1>2. UNION {Migrations[f].down[k].what :
                k \in {j \in 1 .. 0 : Migrations[f].down[j].verb = "drop"}} = {}
  BY <1>1
<1> DEFINE dropped == UNION {Migrations[f].down[k].what :
                         k \in {j \in 1 .. 0 : Migrations[f].down[j].verb = "drop"}}
<1>3. Remains(f, 0) = Brings[f] \ UNION {GoesWith(Brings[f], x) : x \in dropped}
  BY DEF Remains
<1>4. dropped = {}
  BY <1>2
<1> HIDE DEF dropped
<1>5. Remains(f, 0) = Brings[f]
  BY <1>3, <1>4
<1>6. \A n : Remains(f, n) \subseteq Brings[f]
  BY DEF Remains
<1> QED
  BY <1>5, <1>6

\* The down statements of a file that was executed last take the schema back to what
\* it was; the database takes them all.
LEMMA DownRuns ==
    ASSUME NEW f \in File, NEW S \in SUBSET Elements, Closed(S), Fits(S, f)
    PROVE  /\ Outcome(S \cup Brings[f], Migrations[f].down).ok
           /\ Outcome(S \cup Brings[f], Migrations[f].down).schema = S
<1> DEFINE down == Migrations[f].down
           n == Len(down)
           at == [k \in 0 .. n |-> S \cup Remains(f, k)]
<1>1. down \in Seq(Statement) /\ n \in Nat /\ f \in DOMAIN Migrations
  BY FilesAreLists
<1>2. /\ \A k \in 1 .. n :
            /\ down[k].verb = "alter" \/ (down[k].verb = "drop" /\ down[k].what \subseteq Brings[f])
            /\ Accepts(Takes[f] \cup Remains(f, k - 1), down[k])
      /\ Remains(f, n) = {}
  BY <1>1, FilesAssumption DEF DownAssumption
<1>3. Remains(f, 0) = Brings[f] /\ \A k : Remains(f, k) \subseteq Brings[f]
  BY RemainsOfAll
<1>4. at[0] = S \cup Brings[f] /\ at[n] = S
  BY <1>1, <1>2, <1>3
<1>5. ASSUME NEW k \in 1 .. n
      PROVE  at[k - 1] = S \cup Remains(f, k - 1) /\ at[k] = S \cup Remains(f, k)
  <2>1. k - 1 \in 0 .. n /\ k \in 0 .. n
    BY <1>1
  <2> QED
    BY <2>1
<1>6. \A k \in 1 .. n : \A y : y \in Remains(f, k) <=>
          /\ y \in Remains(f, k - 1)
          /\ down[k].verb = "drop" => \A x \in down[k].what : y \notin GoesWith(Brings[f], x)
  BY RemainsStep
<1>7. S \cap Brings[f] = {} /\ Takes[f] \subseteq S /\ Takes[f] \cap Brings[f] = {}
  BY TakesIsNeeded DEF Fits
<1> HIDE DEF down, at, n
<1>8. ASSUME NEW k \in 1 .. n
      PROVE  at[k] = After(at[k - 1], down[k]) /\ Accepts(at[k - 1], down[k])
  <2> DEFINE R == Remains(f, k - 1)
  <2>1. at[k - 1] = S \cup R /\ R \subseteq Brings[f]
    BY <1>3, <1>5
  <2>2. CASE down[k].verb = "alter"
    <3>1. \A y : y \in Remains(f, k) <=> y \in R
      BY <1>6, <2>2
    <3>2. After(at[k - 1], down[k]) = at[k - 1]
      BY <2>2 DEF After
    <3>3. down[k].what \subseteq Takes[f] \cup R
      BY <1>2, <2>2 DEF Accepts
    <3>4. Accepts(at[k - 1], down[k])
      BY <1>7, <2>1, <2>2, <3>3 DEF Accepts
    <3> HIDE DEF R
    <3> QED
      BY <1>5, <2>1, <3>1, <3>2, <3>4
  <2>3. CASE down[k].verb = "drop"
    <3> DEFINE what == down[k].what
               gone == UNION {GoesWith(S \cup R, x) : x \in what}
    <3>1. what \subseteq Brings[f]
      BY <1>2, <2>3
    <3>2. /\ what \subseteq Takes[f] \cup R
          /\ \A x \in what, y \in Takes[f] \cup R :
                x[1] = "table" /\ y[1] = "key" /\ y[4] = x[2] => y[2] = x[2]
      BY <1>2, <2>3 DEF Accepts
    <3>3. \A x \in what : /\ GoesWith(S \cup R, x) \cap S = {}
                          /\ GoesWith(S \cup R, x) \cap R = GoesWith(Brings[f], x) \cap R
      BY <1>7, <2>1, <3>1, GoesNoFurther
    <3>4. After(S \cup R, down[k]) = (S \cup R) \ gone
      BY <2>3 DEF After
    <3>5. \A y : y \in Remains(f, k) <=>
              y \in R /\ \A x \in what : y \notin GoesWith(Brings[f], x)
      BY <1>6, <2>3
    <3> HIDE DEF R, what
    <3>6. \A y : y \in After(S \cup R, down[k]) <=>
              y \in S \cup R /\ \A x \in what : y \notin GoesWith(S \cup R, x)
      <4>1. \A y : y \in gone <=> \E x \in what : y \in GoesWith(S \cup R, x)
        OBVIOUS
      <4> HIDE DEF gone
      <4> QED
        BY <3>4, <4>1
    <3>7. S \cup Remains(f, k) = After(S \cup R, down[k])
      BY <3>3, <3>5, <3>6
    <3>8. ASSUME NEW x \in what, NEW y \in S, x[1] = "table", y[1] = "key", y[4] = x[2]
          PROVE  FALSE
      <4>1. x \in Elements /\ y \in Elements
        BY <3>1, BringsIsAdded
      <4>2. x = Table(x[2])
        BY <3>8, <4>1, FilesAssumption DEF ElementsAssumption, Column, Index, ForeignKey
      <4>3. Table(y[4]) \in Needs(y)
        BY <3>8 DEF Needs
      <4>4. x \in S
        BY <3>8, <4>2, <4>3 DEF Closed
      <4> QED
        BY <1>7, <3>1, <4>4
    <3>9. /\ what \subseteq S \cup R
          /\ \A x \in what, y \in S \cup R :
                x[1] = "table" /\ y[1] = "key" /\ y[4] = x[2] => y[2] = x[2]
      BY <1>7, <3>2, <3>8
    <3>10. Accepts(S \cup R, down[k])
      BY <2>3, <3>9 DEF Accepts, what
    <3> QED
      BY <1>5, <2>1, <3>7, <3>10
  <2> QED
    BY <1>2, <2>2, <2>3
<1>9. /\ Outcome(S \cup Brings[f], down).ok <=>
             \A k \in 1 .. n : Accepts(at[k - 1], down[k])
      /\ Outcome(S \cup Brings[f], down).schema = at[n]
  BY <1>1, <1>4, <1>8, OutcomeAlong DEF n
<1> QED
  BY <1>4, <1>8, <1>9 DEF down

-------------------------------------------------------------------------------
(* The invariant *)

\* What the application's tables and a set of files make.
Made(files) == BaseSchema \cup UNION {Brings[f] : f \in files}

\* The files that were executed before the k-th of history x.
Earlier(x, k) == {x[j] : j \in 1 .. (k - 1)}

\* Every file of the history fitted what the ones before it had made.
GoodHistory(x) ==
    /\ Closed(Made(Range(x)))
    /\ \A k \in 1 .. Len(x) : /\ Closed(Made(Earlier(x, k)))
                              /\ Fits(Made(Earlier(x, k)), x[k])

\* The migrations table of every environment is a history of its schema.
Histories ==
    \A e \in Env : schema[e] = Made(Range(executed[e])) /\ GoodHistory(executed[e])

\* A file is named once.
NamedOnce(copies) ==
    \A i, j \in DOMAIN copies : copies[i].file = copies[j].file => i = j

\* The directory has one copy of a file, and no file is anywhere before it exists.
Copies ==
    /\ NamedOnce(local)
    /\ FilesOf(local) \subseteq 1 .. generated
    /\ \A e \in Env : /\ FilesOf(s3[e]) \subseteq 1 .. generated
                      /\ Range(executed[e]) \subseteq 1 .. generated

IInv == TypeOK /\ Copies /\ Histories

LEMMA MadeIs ==
    ASSUME NEW files
    PROVE  \A x : x \in Made(files) <=>
              x \in BaseSchema \/ \E f \in files : x \in Brings[f]
<1> DEFINE U == UNION {Brings[f] : f \in files}
<1>1. \A x : x \in U <=> \E f \in files : x \in Brings[f]
  OBVIOUS
<1>2. Made(files) = BaseSchema \cup U
  BY DEF Made
<1> HIDE DEF U
<1> QED
  BY <1>1, <1>2

LEMMA MadeOfOneMore ==
    ASSUME NEW files, NEW f
    PROVE  Made(files \cup {f}) = Made(files) \cup Brings[f]
<1>1. \A x : x \in Made(files \cup {f}) <=> x \in Made(files) \/ x \in Brings[f]
  BY MadeIs
<1> QED
  BY <1>1

LEMMA MadeInElements ==
    ASSUME NEW files \in SUBSET File
    PROVE  Made(files) \subseteq Elements
<1>1. DOMAIN Migrations = File
  BY FilesAssumption DEF StatementsAssumption, File
<1>2. BaseSchema \subseteq Elements /\ \A f \in File : Brings[f] \subseteq Elements
  BY BringsIsAdded DEF Elements
<1> QED
  BY <1>2, MadeIs

\* With a file that fits, a closed schema stays closed.
LEMMA ClosedWithOneMore ==
    ASSUME NEW S, Closed(S), NEW f \in File, Fits(S, f)
    PROVE  Closed(S \cup Brings[f])
BY TakesIsNeeded DEF Closed, Fits

LEMMA RangeOfOneMore ==
    ASSUME NEW x \in Seq(File), NEW f \in File
    PROVE  Append(x, f) \in Seq(File) /\ Range(Append(x, f)) = Range(x) \cup {f}
<1> DEFINE y == Append(x, f)
           n == Len(x)
<1>1. /\ y \in Seq(File) /\ Len(y) = n + 1 /\ y[n + 1] = f
      /\ \A i \in 1 .. n : y[i] = x[i]
      /\ n \in Nat
  BY AppendProperties
<1>2. Range(x) = {x[i] : i \in 1 .. n} /\ Range(y) = {y[i] : i \in 1 .. (n + 1)}
  BY <1>1, RangeEquality
<1>3. \A i : i \in 1 .. (n + 1) <=> (i \in 1 .. n \/ i = n + 1)
  BY <1>1
<1> HIDE DEF y, n
<1>4. Range(y) = Range(x) \cup {f}
  BY <1>1, <1>2, <1>3
<1> QED
  BY <1>1, <1>4 DEF y

LEMMA HistoryOfOneMore ==
    ASSUME NEW x \in Seq(File), GoodHistory(x), NEW f \in File, Fits(Made(Range(x)), f)
    PROVE  /\ Append(x, f) \in Seq(File)
           /\ Range(Append(x, f)) = Range(x) \cup {f}
           /\ Made(Range(Append(x, f))) = Made(Range(x)) \cup Brings[f]
           /\ GoodHistory(Append(x, f))
<1> DEFINE y == Append(x, f)
           n == Len(x)
<1>1. /\ y \in Seq(File) /\ Len(y) = n + 1 /\ y[n + 1] = f
      /\ \A i \in 1 .. n : y[i] = x[i]
      /\ n \in Nat
  BY AppendProperties
<1>2. Range(x) = {x[i] : i \in 1 .. n} /\ Range(y) = {y[i] : i \in 1 .. Len(y)}
  BY <1>1, RangeEquality
<1>3. /\ \A i : i \in 1 .. (n + 1) <=> (i \in 1 .. n \/ i = n + 1)
      /\ \A k \in 1 .. n : k - 1 \in 0 .. n /\ \A i \in 1 .. (k - 1) : i \in 1 .. n
      /\ (n + 1) - 1 = n
  BY <1>1
<1> HIDE DEF y, n
<1>4. Range(y) = Range(x) \cup {f}
  BY <1>1, <1>2, <1>3
<1>5. Made(Range(y)) = Made(Range(x)) \cup Brings[f]
  BY <1>4, MadeOfOneMore
<1>6. \A k \in 1 .. n : Earlier(y, k) = Earlier(x, k)
  BY <1>1, <1>3 DEF Earlier
<1>7. Earlier(y, n + 1) = Range(x)
  BY <1>1, <1>2, <1>3 DEF Earlier
<1>8. \A k \in 1 .. n : /\ Closed(Made(Earlier(x, k)))
                        /\ Fits(Made(Earlier(x, k)), x[k])
  BY DEF GoodHistory, n
<1>9. Closed(Made(Range(x)))
  BY DEF GoodHistory
<1>10. Closed(Made(Range(y)))
  BY <1>5, <1>9, ClosedWithOneMore
<1>11. ASSUME NEW k \in 1 .. Len(y)
       PROVE  Closed(Made(Earlier(y, k))) /\ Fits(Made(Earlier(y, k)), y[k])
  <2>1. CASE k \in 1 .. n
    BY <1>1, <1>6, <1>8, <2>1
  <2>2. CASE k = n + 1
    BY <1>1, <1>7, <1>9, <2>2
  <2> QED
    BY <1>1, <1>3, <2>1, <2>2
<1> QED
  BY <1>1, <1>4, <1>5, <1>10, <1>11 DEF GoodHistory, y

LEMMA HistoryOfOneLess ==
    ASSUME NEW x \in Seq(File), GoodHistory(x), x # <<>>
    PROVE  /\ Front(x) \in Seq(File)
           /\ Last(x) \in File
           /\ Range(Front(x)) \subseteq Range(x)
           /\ GoodHistory(Front(x))
           /\ Closed(Made(Range(Front(x))))
           /\ Fits(Made(Range(Front(x))), Last(x))
           /\ Made(Range(x)) = Made(Range(Front(x))) \cup Brings[Last(x)]
<1> DEFINE n == Len(x)
           y == Front(x)
<1>1. n \in Nat \ {0} /\ DOMAIN x = 1 .. n /\ \A i \in 1 .. n : x[i] \in File
  BY EmptySeq, LenProperties, ElementOfSeq
<1>2. y \in Seq(File) /\ Len(y) = n - 1 /\ \A i \in 1 .. (n - 1) : y[i] = x[i]
  <2>1. \A i \in 1 .. (n - 1) : x[i] \in File
    BY <1>1
  <2>2. /\ SubSeq(x, 1, n - 1) \in Seq(File)
        /\ Len(SubSeq(x, 1, n - 1)) = IF 1 <= n - 1 THEN (n - 1) - 1 + 1 ELSE 0
        /\ \A i \in 1 .. ((n - 1) - 1 + 1) : SubSeq(x, 1, n - 1)[i] = x[1 + i - 1]
    <3>1. 1 \in Int /\ n - 1 \in Int
      BY <1>1
    <3> HIDE DEF n
    <3> QED
      BY <2>1, <3>1, SubSeqProperties
  <2> QED
    BY <1>1, <2>2 DEF Front
<1>3. Last(x) = x[n]
  BY DEF Last
<1>4. Range(x) = {x[i] : i \in 1 .. n} /\ Range(y) = {y[i] : i \in 1 .. (n - 1)}
  BY <1>2, RangeEquality
<1>5. /\ n \in 1 .. n
      /\ \A i : i \in 1 .. n <=> (i \in 1 .. (n - 1) \/ i = n)
      /\ \A k \in 1 .. (n - 1) : k \in 1 .. n /\ \A i \in 1 .. (k - 1) : i \in 1 .. (n - 1)
  BY <1>1
<1>6. \A k \in 1 .. n : /\ Closed(Made(Earlier(x, k)))
                        /\ Fits(Made(Earlier(x, k)), x[k])
  BY DEF GoodHistory
<1> HIDE DEF y, n
<1>7. Earlier(x, n) = Range(y) /\ Range(x) = Range(y) \cup {x[n]}
  BY <1>2, <1>4, <1>5 DEF Earlier
<1>8. \A k \in 1 .. (n - 1) : Earlier(y, k) = Earlier(x, k)
  BY <1>2, <1>5 DEF Earlier
<1>9. Closed(Made(Range(y))) /\ Fits(Made(Range(y)), x[n])
  BY <1>5, <1>6, <1>7
<1>10. GoodHistory(y)
  BY <1>2, <1>5, <1>6, <1>8, <1>9 DEF GoodHistory
<1>11. Made(Range(x)) = Made(Range(y)) \cup Brings[x[n]]
  BY <1>7, MadeOfOneMore
<1> QED
  BY <1>1, <1>2, <1>3, <1>5, <1>7, <1>9, <1>10, <1>11 DEF y

\* The files before the last bring nothing twice: executed in their order they make a
\* history.
LEMMA HistoryInOrder ==
    ASSUME NEW n \in Nat, n < Len(Migrations)
    PROVE  /\ [f \in 1 .. n |-> f] \in Seq(File)
           /\ Range([f \in 1 .. n |-> f]) = 1 .. n
           /\ GoodHistory([f \in 1 .. n |-> f])
<1> DEFINE x == [f \in 1 .. n |-> f]
<1>1. Len(Migrations) \in Nat /\ DOMAIN Migrations = File /\ File = 1 .. Len(Migrations)
  BY FilesAssumption DEF StatementsAssumption, File
<1>2. x \in Seq(File) /\ Len(x) = n
  BY <1>1
<1>3. \A k \in 0 .. n : {x[j] : j \in 1 .. k} = 1 .. k
  <2> TAKE k \in 0 .. n
  <2>1. \A j \in 1 .. k : x[j] = j
    OBVIOUS
  <2> HIDE DEF x
  <2> QED
    BY <2>1
<1>4. Range(x) = 1 .. n
  BY DEF Range
<1>5. Closed(Made({}))
  <2>1. \A y \in BaseSchema : Needs(y) = {}
    BY DEF BaseSchema, Needs, Table
  <2>2. \A y : y \in Made({}) <=> y \in BaseSchema
    BY MadeIs
  <2> QED
    BY <2>1, <2>2 DEF Closed
<1>6. ASSUME NEW f \in 1 .. n PROVE Fits(Made(1 .. (f - 1)), f)
  <2>1. f \in DOMAIN Migrations /\ f # Len(Migrations)
    <3> DEFINE N == Len(Migrations)
    <3>1. N \in Nat /\ n < N
      BY <1>1
    <3> HIDE DEF N
    <3>2. f \in 1 .. N /\ f # N
      BY <3>1
    <3> QED
      BY <1>1, <3>2, Zenon DEF N
  <2>2. /\ Brings[f] \cap BaseSchema = {}
        /\ \A g \in 1 .. (f - 1) : Brings[f] \cap Brings[g] = {}
        /\ Takes[f] \subseteq BaseSchema \cup
              UNION {Brings[g] : g \in {h \in 1 .. (f - 1) :
                        \A i \in DOMAIN Migrations \ {h} : Brings[h] \cap Brings[i] = {}}}
    BY <2>1, FilesAssumption DEF OrderAssumption
  <2>3. \A y \in Takes[f] : y \in BaseSchema \/ \E g \in 1 .. (f - 1) : y \in Brings[g]
    BY <2>2
  <2> QED
    BY <2>2, <2>3, MadeIs DEF Fits
<1>7. ASSUME NEW k \in 0 .. n PROVE Closed(Made(1 .. k))
  <2> DEFINE T == {j \in 0 .. n : ~ Closed(Made(1 .. j))}
  <2> SUFFICES ASSUME T # {} PROVE FALSE
    OBVIOUS
  <2>1. PICK m \in T : \A j \in T : m <= j
    <3>1. T \in SUBSET Nat
      OBVIOUS
    <3> HIDE DEF T
    <3> QED
      BY <3>1, LeastNumber
  <2>2. CASE m = 0
    <3>1. 1 .. 0 = {}
      OBVIOUS
    <3> QED
      BY <1>5, <2>2, <3>1
  <2>3. CASE m # 0
    <3>1. m \in 1 .. n /\ m - 1 \in 0 .. n /\ m - 1 \notin T
      BY <2>1, <2>3
    <3>2. Closed(Made(1 .. (m - 1))) /\ m \in File
      BY <1>1, <3>1
    <3>3. 1 .. m = (1 .. (m - 1)) \cup {m}
      BY <3>1
    <3>4. Closed(Made(1 .. (m - 1)) \cup Brings[m])
      BY <1>6, <3>1, <3>2, ClosedWithOneMore
    <3>5. Closed(Made(1 .. m))
      BY <3>3, <3>4, MadeOfOneMore
    <3> QED
      BY <3>5
  <2> QED
    BY <2>2, <2>3
<1>8. ASSUME NEW k \in 1 .. n
      PROVE  Closed(Made(Earlier(x, k))) /\ Fits(Made(Earlier(x, k)), x[k])
  <2>1. k - 1 \in 0 .. n /\ x[k] = k
    OBVIOUS
  <2>2. Earlier(x, k) = 1 .. (k - 1)
    BY <1>3, <2>1 DEF Earlier
  <2> QED
    BY <1>6, <1>7, <2>1, <2>2
<1>9. Closed(Made(Range(x)))
  BY <1>4, <1>7
<1> QED
  BY <1>2, <1>4, <1>8, <1>9 DEF GoodHistory

-------------------------------------------------------------------------------
(* Copies of files *)

LEMMA SelectsOne ==
    ASSUME NEW copies, NEW f, Len(copies) \in Nat,
           \E k \in 1 .. Len(copies) : copies[k].file = f
    PROVE  \E i \in 1 .. Len(copies) : /\ copies[i].file = f
                                       /\ Without(copies, f) = RemoveAt(copies, i)
<1> DEFINE I == {k \in 1 .. Len(copies) : copies[k].file = f}
<1>1. I \in SUBSET Nat /\ I # {}
  OBVIOUS
<1>2. Without(copies, f) = RemoveAt(copies, Min(I))
  BY <1>1 DEF Without, RemoveFirstMatch, SelectInSeq
<1>3. Min(I) \in I
  <2> HIDE DEF I
  <2>1. \E m \in I : \A k \in I : m <= k
    BY <1>1, LeastNumber
  <2> QED
    BY <2>1 DEF Min
<1> QED
  BY <1>2, <1>3

LEMMA RemovesOne ==
    ASSUME NEW C, NEW copies \in Seq(C), NEW i \in 1 .. Len(copies)
    PROVE  /\ RemoveAt(copies, i) \in Seq(C)
           /\ Len(RemoveAt(copies, i)) = Len(copies) - 1
           /\ \A j \in 1 .. (Len(copies) - 1) :
                 RemoveAt(copies, i)[j] = IF j < i THEN copies[j] ELSE copies[j + 1]
<1> DEFINE n == Len(copies)
           a == SubSeq(copies, 1, i - 1)
           b == SubSeq(copies, i + 1, n)
<1>1. n \in Nat /\ i \in Nat /\ 1 <= i /\ i <= n /\ \A k \in 1 .. n : copies[k] \in C
  BY ElementOfSeq
<1> HIDE DEF n
<1>2. /\ a \in Seq(C)
      /\ Len(a) = IF 1 <= i - 1 THEN (i - 1) - 1 + 1 ELSE 0
      /\ \A j \in 1 .. ((i - 1) - 1 + 1) : a[j] = copies[1 + j - 1]
  <2>1. 1 \in Int /\ i - 1 \in Int /\ \A k \in 1 .. (i - 1) : copies[k] \in C
    BY <1>1
  <2> QED
    BY <2>1, SubSeqProperties
<1>3. /\ b \in Seq(C)
      /\ Len(b) = IF i + 1 <= n THEN n - (i + 1) + 1 ELSE 0
      /\ \A j \in 1 .. (n - (i + 1) + 1) : b[j] = copies[(i + 1) + j - 1]
  <2>1. i + 1 \in Int /\ n \in Int /\ \A k \in (i + 1) .. n : copies[k] \in C
    BY <1>1
  <2> QED
    BY <2>1, SubSeqProperties
<1> HIDE DEF a, b
<1>4. /\ Len(a) = i - 1 /\ \A j \in 1 .. (i - 1) : a[j] = copies[j]
      /\ Len(b) = n - i /\ \A j \in 1 .. (n - i) : b[j] = copies[i + j]
  BY <1>1, <1>2, <1>3
<1>5. /\ a \o b \in Seq(C)
      /\ Len(a \o b) = Len(a) + Len(b)
      /\ \A j \in 1 .. Len(a) + Len(b) :
            (a \o b)[j] = IF j <= Len(a) THEN a[j] ELSE b[j - Len(a)]
  BY <1>2, <1>3, ConcatProperties
<1>6. RemoveAt(copies, i) = a \o b
  BY DEF RemoveAt, a, b, n
<1>7. Len(a \o b) = n - 1
  BY <1>1, <1>4, <1>5
<1>8. ASSUME NEW j \in 1 .. (n - 1)
      PROVE  (a \o b)[j] = IF j < i THEN copies[j] ELSE copies[j + 1]
  <2>1. (a \o b)[j] = IF j <= Len(a) THEN a[j] ELSE b[j - Len(a)]
    <3>1. j \in 1 .. Len(a) + Len(b)
      BY <1>1, <1>4
    <3> QED
      BY <1>5, <3>1
  <2>2. CASE j < i
    <3>1. j \in 1 .. (i - 1) /\ j <= Len(a)
      BY <1>1, <1>4, <2>2
    <3> QED
      BY <1>4, <2>1, <2>2, <3>1
  <2>3. CASE ~ j < i
    <3>1. ~ j <= Len(a) /\ j - Len(a) \in 1 .. (n - i) /\ i + (j - Len(a)) = j + 1
      BY <1>1, <1>4, <2>3
    <3>2. b[j - Len(a)] = copies[i + (j - Len(a))]
      BY <1>4, <3>1
    <3> QED
      BY <2>1, <2>3, <3>1, <3>2
  <2> QED
    BY <2>2, <2>3
<1> QED
  BY <1>5, <1>6, <1>7, <1>8 DEF n

\* Without a file: nothing new, and nothing lost but copies of this file.
LEMMA WithoutOne ==
    ASSUME NEW C, NEW copies \in Seq(C), NEW f
    PROVE  /\ Without(copies, f) \in Seq(C)
           /\ \A j \in DOMAIN Without(copies, f) :
                 \E k \in DOMAIN copies : Without(copies, f)[j] = copies[k]
           /\ \A k \in DOMAIN copies : copies[k].file # f =>
                 \E j \in DOMAIN Without(copies, f) : Without(copies, f)[j] = copies[k]
           /\ NamedOnce(copies) =>
                 /\ NamedOnce(Without(copies, f))
                 /\ \A j \in DOMAIN Without(copies, f) : Without(copies, f)[j].file # f
<1> DEFINE R == Without(copies, f)
           n == Len(copies)
<1>1. n \in Nat /\ DOMAIN copies = 1 .. n
  BY LenProperties
<1>2. CASE ~ \E k \in 1 .. n : copies[k].file = f
  <2>1. R = copies
    BY <1>2 DEF Without, RemoveFirstMatch
  <2> HIDE DEF R, n
  <2> QED
    BY <1>1, <1>2, <2>1 DEF R
<1>3. CASE \E k \in 1 .. n : copies[k].file = f
  <2>1. PICK i \in 1 .. n : copies[i].file = f /\ R = RemoveAt(copies, i)
    BY <1>1, <1>3, SelectsOne
  <2>2. /\ R \in Seq(C) /\ DOMAIN R = 1 .. (n - 1)
        /\ \A j \in 1 .. (n - 1) : R[j] = IF j < i THEN copies[j] ELSE copies[j + 1]
    <3>1. /\ R \in Seq(C) /\ Len(R) = n - 1
          /\ \A j \in 1 .. (n - 1) : R[j] = IF j < i THEN copies[j] ELSE copies[j + 1]
      BY <2>1, RemovesOne
    <3> QED
      BY <3>1, LenProperties
  <2> DEFINE from(j) == IF j < i THEN j ELSE j + 1
  <2>3. \A j \in 1 .. (n - 1) : from(j) \in 1 .. n /\ from(j) # i /\ R[j] = copies[from(j)]
    BY <1>1, <2>2
  <2>4. \A j, m \in 1 .. (n - 1) : from(j) = from(m) => j = m
    BY <1>1
  <2>5. \A k \in 1 .. n : k # i => \E j \in 1 .. (n - 1) : from(j) = k
    <3> SUFFICES ASSUME NEW k \in 1 .. n, k # i
                 PROVE  \E j \in 1 .. (n - 1) : from(j) = k
      OBVIOUS
    <3>1. CASE k < i
      <4>1. k \in 1 .. (n - 1) /\ from(k) = k
        BY <1>1, <3>1
      <4> QED
        BY <4>1
    <3>2. CASE ~ k < i
      <4>1. k - 1 \in 1 .. (n - 1) /\ from(k - 1) = k
        BY <1>1, <3>2
      <4> QED
        BY <4>1
    <3> QED
      BY <3>1, <3>2
  <2> HIDE DEF R, n, from
  <2>6. \A j \in DOMAIN R : \E k \in DOMAIN copies : R[j] = copies[k]
    BY <1>1, <2>2, <2>3
  <2>7. ASSUME NEW k \in DOMAIN copies, copies[k].file # f
        PROVE  \E j \in DOMAIN R : R[j] = copies[k]
    <3>1. k \in 1 .. n /\ k # i
      BY <1>1, <2>1, <2>7
    <3>2. PICK j \in 1 .. (n - 1) : from(j) = k
      BY <2>5, <3>1
    <3>3. R[j] = copies[k] /\ j \in DOMAIN R
      BY <2>2, <2>3, <3>2, Zenon
    <3> QED
      BY <3>3
  <2>8. ASSUME NamedOnce(copies)
        PROVE  NamedOnce(R) /\ \A j \in DOMAIN R : R[j].file # f
    <3>1. ASSUME NEW j \in DOMAIN R PROVE R[j].file # f
      <4>1. from(j) \in 1 .. n /\ from(j) # i /\ R[j] = copies[from(j)]
        BY <2>2, <2>3, Zenon
      <4>2. copies[from(j)].file # copies[i].file
        BY <1>1, <2>8, <4>1 DEF NamedOnce
      <4> QED
        BY <2>1, <4>1, <4>2
    <3>2. NamedOnce(R)
      BY <1>1, <2>2, <2>3, <2>4, <2>8 DEF NamedOnce
    <3> QED
      BY <3>1, <3>2
  <2> QED
    BY <2>2, <2>6, <2>7, <2>8 DEF R
<1> QED
  BY <1>2, <1>3

\* A copy that becomes the latest: nothing else is new, and nothing is lost but the
\* copy it replaces.
LEMMA LatestOne ==
    ASSUME NEW C, NEW copies \in Seq(C), NEW c \in C
    PROVE  /\ Latest(copies, c) \in Seq(C)
           /\ \A j \in DOMAIN Latest(copies, c) :
                 \/ Latest(copies, c)[j] = c
                 \/ \E k \in DOMAIN copies : Latest(copies, c)[j] = copies[k]
           /\ \A k \in DOMAIN copies : copies[k].file # c.file =>
                 \E j \in DOMAIN Latest(copies, c) : Latest(copies, c)[j] = copies[k]
           /\ \E j \in DOMAIN Latest(copies, c) : Latest(copies, c)[j] = c
           /\ NamedOnce(copies) => NamedOnce(Latest(copies, c))
<1> DEFINE R == Without(copies, c.file)
           L == Append(R, c)
           n == Len(R)
<1>1. /\ R \in Seq(C)
      /\ \A j \in DOMAIN R : \E k \in DOMAIN copies : R[j] = copies[k]
      /\ \A k \in DOMAIN copies : copies[k].file # c.file => \E j \in DOMAIN R : R[j] = copies[k]
      /\ NamedOnce(copies) => NamedOnce(R) /\ \A j \in DOMAIN R : R[j].file # c.file
  BY WithoutOne
<1>2. Latest(copies, c) = L
  BY DEF Latest
<1> HIDE DEF R
<1>3. /\ L \in Seq(C) /\ Len(L) = n + 1 /\ L[n + 1] = c
      /\ \A i \in 1 .. n : L[i] = R[i]
  BY <1>1, AppendProperties
<1>4. n \in Nat /\ DOMAIN R = 1 .. n /\ DOMAIN L = 1 .. (n + 1)
  BY <1>1, <1>3, LenProperties
<1>5. n + 1 \in 1 .. (n + 1) /\ \A i : i \in 1 .. (n + 1) <=> (i \in 1 .. n \/ i = n + 1)
  BY <1>4
<1> HIDE DEF L, n
<1>6. \A j \in DOMAIN L : L[j] = c \/ \E k \in DOMAIN copies : L[j] = copies[k]
  BY <1>1, <1>3, <1>4, <1>5
<1>7. \A k \in DOMAIN copies : copies[k].file # c.file => \E j \in DOMAIN L : L[j] = copies[k]
  BY <1>1, <1>3, <1>4, <1>5
<1>8. ASSUME NamedOnce(copies) PROVE NamedOnce(L)
  <2>1. \A i, j \in 1 .. n : R[i].file = R[j].file => i = j
    BY <1>1, <1>4, <1>8 DEF NamedOnce
  <2>2. \A i \in 1 .. n : R[i].file # c.file
    BY <1>1, <1>4, <1>8
  <2> QED
    BY <1>3, <1>4, <1>5, <2>1, <2>2 DEF NamedOnce
<1> QED
  BY <1>2, <1>3, <1>4, <1>5, <1>6, <1>7, <1>8

-------------------------------------------------------------------------------
(* A run *)

\* What a run starts from, and what it does with a file.
RunStart(e) == [ok |-> TRUE, schema |-> schema[e], executed |-> executed[e]]

RunStep(e, before, f) ==
    IF f \notin Pending(e) THEN before
    ELSE [ok |-> before.ok /\ Outcome(before.schema, Migrations[f].up).ok,
          schema |-> Outcome(before.schema, Migrations[f].up).schema,
          executed |-> Append(before.executed, f)]

\* Function h goes through the first n files, as RunPending does.
RunGoes(h, e, n) ==
    h = [f \in 0 .. n |-> IF f = 0 THEN RunStart(e) ELSE RunStep(e, h[f - 1], f)]

LEMMA RunPendingGoes ==
    ASSUME NEW e
    PROVE  RunPending(e) =
               (CHOOSE h : RunGoes(h, e, Len(Migrations)))[Len(Migrations)]
BY DEF RunPending, RunGoes, RunStart, RunStep

LEMMA RunGoesOneFurther ==
    ASSUME NEW e, NEW n \in Nat \ {0}, NEW h, RunGoes(h, e, n - 1)
    PROVE  \E g : RunGoes(g, e, n)
<1> DEFINE g == [f \in 0 .. n |-> IF f = n THEN RunStep(e, h[n - 1], n) ELSE h[f]]
<1>1. \A f \in 0 .. (n - 1) : h[f] = IF f = 0 THEN RunStart(e) ELSE RunStep(e, h[f - 1], f)
  BY DEF RunGoes
<1>2. \A f \in 0 .. (n - 1) : g[f] = h[f]
  OBVIOUS
<1>3. ASSUME NEW f \in 0 .. n
      PROVE  g[f] = IF f = 0 THEN RunStart(e) ELSE RunStep(e, g[f - 1], f)
  <2>1. CASE f = n
    <3>1. g[n] = RunStep(e, h[n - 1], n) /\ n - 1 \in 0 .. (n - 1)
      OBVIOUS
    <3> HIDE DEF g
    <3> QED
      BY <1>2, <2>1, <3>1
  <2>2. CASE f # n
    <3>1. f \in 0 .. (n - 1) /\ (f # 0 => f - 1 \in 0 .. (n - 1))
      BY <2>2
    <3> HIDE DEF g
    <3> QED
      BY <1>1, <1>2, <3>1
  <2> QED
    BY <2>1, <2>2
<1>4. g = [f \in 0 .. n |-> g[f]]
  OBVIOUS
<1> HIDE DEF g
<1>5. RunGoes(g, e, n)
  BY <1>3, <1>4 DEF RunGoes
<1> QED
  BY <1>5

\* A run takes the files one after the other.
LEMMA RunGoesThrough ==
    ASSUME NEW e
    PROVE  \E h : /\ h[0] = RunStart(e)
                  /\ \A f \in File : h[f] = RunStep(e, h[f - 1], f)
                  /\ RunPending(e) = h[Len(Migrations)]
<1> DEFINE N == Len(Migrations)
           T == {n \in 0 .. N : ~ \E h : RunGoes(h, e, n)}
<1>1. N \in Nat
  BY FilesAssumption DEF StatementsAssumption
<1>2. T = {}
  <2> SUFFICES ASSUME T # {} PROVE FALSE
    OBVIOUS
  <2>1. T \in SUBSET Nat
    BY <1>1
  <2>2. PICK n \in T : \A k \in T : n <= k
    <3> HIDE DEF T
    <3> QED
      BY <2>1, LeastNumber
  <2>3. CASE n = 0
    <3> DEFINE h == [f \in 0 .. 0 |-> RunStart(e)]
    <3>1. h = [f \in 0 .. 0 |-> IF f = 0 THEN RunStart(e) ELSE RunStep(e, h[f - 1], f)]
      OBVIOUS
    <3> HIDE DEF h
    <3>2. RunGoes(h, e, 0)
      BY <3>1 DEF RunGoes
    <3> QED
      BY <2>3, <3>2
  <2>4. CASE n # 0
    <3>1. n \in Nat \ {0} /\ n - 1 \in 0 .. N /\ n - 1 \notin T
      BY <1>1, <2>2, <2>4
    <3>2. \E h : RunGoes(h, e, n - 1)
      BY <3>1
    <3>3. \E h : RunGoes(h, e, n)
      BY <3>1, <3>2, RunGoesOneFurther
    <3> QED
      BY <3>3
  <2> QED
    BY <2>3, <2>4
<1>3. \E h : RunGoes(h, e, N)
  <2>1. N \in 0 .. N
    BY <1>1
  <2> HIDE DEF N
  <2> QED
    BY <1>2, <2>1
<1> DEFINE H == CHOOSE h : RunGoes(h, e, N)
<1>4. RunGoes(H, e, N)
  BY <1>3
<1>5. RunPending(e) = H[N]
  BY RunPendingGoes
<1> HIDE DEF H
<1>6. \A f \in 0 .. N : H[f] = IF f = 0 THEN RunStart(e) ELSE RunStep(e, H[f - 1], f)
  <2> HIDE DEF N
  <2> QED
    BY <1>4 DEF RunGoes
<1>7. 0 \in 0 .. N /\ \A f \in File : f \in 0 .. N /\ f # 0
  BY <1>1 DEF File
<1> HIDE DEF N
<1>8. H[0] = RunStart(e) /\ \A f \in File : H[f] = RunStep(e, H[f - 1], f)
  BY <1>6, <1>7
<1> QED
  BY <1>5, <1>8 DEF N

\* What is executed after the files up to f is what was executed before and what was
\* pending of them; as long as nothing failed, it is a history of the schema.
RunHolds(r, e, f) ==
    /\ r.executed \in Seq(File)
    /\ Range(r.executed) = Range(executed[e]) \cup {g \in Pending(e) : g <= f}
    /\ r.ok => r.schema = Made(Range(r.executed)) /\ GoodHistory(r.executed)

LEMMA RunHoldsOneFurther ==
    ASSUME NEW e, Pending(e) \subseteq File, NEW before, NEW f \in File,
           RunHolds(before, e, f - 1)
    PROVE  RunHolds(RunStep(e, before, f), e, f)
<1>1. f \in Int /\ \A g \in Pending(e) : g \in Int /\ (g <= f <=> (g <= f - 1 \/ g = f))
  BY DEF File
<1>2. CASE f \notin Pending(e)
  <2>1. RunStep(e, before, f) = before
    BY <1>2 DEF RunStep
  <2>2. {g \in Pending(e) : g <= f} = {g \in Pending(e) : g <= f - 1}
    BY <1>1, <1>2
  <2> QED
    BY <2>1, <2>2 DEF RunHolds
<1>3. CASE f \in Pending(e)
  <2> DEFINE r == RunStep(e, before, f)
             x == before.executed
             outcome == Outcome(before.schema, Migrations[f].up)
  <2>1. r = [ok |-> before.ok /\ outcome.ok, schema |-> outcome.schema,
             executed |-> Append(x, f)]
    BY <1>3 DEF RunStep
  <2>2. /\ r.ok => before.ok /\ outcome.ok
        /\ r.schema = outcome.schema
        /\ r.executed = Append(x, f)
    <3> HIDE DEF outcome, x, r
    <3> QED
      BY <2>1
  <2>3. /\ x \in Seq(File)
        /\ Range(x) = Range(executed[e]) \cup {g \in Pending(e) : g <= f - 1}
        /\ before.ok => before.schema = Made(Range(x)) /\ GoodHistory(x)
    BY DEF RunHolds
  <2>4. (outcome.ok <=> Fits(before.schema, f)) /\ outcome.schema = before.schema \cup Brings[f]
    BY UpRuns
  <2> HIDE DEF r, x, outcome
  <2>5. Append(x, f) \in Seq(File) /\ Range(Append(x, f)) = Range(x) \cup {f}
    BY <2>3, RangeOfOneMore
  <2>6. {g \in Pending(e) : g <= f} = {g \in Pending(e) : g <= f - 1} \cup {f}
    BY <1>1, <1>3
  <2>7. r.ok => r.schema = Made(Range(r.executed)) /\ GoodHistory(r.executed)
    BY <2>2, <2>3, <2>4, HistoryOfOneMore
  <2>8. Range(r.executed) = Range(executed[e]) \cup {g \in Pending(e) : g <= f}
    BY <2>2, <2>3, <2>5, <2>6
  <2> QED
    BY <2>2, <2>5, <2>7, <2>8 DEF RunHolds, r
<1> QED
  BY <1>2, <1>3

LEMMA FileIs == Len(Migrations) \in Nat /\ File = 1 .. Len(Migrations) /\ DOMAIN Migrations = File
BY FilesAssumption DEF StatementsAssumption, File

LEMMA FilesOfCopies ==
    ASSUME NEW copies
    PROVE  /\ \A f : f \in FilesOf(copies) <=> \E k \in DOMAIN copies : copies[k].file = f
           /\ \A f : f \in WholeFilesOf(copies) <=>
                        \E k \in DOMAIN copies : copies[k].text = "whole" /\ copies[k].file = f
<1>1. \A f : f \in FilesOf(copies) <=> \E k \in DOMAIN copies : copies[k].file = f
  BY DEF FilesOf
<1>2. \A f : f \in WholeFilesOf(copies) <=>
                \E k \in DOMAIN copies : copies[k].text = "whole" /\ copies[k].file = f
  BY DEF WholeFilesOf
<1> QED
  BY <1>1, <1>2

LEMMA PendingIsGenerated ==
    ASSUME TypeOK, Copies, NEW e
    PROVE  Pending(e) \subseteq 1 .. generated /\ Pending(e) \subseteq File
<1>1. Pending(e) \subseteq 1 .. generated
  BY FilesOfCopies DEF Pending, Copies
<1>2. generated \in 0 .. Len(Migrations)
  BY DEF TypeOK
<1> QED
  BY <1>1, <1>2, FileIs

\* A run adds what is pending to the migrations table, and where it succeeds to the
\* schema.
LEMMA RunHoldsThroughout ==
    ASSUME TypeOK, Copies, Histories, NEW e \in Env
    PROVE  \E h : /\ h[0] = RunStart(e)
                  /\ \A f \in File : h[f] = RunStep(e, h[f - 1], f)
                  /\ RunPending(e) = h[Len(Migrations)]
                  /\ \A f \in 0 .. Len(Migrations) : RunHolds(h[f], e, f)
<1> DEFINE N == Len(Migrations)
<1>1. PICK h : /\ h[0] = RunStart(e)
               /\ \A f \in File : h[f] = RunStep(e, h[f - 1], f)
               /\ RunPending(e) = h[N]
  BY RunGoesThrough
<1>2. Pending(e) \subseteq File
  BY PendingIsGenerated
<1>3. RunHolds(h[0], e, 0)
  <2>1. /\ executed[e] \in Seq(File)
        /\ schema[e] = Made(Range(executed[e])) /\ GoodHistory(executed[e])
    BY DEF TypeOK, Histories
  <2>2. {g \in Pending(e) : g <= 0} = {}
    BY <1>2, FileIs
  <2>3. h[0].executed = executed[e] /\ h[0].schema = schema[e]
    BY <1>1 DEF RunStart
  <2> QED
    BY <2>1, <2>2, <2>3 DEF RunHolds
<1>4. ASSUME NEW f \in 0 .. N PROVE RunHolds(h[f], e, f)
  <2> DEFINE T == {k \in 0 .. N : ~ RunHolds(h[k], e, k)}
  <2> SUFFICES ASSUME T # {} PROVE FALSE
    OBVIOUS
  <2>1. PICK k \in T : \A j \in T : k <= j
    <3>1. T \in SUBSET Nat
      BY FileIs
    <3> HIDE DEF T
    <3> QED
      BY <3>1, LeastNumber
  <2>2. k # 0
    BY <1>3
  <2>3. k \in File /\ k - 1 \in 0 .. N /\ k - 1 \notin T
    BY <2>1, <2>2, FileIs
  <2>4. RunHolds(h[k - 1], e, k - 1) /\ h[k] = RunStep(e, h[k - 1], k)
    BY <1>1, <2>3
  <2>5. RunHolds(RunStep(e, h[k - 1], k), e, k)
    BY <1>2, <2>3, <2>4, RunHoldsOneFurther
  <2> QED
    BY <2>4, <2>5
<1> QED
  BY <1>1, <1>4

LEMMA RunIsHistory ==
    ASSUME TypeOK, Copies, Histories, NEW e \in Env, RunPending(e).ok
    PROVE  /\ RunPending(e).executed \in Seq(File)
           /\ Range(RunPending(e).executed) = Range(executed[e]) \cup Pending(e)
           /\ RunPending(e).schema = Made(Range(RunPending(e).executed))
           /\ GoodHistory(RunPending(e).executed)
<1>1. Len(Migrations) \in 0 .. Len(Migrations)
  BY FileIs
<1>2. RunHolds(RunPending(e), e, Len(Migrations))
  BY <1>1, RunHoldsThroughout
<1>3. {g \in Pending(e) : g <= Len(Migrations)} = Pending(e)
  BY FileIs, PendingIsGenerated
<1> QED
  BY <1>2, <1>3 DEF RunHolds

-------------------------------------------------------------------------------
(* The invariant holds *)

CopySet == [file : File, text : Text]

LEMMA LastCopy ==
    ASSUME NEW copies \in Seq(CopySet), copies # <<>>
    PROVE  /\ Last(copies) \in CopySet
           /\ Len(copies) \in DOMAIN copies
           /\ Last(copies).file \in FilesOf(copies)
<1>1. Len(copies) \in 1 .. Len(copies) /\ DOMAIN copies = 1 .. Len(copies)
  BY EmptySeq, LenProperties
<1>2. Last(copies) = copies[Len(copies)] /\ copies[Len(copies)] \in CopySet
  BY <1>1, ElementOfSeq DEF Last
<1> QED
  BY <1>1, <1>2, FilesOfCopies

\* What Latest does to the files of the copies.
LEMMA FilesOfLatest ==
    ASSUME NEW copies \in Seq(CopySet), NEW c \in CopySet
    PROVE  /\ Latest(copies, c) \in Seq(CopySet)
           /\ FilesOf(Latest(copies, c)) \subseteq FilesOf(copies) \cup {c.file}
           /\ WholeFilesOf(copies) \ {c.file} \subseteq WholeFilesOf(Latest(copies, c))
           /\ c.text = "whole" => c.file \in WholeFilesOf(Latest(copies, c))
           /\ NamedOnce(copies) => NamedOnce(Latest(copies, c))
<1> DEFINE L == Latest(copies, c)
<1>1. /\ L \in Seq(CopySet)
      /\ \A j \in DOMAIN L : L[j] = c \/ \E k \in DOMAIN copies : L[j] = copies[k]
      /\ \A k \in DOMAIN copies : copies[k].file # c.file =>
            \E j \in DOMAIN L : L[j] = copies[k]
      /\ \E j \in DOMAIN L : L[j] = c
      /\ NamedOnce(copies) => NamedOnce(L)
  BY LatestOne
<1> HIDE DEF L
<1>2. FilesOf(L) \subseteq FilesOf(copies) \cup {c.file}
  BY <1>1, FilesOfCopies
<1>3. ASSUME NEW f \in WholeFilesOf(copies) \ {c.file} PROVE f \in WholeFilesOf(L)
  <2>1. PICK k \in DOMAIN copies : copies[k].text = "whole" /\ copies[k].file = f
    BY FilesOfCopies
  <2>2. PICK j \in DOMAIN L : L[j] = copies[k]
    BY <1>1, <1>3, <2>1
  <2> QED
    BY <2>1, <2>2, FilesOfCopies
<1>4. ASSUME c.text = "whole" PROVE c.file \in WholeFilesOf(L)
  <2>1. PICK j \in DOMAIN L : L[j] = c
    BY <1>1
  <2> QED
    BY <1>4, <2>1, FilesOfCopies
<1> QED
  BY <1>1, <1>2, <1>3, <1>4 DEF L

LEMMA FilesOfWithout ==
    ASSUME NEW copies \in Seq(CopySet), NEW f
    PROVE  /\ Without(copies, f) \in Seq(CopySet)
           /\ FilesOf(Without(copies, f)) \subseteq FilesOf(copies)
           /\ NamedOnce(copies) => NamedOnce(Without(copies, f))
<1> DEFINE R == Without(copies, f)
<1>1. /\ R \in Seq(CopySet)
      /\ \A j \in DOMAIN R : \E k \in DOMAIN copies : R[j] = copies[k]
      /\ NamedOnce(copies) => NamedOnce(R)
  BY WithoutOne
<1> HIDE DEF R
<1>2. FilesOf(R) \subseteq FilesOf(copies)
  BY <1>1, FilesOfCopies
<1> QED
  BY <1>1, <1>2 DEF R

LEMMA InitHolds == Init => IInv
<1> SUFFICES ASSUME Init PROVE IInv
  OBVIOUS
<1> DEFINE n == First - 1
           copies == [f \in 1 .. n |-> Copy(f, "whole")]
           x == [f \in 1 .. n |-> f]
<1>1. n \in Nat /\ n < Len(Migrations) /\ \A f \in 1 .. n : f \in File
  BY ConstantsAssumption, FileIs
<1>2. x \in Seq(File) /\ Range(x) = 1 .. n /\ GoodHistory(x)
  BY <1>1, HistoryInOrder
<1>3. copies \in Seq(CopySet)
  <2>1. \A f \in 1 .. n : Copy(f, "whole") \in CopySet
    BY <1>1 DEF Copy, CopySet, Text
  <2>2. copies \in [1 .. n -> CopySet]
    BY <2>1
  <2> HIDE DEF n, copies
  <2> QED
    BY <1>1, <2>2, SeqDef
<1>4. /\ DOMAIN copies = 1 .. n
      /\ \A k \in 1 .. n : copies[k].file = k
  BY <1>1 DEF Copy
<1>5. /\ generated = n
      /\ origin = [f \in File |-> NoEnv]
      /\ local = copies
      /\ s3 = [e \in Env |-> <<>>]
      /\ executed = [e \in Env |-> x]
      /\ schema = [e \in Env |-> BaseSchema \cup UNION {Brings[f] : f \in 1 .. n}]
      /\ failures = 0
  BY DEF Init
<1> HIDE DEF copies, x, n
<1>6. Made(1 .. n) \subseteq Elements /\ 1 .. n \subseteq File
  BY <1>1, MadeInElements
<1>7. \A e \in Env : schema[e] = Made(1 .. n)
  BY <1>5 DEF Made
<1>8. schema = [e \in Env |-> Made(1 .. n)]
  BY <1>5 DEF Made
<1>9. TypeOK
  <2>1. generated \in 0 .. Len(Migrations)
    BY <1>1, <1>5, FileIs
  <2>2. <<>> \in Seq([file : File, text : Text])
    OBVIOUS
  <2>3. failures \in 0 .. MaxFailures
    BY <1>5, ConstantsAssumption
  <2>4. executed \in [Env -> Seq(File)] /\ schema \in [Env -> SUBSET Elements]
    BY <1>2, <1>5, <1>6, <1>8
  <2>5. s3 \in [Env -> Seq([file : File, text : Text])]
    BY <1>5, <2>2
  <2>6. origin \in [File -> Env \cup {NoEnv}]
    BY <1>5
  <2> QED
    BY <1>3, <1>5, <2>1, <2>3, <2>4, <2>5, <2>6 DEF TypeOK, CopySet
<1>10. Copies
  <2>1. NamedOnce(local) /\ FilesOf(local) \subseteq 1 .. generated
    <3>1. NamedOnce(copies)
      BY <1>4 DEF NamedOnce
    <3>2. FilesOf(copies) \subseteq 1 .. n
      BY <1>4 DEF FilesOf
    <3> QED
      BY <1>5, <3>1, <3>2
  <2>2. \A e \in Env : s3[e] = <<>> /\ executed[e] = x
    BY <1>5
  <2>3. FilesOf(<<>>) = {}
    BY DEF FilesOf
  <2> QED
    BY <1>2, <1>5, <2>1, <2>2, <2>3 DEF Copies
<1>11. Histories
  <2>1. \A e \in Env : executed[e] = x
    BY <1>5
  <2> QED
    BY <1>2, <1>7, <2>1 DEF Histories
<1> QED
  BY <1>9, <1>10, <1>11 DEF IInv

\* The directory gets another copy.
LEMMA LocalGetsCopy ==
    ASSUME TypeOK, Copies, NEW c \in CopySet, c.file \in 1 .. generated',
           generated' \in 0 .. Len(Migrations), generated <= generated',
           local' = Latest(local, c), UNCHANGED <<s3, executed>>
    PROVE  local' \in Seq(CopySet) /\ Copies'
<1>1. local \in Seq(CopySet) /\ generated \in Nat /\ generated' \in Nat
  BY FileIs DEF TypeOK, CopySet
<1>2. /\ local' \in Seq(CopySet)
      /\ FilesOf(local') \subseteq FilesOf(local) \cup {c.file}
      /\ NamedOnce(local) => NamedOnce(local')
  BY <1>1, FilesOfLatest
<1>3. \A f \in 1 .. generated : f \in 1 .. generated'
  BY <1>1
<1> QED
  BY <1>1, <1>2, <1>3 DEF Copies

\* A database gets a migrations table that is a history of its schema.
LEMMA DatabaseMoves ==
    ASSUME IInv, NEW e \in Env, NEW x \in Seq(File), GoodHistory(x),
           Range(x) \subseteq 1 .. generated,
           schema' = [schema EXCEPT ![e] = Made(Range(x))],
           executed' = [executed EXCEPT ![e] = x],
           UNCHANGED <<generated, origin, local, s3, failures>>
    PROVE  IInv'
<1>1. TypeOK /\ Copies /\ Histories
  BY DEF IInv
<1>2. generated \in Nat /\ generated <= Len(Migrations)
  BY <1>1, FileIs DEF TypeOK
<1>3. Range(x) \subseteq File
  BY <1>2, FileIs
<1>4. Made(Range(x)) \in SUBSET Elements
  BY <1>3, MadeInElements
<1>5. schema \in [Env -> SUBSET Elements] /\ executed \in [Env -> Seq(File)]
  BY <1>1 DEF TypeOK
<1>6. /\ schema' \in [Env -> SUBSET Elements] /\ executed' \in [Env -> Seq(File)]
      /\ schema'[e] = Made(Range(x)) /\ executed'[e] = x
      /\ \A d \in Env \ {e} : schema'[d] = schema[d] /\ executed'[d] = executed[d]
  BY <1>4, <1>5
<1>7. TypeOK'
  BY <1>1, <1>6 DEF TypeOK
<1>8. Copies'
  BY <1>1, <1>6 DEF Copies
<1>9. Histories'
  BY <1>1, <1>6 DEF Histories
<1> QED
  BY <1>7, <1>8, <1>9 DEF IInv

LEMMA GenerateHolds ==
    ASSUME IInv, NEW e \in Env, Generate(e)
    PROVE  IInv'
<1>1. TypeOK /\ Copies /\ Histories
  BY DEF IInv
<1>2. generated \in Nat /\ generated + 1 \in 0 .. Len(Migrations) /\ generated + 1 \in File
  BY <1>1, FileIs DEF TypeOK, Generate
<1>3. /\ generated' = generated + 1
      /\ origin' = [origin EXCEPT ![generated + 1] = e]
      /\ local' = Latest(local, Copy(generated + 1, "whole"))
      /\ UNCHANGED <<s3, executed, schema, failures>>
  BY DEF Generate, dbVars
<1>4. Copy(generated + 1, "whole") \in CopySet /\ Copy(generated + 1, "whole").file = generated + 1
  BY <1>2 DEF Copy, CopySet, Text
<1>5. local' \in Seq(CopySet) /\ Copies'
  <2>1. generated + 1 \in 1 .. generated' /\ generated <= generated'
    BY <1>2, <1>3
  <2> QED
    BY <1>1, <1>2, <1>3, <1>4, <2>1, LocalGetsCopy
<1>6. TypeOK'
  BY <1>1, <1>2, <1>3, <1>5 DEF TypeOK, CopySet
<1>7. Histories'
  BY <1>1, <1>3 DEF Histories
<1> QED
  BY <1>5, <1>6, <1>7 DEF IInv

LEMMA MigrationRunHolds ==
    ASSUME IInv, NEW e \in Env, MigrationRun(e)
    PROVE  IInv'
<1> DEFINE ran == RunPending(e)
<1>1. TypeOK /\ Copies /\ Histories
  BY DEF IInv
<1>2. /\ ran.ok
      /\ schema' = [schema EXCEPT ![e] = ran.schema]
      /\ executed' = [executed EXCEPT ![e] = ran.executed]
      /\ UNCHANGED <<generated, origin, local, s3, failures>>
  BY DEF MigrationRun, RunSucceeds
<1>3. /\ ran.executed \in Seq(File)
      /\ Range(ran.executed) = Range(executed[e]) \cup Pending(e)
      /\ ran.schema = Made(Range(ran.executed))
      /\ GoodHistory(ran.executed)
  BY <1>1, <1>2, RunIsHistory
<1> HIDE DEF ran
<1>4. Range(ran.executed) \subseteq 1 .. generated
  BY <1>1, <1>3, PendingIsGenerated DEF Copies
<1> QED
  BY <1>2, <1>3, <1>4, DatabaseMoves

LEMMA UploadHolds ==
    ASSUME IInv, NEW e \in Env, Upload(e)
    PROVE  IInv'
<1>1. TypeOK /\ Copies /\ Histories
  BY DEF IInv
<1>2. /\ local # <<>>
      /\ s3' = [s3 EXCEPT ![e] = Latest(s3[e], Last(local))]
      /\ UNCHANGED <<generated, origin, local, executed, schema, failures>>
  BY DEF Upload, dbVars
<1>3. local \in Seq(CopySet) /\ s3 \in [Env -> Seq(CopySet)]
  BY <1>1 DEF TypeOK, CopySet
<1>4. Last(local) \in CopySet /\ Last(local).file \in FilesOf(local)
  BY <1>2, <1>3, LastCopy
<1>5. /\ Latest(s3[e], Last(local)) \in Seq(CopySet)
      /\ FilesOf(Latest(s3[e], Last(local))) \subseteq FilesOf(s3[e]) \cup {Last(local).file}
  BY <1>3, <1>4, FilesOfLatest
<1>6. /\ s3' \in [Env -> Seq(CopySet)]
      /\ s3'[e] = Latest(s3[e], Last(local))
      /\ \A d \in Env \ {e} : s3'[d] = s3[d]
  BY <1>2, <1>3, <1>5
<1>7. TypeOK'
  BY <1>1, <1>2, <1>6 DEF TypeOK, CopySet
<1>8. Copies'
  BY <1>1, <1>2, <1>4, <1>5, <1>6 DEF Copies
<1>9. Histories'
  BY <1>1, <1>2 DEF Histories
<1> QED
  BY <1>7, <1>8, <1>9 DEF IInv

LEMMA DeleteLocalHolds ==
    ASSUME IInv, NEW f \in File, DeleteLocal(f)
    PROVE  IInv'
<1>1. TypeOK /\ Copies /\ Histories
  BY DEF IInv
<1>2. /\ local' = Without(local, f)
      /\ UNCHANGED <<generated, origin, s3, executed, schema, failures>>
  BY DEF DeleteLocal, dbVars
<1>3. local \in Seq(CopySet)
  BY <1>1 DEF TypeOK, CopySet
<1>4. /\ local' \in Seq(CopySet)
      /\ FilesOf(local') \subseteq FilesOf(local)
      /\ NamedOnce(local) => NamedOnce(local')
  BY <1>2, <1>3, FilesOfWithout
<1>5. TypeOK'
  BY <1>1, <1>2, <1>4 DEF TypeOK, CopySet
<1>6. Copies'
  BY <1>1, <1>2, <1>4 DEF Copies
<1>7. Histories'
  BY <1>1, <1>2 DEF Histories
<1> QED
  BY <1>5, <1>6, <1>7 DEF IInv

LEMMA DownloadHolds ==
    ASSUME IInv, NEW e \in Env, Download(e) \/ DownloadFails(e)
    PROVE  IInv'
<1>1. TypeOK /\ Copies /\ Histories
  BY DEF IInv
<1>2. s3[e] \in Seq(CopySet) /\ s3[e] # <<>>
  BY <1>1 DEF TypeOK, CopySet, Download, DownloadFails
<1>3. Last(s3[e]) \in CopySet /\ Last(s3[e]).file \in 1 .. generated
  BY <1>1, <1>2, LastCopy DEF Copies
<1>4. PICK c \in CopySet : c.file = Last(s3[e]).file /\ local' = Latest(local, c)
  <2>1. CASE Download(e)
    BY <1>3, <2>1 DEF Download
  <2>2. CASE DownloadFails(e)
    <3>1. Last(s3[e]).file \in File
      BY <1>3 DEF CopySet
    <3>2. PICK text \in Text : local' = Latest(local, Copy(Last(s3[e]).file, text))
      BY <2>2 DEF DownloadFails
    <3> DEFINE c == Copy(Last(s3[e]).file, text)
    <3>3. c \in CopySet /\ c.file = Last(s3[e]).file
      BY <3>1 DEF Copy, CopySet
    <3> QED
      BY <3>2, <3>3
  <2> QED
    BY <2>1, <2>2
<1>5. /\ UNCHANGED <<generated, origin, s3, executed, schema>>
      /\ failures' \in 0 .. MaxFailures
  <2>1. failures \in 0 .. MaxFailures /\ MaxFailures \in Nat
    BY <1>1, ConstantsAssumption DEF TypeOK
  <2>2. /\ UNCHANGED <<generated, origin, s3, executed, schema>>
        /\ failures' = failures \/ (failures < MaxFailures /\ failures' = failures + 1)
    BY DEF Download, DownloadFails, dbVars
  <2> QED
    BY <2>1, <2>2
<1>6. local' \in Seq(CopySet) /\ Copies'
  <2>1. generated' \in 0 .. Len(Migrations) /\ generated <= generated'
    BY <1>1, <1>5, FileIs DEF TypeOK
  <2> QED
    BY <1>1, <1>3, <1>4, <1>5, <2>1, LocalGetsCopy
<1>7. TypeOK'
  BY <1>1, <1>5, <1>6 DEF TypeOK, CopySet
<1>8. Histories'
  BY <1>1, <1>5 DEF Histories
<1> QED
  BY <1>6, <1>7, <1>8 DEF IInv

\* What the down statements of the file executed last do.
LEMMA RevertIsHistory ==
    ASSUME IInv, NEW e \in Env, executed[e] # <<>>
    PROVE  LET x == executed[e]
               outcome == Outcome(schema[e], Migrations[Last(x)].down)
           IN  /\ outcome.ok
               /\ outcome.schema = Made(Range(Front(x)))
               /\ Front(x) \in Seq(File)
               /\ Range(Front(x)) \subseteq Range(x)
               /\ GoodHistory(Front(x))
<1> DEFINE x == executed[e]
           S == Made(Range(Front(x)))
<1>1. x \in Seq(File) /\ schema[e] = Made(Range(x)) /\ GoodHistory(x) /\ x # <<>>
  BY DEF IInv, TypeOK, Histories
<1> HIDE DEF x
<1>2. /\ Front(x) \in Seq(File) /\ Last(x) \in File
      /\ Range(Front(x)) \subseteq Range(x)
      /\ GoodHistory(Front(x))
      /\ Closed(S) /\ Fits(S, Last(x))
      /\ Made(Range(x)) = S \cup Brings[Last(x)]
  BY <1>1, HistoryOfOneLess
<1>3. Range(Front(x)) \in SUBSET File
  BY <1>2 DEF Range
<1>4. S \in SUBSET Elements
  BY <1>3, MadeInElements
<1> HIDE DEF S
<1>5. /\ Outcome(S \cup Brings[Last(x)], Migrations[Last(x)].down).ok
      /\ Outcome(S \cup Brings[Last(x)], Migrations[Last(x)].down).schema = S
  BY <1>2, <1>4, DownRuns
<1> QED
  BY <1>1, <1>2, <1>5 DEF S, x

LEMMA MigrationRevertHolds ==
    ASSUME IInv, NEW e \in Env, MigrationRevert(e)
    PROVE  IInv'
<1> DEFINE x == executed[e]
           outcome == Outcome(schema[e], Migrations[Last(x)].down)
<1>1. /\ x # <<>>
      /\ schema' = [schema EXCEPT ![e] = outcome.schema]
      /\ executed' = [executed EXCEPT ![e] = Front(x)]
      /\ UNCHANGED <<generated, origin, local, s3, failures>>
  BY DEF MigrationRevert
<1>2. /\ outcome.schema = Made(Range(Front(x)))
      /\ Front(x) \in Seq(File)
      /\ Range(Front(x)) \subseteq Range(x)
      /\ GoodHistory(Front(x))
  BY <1>1, RevertIsHistory
<1>3. Range(Front(x)) \subseteq 1 .. generated
  BY <1>2 DEF IInv, Copies
<1> HIDE DEF x, outcome
<1> QED
  BY <1>1, <1>2, <1>3, DatabaseMoves

LEMMA NextHolds == IInv /\ [Next]_vars => IInv'
<1> SUFFICES ASSUME IInv, [Next]_vars PROVE IInv'
  OBVIOUS
<1>1. CASE UNCHANGED vars
  BY <1>1 DEF vars, IInv, TypeOK, Copies, Histories
<1>2. ASSUME NEW e \in Env, Generate(e) PROVE IInv'
  BY <1>2, GenerateHolds
<1>3. ASSUME NEW e \in Env, MigrationRun(e) PROVE IInv'
  BY <1>3, MigrationRunHolds
<1>4. ASSUME NEW e \in Env, Upload(e) PROVE IInv'
  BY <1>4, UploadHolds
<1>5. ASSUME NEW e \in Env, Download(e) \/ DownloadFails(e) PROVE IInv'
  BY <1>5, DownloadHolds
<1>6. ASSUME NEW e \in Env, MigrationRevert(e) PROVE IInv'
  BY <1>6, MigrationRevertHolds
<1>7. ASSUME NEW f \in File, DeleteLocal(f) PROVE IInv'
  BY <1>7, DeleteLocalHolds
<1> QED
  BY <1>1, <1>2, <1>3, <1>4, <1>5, <1>6, <1>7 DEF Next

\* In every state the migrations table of every environment is a history in which each
\* file fitted the schema it was executed on.
THEOREM InvariantHolds == Spec => []IInv
BY InitHolds, NextHolds, PTL DEF Spec

\* Every variable stays in its set of values, for any environments and bounds.
THEOREM TypeHolds == Spec => []TypeOK
<1>1. IInv => TypeOK
  BY DEF IInv
<1> QED
  BY <1>1, InvariantHolds, PTL

-------------------------------------------------------------------------------
(* What follows from it *)

\* The migrations table tells the truth: a schema is what the application's tables and
\* the executed files make, whatever was run late, reverted and run again.
THEOREM SchemaIsHistoryHolds == Spec => []SchemaIsHistory
<1>1. IInv => SchemaIsHistory
  BY DEF IInv, Histories, SchemaIsHistory, Made
<1> QED
  BY <1>1, InvariantHolds, PTL

\* The database takes the down statements of what was executed last, in whichever
\* order the files were executed.
THEOREM RevertAppliesHolds == Spec => []RevertApplies
<1>1. IInv => RevertApplies
  BY RevertIsHistory DEF RevertApplies
<1> QED
  BY <1>1, InvariantHolds, PTL

\* A pending file fits, if no rival of it is pending or executed and none of the files
\* before it is left out but for a rival.
LEMMA NextFileFits ==
    ASSUME IInv, NEW e \in Env, NEW files, files = Pending(e) \cup Range(executed[e]),
           \A f \in files : Rivals[f] \cap files = {},
           \A f \in 1 .. generated : f \in files \/ Rivals[f] \cap files # {},
           NEW f \in File, f \in Pending(e)
    PROVE  Fits(Made(Range(executed[e]) \cup {g \in Pending(e) : g <= f - 1}), f)
<1> DEFINE E == Range(executed[e]) \cup {g \in Pending(e) : g <= f - 1}
<1>1. TypeOK /\ Copies
  BY DEF IInv
<1>2. Pending(e) \subseteq File /\ Pending(e) \subseteq 1 .. generated
  BY <1>1, PendingIsGenerated
<1>3. generated \in 0 .. Len(Migrations) /\ Len(Migrations) \in Nat /\ File = 1 .. Len(Migrations)
  BY <1>1, FileIs DEF TypeOK
<1>4. files \subseteq 1 .. generated /\ files \subseteq File
  BY <1>1, <1>2, <1>3 DEF Copies
<1>5. /\ Brings[f] \cap BaseSchema = {}
      /\ Takes[f] \subseteq BaseSchema \cup
              UNION {Brings[g] : g \in {h \in 1 .. (f - 1) :
                        \A i \in DOMAIN Migrations \ {h} : Brings[h] \cap Brings[i] = {}}}
  BY FileIs, FilesAssumption DEF OrderAssumption
<1>6. \A y \in Takes[f] : \/ y \in BaseSchema
                          \/ \E g \in 1 .. (f - 1) :
                                /\ y \in Brings[g]
                                /\ \A i \in File \ {g} : Brings[g] \cap Brings[i] = {}
  BY <1>5, FileIs
<1>7. \A g : g \in E => g \in files /\ g # f
  BY <1>2, <1>3 DEF Pending
<1>8. ASSUME NEW g \in E PROVE Brings[f] \cap Brings[g] = {}
  <2>1. g \in File \ {f} /\ g \notin Rivals[f]
    BY <1>4, <1>7
  <2> QED
    BY <2>1 DEF Rivals
<1>9. ASSUME NEW g \in 1 .. (f - 1), \A i \in File \ {g} : Brings[g] \cap Brings[i] = {}
      PROVE  g \in E
  <2>1. g \in 1 .. generated /\ g \in File /\ g <= f - 1
    BY <1>2, <1>3
  <2>2. Rivals[g] = {}
    BY <1>9, <2>1 DEF Rivals
  <2>3. g \in files
    BY <2>1, <2>2
  <2> QED
    BY <2>1, <2>3
<1> HIDE DEF E
<1>10. Brings[f] \cap Made(E) = {}
  BY <1>5, <1>8, MadeIs
<1>11. Takes[f] \subseteq Made(E)
  BY <1>6, <1>9, MadeIs
<1> QED
  BY <1>10, <1>11 DEF Fits, E

\* A run fails only where a cut-off copy keeps the directory from loading, or because of
\* a file that an earlier run would have executed and that is missing, or because of two
\* files that bring the same column.
THEOREM RunAppliesHolds == Spec => []RunApplies
<1>1. ASSUME IInv PROVE RunApplies
  <2> SUFFICES ASSUME NEW e \in Env, NEW files, files = Pending(e) \cup Range(executed[e]),
                      \A k \in DOMAIN local : local[k].text # "cut",
                      \A f \in files : Rivals[f] \cap files = {},
                      \A f \in 1 .. generated : f \in files \/ Rivals[f] \cap files # {}
               PROVE  RunSucceeds(e)
    BY DEF RunApplies
  <2> DEFINE N == Len(Migrations)
  <2>1. TypeOK /\ Copies /\ Histories
    BY <1>1 DEF IInv
  <2>2. PICK h : /\ h[0] = RunStart(e)
                 /\ \A f \in File : h[f] = RunStep(e, h[f - 1], f)
                 /\ RunPending(e) = h[N]
                 /\ \A f \in 0 .. N : RunHolds(h[f], e, f)
    BY <2>1, RunHoldsThroughout
  <2> DEFINE T == {k \in 0 .. N : ~ h[k].ok}
  <2>3. T = {}
    <3> SUFFICES ASSUME T # {} PROVE FALSE
      OBVIOUS
    <3>1. PICK f \in T : \A j \in T : f <= j
      <4>1. T \in SUBSET Nat
        BY FileIs
      <4> HIDE DEF T
      <4> QED
        BY <4>1, LeastNumber
    <3>2. f # 0
      <4>1. h[0].ok
        BY <2>2 DEF RunStart
      <4> QED
        BY <4>1
    <3>3. f \in File /\ f - 1 \in 0 .. N /\ f - 1 \notin T
      BY <3>1, <3>2, FileIs
    <3> DEFINE before == h[f - 1]
    <3>4. before.ok /\ h[f] = RunStep(e, before, f) /\ RunHolds(before, e, f - 1)
      BY <2>2, <3>3
    <3>5. ~ h[f].ok
      OBVIOUS
    <3> HIDE DEF before, T
    <3>6. f \in Pending(e)
      BY <3>4, <3>5 DEF RunStep
    <3>7. before.schema = Made(Range(executed[e]) \cup {g \in Pending(e) : g <= f - 1})
      BY <3>4 DEF RunHolds
    <3>8. Fits(before.schema, f)
      BY <1>1, <3>3, <3>6, <3>7, NextFileFits
    <3> DEFINE outcome == Outcome(before.schema, Migrations[f].up)
    <3>9. outcome.ok
      BY <3>3, <3>8, UpRuns
    <3>10. h[f] = [ok |-> before.ok /\ outcome.ok, schema |-> outcome.schema,
                   executed |-> Append(before.executed, f)]
      BY <3>4, <3>6 DEF RunStep
    <3> HIDE DEF outcome
    <3>11. h[f].ok = (before.ok /\ outcome.ok)
      BY <3>10
    <3>12. h[f].ok
      BY <3>4, <3>9, <3>11, Zenon
    <3> QED
      BY <3>5, <3>12
  <2>4. N \in 0 .. N
    BY FileIs
  <2>5. RunPending(e).ok
    BY <2>2, <2>3, <2>4
  <2> QED
    BY <2>5 DEF RunSucceeds, Loads
<1> QED
  BY <1>1, InvariantHolds, PTL

\* A whole copy in S3 is lost only when what a failed download left of the same file is
\* uploaded over it: no action but Upload touches S3, and it takes the place of one
\* file, of which the directory has one copy.
THEOREM StoredStaysWholeHolds == Spec => StoredStaysWhole
<1> DEFINE Kept == \A e \in Env : WholeFilesOf(s3[e]) \ WholeFilesOf(s3'[e]) \subseteq
                                      FilesOf(local) \ WholeFilesOf(local)
<1>1. ASSUME IInv, [Next]_vars PROVE [Kept]_vars
  <2>1. CASE UNCHANGED s3
    BY <2>1
  <2>2. ASSUME NEW d \in Env, Upload(d), NEW e \in Env,
               NEW f \in WholeFilesOf(s3[e]), f \notin WholeFilesOf(s3'[e])
        PROVE  f \in FilesOf(local) \ WholeFilesOf(local)
    <3>1. /\ local # <<>> /\ local \in Seq(CopySet) /\ s3 \in [Env -> Seq(CopySet)]
          /\ NamedOnce(local)
          /\ s3' = [s3 EXCEPT ![d] = Latest(s3[d], Last(local))]
      BY <1>1, <2>2 DEF Upload, IInv, TypeOK, Copies, CopySet
    <3> DEFINE c == Last(local)
    <3>2. /\ c \in CopySet /\ Len(local) \in DOMAIN local /\ c.file \in FilesOf(local)
          /\ c = local[Len(local)]
      BY <3>1, LastCopy DEF Last
    <3>3. e = d
      BY <2>2, <3>1
    <3>4. s3'[e] = Latest(s3[e], c) /\ s3[e] \in Seq(CopySet)
      BY <3>1, <3>3
    <3> HIDE DEF c
    <3>5. /\ WholeFilesOf(s3[e]) \ {c.file} \subseteq WholeFilesOf(s3'[e])
          /\ c.text = "whole" => c.file \in WholeFilesOf(s3'[e])
      BY <3>2, <3>4, FilesOfLatest
    <3>6. f = c.file /\ c.text # "whole"
      BY <2>2, <3>5
    <3>7. f \notin WholeFilesOf(local)
      <4> SUFFICES ASSUME f \in WholeFilesOf(local) PROVE FALSE
        OBVIOUS
      <4>1. PICK k \in DOMAIN local : local[k].text = "whole" /\ local[k].file = f
        BY FilesOfCopies
      <4>2. k = Len(local)
        BY <3>1, <3>2, <3>6, <4>1 DEF NamedOnce
      <4> QED
        BY <3>2, <3>6, <4>1, <4>2
    <3> QED
      BY <3>2, <3>6, <3>7
  <2>3. UNCHANGED s3 \/ \E d \in Env : Upload(d)
    BY <1>1 DEF Next, vars, Generate, MigrationRun, Download, DownloadFails,
                MigrationRevert, DeleteLocal
  <2> QED
    BY <2>1, <2>2, <2>3
<1>2. IInv /\ [Next]_vars => [Kept]_vars
  BY <1>1
<1> QED
  BY <1>2, InvariantHolds, PTL DEF Spec, StoredStaysWhole
===============================================================================
