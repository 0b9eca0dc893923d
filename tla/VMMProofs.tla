----------------------------- MODULE VMMProofs ------------------------------
(***************************************************************************)
(* Proofs about VMM, for tables of any length, any tables of the           *)
(* bootloader's that stand on four levels, and any frames.                 *)
(***************************************************************************)
EXTENDS VMM, SequenceTheorems, TLAPS

-----------------------------------------------------------------------------
(***************************************************************************)
(* What the processor finds in a memory that holds tables, and how that    *)
(* changes with an entry: for any memory and any root, with no state.      *)
(***************************************************************************)

LEMMA EntriesTyped ==
  /\ Zero \in Entry /\ ZeroTable \in [Index -> Entry] /\ Garbage \in [Index -> Entry]
  /\ Fresh = ZeroTable
BY DEF Zero, ZeroTable, Garbage, Entry, Flags, Fresh

\* The entry a walk reads at depth d.
At(m, r, v, d) == ContentsIn(m, Walk(m, r, v)[d])[v[d]]

LEMMA WalkSteps ==
  ASSUME NEW m, NEW r, NEW v
  PROVE  /\ Walk(m, r, v)[1] = r
         /\ \A d \in 1 .. 3 : Walk(m, r, v)[d + 1] = Below(m, Walk(m, r, v)[d], v, d)
<1>1. PICK a : a = Below(m, r, v, 1)
  OBVIOUS
<1>2. PICK b : b = Below(m, a, v, 2)
  OBVIOUS
<1>3. PICK c : c = Below(m, b, v, 3)
  OBVIOUS
<1>4. Walk(m, r, v) = <<r, a, b, c>>
  BY <1>1, <1>2, <1>3 DEF Walk
<1>5. /\ Walk(m, r, v)[1] = r /\ Walk(m, r, v)[2] = a /\ Walk(m, r, v)[3] = b
      /\ Walk(m, r, v)[4] = c
  BY <1>4
<1>6. \A d \in 1 .. 3 : d = 1 \/ d = 2 \/ d = 3
  OBVIOUS
<1> QED
  BY <1>1, <1>2, <1>3, <1>5, <1>6

\* A walk goes on where the entry leads on.
LEMMA WalkGoesOn ==
  ASSUME NEW m, NEW r, NEW v, NEW d \in 1 .. 3
  PROVE  LET w == Walk(m, r, v)
         IN  /\ w[d] = 0 => w[d + 1] = 0
             /\ w[d] # 0 /\ Leads(At(m, r, v, d), 5 - d) => w[d + 1] = At(m, r, v, d).to
             /\ w[d] # 0 /\ ~Leads(At(m, r, v, d), 5 - d) => w[d + 1] = 0
<1>1. Walk(m, r, v)[d + 1] = Below(m, Walk(m, r, v)[d], v, d)
  BY WalkSteps
<1> QED
  BY <1>1 DEF Below, At

\* A walk has tables down to some depth, and then none.
LEMMA DeepestFacts ==
  ASSUME NEW m, NEW r, NEW v, r # 0
  PROVE  LET w == Walk(m, r, v)
         IN  /\ Deepest(w) \in 1 .. 4
             /\ \A d \in 1 .. 4 : w[d] # 0 <=> d <= Deepest(w)
<1> DEFINE w == Walk(m, r, v)
<1>1. /\ w[1] # 0 /\ (w[1] = 0 => w[2] = 0) /\ (w[2] = 0 => w[3] = 0) /\ (w[3] = 0 => w[4] = 0)
  <2>1. w[1] = r
    BY WalkSteps
  <2>2. \A d \in 1 .. 3 : w[d] = 0 => w[d + 1] = 0
    BY WalkGoesOn
  <2> HIDE DEF w
  <2> QED
    BY <2>1, <2>2
<1> HIDE DEF w
<1>2. \E d \in 1 .. 4 : w[d] # 0 /\ (d < 4 => w[d + 1] = 0)
  BY <1>1
<1>3. PICK p : p = Deepest(w)
  OBVIOUS
<1>4. p \in 1 .. 4 /\ w[p] # 0 /\ (p < 4 => w[p + 1] = 0)
  BY <1>2, <1>3 DEF Deepest
<1>5. ASSUME NEW d \in 1 .. 4 PROVE w[d] # 0 <=> d <= p
  BY <1>1, <1>4
<1> QED
  BY <1>3, <1>4, <1>5 DEF w

\* The rights of a translation.
Rights(m, r, v, depth) ==
  {b \in {"WRITE", "USER"} : \A d \in 1 .. depth : b \in At(m, r, v, d).bits}
    \cup {b \in {"NX"} : \E d \in 1 .. depth : b \in At(m, r, v, d).bits}

LEMMA TranslationFacts ==
  ASSUME NEW m, NEW r, NEW v, NEW p \in 1 .. 4, p = Deepest(Walk(m, r, v))
  PROVE  /\ ~Present(At(m, r, v, p)) => TranslationIn(m, r, v) = Unmapped
         /\ Present(At(m, r, v, p)) =>
              TranslationIn(m, r, v) =
                [to |-> At(m, r, v, p).to, depth |-> p, rights |-> Rights(m, r, v, p)]
<1>1. PICK e : e = [d \in 1 .. p |-> At(m, r, v, d)]
  OBVIOUS
<1>2. TranslationIn(m, r, v) =
        IF ~Present(e[p]) THEN Unmapped
        ELSE [to |-> e[p].to, depth |-> p,
              rights |-> {b \in {"WRITE", "USER"} : \A d \in 1 .. p : b \in e[d].bits}
                           \cup {b \in {"NX"} : \E d \in 1 .. p : b \in e[d].bits}]
  BY <1>1 DEF TranslationIn, At
<1>3. \A d \in 1 .. p : e[d] = At(m, r, v, d)
  BY <1>1
<1>4. /\ {b \in {"WRITE", "USER"} : \A d \in 1 .. p : b \in e[d].bits}
           = {b \in {"WRITE", "USER"} : \A d \in 1 .. p : b \in At(m, r, v, d).bits}
      /\ {b \in {"NX"} : \E d \in 1 .. p : b \in e[d].bits}
           = {b \in {"NX"} : \E d \in 1 .. p : b \in At(m, r, v, d).bits}
  BY <1>3
<1>5. e[p] = At(m, r, v, p)
  BY <1>3
<1> QED
  BY <1>2, <1>4, <1>5, Zenon DEF Rights

\* Two walks that end at the same depth, on entries that agree, translate alike.
LEMMA SimilarWalks ==
  ASSUME NEW m, NEW r, NEW n, NEW s, NEW v, r # 0, s # 0,
         \A d \in 1 .. 4 : Walk(m, r, v)[d] = 0 <=> Walk(n, s, v)[d] = 0,
         \A d \in 1 .. 4 : Walk(m, r, v)[d] # 0 =>
           /\ Present(At(m, r, v, d)) <=> Present(At(n, s, v, d))
           /\ Present(At(m, r, v, d)) => At(m, r, v, d).bits = At(n, s, v, d).bits
           /\ Present(At(m, r, v, d)) /\ (d < 4 => Walk(m, r, v)[d + 1] = 0) =>
                At(m, r, v, d).to = At(n, s, v, d).to
  PROVE  TranslationIn(m, r, v) = TranslationIn(n, s, v)
<1>1. PICK p \in 1 .. 4 : /\ p = Deepest(Walk(m, r, v))
                          /\ \A d \in 1 .. 4 : Walk(m, r, v)[d] # 0 <=> d <= p
  BY DeepestFacts
<1>2. PICK q \in 1 .. 4 : /\ q = Deepest(Walk(n, s, v))
                          /\ \A d \in 1 .. 4 : Walk(n, s, v)[d] # 0 <=> d <= q
  BY DeepestFacts
<1>3. p = q
  <2>1. \A d \in 1 .. 4 : d <= p <=> d <= q
    BY <1>1, <1>2
  <2>2. p <= q /\ q <= p
    BY <2>1
  <2> QED
    BY <2>2
<1>4. Walk(m, r, v)[p] # 0
  BY <1>1
<1>5. CASE ~Present(At(m, r, v, p))
  <2>1. ~Present(At(n, s, v, q))
    BY <1>3, <1>4, <1>5
  <2> QED
    BY <1>1, <1>2, <1>5, <2>1, TranslationFacts
<1>6. CASE Present(At(m, r, v, p))
  <2>1. Present(At(n, s, v, q))
    BY <1>3, <1>4, <1>6
  <2>2. p < 4 => Walk(m, r, v)[p + 1] = 0
    <3> SUFFICES ASSUME p < 4 PROVE Walk(m, r, v)[p + 1] = 0
      OBVIOUS
    <3>1. p + 1 \in 1 .. 4 /\ ~(p + 1 <= p)
      OBVIOUS
    <3> QED
      BY <1>1, <3>1
  <2>3. At(m, r, v, p).to = At(n, s, v, p).to
    BY <1>4, <1>6, <2>2
  <2>4. \A d \in 1 .. p : Present(At(m, r, v, d))
    <3> SUFFICES ASSUME NEW d \in 1 .. p, d < p PROVE Present(At(m, r, v, d))
      BY <1>6
    <3>1. d \in 1 .. 3 /\ d + 1 \in 1 .. 4 /\ d + 1 <= p
      OBVIOUS
    <3>2. Walk(m, r, v)[d] # 0 /\ Walk(m, r, v)[d + 1] # 0
      BY <1>1, <3>1
    <3>3. Leads(At(m, r, v, d), 5 - d)
      BY <3>1, <3>2, WalkGoesOn
    <3> QED
      BY <3>3 DEF Leads
  <2>5. \A d \in 1 .. p : At(m, r, v, d).bits = At(n, s, v, d).bits
    <3> SUFFICES ASSUME NEW d \in 1 .. p PROVE At(m, r, v, d).bits = At(n, s, v, d).bits
      OBVIOUS
    <3>1. d \in 1 .. 4 /\ d <= p
      OBVIOUS
    <3> QED
      BY <1>1, <2>4, <3>1
  <2>6. Rights(m, r, v, p) = Rights(n, s, v, p)
    BY <2>5 DEF Rights
  <2>7. TranslationIn(m, r, v) =
          [to |-> At(m, r, v, p).to, depth |-> p, rights |-> Rights(m, r, v, p)]
    BY <1>1, <1>6, TranslationFacts
  <2>8. TranslationIn(n, s, v) =
          [to |-> At(n, s, v, p).to, depth |-> p, rights |-> Rights(n, s, v, p)]
    BY <1>2, <1>3, <2>1, TranslationFacts
  <2> QED
    BY <2>3, <2>6, <2>7, <2>8
<1> QED
  BY <1>5, <1>6

\* A translation to a page is one of a walk through four tables.
LEMMA MappedFacts ==
  ASSUME NEW m, NEW r, NEW v, r # 0
  PROVE  /\ (\E d \in 1 .. 4 : Walk(m, r, v)[d] # 0 /\ ~Present(At(m, r, v, d))) =>
              TranslationIn(m, r, v) = Unmapped
         /\ \A d \in 1 .. 4 :
              /\ Walk(m, r, v)[d] # 0 /\ Present(At(m, r, v, d))
              /\ d < 4 => Walk(m, r, v)[d + 1] = 0
              => TranslationIn(m, r, v) # Unmapped /\ TranslationIn(m, r, v).depth = d
<1>1. PICK p \in 1 .. 4 : /\ p = Deepest(Walk(m, r, v))
                          /\ \A d \in 1 .. 4 : Walk(m, r, v)[d] # 0 <=> d <= p
  BY DeepestFacts
<1>2. ASSUME NEW d \in 1 .. 4, Walk(m, r, v)[d] # 0, ~Present(At(m, r, v, d))
      PROVE  TranslationIn(m, r, v) = Unmapped
  <2>1. d <= p
    BY <1>1, <1>2
  <2>2. CASE d < p
    <3>1. d \in 1 .. 3 /\ d + 1 \in 1 .. 4 /\ d + 1 <= p
      BY <2>2
    <3>2. Walk(m, r, v)[d + 1] # 0
      BY <1>1, <3>1
    <3>3. Leads(At(m, r, v, d), 5 - d)
      BY <1>2, <3>1, <3>2, WalkGoesOn
    <3> QED
      BY <1>2, <3>3 DEF Leads
  <2>3. CASE d = p
    BY <1>1, <1>2, <2>3, TranslationFacts
  <2> QED
    BY <2>1, <2>2, <2>3
<1>3. ASSUME NEW d \in 1 .. 4, Walk(m, r, v)[d] # 0, Present(At(m, r, v, d)),
             d < 4 => Walk(m, r, v)[d + 1] = 0
      PROVE  TranslationIn(m, r, v) # Unmapped /\ TranslationIn(m, r, v).depth = d
  <2>1. d = p
    <3>1. d <= p
      BY <1>1, <1>3
    <3>2. CASE d < p
      <4>1. d < 4 /\ d + 1 \in 1 .. 4 /\ d + 1 <= p
        BY <3>2
      <4> QED
        BY <1>1, <1>3, <4>1
    <3> QED
      BY <3>1, <3>2
  <2>2. TranslationIn(m, r, v) =
          [to |-> At(m, r, v, d).to, depth |-> d, rights |-> Rights(m, r, v, d)]
    BY <1>1, <1>3, <2>1, TranslationFacts
  <2>3. TranslationIn(m, r, v).depth = d /\ Unmapped.depth = 0
    BY <2>2 DEF Unmapped
  <2> QED
    BY <2>3
<1> QED
  BY <1>2, <1>3

(***************************************************************************)
(* The tables reached from a root r in memory m stand on levels.           *)
(***************************************************************************)
Tree(m, r, lev) ==
  /\ lev \in [DOMAIN lev -> 1 .. 4]
  /\ DOMAIN lev \subseteq Nat \ {0}
  /\ r \in DOMAIN lev /\ lev[r] = 4
  /\ \A t \in DOMAIN lev : t \in DOMAIN m /\ m[t] \in [Index -> Entry]
  /\ \A t \in DOMAIN lev, i \in Index :
       Leads(m[t][i], lev[t]) =>
         m[t][i].to \in DOMAIN lev /\ lev[m[t][i].to] = lev[t] - 1

\* No two entries lead to one table.
Unshared(m, lev) ==
  \A t, u \in DOMAIN lev, i, j \in Index :
    /\ Leads(m[t][i], lev[t]) /\ Leads(m[u][j], lev[u])
    /\ m[t][i].to = m[u][j].to
    => t = u /\ i = j

LEMMA WalkDown ==
  ASSUME NEW m, NEW r, NEW lev, Tree(m, r, lev), NEW v \in Path, NEW d \in 1 .. 3,
         Walk(m, r, v)[d] # 0 =>
           Walk(m, r, v)[d] \in DOMAIN lev /\ lev[Walk(m, r, v)[d]] = 5 - d
  PROVE  Walk(m, r, v)[d + 1] # 0 =>
           Walk(m, r, v)[d + 1] \in DOMAIN lev /\ lev[Walk(m, r, v)[d + 1]] = 5 - (d + 1)
<1> SUFFICES ASSUME Walk(m, r, v)[d + 1] # 0
             PROVE  Walk(m, r, v)[d + 1] \in DOMAIN lev /\ lev[Walk(m, r, v)[d + 1]] = 5 - (d + 1)
  OBVIOUS
<1>1. /\ Walk(m, r, v)[d] # 0 /\ Leads(At(m, r, v, d), 5 - d)
      /\ Walk(m, r, v)[d + 1] = At(m, r, v, d).to
  BY WalkGoesOn
<1>2. PICK t \in DOMAIN lev : t = Walk(m, r, v)[d] /\ lev[t] = 5 - d
  BY <1>1
<1>3. PICK i \in Index : i = v[d]
  BY DEF Path
<1>4. At(m, r, v, d) = m[t][i]
  BY <1>2, <1>3 DEF At, ContentsIn, Tree
<1>5. m[t][i].to \in DOMAIN lev /\ lev[m[t][i].to] = (5 - d) - 1
  BY <1>1, <1>2, <1>4 DEF Tree
<1> QED
  BY <1>1, <1>4, <1>5

\* A walk stays on the tables and goes down one level at a time.
LEMMA WalkIn ==
  ASSUME NEW m, NEW r, NEW lev, Tree(m, r, lev), NEW v \in Path
  PROVE  /\ r # 0 /\ Walk(m, r, v)[1] = r
         /\ \A d \in 1 .. 4 : Walk(m, r, v)[d] # 0 =>
              /\ Walk(m, r, v)[d] \in DOMAIN lev /\ lev[Walk(m, r, v)[d]] = 5 - d
              /\ v[d] \in Index
              /\ At(m, r, v, d) = m[Walk(m, r, v)[d]][v[d]]
              /\ At(m, r, v, d) \in Entry
<1> DEFINE P(d) == Walk(m, r, v)[d] # 0 =>
                     Walk(m, r, v)[d] \in DOMAIN lev /\ lev[Walk(m, r, v)[d]] = 5 - d
<1>1. r # 0 /\ Walk(m, r, v)[1] = r
  BY WalkSteps DEF Tree
<1>2. P(1)
  BY <1>1 DEF Tree
<1>3. \A d \in 1 .. 3 : P(d) => P(d + 1)
  BY WalkDown
<1>4. \A d \in 1 .. 4 : P(d)
  <2> HIDE DEF P
  <2>1. P(2)
    <3>1. 1 \in 1 .. 3 /\ 1 + 1 = 2
      OBVIOUS
    <3> QED
      BY <1>2, <1>3, <3>1
  <2>2. P(3)
    <3>1. 2 \in 1 .. 3 /\ 2 + 1 = 3
      OBVIOUS
    <3> QED
      BY <1>3, <2>1, <3>1
  <2>3. P(4)
    <3>1. 3 \in 1 .. 3 /\ 3 + 1 = 4
      OBVIOUS
    <3> QED
      BY <1>3, <2>2, <3>1
  <2>4. \A d \in 1 .. 4 : d = 1 \/ d = 2 \/ d = 3 \/ d = 4
    OBVIOUS
  <2> QED
    BY <1>2, <2>1, <2>2, <2>3, <2>4
<1>5. ASSUME NEW d \in 1 .. 4, Walk(m, r, v)[d] # 0
      PROVE  /\ v[d] \in Index /\ At(m, r, v, d) = m[Walk(m, r, v)[d]][v[d]]
             /\ At(m, r, v, d) \in Entry
  <2>1. Walk(m, r, v)[d] \in DOMAIN lev
    BY <1>4, <1>5
  <2>2. PICK t \in DOMAIN lev : t = Walk(m, r, v)[d]
    BY <2>1
  <2>3. v[d] \in Index
    BY DEF Path
  <2> QED
    BY <2>2, <2>3 DEF At, ContentsIn, Tree
<1> QED
  BY <1>1, <1>4, <1>5

\* On such tables the walk goes on exactly where the entry leads on.
LEMMA WalkLeads ==
  ASSUME NEW m, NEW r, NEW lev, Tree(m, r, lev), NEW v \in Path, NEW d \in 1 .. 3,
         Walk(m, r, v)[d] # 0
  PROVE  /\ Walk(m, r, v)[d + 1] # 0 <=> Leads(At(m, r, v, d), 5 - d)
         /\ Walk(m, r, v)[d + 1] # 0 => Walk(m, r, v)[d + 1] = At(m, r, v, d).to
<1>1. ~Leads(At(m, r, v, d), 5 - d) => Walk(m, r, v)[d + 1] = 0
  BY WalkGoesOn
<1>2. Leads(At(m, r, v, d), 5 - d) => Walk(m, r, v)[d + 1] = At(m, r, v, d).to
  BY WalkGoesOn
<1>3. ASSUME Leads(At(m, r, v, d), 5 - d) PROVE At(m, r, v, d).to # 0
  <2>1. PICK t \in DOMAIN lev : t = Walk(m, r, v)[d] /\ lev[t] = 5 - d
    BY WalkIn
  <2>2. PICK i \in Index : i = v[d]
    BY DEF Path
  <2>3. At(m, r, v, d) = m[t][i]
    BY <2>1, <2>2, WalkIn
  <2>4. m[t][i].to \in DOMAIN lev
    BY <1>3, <2>1, <2>3 DEF Tree
  <2> QED
    BY <2>3, <2>4 DEF Tree
<1> QED
  BY <1>1, <1>2, <1>3

\* Two walks that read the same entry go on alike.
LEMMA WalkSame ==
  ASSUME NEW m, NEW n, NEW r, NEW v, NEW d \in 1 .. 3,
         Walk(m, r, v)[d] = Walk(n, r, v)[d],
         Walk(m, r, v)[d] # 0 => At(m, r, v, d) = At(n, r, v, d)
  PROVE  Walk(m, r, v)[d + 1] = Walk(n, r, v)[d + 1]
<1>1. CASE Walk(m, r, v)[d] = 0
  <2>1. Walk(m, r, v)[d] = 0 /\ Walk(n, r, v)[d] = 0
    BY <1>1, Zenon
  <2>2. Walk(m, r, v)[d + 1] = 0
    BY <2>1, WalkGoesOn
  <2>3. Walk(n, r, v)[d + 1] = 0
    BY <2>1, WalkGoesOn
  <2> QED
    BY <2>2, <2>3, Zenon
<1>2. CASE Walk(m, r, v)[d] # 0 /\ Leads(At(m, r, v, d), 5 - d)
  <2>1. Walk(m, r, v)[d + 1] = At(m, r, v, d).to
    BY <1>2, WalkGoesOn
  <2>2. Walk(n, r, v)[d + 1] = At(n, r, v, d).to
    BY <1>2, WalkGoesOn
  <2> QED
    BY <1>2, <2>1, <2>2
<1>3. CASE Walk(m, r, v)[d] # 0 /\ ~Leads(At(m, r, v, d), 5 - d)
  <2>1. Walk(m, r, v)[d + 1] = 0
    BY <1>3, WalkGoesOn
  <2>2. Walk(n, r, v)[d + 1] = 0
    BY <1>3, WalkGoesOn
  <2> QED
    BY <2>1, <2>2
<1> QED
  BY <1>1, <1>2, <1>3

\* Four steps.
LEMMA DepthInduction ==
  ASSUME NEW S, 1 \in S, \A d \in 1 .. 3 : d \in S => d + 1 \in S
  PROVE  \A d \in 1 .. 4 : d \in S
<1>1. 1 + 1 \in S /\ 1 + 1 = 2
  OBVIOUS
<1>2. 2 + 1 \in S /\ 2 + 1 = 3
  BY <1>1
<1>3. 3 + 1 \in S /\ 3 + 1 = 4
  BY <1>2
<1> QED
  BY <1>1, <1>2, <1>3

\* Memory that holds the same tables translates alike.
LEMMA SameTables ==
  ASSUME NEW m, NEW r, NEW lev, Tree(m, r, lev), NEW n,
         \A t \in DOMAIN lev : t \in DOMAIN n /\ n[t] = m[t]
  PROVE  /\ Tree(n, r, lev)
         /\ Unshared(m, lev) => Unshared(n, lev)
         /\ \A v \in Path, d \in 1 .. 4 : Walk(n, r, v)[d] = Walk(m, r, v)[d]
         /\ \A v \in Path : TranslationIn(n, r, v) = TranslationIn(m, r, v)
<1>1. Tree(n, r, lev) /\ (Unshared(m, lev) => Unshared(n, lev))
  BY DEF Tree, Unshared
<1>2. ASSUME NEW v \in Path, NEW d \in 1 .. 4, Walk(m, r, v)[d] = Walk(n, r, v)[d],
             Walk(m, r, v)[d] # 0
      PROVE  At(m, r, v, d) = At(n, r, v, d)
  <2>1. Walk(m, r, v)[d] \in DOMAIN lev /\ At(m, r, v, d) = m[Walk(m, r, v)[d]][v[d]]
    BY <1>2, WalkIn
  <2>2. At(n, r, v, d) = n[Walk(n, r, v)[d]][v[d]]
    BY <1>1, <1>2, WalkIn
  <2> QED
    BY <1>2, <2>1, <2>2
<1>3. ASSUME NEW v \in Path PROVE \A d \in 1 .. 4 : Walk(m, r, v)[d] = Walk(n, r, v)[d]
  <2>1. PICK S : S = {d \in 1 .. 4 : Walk(m, r, v)[d] = Walk(n, r, v)[d]}
    OBVIOUS
  <2>2. 1 \in S
    BY <2>1, WalkSteps
  <2>3. ASSUME NEW d \in 1 .. 3, d \in S PROVE d + 1 \in S
    <3>1. Walk(m, r, v)[d + 1] = Walk(n, r, v)[d + 1]
      BY <1>2, <2>1, <2>3, WalkSame
    <3> QED
      BY <2>1, <3>1
  <2> QED
    BY <2>1, <2>2, <2>3, DepthInduction
<1>4. ASSUME NEW v \in Path PROVE TranslationIn(n, r, v) = TranslationIn(m, r, v)
  <2>1. r # 0
    BY DEF Tree
  <2>2. \A d \in 1 .. 4 : Walk(m, r, v)[d] # 0 => At(m, r, v, d) = At(n, r, v, d)
    BY <1>2, <1>3
  <2> QED
    BY <1>3, <2>1, <2>2, SimilarWalks
<1> QED
  BY <1>1, <1>3, <1>4

\* Where no two entries lead to one table, two walks that meet have come the
\* same way.
LEMMA WalkUp ==
  ASSUME NEW m, NEW r, NEW lev, Tree(m, r, lev), Unshared(m, lev),
         NEW v \in Path, NEW u \in Path, NEW d \in 1 .. 3,
         Walk(m, r, v)[d + 1] # 0, Walk(m, r, u)[d + 1] = Walk(m, r, v)[d + 1]
  PROVE  Walk(m, r, v)[d] # 0 /\ Walk(m, r, u)[d] = Walk(m, r, v)[d] /\ v[d] = u[d]
<1>1. Walk(m, r, v)[d] # 0 /\ Walk(m, r, u)[d] # 0
  BY WalkGoesOn
<1>2. PICK t \in DOMAIN lev : t = Walk(m, r, v)[d] /\ lev[t] = 5 - d
  BY <1>1, WalkIn
<1>3. PICK w \in DOMAIN lev : w = Walk(m, r, u)[d] /\ lev[w] = 5 - d
  BY <1>1, WalkIn
<1>4. PICK i \in Index : i = v[d]
  BY DEF Path
<1>5. PICK j \in Index : j = u[d]
  BY DEF Path
<1>6. At(m, r, v, d) = m[t][i] /\ At(m, r, u, d) = m[w][j]
  BY <1>1, <1>2, <1>3, <1>4, <1>5, WalkIn
<1>7. Leads(m[t][i], 5 - d) /\ m[t][i].to = Walk(m, r, v)[d + 1]
  BY <1>1, <1>6, WalkLeads
<1>8. Leads(m[w][j], 5 - d) /\ m[w][j].to = Walk(m, r, u)[d + 1]
  BY <1>1, <1>6, WalkLeads
<1>9. t = w /\ i = j
  BY <1>2, <1>3, <1>7, <1>8 DEF Unshared
<1> QED
  BY <1>1, <1>2, <1>3, <1>4, <1>5, <1>9

LEMMA SameWay ==
  ASSUME NEW m, NEW r, NEW lev, Tree(m, r, lev), Unshared(m, lev),
         NEW v \in Path, NEW u \in Path, Walk(m, r, v)[4] # 0,
         Walk(m, r, u)[4] = Walk(m, r, v)[4], u[4] = v[4]
  PROVE  u = v
<1>1. PICK w : w = Walk(m, r, v)
  OBVIOUS
<1>2. PICK x : x = Walk(m, r, u)
  OBVIOUS
<1>3. \A d \in 1 .. 3 : w[d + 1] # 0 /\ x[d + 1] = w[d + 1] =>
                        w[d] # 0 /\ x[d] = w[d] /\ v[d] = u[d]
  BY <1>1, <1>2, WalkUp
<1>4. w[3 + 1] # 0 /\ x[3 + 1] = w[3 + 1]
  BY <1>1, <1>2
<1>5. w[2 + 1] # 0 /\ x[2 + 1] = w[2 + 1] /\ v[3] = u[3]
  BY <1>3, <1>4
<1>6. w[1 + 1] # 0 /\ x[1 + 1] = w[1 + 1] /\ v[2] = u[2]
  BY <1>3, <1>5
<1>7. v[1] = u[1]
  BY <1>3, <1>6
<1>8. \A d \in 1 .. 4 : u[d] = v[d]
  BY <1>5, <1>6, <1>7
<1> QED
  BY <1>8 DEF Path

\* n is memory m with another entry i in table t.
Differs(m, n, D, t, i) ==
  \A u \in D, j \in Index : u # t \/ j # i => n[u][j] = m[u][j]

\* An entry of a table of the last level is written: pages mapped anew are mapped
\* by all four levels, and there is but one if no two entries lead to one table.
LEMMA LastEntryWritten ==
  ASSUME NEW m, NEW r, NEW lev, Tree(m, r, lev),
         NEW v \in Path, NEW t \in DOMAIN lev, t = Walk(m, r, v)[4], lev[t] = 1,
         NEW n, Differs(m, n, DOMAIN lev, t, v[4]),
         \A u \in DOMAIN lev : u \in DOMAIN n /\ n[u] \in [Index -> Entry]
  PROVE  /\ Tree(n, r, lev) /\ (Unshared(m, lev) => Unshared(n, lev))
         /\ \A u \in Path :
              \/ TranslationIn(n, r, u) \in {Unmapped, TranslationIn(m, r, u)}
              \/ TranslationIn(n, r, u).depth = 4
         /\ Unshared(m, lev) =>
              \A u \in Path : u # v => TranslationIn(n, r, u) = TranslationIn(m, r, u)
<1>1. \A e : ~Leads(e, 1)
  BY DEF Leads
<1>2. \A u \in DOMAIN lev, j \in Index :
        /\ Leads(n[u][j], lev[u]) <=> Leads(m[u][j], lev[u])
        /\ Leads(m[u][j], lev[u]) => n[u][j] = m[u][j]
  <2> SUFFICES ASSUME NEW u \in DOMAIN lev, NEW j \in Index
               PROVE  /\ Leads(n[u][j], lev[u]) <=> Leads(m[u][j], lev[u])
                      /\ Leads(m[u][j], lev[u]) => n[u][j] = m[u][j]
    OBVIOUS
  <2>1. CASE u = t
    BY <1>1, <2>1
  <2>2. CASE u # t
    BY <2>2 DEF Differs
  <2> QED
    BY <2>1, <2>2
<1>3. Tree(n, r, lev)
  BY <1>2 DEF Tree
<1>4. Unshared(m, lev) => Unshared(n, lev)
  BY <1>2 DEF Unshared
<1>5. ASSUME NEW u \in Path, NEW d \in 1 .. 4, Walk(m, r, u)[d] = Walk(n, r, u)[d],
             Walk(m, r, u)[d] # 0,
             d # 4 \/ (Unshared(m, lev) /\ u # v)
      PROVE  At(m, r, u, d) = At(n, r, u, d)
  <2>1. PICK w \in DOMAIN lev : w = Walk(m, r, u)[d] /\ lev[w] = 5 - d
    BY <1>5, WalkIn
  <2>2. PICK j \in Index : j = u[d]
    BY DEF Path
  <2>3. At(m, r, u, d) = m[w][j]
    BY <1>5, <2>1, <2>2, WalkIn
  <2>4. At(n, r, u, d) = n[w][j]
    BY <1>3, <1>5, <2>1, <2>2, WalkIn
  <2>5. w # t \/ j # v[4]
    <3> SUFFICES ASSUME w = t, j = v[4] PROVE FALSE
      OBVIOUS
    <3>1. d = 4
      BY <2>1
    <3>2. u[4] = v[4] /\ Walk(m, r, u)[4] = Walk(m, r, v)[4] /\ Walk(m, r, v)[4] # 0
      BY <1>5, <2>1, <2>2, <3>1
    <3> QED
      BY <1>5, <3>1, <3>2, SameWay
  <2> QED
    BY <2>3, <2>4, <2>5 DEF Differs
<1>6. ASSUME NEW u \in Path PROVE \A d \in 1 .. 4 : Walk(m, r, u)[d] = Walk(n, r, u)[d]
  <2>1. PICK S : S = {d \in 1 .. 4 : Walk(m, r, u)[d] = Walk(n, r, u)[d]}
    OBVIOUS
  <2>2. 1 \in S
    BY <2>1, WalkSteps
  <2>3. ASSUME NEW d \in 1 .. 3, d \in S PROVE d + 1 \in S
    <3>1. d \in 1 .. 4 /\ d # 4 /\ Walk(m, r, u)[d] = Walk(n, r, u)[d]
      BY <2>1, <2>3
    <3>2. Walk(m, r, u)[d] # 0 => At(m, r, u, d) = At(n, r, u, d)
      BY <1>5, <3>1
    <3>3. Walk(m, r, u)[d + 1] = Walk(n, r, u)[d + 1]
      BY <3>1, <3>2, WalkSame
    <3> QED
      BY <2>1, <3>3
  <2> QED
    BY <2>1, <2>2, <2>3, DepthInduction
<1>7. r # 0
  BY DEF Tree
<1>8. ASSUME NEW u \in Path
      PROVE  \/ TranslationIn(n, r, u) \in {Unmapped, TranslationIn(m, r, u)}
             \/ TranslationIn(n, r, u).depth = 4
  <2>1. CASE Walk(n, r, u)[4] # 0
    <3>1. 4 \in 1 .. 4 /\ ~(4 < 4)
      OBVIOUS
    <3> QED
      BY <1>7, <2>1, <3>1, MappedFacts
  <2>2. CASE Walk(n, r, u)[4] = 0
    <3>1. \A d \in 1 .. 4 : Walk(m, r, u)[d] # 0 => d # 4
      BY <1>6, <2>2
    <3>2. \A d \in 1 .. 4 : Walk(m, r, u)[d] # 0 => At(m, r, u, d) = At(n, r, u, d)
      BY <1>5, <1>6, <3>1
    <3>3. TranslationIn(m, r, u) = TranslationIn(n, r, u)
      BY <1>6, <1>7, <3>2, SimilarWalks
    <3> QED
      BY <3>3
  <2> QED
    BY <2>1, <2>2
<1>9. ASSUME Unshared(m, lev), NEW u \in Path, u # v
      PROVE  TranslationIn(n, r, u) = TranslationIn(m, r, u)
  <2>1. \A d \in 1 .. 4 : Walk(m, r, u)[d] # 0 => At(m, r, u, d) = At(n, r, u, d)
    BY <1>5, <1>6, <1>9
  <2> QED
    BY <1>6, <1>7, <2>1, SimilarWalks
<1> QED
  BY <1>3, <1>4, <1>8, <1>9

\* The levels with a table f more, which is linked into table t.
Deeper(lev, f, t) == [g \in DOMAIN lev \cup {f} |-> IF g = f THEN lev[t] - 1 ELSE lev[g]]

\* n is memory m with an empty table f that entry i of table t leads to.
Grown(m, n, D, t, i, f) ==
  /\ f \in DOMAIN n /\ n[f] = ZeroTable
  /\ Differs(m, n, D, t, i)
  /\ n[t][i] = [to |-> f, bits |-> {"PRESENT", "WRITE"}]
  /\ \A u \in D : u \in DOMAIN n /\ n[u] \in [Index -> Entry]

LEMMA GrownTree ==
  ASSUME NEW m, NEW r, NEW lev, Tree(m, r, lev), NEW t \in DOMAIN lev, lev[t] # 1,
         NEW i \in Index, ~Present(m[t][i]), NEW f \in Nat \ {0}, f \notin DOMAIN lev,
         NEW n, Grown(m, n, DOMAIN lev, t, i, f), NEW new, new = Deeper(lev, f, t)
  PROVE  /\ Tree(n, r, new)
         /\ Unshared(m, lev) => Unshared(n, new)
<1>1. PICK l \in 2 .. 4 : l = lev[t]
  <2>1. lev[t] \in 1 .. 4
    BY DEF Tree
  <2> QED
    BY <2>1
<1>2. DOMAIN new = DOMAIN lev \cup {f} /\ new[f] = l - 1 /\ \A u \in DOMAIN lev : new[u] = lev[u]
  BY <1>1 DEF Deeper
<1>3. new \in [DOMAIN lev \cup {f} -> 1 .. 4]
  <2>1. l - 1 \in 1 .. 4
    OBVIOUS
  <2>2. \A u \in DOMAIN lev : lev[u] \in 1 .. 4
    BY DEF Tree
  <2>3. new = [g \in DOMAIN lev \cup {f} |-> IF g = f THEN l - 1 ELSE lev[g]]
    BY <1>1 DEF Deeper
  <2> QED
    BY <2>1, <2>2, <2>3
<1>4. \A j \in Index : \A x : ~Leads(n[f][j], x)
  BY DEF Grown, ZeroTable, Zero, Leads, Present
<1>5. ~Leads(m[t][i], l) /\ Leads(n[t][i], l) /\ n[t][i].to = f
  BY <1>1 DEF Grown, Leads, Present
<1>6. ASSUME NEW u \in DOMAIN new, NEW j \in Index, Leads(n[u][j], new[u])
      PROVE  /\ u \in DOMAIN lev /\ new[u] = lev[u]
             /\ (u = t /\ j = i) \/ (n[u][j] = m[u][j] /\ Leads(m[u][j], lev[u]))
  <2>1. u \in DOMAIN lev /\ new[u] = lev[u]
    BY <1>2, <1>4, <1>6
  <2> QED
    BY <1>6, <2>1 DEF Grown, Differs
<1>7. ASSUME NEW u \in DOMAIN new, NEW j \in Index, Leads(n[u][j], new[u])
      PROVE  n[u][j].to \in DOMAIN new /\ new[n[u][j].to] = new[u] - 1
  <2>1. CASE u = t /\ j = i
    BY <1>1, <1>2, <1>5, <1>6, <1>7, <2>1
  <2>2. CASE n[u][j] = m[u][j] /\ Leads(m[u][j], lev[u])
    <3>1. u \in DOMAIN lev /\ new[u] = lev[u]
      BY <1>6, <1>7
    <3>2. m[u][j].to \in DOMAIN lev /\ lev[m[u][j].to] = lev[u] - 1
      BY <2>2, <3>1 DEF Tree
    <3> QED
      BY <1>2, <2>2, <3>1, <3>2
  <2> QED
    BY <1>6, <1>7, <2>1, <2>2
<1>8. Tree(n, r, new)
  <2>1. \A u \in DOMAIN new : u \in DOMAIN n /\ n[u] \in [Index -> Entry]
    BY <1>2, EntriesTyped DEF Grown
  <2>2. new \in [DOMAIN new -> 1 .. 4] /\ DOMAIN new \subseteq Nat \ {0}
    BY <1>2, <1>3 DEF Tree
  <2>3. r \in DOMAIN new /\ new[r] = 4
    BY <1>2 DEF Tree
  <2> QED
    BY <1>7, <2>1, <2>2, <2>3 DEF Tree
<1>9. ASSUME Unshared(m, lev) PROVE Unshared(n, new)
  <2> SUFFICES ASSUME NEW u \in DOMAIN new, NEW w \in DOMAIN new, NEW j \in Index, NEW k \in Index,
                      Leads(n[u][j], new[u]), Leads(n[w][k], new[w]), n[u][j].to = n[w][k].to
               PROVE  u = w /\ j = k
    BY DEF Unshared
  <2>1. \A x \in DOMAIN lev, h \in Index : Leads(m[x][h], lev[x]) => m[x][h].to # f
    BY DEF Tree
  <2>2. u \in DOMAIN lev /\ w \in DOMAIN lev
    BY <1>6
  <2>3. (u = t /\ j = i) \/ (n[u][j] = m[u][j] /\ Leads(m[u][j], lev[u]))
    BY <1>6
  <2>4. (w = t /\ k = i) \/ (n[w][k] = m[w][k] /\ Leads(m[w][k], lev[w]))
    BY <1>6
  <2>5. CASE u = t /\ j = i
    BY <1>5, <2>1, <2>2, <2>4, <2>5
  <2>6. CASE w = t /\ k = i
    BY <1>5, <2>1, <2>2, <2>3, <2>6
  <2>7. CASE /\ n[u][j] = m[u][j] /\ Leads(m[u][j], lev[u])
             /\ n[w][k] = m[w][k] /\ Leads(m[w][k], lev[w])
    BY <1>9, <2>2, <2>7 DEF Unshared
  <2> QED
    BY <2>3, <2>4, <2>5, <2>6, <2>7
<1> QED
  BY <1>8, <1>9

\* A new empty table maps nothing, and nothing was mapped where it is linked in.
LEMMA GrownWalks ==
  ASSUME NEW m, NEW r, NEW lev, Tree(m, r, lev), NEW t \in DOMAIN lev, lev[t] # 1,
         NEW i \in Index, ~Present(m[t][i]), NEW f \in Nat \ {0}, f \notin DOMAIN lev,
         NEW n, Grown(m, n, DOMAIN lev, t, i, f), NEW v \in Path
  PROVE  /\ \A d \in 1 .. 3 : Walk(m, r, v)[d] = t /\ v[d] = i => Walk(n, r, v)[d + 1] = f
         /\ TranslationIn(n, r, v) = TranslationIn(m, r, v)
<1>1. PICK new : new = Deeper(lev, f, t)
  OBVIOUS
<1>2. /\ Tree(n, r, new) /\ DOMAIN new = DOMAIN lev \cup {f}
      /\ \A u \in DOMAIN lev : new[u] = lev[u]
  <2>1. Tree(n, r, new)
    BY <1>1, GrownTree
  <2> QED
    BY <1>1, <2>1 DEF Deeper
<1>3. ASSUME NEW d \in 1 .. 4, Walk(m, r, v)[d] # 0, Walk(n, r, v)[d] = Walk(m, r, v)[d],
             ~(Walk(m, r, v)[d] = t /\ v[d] = i)
      PROVE  At(m, r, v, d) = At(n, r, v, d)
  <2>1. PICK u \in DOMAIN lev : u = Walk(m, r, v)[d]
    BY <1>3, WalkIn
  <2>2. PICK j \in Index : j = v[d]
    BY DEF Path
  <2>3. At(m, r, v, d) = m[u][j]
    BY <1>3, <2>1, <2>2, WalkIn
  <2>4. At(n, r, v, d) = n[u][j]
    BY <1>2, <1>3, <2>1, <2>2, WalkIn
  <2> QED
    BY <1>3, <2>1, <2>2, <2>3, <2>4 DEF Grown, Differs
<1>4. \A d \in 1 .. 4 : Walk(m, r, v)[d] # 0 => Walk(n, r, v)[d] = Walk(m, r, v)[d]
  <2>1. PICK S : S = {d \in 1 .. 4 : Walk(m, r, v)[d] # 0 => Walk(n, r, v)[d] = Walk(m, r, v)[d]}
    OBVIOUS
  <2>2. 1 \in S
    BY <2>1, WalkSteps
  <2>3. ASSUME NEW d \in 1 .. 3, d \in S PROVE d + 1 \in S
    <3> SUFFICES ASSUME Walk(m, r, v)[d + 1] # 0
                 PROVE  Walk(n, r, v)[d + 1] = Walk(m, r, v)[d + 1]
      BY <2>1
    <3>1. Walk(m, r, v)[d] # 0 /\ Leads(At(m, r, v, d), 5 - d)
      BY WalkGoesOn
    <3>2. Walk(n, r, v)[d] = Walk(m, r, v)[d]
      BY <2>1, <2>3, <3>1
    <3>3. ~(Walk(m, r, v)[d] = t /\ v[d] = i)
      <4> SUFFICES ASSUME Walk(m, r, v)[d] = t, v[d] = i PROVE FALSE
        OBVIOUS
      <4>1. At(m, r, v, d) = m[t][i]
        BY <3>1, WalkIn
      <4> QED
        BY <3>1, <4>1 DEF Leads
    <3>4. At(m, r, v, d) = At(n, r, v, d)
      BY <1>3, <3>1, <3>2, <3>3
    <3> QED
      BY <3>2, <3>4, WalkSame
  <2> QED
    BY <2>1, <2>2, <2>3, DepthInduction
<1>5. t # 0 /\ r # 0
  BY DEF Tree
<1>6. ASSUME NEW d \in 1 .. 4, Walk(m, r, v)[d] = t, v[d] = i
      PROVE  /\ d \in 1 .. 3 /\ Walk(n, r, v)[d + 1] = f
             /\ TranslationIn(n, r, v) = Unmapped /\ TranslationIn(m, r, v) = Unmapped
  <2>1. lev[t] = 5 - d /\ At(m, r, v, d) = m[t][i]
    BY <1>5, <1>6, WalkIn
  <2>2. d \in 1 .. 3
    BY <2>1
  <2>3. TranslationIn(m, r, v) = Unmapped
    BY <1>5, <1>6, <2>1, MappedFacts
  <2>4. Walk(n, r, v)[d] = t
    BY <1>4, <1>5, <1>6
  <2>5. At(n, r, v, d) = n[t][i]
    BY <1>2, <1>5, <1>6, <2>4, WalkIn
  <2>6. At(n, r, v, d).to = f /\ Leads(At(n, r, v, d), 5 - d)
    <3>1. 5 - d \in {2, 3, 4}
      BY <2>2
    <3>2. At(n, r, v, d) = [to |-> f, bits |-> {"PRESENT", "WRITE"}]
      BY <2>5 DEF Grown
    <3> QED
      BY <3>1, <3>2 DEF Leads, Present
  <2>7. Walk(n, r, v)[d + 1] = f
    BY <1>5, <2>2, <2>4, <2>6, WalkGoesOn
  <2>8. d + 1 \in 1 .. 4
    BY <2>2
  <2>9. PICK j \in Index : j = v[d + 1]
    BY <2>8 DEF Path
  <2>10. At(n, r, v, d + 1) = n[f][j]
    BY <1>2, <2>7, <2>8, <2>9, WalkIn
  <2>11. ~Present(At(n, r, v, d + 1))
    BY <2>10 DEF Grown, ZeroTable, Zero, Present
  <2>12. TranslationIn(n, r, v) = Unmapped
    BY <1>5, <2>7, <2>8, <2>11, MappedFacts
  <2> QED
    BY <2>2, <2>3, <2>7, <2>12
<1>7. CASE \E d \in 1 .. 4 : Walk(m, r, v)[d] = t /\ v[d] = i
  BY <1>6, <1>7
<1>8. CASE \A d \in 1 .. 4 : ~(Walk(m, r, v)[d] = t /\ v[d] = i)
  <2>1. PICK S : S = {d \in 1 .. 4 : Walk(m, r, v)[d] = Walk(n, r, v)[d]}
    OBVIOUS
  <2>2. 1 \in S
    BY <2>1, WalkSteps
  <2>3. ASSUME NEW d \in 1 .. 3, d \in S PROVE d + 1 \in S
    <3>1. Walk(m, r, v)[d] = Walk(n, r, v)[d] /\ d \in 1 .. 4
      BY <2>1, <2>3
    <3>2. Walk(m, r, v)[d] # 0 => At(m, r, v, d) = At(n, r, v, d)
      BY <1>3, <1>8, <3>1
    <3>3. Walk(m, r, v)[d + 1] = Walk(n, r, v)[d + 1]
      BY <3>1, <3>2, WalkSame
    <3> QED
      BY <2>1, <3>3
  <2>4. \A d \in 1 .. 4 : Walk(m, r, v)[d] = Walk(n, r, v)[d]
    BY <2>1, <2>2, <2>3, DepthInduction
  <2>5. \A d \in 1 .. 4 : Walk(m, r, v)[d] # 0 => At(m, r, v, d) = At(n, r, v, d)
    BY <1>3, <1>8, <2>4
  <2>6. TranslationIn(m, r, v) = TranslationIn(n, r, v)
    BY <1>5, <2>4, <2>5, SimilarWalks
  <2>7. \A d \in 1 .. 3 : d \in 1 .. 4
    OBVIOUS
  <2> QED
    BY <1>8, <2>6, <2>7
<1> QED
  BY <1>7, <1>8

\* Entry e of a copied table, next to the entry o of the original one level
\* `level`: it is the same one, or leads to a copy of the table o leads to.
LikeEntry(org, e, o, level) ==
  /\ ~Present(o) => ~Present(e)
  /\ Present(o) /\ ~Leads(o, level) => e = o
  /\ Leads(o, level) => e.bits = o.bits /\ org[e.to] = o.to

\* The tables from s on in n are a copy of those from r on in m.
LEMMA CopyTranslates ==
  ASSUME NEW m, NEW r, NEW lev, Tree(m, r, lev), NEW n, NEW s, NEW new, Tree(n, s, new),
         NEW org, org[s] = r,
         \A f \in DOMAIN new : org[f] \in DOMAIN lev /\ lev[org[f]] = new[f],
         \A f \in DOMAIN new, i \in Index : LikeEntry(org, n[f][i], m[org[f]][i], new[f]),
         NEW v \in Path
  PROVE  TranslationIn(n, s, v) = TranslationIn(m, r, v)
<1>1. r # 0 /\ s # 0 /\ 0 \notin DOMAIN lev /\ 0 \notin DOMAIN new
  BY DEF Tree
<1>2. ASSUME NEW d \in 1 .. 4, Walk(n, s, v)[d] # 0, org[Walk(n, s, v)[d]] = Walk(m, r, v)[d]
      PROVE  LikeEntry(org, At(n, s, v, d), At(m, r, v, d), 5 - d)
  <2>1. PICK f \in DOMAIN new : f = Walk(n, s, v)[d] /\ new[f] = 5 - d
    BY <1>2, WalkIn
  <2>2. PICK i \in Index : i = v[d]
    BY DEF Path
  <2>3. At(n, s, v, d) = n[f][i]
    BY <1>2, <2>1, <2>2, WalkIn
  <2>4. Walk(m, r, v)[d] = org[f] /\ org[f] # 0
    BY <1>1, <1>2, <2>1
  <2>5. At(m, r, v, d) = m[org[f]][i]
    BY <2>2, <2>4, WalkIn
  <2> QED
    BY <2>1, <2>3, <2>5
<1>3. \A d \in 1 .. 4 : /\ Walk(m, r, v)[d] = 0 <=> Walk(n, s, v)[d] = 0
                        /\ Walk(n, s, v)[d] # 0 => org[Walk(n, s, v)[d]] = Walk(m, r, v)[d]
  <2>1. PICK S : S = {d \in 1 .. 4 : /\ Walk(m, r, v)[d] = 0 <=> Walk(n, s, v)[d] = 0
                                     /\ Walk(n, s, v)[d] # 0 =>
                                          org[Walk(n, s, v)[d]] = Walk(m, r, v)[d]}
    OBVIOUS
  <2>2. 1 \in S
    <3>1. Walk(m, r, v)[1] = r /\ Walk(n, s, v)[1] = s
      BY WalkSteps
    <3> QED
      BY <1>1, <2>1, <3>1
  <2>3. ASSUME NEW d \in 1 .. 3, d \in S PROVE d + 1 \in S
    <3>1. /\ Walk(m, r, v)[d] = 0 <=> Walk(n, s, v)[d] = 0
          /\ Walk(n, s, v)[d] # 0 => org[Walk(n, s, v)[d]] = Walk(m, r, v)[d]
      BY <2>1, <2>3
    <3>2. CASE Walk(n, s, v)[d] = 0
      <4>1. Walk(m, r, v)[d + 1] = 0
        BY <3>1, <3>2, WalkGoesOn
      <4>2. Walk(n, s, v)[d + 1] = 0
        BY <3>2, WalkGoesOn
      <4> QED
        BY <2>1, <4>1, <4>2
    <3>3. CASE Walk(n, s, v)[d] # 0
      <4>1. LikeEntry(org, At(n, s, v, d), At(m, r, v, d), 5 - d)
        BY <1>2, <3>1, <3>3
      <4>2. Walk(m, r, v)[d] # 0
        BY <3>1, <3>3
      <4>3. Leads(At(n, s, v, d), 5 - d) <=> Leads(At(m, r, v, d), 5 - d)
        BY <4>1 DEF LikeEntry, Leads, Present
      <4>4. /\ Walk(n, s, v)[d + 1] # 0 <=> Leads(At(n, s, v, d), 5 - d)
            /\ Walk(n, s, v)[d + 1] # 0 => Walk(n, s, v)[d + 1] = At(n, s, v, d).to
        BY <3>3, WalkLeads
      <4>5. /\ Walk(m, r, v)[d + 1] # 0 <=> Leads(At(m, r, v, d), 5 - d)
            /\ Walk(m, r, v)[d + 1] # 0 => Walk(m, r, v)[d + 1] = At(m, r, v, d).to
        BY <4>2, WalkLeads
      <4> QED
        BY <2>1, <4>1, <4>3, <4>4, <4>5 DEF LikeEntry
    <3> QED
      BY <3>2, <3>3
  <2> QED
    BY <2>1, <2>2, <2>3, DepthInduction
<1>4. ASSUME NEW d \in 1 .. 4, Walk(n, s, v)[d] # 0
      PROVE  /\ Present(At(n, s, v, d)) <=> Present(At(m, r, v, d))
             /\ Present(At(n, s, v, d)) => At(n, s, v, d).bits = At(m, r, v, d).bits
             /\ Present(At(n, s, v, d)) /\ (d < 4 => Walk(n, s, v)[d + 1] = 0) =>
                  At(n, s, v, d).to = At(m, r, v, d).to
  <2>1. LikeEntry(org, At(n, s, v, d), At(m, r, v, d), 5 - d)
    BY <1>2, <1>3, <1>4
  <2>2. Present(At(n, s, v, d)) <=> Present(At(m, r, v, d))
    BY <2>1 DEF LikeEntry, Leads, Present
  <2>3. ASSUME d < 4 => Walk(n, s, v)[d + 1] = 0 PROVE ~Leads(At(m, r, v, d), 5 - d)
    <3>1. CASE d = 4
      <4>1. 5 - d = 1
        BY <3>1
      <4> QED
        BY <4>1 DEF Leads
    <3>2. CASE d \in 1 .. 3
      <4>1. ~Leads(At(n, s, v, d), 5 - d)
        BY <1>4, <2>3, <3>2, WalkLeads
      <4> QED
        BY <2>1, <4>1 DEF LikeEntry, Leads, Present
    <3> QED
      BY <3>1, <3>2
  <2> QED
    BY <2>1, <2>2, <2>3 DEF LikeEntry
<1> QED
  BY <1>1, <1>3, <1>4, SimilarWalks

-----------------------------------------------------------------------------
(***************************************************************************)
(* The invariant                                                           *)
(***************************************************************************)

\* The levels the bootloader's tables stand on.
BootLevel == CHOOSE level \in [DOMAIN BootTables -> 1 .. 4] : Levelled(level)

Phases == {"pmm_init", "clone", "load", "reclaim", "kheap_init", "up"}

\* The boot tables are live and have not been given away.
Booting == phase \in {"pmm_init", "clone", "load"}

(* A frame is in the pool or with one caller, and the bootloader's own are *)
(* neither while its tables are live.                                      *)
FramesInv ==
  /\ usable \in Pools
  /\ available \subseteq Nat \ {0} /\ held \subseteq Nat \ {0}
  /\ available \cap held = {}
  /\ owned \subseteq held
  /\ cr3 = BootRoot => BootFrames \cap (available \cup held) = {}

(* What memory_init has done by now.                                       *)
PhaseInv ==
  /\ phase \in Phases
  /\ Booting => cr3 = BootRoot /\ \A t \in DOMAIN BootTables : mem[t] = BootTables[t]
  /\ ~Booting => cr3 = IF new_pml4 = 0 THEN BootRoot ELSE new_pml4
  /\ phase \in {"pmm_init", "clone"} => new_pml4 = 0
  /\ phase \in {"load", "reclaim"} => new_pml4 # 0
  /\ new_pml4 \in owned \cup {0} /\ new_pml4 # BootRoot
  /\ phase = "pmm_init" => available = {} /\ held = {}
  /\ phase # "clone" => stack = << >>
  /\ phase # "up" => call = Idle

MemInv == mem \in [DOMAIN BootTables \cup owned -> [Index -> Entry]]

\* An activation stands at the entry for which it has called another one.
Called(caller, callee) ==
  /\ caller.i \in Index
  /\ Leads(BootTables[caller.src][caller.i], caller.level)
  /\ BootTables[caller.src][caller.i].to = callee.src

StackInv ==
  /\ stack \in Seq(Activations)
  /\ \A k \in 1 .. Len(stack) :
       stack[k].level = 5 - k /\ BootLevel[stack[k].src] = 5 - k
  /\ \A k \in 1 .. (Len(stack) - 1) : Called(stack[k], stack[k + 1])

\* The calls of map_page.
Calls == [op : {"map_page", "invlpg"}, va : Virtual, pa : Nat, flags : SUBSET Flags,
          table : Nat, depth : 1 .. 4]

IInv ==
  /\ FramesInv /\ PhaseInv /\ MemInv /\ StackInv
  /\ call \in {Idle} \cup Calls

-----------------------------------------------------------------------------
(***************************************************************************)
(* Data                                                                    *)
(***************************************************************************)

LEMMA BootFacts ==
  /\ BootLevel \in [DOMAIN BootTables -> 1 .. 4]
  /\ BootLevel[BootRoot] = 4
  /\ \A t \in DOMAIN BootTables, i \in Index :
       Leads(BootTables[t][i], BootLevel[t]) =>
         /\ BootTables[t][i].to \in DOMAIN BootTables
         /\ BootLevel[BootTables[t][i].to] = BootLevel[t] - 1
  /\ \A t \in DOMAIN BootTables : t \in Nat \ {0} /\ BootTables[t] \in [Index -> Entry]
<1>1. BootLevel \in [DOMAIN BootTables -> 1 .. 4] /\ Levelled(BootLevel)
  BY LevelsAssumption, Zenon DEF BootLevel
<1> QED
  BY <1>1, TablesAssumption, FramesAssumption DEF Levelled

(* Every entry of a table of this level leads on or ends the walk.         *)
LEMMA LeafOrLeads ==
  ASSUME NEW e \in Entry, NEW l \in 1 .. 4, Present(e)
  PROVE  Leads(e, l) <=> ~Leaf(e, l)
BY DEF Leaf, Leads

(* The memory with a table more: its type, and what it holds.              *)
LEMMA WithTyped ==
  ASSUME MemInv, NEW f, NEW table \in [Index -> Entry]
  PROVE  With(mem, f, table) \in [DOMAIN BootTables \cup (owned \cup {f}) -> [Index -> Entry]]
BY DEF With, MemInv

LEMMA WithHolds ==
  ASSUME MemInv, NEW f, NEW table \in [Index -> Entry]
  PROVE  /\ With(mem, f, table)[f] = table
         /\ \A g \in DOMAIN BootTables \cup owned :
              g # f => With(mem, f, table)[g] = mem[g]
BY DEF With, MemInv

(* The memory with one entry changed.                                      *)
LEMMA ExceptTyped ==
  ASSUME NEW D, NEW m \in [D -> [Index -> Entry]], NEW f \in D, NEW i \in Index,
         NEW e \in Entry
  PROVE  [m EXCEPT ![f][i] = e] \in [D -> [Index -> Entry]]
OBVIOUS

LEMMA ExceptHolds ==
  ASSUME NEW D, NEW m \in [D -> [Index -> Entry]], NEW f \in D, NEW i \in Index,
         NEW e \in Entry
  PROVE  /\ [m EXCEPT ![f][i] = e][f][i] = e
         /\ \A j \in Index : j # i => [m EXCEPT ![f][i] = e][f][j] = m[f][j]
         /\ \A g \in D : g # f => [m EXCEPT ![f][i] = e][g] = m[g]
OBVIOUS

(* A frame is taken.                                                       *)
LEMMA AllocFacts ==
  ASSUME FramesInv, NEW f, alloc_frame(f), f \in available
  PROVE  /\ f \in Nat \ {0} /\ f \notin held
         /\ available' = available \ {f} /\ held' = held \cup {f}
<1>1. f \in Nat \ {0} /\ f \notin held
  BY DEF FramesInv
<1>2. Frames!Run(f, 1) = {f}
  BY <1>1 DEF Frames!Run
<1> QED
  BY <1>1, <1>2 DEF alloc_frame, Frames!Allocate

(* A frame that is given to somebody leaves FramesInv as it is.            *)
LEMMA TakenFrame ==
  ASSUME FramesInv, NEW f, alloc_frame(f), f \in available,
         owned' \in {owned, owned \cup {f}}, UNCHANGED <<usable, cr3>>
  PROVE  FramesInv'
<1>1. /\ f \in Nat \ {0} /\ f \notin held
      /\ available' = available \ {f} /\ held' = held \cup {f}
  BY AllocFacts
<1> QED
  BY <1>1 DEF FramesInv

(* The last element of a sequence is replaced, dropped, or followed by one *)
(* more.                                                                   *)
LEMMA LastReplaced ==
  ASSUME NEW S, NEW s \in Seq(S), s # << >>, NEW x \in S
  PROVE  /\ Len(s) \in Nat \ {0}
         /\ Append(SubSeq(s, 1, Len(s) - 1), x) \in Seq(S)
         /\ Len(Append(SubSeq(s, 1, Len(s) - 1), x)) = Len(s)
         /\ Append(SubSeq(s, 1, Len(s) - 1), x)[Len(s)] = x
         /\ \A k \in 1 .. (Len(s) - 1) : Append(SubSeq(s, 1, Len(s) - 1), x)[k] = s[k]
<1>1. Len(s) \in Nat \ {0}
  BY EmptySeq, LenProperties
<1>2. PICK n \in Nat : n = Len(s) - 1
  BY <1>1
<1>3. PICK t : t = SubSeq(s, 1, n)
  OBVIOUS
<1>4. t \in Seq(S) /\ Len(t) = n /\ \A k \in 1 .. n : t[k] = s[k]
  BY <1>1, <1>2, <1>3, SubSeqProperties
<1>5. /\ Append(t, x) \in Seq(S) /\ Len(Append(t, x)) = n + 1
      /\ Append(t, x)[n + 1] = x /\ \A k \in 1 .. n : Append(t, x)[k] = t[k]
  BY <1>4, AppendProperties
<1> QED
  BY <1>1, <1>2, <1>3, <1>4, <1>5

LEMMA LastDropped ==
  ASSUME NEW S, NEW s \in Seq(S), Len(s) > 1
  PROVE  /\ SubSeq(s, 1, Len(s) - 1) \in Seq(S)
         /\ Len(SubSeq(s, 1, Len(s) - 1)) = Len(s) - 1
         /\ \A k \in 1 .. (Len(s) - 1) : SubSeq(s, 1, Len(s) - 1)[k] = s[k]
<1>1. Len(s) \in Nat
  BY LenProperties
<1> QED
  BY <1>1, SubSeqProperties

LEMMA SeqWidened ==
  ASSUME NEW S, NEW T, S \subseteq T, NEW s \in Seq(S)
  PROVE  s \in Seq(T)
<1>1. Len(s) \in Nat /\ s \in [1 .. Len(s) -> S]
  BY LenProperties
<1> QED
  BY <1>1, SeqDef

-----------------------------------------------------------------------------
(***************************************************************************)
(* Type correctness                                                        *)
(***************************************************************************)

\* The innermost activation and its place.
LEMMA TopFacts ==
  ASSUME IInv, stack # << >>
  PROVE  /\ phase = "clone" /\ Booting
         /\ Len(stack) \in 1 .. 4
         /\ Top \in Activations /\ Top = stack[Len(stack)]
         /\ Top.src \in DOMAIN BootTables /\ Top.dst \in owned
         /\ Top.dst \notin DOMAIN BootTables
         /\ Top.level = 5 - Len(stack) /\ BootLevel[Top.src] = Top.level
         /\ Top.i \in 0 .. ENTRIES
         /\ mem[Top.src] = BootTables[Top.src] /\ Contents(Top.src) = BootTables[Top.src]
<1>1. phase = "clone" /\ Booting
  BY DEF IInv, PhaseInv, Booting
<1>2. Len(stack) \in Nat \ {0}
  BY EmptySeq, LenProperties DEF IInv, StackInv
<1>3. Top = stack[Len(stack)] /\ Top \in Activations
  BY <1>2, ElementOfSeq DEF IInv, StackInv, Top
<1>4. Top.level = 5 - Len(stack) /\ BootLevel[Top.src] = 5 - Len(stack) /\ Top.level \in 1 .. 4
  BY <1>2, <1>3 DEF IInv, StackInv, Activations
<1>5. Top.src \in DOMAIN BootTables /\ Top.dst \in owned /\ Top.i \in 0 .. ENTRIES
  BY <1>3 DEF Activations
<1>6. Top.dst \notin DOMAIN BootTables
  BY <1>1, <1>5, TablesAssumption DEF IInv, FramesInv, PhaseInv
<1>7. mem[Top.src] = BootTables[Top.src] /\ Contents(Top.src) = BootTables[Top.src]
  BY <1>1, <1>5 DEF IInv, PhaseInv, MemInv, Contents, ContentsIn
<1>8. Len(stack) \in 1 .. 4
  <2>1. PICK n \in Nat \ {0} : n = Len(stack)
    BY <1>2
  <2>2. 5 - n \in 1 .. 4
    BY <1>4, <2>1
  <2> QED
    BY <2>1, <2>2
<1> QED
  BY <1>1, <1>3, <1>4, <1>5, <1>6, <1>7, <1>8

\* An activation is entered, or there is no frame and all return.
LEMMA CallCloneStep ==
  ASSUME IInv, phase = "clone",
         NEW src \in DOMAIN BootTables, NEW level \in 1 .. 4,
         BootLevel[src] = level, Len(stack) = 4 - level,
         stack # << >> => Called(Top, Activation(src, 0, level)),
         CallClone(src, level, stack), UNCHANGED <<cr3, tlb, call, stray, usable>>
  PROVE  IInv'
<1>1. Booting /\ cr3 = BootRoot /\ new_pml4 = 0
  BY DEF IInv, PhaseInv, Booting
<1>2. ASSUME NEW f \in available, Take(f), mem' = With(mem, f, Garbage),
             stack' = Append(stack, Activation(src, f, level)),
             UNCHANGED <<phase, new_pml4>>
      PROVE  IInv'
  <2>1. owned' = owned \cup {f} /\ alloc_frame(f)
    BY <1>2 DEF Take
  <2>2. FramesInv'
    BY <1>2, <2>1, TakenFrame DEF IInv
  <2>3. f \notin BootFrames
    BY <1>1, <1>2 DEF IInv, FramesInv
  <2>4. Garbage \in [Index -> Entry]
    BY EntriesTyped
  <2>5. MemInv'
    BY <1>2, <2>1, <2>4, WithTyped DEF IInv, MemInv
  <2>6. \A t \in DOMAIN BootTables : mem'[t] = mem[t]
    <3>1. \A g \in DOMAIN BootTables \cup owned : g # f => mem'[g] = mem[g]
      BY <1>2, <2>4, WithHolds DEF IInv
    <3> QED
      BY <2>3, <3>1, TablesAssumption
  <2>7. PhaseInv'
    BY <1>1, <1>2, <2>1, <2>6 DEF IInv, PhaseInv, Booting, Phases
  <2>8. StackInv'
    <3>1. Activation(src, f, level) \in Activations'
      BY <2>1, TablesAssumption DEF Activation, Activations
    <3>2. stack \in Seq(Activations')
      <4>1. Activations \subseteq Activations'
        BY <2>1 DEF Activations
      <4> QED
        BY <4>1, SeqWidened DEF IInv, StackInv
    <3>3. /\ stack' \in Seq(Activations') /\ Len(stack') = Len(stack) + 1
          /\ stack'[Len(stack) + 1] = Activation(src, f, level)
          /\ \A k \in 1 .. Len(stack) : stack'[k] = stack[k]
      BY <1>2, <3>1, <3>2, AppendProperties
    <3>4. Len(stack) \in Nat
      BY <3>2, LenProperties
    <3>5. \A k \in 1 .. Len(stack') : stack'[k].level = 5 - k /\ BootLevel[stack'[k].src] = 5 - k
      <4> SUFFICES ASSUME NEW k \in 1 .. Len(stack')
                   PROVE  stack'[k].level = 5 - k /\ BootLevel[stack'[k].src] = 5 - k
        OBVIOUS
      <4>1. CASE k \in 1 .. Len(stack)
        BY <3>3, <4>1 DEF IInv, StackInv
      <4>2. CASE k = Len(stack) + 1
        BY <3>3, <3>4, <4>2 DEF Activation
      <4> QED
        BY <3>3, <3>4, <4>1, <4>2
    <3>6. \A k \in 1 .. (Len(stack') - 1) : Called(stack'[k], stack'[k + 1])
      <4> SUFFICES ASSUME NEW k \in 1 .. Len(stack)
                   PROVE  Called(stack'[k], stack'[k + 1])
        BY <3>3, <3>4
      <4>1. CASE k \in 1 .. (Len(stack) - 1)
        BY <3>3, <3>4, <4>1 DEF IInv, StackInv
      <4>2. CASE k = Len(stack)
        <5>1. stack'[k] = Top /\ stack'[k + 1] = Activation(src, f, level) /\ stack # << >>
          BY <3>3, <3>4, <4>2 DEF Top
        <5> QED
          BY <5>1 DEF Called, Activation
      <4> QED
        BY <3>4, <4>1, <4>2
    <3> QED
      BY <3>3, <3>5, <3>6 DEF StackInv
  <2> QED
    BY <1>2, <2>2, <2>5, <2>7, <2>8 DEF IInv
<1>3. CASE Frames!Refuse(1) /\ CloneReturns(0) /\ UNCHANGED <<mem, owned>>
  <2>1. /\ available' = available /\ held' = held /\ new_pml4' = 0
        /\ stack' = << >> /\ phase' = "kheap_init"
    BY <1>3 DEF Frames!Refuse, CloneReturns
  <2>2. FramesInv'
    BY <1>3, <2>1 DEF IInv, FramesInv
  <2>3. PhaseInv'
    BY <1>1, <1>3, <2>1 DEF IInv, PhaseInv, Booting, Phases
  <2>4. StackInv'
    BY <1>3, <2>1 DEF IInv, StackInv, Activations
  <2> QED
    BY <1>3, <2>2, <2>3, <2>4 DEF IInv, MemInv
<1> QED
  BY <1>2, <1>3 DEF CallClone

LEMMA NextTurn ==
  ASSUME NEW a \in Activations, NEW i \in Index, a.i = i
  PROVE  /\ [a EXCEPT !.i = i + 1] \in Activations
         /\ [a EXCEPT !.i = @ + 1] = [a EXCEPT !.i = i + 1]
         /\ [a EXCEPT !.i = i + 1].i = i + 1 /\ [a EXCEPT !.i = i + 1].src = a.src
         /\ [a EXCEPT !.i = i + 1].dst = a.dst /\ [a EXCEPT !.i = i + 1].level = a.level
<1>1. i + 1 \in 0 .. ENTRIES
  BY TablesAssumption DEF Index
<1>2. PICK s, d, l : a = [src |-> s, dst |-> d, level |-> l, i |-> i]
                     /\ s \in DOMAIN BootTables /\ d \in owned /\ l \in 1 .. 4
  BY DEF Activations
<1>3. [a EXCEPT !.i = i + 1] = [src |-> s, dst |-> d, level |-> l, i |-> i + 1]
  BY <1>2
<1>4. [a EXCEPT !.i = @ + 1] = [a EXCEPT !.i = i + 1]
  OBVIOUS
<1> QED
  BY <1>1, <1>2, <1>3, <1>4 DEF Activations

\* An entry of the innermost table is written, and its loop goes on.
LEMMA EntryWritten ==
  ASSUME IInv, NEW n \in 1 .. 4, n <= Len(stack), NEW i \in Index, stack[n].i = i,
         NEW e \in Entry, mem' = [mem EXCEPT ![stack[n].dst][i] = e],
         stack' \in Seq(Activations), Len(stack') = n,
         \A k \in 1 .. (n - 1) : stack'[k] = stack[k],
         stack'[n] = [stack[n] EXCEPT !.i = i + 1],
         UNCHANGED <<phase, new_pml4, cr3, tlb, call, owned, stray, usable, frameVars>>
  PROVE  IInv'
<1>1. Len(stack) \in Nat /\ n \in 1 .. Len(stack) /\ stack # << >>
  BY LenProperties, EmptySeq DEF IInv, StackInv
<1>2. phase = "clone" /\ cr3 = BootRoot
  BY <1>1 DEF IInv, PhaseInv, Booting
<1>3. stack[n] \in Activations
  BY <1>1, ElementOfSeq DEF IInv, StackInv
<1>4. PICK d \in owned : d = stack[n].dst
  BY <1>3 DEF Activations
<1>5. d \notin DOMAIN BootTables
  BY <1>2, <1>4, TablesAssumption DEF IInv, FramesInv
<1>6. PICK D : D = DOMAIN BootTables \cup owned
  OBVIOUS
<1>7. mem \in [D -> [Index -> Entry]] /\ d \in D
  BY <1>4, <1>6 DEF IInv, MemInv
<1>8. MemInv'
  BY <1>4, <1>6, <1>7, ExceptTyped DEF MemInv, frameVars
<1>9. \A g \in D : g # d => mem'[g] = mem[g]
  BY <1>4, <1>7, ExceptHolds
<1>10. PhaseInv'
  BY <1>2, <1>5, <1>6, <1>9 DEF IInv, PhaseInv, Booting, Phases, frameVars
<1>11. StackInv'
  <2>1. \A k \in 1 .. n : stack'[k].level = stack[k].level /\ stack'[k].src = stack[k].src
    <3>1. stack'[n].level = stack[n].level /\ stack'[n].src = stack[n].src
      BY <1>3 DEF Activations
    <3> SUFFICES ASSUME NEW k \in 1 .. n
                 PROVE  stack'[k].level = stack[k].level /\ stack'[k].src = stack[k].src
      OBVIOUS
    <3>2. CASE k = n
      BY <3>1, <3>2
    <3>3. CASE k \in 1 .. (n - 1)
      BY <3>3
    <3> QED
      BY <3>2, <3>3
  <2>2. \A k \in 1 .. n : k \in 1 .. Len(stack)
    BY <1>1
  <2>3. Activations' = Activations
    BY DEF Activations
  <2>4. \A k \in 1 .. Len(stack') :
          stack'[k].level = 5 - k /\ BootLevel[stack'[k].src] = 5 - k
    BY <2>1, <2>2 DEF IInv, StackInv
  <2>5. \A k \in 1 .. (Len(stack') - 1) : Called(stack'[k], stack'[k + 1])
    <3> SUFFICES ASSUME NEW k \in 1 .. (n - 1)
                 PROVE  Called(stack'[k], stack'[k + 1])
      OBVIOUS
    <3>1. Called(stack[k], stack[k + 1])
      BY <1>1 DEF IInv, StackInv
    <3>2. stack'[k] = stack[k] /\ stack'[k + 1].src = stack[k + 1].src
      BY <2>1
    <3> QED
      BY <3>1, <3>2 DEF Called
  <2> QED
    BY <2>3, <2>4, <2>5 DEF StackInv
<1>12. FramesInv'
  BY DEF IInv, FramesInv, frameVars
<1> QED
  BY <1>8, <1>10, <1>11, <1>12 DEF IInv

LEMMA CloneEntryStep ==
  ASSUME IInv, CloneEntry
  PROVE  IInv'
<1> DEFINE e == Contents(Top.src)[Top.i]
<1>1. stack # << >> /\ Top.i < ENTRIES
  BY DEF CloneEntry
<1>2. PICK n \in 1 .. 4 : n = Len(stack)
  BY <1>1, TopFacts
<1>3. PICK i \in Index : i = Top.i
  BY <1>1, TopFacts, TablesAssumption DEF Index
<1>4. Top \in Activations /\ Top = stack[n] /\ Top.level = 5 - n /\ Top.src \in DOMAIN BootTables
      /\ BootLevel[Top.src] = 5 - n /\ phase = "clone"
  BY <1>1, <1>2, TopFacts
<1>5. e = BootTables[Top.src][i] /\ e \in Entry
  BY <1>1, <1>3, TopFacts, BootFacts
<1>6. CASE /\ ~Present(e) \/ Leaf(e, Top.level)
           /\ mem' = [mem EXCEPT ![Top.dst][Top.i] = IF Present(e) THEN e ELSE Zero]
           /\ stack' = Append(Callers, [Top EXCEPT !.i = @ + 1])
           /\ UNCHANGED <<phase, new_pml4, owned, frameVars>>
  <2>1. PICK x \in Entry : x = IF Present(e) THEN e ELSE Zero
    BY <1>5, EntriesTyped
  <2>2. [Top EXCEPT !.i = @ + 1] = [Top EXCEPT !.i = i + 1] /\ [Top EXCEPT !.i = i + 1] \in Activations
    BY <1>3, <1>4, NextTurn
  <2>3. /\ stack' \in Seq(Activations) /\ Len(stack') = n
        /\ \A k \in 1 .. (n - 1) : stack'[k] = stack[k]
        /\ stack'[n] = [stack[n] EXCEPT !.i = i + 1]
    BY <1>1, <1>2, <1>4, <1>6, <2>2, LastReplaced DEF IInv, StackInv, Callers
  <2>4. mem' = [mem EXCEPT ![stack[n].dst][i] = x] /\ stack[n].i = i
    BY <1>3, <1>4, <1>6, <2>1
  <2>5. UNCHANGED <<phase, new_pml4, cr3, tlb, call, owned, stray, usable, frameVars>>
    BY <1>6 DEF CloneEntry
  <2>6. n <= Len(stack)
    BY <1>2
  <2> QED
    BY <2>3, <2>4, <2>5, <2>6, EntryWritten, Zenon
<1>7. CASE Present(e) /\ ~Leaf(e, Top.level) /\ CallClone(e.to, Top.level - 1, stack)
  <2>1. Leads(e, BootLevel[Top.src]) /\ Top.level # 1
    BY <1>4, <1>5, <1>7, LeafOrLeads DEF Leaf
  <2>2. e.to \in DOMAIN BootTables /\ BootLevel[e.to] = Top.level - 1
    BY <1>4, <1>5, <2>1, BootFacts
  <2>3. PICK l \in 1 .. 4 : l = Top.level - 1
    BY <1>4, <2>1
  <2>4. Len(stack) = 4 - l
    BY <1>2, <1>4, <2>3
  <2>5. UNCHANGED <<cr3, tlb, call, stray, usable>>
    BY DEF CloneEntry
  <2>6. Called(Top, Activation(e.to, 0, l))
    BY <1>3, <1>4, <1>5, <2>1 DEF Called, Activation
  <2> QED
    BY <1>4, <1>7, <2>2, <2>3, <2>4, <2>5, <2>6, CallCloneStep
<1> QED
  BY <1>6, <1>7 DEF CloneEntry

\* An activation reads a table of the bootloader's and writes a frame of its own.
LEMMA StackFacts ==
  ASSUME IInv, NEW k \in 1 .. Len(stack)
  PROVE  /\ stack[k] \in Activations /\ stack[k].dst \in owned
         /\ stack[k].src \in DOMAIN BootTables /\ BootLevel[stack[k].src] = 5 - k
         /\ Len(stack) \in 1 .. 4 /\ stack # << >>
         /\ Contents(stack[k].src) = BootTables[stack[k].src]
         /\ BootTables[stack[k].src] \in [Index -> Entry]
<1>1. Len(stack) \in Nat
  BY LenProperties DEF IInv, StackInv
<1>2. stack # << >>
  BY <1>1
<1>3. Len(stack) \in 1 .. 4 /\ phase = "clone"
  BY <1>2, TopFacts
<1>4. stack[k] \in Activations
  BY ElementOfSeq DEF IInv, StackInv
<1>5. stack[k].dst \in owned /\ stack[k].src \in DOMAIN BootTables
  BY <1>4 DEF Activations
<1>6. Contents(stack[k].src) = BootTables[stack[k].src]
  BY <1>3, <1>5 DEF IInv, PhaseInv, Booting, MemInv, Contents, ContentsIn
<1> QED
  BY <1>2, <1>3, <1>4, <1>5, <1>6, BootFacts DEF IInv, StackInv

\* The activation that called the innermost one.
LEMMA CallerFacts ==
  ASSUME IInv, CloneReturn
  PROVE  /\ Len(stack) \in 2 .. 4
         /\ Callers \in Seq(Activations) /\ Len(Callers) = Len(stack) - 1
         /\ \A k \in 1 .. (Len(stack) - 1) : Callers[k] = stack[k]
         /\ Callers[Len(Callers)] = stack[Len(stack) - 1]
<1>1. Len(stack) > 1 /\ stack # << >>
  BY EmptySeq DEF CloneReturn, IInv, StackInv
<1>2. PICK n \in 1 .. 4 : n = Len(stack)
  BY <1>1, TopFacts
<1> QED
  BY <1>1, <1>2, LastDropped DEF IInv, StackInv, Callers

\* The stack after a child has returned.
LEMMA CloneReturnStack ==
  ASSUME IInv, CloneReturn, NEW n \in 1 .. 4, n = Len(stack) - 1
  PROVE  /\ stack[n] \in Activations /\ stack[n].i \in Index
         /\ stack' \in Seq(Activations) /\ Len(stack') = n
         /\ \A k \in 1 .. (n - 1) : stack'[k] = stack[k]
         /\ stack'[n] = [stack[n] EXCEPT !.i = stack[n].i + 1]
<1>1. stack # << >> /\ Callers # << >> /\ Callers[Len(Callers)] = stack[n] /\ n \in 1 .. Len(stack)
  BY CallerFacts, EmptySeq
<1>2. stack[n] \in Activations
  BY <1>1, StackFacts
<1>3. PICK i \in Index : i = stack[n].i
  BY CallerFacts DEF IInv, StackInv, Called
<1>4. PICK a \in Activations : a = [stack[n] EXCEPT !.i = i + 1]
  BY <1>2, <1>3, NextTurn
<1>5. PICK c \in Seq(Activations) : c = Callers
  BY CallerFacts
<1>6. Len(c) = n /\ \A k \in 1 .. n : c[k] = stack[k]
  BY <1>5, CallerFacts
<1>7. stack' = [c EXCEPT ![n].i = @ + 1]
  <2>1. stack' = [Callers EXCEPT ![Len(Callers)].i = @ + 1]
    BY DEF CloneReturn
  <2> QED
    BY <1>5, <1>6, <2>1
<1>8. c[n] = stack[n] /\ c[n].i = i
  BY <1>1, <1>3, <1>5, <1>6
<1>9. stack' = [c EXCEPT ![n] = [c[n] EXCEPT !.i = i + 1]]
  BY <1>7, <1>8
<1>10. stack' = [c EXCEPT ![n] = a]
  BY <1>4, <1>8, <1>9
<1>11. /\ stack' \in Seq(Activations) /\ Len(stack') = n /\ stack'[n] = a
       /\ \A k \in 1 .. (n - 1) : stack'[k] = c[k]
  BY <1>6, <1>10, ExceptSeq
<1> QED
  BY <1>2, <1>3, <1>4, <1>6, <1>11

LEMMA CloneReturnStep ==
  ASSUME IInv, CloneReturn
  PROVE  IInv'
<1>1. PICK n \in 1 .. 4 : n = Len(stack) - 1 /\ n <= Len(stack)
  BY CallerFacts
<1>2. stack # << >> /\ Callers[Len(Callers)] = stack[n] /\ n \in 1 .. Len(stack)
  BY <1>1, CallerFacts, EmptySeq
<1>3. /\ stack[n].src \in DOMAIN BootTables
      /\ Contents(stack[n].src) = BootTables[stack[n].src]
  BY <1>2, StackFacts
<1>4. PICK i \in Index : i = stack[n].i
  BY <1>1, CloneReturnStack
<1>5. Contents(stack[n].src)[i] \in Entry
  BY <1>3, BootFacts
<1>6. PICK e \in Entry : e = Relocated(Contents(stack[n].src)[i], Top.dst)
  <2>1. Top.dst \in Nat
    BY <1>2, TopFacts DEF IInv, FramesInv
  <2> QED
    BY <1>5, <2>1 DEF Relocated, Entry
<1>7. mem' = [mem EXCEPT ![stack[n].dst][i] = e]
  BY <1>2, <1>4, <1>6 DEF CloneReturn
<1>8. /\ stack' \in Seq(Activations) /\ Len(stack') = n
      /\ \A k \in 1 .. (n - 1) : stack'[k] = stack[k]
      /\ stack'[n] = [stack[n] EXCEPT !.i = i + 1]
  BY <1>1, <1>4, CloneReturnStack
<1>9. UNCHANGED <<phase, new_pml4, cr3, tlb, call, owned, stray, usable, frameVars>>
  BY DEF CloneReturn
<1> QED
  BY <1>1, <1>4, <1>7, <1>8, <1>9, EntryWritten, Zenon

LEMMA CloneDoneStep ==
  ASSUME IInv, CloneDone
  PROVE  IInv'
<1>1. Len(stack) = 1 /\ stack # << >> /\ CloneReturns(Top.dst)
  <2>1. Len(stack) = 1 /\ CloneReturns(Top.dst)
    BY DEF CloneDone
  <2> QED
    BY <2>1
<1>2. phase = "clone" /\ Booting /\ Top.dst \in owned /\ Top.dst # 0
  BY <1>1, TopFacts DEF IInv, FramesInv
<1>2a. Top.dst # BootRoot
  BY <1>1, TopFacts, TablesAssumption
<1>3. new_pml4' = Top.dst /\ stack' = << >> /\ phase' = "load"
  BY <1>1, <1>2 DEF CloneReturns
<1>4. UNCHANGED <<mem, cr3, tlb, call, owned, stray, usable, frameVars>>
  BY DEF CloneDone
<1>5. PhaseInv'
  BY <1>2, <1>2a, <1>3, <1>4 DEF IInv, PhaseInv, Booting, Phases
<1>6. StackInv'
  BY <1>3 DEF StackInv
<1> QED
  BY <1>4, <1>5, <1>6 DEF IInv, FramesInv, MemInv, frameVars

\* Steps that leave tables and stack alone.
LEMMA OtherSteps ==
  ASSUME IInv, UNCHANGED <<mem, owned, stack, new_pml4, usable>>,
         FramesInv', PhaseInv', call' \in {Idle} \cup Calls
  PROVE  IInv'
BY DEF IInv, MemInv, StackInv, Activations

LEMMA InitStep ==
  ASSUME IInv, pmm_init \/ vmm_load_space \/ pmm_reclaim_bootloader \/ kheap_init
  PROVE  IInv'
<1>1. CASE pmm_init
  <2>1. /\ phase = "pmm_init" /\ phase' = "clone" /\ available' = usable /\ held' = held
        /\ UNCHANGED <<mem, cr3, tlb, cloneVars, call, owned, stray, usable>>
    BY <1>1 DEF pmm_init, Frames!Donate
  <2>2. FramesInv'
    BY <2>1, FramesAssumption DEF IInv, FramesInv, PhaseInv
  <2>3. PhaseInv'
    BY <2>1 DEF IInv, PhaseInv, Booting, Phases, cloneVars
  <2> QED
    BY <2>1, <2>2, <2>3, OtherSteps DEF cloneVars, IInv
<1>2. CASE vmm_load_space
  <2>1. /\ phase = "load" /\ phase' = "reclaim" /\ cr3' = new_pml4
        /\ UNCHANGED <<mem, cloneVars, call, owned, stray, usable, frameVars>>
    BY <1>2 DEF vmm_load_space
  <2>2. new_pml4 \in owned /\ new_pml4 # BootRoot /\ new_pml4 # 0
    BY <2>1, TablesAssumption DEF IInv, PhaseInv, FramesInv, Booting
  <2>3. FramesInv'
    BY <2>1, <2>2 DEF IInv, FramesInv, frameVars
  <2>4. PhaseInv'
    BY <2>1, <2>2 DEF IInv, PhaseInv, Booting, Phases, cloneVars, frameVars
  <2> QED
    BY <2>1, <2>3, <2>4, OtherSteps DEF cloneVars, IInv
<1>3. CASE pmm_reclaim_bootloader
  <2>1. /\ phase = "reclaim" /\ phase' = "kheap_init" /\ available' = available \cup BootFrames
        /\ (available' \ available) \cap held = {} /\ held' = held
        /\ UNCHANGED <<mem, cr3, tlb, cloneVars, call, owned, stray, usable>>
    BY <1>3 DEF pmm_reclaim_bootloader, Frames!Donate
  <2>2. cr3 # BootRoot
    BY <2>1 DEF IInv, PhaseInv, Booting
  <2>3. FramesInv'
    BY <2>1, <2>2, FramesAssumption DEF IInv, FramesInv
  <2>4. PhaseInv'
    BY <2>1 DEF IInv, PhaseInv, Booting, Phases, cloneVars
  <2> QED
    BY <2>1, <2>3, <2>4, OtherSteps DEF cloneVars, IInv
<1>4. CASE kheap_init
  <2>1. /\ phase = "kheap_init" /\ phase' = "up"
        /\ UNCHANGED <<mem, cr3, tlb, cloneVars, call, owned, stray, usable>>
    BY <1>4 DEF kheap_init
  <2>2. FramesInv'
    BY <1>4, <2>1, TakenFrame DEF IInv, FramesInv, kheap_init, Frames!Refuse
  <2>3. PhaseInv'
    BY <2>1 DEF IInv, PhaseInv, Booting, Phases, cloneVars
  <2> QED
    BY <2>1, <2>2, <2>3, OtherSteps DEF cloneVars, IInv
<1> QED
  BY <1>1, <1>2, <1>3, <1>4

-----------------------------------------------------------------------------
(* map_page *)

\* Where a call of map_page stands.
LEMMA CallFacts ==
  ASSUME IInv, call # Idle
  PROVE  /\ phase = "up" /\ ~Booting /\ stack = << >>
         /\ call \in Calls /\ call.va \in Virtual /\ call.va \in Path
         /\ call.pa \in Nat /\ call.flags \in SUBSET Flags
         /\ call.table \in Nat /\ call.depth \in 1 .. 4
         /\ \A d \in 1 .. 4 : call.va[d] \in Index
         /\ \A f : Contents(f) \in [Index -> Entry]
<1>1. phase = "up" /\ ~Booting /\ stack = << >>
  BY DEF IInv, PhaseInv, Booting
<1>2. call \in Calls
  BY DEF IInv
<1>3. call.va \in Virtual /\ call.pa \in Nat /\ call.flags \in SUBSET Flags
      /\ call.table \in Nat /\ call.depth \in 1 .. 4
  BY <1>2 DEF Calls
<1>4. call.va \in Path /\ \A d \in 1 .. 4 : call.va[d] \in Index
  BY <1>3, TablesAssumption DEF Path
<1>5. ASSUME NEW f PROVE Contents(f) \in [Index -> Entry]
  BY EntriesTyped DEF IInv, MemInv, Contents, ContentsIn
<1> QED
  BY <1>1, <1>2, <1>3, <1>4, <1>5

\* A call moves on.
LEMMA CallMoves ==
  ASSUME NEW O, NEW V, NEW F,
         NEW c \in [op : O, va : V, pa : Nat, flags : F, table : Nat, depth : 1 .. 4],
         NEW f \in Nat, NEW d \in 1 .. 4
  PROVE  /\ [c EXCEPT !.table = f, !.depth = d]
              \in [op : O, va : V, pa : Nat, flags : F, table : Nat, depth : 1 .. 4]
         /\ [c EXCEPT !.table = f, !.depth = d].op = c.op
         /\ [c EXCEPT !.table = f, !.depth = d].va = c.va
         /\ [c EXCEPT !.table = f, !.depth = d].table = f
         /\ [c EXCEPT !.table = f, !.depth = d].depth = d
OBVIOUS

\* The descent changes nothing, links a new table in, or ends for want of one.
Followed ==
  /\ Present(Contents(call.table)[call.va[call.depth]])
  /\ UNCHANGED <<mem, owned, frameVars>>
  /\ Descend(Contents(call.table)[call.va[call.depth]].to)
Linked(f) ==
  /\ ~Present(Contents(call.table)[call.va[call.depth]])
  /\ f \in available
  /\ Take(f)
  /\ mem' = [With(mem, f, Fresh) EXCEPT
               ![call.table][call.va[call.depth]] = [to |-> f, bits |-> {"PRESENT", "WRITE"}]]
  /\ Descend(f)
Ended ==
  /\ ~Present(Contents(call.table)[call.va[call.depth]])
  /\ Frames!Refuse(1)
  /\ call' = Idle
  /\ UNCHANGED <<mem, owned, stray>>

LEMMA NextLevelCases ==
  ASSUME next_level
  PROVE  /\ call.op = "map_page" /\ call.depth < 4 /\ call # Idle
         /\ UNCHANGED <<phase, cr3, tlb, cloneVars, usable>>
         /\ \/ Followed
            \/ \E f : Linked(f)
            \/ Ended
<1>1. call.op = "map_page" /\ call.depth < 4 /\ UNCHANGED <<phase, cr3, tlb, cloneVars, usable>>
  BY DEF next_level
<1>2. call # Idle
  BY <1>1 DEF Idle
<1>3. Followed \/ (\E f : Linked(f)) \/ Ended
  BY Zenon DEF next_level, Followed, Linked, Ended
<1> QED
  BY <1>1, <1>2, <1>3

\* What a new table does to the memory.
LEMMA LinkedMemory ==
  ASSUME IInv, next_level, NEW f, Linked(f)
  PROVE  /\ f \in Nat \ {0} /\ f \notin held /\ f \notin owned
         /\ call.table \in DOMAIN BootTables \cup owned
         /\ owned' = owned \cup {f} /\ available' = available \ {f} /\ held' = held \cup {f}
         /\ MemInv'
         /\ f # call.table =>
              /\ mem'[f] = ZeroTable
              /\ \A g \in DOMAIN BootTables \cup owned :
                   g # f /\ g # call.table => mem'[g] = mem[g]
              /\ mem'[call.table][call.va[call.depth]] = [to |-> f, bits |-> {"PRESENT", "WRITE"}]
              /\ \A j \in Index : j # call.va[call.depth] =>
                   mem'[call.table][j] = mem[call.table][j]
<1>1. call # Idle /\ FramesInv /\ MemInv
  BY NextLevelCases DEF IInv
<1>2. PICK i \in Index : i = call.va[call.depth]
  BY <1>1, CallFacts
<1>3. f \in available /\ alloc_frame(f) /\ owned' = owned \cup {f}
  BY DEF Linked, Take
<1>4. f \in Nat \ {0} /\ f \notin held /\ available' = available \ {f} /\ held' = held \cup {f}
  BY <1>1, <1>3, AllocFacts
<1>5. f \notin owned
  BY <1>1, <1>4 DEF FramesInv
<1>6. PICK t : t = call.table
  OBVIOUS
<1>7. t \in DOMAIN BootTables \cup owned
  <2>0. ~Present(Contents(call.table)[call.va[call.depth]])
    BY DEF Linked
  <2>1. ~Present(Contents(t)[i])
    BY <1>2, <1>6, <2>0
  <2>2. Present(Garbage[i])
    BY DEF Present, Garbage, Flags
  <2> QED
    BY <1>1, <2>1, <2>2 DEF MemInv, Contents, ContentsIn
<1>8. ZeroTable \in [Index -> Entry] /\ Fresh = ZeroTable
  BY EntriesTyped
<1>9. PICK m : m = With(mem, f, ZeroTable)
  OBVIOUS
<1>10. PICK D : D = DOMAIN BootTables \cup (owned \cup {f})
  OBVIOUS
<1>11. m \in [D -> [Index -> Entry]]
  BY <1>1, <1>8, <1>9, <1>10, WithTyped
<1>12. m[f] = ZeroTable /\ \A g \in DOMAIN BootTables \cup owned : g # f => m[g] = mem[g]
  BY <1>1, <1>8, <1>9, WithHolds
<1>13. PICK e \in Entry : e = [to |-> f, bits |-> {"PRESENT", "WRITE"}]
  BY <1>4 DEF Entry, Flags
<1>14. mem' = [m EXCEPT ![t][i] = e] /\ t \in D
  BY <1>2, <1>6, <1>7, <1>8, <1>9, <1>10, <1>13 DEF Linked
<1>15. mem' \in [D -> [Index -> Entry]]
  BY <1>11, <1>14, ExceptTyped
<1>16. /\ mem'[t][i] = e
       /\ \A j \in Index : j # i => mem'[t][j] = m[t][j]
       /\ \A g \in D : g # t => mem'[g] = m[g]
  BY <1>11, <1>14, ExceptHolds
<1>17. MemInv'
  BY <1>3, <1>10, <1>15 DEF MemInv
<1>18. f # t => mem'[f] = ZeroTable /\ \A g \in DOMAIN BootTables \cup owned :
                   g # f /\ g # t => mem'[g] = mem[g]
  BY <1>10, <1>12, <1>16
<1>19. f # t => \A j \in Index : j # i => mem'[t][j] = mem[t][j]
  BY <1>7, <1>12, <1>16
<1>20. mem'[call.table][call.va[call.depth]] = [to |-> f, bits |-> {"PRESENT", "WRITE"}]
  BY <1>2, <1>6, <1>13, <1>16
<1> QED
  BY <1>2, <1>3, <1>4, <1>5, <1>6, <1>7, <1>17, <1>18, <1>19, <1>20, Zenon

\* The call as it goes down to table f.
LEMMA DescendFacts ==
  ASSUME IInv, next_level, NEW f \in Nat, Descend(f)
  PROVE  /\ call' \in Calls /\ call'.op = "map_page" /\ call'.va = call.va
         /\ call'.table = f /\ call'.depth = call.depth + 1
         /\ stray' = IF f \in DOMAIN mem' THEN stray ELSE stray \cup {f}
<1>1. call # Idle /\ call.op = "map_page" /\ call.depth < 4
  BY NextLevelCases
<1>2. PICK c \in Calls : c = call
  BY <1>1, CallFacts
<1>3. PICK d \in 1 .. 4 : d = call.depth + 1
  BY <1>1, CallFacts
<1>4. call' = [c EXCEPT !.table = f, !.depth = d]
  <2>1. call' = [call EXCEPT !.table = f, !.depth = @ + 1]
    BY DEF Descend
  <2> QED
    BY <1>2, <1>3, <2>1
<1>5. /\ [c EXCEPT !.table = f, !.depth = d] \in Calls
      /\ [c EXCEPT !.table = f, !.depth = d].op = c.op
      /\ [c EXCEPT !.table = f, !.depth = d].va = c.va
      /\ [c EXCEPT !.table = f, !.depth = d].table = f
      /\ [c EXCEPT !.table = f, !.depth = d].depth = d
  BY CallMoves DEF Calls
<1>6. stray' = IF f \in DOMAIN mem' THEN stray ELSE stray \cup {f}
  BY DEF Descend
<1> QED
  BY <1>1, <1>2, <1>3, <1>4, <1>5, <1>6

LEMMA NextLevelStep ==
  ASSUME IInv, next_level
  PROVE  IInv'
<1>1. /\ call # Idle /\ phase = "up" /\ stack = << >> /\ ~Booting
      /\ UNCHANGED <<phase, cr3, tlb, cloneVars, usable>>
  BY NextLevelCases, CallFacts
<1>2. CASE Followed
  <2>1. PICK f \in Nat : f = Contents(call.table)[call.va[call.depth]].to
    BY <1>1, CallFacts DEF Entry
  <2>2. call' \in Calls
    BY <1>2, <2>1, DescendFacts DEF Followed
  <2>3. UNCHANGED <<mem, owned, frameVars>>
    BY <1>2 DEF Followed
  <2>4. FramesInv' /\ PhaseInv'
    BY <1>1, <2>3 DEF IInv, FramesInv, PhaseInv, Booting, cloneVars, frameVars
  <2> QED
    BY <1>1, <2>2, <2>3, <2>4, OtherSteps DEF cloneVars
<1>3. ASSUME NEW f, Linked(f) PROVE IInv'
  <2>1. /\ f \in Nat \ {0} /\ f \in available /\ alloc_frame(f) /\ owned' = owned \cup {f} /\ MemInv'
    BY <1>3, LinkedMemory DEF Linked, Take
  <2>2. FramesInv'
    BY <1>1, <2>1, TakenFrame DEF IInv
  <2>3. PhaseInv'
    BY <1>1, <2>1 DEF IInv, PhaseInv, Booting, cloneVars
  <2>4. call' \in Calls
    BY <1>3, <2>1, DescendFacts DEF Linked
  <2>5. StackInv'
    BY <1>1 DEF StackInv, cloneVars
  <2> QED
    BY <2>1, <2>2, <2>3, <2>4, <2>5 DEF IInv
<1>4. CASE Ended
  <2>1. UNCHANGED <<mem, owned, available, held>> /\ call' = Idle
    BY <1>4 DEF Ended, Frames!Refuse
  <2>2. FramesInv' /\ PhaseInv'
    BY <1>1, <2>1 DEF IInv, FramesInv, PhaseInv, Booting, cloneVars
  <2> QED
    BY <1>1, <2>1, <2>2, OtherSteps DEF cloneVars
<1> QED
  BY <1>2, <1>3, <1>4, NextLevelCases

\* The last level's entry in the memory.
LEMMA SetEntryMemory ==
  ASSUME IInv, SetEntry
  PROVE  /\ MemInv'
         /\ \A g \in DOMAIN BootTables \cup owned : g # call.table => mem'[g] = mem[g]
         /\ call.table \in DOMAIN BootTables \cup owned =>
              /\ mem'[call.table][call.va[4]] = [to |-> call.pa, bits |-> call.flags]
              /\ \A j \in Index : j # call.va[4] => mem'[call.table][j] = mem[call.table][j]
<1>1. call.op = "map_page" /\ call # Idle /\ owned' = owned
  BY DEF SetEntry, Idle
<1>2. PICK i \in Index : i = call.va[4]
  BY <1>1, CallFacts
<1>3. PICK e \in Entry : e = [to |-> call.pa, bits |-> call.flags]
  BY <1>1, CallFacts DEF Entry
<1>4. PICK t : t = call.table
  OBVIOUS
<1>5. PICK D : D = DOMAIN BootTables \cup owned
  OBVIOUS
<1>6. mem \in [D -> [Index -> Entry]] /\ DOMAIN mem = D
  BY <1>5 DEF IInv, MemInv
<1>7. mem' = IF t \in D THEN [mem EXCEPT ![t][i] = e] ELSE mem
  BY <1>2, <1>3, <1>4, <1>6 DEF SetEntry
<1>8. mem' \in [D -> [Index -> Entry]]
  BY <1>6, <1>7, ExceptTyped
<1>9. CASE t \in D
  <2>1. /\ mem'[t][i] = e
        /\ \A j \in Index : j # i => mem'[t][j] = mem[t][j]
        /\ \A g \in D : g # t => mem'[g] = mem[g]
    BY <1>6, <1>7, <1>9, ExceptHolds
  <2> QED
    BY <1>1, <1>2, <1>3, <1>4, <1>5, <1>8, <2>1 DEF MemInv
<1>10. CASE t \notin D
  BY <1>1, <1>4, <1>5, <1>7, <1>8, <1>10 DEF MemInv
<1> QED
  BY <1>9, <1>10

LEMMA SetEntryCall ==
  ASSUME IInv, SetEntry
  PROVE  /\ call # Idle /\ call.op = "map_page" /\ call.depth = 4
         /\ call' \in Calls /\ call'.op = "invlpg" /\ call'.va = call.va
         /\ UNCHANGED <<phase, cr3, tlb, cloneVars, owned, stray, usable, frameVars>>
<1>1. call.op = "map_page" /\ call # Idle
  BY DEF SetEntry, Idle
<1>2. PICK c \in Calls : c = call
  BY <1>1, CallFacts
<1>3. [c EXCEPT !.op = "invlpg"] \in Calls /\ [c EXCEPT !.op = "invlpg"].op = "invlpg"
      /\ [c EXCEPT !.op = "invlpg"].va = c.va
  BY DEF Calls
<1> QED
  BY <1>1, <1>2, <1>3 DEF SetEntry

LEMMA SetEntryStep ==
  ASSUME IInv, SetEntry
  PROVE  IInv'
<1>1. /\ phase = "up" /\ ~Booting /\ stack = << >> /\ MemInv' /\ call' \in Calls
      /\ UNCHANGED <<phase, cr3, tlb, cloneVars, owned, stray, usable, frameVars>>
  BY CallFacts, SetEntryCall, SetEntryMemory
<1>2. FramesInv' /\ PhaseInv' /\ StackInv'
  BY <1>1 DEF IInv, FramesInv, PhaseInv, StackInv, Booting, cloneVars, frameVars
<1> QED
  BY <1>1, <1>2 DEF IInv

\* A call begins.
LEMMA MapPageStep ==
  ASSUME IInv, NEW v \in Virtual, NEW pa \in Pages, NEW flags \in FlagSets,
         map_page(v, pa, flags)
  PROVE  /\ IInv' /\ phase = "up" /\ call' \in Calls
         /\ call'.op = "map_page" /\ call'.va = v /\ call'.table = cr3 /\ call'.depth = 1
<1>1. /\ phase = "up" /\ cr3 \in Nat
  BY TablesAssumption, FramesAssumption DEF map_page, IInv, FramesInv, PhaseInv, Booting
<1>2. /\ call' = [op |-> "map_page", va |-> v, pa |-> pa, flags |-> flags, table |-> cr3, depth |-> 1]
      /\ UNCHANGED <<phase, mem, cr3, tlb, cloneVars, owned, stray, usable, frameVars>>
  BY DEF map_page
<1>3. call' \in Calls
  BY <1>1, <1>2, TablesAssumption DEF Calls
<1>4. FramesInv' /\ PhaseInv'
  BY <1>1, <1>2 DEF IInv, FramesInv, PhaseInv, Booting, cloneVars, frameVars
<1> QED
  BY <1>1, <1>2, <1>3, <1>4, OtherSteps DEF cloneVars

LEMMA NextInv ==
  ASSUME IInv, [Next]_vars
  PROVE  IInv'
<1>1. CASE MemoryInit
  <2>1. CASE vmm_clone_kernel_space
    <3>1. phase = "clone" /\ stack = << >> /\ cr3 = BootRoot
      BY <2>1 DEF vmm_clone_kernel_space, IInv, PhaseInv, Booting
    <3>2. CallClone(BootRoot, 4, stack) /\ UNCHANGED <<cr3, tlb, call, stray, usable>>
      BY <2>1, <3>1 DEF vmm_clone_kernel_space
    <3>3. BootRoot \in DOMAIN BootTables /\ BootLevel[BootRoot] = 4 /\ Len(stack) = 0
      BY <3>1, BootFacts, TablesAssumption
    <3> QED
      BY <3>1, <3>2, <3>3, CallCloneStep
  <2> QED
    BY <1>1, <2>1, InitStep, CloneEntryStep, CloneReturnStep, CloneDoneStep DEF MemoryInit
<1>2. CASE \E v \in Virtual, pa \in Pages, flags \in FlagSets : map_page(v, pa, flags)
  BY <1>2, MapPageStep
<1>3. CASE invlpg
  <2>1. call' = Idle /\ UNCHANGED <<phase, mem, cr3, cloneVars, owned, stray, usable, frameVars>>
    BY <1>3 DEF invlpg
  <2>2. FramesInv' /\ PhaseInv'
    BY <2>1 DEF IInv, FramesInv, PhaseInv, Booting, cloneVars, frameVars
  <2> QED
    BY <2>1, <2>2, OtherSteps DEF cloneVars
<1>4. CASE \E v \in Virtual : Access(v)
  <2>1. UNCHANGED <<phase, mem, cr3, cloneVars, call, owned, stray, usable, frameVars>>
    BY <1>4 DEF Access
  <2>2. FramesInv' /\ PhaseInv'
    BY <2>1 DEF IInv, FramesInv, PhaseInv, Booting, cloneVars, frameVars
  <2> QED
    BY <2>1, <2>2, OtherSteps DEF cloneVars, IInv
<1>5. CASE OtherTakes \/ OtherReturns
  <2>1. phase = "up" /\ UNCHANGED <<phase, mem, cr3, tlb, cloneVars, call, owned, stray, usable>>
    BY <1>5 DEF OtherTakes, OtherReturns
  <2>2. FramesInv'
    <3>1. CASE OtherTakes
      BY <2>1, <3>1, TakenFrame DEF OtherTakes, IInv
    <3>2. CASE OtherReturns
      <4>1. PICK f \in held \ owned : held' = held \ {f}
        BY <3>2 DEF OtherReturns
      <4>2. available' = available \cup (held \ held')
        BY <3>2 DEF OtherReturns, Frames!Release
      <4> QED
        BY <2>1, <4>1, <4>2 DEF IInv, FramesInv
    <3> QED
      BY <1>5, <3>1, <3>2
  <2>3. PhaseInv'
    BY <2>1 DEF IInv, PhaseInv, Booting, cloneVars
  <2> QED
    BY <2>1, <2>2, <2>3, OtherSteps DEF cloneVars, IInv
<1>6. CASE UNCHANGED vars
  <2>1. UNCHANGED <<phase, mem, cr3, stack, new_pml4, call, owned, usable, available, held>>
    BY <1>6 DEF vars, cloneVars, frameVars
  <2>2. FramesInv' /\ PhaseInv'
    BY <2>1 DEF IInv, FramesInv, PhaseInv, Booting
  <2> QED
    BY <2>1, <2>2, OtherSteps DEF IInv
<1> QED
  BY <1>1, <1>2, <1>3, <1>4, <1>5, <1>6, NextLevelStep, SetEntryStep DEF Next

\* The invariant, for every value of the constants.
THEOREM InductiveCorrect == Spec => []IInv
<1>1. ASSUME Init PROVE IInv
  <2>1. /\ phase = "pmm_init" /\ mem = BootTables /\ cr3 = BootRoot /\ stack = << >>
        /\ new_pml4 = 0 /\ call = Idle /\ owned = {} /\ usable \in Pools
        /\ available = {} /\ held = {}
    BY <1>1 DEF Init, Frames!Init
  <2>2. FramesInv
    BY <2>1 DEF FramesInv
  <2>3. PhaseInv
    BY <2>1, TablesAssumption, FramesAssumption DEF PhaseInv, Booting, Phases
  <2>4. MemInv
    BY <2>1, TablesAssumption DEF MemInv
  <2>5. StackInv
    BY <2>1 DEF StackInv
  <2> QED
    BY <2>1, <2>2, <2>3, <2>4, <2>5 DEF IInv
<1> QED
  BY <1>1, NextInv, PTL DEF Spec

(* clone_table reads the bootloader's tables and writes its own, whatever  *)
(* the page sizes, and recurs at most four levels deep (paging.c:51-79).   *)
THEOREM TypeCorrect == Spec => []TypeOK
<1>1. ASSUME IInv PROVE TypeOK
  <2>1. stack \in Seq(Activations) /\ DOMAIN stack = 1 .. Len(stack)
    BY <1>1, LenProperties DEF IInv, StackInv
  <2>2. cr3 \in {BootRoot, new_pml4}
    BY <1>1 DEF IInv, PhaseInv
  <2> QED
    BY <1>1, <2>1, <2>2 DEF IInv, FramesInv, PhaseInv, MemInv, StackInv, Phases, TypeOK
<1> QED
  BY <1>1, InductiveCorrect, PTL

-----------------------------------------------------------------------------
(***************************************************************************)
(* The copy in progress                                                    *)
(***************************************************************************)

\* The loop of the activation that writes table f, if one does, is past entry i.
Written(f, i) == \A k \in 1 .. Len(stack) : stack[k].dst = f => i < stack[k].i
OnStack(f) == \E k \in 1 .. Len(stack) : stack[k].dst = f

\* org says which table each frame is the copy of. The entry i of f is a copy of
Source(org, f, i) == BootTables[org[f]][i]
LeadsOn(org, f, i) == Leads(Source(org, f, i), BootLevel[org[f]])

\* The entry is written and leads to c.
LinksTo(org, f, i, c) == Written(f, i) /\ LeadsOn(org, f, i) /\ mem[f][i].to = c

\* An entry that is written is the original's, or leads to the finished copy of
\* the table the original leads to.
RightEntry(org, f, i) ==
  /\ ~Present(Source(org, f, i)) => ~Present(mem[f][i])
  /\ Present(Source(org, f, i)) /\ ~LeadsOn(org, f, i) => mem[f][i] = Source(org, f, i)
  /\ LeadsOn(org, f, i) =>
       /\ mem[f][i].bits = Source(org, f, i).bits
       /\ mem[f][i].to \in owned
       /\ org[mem[f][i].to] = Source(org, f, i).to
       /\ ~OnStack(mem[f][i].to)

(* What has been copied is a tree: each table has one entry that leads to  *)
(* it, but for those still being written and the root.                     *)
Copied(org) ==
  /\ org \in [owned -> DOMAIN BootTables]
  /\ \A j, k \in 1 .. Len(stack) : stack[j].dst = stack[k].dst => j = k
  /\ \A k \in 1 .. Len(stack) : org[stack[k].dst] = stack[k].src
  /\ stack # << >> => stack[1].src = BootRoot
  /\ new_pml4 # 0 => org[new_pml4] = BootRoot
  /\ \A f \in owned, i \in Index : Written(f, i) => RightEntry(org, f, i)
  /\ \A f, g \in owned, i, j \in Index, c \in owned :
       LinksTo(org, f, i, c) /\ LinksTo(org, g, j, c) => f = g /\ i = j
  /\ \A c \in owned : ~OnStack(c) /\ c # new_pml4 =>
       \E f \in owned, i \in Index : LinksTo(org, f, i, c)

CopyInv ==
  /\ phase = "pmm_init" \/ (phase = "clone" /\ stack = << >>) => owned = {}
  /\ phase \in {"clone", "load"} => \E org : Copied(org)

\* A frame is taken for a copy of src.
LEMMA CopyCalled ==
  ASSUME IInv, CopyInv, phase = "clone",
         NEW src \in DOMAIN BootTables, NEW level \in 1 .. 4,
         stack = << >> => src = BootRoot,
         NEW f \in available, Take(f), mem' = With(mem, f, Garbage),
         stack' = Append(stack, Activation(src, f, level)), new_pml4' = new_pml4
  PROVE  \E org : Copied(org)'
<1>1. PICK org : Copied(org)
  BY DEF CopyInv
<1>2. /\ f \notin owned /\ owned' = owned \cup {f} /\ new_pml4 = 0
  BY AllocFacts DEF IInv, FramesInv, PhaseInv, Take
<1>3. PICK n \in Nat : n = Len(stack)
  BY LenProperties DEF IInv, StackInv
<1>4. /\ Len(stack') = n + 1 /\ \A k \in 1 .. n : stack'[k] = stack[k]
      /\ stack'[n + 1].dst = f /\ stack'[n + 1].src = src /\ stack'[n + 1].i = 0
  <2>1. /\ Len(stack') = n + 1 /\ stack'[n + 1] = Activation(src, f, level)
        /\ \A k \in 1 .. n : stack'[k] = stack[k]
    BY <1>3, AppendProperties DEF IInv, StackInv
  <2> QED
    BY <2>1 DEF Activation
<1>5. \A k \in 1 .. n : stack[k].dst \in owned
  <2> SUFFICES ASSUME NEW k \in 1 .. n PROVE stack[k].dst \in owned
    OBVIOUS
  <2>1. stack[k] \in Activations
    BY <1>3, ElementOfSeq DEF IInv, StackInv
  <2> QED
    BY <2>1 DEF Activations
<1>6. \A g \in owned : g # f /\ mem'[g] = mem[g]
  <2>1. \A g \in DOMAIN BootTables \cup owned : g # f => mem'[g] = mem[g]
    BY EntriesTyped, WithHolds DEF IInv
  <2> QED
    BY <1>2, <2>1
<1>7. PICK new : new = [g \in owned \cup {f} |-> IF g = f THEN src ELSE org[g]]
  OBVIOUS
<1>8. new \in [owned' -> DOMAIN BootTables] /\ new[f] = src /\ \A g \in owned : new[g] = org[g]
  BY <1>1, <1>2, <1>7 DEF Copied
<1>9. \A k \in 1 .. (n + 1) : k \in 1 .. n \/ k = n + 1
  OBVIOUS
<1>10. \A g \in owned, i \in Index : Written(g, i)' <=> Written(g, i)
  <2> SUFFICES ASSUME NEW g \in owned, NEW i \in Index
               PROVE  Written(g, i)' <=> Written(g, i)
    OBVIOUS
  <2>1. ASSUME Written(g, i) PROVE Written(g, i)'
    BY <1>2, <1>3, <1>4, <1>9, <2>1 DEF Written
  <2>2. ASSUME Written(g, i)' PROVE Written(g, i)
    BY <1>3, <1>4, <2>2 DEF Written
  <2> QED
    BY <2>1, <2>2
<1>11. \A i \in Index : ~Written(f, i)'
  <2>1. n + 1 \in 1 .. Len(stack')
    BY <1>4
  <2> QED
    BY <1>4, <2>1, TablesAssumption DEF Written, Index
<1>12. OnStack(f)' /\ \A g \in owned : OnStack(g)' <=> OnStack(g)
  <2>1. OnStack(f)'
    <3>1. n + 1 \in 1 .. Len(stack')
      BY <1>4
    <3> QED
      BY <1>4, <3>1 DEF OnStack
  <2>2. ASSUME NEW g \in owned, OnStack(g) PROVE OnStack(g)'
    BY <1>3, <1>4, <2>2 DEF OnStack
  <2>3. ASSUME NEW g \in owned, OnStack(g)' PROVE OnStack(g)
    BY <1>2, <1>3, <1>4, <1>9, <2>3 DEF OnStack
  <2> QED
    BY <2>1, <2>2, <2>3
<1>14. \A g \in owned, i \in Index : \A c : LinksTo(new, g, i, c)' <=> LinksTo(org, g, i, c)
  <2> SUFFICES ASSUME NEW g \in owned, NEW i \in Index, NEW c
               PROVE  LinksTo(new, g, i, c)' <=> LinksTo(org, g, i, c)
    OBVIOUS
  <2>1. LeadsOn(new, g, i)' <=> LeadsOn(org, g, i)
    BY <1>8 DEF Source, LeadsOn
  <2>2. mem'[g][i] = mem[g][i] /\ (Written(g, i)' <=> Written(g, i))
    BY <1>6, <1>10
  <2> QED
    BY <2>1, <2>2 DEF LinksTo
<1>15. \A j, k \in 1 .. Len(stack') : stack'[j].dst = stack'[k].dst => j = k
  BY <1>1, <1>2, <1>3, <1>4, <1>5, <1>9 DEF Copied
<1>16. \A k \in 1 .. Len(stack') : new[stack'[k].dst] = stack'[k].src
  BY <1>1, <1>3, <1>4, <1>5, <1>8, <1>9 DEF Copied
<1>17. stack'[1].src = BootRoot
  <2>1. CASE n = 0
    <3>1. stack = << >>
      BY <1>3, <2>1, EmptySeq DEF IInv, StackInv
    <3>2. stack'[1] = stack'[n + 1]
      BY <2>1
    <3> QED
      BY <1>4, <3>1, <3>2
  <2>2. CASE n # 0
    <3>1. stack'[1] = stack[1] /\ stack # << >>
      BY <1>3, <1>4, <2>2
    <3> QED
      BY <1>1, <3>1 DEF Copied
  <2> QED
    BY <2>1, <2>2
<1>18. \A g \in owned', i \in Index : Written(g, i)' => RightEntry(new, g, i)'
  <2> SUFFICES ASSUME NEW g \in owned', NEW i \in Index, Written(g, i)'
               PROVE  RightEntry(new, g, i)'
    OBVIOUS
  <2>1. g \in owned /\ Written(g, i)
    BY <1>2, <1>10, <1>11
  <2>2. RightEntry(org, g, i)
    BY <1>1, <2>1 DEF Copied
  <2>3. /\ Source(new, g, i)' = Source(org, g, i) /\ LeadsOn(new, g, i)' = LeadsOn(org, g, i)
        /\ mem'[g][i] = mem[g][i]
    BY <1>6, <1>8, <2>1 DEF Source, LeadsOn
  <2> QED
    BY <1>2, <1>8, <1>12, <2>2, <2>3 DEF RightEntry
<1>19. \A g, h \in owned', i, j \in Index, c \in owned' :
         LinksTo(new, g, i, c)' /\ LinksTo(new, h, j, c)' => g = h /\ i = j
  <2> SUFFICES ASSUME NEW g \in owned', NEW h \in owned', NEW i \in Index, NEW j \in Index,
                      NEW c \in owned', LinksTo(new, g, i, c)', LinksTo(new, h, j, c)'
               PROVE  g = h /\ i = j
    OBVIOUS
  <2>1. g \in owned /\ h \in owned
    BY <1>2, <1>11 DEF LinksTo
  <2>2. LinksTo(org, g, i, c) /\ LinksTo(org, h, j, c)
    BY <1>14, <2>1
  <2>3. c \in owned
    BY <1>1, <2>1, <2>2 DEF Copied, RightEntry, LinksTo
  <2> QED
    BY <1>1, <2>1, <2>2, <2>3 DEF Copied
<1>20. \A c \in owned' : ~OnStack(c)' /\ c # new_pml4' =>
         \E g \in owned', i \in Index : LinksTo(new, g, i, c)'
  <2> SUFFICES ASSUME NEW c \in owned', ~OnStack(c)', c # new_pml4'
               PROVE  \E g \in owned', i \in Index : LinksTo(new, g, i, c)'
    OBVIOUS
  <2>1. c \in owned /\ ~OnStack(c)
    BY <1>2, <1>12
  <2>2. PICK g \in owned, i \in Index : LinksTo(org, g, i, c)
    BY <1>1, <2>1 DEF Copied
  <2> QED
    BY <1>2, <1>14, <2>2
<1>21. Copied(new)'
  BY <1>2, <1>8, <1>15, <1>16, <1>17, <1>18, <1>19, <1>20 DEF Copied
<1> QED
  BY <1>21

\* Entry i of table d is written, and with that the copies in `done` are linked in.
LEMMA CopyGrows ==
  ASSUME NEW org, Copied(org), NEW d \in owned, NEW i \in Index,
         NEW done \in SUBSET owned,
         \A j, k \in 1 .. Len(stack') : stack'[j].dst = stack'[k].dst => j = k,
         \A k \in 1 .. Len(stack') : org[stack'[k].dst] = stack'[k].src,
         stack' # << >> => stack'[1].src = BootRoot,
         owned' = owned, new_pml4' = new_pml4, new_pml4 = 0,
         \A f \in owned, j \in Index : Written(f, j)' => Written(f, j) \/ (f = d /\ j = i),
         \A f \in owned, j \in Index : Written(f, j) => Written(f, j)',
         \A f \in owned : OnStack(f)' <=> OnStack(f) /\ f \notin done,
         \A f \in owned, j \in Index : f # d \/ j # i => mem'[f][j] = mem[f][j],
         ~Written(d, i),
         RightEntry(org, d, i)',
         \A c \in done : OnStack(c) /\ LinksTo(org, d, i, c)',
         LeadsOn(org, d, i) => mem'[d][i].to \in done
  PROVE  Copied(org)'
<1>1. \A f, j : Source(org, f, j)' = Source(org, f, j) /\ LeadsOn(org, f, j)' = LeadsOn(org, f, j)
  BY DEF Source, LeadsOn
<1>2. \A f \in owned, j \in Index : Written(f, j) => f # d \/ j # i
  OBVIOUS
<1>3. ASSUME NEW f \in owned, NEW j \in Index, Written(f, j)' PROVE RightEntry(org, f, j)'
  <2>1. CASE f = d /\ j = i
    BY <2>1
  <2>2. CASE Written(f, j)
    <3>1. RightEntry(org, f, j) /\ mem'[f][j] = mem[f][j]
      BY <1>2, <2>2 DEF Copied
    <3> QED
      BY <1>1, <3>1 DEF RightEntry
  <2> QED
    BY <1>3, <2>1, <2>2
<1>4. ASSUME NEW f \in owned, NEW j \in Index, NEW c \in owned, LinksTo(org, f, j, c)
      PROVE  LinksTo(org, f, j, c)' /\ ~OnStack(c)
  <2>1. Written(f, j) /\ LeadsOn(org, f, j) /\ mem[f][j].to = c
    BY <1>4 DEF LinksTo
  <2>2. RightEntry(org, f, j) /\ mem'[f][j] = mem[f][j] /\ Written(f, j)'
    BY <1>2, <2>1 DEF Copied
  <2> QED
    BY <1>1, <2>1, <2>2 DEF LinksTo, RightEntry
<1>5. ASSUME NEW f \in owned, NEW j \in Index, NEW c \in owned, LinksTo(org, f, j, c)'
      PROVE  \/ LinksTo(org, f, j, c)
             \/ f = d /\ j = i /\ c \in done
  <2>1. Written(f, j)' /\ LeadsOn(org, f, j) /\ mem'[f][j].to = c
    BY <1>1, <1>5 DEF LinksTo
  <2>2. CASE Written(f, j)
    <3>1. mem'[f][j] = mem[f][j]
      BY <1>2, <2>2
    <3> QED
      BY <2>1, <2>2, <3>1 DEF LinksTo
  <2>3. CASE f = d /\ j = i
    BY <2>1, <2>3
  <2> QED
    BY <2>1, <2>2, <2>3
<1>6. ASSUME NEW f \in owned, NEW g \in owned, NEW j \in Index, NEW k \in Index, NEW c \in owned,
             LinksTo(org, f, j, c)', LinksTo(org, g, k, c)'
      PROVE  f = g /\ j = k
  <2>1. CASE c \in done
    <3>1. OnStack(c)
      BY <2>1
    <3> QED
      BY <1>4, <1>5, <1>6, <3>1
  <2>2. CASE c \notin done
    <3>1. LinksTo(org, f, j, c) /\ LinksTo(org, g, k, c)
      BY <1>5, <1>6, <2>2
    <3> QED
      BY <3>1 DEF Copied
  <2> QED
    BY <2>1, <2>2
<1>7. ASSUME NEW c \in owned, ~OnStack(c)'
      PROVE  c # new_pml4 => \E f \in owned, j \in Index : LinksTo(org, f, j, c)'
  <2>1. CASE c \in done
    BY <2>1
  <2>2. CASE c \notin done
    <3>1. ~OnStack(c)
      BY <1>7, <2>2
    <3> QED
      BY <1>4, <3>1 DEF Copied
  <2> QED
    BY <2>1, <2>2
<1>8. org \in [owned' -> DOMAIN BootTables]
  BY DEF Copied
<1> QED
  BY <1>3, <1>6, <1>7, <1>8 DEF Copied

\* The memory after one entry has changed.
Changed(d, i, x) == [mem EXCEPT ![d][i] = x]

LEMMA EntryChanged ==
  ASSUME MemInv, NEW d \in owned, NEW i \in Index, NEW x \in Entry
  PROVE  /\ Changed(d, i, x)[d][i] = x
         /\ \A f \in owned, j \in Index :
              f # d \/ j # i => Changed(d, i, x)[f][j] = mem[f][j]
<1>1. PICK D : D = DOMAIN BootTables \cup owned
  OBVIOUS
<1>2. mem \in [D -> [Index -> Entry]] /\ d \in D
  BY <1>1 DEF MemInv
<1>3. /\ Changed(d, i, x)[d][i] = x
      /\ \A j \in Index : j # i => Changed(d, i, x)[d][j] = mem[d][j]
      /\ \A f \in D : f # d => Changed(d, i, x)[f] = mem[f]
  BY <1>2, ExceptHolds DEF Changed
<1> QED
  BY <1>1, <1>3

LEMMA EntryCopied ==
  ASSUME IInv, CopyInv, CloneEntry,
         ~Present(Contents(Top.src)[Top.i]) \/ Leaf(Contents(Top.src)[Top.i], Top.level)
  PROVE  \E org : Copied(org)'
<1> DEFINE e == BootTables[Top.src][Top.i]
<1>1. stack # << >> /\ Top.i < ENTRIES
  BY DEF CloneEntry
<1>2. PICK n \in 1 .. 4 : n = Len(stack)
  BY <1>1, TopFacts
<1>3. PICK i \in Index : i = Top.i
  BY <1>1, TopFacts, TablesAssumption DEF Index
<1>4. Top \in Activations /\ Top = stack[n] /\ Top.level = 5 - n /\ Top.src \in DOMAIN BootTables
      /\ BootLevel[Top.src] = 5 - n /\ phase = "clone" /\ Contents(Top.src) = BootTables[Top.src]
      /\ Top.dst \in owned /\ new_pml4 = 0
  BY <1>1, <1>2, TopFacts DEF IInv, PhaseInv
<1>5. e \in Entry
  BY <1>3, <1>4, BootFacts
<1>6. PICK x \in Entry : x = IF Present(e) THEN e ELSE Zero
  BY <1>5, EntriesTyped
<1>7. ~(Present(e) /\ ~Leaf(e, Top.level))
  BY <1>4
<1>8. /\ mem' = [mem EXCEPT ![Top.dst][Top.i] = x]
      /\ stack' = Append(Callers, [Top EXCEPT !.i = @ + 1])
      /\ UNCHANGED <<new_pml4, owned>>
  BY <1>4, <1>6, <1>7 DEF CloneEntry
<1>9. PICK a \in Activations : /\ a = [Top EXCEPT !.i = @ + 1]
                              /\ a.src = Top.src /\ a.dst = Top.dst /\ a.i = i + 1
  BY <1>3, <1>4, NextTurn
<1>10. /\ Len(stack') = n /\ stack'[n] = a
       /\ \A k \in 1 .. (n - 1) : stack'[k] = stack[k]
  BY <1>1, <1>2, <1>8, <1>9, LastReplaced DEF IInv, StackInv, Callers
<1>11. PICK org : Copied(org)
  BY <1>4 DEF CopyInv
<1>12. \A k \in 1 .. n : stack'[k].src = stack[k].src /\ stack'[k].dst = stack[k].dst
  <2> SUFFICES ASSUME NEW k \in 1 .. n
               PROVE  stack'[k].src = stack[k].src /\ stack'[k].dst = stack[k].dst
    OBVIOUS
  <2>1. CASE k = n
    BY <1>4, <1>9, <1>10, <2>1
  <2>2. CASE k \in 1 .. (n - 1)
    BY <1>10, <2>2
  <2> QED
    BY <2>1, <2>2
<1>13. PICK d \in owned : d = Top.dst
  BY <1>4
<1>14. /\ mem'[d][i] = x
       /\ \A f \in owned, j \in Index : f # d \/ j # i => mem'[f][j] = mem[f][j]
  <2>1. mem' = Changed(d, i, x) /\ MemInv
    BY <1>3, <1>8, <1>13 DEF IInv, Changed
  <2> QED
    BY <2>1, EntryChanged
<1>15. /\ \A f \in owned, j \in Index : Written(f, j) => Written(f, j)'
       /\ \A f \in owned, j \in Index : Written(f, j)' => Written(f, j) \/ (f = d /\ j = i)
       /\ ~Written(d, i)
  <2>1. \A j \in Index : j \in Int
    BY TablesAssumption DEF Index
  <2>2. stack[n].i = i /\ stack[n].dst = d /\ stack'[n].i = i + 1 /\ stack'[n].dst = d /\ n \in 1 .. n
    BY <1>3, <1>4, <1>9, <1>10, <1>13
  <2>3. ASSUME NEW f \in owned, NEW j \in Index, Written(f, j) PROVE Written(f, j)'
    <3> SUFFICES ASSUME NEW k \in 1 .. n, stack'[k].dst = f PROVE j < stack'[k].i
      BY <1>10 DEF Written
    <3>1. stack[k].dst = f
      BY <1>12
    <3>2. j < stack[k].i
      BY <1>2, <2>3, <3>1 DEF Written
    <3>3. CASE k = n
      <4>1. j < i
        BY <2>2, <3>2, <3>3
      <4>2. j < i + 1
        BY <2>1, <4>1
      <4> QED
        BY <2>2, <3>3, <4>2
    <3>4. CASE k \in 1 .. (n - 1)
      BY <1>10, <3>2, <3>4
    <3> QED
      BY <3>3, <3>4
  <2>4. ASSUME NEW f \in owned, NEW j \in Index, Written(f, j)', ~(f = d /\ j = i) PROVE Written(f, j)
    <3> SUFFICES ASSUME NEW k \in 1 .. n, stack[k].dst = f PROVE j < stack[k].i
      BY <1>2 DEF Written
    <3>1. stack'[k].dst = f
      BY <1>12
    <3>2. j < stack'[k].i
      BY <1>10, <2>4, <3>1 DEF Written
    <3>3. CASE k = n
      <4>1. j < i + 1 /\ f = d
        BY <2>2, <3>1, <3>2, <3>3
      <4>2. j < i
        BY <2>1, <2>4, <4>1
      <4> QED
        BY <2>2, <3>3, <4>2
    <3>4. CASE k \in 1 .. (n - 1)
      BY <1>10, <3>2, <3>4
    <3> QED
      BY <3>3, <3>4
  <2>5. ~Written(d, i)
    BY <1>2, <2>1, <2>2 DEF Written
  <2> QED
    BY <2>3, <2>4, <2>5
<1>16. \A f \in owned : OnStack(f)' <=> OnStack(f)
  BY <1>2, <1>10, <1>12 DEF OnStack
<1>17. /\ \A j, k \in 1 .. Len(stack') : stack'[j].dst = stack'[k].dst => j = k
       /\ \A k \in 1 .. Len(stack') : org[stack'[k].dst] = stack'[k].src
       /\ stack'[1].src = BootRoot
  BY <1>1, <1>2, <1>10, <1>11, <1>12 DEF Copied
<1>18. org[d] = Top.src
  BY <1>2, <1>4, <1>11, <1>13 DEF Copied
<1>19. Source(org, d, i) = e /\ ~LeadsOn(org, d, i)
  <2>1. Source(org, d, i) = e
    BY <1>3, <1>18 DEF Source
  <2>2. ~Leads(e, BootLevel[Top.src])
    <3>1. CASE ~Present(e)
      BY <3>1 DEF Leads
    <3>2. CASE Present(e)
      <4>1. BootLevel[Top.src] \in 1 .. 4 /\ BootLevel[Top.src] = Top.level
        BY <1>4
      <4> QED
        BY <1>5, <1>7, <3>2, <4>1, LeafOrLeads
    <3> QED
      BY <3>1, <3>2
  <2> QED
    BY <1>18, <2>1, <2>2 DEF LeadsOn
<1>20. RightEntry(org, d, i)'
  <2>1. Source(org, d, i)' = e /\ ~LeadsOn(org, d, i)'
    BY <1>19 DEF Source, LeadsOn
  <2>2. ~Present(e) => ~Present(x)
    BY <1>6 DEF Present, Zero
  <2> QED
    BY <1>6, <1>14, <2>1, <2>2 DEF RightEntry
<1>21. PICK none \in SUBSET owned : none = {}
  OBVIOUS
<1>22. /\ \A f \in owned : OnStack(f)' <=> OnStack(f) /\ f \notin none
       /\ \A c \in none : OnStack(c) /\ LinksTo(org, d, i, c)'
       /\ LeadsOn(org, d, i) => mem'[d][i].to \in none
  BY <1>16, <1>19, <1>21
<1>23. Copied(org)'
  BY <1>4, <1>8, <1>11, <1>14, <1>15, <1>17, <1>20, <1>22, CopyGrows, Zenon
<1> QED
  BY <1>23

\* A finished copy is linked in.
LEMMA ChildLinked ==
  ASSUME IInv, CopyInv, CloneReturn
  PROVE  \E org : Copied(org)'
<1>1. PICK n \in 1 .. 4 : n = Len(stack) - 1 /\ n + 1 = Len(stack) /\ n <= Len(stack)
  BY CallerFacts
<1>2. stack # << >> /\ Callers # << >> /\ Callers[Len(Callers)] = stack[n] /\ Len(Callers) = n
  BY <1>1, CallerFacts, EmptySeq
<1>3. /\ Top = stack[n + 1] /\ Top.dst \in owned /\ Top.i = ENTRIES /\ phase = "clone"
      /\ new_pml4 = 0 /\ Top.src \in DOMAIN BootTables
  BY <1>1, <1>2, TopFacts DEF IInv, PhaseInv, CloneReturn
<1>4. PICK c \in owned : c = Top.dst
  BY <1>3
<1>5. n \in 1 .. Len(stack) /\ n + 1 \in 1 .. Len(stack)
  BY <1>1
<1>6. /\ stack[n] \in Activations /\ stack[n].dst \in owned /\ stack[n].src \in DOMAIN BootTables
      /\ Contents(stack[n].src) = BootTables[stack[n].src]
      /\ BootTables[stack[n].src] \in [Index -> Entry] /\ BootLevel[stack[n].src] = 5 - n
  BY <1>5, StackFacts
<1>7. PICK d \in owned : d = stack[n].dst
  BY <1>6
<1>8. stack[n].i \in Index /\ Called(stack[n], stack[n + 1]) /\ stack[n].level = 5 - n
  BY <1>1, <1>5 DEF IInv, StackInv, Called
<1>9. PICK i \in Index : i = stack[n].i
  BY <1>8
<1>10. PICK e \in Entry : e = BootTables[stack[n].src][i]
  BY <1>6
<1>11. e.to = Top.src /\ Leads(e, 5 - n)
  BY <1>3, <1>8, <1>9, <1>10 DEF Called
<1>12. PICK x \in Entry : x = [e EXCEPT !.to = c]
  <2>1. c \in Nat
    BY DEF IInv, FramesInv
  <2> QED
    BY <2>1 DEF Entry
<1>13. x.to = c /\ x.bits = e.bits
  BY <1>12 DEF Entry
<1>14. mem' = Changed(d, i, x)
  BY <1>2, <1>4, <1>6, <1>7, <1>9, <1>10, <1>12 DEF CloneReturn, Relocated, Changed
<1>15. /\ mem'[d][i] = x
       /\ \A f \in owned, j \in Index : f # d \/ j # i => mem'[f][j] = mem[f][j]
  BY <1>14, EntryChanged DEF IInv
<1>16. PICK a : /\ a = [stack[n] EXCEPT !.i = i + 1]
                /\ a.src = stack[n].src /\ a.dst = d /\ a.i = i + 1
  <2>1. PICK b \in Activations : b = stack[n] /\ b.i = i
    BY <1>6, <1>9
  <2>2. /\ [b EXCEPT !.i = i + 1].src = b.src /\ [b EXCEPT !.i = i + 1].dst = b.dst
        /\ [b EXCEPT !.i = i + 1].i = i + 1
    BY <2>1, NextTurn
  <2> QED
    BY <1>7, <2>1, <2>2
<1>17. /\ Len(stack') = n /\ stack'[n] = a
       /\ \A k \in 1 .. (n - 1) : stack'[k] = stack[k]
  BY <1>1, <1>9, <1>16, CloneReturnStack
<1>18. PICK org : Copied(org)
  BY <1>3 DEF CopyInv
<1>19. \A k \in 1 .. n : stack'[k].src = stack[k].src /\ stack'[k].dst = stack[k].dst
  <2> SUFFICES ASSUME NEW k \in 1 .. n
               PROVE  stack'[k].src = stack[k].src /\ stack'[k].dst = stack[k].dst
    OBVIOUS
  <2>1. CASE k = n
    BY <1>7, <1>16, <1>17, <2>1
  <2>2. CASE k \in 1 .. (n - 1)
    BY <1>17, <2>2
  <2> QED
    BY <2>1, <2>2
<1>20. \A k \in 1 .. Len(stack) : k = n + 1 \/ k \in 1 .. n
  BY <1>1
<1>21. \A k \in 1 .. n : stack[k].dst # c /\ k \in 1 .. Len(stack)
  BY <1>1, <1>3, <1>4, <1>5, <1>18 DEF Copied
<1>22. /\ \A f \in owned, j \in Index : Written(f, j) => Written(f, j)'
       /\ \A f \in owned, j \in Index : Written(f, j)' => Written(f, j) \/ (f = d /\ j = i)
       /\ ~Written(d, i)
  <2>1. \A j \in Index : j \in Int /\ j < ENTRIES
    BY TablesAssumption DEF Index
  <2>2. stack[n].i = i /\ stack[n].dst = d /\ stack'[n].i = i + 1 /\ stack'[n].dst = d /\ n \in 1 .. n
    BY <1>7, <1>9, <1>16, <1>17
  <2>3. ASSUME NEW f \in owned, NEW j \in Index, Written(f, j) PROVE Written(f, j)'
    <3> SUFFICES ASSUME NEW k \in 1 .. n, stack'[k].dst = f PROVE j < stack'[k].i
      BY <1>17 DEF Written
    <3>1. stack[k].dst = f
      BY <1>19
    <3>2. j < stack[k].i
      BY <1>21, <2>3, <3>1 DEF Written
    <3>3. CASE k = n
      <4>1. j < i
        BY <2>2, <3>2, <3>3
      <4>2. j < i + 1
        BY <2>1, <4>1
      <4> QED
        BY <2>2, <3>3, <4>2
    <3>4. CASE k \in 1 .. (n - 1)
      BY <1>17, <3>2, <3>4
    <3> QED
      BY <3>3, <3>4
  <2>4. ASSUME NEW f \in owned, NEW j \in Index, Written(f, j)', ~(f = d /\ j = i) PROVE Written(f, j)
    <3> SUFFICES ASSUME NEW k \in 1 .. Len(stack), stack[k].dst = f PROVE j < stack[k].i
      BY DEF Written
    <3>1. CASE k = n + 1
      BY <1>3, <2>1, <3>1
    <3>2. CASE k \in 1 .. n
      <4>1. stack'[k].dst = f
        BY <1>19, <3>2
      <4>2. j < stack'[k].i
        BY <1>17, <2>4, <3>2, <4>1 DEF Written
      <4>3. CASE k = n
        <5>1. j < i + 1 /\ f = d
          BY <2>2, <4>1, <4>2, <4>3
        <5>2. j < i
          BY <2>1, <2>4, <5>1
        <5> QED
          BY <2>2, <4>3, <5>2
      <4>4. CASE k \in 1 .. (n - 1)
        BY <1>17, <4>2, <4>4
      <4> QED
        BY <3>2, <4>3, <4>4
    <3> QED
      BY <1>20, <3>1, <3>2
  <2>5. ~Written(d, i)
    BY <1>5, <2>1, <2>2 DEF Written
  <2> QED
    BY <2>3, <2>4, <2>5
<1>23. \A f \in owned : OnStack(f)' <=> OnStack(f) /\ f # c
  <2>1. ASSUME NEW f \in owned, OnStack(f)' PROVE OnStack(f) /\ f # c
    <3>1. PICK k \in 1 .. n : stack'[k].dst = f
      BY <1>17, <2>1 DEF OnStack
    <3> QED
      BY <1>19, <1>21, <3>1 DEF OnStack
  <2>2. ASSUME NEW f \in owned, OnStack(f), f # c PROVE OnStack(f)'
    <3>1. PICK k \in 1 .. Len(stack) : stack[k].dst = f
      BY <2>2 DEF OnStack
    <3>2. k \in 1 .. n
      BY <1>3, <1>4, <1>20, <2>2, <3>1
    <3> QED
      BY <1>17, <1>19, <3>1, <3>2 DEF OnStack
  <2> QED
    BY <2>1, <2>2
<1>24. OnStack(c)
  BY <1>3, <1>4, <1>5 DEF OnStack
<1>25. /\ \A j, k \in 1 .. Len(stack') : stack'[j].dst = stack'[k].dst => j = k
       /\ \A k \in 1 .. Len(stack') : org[stack'[k].dst] = stack'[k].src
       /\ stack'[1].src = BootRoot
  <2>1. 1 \in 1 .. n
    OBVIOUS
  <2> QED
    BY <1>2, <1>17, <1>18, <1>19, <1>21, <2>1 DEF Copied
<1>26. org[d] = stack[n].src /\ org[c] = e.to
  BY <1>3, <1>4, <1>5, <1>7, <1>11, <1>18 DEF Copied
<1>27. Source(org, d, i) = e /\ LeadsOn(org, d, i)
  BY <1>6, <1>10, <1>11, <1>26 DEF Source, LeadsOn
<1>28. Source(org, d, i)' = e /\ LeadsOn(org, d, i)'
  BY <1>27 DEF Source, LeadsOn
<1>29. owned' = owned /\ new_pml4' = new_pml4
  BY DEF CloneReturn
<1>30. Present(e)
  BY <1>11 DEF Leads
<1>31. RightEntry(org, d, i)'
  <2>1. ~OnStack(c)'
    BY <1>23
  <2>2. mem'[d][i].to = c /\ mem'[d][i].bits = e.bits
    BY <1>13, <1>15
  <2> QED
    BY <1>26, <1>28, <1>29, <1>30, <2>1, <2>2 DEF RightEntry
<1>32. LinksTo(org, d, i, c)'
  <2>1. Written(d, i)'
    <3> SUFFICES ASSUME NEW k \in 1 .. n, stack'[k].dst = d PROVE i < stack'[k].i
      BY <1>17 DEF Written
    <3>1. k = n
      BY <1>5, <1>7, <1>18, <1>19, <1>21 DEF Copied
    <3>2. i < i + 1
      BY TablesAssumption DEF Index
    <3> QED
      BY <1>16, <1>17, <3>1, <3>2
  <2> QED
    BY <1>13, <1>15, <1>28, <2>1 DEF LinksTo
<1>33. PICK done \in SUBSET owned : done = {c}
  OBVIOUS
<1>34. /\ \A f \in owned : OnStack(f)' <=> OnStack(f) /\ f \notin done
       /\ \A b \in done : OnStack(b) /\ LinksTo(org, d, i, b)'
       /\ LeadsOn(org, d, i) => mem'[d][i].to \in done
  <2>1. mem'[d][i].to = c
    BY <1>13, <1>15
  <2> QED
    BY <1>23, <1>24, <1>32, <1>33, <2>1
<1>35. Copied(org)'
  BY <1>3, <1>15, <1>18, <1>22, <1>25, <1>29, <1>31, <1>34, CopyGrows, Zenon
<1> QED
  BY <1>35

\* A frame is taken for a table, or the whole copy is given up.
LEMMA CallKeepsCopy ==
  ASSUME IInv, CopyInv, phase = "clone", NEW src \in DOMAIN BootTables, NEW level \in 1 .. 4,
         stack = << >> => src = BootRoot, CallClone(src, level, stack)
  PROVE  CopyInv'
<1>1. ASSUME NEW f \in available, Take(f), mem' = With(mem, f, Garbage),
             stack' = Append(stack, Activation(src, f, level)), UNCHANGED <<phase, new_pml4>>
      PROVE  CopyInv'
  <2>1. \E org : Copied(org)'
    BY <1>1, CopyCalled
  <2>2. stack' # << >>
    <3>1. stack \in Seq(Activations) /\ Len(stack) \in Nat
      BY LenProperties DEF IInv, StackInv
    <3>2. Len(stack') = Len(stack) + 1
      BY <1>1, <3>1, AppendProperties
    <3> QED
      BY <3>1, <3>2
  <2> QED
    BY <1>1, <2>1, <2>2 DEF CopyInv
<1>2. CASE CloneReturns(0)
  BY <1>2 DEF CloneReturns, CopyInv
<1> QED
  BY <1>1, <1>2 DEF CallClone

LEMMA CopyNext ==
  ASSUME IInv, CopyInv, [Next]_vars
  PROVE  CopyInv'
<1>1. CASE vmm_clone_kernel_space
  <2>1. phase = "clone" /\ CallClone(BootRoot, 4, stack) /\ BootRoot \in DOMAIN BootTables
    BY <1>1, TablesAssumption DEF vmm_clone_kernel_space, IInv, PhaseInv, Booting
  <2> QED
    BY <2>1, CallKeepsCopy
<1>2. CASE CloneEntry
  <2>1. stack # << >> /\ phase = "clone" /\ Top.level \in 1 .. 4 /\ Top.src \in DOMAIN BootTables
        /\ Top.i \in Index /\ Contents(Top.src) = BootTables[Top.src] /\ BootLevel[Top.src] = Top.level
    <3>1. stack # << >> /\ Top.i < ENTRIES
      BY <1>2 DEF CloneEntry
    <3>2. Top \in Activations
      BY <3>1, TopFacts
    <3>3. Top.level \in 1 .. 4
      BY <3>2 DEF Activations
    <3> QED
      BY <3>1, <3>3, TopFacts, TablesAssumption DEF Index
  <2>2. CASE ~Present(Contents(Top.src)[Top.i]) \/ Leaf(Contents(Top.src)[Top.i], Top.level)
    <3>1. \E org : Copied(org)'
      BY <1>2, <2>2, EntryCopied
    <3>2. phase' = phase /\ stack' # << >>
      <4>1. stack' = Append(Callers, [Top EXCEPT !.i = @ + 1]) /\ phase' = phase
        BY <1>2, <2>2 DEF CloneEntry
      <4>2. [Top EXCEPT !.i = @ + 1] \in Activations
        BY <2>1, TopFacts, NextTurn
      <4>3. Len(stack') = Len(stack) /\ Len(stack) \in Nat \ {0}
        BY <2>1, <4>1, <4>2, LastReplaced DEF IInv, StackInv, Callers
      <4> QED
        BY <4>1, <4>3
    <3> QED
      BY <2>1, <3>1, <3>2 DEF CopyInv
  <2>3. CASE Present(Contents(Top.src)[Top.i]) /\ ~Leaf(Contents(Top.src)[Top.i], Top.level)
    <3>1. PICK e : e = Contents(Top.src)[Top.i]
      OBVIOUS
    <3>2. e \in Entry /\ e = BootTables[Top.src][Top.i]
      BY <2>1, <3>1, BootFacts
    <3>3. Leads(e, BootLevel[Top.src]) /\ Top.level # 1
      BY <2>1, <2>3, <3>1, <3>2, LeafOrLeads DEF Leaf
    <3>4. e.to \in DOMAIN BootTables
      BY <2>1, <3>2, <3>3, BootFacts
    <3>5. PICK l \in 1 .. 4 : l = Top.level - 1
      BY <2>1, <3>3
    <3>6. CallClone(e.to, l, stack)
      BY <1>2, <2>3, <3>1, <3>5 DEF CloneEntry
    <3> QED
      BY <2>1, <3>4, <3>6, CallKeepsCopy
  <2> QED
    BY <2>2, <2>3
<1>3. CASE CloneReturn
  <2>1. \E org : Copied(org)'
    BY <1>3, ChildLinked
  <2>2. PICK n \in 1 .. 4 : n = Len(stack) - 1
    <3>1. PICK m \in 2 .. 4 : m = Len(stack)
      BY <1>3, CallerFacts
    <3>2. m - 1 \in 1 .. 4
      OBVIOUS
    <3> QED
      BY <3>1, <3>2
  <2>3. Len(stack') = n /\ phase' = phase
    BY <1>3, <2>2, CloneReturnStack DEF CloneReturn
  <2>4. stack' # << >> /\ phase = "clone"
    <3>1. stack # << >>
      BY <2>2
    <3> QED
      BY <2>3, <3>1, TopFacts
  <2> QED
    BY <2>1, <2>3, <2>4 DEF CopyInv
<1>4. CASE CloneDone
  <2>1. Len(stack) = 1 /\ stack # << >> /\ Top.i = ENTRIES
    BY <1>4 DEF CloneDone
  <2>2. phase = "clone" /\ Top.dst \in owned /\ Top.dst # 0 /\ Top = stack[1] /\ new_pml4 = 0
    BY <2>1, TopFacts DEF IInv, FramesInv, PhaseInv
  <2>3. phase' = "load" /\ stack' = << >> /\ new_pml4' = Top.dst /\ owned' = owned /\ mem' = mem
    BY <1>4, <2>2 DEF CloneDone, CloneReturns
  <2>4. PICK org : Copied(org)
    BY <2>2 DEF CopyInv
  <2>5. \A k \in 1 .. Len(stack) : k = 1
    BY <2>1
  <2>6. \A j \in Index : j < ENTRIES
    BY TablesAssumption DEF Index
  <2>7. \A f \in owned, j \in Index : Written(f, j) /\ Written(f, j)'
    BY <2>1, <2>2, <2>3, <2>5, <2>6 DEF Written
  <2>8. \A f : ~OnStack(f)'
    BY <2>3 DEF OnStack
  <2>9. \A f : OnStack(f) => f = Top.dst
    BY <2>2, <2>5 DEF OnStack
  <2>10. ASSUME NEW f \in owned, NEW j \in Index PROVE RightEntry(org, f, j)'
    <3>1. RightEntry(org, f, j)
      BY <2>4, <2>7 DEF Copied
    <3> QED
      BY <2>3, <2>8, <3>1 DEF RightEntry, LeadsOn, Source
  <2>11. \A f \in owned, j \in Index : \A c : LinksTo(org, f, j, c)' <=> LinksTo(org, f, j, c)
    BY <2>3, <2>7 DEF LinksTo, LeadsOn, Source
  <2>12. org[Top.dst] = BootRoot
    BY <2>1, <2>2, <2>4 DEF Copied
  <2>13. ASSUME NEW c \in owned, c # new_pml4'
         PROVE  \E f \in owned, j \in Index : LinksTo(org, f, j, c)'
    <3>1. ~OnStack(c) /\ c # new_pml4
      BY <2>2, <2>3, <2>9, <2>13 DEF IInv, FramesInv
    <3> QED
      BY <2>4, <2>11, <3>1 DEF Copied
  <2>14. Copied(org)'
    BY <2>3, <2>4, <2>10, <2>11, <2>12, <2>13 DEF Copied
  <2> QED
    BY <2>3, <2>14 DEF CopyInv
<1>5. CASE pmm_init
  <2>1. phase = "pmm_init" /\ phase' = "clone" /\ UNCHANGED <<mem, stack, new_pml4, owned>>
    BY <1>5 DEF pmm_init, cloneVars
  <2>2. owned = {} /\ stack = << >> /\ new_pml4 = 0
    BY <2>1 DEF CopyInv, IInv, PhaseInv
  <2>3. PICK org : org = [f \in {} |-> BootRoot]
    OBVIOUS
  <2>4. Copied(org)'
    BY <2>1, <2>2, <2>3 DEF Copied
  <2> QED
    BY <2>1, <2>2, <2>4 DEF CopyInv
<1>6. CASE phase' \notin {"pmm_init", "clone", "load"}
  BY <1>6 DEF CopyInv
<1>7. CASE UNCHANGED <<phase, mem, stack, new_pml4, owned>>
  BY <1>7 DEF CopyInv, Copied, Written, OnStack, RightEntry, LinksTo, LeadsOn, Source
<1>8. CASE next_level \/ SetEntry \/ invlpg
  <2>1. phase' = phase /\ call # Idle
    BY <1>8 DEF next_level, SetEntry, invlpg, Idle
  <2> QED
    BY <1>6, <2>1, CallFacts
<1> QED
  BY <1>1, <1>2, <1>3, <1>4, <1>5, <1>6, <1>7, <1>8
     DEF Next, MemoryInit, vmm_load_space, pmm_reclaim_bootloader, kheap_init, map_page,
         Access, OtherTakes, OtherReturns, vars, cloneVars

-----------------------------------------------------------------------------
(***************************************************************************)
(* The live tables                                                         *)
(***************************************************************************)

(* They are a tree of frames that paging.c has taken, or of the            *)
(* bootloader's while those are live; and once the copy is loaded they are *)
(* all that paging.c has taken.  No two entries lead to one table in the   *)
(* copy, even if two do in the bootloader's.                               *)
LiveTree(lev) ==
  /\ Tree(mem, cr3, lev)
  /\ BootTablesUnshared \/ cr3 # BootRoot => Unshared(mem, lev)
  /\ DOMAIN lev \subseteq owned \cup DOMAIN BootTables
  /\ cr3 # BootRoot =>
       /\ DOMAIN lev = owned
       /\ \A c \in owned \ {cr3} : \E t \in owned, i \in Index :
            Leads(mem[t][i], lev[t]) /\ mem[t][i].to = c

\* Pages that are mapped are mapped by all four levels.
SmallPages ==
  \A v \in Virtual : Translation(v) = Unmapped \/ Translation(v).depth = 4

\* The table map_page has come to is the one the processor would come to.
CallInv ==
  call.op = "map_page" =>
    call.table # 0 /\ call.table = Walk(mem, cr3, call.va)[call.depth]

LiveInv ==
  /\ \E lev : LiveTree(lev)
  /\ SmallPages /\ CallInv
  /\ stray = {}

\* While the bootloader's tables are in memory, they translate as at first.
LEMMA BootWalks ==
  ASSUME NEW m, \A t \in DOMAIN BootTables : t \in DOMAIN m /\ m[t] = BootTables[t]
  PROVE  /\ Tree(BootTables, BootRoot, BootLevel)
         /\ \A v \in Path : TranslationIn(m, BootRoot, v) = TranslationIn(BootTables, BootRoot, v)
<1>1. Tree(BootTables, BootRoot, BootLevel)
  BY BootFacts, TablesAssumption DEF Tree
<1>2. \A t \in DOMAIN BootLevel : t \in DOMAIN m /\ m[t] = BootTables[t]
  BY BootFacts
<1>3. \A v \in Path : TranslationIn(m, BootRoot, v) = TranslationIn(BootTables, BootRoot, v)
  BY <1>1, <1>2, SameTables
<1> QED
  BY <1>1, <1>3

LEMMA BootTree ==
  ASSUME NEW m, \A t \in DOMAIN BootTables : t \in DOMAIN m /\ m[t] = BootTables[t]
  PROVE  \E lev : /\ Tree(m, BootRoot, lev) /\ DOMAIN lev = DOMAIN BootTables
                  /\ BootTablesUnshared => Unshared(m, lev)
<1>1. ASSUME BootTablesUnshared
      PROVE  \E lev : Tree(m, BootRoot, lev) /\ Unshared(m, lev) /\ DOMAIN lev = DOMAIN BootTables
  <2>1. PICK lev \in [DOMAIN BootTables -> 1 .. 4] :
          /\ Levelled(lev)
          /\ \A t, u \in DOMAIN BootTables, i, j \in Index :
               /\ Leads(BootTables[t][i], lev[t]) /\ Leads(BootTables[u][j], lev[u])
               /\ BootTables[t][i].to = BootTables[u][j].to
               => t = u /\ i = j
    BY <1>1, Zenon DEF BootTablesUnshared
  <2>2. \A t \in DOMAIN BootTables : t \in Nat \ {0} /\ BootTables[t] \in [Index -> Entry]
    BY BootFacts
  <2>3. Tree(BootTables, BootRoot, lev)
    BY <2>1, <2>2, TablesAssumption DEF Tree, Levelled
  <2>4. Unshared(BootTables, lev)
    BY <2>1 DEF Unshared
  <2>5. Tree(m, BootRoot, lev) /\ Unshared(m, lev)
    BY <2>1, <2>3, <2>4, SameTables
  <2> QED
    BY <2>1, <2>5
<1>2. Tree(m, BootRoot, BootLevel) /\ DOMAIN BootLevel = DOMAIN BootTables
  <2>1. Tree(BootTables, BootRoot, BootLevel)
    BY BootWalks
  <2>2. DOMAIN BootLevel = DOMAIN BootTables
    BY BootFacts
  <2> QED
    BY <2>1, <2>2, SameTables
<1> QED
  BY <1>1, <1>2

\* The copy is ready to be loaded.
LEMMA CopyReady ==
  ASSUME IInv, CopyInv, phase = "load"
  PROVE  \E lev :
           /\ Tree(mem, new_pml4, lev) /\ Unshared(mem, lev) /\ DOMAIN lev = owned
           /\ \A c \in owned \ {new_pml4} : \E t \in owned, i \in Index :
                Leads(mem[t][i], lev[t]) /\ mem[t][i].to = c
           /\ \A v \in Path : TranslationIn(mem, new_pml4, v) = TranslationIn(mem, cr3, v)
<1>1. PICK org : Copied(org)
  BY DEF CopyInv
<1>2. /\ stack = << >> /\ cr3 = BootRoot /\ new_pml4 # 0 /\ new_pml4 \in owned
      /\ \A t \in DOMAIN BootTables : mem[t] = BootTables[t]
  BY DEF IInv, PhaseInv, Booting
<1>3. /\ org \in [owned -> DOMAIN BootTables] /\ org[new_pml4] = BootRoot
      /\ \A f \in owned, i \in Index : Written(f, i) /\ ~OnStack(f)
      /\ \A f \in owned, i \in Index : RightEntry(org, f, i)
  <2>1. \A k \in 1 .. Len(stack) : FALSE
    BY <1>2
  <2>2. \A f, i : Written(f, i) /\ ~OnStack(f)
    BY <2>1 DEF Written, OnStack
  <2> QED
    BY <1>1, <1>2, <2>2 DEF Copied
<1>4. PICK lev : lev = [f \in owned |-> BootLevel[org[f]]]
  OBVIOUS
<1>5. \A f \in owned : org[f] \in DOMAIN BootTables /\ lev[f] = BootLevel[org[f]] /\ lev[f] \in 1 .. 4
  BY <1>3, <1>4, BootFacts
<1>6. lev \in [owned -> 1 .. 4] /\ DOMAIN lev = owned
  BY <1>4, <1>5
<1>7. ASSUME NEW f \in owned, NEW i \in Index
      PROVE  /\ LikeEntry(org, mem[f][i], BootTables[org[f]][i], lev[f])
             /\ Leads(mem[f][i], lev[f]) <=> LeadsOn(org, f, i)
             /\ LeadsOn(org, f, i) => mem[f][i].to \in owned
  <2>1. RightEntry(org, f, i) /\ lev[f] = BootLevel[org[f]]
    BY <1>3, <1>5
  <2>2. LikeEntry(org, mem[f][i], BootTables[org[f]][i], lev[f])
    BY <2>1 DEF RightEntry, LikeEntry, LeadsOn, Source
  <2>3. Leads(mem[f][i], lev[f]) <=> Leads(BootTables[org[f]][i], lev[f])
    BY <2>2 DEF LikeEntry, Leads, Present
  <2> QED
    BY <2>1, <2>2, <2>3 DEF RightEntry, LeadsOn, Source
<1>8. ASSUME NEW f \in owned, NEW i \in Index, Leads(mem[f][i], lev[f])
      PROVE  mem[f][i].to \in owned /\ lev[mem[f][i].to] = lev[f] - 1
  <2>1. LeadsOn(org, f, i)
    BY <1>7, <1>8
  <2>2. mem[f][i].to \in owned
    BY <1>7, <2>1
  <2>3. org[mem[f][i].to] = BootTables[org[f]][i].to
    BY <1>3, <2>1 DEF RightEntry, Source
  <2>4. BootLevel[BootTables[org[f]][i].to] = BootLevel[org[f]] - 1
    BY <1>5, <2>1, BootFacts DEF LeadsOn, Source
  <2> QED
    BY <1>5, <2>2, <2>3, <2>4
<1>9. Tree(mem, new_pml4, lev)
  <2>1. \A f \in owned : f \in DOMAIN mem /\ mem[f] \in [Index -> Entry] /\ f \in Nat \ {0}
    BY DEF IInv, MemInv, FramesInv
  <2>2. lev[new_pml4] = 4
    BY <1>2, <1>3, <1>5, BootFacts
  <2> QED
    BY <1>2, <1>6, <1>8, <2>1, <2>2 DEF Tree
<1>10. Unshared(mem, lev)
  <2> SUFFICES ASSUME NEW f \in owned, NEW g \in owned, NEW i \in Index, NEW j \in Index,
                      Leads(mem[f][i], lev[f]), Leads(mem[g][j], lev[g]),
                      mem[f][i].to = mem[g][j].to
               PROVE  f = g /\ i = j
    BY <1>6 DEF Unshared
  <2>1. PICK c \in owned : c = mem[f][i].to
    BY <1>8
  <2>2. LinksTo(org, f, i, c) /\ LinksTo(org, g, j, c)
    BY <1>3, <1>7, <2>1 DEF LinksTo
  <2> QED
    BY <1>1, <2>2 DEF Copied
<1>11. ASSUME NEW c \in owned \ {new_pml4}
       PROVE  \E t \in owned, i \in Index : Leads(mem[t][i], lev[t]) /\ mem[t][i].to = c
  <2>1. PICK t \in owned, i \in Index : LinksTo(org, t, i, c)
    <3>1. ~OnStack(c)
      BY <1>2 DEF OnStack
    <3> QED
      BY <1>1, <3>1 DEF Copied
  <2> QED
    BY <1>7, <2>1 DEF LinksTo
<1>12. ASSUME NEW v \in Path
       PROVE  TranslationIn(mem, new_pml4, v) = TranslationIn(mem, cr3, v)
  <2>1. \A t \in DOMAIN BootTables : t \in DOMAIN mem /\ mem[t] = BootTables[t]
    BY <1>2 DEF IInv, MemInv
  <2>2. Tree(BootTables, BootRoot, BootLevel)
        /\ TranslationIn(mem, BootRoot, v) = TranslationIn(BootTables, BootRoot, v)
    BY <2>1, BootWalks
  <2>3. \A f \in DOMAIN lev : org[f] \in DOMAIN BootLevel /\ BootLevel[org[f]] = lev[f]
    BY <1>5, <1>6, BootFacts
  <2>4. \A f \in DOMAIN lev, i \in Index :
          LikeEntry(org, mem[f][i], BootTables[org[f]][i], lev[f])
    BY <1>6, <1>7
  <2>5. TranslationIn(mem, new_pml4, v) = TranslationIn(BootTables, BootRoot, v)
    BY <1>3, <1>9, <2>2, <2>3, <2>4, CopyTranslates
  <2> QED
    BY <1>2, <2>2, <2>5
<1> QED
  BY <1>6, <1>9, <1>10, <1>11, <1>12

\* No page is mapped anew.
Stable == \A v \in Path : TranslationIn(mem', cr3', v) = Translation(v)

LEMMA StableSmall ==
  ASSUME SmallPages, Stable
  PROVE  SmallPages'
<1>1. Virtual \subseteq Path
  BY TablesAssumption
<1> QED
  BY <1>1 DEF SmallPages, Stable, Translation

\* Nothing changes that the processor looks at.
LEMMA SameLive ==
  ASSUME LiveInv, UNCHANGED <<mem, cr3, owned, stray>>, CallInv'
  PROVE  LiveInv' /\ Stable
<1>1. Stable
  BY DEF Stable, Translation
<1>2. PICK lev : LiveTree(lev)
  BY DEF LiveInv
<1>3. LiveTree(lev)'
  BY <1>2 DEF LiveTree
<1> QED
  BY <1>1, <1>3, StableSmall DEF LiveInv

\* The bootloader's tables are live before and after a step.
LEMMA BootingLive ==
  ASSUME IInv, IInv', LiveInv, Booting, Booting', stray' = stray
  PROVE  LiveInv' /\ Stable
<1>1. /\ cr3 = BootRoot /\ \A t \in DOMAIN BootTables : t \in DOMAIN mem /\ mem[t] = BootTables[t]
      /\ cr3' = BootRoot /\ \A t \in DOMAIN BootTables : t \in DOMAIN mem' /\ mem'[t] = BootTables[t]
  BY DEF IInv, PhaseInv, MemInv
<1>2. \A v \in Path : TranslationIn(mem, BootRoot, v) = TranslationIn(BootTables, BootRoot, v)
  BY <1>1, BootWalks
<1>3. \A v \in Path : TranslationIn(mem', BootRoot, v) = TranslationIn(BootTables, BootRoot, v)
  BY <1>1, BootWalks
<1>4. Stable
  BY <1>1, <1>2, <1>3 DEF Stable, Translation
<1>5. PICK lev : /\ Tree(mem', BootRoot, lev) /\ DOMAIN lev = DOMAIN BootTables
                 /\ BootTablesUnshared => Unshared(mem', lev)
  BY <1>1, BootTree
<1>6. LiveTree(lev)'
  BY <1>1, <1>5 DEF LiveTree
<1>7. CallInv'
  <2>1. call' = Idle
    BY DEF Booting, IInv, PhaseInv
  <2> QED
    BY <2>1 DEF CallInv, Idle
<1> QED
  BY <1>4, <1>6, <1>7, StableSmall DEF LiveInv

\* The copy is loaded.
LEMMA LoadLive ==
  ASSUME IInv, CopyInv, LiveInv, vmm_load_space
  PROVE  LiveInv' /\ Stable
<1>1. /\ phase = "load" /\ cr3' = new_pml4 /\ call = Idle
      /\ UNCHANGED <<mem, cloneVars, call, owned, stray, usable, frameVars>>
  BY DEF vmm_load_space, IInv, PhaseInv
<1>2. PICK lev :
        /\ Tree(mem, new_pml4, lev) /\ Unshared(mem, lev) /\ DOMAIN lev = owned
        /\ \A c \in owned \ {new_pml4} : \E t \in owned, i \in Index :
             Leads(mem[t][i], lev[t]) /\ mem[t][i].to = c
        /\ \A v \in Path : TranslationIn(mem, new_pml4, v) = TranslationIn(mem, cr3, v)
  BY <1>1, CopyReady
<1>3. Stable
  BY <1>1, <1>2 DEF Stable, Translation
<1>4. LiveTree(lev)'
  BY <1>1, <1>2 DEF LiveTree
<1>5. CallInv'
  BY <1>1 DEF CallInv, Idle
<1> QED
  BY <1>1, <1>3, <1>4, <1>5, StableSmall DEF LiveInv

\* map_page begins at the root.
LEMMA MapPageLive ==
  ASSUME IInv, LiveInv, NEW v \in Virtual, NEW pa \in Pages, NEW flags \in FlagSets,
         map_page(v, pa, flags)
  PROVE  LiveInv' /\ Stable
<1>1. UNCHANGED <<mem, cr3, owned, stray>>
  BY DEF map_page
<1>2. call'.va = v /\ call'.table = cr3 /\ call'.depth = 1
  BY MapPageStep
<1>3. cr3 # 0
  BY DEF LiveInv, LiveTree, Tree
<1>4. CallInv'
  BY <1>1, <1>2, <1>3, WalkSteps DEF CallInv
<1> QED
  BY <1>1, <1>4, SameLive

\* Where map_page stands on its way down.
LEMMA CallLive ==
  ASSUME IInv, NEW lev, LiveTree(lev), CallInv, call.op = "map_page"
  PROVE  /\ call.va \in Path /\ call.va[call.depth] \in Index
         /\ call.table \in DOMAIN lev /\ lev[call.table] = 5 - call.depth
         /\ call.table = Walk(mem, cr3, call.va)[call.depth] /\ call.table # 0
         /\ Contents(call.table) = mem[call.table]
         /\ At(mem, cr3, call.va, call.depth) = mem[call.table][call.va[call.depth]]
<1>1. call # Idle
  BY DEF Idle
<1>2. call.va \in Path /\ call.depth \in 1 .. 4
  BY <1>1, CallFacts
<1>3. call.table = Walk(mem, cr3, call.va)[call.depth] /\ call.table # 0
  BY DEF CallInv
<1>4. Tree(mem, cr3, lev)
  BY DEF LiveTree
<1>5. /\ call.table \in DOMAIN lev /\ lev[call.table] = 5 - call.depth
      /\ call.va[call.depth] \in Index
      /\ At(mem, cr3, call.va, call.depth) = mem[call.table][call.va[call.depth]]
  BY <1>2, <1>3, <1>4, WalkIn
<1>6. Contents(call.table) = mem[call.table]
  BY <1>4, <1>5 DEF Tree, Contents, ContentsIn
<1> QED
  BY <1>2, <1>3, <1>5, <1>6

\* The table below is there.
LEMMA FollowedLive ==
  ASSUME IInv, LiveInv, next_level, Followed
  PROVE  LiveInv' /\ Stable
<1>1. PICK lev : LiveTree(lev)
  BY DEF LiveInv
<1>2. call.op = "map_page" /\ call # Idle /\ call.depth < 4 /\ cr3' = cr3
  BY NextLevelCases
<1>3. PICK d \in 1 .. 3 : d = call.depth
  BY <1>2, CallFacts
<1>4. call.va \in Virtual /\ call.va \in Path
  BY <1>2, CallFacts
<1>5. /\ call.table = Walk(mem, cr3, call.va)[d] /\ call.table # 0
      /\ Contents(call.table)[call.va[d]] = At(mem, cr3, call.va, d)
      /\ Tree(mem, cr3, lev)
  BY <1>1, <1>2, <1>3, CallLive DEF LiveInv, LiveTree
<1>6. Present(At(mem, cr3, call.va, d)) /\ UNCHANGED <<mem, owned>>
      /\ Descend(At(mem, cr3, call.va, d).to)
  BY <1>3, <1>5 DEF Followed
<1>7. Walk(mem, cr3, call.va)[d + 1] # 0
  <2> SUFFICES ASSUME Walk(mem, cr3, call.va)[d + 1] = 0 PROVE FALSE
    OBVIOUS
  <2>1. cr3 # 0 /\ d \in 1 .. 4
    BY <1>5 DEF Tree
  <2>2. Translation(call.va) # Unmapped /\ Translation(call.va).depth = d
    BY <1>5, <1>6, <2>1, MappedFacts DEF Translation
  <2> QED
    BY <1>4, <2>2 DEF LiveInv, SmallPages
<1>8. Walk(mem, cr3, call.va)[d + 1] = At(mem, cr3, call.va, d).to
  BY <1>4, <1>5, <1>7, WalkLeads
<1>9. PICK f \in Nat : f = At(mem, cr3, call.va, d).to
  BY <1>4, <1>5, WalkIn DEF Entry
<1>10. f \in DOMAIN mem
  <2>1. d + 1 \in 1 .. 4
    OBVIOUS
  <2>2. f \in DOMAIN lev
    BY <1>4, <1>5, <1>7, <1>8, <1>9, <2>1, WalkIn
  <2> QED
    BY <1>5, <2>2 DEF Tree
<1>11. /\ call'.op = "map_page" /\ call'.va = call.va /\ call'.table = f
       /\ call'.depth = d + 1 /\ stray' = stray
  <2>1. Descend(f)
    BY <1>6, <1>9
  <2> QED
    BY <1>3, <1>6, <1>10, <2>1, DescendFacts
<1>12. CallInv'
  BY <1>2, <1>6, <1>7, <1>8, <1>9, <1>11 DEF CallInv
<1> QED
  BY <1>2, <1>6, <1>11, <1>12, SameLive

\* A new table is linked in.
LEMMA LinkedLive ==
  ASSUME IInv, LiveInv, next_level, NEW f, Linked(f)
  PROVE  LiveInv' /\ Stable
<1>1. PICK lev : LiveTree(lev)
  BY DEF LiveInv
<1>2. call.op = "map_page" /\ call # Idle /\ call.depth < 4 /\ cr3' = cr3
  BY NextLevelCases
<1>3. PICK d \in 1 .. 3 : d = call.depth
  BY <1>2, CallFacts
<1>4. call.va \in Virtual /\ call.va \in Path
  BY <1>2, CallFacts
<1>5. PICK t \in DOMAIN lev : t = call.table
  BY <1>1, <1>2, CallLive DEF LiveInv
<1>6. PICK i \in Index : i = call.va[d]
  BY <1>2, <1>3, CallFacts
<1>7. /\ lev[t] = 5 - d /\ lev[t] # 1 /\ t = Walk(mem, cr3, call.va)[d] /\ t # 0
      /\ Contents(t) = mem[t]
  BY <1>1, <1>2, <1>3, <1>5, CallLive DEF LiveInv
<1>8. ~Present(mem[t][i])
  BY <1>3, <1>5, <1>6, <1>7 DEF Linked
<1>9. /\ f \in Nat \ {0} /\ f \notin held /\ f \notin owned /\ owned' = owned \cup {f}
      /\ MemInv'
  BY LinkedMemory
<1>10. Tree(mem, cr3, lev) /\ DOMAIN lev \subseteq owned \cup DOMAIN BootTables
  BY <1>1 DEF LiveTree
<1>11. f \notin DOMAIN lev
  <2>1. f \in available
    BY DEF Linked
  <2>2. CASE cr3 = BootRoot
    BY <1>9, <1>10, <2>1, <2>2, TablesAssumption DEF IInv, FramesInv
  <2>3. CASE cr3 # BootRoot
    BY <1>1, <1>9, <2>3 DEF LiveTree
  <2> QED
    BY <2>2, <2>3
<1>12. f # t
  BY <1>11
<1>13. Grown(mem, mem', DOMAIN lev, t, i, f)
  <2>1. /\ mem'[f] = ZeroTable
        /\ \A g \in DOMAIN BootTables \cup owned : g # f /\ g # t => mem'[g] = mem[g]
        /\ mem'[t][i] = [to |-> f, bits |-> {"PRESENT", "WRITE"}]
        /\ \A j \in Index : j # i => mem'[t][j] = mem[t][j]
    BY <1>3, <1>5, <1>6, <1>12, LinkedMemory
  <2>2. \A u \in DOMAIN lev : u # f /\ u \in DOMAIN BootTables \cup owned
    BY <1>10, <1>11
  <2>3. \A u \in DOMAIN BootTables \cup (owned \cup {f}) :
          u \in DOMAIN mem' /\ mem'[u] \in [Index -> Entry]
    BY <1>9 DEF MemInv
  <2>4. Differs(mem, mem', DOMAIN lev, t, i)
    BY <2>1, <2>2 DEF Differs
  <2> QED
    BY <2>1, <2>2, <2>3, <2>4 DEF Grown
<1>14. PICK new : new = Deeper(lev, f, t)
  OBVIOUS
<1>15. PICK m, n : m = mem /\ n = mem'
  OBVIOUS
<1>16. Tree(mem', cr3, new) /\ (Unshared(mem, lev) => Unshared(mem', new))
  <2>1. /\ Tree(m, cr3, lev) /\ lev[t] # 1 /\ ~Present(m[t][i])
        /\ f \in Nat \ {0} /\ f \notin DOMAIN lev /\ Grown(m, n, DOMAIN lev, t, i, f)
    BY <1>7, <1>8, <1>9, <1>10, <1>11, <1>13, <1>15
  <2>2. Tree(n, cr3, new)
    BY <1>14, <2>1, GrownTree
  <2>3. Unshared(m, lev) => Unshared(n, new)
    BY <1>14, <2>1, GrownTree
  <2> QED
    BY <1>15, <2>2, <2>3
<1>17. DOMAIN new = DOMAIN lev \cup {f} /\ \A u \in DOMAIN lev : new[u] = lev[u]
  BY <1>11, <1>14 DEF Deeper
<1>18. \A v \in Path : TranslationIn(mem', cr3, v) = TranslationIn(mem, cr3, v)
  BY <1>7, <1>8, <1>9, <1>10, <1>11, <1>13, GrownWalks
<1>19. Stable
  BY <1>2, <1>18 DEF Stable, Translation
<1>20. ASSUME cr3 # BootRoot
       PROVE  /\ DOMAIN new = owned'
              /\ \A c \in owned' \ {cr3} : \E u \in owned', j \in Index :
                   Leads(mem'[u][j], new[u]) /\ mem'[u][j].to = c
  <2>1. DOMAIN lev = owned /\ DOMAIN new = owned'
    BY <1>1, <1>9, <1>17, <1>20 DEF LiveTree
  <2>2. ASSUME NEW c \in owned', c # cr3
        PROVE  \E u \in owned', j \in Index : Leads(mem'[u][j], new[u]) /\ mem'[u][j].to = c
    <3>1. CASE c = f
      <4>1. mem'[t][i].to = f /\ new[t] \in {2, 3, 4}
        BY <1>7, <1>13, <1>17 DEF Grown
      <4>2. Leads(mem'[t][i], new[t])
        BY <1>13, <4>1 DEF Grown, Leads, Present
      <4> QED
        BY <1>9, <2>1, <3>1, <4>1, <4>2
    <3>2. CASE c \in owned
      <4>1. PICK u \in owned, j \in Index : Leads(mem[u][j], lev[u]) /\ mem[u][j].to = c
        BY <1>1, <1>20, <2>2, <3>2 DEF LiveTree
      <4>2. u # t \/ j # i
        BY <1>8, <4>1 DEF Leads
      <4>3. mem'[u][j] = mem[u][j] /\ new[u] = lev[u]
        BY <1>13, <1>17, <2>1, <4>2 DEF Grown, Differs
      <4> QED
        BY <1>9, <4>1, <4>3
    <3> QED
      BY <1>9, <2>2, <3>1, <3>2
  <2> QED
    BY <2>1, <2>2
<1>21. LiveTree(new)'
  BY <1>1, <1>2, <1>9, <1>10, <1>16, <1>17, <1>20 DEF LiveTree
<1>22. /\ call'.op = "map_page" /\ call'.va = call.va /\ call'.table = f /\ call'.depth = d + 1
       /\ stray' = stray
  <2>1. Descend(f) /\ f \in Nat
    BY <1>9 DEF Linked
  <2>2. f \in DOMAIN mem'
    BY <1>13 DEF Grown
  <2> QED
    BY <1>3, <2>1, <2>2, DescendFacts
<1>23. Walk(mem', cr3, call.va)[d + 1] = f
  BY <1>4, <1>6, <1>7, <1>8, <1>9, <1>10, <1>11, <1>13, GrownWalks
<1>24. CallInv'
  BY <1>2, <1>9, <1>22, <1>23 DEF CallInv
<1> QED
  BY <1>19, <1>21, <1>22, <1>24, StableSmall DEF LiveInv

\* The page is mapped.
LEMMA SetEntryLive ==
  ASSUME IInv, LiveInv, SetEntry
  PROVE  /\ LiveInv'
         /\ BootTablesUnshared \/ cr3 # BootRoot =>
              \A v \in Path : v # call.va => TranslationIn(mem', cr3', v) = Translation(v)
<1>1. PICK lev : LiveTree(lev)
  BY DEF LiveInv
<1>2. /\ call # Idle /\ call.op = "map_page" /\ call.depth = 4
      /\ call'.op = "invlpg" /\ call'.va = call.va
      /\ cr3' = cr3 /\ owned' = owned /\ stray' = stray
  BY SetEntryCall
<1>3. PICK va \in Path : va = call.va /\ va \in Virtual
  BY <1>2, CallFacts
<1>4. PICK t \in DOMAIN lev : t = call.table /\ lev[t] = 1 /\ t = Walk(mem, cr3, va)[4]
  BY <1>1, <1>2, <1>3, CallLive DEF LiveInv
<1>5. PICK i \in Index : i = va[4]
  BY DEF Path
<1>6. Tree(mem, cr3, lev) /\ DOMAIN lev \subseteq owned \cup DOMAIN BootTables
  BY <1>1 DEF LiveTree
<1>7. /\ MemInv'
      /\ \A g \in DOMAIN BootTables \cup owned : g # t => mem'[g] = mem[g]
      /\ \A j \in Index : j # i => mem'[t][j] = mem[t][j]
  BY <1>3, <1>4, <1>5, <1>6, SetEntryMemory
<1>8. Differs(mem, mem', DOMAIN lev, t, va[4])
  BY <1>5, <1>6, <1>7 DEF Differs
<1>9. \A u \in DOMAIN lev : u \in DOMAIN mem' /\ mem'[u] \in [Index -> Entry]
  BY <1>2, <1>6, <1>7 DEF MemInv
<1>10. /\ Tree(mem', cr3, lev) /\ (Unshared(mem, lev) => Unshared(mem', lev))
       /\ \A u \in Path :
            \/ TranslationIn(mem', cr3, u) \in {Unmapped, TranslationIn(mem, cr3, u)}
            \/ TranslationIn(mem', cr3, u).depth = 4
       /\ Unshared(mem, lev) => \A u \in Path : u # va =>
            TranslationIn(mem', cr3, u) = TranslationIn(mem, cr3, u)
  <2>1. PICK m, n : m = mem /\ n = mem'
    OBVIOUS
  <2>2. /\ Tree(m, cr3, lev) /\ t = Walk(m, cr3, va)[4]
        /\ Differs(m, n, DOMAIN lev, t, va[4])
        /\ \A u \in DOMAIN lev : u \in DOMAIN n /\ n[u] \in [Index -> Entry]
    BY <1>4, <1>6, <1>8, <1>9, <2>1
  <2>3. Tree(n, cr3, lev)
    BY <1>4, <2>2, LastEntryWritten
  <2>4. Unshared(m, lev) => Unshared(n, lev)
    BY <1>4, <2>2, LastEntryWritten
  <2>5. Unshared(m, lev) => \A u \in Path : u # va =>
          TranslationIn(n, cr3, u) = TranslationIn(m, cr3, u)
    BY <1>4, <2>2, LastEntryWritten
  <2>6. \A u \in Path :
          \/ TranslationIn(n, cr3, u) \in {Unmapped, TranslationIn(m, cr3, u)}
          \/ TranslationIn(n, cr3, u).depth = 4
    BY <1>4, <2>2, LastEntryWritten
  <2> QED
    BY <2>1, <2>3, <2>4, <2>5, <2>6
<1>11. ASSUME NEW u \in DOMAIN lev, NEW j \in Index, Leads(mem[u][j], lev[u])
       PROVE  mem'[u][j] = mem[u][j]
  <2>1. u # t
    BY <1>4, <1>11 DEF Leads
  <2> QED
    BY <1>8, <2>1 DEF Differs
<1>12. LiveTree(lev)'
  <2>1. ASSUME cr3 # BootRoot, NEW c \in owned \ {cr3}
        PROVE  \E u \in owned, j \in Index : Leads(mem'[u][j], lev[u]) /\ mem'[u][j].to = c
    <3>1. DOMAIN lev = owned
      BY <1>1, <2>1 DEF LiveTree
    <3>2. PICK u \in owned, j \in Index : Leads(mem[u][j], lev[u]) /\ mem[u][j].to = c
      BY <1>1, <2>1 DEF LiveTree
    <3> QED
      BY <1>11, <3>1, <3>2
  <2>2. cr3 # BootRoot => DOMAIN lev = owned
    BY <1>1 DEF LiveTree
  <2> QED
    BY <1>1, <1>2, <1>6, <1>10, <2>1, <2>2 DEF LiveTree
<1>13. SmallPages'
  <2> SUFFICES ASSUME NEW v \in Virtual
               PROVE  TranslationIn(mem', cr3', v) = Unmapped \/ TranslationIn(mem', cr3', v).depth = 4
    BY DEF SmallPages, Translation
  <2>1. \/ TranslationIn(mem', cr3', v) \in {Unmapped, Translation(v)}
        \/ TranslationIn(mem', cr3', v).depth = 4
    BY <1>2, <1>10, TablesAssumption DEF Translation
  <2> QED
    BY <2>1 DEF LiveInv, SmallPages
<1>14. CallInv'
  BY <1>2 DEF CallInv
<1>15. BootTablesUnshared \/ cr3 # BootRoot =>
         \A v \in Path : v # call.va => TranslationIn(mem', cr3', v) = Translation(v)
  BY <1>1, <1>2, <1>3, <1>10 DEF Translation, LiveTree
<1> QED
  BY <1>2, <1>12, <1>13, <1>14, <1>15 DEF LiveInv

\* Every step keeps the live tables, and what they map but for one page.
LEMMA LiveNext ==
  ASSUME IInv, IInv', CopyInv, LiveInv, [Next]_vars
  PROVE  /\ LiveInv'
         /\ \/ Stable
            \/ SetEntry /\ (BootTablesUnshared \/ cr3 # BootRoot =>
                 \A v \in Path : v # call.va => TranslationIn(mem', cr3', v) = Translation(v))
<1>1. ASSUME phase' \in {"pmm_init", "clone", "load"}, Booting, stray' = stray
      PROVE  LiveInv' /\ Stable
  BY <1>1, BootingLive DEF Booting
<1>2. CASE UNCHANGED <<mem, cr3, owned, stray, call>>
  <2>1. CallInv'
    BY <1>2 DEF LiveInv, CallInv
  <2> QED
    BY <1>2, <2>1, SameLive
<1>3. CASE call' = Idle /\ UNCHANGED <<mem, cr3, owned, stray>>
  <2>1. CallInv'
    BY <1>3 DEF CallInv, Idle
  <2> QED
    BY <1>3, <2>1, SameLive
<1>4. CASE vmm_load_space
  BY <1>4, LoadLive
<1>5. CASE \E v \in Virtual, pa \in Pages, flags \in FlagSets : map_page(v, pa, flags)
  BY <1>5, MapPageLive
<1>6. CASE next_level
  <2>1. CASE Ended
    <3>1. call' = Idle /\ UNCHANGED <<mem, cr3, owned, stray>>
      BY <1>6, <2>1, NextLevelCases DEF Ended
    <3> QED
      BY <1>3, <3>1
  <2> QED
    BY <1>6, <2>1, NextLevelCases, FollowedLive, LinkedLive
<1>7. CASE SetEntry
  BY <1>7, SetEntryLive
<1>8. CASE pmm_init \/ CloneReturn \/ CloneDone
  <2>1. CASE pmm_init \/ CloneDone
    BY <1>2, <2>1 DEF pmm_init, CloneDone
  <2>2. CASE CloneReturn
    <3>1. stack # << >> /\ phase' = phase /\ stray' = stray
      BY <2>2, CallerFacts DEF CloneReturn
    <3>2. phase = "clone"
      BY <3>1, TopFacts
    <3> QED
      BY <1>1, <3>1, <3>2 DEF Booting
  <2> QED
    BY <1>8, <2>1, <2>2
<1>9. ASSUME NEW src, NEW level, CallClone(src, level, stack), phase = "clone",
             UNCHANGED <<cr3, tlb, call, stray, usable>>
      PROVE  LiveInv' /\ Stable
  <2>1. CASE phase' = phase
    <3>1. phase' \in {"pmm_init", "clone", "load"} /\ Booting /\ stray' = stray
      BY <1>9, <2>1 DEF Booting
    <3> QED
      BY <1>1, <3>1
  <2>2. CASE UNCHANGED <<mem, owned>>
    <3>1. CallInv'
      BY <1>9, <2>2 DEF LiveInv, CallInv
    <3> QED
      BY <1>9, <2>2, <3>1, SameLive
  <2> QED
    BY <1>9, <2>1, <2>2 DEF CallClone
<1>10. CASE vmm_clone_kernel_space
  BY <1>9, <1>10 DEF vmm_clone_kernel_space
<1>11. CASE CloneEntry
  <2>1. phase = "clone" /\ UNCHANGED <<cr3, tlb, call, stray, usable>>
    BY <1>11, TopFacts DEF CloneEntry
  <2>2. CASE phase' = phase
    BY <1>1, <2>1, <2>2 DEF Booting
  <2>3. CASE \E src, level : CallClone(src, level, stack)
    BY <1>9, <2>1, <2>3
  <2> QED
    BY <1>11, <2>2, <2>3 DEF CloneEntry
<1>12. CASE pmm_reclaim_bootloader \/ kheap_init \/ OtherTakes \/ OtherReturns
  BY <1>2, <1>12 DEF pmm_reclaim_bootloader, kheap_init, OtherTakes, OtherReturns
<1>13. CASE invlpg
  BY <1>3, <1>13 DEF invlpg
<1>14. CASE (\E v \in Virtual : Access(v)) \/ UNCHANGED vars
  BY <1>2, <1>14 DEF Access, vars
<1> QED
  BY <1>4, <1>5, <1>6, <1>7, <1>8, <1>10, <1>11, <1>12, <1>13, <1>14 DEF Next, MemoryInit

-----------------------------------------------------------------------------
(***************************************************************************)
(* The theorems                                                            *)
(***************************************************************************)

(* However far clone_table has come, what it has written is a copy of the  *)
(* bootloader's tables, flags and all, in which each table is led to by one*)
(* entry (paging.c:51-79).                                                 *)
THEOREM CopyCorrect == Spec => []CopyInv
<1>1. ASSUME Init PROVE CopyInv
  BY <1>1 DEF Init, CopyInv
<1> QED
  BY <1>1, CopyNext, InductiveCorrect, PTL DEF Spec

(* The live tables are a tree of which paging.c holds all frames, and      *)
(* map_page goes down it as the processor does.                            *)
THEOREM LiveCorrect ==
  ASSUME NoLargePages
  PROVE  Spec => []LiveInv
<1>1. ASSUME Init PROVE LiveInv
  <2>1. /\ mem = BootTables /\ cr3 = BootRoot /\ call = Idle /\ stray = {} /\ owned = {}
    BY <1>1 DEF Init
  <2>2. PICK lev : /\ Tree(mem, BootRoot, lev) /\ DOMAIN lev = DOMAIN BootTables
                   /\ BootTablesUnshared => Unshared(mem, lev)
    BY <2>1, BootTree
  <2>3. LiveTree(lev)
    BY <2>1, <2>2 DEF LiveTree
  <2>4. SmallPages /\ CallInv
    BY <2>1 DEF SmallPages, NoLargePages, Translation, CallInv, Idle
  <2> QED
    BY <2>1, <2>3, <2>4 DEF LiveInv
<1>2. IInv /\ IInv' /\ CopyInv /\ LiveInv /\ [Next]_vars => LiveInv'
  BY LiveNext
<1> QED
  BY <1>1, <1>2, InductiveCorrect, CopyCorrect, PTL DEF Spec

LEMMA TablesOnWalks ==
  ASSUME NEW t
  PROVE  t \in TablesOf(cr3) <=>
           t # 0 /\ \E v \in Path : \E d \in 1 .. 4 : Walk(mem, cr3, v)[d] = t
<1> DEFINE S == {{Walk(mem, cr3, v)[d] : d \in 1 .. 4} : v \in Path}
<1>1. \A v : t \in {Walk(mem, cr3, v)[d] : d \in 1 .. 4} <=>
              \E d \in 1 .. 4 : Walk(mem, cr3, v)[d] = t
  OBVIOUS
<1>2. t \in UNION S <=> \E v \in Path : t \in {Walk(mem, cr3, v)[d] : d \in 1 .. 4}
  OBVIOUS
<1>3. TablesOf(cr3) = (UNION S) \ {0}
  BY DEF TablesOf
<1> QED
  BY <1>1, <1>2, <1>3

LEMMA TablesIn ==
  ASSUME NEW lev, Tree(mem, cr3, lev)
  PROVE  TablesOf(cr3) \subseteq DOMAIN lev
<1> SUFFICES ASSUME NEW v \in Path, NEW d \in 1 .. 4, Walk(mem, cr3, v)[d] # 0
             PROVE  Walk(mem, cr3, v)[d] \in DOMAIN lev
  BY TablesOnWalks
<1> QED
  BY WalkIn

(* memory_init takes the bootloader's memory over when nothing in it is    *)
(* walked any more, no table is given away, and map_page writes to nothing *)
(* else than tables (memory.c:21-24, paging.c:25-49).                      *)
THEOREM LiveTablesCorrect ==
  ASSUME NoLargePages
  PROVE  Spec => []LiveTablesHeld
<1>1. ASSUME IInv, LiveInv PROVE LiveTablesHeld
  <2>1. PICK lev : LiveTree(lev)
    BY <1>1 DEF LiveInv
  <2>2. TablesOf(cr3) \subseteq DOMAIN lev
    BY <2>1, TablesIn DEF LiveTree
  <2>3. ASSUME NEW t \in DOMAIN lev PROVE t \notin available \cup (held \ owned)
    <3>1. CASE cr3 = BootRoot
      BY <1>1, <2>1, <3>1, TablesAssumption DEF LiveTree, IInv, FramesInv
    <3>2. CASE cr3 # BootRoot
      BY <1>1, <2>1, <3>2 DEF LiveTree, IInv, FramesInv
    <3> QED
      BY <3>1, <3>2
  <2> QED
    BY <1>1, <2>2, <2>3 DEF LiveTablesHeld, LiveInv
<1> QED
  BY <1>1, InductiveCorrect, LiveCorrect, PTL

\* The first three tables of a walk are where the entries lead.
LEMMA WalkTo ==
  ASSUME NEW m, NEW r, NEW lev, Tree(m, r, lev), NEW v \in Path, NEW d \in 1 .. 3,
         Walk(m, r, v)[d] # 0, Leads(m[Walk(m, r, v)[d]][v[d]], lev[Walk(m, r, v)[d]])
  PROVE  Walk(m, r, v)[d + 1] = m[Walk(m, r, v)[d]][v[d]].to /\ Walk(m, r, v)[d + 1] # 0
<1>1. /\ At(m, r, v, d) = m[Walk(m, r, v)[d]][v[d]] /\ lev[Walk(m, r, v)[d]] = 5 - d
  BY WalkIn
<1> QED
  BY <1>1, WalkLeads

\* Every table with a way to it from the root is on a walk.
LEMMA OnWalk ==
  ASSUME NEW lev, Tree(mem, cr3, lev),
         \A c \in DOMAIN lev \ {cr3} : \E t \in DOMAIN lev, i \in Index :
           Leads(mem[t][i], lev[t]) /\ mem[t][i].to = c
  PROVE  DOMAIN lev \subseteq TablesOf(cr3)
<1> DEFINE Reached(c) == \E v \in Path : \E d \in 1 .. 4 : Walk(mem, cr3, v)[d] = c
<1>1. PICK zero \in Index : zero = 0
  BY TablesAssumption DEF Index
<1>2. Reached(cr3)
  <2>1. PICK v \in Path : v = [d \in 1 .. 4 |-> zero]
    BY DEF Path
  <2>2. Walk(mem, cr3, v)[1] = cr3 /\ 1 \in 1 .. 4
    BY WalkSteps
  <2> QED
    BY <2>2
<1>3. ASSUME NEW c \in DOMAIN lev, c # cr3
      PROVE  \E t \in DOMAIN lev, i \in Index :
               Leads(mem[t][i], lev[t]) /\ mem[t][i].to = c /\ lev[t] = lev[c] + 1
  <2>1. PICK t \in DOMAIN lev, i \in Index : Leads(mem[t][i], lev[t]) /\ mem[t][i].to = c
    BY <1>3
  <2>2. lev[c] = lev[t] - 1 /\ lev[t] \in 1 .. 4
    BY <2>1 DEF Tree
  <2> QED
    BY <2>1, <2>2
<1>4. \A c \in DOMAIN lev : lev[c] \in 1 .. 4
  BY DEF Tree
<1>5. ASSUME NEW c \in DOMAIN lev, lev[c] = 4 PROVE c = cr3
  <2> SUFFICES ASSUME c # cr3 PROVE FALSE
    OBVIOUS
  <2>1. PICK t \in DOMAIN lev : lev[t] = 4 + 1
    BY <1>3, <1>5
  <2> QED
    BY <1>4, <2>1
<1>6. ASSUME NEW c \in DOMAIN lev, lev[c] = 3
      PROVE  \E i \in Index : Leads(mem[cr3][i], lev[cr3]) /\ mem[cr3][i].to = c
  <2>1. c # cr3
    BY <1>6 DEF Tree
  <2>2. PICK t \in DOMAIN lev, i \in Index :
          Leads(mem[t][i], lev[t]) /\ mem[t][i].to = c /\ lev[t] = 3 + 1
    BY <1>3, <1>6, <2>1
  <2>3. t = cr3
    BY <1>5, <2>2
  <2> QED
    BY <2>2, <2>3
<1>7. ASSUME NEW b \in DOMAIN lev, NEW i \in Index, NEW j \in Index, NEW k \in Index
      PROVE  \E v \in Path : v[1] = i /\ v[2] = j /\ v[3] = k
  <2>1. PICK v : v = [d \in 1 .. 4 |-> IF d = 1 THEN i ELSE IF d = 2 THEN j ELSE k]
    OBVIOUS
  <2>2. v \in Path /\ v[1] = i /\ v[2] = j /\ v[3] = k
    BY <2>1 DEF Path
  <2> QED
    BY <2>2
<1>8. ASSUME NEW v \in Path, NEW c \in DOMAIN lev, mem[cr3][v[1]].to = c, Leads(mem[cr3][v[1]], lev[cr3])
      PROVE  Walk(mem, cr3, v)[2] = c /\ Walk(mem, cr3, v)[2] # 0
  <2>1. Walk(mem, cr3, v)[1] = cr3 /\ cr3 # 0 /\ 1 \in 1 .. 3 /\ 1 + 1 = 2
    BY WalkIn
  <2> QED
    BY <1>8, <2>1, WalkTo
<1>9. ASSUME NEW v \in Path, NEW d \in 2 .. 3, NEW t \in DOMAIN lev, NEW c,
             Walk(mem, cr3, v)[d] = t, mem[t][v[d]].to = c, Leads(mem[t][v[d]], lev[t])
      PROVE  Walk(mem, cr3, v)[d + 1] = c
  <2>1. t # 0 /\ d \in 1 .. 3
    BY DEF Tree
  <2> QED
    BY <1>9, <2>1, WalkTo
<1>10. ASSUME NEW c \in DOMAIN lev, lev[c] = 3 PROVE Reached(c)
  <2>1. PICK i \in Index : Leads(mem[cr3][i], lev[cr3]) /\ mem[cr3][i].to = c
    BY <1>6, <1>10
  <2>2. PICK v \in Path : v[1] = i
    BY <1>7, <2>1
  <2>3. Walk(mem, cr3, v)[2] = c /\ 2 \in 1 .. 4
    BY <1>8, <2>1, <2>2
  <2> QED
    BY <2>3
<1>11. ASSUME NEW c \in DOMAIN lev, lev[c] = 2 PROVE Reached(c)
  <2>1. c # cr3
    BY <1>11 DEF Tree
  <2>2. PICK t \in DOMAIN lev, j \in Index :
          Leads(mem[t][j], lev[t]) /\ mem[t][j].to = c /\ lev[t] = 2 + 1
    BY <1>3, <1>11, <2>1
  <2>3. PICK i \in Index : Leads(mem[cr3][i], lev[cr3]) /\ mem[cr3][i].to = t
    BY <1>6, <2>2
  <2>4. PICK v \in Path : v[1] = i /\ v[2] = j
    BY <1>7, <2>2, <2>3
  <2>5. Walk(mem, cr3, v)[2] = t
    BY <1>8, <2>3, <2>4
  <2>6. 2 \in 2 .. 3 /\ 2 + 1 = 3
    OBVIOUS
  <2>7. Walk(mem, cr3, v)[3] = c /\ 3 \in 1 .. 4
    BY <1>9, <2>2, <2>4, <2>5, <2>6
  <2> QED
    BY <2>7
<1>12. ASSUME NEW c \in DOMAIN lev, lev[c] = 1 PROVE Reached(c)
  <2>1. c # cr3
    BY <1>12 DEF Tree
  <2>2. PICK u \in DOMAIN lev, k \in Index :
          Leads(mem[u][k], lev[u]) /\ mem[u][k].to = c /\ lev[u] = 1 + 1
    BY <1>3, <1>12, <2>1
  <2>3. lev[u] = 2 /\ u # cr3
    BY <2>2 DEF Tree
  <2>4. PICK t \in DOMAIN lev, j \in Index :
          Leads(mem[t][j], lev[t]) /\ mem[t][j].to = u /\ lev[t] = 2 + 1
    BY <1>3, <2>3
  <2>5. PICK i \in Index : Leads(mem[cr3][i], lev[cr3]) /\ mem[cr3][i].to = t
    BY <1>6, <2>4
  <2>6. PICK v \in Path : v[1] = i /\ v[2] = j /\ v[3] = k
    BY <1>7, <2>2, <2>4, <2>5
  <2>7. Walk(mem, cr3, v)[2] = t
    BY <1>8, <2>5, <2>6
  <2>8. 2 \in 2 .. 3 /\ 2 + 1 = 3 /\ 3 \in 2 .. 3 /\ 3 + 1 = 4
    OBVIOUS
  <2>9. Walk(mem, cr3, v)[3] = u
    BY <1>9, <2>4, <2>6, <2>7, <2>8
  <2>10. Walk(mem, cr3, v)[4] = c /\ 4 \in 1 .. 4
    BY <1>9, <2>2, <2>6, <2>8, <2>9
  <2> QED
    BY <2>10
<1>13. ASSUME NEW c \in DOMAIN lev PROVE Reached(c) /\ c # 0
  <2>1. lev[c] = 1 \/ lev[c] = 2 \/ lev[c] = 3 \/ lev[c] = 4
    BY <1>4
  <2>2. c # 0
    BY DEF Tree
  <2> HIDE DEF Reached
  <2> QED
    BY <1>2, <1>5, <1>10, <1>11, <1>12, <2>1, <2>2
<1> QED
  BY <1>13, TablesOnWalks

(* Nothing paging.c has taken is ever lost to it (paging.c:25-35, 51-79).  *)
THEOREM NoLeakCorrect ==
  ASSUME NoLargePages
  PROVE  Spec => []NothingLeaked
<1>1. ASSUME IInv, LiveInv PROVE NothingLeaked
  <2> SUFFICES ASSUME phase = "up", new_pml4 # 0
               PROVE  owned = TablesOf(cr3)
    BY DEF NothingLeaked
  <2>1. cr3 # BootRoot
    BY <1>1 DEF IInv, PhaseInv, Booting
  <2>2. PICK lev : LiveTree(lev)
    BY <1>1 DEF LiveInv
  <2>3. /\ Tree(mem, cr3, lev) /\ DOMAIN lev = owned
        /\ \A c \in DOMAIN lev \ {cr3} : \E t \in DOMAIN lev, i \in Index :
             Leads(mem[t][i], lev[t]) /\ mem[t][i].to = c
    BY <2>1, <2>2 DEF LiveTree
  <2> QED
    BY <2>3, TablesIn, OnWalk
<1> QED
  BY <1>1, InductiveCorrect, LiveCorrect, PTL

(* No step but map_page's last one changes what any page is mapped to, and *)
(* that one only for its page (memory.c:19-24, paging.c:25-49).            *)
THEOREM MappingsCorrect ==
  ASSUME BootTablesUnshared, NoLargePages
  PROVE  Spec => MappingsStable
<1>1. IInv /\ IInv' /\ CopyInv /\ LiveInv /\ [Next]_vars =>
        [\A v \in Path :
           \/ TranslationIn(mem', cr3', v) = Translation(v)
           \/ call.op = "map_page" /\ call.depth = 4 /\ v = call.va]_<<mem, cr3>>
  BY LiveNext DEF Stable, SetEntry
<1> QED
  BY <1>1, InductiveCorrect, CopyCorrect, LiveCorrect, PTL DEF Spec, MappingsStable

TLBInv == DOMAIN tlb = Virtual /\ TLBCoherent

LEMMA TLBNext ==
  ASSUME BootTablesUnshared, IInv, IInv', CopyInv, LiveInv, TLBInv, [Next]_vars
  PROVE  TLBInv'
<1>1. \A v \in Virtual : v \in Path
  BY TablesAssumption
<1>2. CASE SetEntry
  <2>1. /\ call.op = "map_page" /\ call'.op = "invlpg" /\ call'.va = call.va /\ tlb' = tlb
    BY <1>2, SetEntryCall
  <2>2. \A v \in Virtual : v # call.va => Translation(v)' = Translation(v)
    BY <1>1, <1>2, SetEntryLive DEF Translation
  <2> QED
    BY <2>1, <2>2 DEF TLBInv, TLBCoherent
<1>3. CASE ~SetEntry
  <2>1. \A v \in Virtual : Translation(v)' = Translation(v)
    BY <1>1, <1>3, LiveNext DEF Stable, Translation
  <2>2. CASE \E v \in Virtual : Access(v)
    <3>1. PICK v \in Virtual : tlb' = [tlb EXCEPT ![v] = Translation(v)] /\ call' = call
      BY <2>2 DEF Access
    <3> QED
      BY <2>1, <3>1 DEF TLBInv, TLBCoherent
  <2>3. CASE invlpg
    <3>1. call.op = "invlpg" /\ tlb' = [tlb EXCEPT ![call.va] = Unmapped]
      BY <2>3 DEF invlpg
    <3>2. DOMAIN tlb' = Virtual /\ \A v \in Virtual : tlb'[v] \in {tlb[v], Unmapped}
      BY <3>1 DEF TLBInv
    <3>3. \A v \in Virtual : v = call.va => tlb'[v] = Unmapped
      BY <3>1 DEF TLBInv
    <3>4. TLBCoherent'
      <4> SUFFICES ASSUME NEW v \in Virtual, v # call.va
                   PROVE  tlb'[v] \in {Unmapped, Translation(v)'}
        BY <3>2, <3>3 DEF TLBCoherent
      <4>1. tlb[v] \in {Unmapped, Translation(v)}
        BY DEF TLBInv, TLBCoherent
      <4> QED
        BY <2>1, <3>2, <4>1
    <3> QED
      BY <3>2, <3>4 DEF TLBInv
  <2>4. CASE vmm_load_space
    BY <2>4 DEF vmm_load_space, TLBInv, TLBCoherent
  <2>5. CASE tlb' = tlb /\ (call.op = "invlpg" => call' = call)
    BY <2>1, <2>5 DEF TLBInv, TLBCoherent
  <2>6. CASE MemoryInit /\ ~vmm_load_space
    <3>1. tlb' = tlb /\ call' = call
      BY <2>6 DEF MemoryInit, pmm_init, vmm_clone_kernel_space, CloneEntry, CloneReturn,
                  CloneDone, pmm_reclaim_bootloader, kheap_init
    <3> QED
      BY <2>5, <3>1
  <2>7. CASE \E v \in Virtual, pa \in Pages, flags \in FlagSets : map_page(v, pa, flags)
    <3>1. tlb' = tlb /\ call.op # "invlpg"
      BY <2>7 DEF map_page, Idle
    <3> QED
      BY <2>5, <3>1
  <2>8. CASE next_level
    <3>1. tlb' = tlb /\ call.op # "invlpg"
      BY <2>8 DEF next_level
    <3> QED
      BY <2>5, <3>1
  <2>9. CASE OtherTakes \/ OtherReturns \/ UNCHANGED vars
    <3>1. tlb' = tlb /\ call' = call
      BY <2>9 DEF OtherTakes, OtherReturns, vars
    <3> QED
      BY <2>5, <3>1
  <2> QED
    BY <1>3, <2>2, <2>3, <2>4, <2>6, <2>7, <2>8, <2>9 DEF Next
<1> QED
  BY <1>2, <1>3

(* The processor uses no stale translation: loading the copy and map_page's*)
(* invlpg drop all there are (paging.c:48, 88).                            *)
THEOREM TLBCorrect ==
  ASSUME BootTablesUnshared, NoLargePages
  PROVE  Spec => []TLBCoherent
<1>1. ASSUME Init PROVE TLBInv
  BY <1>1 DEF Init, TLBInv, TLBCoherent
<1>2. IInv /\ IInv' /\ CopyInv /\ LiveInv /\ TLBInv /\ [Next]_vars => TLBInv'
  BY TLBNext
<1>3. TLBInv => TLBCoherent
  BY DEF TLBInv
<1> QED
  BY <1>1, <1>2, <1>3, InductiveCorrect, CopyCorrect, LiveCorrect, PTL DEF Spec

=============================================================================
