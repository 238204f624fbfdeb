------------------------------ MODULE ApplyProofs ------------------------------
(***************************************************************************)
(* What is proved of Apply: for any files, tables, options and clients.    *)
(***************************************************************************)
EXTENDS Apply, FiniteSetTheorems, SequenceTheorems, WellFoundedInduction, TLAPS

-----------------------------------------------------------------------------
(* Lists.                                                                  *)

\* Induction, as a fact about sets: what holds of 0 and is handed on holds of every number.
LEMMA Inductive ==
    ASSUME NEW S, 0 \in S, \A n \in Nat : n \in S => n + 1 \in S
    PROVE  Nat \subseteq S
<1> SUFFICES ASSUME Nat \ S # {} PROVE FALSE
  OBVIOUS
<1>1. PICK x \in Nat \ S : \A y \in Nat \ S : ~ (<<y, x>> \in OpToRel(<, Nat))
  BY NatLessThanWellFounded, WFMin
<1>2. \A y \in Nat \ S : ~ (y < x)
  BY <1>1 DEF OpToRel
<1>3. x # 0 /\ x - 1 \in Nat
  OBVIOUS
<1> QED
  BY <1>2, <1>3

LEMMA ListedSeq == ASSUME NEW s, Listed(s) PROVE s \in Seq({s[i] : i \in 1..Len(s)})
  BY DEF Listed

LEMMA SeqListed == ASSUME NEW X, NEW s \in Seq(X) PROVE Listed(s) /\ DOMAIN s = 1..Len(s)
  BY LenProperties DEF Listed

LEMMA FunctionListed ==
    ASSUME NEW n \in Nat, NEW s, DOMAIN s = 1..n, s = [i \in 1..n |-> s[i]]
    PROVE  Listed(s) /\ Len(s) = n
<1>1. s \in Seq({s[i] : i \in 1..n})
  OBVIOUS
<1> QED
  BY <1>1, SeqListed

\* FlattenSeq is the last of the concatenations its recursion makes.
Joins(f, seqs, n) == f = [i \in 1..n |-> IF i = 1 THEN seqs[i] ELSE f[i - 1] \o seqs[i]]

LEMMA JoinsExist == ASSUME NEW seqs, NEW n \in Nat PROVE \E f : Joins(f, seqs, n)
<1>s. PICK S : S = {m \in Nat : \E f : Joins(f, seqs, m)}
  OBVIOUS
<1>1. 0 \in S
  <2>1. Joins([i \in 1..0 |-> seqs[i]], seqs, 0)
    BY DEF Joins
  <2> QED
    BY <2>1, <1>s
<1>2. ASSUME NEW m \in Nat, m \in S PROVE m + 1 \in S
  <2>1. PICK f : Joins(f, seqs, m)
    BY <1>2, <1>s
  <2>2. PICK g : g = [i \in 1..(m + 1) |-> IF i \in 1..m THEN f[i]
                                          ELSE IF m = 0 THEN seqs[1] ELSE f[m] \o seqs[m + 1]]
    OBVIOUS
  <2>3. ASSUME NEW i \in 1..(m + 1)
        PROVE  g[i] = IF i = 1 THEN seqs[i] ELSE g[i - 1] \o seqs[i]
    <3>1. CASE i \in 1..m
      <4>1. g[i] = f[i] /\ (i # 1 => g[i - 1] = f[i - 1])
        BY <3>1, <2>2
      <4>2. f[i] = IF i = 1 THEN seqs[i] ELSE f[i - 1] \o seqs[i]
        BY <3>1, <2>1 DEF Joins
      <4> QED
        BY <4>1, <4>2
    <3>2. CASE i = m + 1
      <4>1. m # 0 => g[m] = f[m]
        BY <2>2
      <4>2. g[i] = IF m = 0 THEN seqs[1] ELSE f[m] \o seqs[m + 1]
        BY <2>2, <3>2
      <4> QED
        BY <4>1, <4>2, <3>2
    <3> QED
      BY <3>1, <3>2
  <2>4. Joins(g, seqs, m + 1)
    <3>1. g = [i \in 1..(m + 1) |-> g[i]]
      BY <2>2
    <3>2. [i \in 1..(m + 1) |-> g[i]]
          = [i \in 1..(m + 1) |-> IF i = 1 THEN seqs[i] ELSE g[i - 1] \o seqs[i]]
      BY <2>3
    <3> QED
      BY <3>1, <3>2 DEF Joins
  <2> QED
    BY <2>4, <1>s
<1>3. n \in S
  BY <1>1, <1>2, Inductive
<1> QED
  BY <1>3, <1>s

LEMMA FlattenJoins ==
    ASSUME NEW seqs, NEW n \in Nat \ {0}, Len(seqs) = n
    PROVE  \E f : Joins(f, seqs, n) /\ FlattenSeq(seqs) = f[n]
<1>1. PICK f : f = CHOOSE g : Joins(g, seqs, n)
  OBVIOUS
<1>2. Joins(f, seqs, n)
  BY <1>1, JoinsExist
<1>3. FlattenSeq(seqs) = f[n]
  BY <1>1 DEF FlattenSeq, Joins
<1> QED
  BY <1>2, <1>3

\* The places of the elements of the first n lists, and their order.
Cells(seqs, n) == {c \in (1..n) \X Nat : c[2] \in 1..Len(seqs[c[1]])}
Before(c, d) == c[1] < d[1] \/ (c[1] = d[1] /\ c[2] < d[2])

\* A list of what is at all these places, in order.
Lists(all, seqs, n, at) ==
    /\ at \in [1..Len(all) -> Cells(seqs, n)]
    /\ \A p \in 1..Len(all) : all[p] = seqs[at[p][1]][at[p][2]]
    /\ \A p, q \in 1..Len(all) : p < q => Before(at[p], at[q])
    /\ \A c \in Cells(seqs, n) : \E p \in 1..Len(all) : at[p] = c

LEMMA ListsMore ==
    ASSUME NEW X, NEW seqs \in Seq(Seq(X)), NEW n \in Nat, n + 1 \in 1..Len(seqs),
           NEW all \in Seq(X), NEW at, Lists(all, seqs, n, at)
    PROVE  \E more : Lists(all \o seqs[n + 1], seqs, n + 1, more)
<1>l. PICK l : l = Len(all)
  OBVIOUS
<1>m. PICK m : m = Len(seqs[n + 1])
  OBVIOUS
<1>j. PICK j : j = all \o seqs[n + 1]
  OBVIOUS
<1>0. seqs[n + 1] \in Seq(X) /\ l \in Nat /\ m \in Nat
  BY <1>l, <1>m, ElementOfSeq, LenProperties
<1>1. /\ Len(j) = l + m
      /\ \A p \in 1..(l + m) : j[p] = IF p <= l THEN all[p] ELSE seqs[n + 1][p - l]
  BY <1>l, <1>m, <1>j, <1>0, ConcatProperties
<1>a. PICK more : more = [p \in 1..(l + m) |-> IF p <= l THEN at[p] ELSE <<n + 1, p - l>>]
  OBVIOUS
<1>2. \A p \in 1..(l + m) : /\ p <= l => more[p] = at[p] /\ more[p] \in Cells(seqs, n)
                            /\ p > l => more[p] = <<n + 1, p - l>>
  BY <1>a, <1>l, <1>0 DEF Lists
<1>3. \A c \in Cells(seqs, n) : c \in Cells(seqs, n + 1) /\ c[1] <= n
  BY DEF Cells
<1>4. \A i \in 1..m : <<n + 1, i>> \in Cells(seqs, n + 1)
  BY <1>m, <1>0 DEF Cells
<1>5. more \in [1..(l + m) -> Cells(seqs, n + 1)]
  <2>1. \A p \in 1..(l + m) : more[p] \in Cells(seqs, n + 1)
    <3> SUFFICES ASSUME NEW p \in 1..(l + m) PROVE more[p] \in Cells(seqs, n + 1)
      OBVIOUS
    <3>1. CASE p <= l
      BY <3>1, <1>2, <1>3
    <3>2. CASE ~(p <= l)
      <4>1. p - l \in 1..m /\ p > l
        BY <3>2, <1>0
      <4> QED
        BY <4>1, <1>2, <1>4
    <3> QED
      BY <3>1, <3>2
  <2> QED
    BY <2>1, <1>a
<1>6. \A p \in 1..(l + m) : j[p] = seqs[more[p][1]][more[p][2]]
  <2> SUFFICES ASSUME NEW p \in 1..(l + m) PROVE j[p] = seqs[more[p][1]][more[p][2]]
    OBVIOUS
  <2>1. CASE p <= l
    <3>1. p \in 1..l
      BY <2>1, <1>0
    <3>2. all[p] = seqs[at[p][1]][at[p][2]]
      BY <3>1, <1>l DEF Lists
    <3> QED
      BY <3>2, <2>1, <1>1, <1>2
  <2>2. CASE ~(p <= l)
    <3>1. p > l
      BY <2>2, <1>0
    <3>2. more[p] = <<n + 1, p - l>> /\ j[p] = seqs[n + 1][p - l]
      BY <3>1, <2>2, <1>1, <1>2
    <3> QED
      BY <3>2
  <2> QED
    BY <2>1, <2>2
<1>7. \A p, q \in 1..(l + m) : p < q => Before(more[p], more[q])
  <2> SUFFICES ASSUME NEW p \in 1..(l + m), NEW q \in 1..(l + m), p < q
               PROVE  Before(more[p], more[q])
    OBVIOUS
  <2>1. CASE q <= l
    <3>1. p \in 1..l /\ q \in 1..l
      BY <2>1, <1>0
    <3>2. Before(at[p], at[q])
      BY <3>1, <1>l DEF Lists
    <3>3. more[p] = at[p] /\ more[q] = at[q]
      BY <3>1, <2>1, <1>2
    <3> QED
      BY <3>2, <3>3
  <2>2. CASE p <= l /\ q > l
    <3>1. more[p][1] <= n /\ more[q] = <<n + 1, q - l>>
      BY <2>2, <1>2, <1>3
    <3>2. more[p][1] \in Nat
      BY <2>2, <1>2 DEF Cells
    <3> QED
      BY <3>1, <3>2 DEF Before
  <2>3. CASE p > l
    <3>1. q > l
      BY <2>3, <1>0
    <3>2. more[p] = <<n + 1, p - l>> /\ more[q] = <<n + 1, q - l>>
      BY <2>3, <3>1, <1>2
    <3>3. p - l < q - l
      BY <1>0
    <3> QED
      BY <3>2, <3>3 DEF Before
  <2> QED
    BY <2>1, <2>2, <2>3, <1>0
<1>8. \A c \in Cells(seqs, n + 1) : \E p \in 1..(l + m) : more[p] = c
  <2> SUFFICES ASSUME NEW c \in Cells(seqs, n + 1) PROVE \E p \in 1..(l + m) : more[p] = c
    OBVIOUS
  <2>1. CASE c[1] \in 1..n
    <3>1. c \in Cells(seqs, n)
      BY <2>1 DEF Cells
    <3>2. PICK p \in 1..l : at[p] = c
      BY <3>1, <1>l DEF Lists
    <3>3. p \in 1..(l + m) /\ more[p] = at[p]
      BY <3>2, <1>0, <1>2
    <3> QED
      BY <3>2, <3>3
  <2>2. CASE c[1] = n + 1
    <3>1. c = <<n + 1, c[2]>> /\ c[2] \in 1..m
      BY <2>2, <1>m DEF Cells
    <3>2. c[2] + l \in 1..(l + m) /\ c[2] + l > l /\ (c[2] + l) - l = c[2]
      BY <3>1, <1>0
    <3>3. more[c[2] + l] = c
      BY <3>1, <3>2, <1>2
    <3> QED
      BY <3>2, <3>3
  <2> QED
    BY <2>1, <2>2 DEF Cells
<1>9. Lists(j, seqs, n + 1, more)
  BY <1>1, <1>5, <1>6, <1>7, <1>8 DEF Lists
<1> QED
  BY <1>9, <1>j

\* FlattenSeq lists what is at all places, in order.
LEMMA Flattened ==
    ASSUME NEW X, NEW seqs \in Seq(Seq(X))
    PROVE  /\ FlattenSeq(seqs) \in Seq(X)
           /\ \E at : Lists(FlattenSeq(seqs), seqs, Len(seqs), at)
<1>n. PICK n : n = Len(seqs)
  OBVIOUS
<1>0. n \in Nat
  BY <1>n, LenProperties
<1>1. CASE n = 0
  <2>1. FlattenSeq(seqs) = seqs /\ seqs = <<>>
    BY <1>1, <1>n, EmptySeq DEF FlattenSeq
  <2>2. Len(<<>>) = 0 /\ <<>> \in Seq(X)
    BY EmptySeq
  <2>3. Lists(<<>>, seqs, 0, [i \in 1..0 |-> i])
    BY <2>2 DEF Lists, Cells
  <2> QED
    BY <2>1, <2>2, <2>3, <1>1, <1>n
<1>2. CASE n # 0
  <2>1. PICK f : Joins(f, seqs, n) /\ FlattenSeq(seqs) = f[n]
    BY <1>2, <1>0, <1>n, FlattenJoins
  <2>s. PICK S : S = {k \in Nat : k + 1 \in 1..n =>
                        f[k + 1] \in Seq(X) /\ \E at : Lists(f[k + 1], seqs, k + 1, at)}
    OBVIOUS
  <2>2. 0 \in S
    <3>1. 1 \in 1..n /\ f[1] = seqs[1] /\ seqs[1] \in Seq(X)
      BY <2>1, <1>0, <1>2, <1>n, ElementOfSeq DEF Joins
    <3>2. Lists(<<>>, seqs, 0, [i \in 1..0 |-> i])
      BY EmptySeq DEF Lists, Cells
    <3>3. \E at : Lists(<<>> \o seqs[1], seqs, 1, at)
      <4>1. 0 \in Nat /\ 0 + 1 = 1 /\ 0 + 1 \in 1..Len(seqs) /\ <<>> \in Seq(X)
        BY <3>1, <1>n, EmptySeq
      <4>2. \E at : Lists(<<>> \o seqs[0 + 1], seqs, 0 + 1, at)
        BY <3>2, <4>1, ListsMore
      <4> QED
        BY <4>1, <4>2
    <3>4. <<>> \o seqs[1] = seqs[1]
      BY <3>1, ConcatEmptySeq
    <3> QED
      BY <3>1, <3>3, <3>4, <2>s
  <2>3. ASSUME NEW k \in Nat, k \in S PROVE k + 1 \in S
    <3> SUFFICES ASSUME k + 2 \in 1..n
                 PROVE  f[k + 2] \in Seq(X) /\ \E at : Lists(f[k + 2], seqs, k + 2, at)
      BY <2>s
    <3>1. k + 1 \in 1..n /\ k + 2 # 1 /\ (k + 2) - 1 = k + 1 /\ (k + 1) + 1 = k + 2
      BY <1>0
    <3>2. f[k + 2] = f[k + 1] \o seqs[k + 2]
      <4>1. f[k + 2] = IF k + 2 = 1 THEN seqs[k + 2] ELSE f[(k + 2) - 1] \o seqs[k + 2]
        BY <2>1 DEF Joins
      <4> QED
        BY <4>1, <3>1
    <3>3. PICK at : f[k + 1] \in Seq(X) /\ Lists(f[k + 1], seqs, k + 1, at)
      BY <3>1, <2>3, <2>s
    <3>4. k + 1 \in Nat /\ (k + 1) + 1 \in 1..Len(seqs)
      BY <3>1, <1>n
    <3>5. \E more : Lists(f[k + 1] \o seqs[(k + 1) + 1], seqs, (k + 1) + 1, more)
      BY <3>3, <3>4, ListsMore
    <3>6. seqs[k + 2] \in Seq(X)
      BY <1>n, ElementOfSeq
    <3> QED
      BY <3>1, <3>2, <3>3, <3>5, <3>6, ConcatProperties
  <2>4. n - 1 \in S /\ n - 1 \in Nat /\ (n - 1) + 1 = n
    <3>1. n - 1 \in Nat /\ (n - 1) + 1 = n
      BY <1>0, <1>2
    <3>2. Nat \subseteq S
      BY <2>2, <2>3, Inductive
    <3> QED
      BY <3>1, <3>2
  <2> QED
    BY <2>1, <2>4, <2>s, <1>0, <1>2, <1>n
<1> QED
  BY <1>1, <1>2

\* Only: the elements at these places, in the order they have.
Picks(some, list, places, at) ==
    /\ at \in [1..Len(some) -> DOMAIN list \cap places]
    /\ \A p \in 1..Len(some) : some[p] = list[at[p]]
    /\ \A p, q \in 1..Len(some) : p < q => at[p] < at[q]
    /\ \A i \in DOMAIN list \cap places : \E p \in 1..Len(some) : at[p] = i

LEMMA OnlyPicks ==
    ASSUME NEW list, Listed(list), NEW places
    PROVE  /\ Listed(Only(list, places))
           /\ \E at : Picks(Only(list, places), list, places, at)
<1>n. PICK n : n = Len(list)
  OBVIOUS
<1>x. PICK X : X = {list[i] : i \in 1..n}
  OBVIOUS
<1>s. PICK seqs : seqs = [i \in 1..n |-> IF i \in places THEN <<list[i]>> ELSE <<>>]
  OBVIOUS
<1>o. PICK some : some = Only(list, places)
  OBVIOUS
<1>0. n \in Nat /\ DOMAIN list = 1..n
  BY <1>n DEF Listed
<1>1. \A i \in 1..n : seqs[i] \in Seq(X)
  <2> SUFFICES ASSUME NEW i \in 1..n PROVE seqs[i] \in Seq(X)
    OBVIOUS
  <2>1. list[i] \in X /\ seqs[i] = IF i \in places THEN <<list[i]>> ELSE <<>>
    BY <1>s, <1>x
  <2>2. <<list[i]>> \in Seq(X) /\ <<>> \in Seq(X)
    BY <2>1
  <2> QED
    BY <2>1, <2>2
<1>2. seqs \in Seq(Seq(X)) /\ Len(seqs) = n
  <2>1. seqs \in [1..n -> Seq(X)]
    BY <1>1, <1>s
  <2> QED
    BY <2>1, <1>0
<1>3. some = FlattenSeq(seqs)
  BY <1>o, <1>s, <1>0 DEF Only
<1>4. PICK cell : some \in Seq(X) /\ Lists(some, seqs, n, cell)
  BY <1>2, <1>3, Flattened
<1>5. \A c \in Cells(seqs, n) :
         /\ c[1] \in 1..n /\ c[1] \in places /\ c = <<c[1], 1>>
         /\ seqs[c[1]][c[2]] = list[c[1]]
  <2> SUFFICES ASSUME NEW c \in Cells(seqs, n)
               PROVE  /\ c[1] \in 1..n /\ c[1] \in places /\ c = <<c[1], 1>>
                      /\ seqs[c[1]][c[2]] = list[c[1]]
    OBVIOUS
  <2>1. c[1] \in 1..n /\ c[2] \in 1..Len(seqs[c[1]]) /\ c = <<c[1], c[2]>>
    BY DEF Cells
  <2>2. CASE c[1] \in places
    <3>1. seqs[c[1]] = <<list[c[1]]>>
      BY <2>1, <2>2, <1>s
    <3>2. c[2] = 1
      BY <2>1, <3>1
    <3> QED
      BY <2>1, <2>2, <3>1, <3>2
  <2>3. CASE c[1] \notin places
    <3>1. seqs[c[1]] = <<>>
      BY <2>1, <2>3, <1>s
    <3> QED
      BY <2>1, <3>1
  <2> QED
    BY <2>2, <2>3
<1>6. \A i \in 1..n : i \in places => <<i, 1>> \in Cells(seqs, n)
  <2> SUFFICES ASSUME NEW i \in 1..n, i \in places PROVE <<i, 1>> \in Cells(seqs, n)
    OBVIOUS
  <2>1. seqs[i] = <<list[i]>>
    BY <1>s
  <2>2. 1 \in 1..Len(seqs[i])
    BY <2>1
  <2> QED
    BY <2>2 DEF Cells
<1>m. PICK m : m = Len(some)
  OBVIOUS
<1>a. PICK at : at = [p \in 1..m |-> cell[p][1]]
  OBVIOUS
<1>7. \A p \in 1..m : cell[p] \in Cells(seqs, n) /\ at[p] = cell[p][1]
  BY <1>4, <1>a, <1>m DEF Lists
<1>8. at \in [1..m -> DOMAIN list \cap places]
  BY <1>0, <1>5, <1>7, <1>a
<1>9. \A p \in 1..m : some[p] = list[at[p]]
  <2>1. \A p \in 1..m : some[p] = seqs[cell[p][1]][cell[p][2]]
    BY <1>4, <1>m DEF Lists
  <2> QED
    BY <2>1, <1>5, <1>7
<1>10. \A p, q \in 1..m : p < q => at[p] < at[q]
  <2> SUFFICES ASSUME NEW p \in 1..m, NEW q \in 1..m, p < q PROVE at[p] < at[q]
    OBVIOUS
  <2>1. Before(cell[p], cell[q])
    BY <1>4, <1>m DEF Lists
  <2>2. cell[p] = <<at[p], 1>> /\ cell[q] = <<at[q], 1>>
    BY <1>5, <1>7
  <2>3. cell[p][2] = 1 /\ cell[q][2] = 1 /\ ~(1 < 1)
    BY <2>2
  <2> QED
    BY <2>1, <2>3, <1>7 DEF Before
<1>11. \A i \in DOMAIN list \cap places : \E p \in 1..m : at[p] = i
  <2> SUFFICES ASSUME NEW i \in 1..n, i \in places PROVE \E p \in 1..m : at[p] = i
    BY <1>0
  <2>1. PICK p \in 1..m : cell[p] = <<i, 1>>
    BY <1>4, <1>6, <1>m DEF Lists
  <2>2. at[p] = i
    BY <2>1, <1>7
  <2> QED
    BY <2>2
<1>12. Picks(some, list, places, at)
  BY <1>8, <1>9, <1>10, <1>11, <1>m DEF Picks
<1> QED
  BY <1>12, <1>4, <1>o, SeqListed

\* Expanded: the instances of each service, service by service.
Clones(all, specs, at) ==
    /\ at \in [1..Len(all) -> (1..Len(specs)) \X Nat]
    /\ \A p \in 1..Len(all) : /\ at[p][2] \in 1..specs[at[p][1]].instances
                              /\ all[p] = Instance(specs[at[p][1]], at[p][2] - 1)
    /\ \A p, q \in 1..Len(all) : p < q => Before(at[p], at[q])
    /\ \A k \in 1..Len(specs) : \A i \in 1..specs[k].instances :
          \E p \in 1..Len(all) : at[p] = <<k, i>>

LEMMA ExpandedClones ==
    ASSUME NEW specs, Listed(specs), \A k \in 1..Len(specs) : specs[k].instances \in Nat
    PROVE  /\ Listed(Expanded(specs))
           /\ \E at : Clones(Expanded(specs), specs, at)
<1>n. PICK n : n = Len(specs)
  OBVIOUS
<1>0. n \in Nat /\ DOMAIN specs = 1..n
  BY <1>n DEF Listed
<1>s. PICK seqs : seqs = [k \in 1..n |-> [i \in 1..specs[k].instances |-> Instance(specs[k], i - 1)]]
  OBVIOUS
<1>x. PICK X : X = {Instance(specs[c[1]], c[2] - 1) : c \in (1..n) \X Nat}
  OBVIOUS
<1>1. \A k \in 1..n : /\ seqs[k] \in Seq(X) /\ Len(seqs[k]) = specs[k].instances
                      /\ \A i \in 1..specs[k].instances : seqs[k][i] = Instance(specs[k], i - 1)
  <2> SUFFICES ASSUME NEW k \in 1..n
               PROVE  /\ seqs[k] \in Seq(X) /\ Len(seqs[k]) = specs[k].instances
                      /\ \A i \in 1..specs[k].instances : seqs[k][i] = Instance(specs[k], i - 1)
    OBVIOUS
  <2>m. PICK m : m = specs[k].instances
    OBVIOUS
  <2>1. seqs[k] = [i \in 1..m |-> Instance(specs[k], i - 1)] /\ m \in Nat
    BY <1>s, <2>m, <1>n
  <2>2. \A i \in 1..m : seqs[k][i] \in X
    <3> SUFFICES ASSUME NEW i \in 1..m PROVE seqs[k][i] \in X
      OBVIOUS
    <3>1. <<k, i>> \in (1..n) \X Nat /\ <<k, i>>[1] = k /\ <<k, i>>[2] = i
      OBVIOUS
    <3> QED
      BY <3>1, <2>1, <1>x
  <2>3. seqs[k] \in Seq(X) /\ Len(seqs[k]) = m
    <3>1. seqs[k] \in [1..m -> X]
      BY <2>1, <2>2
    <3> QED
      BY <3>1, <2>1
  <2> QED
    BY <2>1, <2>3, <2>m
<1>2. seqs \in Seq(Seq(X)) /\ Len(seqs) = n
  <2>1. seqs \in [1..n -> Seq(X)]
    BY <1>1, <1>s
  <2> QED
    BY <2>1, <1>0
<1>3. Expanded(specs) = FlattenSeq(seqs)
  BY <1>s, <1>0 DEF Expanded
<1>o. PICK all : all = Expanded(specs)
  OBVIOUS
<1>4. PICK at : all \in Seq(X) /\ Lists(all, seqs, n, at)
  BY <1>2, <1>3, <1>o, Flattened
<1>5. \A p \in 1..Len(all) : /\ at[p][1] \in 1..n /\ at[p][2] \in 1..specs[at[p][1]].instances
                             /\ all[p] = Instance(specs[at[p][1]], at[p][2] - 1)
  <2> SUFFICES ASSUME NEW p \in 1..Len(all)
               PROVE  /\ at[p][1] \in 1..n /\ at[p][2] \in 1..specs[at[p][1]].instances
                      /\ all[p] = Instance(specs[at[p][1]], at[p][2] - 1)
    OBVIOUS
  <2>1. at[p] \in Cells(seqs, n) /\ all[p] = seqs[at[p][1]][at[p][2]]
    BY <1>4 DEF Lists
  <2>2. at[p][1] \in 1..n /\ at[p][2] \in 1..Len(seqs[at[p][1]])
    BY <2>1 DEF Cells
  <2> QED
    BY <2>1, <2>2, <1>1
<1>6. \A k \in 1..n : \A i \in 1..specs[k].instances : \E p \in 1..Len(all) : at[p] = <<k, i>>
  <2> SUFFICES ASSUME NEW k \in 1..n, NEW i \in 1..specs[k].instances
               PROVE  \E p \in 1..Len(all) : at[p] = <<k, i>>
    OBVIOUS
  <2>1. i \in 1..Len(seqs[k]) /\ i \in Nat
    BY <1>1, <1>n
  <2>2. <<k, i>> \in Cells(seqs, n)
    BY <2>1 DEF Cells
  <2> QED
    BY <2>2, <1>4 DEF Lists
<1>7. at \in [1..Len(all) -> (1..n) \X Nat]
  BY <1>4 DEF Lists, Cells
<1>8. Clones(all, specs, at)
  BY <1>4, <1>5, <1>6, <1>7, <1>n DEF Clones, Lists
<1> QED
  BY <1>8, <1>4, <1>o, SeqListed

-----------------------------------------------------------------------------
(* The order of start.                                                     *)

\* What the order compares is numbers.
Comparable(specs) ==
    /\ Listed(specs)
    /\ \A i \in 1..Len(specs) : specs[i].start_order \in Int /\ Rank(specs[i].name) \in Int

\* Of some apps one comes first.
LEMMA ForemostFound ==
    ASSUME NEW specs, Comparable(specs), NEW S, S \subseteq 1..Len(specs), S # {}
    PROVE  Foremost(specs, S) \in S
<1>n. PICK n : n = Len(specs)
  OBVIOUS
<1>0. n \in Nat
  BY <1>n DEF Comparable, Listed
<1>1. \A i, j, k \in 1..n : Earlier(specs, i, j) /\ Earlier(specs, j, k) => Earlier(specs, i, k)
  BY <1>n, <1>0 DEF Comparable, Earlier
<1>2. \A i, j \in 1..n : i # j => Earlier(specs, i, j) \/ Earlier(specs, j, i)
  BY <1>n, <1>0 DEF Comparable, Earlier
<1>t. PICK T : T = {m \in Nat : \A U \in SUBSET (1..n) :
                      U # {} /\ U \subseteq 1..m =>
                          \E i \in U : \A j \in U \ {i} : Earlier(specs, i, j)}
  OBVIOUS
<1>3. 0 \in T
  <2>1. \A U : U \subseteq 1..0 => U = {}
    OBVIOUS
  <2> QED
    BY <2>1, <1>t
<1>4. ASSUME NEW m \in Nat, m \in T PROVE m + 1 \in T
  <2> SUFFICES ASSUME NEW U \in SUBSET (1..n), U # {}, U \subseteq 1..(m + 1)
               PROVE  \E i \in U : \A j \in U \ {i} : Earlier(specs, i, j)
    BY <1>t
  <2>1. CASE U \subseteq {m + 1}
    BY <2>1
  <2>2. CASE ~(U \subseteq {m + 1})
    <3>v. PICK V : V = U \ {m + 1}
      OBVIOUS
    <3>1. V \in SUBSET (1..n) /\ V # {} /\ V \subseteq 1..m
      BY <2>2, <3>v
    <3>2. PICK i \in V : \A j \in V \ {i} : Earlier(specs, i, j)
      BY <3>1, <1>4, <1>t
    <3>3. CASE m + 1 \notin U \/ Earlier(specs, i, m + 1)
      <4>1. \A j \in U \ {i} : Earlier(specs, i, j)
        BY <3>2, <3>3, <3>v
      <4> QED
        BY <4>1, <3>v
    <3>4. CASE m + 1 \in U /\ ~Earlier(specs, i, m + 1)
      <4>1. i \in 1..n /\ m + 1 \in 1..n /\ i # m + 1
        BY <3>1, <3>4
      <4>2. Earlier(specs, m + 1, i)
        BY <4>1, <3>4, <1>2
      <4>3. \A j \in U \ {m + 1} : Earlier(specs, m + 1, j)
        BY <4>1, <4>2, <3>1, <3>2, <3>v, <1>1
      <4> QED
        BY <4>3, <3>4
    <3> QED
      BY <3>3, <3>4
  <2> QED
    BY <2>1, <2>2
<1>5. n \in T
  BY <1>0, <1>3, <1>4, Inductive
<1>6. \E i \in S : \A j \in S \ {i} : Earlier(specs, i, j)
  BY <1>0, <1>5, <1>t, <1>n
<1> QED
  BY <1>6 DEF Foremost

\* Drawn is the last of the lists its recursion makes.
Longer(specs, done, needs) ==
    LET next == Unblocked(specs, done, needs)
    IN  IF next = {} THEN done ELSE Append(done, Foremost(specs, next))
Draws(f, n, specs, done, needs) ==
    f = [m \in 0..n |-> IF m = 0 THEN done ELSE Longer(specs, f[m - 1], needs)]

LEMMA DrawsExist ==
    ASSUME NEW n \in Nat, NEW specs, NEW done, NEW needs
    PROVE  \E f : Draws(f, n, specs, done, needs)
<1>s. PICK S : S = {m \in Nat : \E f : Draws(f, m, specs, done, needs)}
  OBVIOUS
<1>1. 0 \in S
  <2>1. Draws([m \in 0..0 |-> done], 0, specs, done, needs)
    BY DEF Draws
  <2> QED
    BY <2>1, <1>s
<1>2. ASSUME NEW m \in Nat, m \in S PROVE m + 1 \in S
  <2>1. PICK f : Draws(f, m, specs, done, needs)
    BY <1>2, <1>s
  <2>2. PICK g : g = [i \in 0..(m + 1) |-> IF i \in 0..m THEN f[i] ELSE Longer(specs, f[m], needs)]
    OBVIOUS
  <2>3. ASSUME NEW i \in 0..(m + 1)
        PROVE  g[i] = IF i = 0 THEN done ELSE Longer(specs, g[i - 1], needs)
    <3>1. CASE i \in 0..m
      <4>1. g[i] = f[i] /\ (i # 0 => g[i - 1] = f[i - 1])
        BY <3>1, <2>2
      <4>2. f[i] = IF i = 0 THEN done ELSE Longer(specs, f[i - 1], needs)
        BY <3>1, <2>1 DEF Draws
      <4> QED
        BY <4>1, <4>2
    <3>2. CASE i = m + 1
      BY <2>2, <3>2
    <3> QED
      BY <3>1, <3>2
  <2>4. Draws(g, m + 1, specs, done, needs)
    <3>1. g = [i \in 0..(m + 1) |-> g[i]]
      BY <2>2
    <3>2. [i \in 0..(m + 1) |-> g[i]]
          = [i \in 0..(m + 1) |-> IF i = 0 THEN done ELSE Longer(specs, g[i - 1], needs)]
      BY <2>3
    <3> QED
      BY <3>1, <3>2 DEF Draws
  <2> QED
    BY <2>4, <1>s
<1>3. n \in S
  BY <1>1, <1>2, Inductive
<1> QED
  BY <1>3, <1>s

LEMMA DrawnDraws ==
    ASSUME NEW specs, Len(specs) \in Nat, NEW done, NEW needs
    PROVE  \E f : Draws(f, Len(specs), specs, done, needs) /\ Drawn(specs, done, needs) = f[Len(specs)]
<1>1. PICK f : f = CHOOSE g : Draws(g, Len(specs), specs, done, needs)
  OBVIOUS
<1>2. Draws(f, Len(specs), specs, done, needs)
  BY <1>1, DrawsExist
<1>3. Drawn(specs, done, needs) = f[Len(specs)]
  BY <1>1 DEF Drawn, Draws, Longer
<1> QED
  BY <1>2, <1>3

\* Some of the apps, each once; what is left is counted.
Left(specs, done) == (1..Len(specs)) \ ToSet(done)
Draft(specs, done) ==
    /\ done \in Seq(1..Len(specs))
    /\ \A p, q \in 1..Len(done) : done[p] = done[q] => p = q
    /\ Len(done) + Cardinality(Left(specs, done)) = Len(specs)

LEMMA LeftFinite ==
    ASSUME NEW specs, Len(specs) \in Nat, NEW done
    PROVE  IsFiniteSet(Left(specs, done))
<1>1. IsFiniteSet(1..Len(specs))
  BY FS_Interval
<1> QED
  BY <1>1, FS_Subset DEF Left

\* Each app after the first n waited for its needs.
Waited(done, n, needs) ==
    \A p \in 1..Len(done) : p > n => needs[done[p]] \subseteq {done[q] : q \in 1..(p - 1)}

LEMMA LongerDraft ==
    ASSUME NEW specs, Comparable(specs), NEW done, Draft(specs, done), NEW needs, NEW n \in Nat,
           Waited(done, n, needs)
    PROVE  LET more == Longer(specs, done, needs)
           IN  /\ Draft(specs, more) /\ Waited(more, n, needs)
               /\ \A p \in 1..Len(done) : p <= Len(more) /\ more[p] = done[p]
               /\ \/ Unblocked(specs, done, needs) = {} /\ more = done
                  \/ Len(more) = Len(done) + 1
<1>1. CASE Unblocked(specs, done, needs) = {}
  <2>1. Longer(specs, done, needs) = done /\ Len(done) \in Nat
    BY <1>1, LenProperties DEF Longer, Draft
  <2> QED
    BY <2>1, <1>1
<1>2. CASE Unblocked(specs, done, needs) # {}
  <2>x. PICK x : x = Foremost(specs, Unblocked(specs, done, needs))
    OBVIOUS
  <2>m. PICK m : m = Append(done, x)
    OBVIOUS
  <2>l. PICK l : l = Len(done)
    OBVIOUS
  <2>0. done \in Seq(1..Len(specs)) /\ l \in Nat /\ DOMAIN done = 1..l
        /\ Len(specs) \in Nat /\ DOMAIN specs = 1..Len(specs)
    BY <2>l, LenProperties DEF Draft, Comparable, Listed
  <2>1. x \in Unblocked(specs, done, needs)
    <3>1. Unblocked(specs, done, needs) \subseteq 1..Len(specs)
      BY <2>0 DEF Unblocked
    <3> QED
      BY <3>1, <1>2, <2>x, ForemostFound
  <2>2. x \in 1..Len(specs) /\ x \notin ToSet(done) /\ needs[x] \subseteq ToSet(done)
    BY <2>0, <2>1 DEF Unblocked
  <2>3. /\ m \in Seq(1..Len(specs)) /\ Len(m) = l + 1
        /\ \A p \in 1..l : m[p] = done[p]
        /\ m[l + 1] = x
    BY <2>0, <2>2, <2>m, <2>l, AppendProperties
  <2>4. ToSet(done) = {done[p] : p \in 1..l} /\ ToSet(m) = ToSet(done) \cup {x}
    <3>1. ToSet(done) = {done[p] : p \in 1..l}
      BY <2>0 DEF ToSet
    <3>2. ToSet(m) = {m[p] : p \in 1..(l + 1)}
      BY <2>3, LenProperties DEF ToSet
    <3>3. \A y : y \in ToSet(m) <=> y \in ToSet(done) \cup {x}
      BY <3>1, <3>2, <2>0, <2>3
    <3> QED
      BY <3>1, <3>3
  <2>5. Cardinality(Left(specs, m)) = Cardinality(Left(specs, done)) - 1
    <3>1. IsFiniteSet(Left(specs, done))
      BY <2>0, LeftFinite
    <3>2. x \in Left(specs, done) /\ Left(specs, m) = Left(specs, done) \ {x}
      BY <2>2, <2>4 DEF Left
    <3> QED
      BY <3>1, <3>2, FS_RemoveElement
  <2>6. \A p, q \in 1..(l + 1) : m[p] = m[q] => p = q
    <3> SUFFICES ASSUME NEW p \in 1..(l + 1), NEW q \in 1..(l + 1), m[p] = m[q] PROVE p = q
      OBVIOUS
    <3>1. \A r \in 1..l : m[r] # x
      BY <2>2, <2>3, <2>4
    <3>2. CASE p \in 1..l /\ q \in 1..l
      BY <3>2, <2>3, <2>l DEF Draft
    <3>3. CASE p = l + 1 \/ q = l + 1
      BY <3>1, <3>3, <2>0, <2>3
    <3> QED
      BY <3>2, <3>3, <2>0
  <2>7. Draft(specs, m)
    <3>1. IsFiniteSet(Left(specs, done))
      BY <2>0, LeftFinite
    <3>2. Cardinality(Left(specs, done)) \in Nat /\ l + Cardinality(Left(specs, done)) = Len(specs)
      BY <3>1, <2>l, FS_CardinalityType DEF Draft
    <3>3. (l + 1) + Cardinality(Left(specs, m)) = Len(specs)
      BY <3>2, <2>0, <2>5
    <3> QED
      BY <3>3, <2>3, <2>6 DEF Draft
  <2>8. Waited(m, n, needs)
    <3> SUFFICES ASSUME NEW p \in 1..(l + 1), p > n
                 PROVE  needs[m[p]] \subseteq {m[q] : q \in 1..(p - 1)}
      BY <2>3 DEF Waited
    <3>1. CASE p \in 1..l
      <4>1. needs[done[p]] \subseteq {done[q] : q \in 1..(p - 1)}
        BY <3>1, <2>l DEF Waited
      <4>2. \A q \in 1..(p - 1) : m[q] = done[q]
        BY <3>1, <2>3, <2>0
      <4> QED
        BY <4>1, <4>2, <3>1, <2>3
    <3>2. CASE p = l + 1
      <4>1. p - 1 = l
        BY <3>2, <2>0
      <4>2. \A y \in needs[x] : \E q \in 1..l : y = m[q]
        BY <2>2, <2>3, <2>4
      <4> QED
        BY <4>1, <4>2, <3>2, <2>3
    <3> QED
      BY <3>1, <3>2, <2>0
  <2>9. Longer(specs, done, needs) = m
    BY <1>2, <2>m, <2>x DEF Longer
  <2> QED
    BY <2>3, <2>7, <2>8, <2>9, <2>l, <2>0
<1> QED
  BY <1>1, <1>2

\* Drawing goes on until none is left that waits for nothing.
LEMMA DrawnDraft ==
    ASSUME NEW specs, Comparable(specs), NEW done, Draft(specs, done), NEW needs
    PROVE  LET all == Drawn(specs, done, needs)
           IN  /\ Draft(specs, all) /\ Waited(all, Len(done), needs)
               /\ \A p \in 1..Len(done) : p <= Len(all) /\ all[p] = done[p]
               /\ Unblocked(specs, all, needs) = {}
<1>n. PICK n : n = Len(specs)
  OBVIOUS
<1>l. PICK l : l = Len(done)
  OBVIOUS
<1>0. n \in Nat /\ l \in Nat /\ done \in Seq(1..n) /\ DOMAIN specs = 1..n
  BY <1>n, <1>l, LenProperties DEF Comparable, Listed, Draft
<1>1. PICK f : Draws(f, n, specs, done, needs) /\ Drawn(specs, done, needs) = f[n]
  BY <1>0, <1>n, DrawnDraws
<1>2. f[0] = done /\ \A m \in 0..n : m # 0 => f[m] = Longer(specs, f[m - 1], needs)
  BY <1>0, <1>1 DEF Draws
<1>s. PICK S : S = {m \in Nat : m \in 0..n =>
          /\ Draft(specs, f[m]) /\ Waited(f[m], l, needs)
          /\ \A p \in 1..l : p <= Len(f[m]) /\ f[m][p] = done[p]
          /\ Unblocked(specs, f[m], needs) = {} \/ Len(f[m]) = l + m}
  OBVIOUS
<1>3. 0 \in S
  <2>1. Waited(done, l, needs)
    BY <1>l, <1>0 DEF Waited
  <2> QED
    BY <2>1, <1>s, <1>2, <1>l, <1>0
<1>4. ASSUME NEW m \in Nat, m \in S PROVE m + 1 \in S
  <2> SUFFICES ASSUME m + 1 \in 0..n
               PROVE  /\ Draft(specs, f[m + 1]) /\ Waited(f[m + 1], l, needs)
                      /\ \A p \in 1..l : p <= Len(f[m + 1]) /\ f[m + 1][p] = done[p]
                      /\ Unblocked(specs, f[m + 1], needs) = {} \/ Len(f[m + 1]) = l + (m + 1)
    BY <1>s
  <2>1. /\ Draft(specs, f[m]) /\ Waited(f[m], l, needs)
        /\ \A p \in 1..l : p <= Len(f[m]) /\ f[m][p] = done[p]
        /\ Unblocked(specs, f[m], needs) = {} \/ Len(f[m]) = l + m
    BY <1>0, <1>4, <1>s
  <2>2. f[m + 1] = Longer(specs, f[m], needs)
    <3>1. m + 1 # 0 /\ (m + 1) - 1 = m
      OBVIOUS
    <3> QED
      BY <3>1, <1>2
  <2>3. /\ Draft(specs, f[m + 1]) /\ Waited(f[m + 1], l, needs)
        /\ \A p \in 1..Len(f[m]) : p <= Len(f[m + 1]) /\ f[m + 1][p] = f[m][p]
        /\ \/ Unblocked(specs, f[m], needs) = {} /\ f[m + 1] = f[m]
           \/ Len(f[m + 1]) = Len(f[m]) + 1
    BY <2>1, <2>2, <1>0, LongerDraft
  <2>4. \A p \in 1..l : p \in 1..Len(f[m])
    <3>1. Len(f[m]) \in Nat
      BY <2>1, LenProperties DEF Draft
    <3> QED
      BY <3>1, <2>1, <1>0
  <2>5. \A p \in 1..l : p <= Len(f[m + 1]) /\ f[m + 1][p] = done[p]
    BY <2>1, <2>3, <2>4
  <2>6. Unblocked(specs, f[m + 1], needs) = {} \/ Len(f[m + 1]) = l + (m + 1)
    <3>1. CASE Unblocked(specs, f[m], needs) = {} /\ f[m + 1] = f[m]
      BY <3>1
    <3>2. CASE Unblocked(specs, f[m], needs) # {}
      BY <3>2, <2>1, <2>3, <1>0
    <3>3. CASE Unblocked(specs, f[m], needs) = {} /\ Len(f[m + 1]) = Len(f[m]) + 1
      <4>1. f[m + 1] = f[m]
        BY <3>3, <2>2 DEF Longer
      <4> QED
        BY <4>1, <3>3
    <3> QED
      BY <3>1, <3>2, <3>3, <2>3
  <2> QED
    BY <2>3, <2>5, <2>6
<1>5. /\ Draft(specs, f[n]) /\ Waited(f[n], l, needs)
      /\ \A p \in 1..l : p <= Len(f[n]) /\ f[n][p] = done[p]
      /\ Unblocked(specs, f[n], needs) = {} \/ Len(f[n]) = l + n
  <2>1. n \in S
    BY <1>0, <1>3, <1>4, Inductive
  <2> QED
    BY <2>1, <1>0, <1>s
<1>6. Len(f[n]) = l + n => Unblocked(specs, f[n], needs) = {}
  <2> SUFFICES ASSUME Len(f[n]) = l + n PROVE Unblocked(specs, f[n], needs) = {}
    OBVIOUS
  <2>1. IsFiniteSet(Left(specs, f[n]))
    BY <1>0, <1>n, LeftFinite
  <2>2. Cardinality(Left(specs, f[n])) = 0
    BY <2>1, <1>5, <1>0, <1>n, FS_CardinalityType DEF Draft
  <2>3. Left(specs, f[n]) = {}
    BY <2>1, <2>2, FS_EmptySet
  <2> QED
    BY <2>3, <1>0, <1>n DEF Unblocked, Left
<1> QED
  BY <1>1, <1>5, <1>6, <1>l

\* What the order of start is: every app once, and after those it needs,
\* but for some apps that need one another.
StartOrder(specs, at, stuck) ==
    /\ at \in [1..Len(specs) -> 1..Len(specs)]
    /\ \A p, q \in 1..Len(specs) : at[p] = at[q] => p = q
    /\ \A i \in 1..Len(specs) : \E p \in 1..Len(specs) : at[p] = i
    /\ stuck \subseteq 1..Len(specs)
    /\ \A i \in stuck : Needs(specs, i) \cap stuck # {}
    /\ \A p \in 1..Len(specs) : at[p] \notin stuck =>
          Needs(specs, at[p]) \subseteq {at[q] : q \in 1..(p - 1)}

LEMMA OrderedInOrder ==
    ASSUME NEW specs, Comparable(specs)
    PROVE  /\ Listed(Ordered(specs)) /\ Len(Ordered(specs)) = Len(specs)
           /\ \E at, stuck : /\ StartOrder(specs, at, stuck)
                             /\ \A p \in 1..Len(specs) : Ordered(specs)[p] = specs[at[p]]
<1>n. PICK n : n = Len(specs)
  OBVIOUS
<1>0. n \in Nat /\ DOMAIN specs = 1..n
  BY <1>n DEF Comparable, Listed
<1>a. PICK needs : needs = [i \in DOMAIN specs |-> Needs(specs, i)]
  OBVIOUS
<1>b. PICK nothing : nothing = [i \in DOMAIN specs |-> {}]
  OBVIOUS
<1>f. PICK first : first = Drawn(specs, <<>>, needs)
  OBVIOUS
<1>w. PICK at : at = Drawn(specs, first, nothing)
  OBVIOUS
<1>1. Ordered(specs) = [k \in 1..n |-> specs[at[k]]]
  BY <1>0, <1>a, <1>b, <1>f, <1>w DEF Ordered
<1>2. Draft(specs, <<>>)
  <2>1. <<>> \in Seq(1..n) /\ Len(<<>>) = 0
    BY EmptySeq
  <2>2. Left(specs, <<>>) = 1..n
    BY <1>n, <1>0, <2>1 DEF Left, ToSet
  <2>3. Cardinality(1..n) = n
    BY <1>0, FS_Interval
  <2> QED
    BY <2>1, <2>2, <2>3, <1>n, <1>0 DEF Draft
<1>3. Draft(specs, first) /\ Waited(first, 0, needs) /\ Unblocked(specs, first, needs) = {}
  BY <1>2, <1>f, DrawnDraft, EmptySeq
<1>4. /\ Draft(specs, at) /\ Unblocked(specs, at, nothing) = {}
      /\ \A p \in 1..Len(first) : p <= Len(at) /\ at[p] = first[p]
  BY <1>3, <1>w, DrawnDraft
<1>5. Left(specs, at) = {}
  BY <1>0, <1>4, <1>b, <1>n DEF Unblocked, Left
<1>6. at \in Seq(1..n) /\ Len(at) = n /\ ToSet(at) = 1..n
  <2>1. at \in Seq(1..n) /\ Len(at) + Cardinality({}) = n /\ Len(at) \in Nat
    BY <1>4, <1>5, <1>n, LenProperties DEF Draft
  <2>2. Len(at) = n
    BY <2>1, <1>0, FS_EmptySet
  <2>3. ToSet(at) \subseteq 1..n
    <3>1. at \in [1..Len(at) -> 1..n] /\ DOMAIN at = 1..Len(at)
      BY <2>1, LenProperties
    <3> QED
      BY <3>1 DEF ToSet
  <2> QED
    BY <2>1, <2>2, <2>3, <1>5, <1>n DEF Left
<1>7. at \in [1..n -> 1..n] /\ \A i \in 1..n : \E p \in 1..n : at[p] = i
  BY <1>6, LenProperties DEF ToSet
<1>8. \A p, q \in 1..n : at[p] = at[q] => p = q
  BY <1>4, <1>6 DEF Draft
<1>s. PICK stuck : stuck = (1..n) \ ToSet(first)
  OBVIOUS
<1>9. \A i \in stuck : Needs(specs, i) \cap stuck # {}
  <2> SUFFICES ASSUME NEW i \in stuck PROVE Needs(specs, i) \cap stuck # {}
    OBVIOUS
  <2>1. i \in 1..n /\ ~(needs[i] \subseteq ToSet(first))
    BY <1>3, <1>0, <1>s DEF Unblocked
  <2>2. needs[i] = Needs(specs, i) /\ Needs(specs, i) \subseteq 1..n
    BY <2>1, <1>0, <1>a DEF Needs, Named
  <2> QED
    BY <2>1, <2>2, <1>s
<1>10. \A p \in 1..n : at[p] \notin stuck =>
          Needs(specs, at[p]) \subseteq {at[q] : q \in 1..(p - 1)}
  <2> SUFFICES ASSUME NEW p \in 1..n, at[p] \notin stuck
               PROVE  Needs(specs, at[p]) \subseteq {at[q] : q \in 1..(p - 1)}
    OBVIOUS
  <2>0. first \in Seq(1..n) /\ Len(first) \in Nat
    BY <1>3, <1>n, LenProperties DEF Draft
  <2>1. at[p] \in 1..n /\ at[p] \in ToSet(first)
    BY <1>7, <1>s
  <2>2. PICK r \in 1..Len(first) : at[p] = first[r]
    BY <2>0, <2>1, LenProperties DEF ToSet
  <2>3. r \in 1..n /\ at[r] = at[p]
    BY <2>0, <2>2, <1>4, <1>6, <1>0
  <2>4. p = r
    BY <2>3, <1>8
  <2>5. needs[first[p]] \subseteq {first[q] : q \in 1..(p - 1)}
    BY <2>2, <2>4, <1>3, <2>0 DEF Waited
  <2>6. \A q \in 1..(p - 1) : at[q] = first[q]
    BY <2>0, <2>2, <2>4, <1>4
  <2>7. needs[first[p]] = Needs(specs, at[p])
    BY <2>1, <2>2, <2>4, <1>0, <1>a
  <2> QED
    BY <2>5, <2>6, <2>7
<1>11. StartOrder(specs, at, stuck)
  BY <1>7, <1>8, <1>9, <1>10, <1>s, <1>n DEF StartOrder
<1>12. Listed(Ordered(specs)) /\ Len(Ordered(specs)) = n
  <2>1. DOMAIN Ordered(specs) = 1..n /\ Ordered(specs) = [k \in 1..n |-> Ordered(specs)[k]]
    BY <1>1
  <2> QED
    BY <2>1, <1>0, FunctionListed
<1> QED
  BY <1>1, <1>11, <1>12, <1>n
-----------------------------------------------------------------------------
(* Services.                                                               *)

\* What a layer leaves out is taken from the one below.
LEMMA OrTyped == ASSUME NEW S, NEW a \in S \cup {NONE}, NEW b \in S PROVE Or(a, b) \in S
  BY DEF Or

\* A number that is kept above zero.
LEMMA AtLeast1Positive == ASSUME NEW n \in Nat PROVE AtLeast1(n) \in Nat \ {0} /\ (n # 0 => AtLeast1(n) = n)
  BY DEF AtLeast1

\* The daemon keeps a normal service as it is.
LEMMA StartedKeeps == ASSUME NEW x, Normal(x) PROVE Started(x) = x
<1>1. /\ x = [f \in DOMAIN x |-> x[f]]
      /\ {"name", "stop_timeout_secs", "ready_timeout_secs", "cluster_instances"} \subseteq DOMAIN x
  BY DEF Normal, Configured
<1>2. /\ PositiveOrNone(x.cluster_instances) = x.cluster_instances
      /\ AtLeast1(x.stop_timeout_secs) = x.stop_timeout_secs
      /\ AtLeast1(x.ready_timeout_secs) = x.ready_timeout_secs
  BY ApplyAssumption DEF Normal, PositiveOrNone, AtLeast1
<1> QED
  BY <1>1, <1>2 DEF Started

\* A service before it has its name and command.
Sound(r) ==
    /\ (Configured \ {"command"}) \cup {"stdout", "stderr", "instances", "start_order", "depends_on"}
          \subseteq DOMAIN r
    /\ {"name", "command", "app"} \cap DOMAIN r = {}
    /\ r.stop_timeout_secs \in Nat \ {0} /\ r.ready_timeout_secs \in Nat \ {0}
    /\ r.cluster_instances \in (Nat \ {0}) \cup {NONE}
    /\ r.instances \in Nat \ {0} /\ r.start_order \in Int

Counts == {"stop_timeout_secs", "cluster_instances", "ready_timeout_secs", "instances"}

\* An app over the defaults.
LEMMA BaseSound ==
    ASSUME NEW app, NEW def, NumbersIn(app, Counts), NumbersIn(def, Counts), NEW order \in Int,
           OrdersIn(app, {"start_order"}), OrdersIn(def, {"start_order"})
    PROVE  Sound(Base(app, def, order))
<1>r. PICK r : r = Base(app, def, order)
  OBVIOUS
<1>1. \A f \in Counts : Or(app[f], def[f]) \in Nat \cup {NONE}
  BY DEF NumbersIn, Or
<1>2. /\ Or(Or(app["stop_timeout_secs"], def["stop_timeout_secs"]), 5) \in Nat
      /\ Or(Or(app["ready_timeout_secs"], def["ready_timeout_secs"]), 30) \in Nat
      /\ Or(Or(app["instances"], def["instances"]), 1) \in Nat
  <2>1. /\ Or(app["stop_timeout_secs"], def["stop_timeout_secs"]) \in Nat \cup {NONE}
        /\ Or(app["ready_timeout_secs"], def["ready_timeout_secs"]) \in Nat \cup {NONE}
        /\ Or(app["instances"], def["instances"]) \in Nat \cup {NONE}
    BY <1>1 DEF Counts
  <2> QED
    BY <2>1 DEF Or
<1>c. Or(app["cluster_instances"], def["cluster_instances"]) \in Nat \cup {NONE}
  BY <1>1 DEF Counts
<1>o. Or(Or(app["start_order"], def["start_order"]), order) \in Int
  BY DEF OrdersIn, Or
<1>3. /\ r.stop_timeout_secs = AtLeast1(Or(Or(app["stop_timeout_secs"], def["stop_timeout_secs"]), 5))
      /\ r.ready_timeout_secs = AtLeast1(Or(Or(app["ready_timeout_secs"], def["ready_timeout_secs"]), 30))
      /\ r.cluster_instances = PositiveOrNone(Or(app["cluster_instances"], def["cluster_instances"]))
      /\ r.instances = AtLeast1(Or(Or(app["instances"], def["instances"]), 1))
      /\ r.start_order = Or(Or(app["start_order"], def["start_order"]), order)
  BY <1>r DEF Base
<1>4. /\ (Configured \ {"command"}) \cup {"stdout", "stderr", "instances", "start_order", "depends_on"}
            \subseteq DOMAIN r
      /\ {"name", "command", "app"} \cap DOMAIN r = {}
  BY <1>r DEF Base, Configured
<1>5. /\ r.stop_timeout_secs \in Nat \ {0} /\ r.ready_timeout_secs \in Nat \ {0}
      /\ r.cluster_instances \in (Nat \ {0}) \cup {NONE}
      /\ r.instances \in Nat \ {0} /\ r.start_order \in Int
  BY <1>2, <1>c, <1>o, <1>3, AtLeast1Positive DEF PositiveOrNone
<1> QED
  BY <1>r, <1>4, <1>5 DEF Sound

\* A profile over that.
LEMMA ProfileSound ==
    ASSUME NEW r, Sound(r), NEW p, NumbersIn(p, Counts), OrdersIn(p, {"start_order"})
    PROVE  Sound(WithProfile(r, p))
<1>q. PICK q : q = WithProfile(r, p)
  OBVIOUS
<1>0. /\ r["stop_timeout_secs"] \in Nat /\ r["ready_timeout_secs"] \in Nat
      /\ r["cluster_instances"] \in Nat \cup {NONE}
      /\ r["instances"] \in Nat /\ r["start_order"] \in Int
  BY DEF Sound
<1>1. /\ Or(p["stop_timeout_secs"], r["stop_timeout_secs"]) \in Nat
      /\ Or(p["ready_timeout_secs"], r["ready_timeout_secs"]) \in Nat
      /\ Or(p["cluster_instances"], r["cluster_instances"]) \in Nat \cup {NONE}
      /\ Or(p["instances"], r["instances"]) \in Nat
      /\ Or(p["start_order"], r["start_order"]) \in Int
  BY <1>0 DEF NumbersIn, OrdersIn, Counts, Or
<1>2. /\ q.stop_timeout_secs = AtLeast1(Or(p["stop_timeout_secs"], r["stop_timeout_secs"]))
      /\ q.ready_timeout_secs = AtLeast1(Or(p["ready_timeout_secs"], r["ready_timeout_secs"]))
      /\ q.cluster_instances = PositiveOrNone(Or(p["cluster_instances"], r["cluster_instances"]))
      /\ q.instances = AtLeast1(Or(p["instances"], r["instances"]))
      /\ q.start_order = Or(p["start_order"], r["start_order"])
  BY <1>q DEF WithProfile
<1>3. /\ (Configured \ {"command"}) \cup {"stdout", "stderr", "instances", "start_order", "depends_on"}
            \subseteq DOMAIN q
      /\ {"name", "command", "app"} \cap DOMAIN q = {}
  BY <1>q DEF WithProfile, Configured
<1>4. /\ q.stop_timeout_secs \in Nat \ {0} /\ q.ready_timeout_secs \in Nat \ {0}
      /\ q.cluster_instances \in (Nat \ {0}) \cup {NONE}
      /\ q.instances \in Nat \ {0} /\ q.start_order \in Int
  BY <1>1, <1>2, AtLeast1Positive DEF PositiveOrNone
<1> QED
  BY <1>q, <1>3, <1>4 DEF Sound

\* Clearing what was switched off leaves the numbers as they are, or none.
LEMMA SettledSound == ASSUME NEW r, Sound(r) PROVE Sound(Settled(r))
<1>q. PICK q : q = Settled(r)
  OBVIOUS
<1>1. DOMAIN q = DOMAIN r
  BY <1>q DEF Settled
<1>2. {"stop_timeout_secs", "cluster_instances", "ready_timeout_secs", "instances", "start_order"}
         \subseteq DOMAIN r
  BY DEF Sound, Configured
<1>3. /\ q.stop_timeout_secs = r.stop_timeout_secs /\ q.ready_timeout_secs = r.ready_timeout_secs
      /\ q.cluster_instances = IF r.cluster_mode THEN r.cluster_instances ELSE NONE
      /\ q.instances = r.instances /\ q.start_order = r.start_order
  BY <1>q, <1>2 DEF Settled
<1> QED
  BY <1>q, <1>1, <1>3 DEF Sound

\* An app of a PM2 ecosystem file.
EcoCounts == {"kill_timeout", "stop_timeout", "cluster_instances", "instances", "listen_timeout"}
EcoOrders == {"priority", "start_order"}

\* Milliseconds that are a number are a number of seconds.
LEMMA MillisTyped == ASSUME NEW n \in Nat PROVE MillisToSecs(n) \in Nat
  BY DEF MillisToSecs

\* An entry of an ecosystem file is as sound as an app of an oxfile,
LEMMA EntrySound ==
    ASSUME NEW a, NumbersIn(a, EcoCounts), OrdersIn(a, EcoOrders), NEW order \in Int
    PROVE  Sound(Entry(a, order))
<1>r. PICK r : r = Entry(a, order)
  OBVIOUS
<1>1. \A f \in EcoCounts : a[f] \in Nat \cup {NONE}
  BY DEF NumbersIn
<1>2. /\ Or(a["kill_timeout"], Or(a["stop_timeout"], 5)) \in Nat
      /\ Or(a["listen_timeout"], 30000) \in Nat
      /\ Or(a["instances"], 1) \in Nat
  <2>1. /\ a["kill_timeout"] \in Nat \cup {NONE} /\ a["stop_timeout"] \in Nat \cup {NONE}
        /\ a["listen_timeout"] \in Nat \cup {NONE} /\ a["instances"] \in Nat \cup {NONE}
    BY <1>1 DEF EcoCounts
  <2> QED
    BY <2>1 DEF Or
<1>3. ClusterCount(a.cluster_instances) \in (Nat \ {0}) \cup {NONE}
      /\ ClusterCount(a.instances) \in (Nat \ {0}) \cup {NONE}
  BY <1>1, AtLeast1Positive DEF EcoCounts, ClusterCount
<1>o. Or(a.priority, Or(a["start_order"], order)) \in Int
  BY DEF OrdersIn, EcoOrders, Or
<1>4. /\ r.stop_timeout_secs = AtLeast1(Or(a.kill_timeout, Or(a["stop_timeout"], 5)))
      /\ r.ready_timeout_secs = AtLeast1(MillisToSecs(Or(a["listen_timeout"], 30000)))
      /\ r.cluster_instances = Or(ClusterCount(a.cluster_instances),
                                  IF IsCluster(a.exec_mode) THEN ClusterCount(a.instances) ELSE NONE)
      /\ r.instances = IF IsCluster(a.exec_mode) THEN 1 ELSE AtLeast1(Or(a["instances"], 1))
      /\ r.start_order = Or(a.priority, Or(a["start_order"], order))
  BY <1>r DEF Entry
<1>5. /\ (Configured \ {"command"}) \cup {"stdout", "stderr", "instances", "start_order", "depends_on"}
            \subseteq DOMAIN r
      /\ {"name", "command", "app"} \cap DOMAIN r = {}
  BY <1>r DEF Entry, Configured
<1>6. /\ r.stop_timeout_secs \in Nat \ {0} /\ r.ready_timeout_secs \in Nat \ {0}
      /\ r.cluster_instances \in (Nat \ {0}) \cup {NONE}
      /\ r.instances \in Nat \ {0} /\ r.start_order \in Int
  BY <1>2, <1>3, <1>o, <1>4, AtLeast1Positive, MillisTyped DEF Or
<1> QED
  BY <1>r, <1>5, <1>6 DEF Sound

\* and stays so under the overrides of a profile.
LEMMA OverriddenSound ==
    ASSUME NEW r, Sound(r), NEW p, NumbersIn(p, EcoCounts), OrdersIn(p, EcoOrders)
    PROVE  Sound(Overridden(r, p))
<1>q. PICK q : q = Overridden(r, p)
  OBVIOUS
<1>1. \A f \in EcoCounts : p[f] \in Nat \cup {NONE}
  BY DEF NumbersIn
<1>2. {"stop_timeout_secs", "cluster_instances", "ready_timeout_secs", "instances", "start_order"}
         \subseteq DOMAIN r
  BY DEF Sound, Configured
<1>3. DOMAIN q = DOMAIN r
  BY <1>q DEF Overridden
<1>4. /\ q.stop_timeout_secs = AtLeast1(Or(p.stop_timeout, Or(p.kill_timeout, r.stop_timeout_secs)))
      /\ q.ready_timeout_secs = IF p.listen_timeout = NONE THEN r.ready_timeout_secs
                                ELSE AtLeast1(MillisToSecs(p.listen_timeout))
      /\ q.cluster_instances = OverriddenClones(r, p)
      /\ q.instances = OverriddenInstances(r, p)
      /\ q.start_order = Or(p.start_order, Or(p.priority, r.start_order))
  BY <1>q, <1>2 DEF Overridden
<1>5. Or(p.stop_timeout, Or(p.kill_timeout, r.stop_timeout_secs)) \in Nat
  BY <1>1, OrTyped DEF EcoCounts, Sound
<1>i. p.instances # NONE => AtLeast1(p.instances) \in Nat \ {0}
  BY <1>1, AtLeast1Positive DEF EcoCounts
<1>6. OverriddenClones(r, p) \in (Nat \ {0}) \cup {NONE}
  <2>1. ClusterCount(p.cluster_instances) \in (Nat \ {0}) \cup {NONE}
    BY <1>1, AtLeast1Positive DEF EcoCounts, ClusterCount
  <2> QED
    BY <2>1, <1>i DEF OverriddenClones, Or, Sound
<1>7. p.listen_timeout # NONE => MillisToSecs(p.listen_timeout) \in Nat
  BY <1>1, MillisTyped DEF EcoCounts
<1>8. OverriddenInstances(r, p) \in Nat \ {0}
  BY <1>i DEF OverriddenInstances, Sound
<1>9. Or(p.start_order, Or(p.priority, r.start_order)) \in Int
  BY DEF OrdersIn, EcoOrders, Or, Sound
<1> QED
  BY <1>q, <1>3, <1>4, <1>5, <1>6, <1>7, <1>8, <1>9, AtLeast1Positive DEF Sound

\* A service as the rest of the program sees it.
Service(x) ==
    /\ Normal(x)
    /\ "depends_on" \in DOMAIN x /\ "app" \notin DOMAIN x
    /\ x.instances \in Nat \ {0} /\ x.start_order \in Int
    /\ x.name \in ToSet(Alphabet) \cup {NONE}

LEMMA SpecService ==
    ASSUME NEW app, app.name \in ToSet(Alphabet) \cup {NONE}, NEW r, Sound(r), NEW base
    PROVE  Service(SpecOf(app, r, base))
<1>e. PICK e : e = [r EXCEPT !.env = [k \in DOMAIN r.env |-> Expand(r.env[k])],
                             !.cwd    = Placed(base, r.cwd),
                             !.stdout = Placed(base, r.stdout),
                             !.stderr = Placed(base, r.stderr)]
  OBVIOUS
<1>x. PICK x : x = Extended(e, [name |-> app.name, command |-> app.command])
  OBVIOUS
<1>1. /\ DOMAIN e = DOMAIN r /\ "name" \notin DOMAIN e /\ "command" \notin DOMAIN e
      /\ {"stop_timeout_secs", "cluster_instances", "ready_timeout_secs", "instances",
          "start_order", "depends_on"} \subseteq DOMAIN r
  BY <1>e DEF Sound, Configured
<1>2. /\ e.stop_timeout_secs = r.stop_timeout_secs /\ e.ready_timeout_secs = r.ready_timeout_secs
      /\ e.cluster_instances = r.cluster_instances
      /\ e.instances = r.instances /\ e.start_order = r.start_order
  BY <1>e, <1>1
<1>3. /\ DOMAIN x = DOMAIN e \cup {"name", "command"} /\ \A f \in DOMAIN e : x[f] = e[f]
      /\ x["name"] = app.name
  BY <1>x, <1>1 DEF Extended
<1>4. x = [f \in DOMAIN x |-> x[f]]
  BY <1>x DEF Extended
<1>5. /\ Configured \cup {"name", "stdout", "stderr"} \subseteq DOMAIN x
      /\ "app" \notin DOMAIN x /\ "depends_on" \in DOMAIN x
  BY <1>1, <1>3 DEF Sound, Configured
<1>6. /\ x.stop_timeout_secs = r.stop_timeout_secs /\ x.ready_timeout_secs = r.ready_timeout_secs
      /\ x.cluster_instances = r.cluster_instances
      /\ x.instances = r.instances /\ x.start_order = r.start_order /\ x.name = app.name
  BY <1>1, <1>2, <1>3
<1>7. SpecOf(app, r, base) = x
  BY <1>e, <1>x DEF SpecOf
<1> QED
  BY <1>4, <1>5, <1>6, <1>7 DEF Normal, Sound, Service

\* An instance of a service has a name of its own, the numbers of the service,
\* its dependencies and its command.
LEMMA InstanceService ==
    ASSUME NEW x, Service(x), NEW k
    PROVE  LET y == Instance(x, k)
           IN  /\ Normal(y) /\ y.name = InstanceName(x, k) /\ y.app = x.name
               /\ y.depends_on = x.depends_on
               /\ y.command = x.command /\ y.cluster_mode = x.cluster_mode
<1>v. PICK v : v = IF x.instances = 1 THEN x.env ELSE ("INSTANCE" :> <<ToString(k)>>) @@ x.env
  OBVIOUS
<1>e. PICK e : e = [x EXCEPT !.name = InstanceName(x, k), !.env = v,
                             !.stop_timeout_secs = AtLeast1(x.stop_timeout_secs)]
  OBVIOUS
<1>y. PICK y : y = Extended(e, [app |-> x.name])
  OBVIOUS
<1>0. Normal(x)
  BY DEF Service
<1>1. DOMAIN e = DOMAIN x /\ {"stop_timeout_secs", "cluster_instances", "ready_timeout_secs", "name",
                              "command", "cluster_mode", "depends_on"} \subseteq DOMAIN x
  BY <1>e DEF Normal, Configured, Service
<1>2. /\ e.stop_timeout_secs = AtLeast1(x.stop_timeout_secs)
      /\ e.ready_timeout_secs = x.ready_timeout_secs /\ e.cluster_instances = x.cluster_instances
      /\ e.name = InstanceName(x, k) /\ e.depends_on = x.depends_on
      /\ e.command = x.command /\ e.cluster_mode = x.cluster_mode
  BY <1>e, <1>1
<1>3. /\ DOMAIN y = DOMAIN e \cup {"app"} /\ \A f \in DOMAIN e : y[f] = e[f]
      /\ y["app"] = x.name
  BY <1>y, <1>1 DEF Extended, Service
<1>4. y = [f \in DOMAIN y |-> y[f]]
  BY <1>y DEF Extended
<1>5. Instance(x, k) = y
  BY <1>e, <1>v, <1>y DEF Instance
<1>6. AtLeast1(x.stop_timeout_secs) \in Nat \ {0}
  BY <1>0, AtLeast1Positive DEF Normal
<1>7. Normal(y)
  BY <1>0, <1>1, <1>2, <1>3, <1>4, <1>6 DEF Normal
<1>8. /\ y.name = InstanceName(x, k) /\ y.app = x.name /\ y.depends_on = x.depends_on
      /\ y.command = x.command /\ y.cluster_mode = x.cluster_mode
  BY <1>1, <1>2, <1>3
<1> QED
  BY <1>5, <1>7, <1>8

\* What is loaded of a file is a list of services.
Services(specs) == Listed(specs) /\ \A i \in 1..Len(specs) : Service(specs[i])

LEMMA OnlyServices ==
    ASSUME NEW specs, Services(specs), NEW places PROVE Services(Only(specs, places))
<1>1. Listed(specs) /\ DOMAIN specs = 1..Len(specs)
  BY DEF Services, Listed
<1>2. PICK at : Listed(Only(specs, places)) /\ Picks(Only(specs, places), specs, places, at)
  BY <1>1, OnlyPicks
<1> QED
  BY <1>1, <1>2 DEF Services, Picks

\* An app of an ecosystem file, with its profile, is sound.
LEMMA EcoSound ==
    ASSUME NEW s \in Sources, ~s.toml, NEW i \in DOMAIN s.file.apps
    PROVE  Sound(EcoResolved(s.file.apps[i], s.profile, i - 1))
<1>a. PICK app : app = s.file.apps[i]
  OBVIOUS
<1>1. /\ Numbered(app.layer, s)
      /\ s.profile \in DOMAIN app.profiles => Numbered(app.profiles[s.profile], s)
  BY <1>a, ApplyAssumption
<1>2. i - 1 \in Int
  BY ApplyAssumption
<1>3. NumbersOf(s) = EcoCounts /\ OrdersOf(s) = EcoOrders
  BY DEF NumbersOf, OrdersOf, EcoCounts, EcoOrders
<1>4. Sound(Entry(app.layer, i - 1))
  BY <1>1, <1>2, <1>3, EntrySound DEF Numbered
<1> QED
  BY <1>1, <1>3, <1>4, <1>a, OverriddenSound DEF EcoResolved, Numbered

LEMMA AppService ==
    ASSUME NEW s \in Sources, NEW i \in DOMAIN s.file.apps, NEW base
    PROVE  /\ s.toml => Service(SpecOf(s.file.apps[i],
                                       Resolved(s.file.apps[i], s.file.defaults, s.profile, i - 1), base))
           /\ ~s.toml => Service(EcoLoad(s.file, s.profile, base)[i])
<1>a. PICK app : app = s.file.apps[i]
  OBVIOUS
<1>1. /\ s.toml => Numbered(s.file.defaults, s)
      /\ Numbered(app.layer, s) /\ app.name \in ToSet(Alphabet) \cup {NONE}
      /\ s.profile \in DOMAIN app.profiles => Numbered(app.profiles[s.profile], s)
  BY <1>a, ApplyAssumption
<1>2. i - 1 \in Int
  BY ApplyAssumption
<1>3. ASSUME s.toml
      PROVE  Service(SpecOf(app, Resolved(app, s.file.defaults, s.profile, i - 1), base))
  <2>1. NumbersOf(s) = Counts /\ OrdersOf(s) = {"start_order"}
    BY <1>3 DEF NumbersOf, OrdersOf, Counts
  <2>2. Sound(Base(app.layer, s.file.defaults, i - 1))
    BY <1>1, <1>2, <1>3, <2>1, BaseSound DEF Numbered
  <2>3. s.profile \in DOMAIN app.profiles =>
            Sound(WithProfile(Base(app.layer, s.file.defaults, i - 1), app.profiles[s.profile]))
    BY <1>1, <2>1, <2>2, ProfileSound DEF Numbered
  <2>4. Sound(Resolved(app, s.file.defaults, s.profile, i - 1))
    BY <2>2, <2>3, SettledSound DEF Resolved
  <2> QED
    BY <1>1, <2>4, SpecService
<1>4. ASSUME ~s.toml PROVE Service(EcoLoad(s.file, s.profile, base)[i])
  <2>3. Sound(EcoResolved(app, s.profile, i - 1))
    BY <1>4, <1>a, EcoSound
  <2>c. PICK c : c = [name |-> app.name, command |-> Or(app.layer.cmd, app.layer.script)]
    OBVIOUS
  <2>4. EcoLoad(s.file, s.profile, base)[i] = SpecOf(c, EcoResolved(app, s.profile, i - 1), base)
    BY <1>a, <2>c DEF EcoLoad
  <2> QED
    BY <1>1, <2>3, <2>4, <2>c, SpecService
<1> QED
  BY <1>3, <1>4, <1>a

LEMMA LoadedServices ==
    ASSUME NEW s \in Sources, NEW here PROVE Services(SpecsOf(s, here))
<1>n. PICK n : n = Len(s.file.apps)
  OBVIOUS
<1>b. PICK base : base = BaseDir(s, here)
  OBVIOUS
<1>0. n \in Nat /\ DOMAIN s.file.apps = 1..n
  BY <1>n, ApplyAssumption
<1>1. CASE s.toml
  <2>a. PICK all : all = [i \in 1..n |-> SpecOf(s.file.apps[i],
                              Resolved(s.file.apps[i], s.file.defaults, s.profile, i - 1), base)]
    OBVIOUS
  <2>1. Listed(all) /\ Len(all) = n
    BY <1>0, <2>a, FunctionListed
  <2>2. Services(all)
    BY <1>0, <1>1, <2>a, <2>1, AppService DEF Services
  <2>3. \E places : SpecsOf(s, here) = Only(all, places)
    BY <1>0, <1>1, <1>b, <2>a DEF SpecsOf, Load
  <2> QED
    BY <2>2, <2>3, OnlyServices
<1>2. CASE ~s.toml
  <2>a. PICK all : all = EcoLoad(s.file, s.profile, base)
    OBVIOUS
  <2>1. DOMAIN all = 1..n /\ all = [i \in 1..n |-> all[i]]
    BY <1>0, <2>a DEF EcoLoad
  <2>2. Listed(all) /\ Len(all) = n
    BY <1>0, <2>1, FunctionListed
  <2>3. Services(all)
    BY <1>0, <1>2, <2>a, <2>2, AppService DEF Services
  <2> QED
    BY <1>2, <1>b, <2>a, <2>3 DEF SpecsOf
<1> QED
  BY <1>1, <1>2

\* So is what a client selects, and it can be ordered.
LEMMA SelectedServices ==
    ASSUME NEW s \in Sources, NEW opt PROVE Services(Selected(s, opt)) /\ Comparable(Selected(s, opt))
<1>1. \E places : Selected(s, opt) = Only(SpecsOf(s, opt.here), places)
  BY DEF Selected
<1>2. Services(Selected(s, opt))
  BY <1>1, LoadedServices, OnlyServices
<1>3. \A name \in ToSet(Alphabet) \cup {NONE} : Rank(name) \in Int
  BY ApplyAssumption DEF Rank, ToSet
<1> QED
  BY <1>2, <1>3 DEF Services, Service, Comparable

\* Ordered, they are the same services.
LEMMA OrderedServices ==
    ASSUME NEW specs, Services(specs), Comparable(specs)
    PROVE  Services(Ordered(specs)) /\ Len(Ordered(specs)) = Len(specs)
<1>1. PICK at, stuck :
        /\ Listed(Ordered(specs)) /\ Len(Ordered(specs)) = Len(specs)
        /\ StartOrder(specs, at, stuck)
        /\ \A p \in 1..Len(specs) : Ordered(specs)[p] = specs[at[p]]
  BY OrderedInOrder
<1> QED
  BY <1>1 DEF Services, StartOrder

\* Each service a client asks for is an instance of one of the file.
LEMMA DesiredInstances ==
    ASSUME NEW s \in Sources, NEW opt
    PROVE  LET want  == Desired(s, opt)
               specs == Ordered(Selected(s, opt))
           IN  /\ Listed(want) /\ Services(specs)
               /\ \E at : Clones(want, specs, at)
<1>1. Services(Ordered(Selected(s, opt)))
  BY SelectedServices, OrderedServices
<1>2. /\ Listed(Ordered(Selected(s, opt)))
      /\ \A k \in 1..Len(Ordered(Selected(s, opt))) : Ordered(Selected(s, opt))[k].instances \in Nat
  BY <1>1 DEF Services, Service
<1> QED
  BY <1>1, <1>2, ExpandedClones DEF Desired

\* Every service a client asks for is normal, whatever the file.
LEMMA DesiredNormal ==
    ASSUME NEW s \in Sources, NEW opt, NEW i \in DOMAIN Desired(s, opt)
    PROVE  Normal(Desired(s, opt)[i])
<1>1. PICK at : /\ Listed(Desired(s, opt)) /\ Services(Ordered(Selected(s, opt)))
                /\ Clones(Desired(s, opt), Ordered(Selected(s, opt)), at)
  BY DesiredInstances
<1>2. i \in 1..Len(Desired(s, opt))
  BY <1>1 DEF Listed
<1>3. /\ at[i][1] \in 1..Len(Ordered(Selected(s, opt)))
      /\ Desired(s, opt)[i] = Instance(Ordered(Selected(s, opt))[at[i][1]], at[i][2] - 1)
  BY <1>1, <1>2 DEF Clones
<1> QED
  BY <1>1, <1>3, InstanceService DEF Services

\* What a client asks for is a list of services with different names.
LEMMA DesiredNamed ==
    ASSUME NEW s \in Sources, NEW opt \in Options, Planable(s, opt)
    PROVE  LET want == Desired(s, opt)
           IN  /\ Len(want) \in Nat /\ DOMAIN want = 1..Len(want)
               /\ \A i, j \in DOMAIN want : want[i].name = want[j].name => i = j
<1>1. Len(Desired(s, opt)) \in Nat /\ DOMAIN Desired(s, opt) = 1..Len(Desired(s, opt))
  BY DesiredInstances DEF Listed
<1>2. \A i, j \in DOMAIN Desired(s, opt) :
         Desired(s, opt)[i].name = Desired(s, opt)[j].name => i = j
  BY DEF Planable, Expandable, Desired
<1> QED
  BY <1>1, <1>2

-----------------------------------------------------------------------------
(* Plans.                                                                  *)

\* A deletion is of a service that is not asked for, anything else of one that is.
Fits(want, a) ==
    /\ a = [spec |-> a.spec, name |-> a.name, do |-> a.do]
    /\ \/ a.do = "delete" /\ a.name \notin NamesOf(want)
       \/ /\ a.do \in {"noop", "start", "restart", "recreate"}
          /\ \E i \in DOMAIN want : a.spec = want[i] /\ a.name = want[i].name

PlanOK(want, plan) == Listed(plan) /\ \A i \in 1..Len(plan) : Fits(want, plan[i])

Pending(plan, n, dos) == \E i \in 1..Len(plan) : plan[i].name = n /\ plan[i].do \in dos

\* A plan without its first action.
LEMMA Tails ==
    ASSUME NEW plan, Listed(plan), plan # <<>>
    PROVE  /\ Len(plan) > 0 /\ Head(plan) = plan[1]
           /\ Listed(Tail(plan)) /\ Len(Tail(plan)) = Len(plan) - 1
           /\ \A i \in 1..(Len(plan) - 1) : Tail(plan)[i] = plan[i + 1]
<1>s. PICK S : S = {plan[i] : i \in 1..Len(plan)}
  OBVIOUS
<1>1. plan \in Seq(S)
  BY <1>s DEF Listed
<1>2. Len(plan) > 0 /\ Head(plan) = plan[1]
  BY <1>1, EmptySeq, LenProperties
<1>3. /\ Tail(plan) \in Seq(S) /\ Len(Tail(plan)) = Len(plan) - 1
      /\ \A i \in 1..(Len(plan) - 1) : Tail(plan)[i] = plan[i + 1]
  BY <1>1, HeadTailProperties
<1>4. Listed(Tail(plan))
  BY <1>3, LenProperties DEF Listed
<1> QED
  BY <1>2, <1>3, <1>4

\* The actions of the rest fit as they did.
LEMMA TailFits ==
    ASSUME NEW plan, NEW want, PlanOK(want, plan), plan # <<>>
    PROVE  PlanOK(want, Tail(plan)) /\ Fits(want, Head(plan))
  BY Tails DEF PlanOK

\* What was pending still is, unless it was the first.
LEMMA TailPending ==
    ASSUME NEW plan, Listed(plan), plan # <<>>, NEW n, NEW dos, Pending(plan, n, dos)
    PROVE  \/ Pending(Tail(plan), n, dos)
           \/ Head(plan).name = n /\ Head(plan).do \in dos
<1>1. PICK i \in 1..Len(plan) : plan[i].name = n /\ plan[i].do \in dos
  BY DEF Pending
<1>2. CASE i = 1
  BY <1>1, <1>2, Tails
<1>3. CASE i # 1
  <2>1. /\ i - 1 \in 1..(Len(plan) - 1) /\ (i - 1) + 1 = i
        /\ Len(Tail(plan)) = Len(plan) - 1
    BY <1>3, Tails DEF Listed
  <2>2. Tail(plan)[i - 1] = plan[i]
    BY <2>1, Tails
  <2> QED
    BY <1>1, <2>1, <2>2 DEF Pending
<1> QED
  BY <1>2, <1>3

\* The plan after the first of the two requests of a recreation.
Deleted(plan) == <<[Head(plan) EXCEPT !.do = "start"]>> \o Tail(plan)

\* Only its first action is another one.
LEMMA DeletedElements ==
    ASSUME NEW plan, Listed(plan), plan # <<>>
    PROVE  /\ Listed(Deleted(plan)) /\ Len(Deleted(plan)) = Len(plan)
           /\ Deleted(plan)[1] = [Head(plan) EXCEPT !.do = "start"]
           /\ \A i \in 2..Len(plan) : Deleted(plan)[i] = plan[i]
           /\ Deleted(plan) # <<>>
<1>h. PICK h : h = [Head(plan) EXCEPT !.do = "start"]
  OBVIOUS
<1>t. PICK t : t = Tail(plan)
  OBVIOUS
<1>1. /\ Len(plan) > 0 /\ Len(plan) \in Nat /\ Listed(t) /\ Len(t) = Len(plan) - 1
      /\ \A i \in 1..(Len(plan) - 1) : t[i] = plan[i + 1]
  BY <1>t, Tails DEF Listed
<1>s. PICK S : S = {h} \cup {t[i] : i \in 1..Len(t)}
  OBVIOUS
<1>2. <<h>> \in Seq(S) /\ t \in Seq(S)
  BY <1>s, <1>1 DEF Listed
<1>q. PICK q : q = <<h>> \o t
  OBVIOUS
<1>3. q \in Seq(S) /\ Len(q) = Len(plan) /\ q[1] = h
  BY <1>1, <1>2, <1>q
<1>4. ASSUME NEW i \in 2..Len(plan) PROVE q[i] = plan[i]
  <2>1. i - 1 \in 1..(Len(plan) - 1) /\ (i - 1) + 1 = i
    BY <1>1
  <2>2. q[i] = t[i - 1]
    BY <1>1, <1>2, <1>q
  <2> QED
    BY <1>1, <2>1, <2>2
<1>5. Listed(q) /\ q # <<>>
  BY <1>1, <1>3 DEF Listed
<1> QED
  BY <1>h, <1>t, <1>q, <1>3, <1>4, <1>5 DEF Deleted

\* It fits as the plan did, and the service is still to be started.
LEMMA DeletedFits ==
    ASSUME NEW plan, NEW want, PlanOK(want, plan), plan # <<>>, Head(plan).do = "recreate"
    PROVE  PlanOK(want, Deleted(plan)) /\ Pending(Deleted(plan), Head(plan).name, {"start", "recreate"})
<1>l. Listed(plan) /\ Len(plan) \in Nat
  BY DEF PlanOK, Listed
<1>f. Fits(want, Head(plan))
  BY TailFits
<1>h. PICK h : h = [Head(plan) EXCEPT !.do = "start"]
  OBVIOUS
<1>1. /\ Head(plan) = [spec |-> Head(plan).spec, name |-> Head(plan).name, do |-> Head(plan).do]
      /\ \E i \in DOMAIN want : Head(plan).spec = want[i] /\ Head(plan).name = want[i].name
  BY <1>f DEF Fits
<1>2. h = [spec |-> Head(plan).spec, name |-> Head(plan).name, do |-> "start"]
  BY <1>1, <1>h
<1>3. Fits(want, h)
  BY <1>1, <1>2 DEF Fits
<1>4. /\ Listed(Deleted(plan)) /\ Len(Deleted(plan)) = Len(plan) /\ Deleted(plan)[1] = h
      /\ \A i \in 2..Len(plan) : Deleted(plan)[i] = plan[i]
      /\ Len(plan) > 0
  BY <1>h, <1>l, Tails, DeletedElements
<1>5. ASSUME NEW i \in 1..Len(Deleted(plan)) PROVE Fits(want, Deleted(plan)[i])
  <2>1. CASE i = 1
    BY <1>3, <1>4, <2>1
  <2>2. CASE i # 1
    BY <1>l, <1>4, <2>2 DEF PlanOK
  <2> QED
    BY <2>1, <2>2
<1>6. Deleted(plan)[1].name = Head(plan).name /\ Deleted(plan)[1].do = "start"
  BY <1>2, <1>4
<1>7. 1 \in 1..Len(Deleted(plan))
  BY <1>4, <1>l
<1> QED
  BY <1>4, <1>5, <1>6, <1>7 DEF PlanOK, Pending

\* What was pending still is: a start takes the place of the recreation.
LEMMA DeletedPending ==
    ASSUME NEW plan, NEW want, PlanOK(want, plan), plan # <<>>, Head(plan).do = "recreate",
           NEW n, NEW dos, Pending(plan, n, dos), "recreate" \in dos => "start" \in dos
    PROVE  Pending(Deleted(plan), n, dos)
<1>l. Listed(plan) /\ Len(plan) \in Nat
  BY DEF PlanOK, Listed
<1>f. Fits(want, Head(plan))
  BY TailFits
<1>1. PICK i \in 1..Len(plan) : plan[i].name = n /\ plan[i].do \in dos
  BY DEF Pending
<1>2. /\ Len(Deleted(plan)) = Len(plan) /\ Deleted(plan)[1] = [Head(plan) EXCEPT !.do = "start"]
      /\ \A k \in 2..Len(plan) : Deleted(plan)[k] = plan[k]
      /\ Head(plan) = plan[1]
  BY <1>l, Tails, DeletedElements
<1>3. CASE i = 1
  <2>1. Deleted(plan)[1].name = n /\ Deleted(plan)[1].do = "start" /\ "start" \in dos
    <3>1. Head(plan) = [spec |-> Head(plan).spec, name |-> Head(plan).name, do |-> Head(plan).do]
      BY <1>f DEF Fits
    <3>2. Deleted(plan)[1] = [spec |-> Head(plan).spec, name |-> Head(plan).name, do |-> "start"]
      BY <1>2, <3>1
    <3> QED
      BY <1>1, <1>2, <1>3, <3>2
  <2> QED
    BY <1>2, <1>3, <2>1 DEF Pending
<1>4. CASE i # 1
  <2>1. Deleted(plan)[i] = plan[i]
    BY <1>l, <1>2, <1>4
  <2> QED
    BY <1>1, <1>2, <2>1 DEF Pending
<1> QED
  BY <1>3, <1>4

\* A finite set in some order: each element has its place.
LEMMA InOrder ==
    ASSUME NEW S, IsFiniteSet(S)
    PROVE  /\ Cardinality(S) \in Nat
           /\ SetToSeq(S) \in [1..Cardinality(S) -> S]
           /\ \A x \in S : \E i \in 1..Cardinality(S) : SetToSeq(S)[i] = x
<1>n. PICK n : n = Cardinality(S)
  OBVIOUS
<1>1. n \in Nat /\ ExistsBijection(1..n, S)
  BY <1>n, FS_CardinalityType
<1>2. \E f \in [1..n -> S] : IsInjective(f)
  BY <1>1 DEF ExistsBijection, Bijection, Injection
<1>o. PICK o : o = SetToSeq(S)
  OBVIOUS
<1>3. o \in [1..n -> S] /\ IsInjective(o)
  BY <1>2, <1>n, <1>o DEF SetToSeq
<1>4. o \in Injection(1..n, S)
  BY <1>3 DEF Injection
<1>5. Cardinality(1..n) = n
  BY <1>1, FS_Interval
<1>6. o \in Surjection(1..n, S)
  BY <1>4, <1>5, <1>n, FS_Injection
<1>7. \A x \in S : \E i \in 1..n : o[i] = x
  BY <1>6 DEF Surjection
<1> QED
  BY <1>1, <1>3, <1>7, <1>n, <1>o

\* Planning: an action for each service, in their order, then the deletions.
Stale(want, prune) == IF prune THEN DOMAIN procs \ NamesOf(want) ELSE {}
Drop(n) == [spec |-> NONE, name |-> n, do |-> "delete"]

\* Each service has its action and each stale name its deletion, and there is nothing else.
LEMMA Planned ==
    ASSUME NEW want, Len(want) \in Nat, DOMAIN want = 1..Len(want),
           IsFiniteSet(DOMAIN procs), NEW prune
    PROVE  LET plan == PlanOf(want, prune)
           IN  /\ Listed(plan)
               /\ \A i \in 1..Len(want) : i \in 1..Len(plan) /\ plan[i] = PlanFor(want[i])
               /\ \A i \in 1..Len(plan) :
                     i \in 1..Len(want) \/ \E n \in Stale(want, prune) : plan[i] = Drop(n)
               /\ \A n \in Stale(want, prune) : \E i \in 1..Len(plan) : plan[i] = Drop(n)
<1> DEFINE stale == IF prune THEN DOMAIN procs \ NamesOf(want) ELSE {}
           order == SetToSeq(stale)
           drop  == [n \in stale |-> [spec |-> NONE, name |-> n, do |-> "delete"]]
<1>d. PlanOf(want, prune) = [i \in DOMAIN want |-> PlanFor(want[i])]
                            \o [i \in DOMAIN order |-> drop[order[i]]]
  BY DEF PlanOf
<1>s. stale = Stale(want, prune)
  BY DEF Stale
<1>o. order = SetToSeq(stale)
  OBVIOUS
<1>e. \A n \in stale : drop[n] = Drop(n)
  BY DEF Drop
<1> HIDE DEF stale, order, drop
<1>m. PICK m : m = Cardinality(stale)
  OBVIOUS
<1>a. PICK a : a = [i \in 1..Len(want) |-> PlanFor(want[i])]
  OBVIOUS
<1>b. PICK b : b = [i \in 1..m |-> Drop(order[i])]
  OBVIOUS
<1>p. PICK plan : plan = a \o b
  OBVIOUS
<1>1. IsFiniteSet(stale)
  BY <1>s, FS_Subset, FS_EmptySet DEF Stale
<1>2. /\ m \in Nat /\ order \in [1..m -> stale]
      /\ \A n \in stale : \E i \in 1..m : order[i] = n
  BY <1>1, <1>m, <1>o, InOrder
<1>4. PlanOf(want, prune) = plan
  <2>1. [i \in DOMAIN order |-> drop[order[i]]] = b
    BY <1>2, <1>e, <1>b
  <2>2. [i \in DOMAIN want |-> PlanFor(want[i])] = a
    BY <1>a
  <2> QED
    BY <2>1, <2>2, <1>d, <1>p, Zenon
<1>t. PICK S : S = {a[i] : i \in 1..Len(want)} \cup {b[i] : i \in 1..m}
  OBVIOUS
<1>5. a \in Seq(S) /\ b \in Seq(S) /\ Len(a) = Len(want) /\ Len(b) = m
  <2>1. a \in [1..Len(want) -> S]
    BY <1>a, <1>t
  <2>2. b \in [1..m -> S]
    BY <1>b, <1>t
  <2>3. a \in Seq(S) /\ b \in Seq(S)
    <3>1. \A n \in Nat : [1..n -> S] \subseteq Seq(S)
      BY SeqDef, Zenon
    <3> QED
      BY <2>1, <2>2, <3>1, <1>2
  <2>4. DOMAIN a = 1..Len(want) /\ DOMAIN b = 1..m
    BY <2>1, <2>2
  <2> QED
    BY <2>3, <2>4, <1>2, LenProperties
<1>6. /\ plan \in Seq(S) /\ Len(plan) = Len(want) + m
      /\ \A i \in 1..Len(plan) : plan[i] = IF i <= Len(a) THEN a[i] ELSE b[i - Len(a)]
  BY <1>5, <1>p, ConcatProperties
<1>7. Listed(plan)
  BY <1>6, LenProperties DEF Listed
<1>8. \A i \in 1..Len(want) : i \in 1..Len(plan) /\ plan[i] = PlanFor(want[i])
  <2>1. \A i \in 1..Len(want) : i \in 1..Len(plan) /\ plan[i] = a[i]
    BY <1>2, <1>5, <1>6
  <2> QED
    BY <2>1, <1>a
<1>9. ASSUME NEW i \in 1..Len(plan), i \notin 1..Len(want)
      PROVE  \E n \in stale : plan[i] = Drop(n)
  <2>1. i - Len(want) \in 1..m /\ plan[i] = b[i - Len(want)]
    BY <1>2, <1>5, <1>6, <1>9
  <2>2. plan[i] = Drop(order[i - Len(want)]) /\ order[i - Len(want)] \in stale
    BY <2>1, <1>2, <1>b
  <2> QED
    BY <2>2
<1>10. ASSUME NEW n \in stale PROVE \E i \in 1..Len(plan) : plan[i] = Drop(n)
  <2>1. PICK k \in 1..m : order[k] = n
    BY <1>2
  <2>2. Len(want) + k \in 1..Len(plan) /\ plan[Len(want) + k] = b[k]
    <3>1. /\ Len(want) + k \in 1..Len(plan) /\ ~(Len(want) + k <= Len(a))
          /\ (Len(want) + k) - Len(a) = k
      BY <1>2, <1>5, <1>6
    <3> QED
      BY <3>1, <1>6
  <2>3. plan[Len(want) + k] = Drop(n)
    BY <2>1, <2>2, <1>b
  <2> QED
    BY <2>2, <2>3
<1> QED
  BY <1>4, <1>7, <1>8, <1>9, <1>10, <1>s, Zenon

-----------------------------------------------------------------------------
(* The invariant: what the variables hold.                                 *)

TableOK(t) ==
    /\ t = [n \in DOMAIN t |-> t[n]] /\ IsFiniteSet(DOMAIN t)
    /\ \A n \in DOMAIN t : Filed(n, t[n])

\* A client that has planned has something to plan from, and acts on what it asked for.
ClientOK(s, x) ==
    /\ x = [pc |-> x.pc, opt |-> x.opt, plan |-> x.plan, failed |-> x.failed]
    /\ x.pc \in {"idle", "running", "done", "refused"}
    /\ x.opt \in Options /\ x.failed \in BOOLEAN
    /\ x.pc \in {"running", "done"} => Planable(s, x.opt)
    /\ x.plan # <<>> => x.pc = "running"
    /\ PlanOK(Desired(s, x.opt), x.plan)

ClientsOK ==
    /\ client = [c \in Clients |-> client[c]]
    /\ \A c \in Clients : ClientOK(src, client[c])

\* A bundle holds a service as it was, all but its environment.
BundleOK ==
    bundle # NONE =>
        /\ Normal(bundle.spec)
        /\ \A f \in Configured \ {"env"} : Started(bundle.spec)[f] = bundle.of[f]

Typed ==
    /\ src \in Sources /\ TableOK(procs) /\ ClientsOK
    /\ fresh \subseteq Clients /\ BundleOK /\ mishaps \in 0..MaxMishaps

\* The table keeps its shape when an entry is added, removed or marked.
LEMMA FiledStarted ==
    ASSUME NEW x, Normal(x)
    PROVE  Filed(x.name, [conf |-> Started(x), up |-> TRUE])
<1>1. Started(x) = x
  BY StartedKeeps
<1> QED
  BY <1>1 DEF Filed

\* An added entry replaces none of the others.
LEMMA WithFiled ==
    ASSUME TableOK(procs), NEW n, NEW p, Filed(n, p)
    PROVE  /\ TableOK(With(n, p)) /\ DOMAIN With(n, p) = DOMAIN procs \cup {n}
           /\ With(n, p)[n] = p
           /\ \A m \in DOMAIN procs \ {n} : With(n, p)[m] = procs[m]
<1>t. PICK t : t = With(n, p)
  OBVIOUS
<1>1. /\ DOMAIN t = DOMAIN procs \cup {n} /\ t[n] = p /\ t = [m \in DOMAIN t |-> t[m]]
      /\ \A m \in DOMAIN procs \ {n} : t[m] = procs[m]
  BY <1>t DEF With
<1>2. IsFiniteSet(DOMAIN t)
  BY <1>1, FS_AddElement DEF TableOK
<1>3. \A m \in DOMAIN t : Filed(m, t[m])
  BY <1>1 DEF TableOK
<1> QED
  BY <1>t, <1>1, <1>2, <1>3 DEF TableOK

\* A removal leaves the others as they are,
LEMMA WithoutFiled ==
    ASSUME TableOK(procs), NEW n
    PROVE  /\ TableOK(Without(n)) /\ DOMAIN Without(n) = DOMAIN procs \ {n}
           /\ \A m \in DOMAIN procs \ {n} : Without(n)[m] = procs[m]
<1>t. PICK t : t = Without(n)
  OBVIOUS
<1>1. /\ DOMAIN t = DOMAIN procs \ {n} /\ t = [m \in DOMAIN t |-> t[m]]
      /\ \A m \in DOMAIN procs \ {n} : t[m] = procs[m]
  BY <1>t DEF Without
<1>2. IsFiniteSet(DOMAIN t)
  BY <1>1, FS_RemoveElement DEF TableOK
<1>3. \A m \in DOMAIN t : Filed(m, t[m])
  BY <1>1 DEF TableOK
<1> QED
  BY <1>t, <1>1, <1>2, <1>3 DEF TableOK

\* and so does a mark, which leaves the configuration of its entry, too.
LEMMA MarkedFiled ==
    ASSUME TableOK(procs), NEW n \in DOMAIN procs, NEW b \in BOOLEAN
    PROVE  LET t == [procs EXCEPT ![n].up = b]
           IN  /\ TableOK(t) /\ DOMAIN t = DOMAIN procs
               /\ t[n] = [conf |-> procs[n].conf, up |-> b]
               /\ \A m \in DOMAIN procs \ {n} : t[m] = procs[m]
<1>t. PICK t : t = [procs EXCEPT ![n].up = b]
  OBVIOUS
<1>0. procs = [m \in DOMAIN procs |-> procs[m]] /\ Filed(n, procs[n])
  BY DEF TableOK
<1>1. /\ DOMAIN t = DOMAIN procs /\ t = [m \in DOMAIN t |-> t[m]]
      /\ \A m \in DOMAIN procs \ {n} : t[m] = procs[m]
      /\ t[n] = [procs[n] EXCEPT !.up = b]
  BY <1>t, <1>0
<1>2. procs[n] = [conf |-> procs[n].conf, up |-> procs[n].up]
  BY <1>0 DEF Filed
<1>3. t[n] = [conf |-> procs[n].conf, up |-> b]
  BY <1>1, <1>2
<1>4. Filed(n, t[n])
  BY <1>0, <1>3 DEF Filed
<1>5. \A m \in DOMAIN t : Filed(m, t[m])
  BY <1>1, <1>4 DEF TableOK
<1> QED
  BY <1>t, <1>1, <1>3, <1>5 DEF TableOK

\* What a client is after one of its actions.
LEMMA Over1Step ==
    ASSUME ClientsOK, NEW c \in Clients, NEW f \in BOOLEAN, client[c].plan # <<>>, Over1(c, f)
    PROVE  /\ client' = [d \in Clients |-> client'[d]]
           /\ \A d \in Clients \ {c} : client'[d] = client[d]
           /\ client'[c] = [pc |-> client[c].pc, opt |-> client[c].opt,
                            plan |-> Tail(client[c].plan), failed |-> client[c].failed \/ f]
           /\ ClientOK(src, client'[c])
<1>x. PICK x : x = client[c]
  OBVIOUS
<1>y. PICK y : y = client'[c]
  OBVIOUS
<1>0. /\ x = [pc |-> x.pc, opt |-> x.opt, plan |-> x.plan, failed |-> x.failed]
      /\ client = [d \in Clients |-> client[d]] /\ ClientOK(src, x)
  BY <1>x DEF ClientsOK, ClientOK
<1>1. /\ client' = [d \in Clients |-> client'[d]]
      /\ \A d \in Clients \ {c} : client'[d] = client[d]
      /\ y = [[x EXCEPT !.plan = Tail(@)] EXCEPT !.failed = @ \/ f]
  BY <1>0, <1>x, <1>y DEF Over1
<1>2. y = [pc |-> x.pc, opt |-> x.opt, plan |-> Tail(x.plan), failed |-> x.failed \/ f]
  BY <1>0, <1>1
<1>3. PlanOK(Desired(src, x.opt), Tail(x.plan))
  BY <1>0, <1>x, TailFits DEF ClientOK
<1>4. (x.failed \/ f) \in BOOLEAN
  OBVIOUS
<1>5. x.pc = "running"
  BY <1>0, <1>x DEF ClientOK
<1>6. ClientOK(src, y)
  BY <1>0, <1>2, <1>3, <1>4, <1>5 DEF ClientOK
<1> QED
  BY <1>x, <1>y, <1>1, <1>2, <1>6

\* What a client is after the first of the two requests of a recreation.
LEMMA RecreateStep ==
    ASSUME ClientsOK, NEW c \in Clients, Recreate(c)
    PROVE  /\ client[c].plan # <<>> /\ Head(client[c].plan).do = "recreate"
           /\ client' = [d \in Clients |-> client'[d]]
           /\ \A d \in Clients \ {c} : client'[d] = client[d]
           /\ client'[c] = [pc |-> client[c].pc, opt |-> client[c].opt,
                            plan |-> Deleted(client[c].plan), failed |-> client[c].failed]
           /\ ClientOK(src, client'[c])
<1>x. PICK x : x = client[c]
  OBVIOUS
<1>y. PICK y : y = client'[c]
  OBVIOUS
<1>0. /\ x = [pc |-> x.pc, opt |-> x.opt, plan |-> x.plan, failed |-> x.failed]
      /\ client = [d \in Clients |-> client[d]] /\ ClientOK(src, x)
  BY <1>x DEF ClientsOK, ClientOK
<1>t. x.plan # <<>> /\ Head(x.plan).do = "recreate" /\ x.pc = "running"
  BY <1>x DEF Recreate, Todo
<1>p. PICK p : p = Deleted(x.plan)
  OBVIOUS
<1>1. client' = [client EXCEPT ![c].plan = <<[Head(@) EXCEPT !.do = "start"]>> \o Tail(@)]
  BY DEF Recreate
<1>2. client' = [client EXCEPT ![c] = [x EXCEPT !.plan = p]]
  BY <1>1, <1>p, <1>x DEF Deleted
<1>3. /\ client' = [d \in Clients |-> client'[d]]
      /\ \A d \in Clients \ {c} : client'[d] = client[d]
      /\ y = [x EXCEPT !.plan = p]
  BY <1>0, <1>y, <1>2
<1>4. y = [pc |-> x.pc, opt |-> x.opt, plan |-> p, failed |-> x.failed]
  BY <1>0, <1>3
<1>5. PlanOK(Desired(src, x.opt), p)
  BY <1>0, <1>t, <1>p, DeletedFits DEF ClientOK
<1>6. ClientOK(src, y)
  BY <1>0, <1>t, <1>4, <1>5 DEF ClientOK
<1> QED
  BY <1>x, <1>y, <1>t, <1>p, <1>3, <1>4, <1>6

\* The same, field by field.
LEMMA Over1Fields ==
    ASSUME Typed, NEW c \in Clients, NEW f \in BOOLEAN, client[c].plan # <<>>, Over1(c, f)
    PROVE  /\ \A d \in Clients \ {c} : client'[d] = client[d]
           /\ client'[c].plan = Tail(client[c].plan) /\ client'[c].pc = client[c].pc
           /\ client'[c].opt = client[c].opt
           /\ client'[c].failed = (client[c].failed \/ f)
<1>y. PICK y : y = [pc |-> client[c].pc, opt |-> client[c].opt,
                    plan |-> Tail(client[c].plan), failed |-> client[c].failed \/ f]
  OBVIOUS
<1>1. ClientsOK
  BY DEF Typed
<1>2. (\A d \in Clients \ {c} : client'[d] = client[d]) /\ client'[c] = y
  BY <1>1, <1>y, Over1Step
<1>3. /\ y.pc = client[c].pc /\ y.opt = client[c].opt /\ y.plan = Tail(client[c].plan)
      /\ y.failed = (client[c].failed \/ f)
  BY <1>y
<1> QED
  BY <1>2, <1>3

\* The same, field by field.
LEMMA RecreateFields ==
    ASSUME Typed, NEW c \in Clients, Recreate(c)
    PROVE  /\ client[c].plan # <<>> /\ Head(client[c].plan).do = "recreate"
           /\ \A d \in Clients \ {c} : client'[d] = client[d]
           /\ client'[c].plan = Deleted(client[c].plan) /\ client'[c].pc = client[c].pc
           /\ client'[c].opt = client[c].opt /\ client'[c].failed = client[c].failed
<1>y. PICK y : y = [pc |-> client[c].pc, opt |-> client[c].opt,
                    plan |-> Deleted(client[c].plan), failed |-> client[c].failed]
  OBVIOUS
<1>1. ClientsOK
  BY DEF Typed
<1>2. /\ \A d \in Clients \ {c} : client'[d] = client[d]
      /\ client'[c] = y
      /\ client[c].plan # <<>> /\ Head(client[c].plan).do = "recreate"
  BY <1>1, <1>y, RecreateStep
<1>3. /\ y.pc = client[c].pc /\ y.opt = client[c].opt /\ y.plan = Deleted(client[c].plan)
      /\ y.failed = client[c].failed
  BY <1>y
<1> QED
  BY <1>2, <1>3

\* What a client plans.
LEMMA PlanStep ==
    ASSUME Typed, NEW c \in Clients, Plan(c)
    PROVE  LET want == Desired(src, client[c].opt)
               plan == PlanOf(want, client[c].opt.prune)
           IN  /\ client[c].pc = "idle"
               /\ client' = [d \in Clients |-> client'[d]]
               /\ \A d \in Clients \ {c} : client'[d] = client[d]
               /\ client'[c].opt = client[c].opt
               /\ ClientOK(src, client'[c])
               /\ \/ client'[c].pc = "refused"
                  \/ client'[c].pc = "done" /\ want = <<>>
                  \/ client'[c].pc = "running" /\ want # <<>> /\ client'[c].plan = plan
               /\ client'[c].pc # "refused" => Planable(src, client[c].opt)
<1>x. PICK x : x = client[c]
  OBVIOUS
<1>y. PICK y : y = client'[c]
  OBVIOUS
<1>w. PICK want : want = Desired(src, x.opt)
  OBVIOUS
<1>p. PICK plan : plan = PlanOf(want, x.opt.prune)
  OBVIOUS
<1>0. /\ x = [pc |-> x.pc, opt |-> x.opt, plan |-> x.plan, failed |-> x.failed]
      /\ client = [d \in Clients |-> client[d]] /\ ClientOK(src, x)
      /\ x.pc = "idle" /\ src \in Sources
  BY <1>x DEF Typed, ClientsOK, ClientOK, Plan
<1>i. x.plan = <<>> /\ x.opt \in Options
  BY <1>0 DEF ClientOK
<1>1. CASE ~Planable(src, x.opt)
  <2>1. client' = [client EXCEPT ![c].pc = "refused"]
    BY <1>1, <1>x DEF Plan
  <2>2. /\ client' = [d \in Clients |-> client'[d]]
        /\ \A d \in Clients \ {c} : client'[d] = client[d]
        /\ y = [x EXCEPT !.pc = "refused"]
    BY <1>0, <1>x, <1>y, <2>1
  <2>3. y = [pc |-> "refused", opt |-> x.opt, plan |-> x.plan, failed |-> x.failed]
    BY <1>0, <2>2
  <2>4. ClientOK(src, y)
    BY <1>0, <1>i, <2>3 DEF ClientOK
  <2> QED
    BY <1>0, <1>x, <1>y, <2>2, <2>3, <2>4
<1>2. CASE Planable(src, x.opt)
  <2>q. PICK q : q = IF want = <<>> THEN <<>> ELSE plan
    OBVIOUS
  <2>r. PICK r : r = IF want = <<>> THEN "done" ELSE "running"
    OBVIOUS
  <2>1. client' = [client EXCEPT ![c].pc = r, ![c].plan = q]
    BY <1>2, <1>x, <1>w, <1>p, <2>q, <2>r DEF Plan
  <2>2. /\ client' = [d \in Clients |-> client'[d]]
        /\ \A d \in Clients \ {c} : client'[d] = client[d]
        /\ y = [[x EXCEPT !.pc = r] EXCEPT !.plan = q]
    BY <1>0, <1>x, <1>y, <2>1
  <2>3. y = [pc |-> r, opt |-> x.opt, plan |-> q, failed |-> x.failed]
    BY <1>0, <2>2
  <2>4. Len(want) \in Nat /\ DOMAIN want = 1..Len(want)
    BY <1>0, <1>2, <1>i, <1>w, DesiredNamed
  <2>5. PlanOK(want, plan)
    <3>1. IsFiniteSet(DOMAIN procs)
      BY DEF Typed, TableOK
    <3>2. /\ Listed(plan)
          /\ \A i \in 1..Len(plan) :
                \/ i \in 1..Len(want) /\ plan[i] = PlanFor(want[i])
                \/ \E n \in Stale(want, x.opt.prune) : plan[i] = Drop(n)
      BY <2>4, <3>1, <1>p, Planned
    <3>3. \A i \in 1..Len(want) : Fits(want, PlanFor(want[i]))
      BY <2>4 DEF Fits, PlanFor
    <3>4. \A n \in Stale(want, x.opt.prune) : Fits(want, Drop(n))
      BY DEF Fits, Drop, Stale
    <3> QED
      BY <3>2, <3>3, <3>4 DEF PlanOK
  <2>6. PlanOK(want, <<>>)
    <3>1. Len(<<>>) = 0 /\ <<>> = [i \in 1..0 |-> <<>>[i]]
      OBVIOUS
    <3> QED
      BY <3>1 DEF PlanOK, Listed
  <2>7. ClientOK(src, y)
    BY <1>0, <1>2, <1>i, <1>w, <2>q, <2>r, <2>3, <2>5, <2>6 DEF ClientOK
  <2> QED
    BY <1>0, <1>2, <1>x, <1>y, <1>w, <1>p, <2>q, <2>r, <2>2, <2>3, <2>7
<1> QED
  BY <1>1, <1>2

\* The clients are in order after a step of one that leaves it in order.
LEMMA ClientsAfter ==
    ASSUME ClientsOK, src' = src, NEW c \in Clients,
           client' = [d \in Clients |-> client'[d]],
           \A d \in Clients \ {c} : client'[d] = client[d], ClientOK(src, client'[c])
    PROVE  ClientsOK'
<1>1. ASSUME NEW d \in Clients PROVE ClientOK(src', client'[d])
  BY <1>1 DEF ClientsOK
<1> QED
  BY <1>1 DEF ClientsOK

\* What one request or exit does to the table.
LEMMA StartedTable ==
    ASSUME Typed, NEW c \in Clients, Todo(c, "start")
    PROVE  LET s == Head(client[c].plan).spec
               p == [conf |-> Started(s), up |-> TRUE]
           IN  /\ Filed(s.name, p) /\ Fingerprint(p.conf) = Fingerprint(s)
               /\ Head(client[c].plan).name = s.name
               /\ \E i \in DOMAIN Desired(src, client[c].opt) : s = Desired(src, client[c].opt)[i]
<1>s. PICK s : s = Head(client[c].plan).spec
  OBVIOUS
<1>o. PICK opt : opt = client[c].opt
  OBVIOUS
<1>1. /\ ClientOK(src, client[c]) /\ client[c].plan # <<>> /\ client[c].pc = "running"
      /\ Head(client[c].plan).do = "start" /\ src \in Sources
  BY DEF Typed, ClientsOK, Todo
<1>2. Fits(Desired(src, opt), Head(client[c].plan)) /\ Planable(src, opt) /\ opt \in Options
  BY <1>1, <1>o, TailFits DEF ClientOK
<1>3. PICK i \in DOMAIN Desired(src, opt) :
        s = Desired(src, opt)[i] /\ Head(client[c].plan).name = s.name
  BY <1>1, <1>2, <1>s DEF Fits
<1>4. Normal(s)
  BY <1>1, <1>2, <1>3, DesiredNormal
<1>5. Started(s) = s
  BY <1>4, StartedKeeps
<1>6. Filed(s.name, [conf |-> Started(s), up |-> TRUE])
  BY <1>4, FiledStarted
<1> QED
  BY <1>s, <1>o, <1>3, <1>5, <1>6

\* A bundle that can be written keeps what Typed says of it.
LEMMA ExportKeeps ==
    ASSUME Typed, NEW n \in DOMAIN procs, Export(n)
    PROVE  BundleOK'
<1>b. PICK b : b = bundle'
  OBVIOUS
<1>x. PICK x : x = procs[n].conf
  OBVIOUS
<1>y. PICK y : y = Redacted(x)
  OBVIOUS
<1>z. PICK z : z = Bundled(y)
  OBVIOUS
<1>u. PICK u : u = Unbundled(z)
  OBVIOUS
<1>1. b = [of |-> x, spec |-> u] /\ Bundles(z)
  BY <1>b, <1>x, <1>y, <1>z, <1>u DEF Export
<1>2. Normal(x)
  BY <1>x DEF Typed, TableOK, Filed
<1> DEFINE F == Configured \cup {"name", "stdout", "stderr"}
<1>3. F \subseteq DOMAIN x /\ x = [f \in DOMAIN x |-> x[f]]
  BY <1>2 DEF Normal
<1>4. /\ DOMAIN y = DOMAIN x /\ \A f \in DOMAIN x \ {"env", "pull_secret"} : y[f] = x[f]
      /\ y.pull_secret = IF x.pull_secret = NONE THEN NONE ELSE "<redacted>"
  BY <1>y, <1>3 DEF Redacted, Configured
<1>5. /\ DOMAIN z = DOMAIN y
      /\ \A f \in DOMAIN y \ {"stop_timeout_secs", "cluster_instances", "stdout", "stderr"} : z[f] = y[f]
      /\ z.stop_timeout_secs = AtLeast1(y.stop_timeout_secs)
      /\ z.cluster_instances = ClusterCount(y.cluster_instances)
  BY <1>z, <1>3, <1>4 DEF Bundled, Configured
<1>6. /\ DOMAIN u = DOMAIN z /\ u = [f \in DOMAIN u |-> u[f]]
      /\ \A f \in DOMAIN z \ {"stop_timeout_secs", "cluster_instances", "ready_timeout_secs"} : u[f] = z[f]
      /\ u.stop_timeout_secs = AtLeast1(z.stop_timeout_secs)
      /\ u.ready_timeout_secs = AtLeast1(z.ready_timeout_secs)
      /\ u.cluster_instances = IF z.cluster_mode THEN ClusterCount(z.cluster_instances) ELSE NONE
  BY <1>u, <1>3, <1>4, <1>5 DEF Unbundled, Configured
<1>7. /\ x.stop_timeout_secs \in Nat \ {0} /\ x.ready_timeout_secs \in Nat \ {0}
      /\ x.cluster_instances \in (Nat \ {0}) \cup {NONE}
  BY <1>2 DEF Normal
<1>8. /\ "stop_timeout_secs" \in F /\ "ready_timeout_secs" \in F /\ "cluster_instances" \in F
      /\ "pull_secret" \in F /\ "cluster_mode" \in F
  BY DEF Configured
<1>9. /\ y.stop_timeout_secs = x.stop_timeout_secs /\ y.ready_timeout_secs = x.ready_timeout_secs
      /\ y.cluster_instances = x.cluster_instances /\ z.ready_timeout_secs = y.ready_timeout_secs
      /\ z.pull_secret = y.pull_secret /\ u.pull_secret = z.pull_secret
  BY <1>3, <1>4, <1>5, <1>6, <1>8
<1>10. u.stop_timeout_secs = x.stop_timeout_secs /\ u.ready_timeout_secs = x.ready_timeout_secs
  BY <1>5, <1>6, <1>7, <1>9 DEF AtLeast1
<1>11. u.cluster_instances = x.cluster_instances
  <2>1. z.cluster_instances = x.cluster_instances
    BY <1>5, <1>7, <1>9, ApplyAssumption DEF ClusterCount, AtLeast1
  <2>2. z.cluster_instances # NONE => z.cluster_mode
    BY <1>1 DEF Bundles
  <2> QED
    BY <1>6, <1>7, <2>1, <2>2, ApplyAssumption DEF ClusterCount, AtLeast1
<1>12. u.pull_secret = x.pull_secret
  BY <1>1, <1>4, <1>9 DEF Bundles
<1>13. ASSUME NEW f \in Configured \ {"env"} PROVE u[f] = x[f]
  <2>1. f \in DOMAIN x /\ f \notin {"stdout", "stderr"}
    BY <1>3, <1>13 DEF Configured
  <2>2. CASE f \in {"stop_timeout_secs", "ready_timeout_secs", "cluster_instances", "pull_secret"}
    BY <1>10, <1>11, <1>12, <2>2
  <2>3. CASE f \notin {"stop_timeout_secs", "ready_timeout_secs", "cluster_instances", "pull_secret"}
    BY <1>4, <1>5, <1>6, <1>13, <2>1, <2>3
  <2> QED
    BY <2>2, <2>3
<1>14. Normal(u)
  BY <1>3, <1>4, <1>5, <1>6, <1>7, <1>10, <1>11 DEF Normal
<1>15. Started(u) = u
  BY <1>14, StartedKeeps
<1>16. b.spec = u /\ b.of = x
  BY <1>1
<1> QED
  BY <1>13, <1>14, <1>15, <1>16, <1>b DEF BundleOK

\* Every file, table and set of options to begin with is in order.
LEMMA TypedInit == Init => Typed
<1> SUFFICES ASSUME Init PROVE Typed
  OBVIOUS
<1>1. src \in Sources /\ fresh \subseteq Clients /\ BundleOK /\ mishaps \in 0..MaxMishaps
  BY ApplyAssumption DEF Init, BundleOK
<1>2. TableOK(procs)
  BY ApplyAssumption DEF Init, TableOK
<1>3. ASSUME NEW c \in Clients PROVE ClientOK(src, client[c])
  <2>1. PICK o \in Options :
          client[c] = [pc |-> "idle", opt |-> o, plan |-> <<>>, failed |-> FALSE]
    BY DEF Init
  <2>2. Len(<<>>) = 0 /\ <<>> = [i \in 1..0 |-> <<>>[i]]
    OBVIOUS
  <2>3. PlanOK(Desired(src, o), <<>>)
    BY <2>2 DEF PlanOK, Listed
  <2> QED
    BY <2>1, <2>3 DEF ClientOK
<1>4. client = [c \in Clients |-> client[c]]
  BY DEF Init
<1> QED
  BY <1>1, <1>2, <1>3, <1>4 DEF Typed, ClientsOK

\* After an action that is over the client is as Over1Step says.
LEMMA OverTyped ==
    ASSUME Typed, NEW c \in Clients, NEW f \in BOOLEAN, client[c].plan # <<>>, Over1(c, f),
           src' = src
    PROVE  ClientsOK'
  BY Over1Step, ClientsAfter DEF Typed

\* Every request, exit, export and import keeps the shape of the variables.
LEMMA TypedStep == Typed /\ [Next]_vars => Typed'
<1> SUFFICES ASSUME Typed, [Next]_vars PROVE Typed'
  OBVIOUS
<1>t. /\ src \in Sources /\ TableOK(procs) /\ ClientsOK
      /\ fresh \subseteq Clients /\ BundleOK /\ mishaps \in 0..MaxMishaps
      /\ MaxMishaps \in Nat
  BY ApplyAssumption DEF Typed
<1>1. CASE UNCHANGED vars
  <2>1. /\ src' = src /\ procs' = procs /\ client' = client /\ fresh' = fresh
        /\ bundle' = bundle /\ mishaps' = mishaps
    BY <1>1 DEF vars
  <2> QED
    BY <1>t, <2>1 DEF Typed, ClientsOK, BundleOK
<1>2. ASSUME NEW c \in Clients, Act(c) PROVE Typed'
  <2>a. src' = src /\ bundle' = bundle
    BY <1>2 DEF Act, Plan, Noop, Start, StartRefused, StartFails, Restart, RestartFails,
                Delete, Recreate, Missing, Finish
  <2>b. BundleOK'
    BY <1>t, <2>a DEF BundleOK
  <2>m. mishaps' \in 0..MaxMishaps
    <3>1. mishaps' = mishaps \/ (mishaps < MaxMishaps /\ mishaps' = mishaps + 1)
      BY <1>2 DEF Act, Plan, Noop, Start, StartRefused, StartFails, Restart, RestartFails,
                  Delete, Recreate, Missing, Finish
    <3> QED
      BY <1>t, <3>1
  <2>f. fresh' \subseteq Clients
    BY <1>2, <1>t DEF Act, Plan, Noop, Start, StartRefused, StartFails, Restart, RestartFails,
                Delete, Recreate, Missing, Finish, Changes
  <2>n. \A do : Todo(c, do) => client[c].plan # <<>>
    BY DEF Todo
  <2>1. ClientsOK'
    <3>1. CASE Plan(c)
      BY <1>t, <2>a, <3>1, PlanStep, ClientsAfter
    <3>2. CASE Recreate(c)
      BY <1>t, <2>a, <3>2, RecreateStep, ClientsAfter
    <3>3. CASE Finish(c)
      <4>x. PICK x : x = client[c]
        OBVIOUS
      <4>1. /\ x = [pc |-> x.pc, opt |-> x.opt, plan |-> x.plan, failed |-> x.failed]
            /\ client = [d \in Clients |-> client[d]] /\ ClientOK(src, x)
            /\ x.pc = "running" /\ x.plan = <<>>
        BY <1>t, <3>3, <4>x DEF ClientsOK, ClientOK, Finish
      <4>2. /\ client' = [d \in Clients |-> client'[d]]
            /\ \A d \in Clients \ {c} : client'[d] = client[d]
            /\ client'[c] = [x EXCEPT !.pc = "done"]
        BY <3>3, <4>x, <4>1 DEF Finish
      <4>3. client'[c] = [pc |-> "done", opt |-> x.opt, plan |-> x.plan, failed |-> x.failed]
        BY <4>1, <4>2
      <4>4. ClientOK(src, client'[c])
        BY <4>1, <4>3 DEF ClientOK
      <4> QED
        BY <1>t, <2>a, <4>2, <4>4, ClientsAfter
    <3>4. CASE \E f \in BOOLEAN : Over1(c, f) /\ client[c].plan # <<>>
      BY <2>a, <3>4, OverTyped
    <3> QED
      BY <1>2, <2>n, <3>1, <3>2, <3>3, <3>4
         DEF Act, Noop, Start, StartRefused, StartFails, Restart, RestartFails, Delete, Missing
  <2>2. TableOK(procs')
    <3>1. CASE procs' = procs
      BY <1>t, <3>1
    <3>2. CASE Start(c)
      <4>s. PICK s : s = Head(client[c].plan).spec
        OBVIOUS
      <4>1. Todo(c, "start") /\ procs' = With(s.name, [conf |-> Started(s), up |-> TRUE])
        BY <3>2, <4>s DEF Start, Changes
      <4>2. Filed(s.name, [conf |-> Started(s), up |-> TRUE])
        BY <4>1, <4>s, StartedTable
      <4> QED
        BY <1>t, <4>1, <4>2, WithFiled
    <3>3. CASE Restart(c)
      BY <1>t, <3>3, MarkedFiled DEF Restart, Changes
    <3>4. CASE RestartFails(c)
      BY <1>t, <3>4, MarkedFiled DEF RestartFails, Changes
    <3>5. CASE Delete(c) \/ Recreate(c)
      BY <1>t, <3>5, WithoutFiled DEF Delete, Recreate, Changes
    <3> QED
      BY <1>2, <3>1, <3>2, <3>3, <3>4, <3>5
         DEF Act, Plan, Noop, StartRefused, StartFails, Missing, Finish
  <2> QED
    BY <1>t, <2>a, <2>b, <2>m, <2>f, <2>1, <2>2 DEF Typed
<1>3. ASSUME NEW n \in DOMAIN procs, Exits(n) PROVE Typed'
  <2>1. /\ src' = src /\ client' = client /\ bundle' = bundle
        /\ mishaps' \in 0..MaxMishaps /\ fresh' \subseteq Clients
    BY <1>3, <1>t DEF Exits, Changes
  <2>2. TableOK(procs')
    BY <1>3, <1>t, MarkedFiled DEF Exits, Changes
  <2> QED
    BY <1>t, <2>1, <2>2 DEF Typed, ClientsOK, BundleOK
<1>4. ASSUME NEW n \in DOMAIN procs, Export(n) PROVE Typed'
  <2>1. /\ src' = src /\ client' = client /\ procs' = procs /\ fresh' = fresh
        /\ mishaps' = mishaps
    BY <1>4 DEF Export
  <2>2. BundleOK'
    BY <1>4, ExportKeeps
  <2> QED
    BY <1>t, <2>1, <2>2 DEF Typed, ClientsOK
<1>5. ASSUME Import PROVE Typed'
  <2>1. /\ src' = src /\ client' = client /\ bundle' = bundle /\ mishaps' = mishaps
        /\ fresh' \subseteq Clients /\ bundle # NONE
        /\ procs' = With(bundle.spec.name, [conf |-> Started(bundle.spec), up |-> TRUE])
    BY <1>5, <1>t DEF Import, Changes
  <2>2. TableOK(procs')
    BY <1>t, <2>1, FiledStarted, WithFiled DEF BundleOK
  <2> QED
    BY <1>t, <2>1, <2>2 DEF Typed, ClientsOK, BundleOK
<1> QED
  BY <1>1, <1>2, <1>3, <1>4, <1>5 DEF Next

\* So they have it always.
LEMMA AlwaysTyped == Spec => []Typed
  BY TypedInit, TypedStep, PTL DEF Spec

(* Whatever the files and the clients, a plan is pending only while its    *)
(* client runs and every entry of the table is filed under its own name.   *)
THEOREM ApplyTypeCorrect == Spec => []TypeOK
<1>1. Typed => TypeOK
  BY DEF Typed, TableOK, Filed, ClientsOK, ClientOK, TypeOK
<1> QED
  BY <1>1, AlwaysTyped, PTL

(* A service comes back from its bundle with the configuration it had in   *)
(* the table, all but its environment, whatever the configuration.         *)
THEOREM ExportedServiceKept == Spec => []ExportKeepsService
<1>1. Typed => ExportKeepsService
  BY DEF Typed, BundleOK, ExportKeepsService
<1> QED
  BY <1>1, AlwaysTyped, PTL

-----------------------------------------------------------------------------
(* SuccessMeansApplied.                                                    *)

\* The service is in the table as s describes it.
Applied(t, s) == s.name \in DOMAIN t /\ Fingerprint(t[s.name].conf) = Fingerprint(s)

Successful == \A c \in Clients : client[c].pc \in {"running", "done"} /\ ~client[c].failed

\* As long as nobody has failed, what everybody wants is there or still to be started.
Served ==
    Successful =>
        \A c \in Clients : \A i \in DOMAIN Desired(src, client[c].opt) :
            LET s == Desired(src, client[c].opt)[i]
            IN  (\A d \in Clients : s.name \in NamesOf(Desired(src, client[d].opt)))
                => \/ Applied(procs, s)
                   \/ \E d \in Clients : Pending(client[d].plan, s.name, {"start", "recreate"})

\* A table whose entries keep their configuration has applied what it had.
LEMMA StillApplied ==
    ASSUME NEW t, NEW u, NEW s, Applied(t, s),
           s.name \in DOMAIN u, u[s.name].conf = t[s.name].conf
    PROVE  Applied(u, s)
  BY DEF Applied

\* Only planning, recreating, finishing and actions that are over change a client.
LEMMA ClientSteps ==
    ASSUME Typed, NEW c \in Clients, Act(c)
    PROVE  /\ src' = src
           /\ client'[c].opt = client[c].opt
           /\ \A d \in Clients \ {c} : client'[d] = client[d]
           /\ \/ Plan(c) \/ Recreate(c)
              \/ /\ Finish(c) /\ client'[c].plan = client[c].plan
                 /\ client'[c].failed = client[c].failed
              \/ \E f \in BOOLEAN :
                    /\ Over1(c, f) /\ client[c].pc = "running" /\ client[c].plan # <<>>
                    /\ client'[c].plan = Tail(client[c].plan)
                    /\ client'[c].pc = client[c].pc
                    /\ client'[c].failed = (client[c].failed \/ f)
<1>1. src' = src
  BY DEF Act, Plan, Noop, Start, StartRefused, StartFails, Restart, RestartFails,
         Delete, Recreate, Missing, Finish
<1>2. CASE Plan(c)
  BY <1>1, <1>2, PlanStep
<1>3. CASE Recreate(c)
  BY <1>1, <1>3, RecreateFields
<1>4. CASE Finish(c)
  <2>x. PICK x : x = client[c]
    OBVIOUS
  <2>1. /\ x = [pc |-> x.pc, opt |-> x.opt, plan |-> x.plan, failed |-> x.failed]
        /\ client = [d \in Clients |-> client[d]]
    BY <2>x DEF Typed, ClientsOK, ClientOK
  <2>2. /\ \A d \in Clients \ {c} : client'[d] = client[d]
        /\ client'[c] = [x EXCEPT !.pc = "done"]
    BY <1>4, <2>x, <2>1 DEF Finish
  <2>3. client'[c] = [pc |-> "done", opt |-> x.opt, plan |-> x.plan, failed |-> x.failed]
    BY <2>1, <2>2
  <2> QED
    BY <1>1, <1>4, <2>x, <2>2, <2>3
<1>5. ASSUME NEW f \in BOOLEAN, Over1(c, f), client[c].plan # <<>>, client[c].pc = "running"
      PROVE  /\ client'[c].opt = client[c].opt
             /\ \A d \in Clients \ {c} : client'[d] = client[d]
             /\ client'[c].plan = Tail(client[c].plan) /\ client'[c].pc = client[c].pc
             /\ client'[c].failed = (client[c].failed \/ f)
  BY <1>5, Over1Fields
<1>6. Plan(c) \/ Recreate(c) \/ Finish(c)
      \/ \E f \in BOOLEAN : Over1(c, f) /\ client[c].plan # <<>> /\ client[c].pc = "running"
  BY DEF Act, Noop, Start, StartRefused, StartFails, Restart, RestartFails, Delete, Missing, Todo
<1> QED
  BY <1>1, <1>2, <1>3, <1>4, <1>5, <1>6

\* How one request changes the table, and what has failed when it did not.
LEMMA Requests ==
    ASSUME Typed, NEW c \in Clients, Act(c)
    PROVE  \/ procs' = procs
           \/ /\ Start(c)
              /\ Head(client[c].plan).name \notin DOMAIN procs
              /\ procs' = With(Head(client[c].plan).name,
                               [conf |-> Started(Head(client[c].plan).spec), up |-> TRUE])
           \/ /\ \E b \in BOOLEAN : procs' = [procs EXCEPT ![Name(c)].up = b]
              /\ Name(c) \in DOMAIN procs
           \/ /\ Delete(c) /\ procs' = Without(Name(c))
              /\ Name(c) \notin NamesOf(Desired(src, client[c].opt))
           \/ Recreate(c) /\ procs' = Without(Name(c))
<1>1. CASE Start(c)
  <2>1. Todo(c, "start")
    BY <1>1 DEF Start
  <2>2. Head(client[c].plan).name = Head(client[c].plan).spec.name
    BY <2>1, StartedTable
  <2> QED
    BY <1>1, <2>2 DEF Start, Changes
<1>2. CASE Delete(c)
  <2>1. /\ client[c].plan # <<>> /\ Head(client[c].plan).do = "delete"
        /\ procs' = Without(Name(c))
    BY <1>2 DEF Delete, Todo, Changes
  <2>2. Fits(Desired(src, client[c].opt), Head(client[c].plan))
    BY <2>1, TailFits DEF Typed, ClientsOK, ClientOK
  <2> QED
    BY <1>2, <2>1, <2>2 DEF Fits, Name
<1>3. CASE Recreate(c)
  BY <1>3 DEF Recreate, Changes
<1>4. CASE Restart(c) \/ RestartFails(c)
  BY <1>4 DEF Restart, RestartFails, Changes
<1> QED
  BY <1>1, <1>2, <1>3, <1>4 DEF Act, Plan, Noop, StartRefused, StartFails, Missing, Finish

\* Nobody has planned anything at first.
LEMMA ServedInit == Init => Served
  BY DEF Init, Served, Successful

\* No step loses a service that everybody wants, unless a client fails.
LEMMA ServedStep == ASSUME OneReading PROVE Typed /\ Served /\ [Next]_vars => Served'
<1> DEFINE SR == {"start", "recreate"}
<1> SUFFICES ASSUME Typed, Served, [Next]_vars PROVE Served'
  OBVIOUS
<1>y. Typed'
  BY TypedStep
<1>k. src' = src /\ \A d \in Clients : client'[d].opt = client[d].opt
  <2>1. ASSUME NEW c \in Clients, Act(c)
        PROVE  src' = src /\ \A d \in Clients : client'[d].opt = client[d].opt
    BY <2>1, ClientSteps
  <2> QED
    BY <2>1 DEF Next, vars, Exits, Export, Import
<1> SUFFICES ASSUME Successful', NEW c \in Clients, NEW i \in DOMAIN Desired(src, client[c].opt),
                    NEW s, s = Desired(src, client[c].opt)[i],
                    \A d \in Clients : s.name \in NamesOf(Desired(src, client[d].opt))
             PROVE  \/ Applied(procs', s)
                    \/ \E d \in Clients : Pending(client'[d].plan, s.name, SR)
  BY <1>k DEF Served
<1>p. \A d \in Clients : Planable(src, client[d].opt) /\ client[d].opt \in Options
  BY <1>y, <1>k DEF Typed, ClientsOK, ClientOK, Successful
<1>r. ASSUME NEW d \in Clients, NEW j \in DOMAIN Desired(src, client[d].opt),
             Desired(src, client[d].opt)[j].name = s.name
      PROVE  Fingerprint(Desired(src, client[d].opt)[j]) = Fingerprint(s)
  BY <1>p, <1>r DEF OneReading, Typed
<1>f. \A d \in Clients : client'[d].failed = FALSE
  BY <1>y DEF Successful, Typed, ClientsOK, ClientOK
<1>t. TableOK(procs)
  BY DEF Typed
<1>1. CASE UNCHANGED <<procs, client>>
  <2>1. Successful
    BY <1>1 DEF Successful
  <2>2. Applied(procs, s) \/ \E d \in Clients : Pending(client[d].plan, s.name, SR)
    BY <2>1 DEF Served
  <2> QED
    BY <1>1, <2>2
<1>2. ASSUME NEW e \in Clients, Plan(e)
      PROVE  \/ Applied(procs', s)
             \/ \E d \in Clients : Pending(client'[d].plan, s.name, SR)
  <2>w. PICK want : want = Desired(src, client[e].opt)
    OBVIOUS
  <2>1. PICK j \in DOMAIN want : want[j].name = s.name
    BY <2>w DEF NamesOf
  <2>2. client'[e].pc # "refused"
    BY DEF Successful
  <2>3. want # <<>>
    BY <2>1
  <2>q. PICK plan : plan = PlanOf(want, client[e].opt.prune)
    OBVIOUS
  <2>4. client'[e].plan = plan
    BY <1>2, <2>w, <2>q, <2>2, <2>3, PlanStep
  <2>5. Len(want) \in Nat /\ DOMAIN want = 1..Len(want)
    BY <1>p, <2>w, DesiredNamed DEF Typed
  <2>6. j \in 1..Len(plan) /\ plan[j] = PlanFor(want[j])
    BY <1>t, <2>1, <2>5, <2>q, Planned DEF TableOK
  <2>7. procs' = procs
    BY <1>2 DEF Plan
  <2>8. Fingerprint(want[j]) = Fingerprint(s)
    BY <1>r, <2>1, <2>w
  <2>9. PlanFor(want[j]).name = s.name
    BY <2>1 DEF PlanFor
  <2>10. CASE PlanFor(want[j]).do \in SR
    BY <2>4, <2>6, <2>9, <2>10 DEF Pending
  <2>11. CASE PlanFor(want[j]).do \notin SR
    <3>1. s.name \in DOMAIN procs /\ Matches(procs[s.name], want[j])
      BY <2>1, <2>11 DEF PlanFor
    <3> QED
      BY <2>7, <2>8, <3>1 DEF Applied, Matches
  <2> QED
    BY <2>10, <2>11
<1>3. ASSUME NEW e \in Clients, Act(e), ~Plan(e)
      PROVE  \/ Applied(procs', s)
             \/ \E d \in Clients : Pending(client'[d].plan, s.name, SR)
  <2>1. Successful
    <3>1. \A d \in Clients \ {e} : client'[d] = client[d]
      BY <1>3, ClientSteps
    <3>2. client[e].pc \in {"running", "done"} /\ client[e].failed = FALSE
      <4>1. CASE Recreate(e)
        <5>1. client'[e].failed = client[e].failed
          BY <4>1, RecreateFields
        <5> QED
          BY <1>f, <4>1, <5>1 DEF Recreate, Todo
      <4>2. CASE Finish(e) /\ client'[e].failed = client[e].failed
        BY <1>f, <4>2 DEF Finish
      <4>3. ASSUME NEW f \in BOOLEAN, client[e].pc = "running",
                   client'[e].failed = (client[e].failed \/ f)
            PROVE  client[e].pc \in {"running", "done"} /\ client[e].failed = FALSE
        <5>1. client[e].failed \in BOOLEAN
          BY DEF Typed, ClientsOK, ClientOK
        <5> QED
          BY <1>f, <4>3, <5>1
      <4> QED
        BY <1>3, <4>1, <4>2, <4>3, ClientSteps
    <3> QED
      BY <3>1, <3>2 DEF Successful
  <2>2. Applied(procs, s) \/ \E d \in Clients : Pending(client[d].plan, s.name, SR)
    BY <2>1 DEF Served
  <2>3. CASE Applied(procs, s)
    <3>n. s.name \in DOMAIN procs
      BY <2>3 DEF Applied
    <3>1. CASE procs' = procs
      BY <2>3, <3>1
    <3>2. ASSUME NEW n, n \notin DOMAIN procs,
                 NEW p, procs' = With(n, p)
          PROVE  Applied(procs', s)
      <4>1. s.name \in DOMAIN procs' /\ procs'[s.name] = procs[s.name]
        BY <3>n, <3>2 DEF With
      <4> QED
        BY <2>3, <4>1, StillApplied
    <3>3. ASSUME NEW n \in DOMAIN procs, NEW b \in BOOLEAN, procs' = [procs EXCEPT ![n].up = b]
          PROVE  Applied(procs', s)
      <4>1. s.name \in DOMAIN procs' /\ procs'[s.name].conf = procs[s.name].conf
        BY <1>t, <3>n, <3>3, MarkedFiled
      <4> QED
        BY <2>3, <4>1, StillApplied
    <3>4. ASSUME NEW n, n # s.name, procs' = Without(n)
          PROVE  Applied(procs', s)
      <4>1. s.name \in DOMAIN procs' /\ procs'[s.name] = procs[s.name]
        BY <3>n, <3>4 DEF Without
      <4> QED
        BY <2>3, <4>1, StillApplied
    <3>5. CASE Recreate(e) /\ Name(e) = s.name
      <4>1. /\ client[e].plan # <<>> /\ Head(client[e].plan).do = "recreate"
            /\ client'[e].plan = Deleted(client[e].plan)
        BY <3>5, RecreateFields
      <4>2. PlanOK(Desired(src, client[e].opt), client[e].plan)
        BY DEF Typed, ClientsOK, ClientOK
      <4> QED
        BY <3>5, <4>1, <4>2, DeletedFits DEF Name
    <3> QED
      BY <1>3, <3>1, <3>2, <3>3, <3>4, <3>5, Requests
  <2>4. ASSUME NEW d \in Clients, Pending(client[d].plan, s.name, SR)
        PROVE  \/ Applied(procs', s)
               \/ \E k \in Clients : Pending(client'[k].plan, s.name, SR)
    <3>1. CASE d # e
      <4>1. client'[d] = client[d]
        BY <1>3, <3>1, ClientSteps
      <4> QED
        BY <2>4, <4>1
    <3>2. CASE d = e /\ Recreate(e)
      <4>1. /\ client[e].plan # <<>> /\ Head(client[e].plan).do = "recreate"
            /\ client'[e].plan = Deleted(client[e].plan)
        BY <3>2, RecreateFields
      <4>2. PlanOK(Desired(src, client[e].opt), client[e].plan)
        BY DEF Typed, ClientsOK, ClientOK
      <4>3. Pending(client'[e].plan, s.name, SR)
        BY <2>4, <3>2, <4>1, <4>2, DeletedPending
      <4> QED
        BY <4>3
    <3>3. CASE d = e /\ client'[e].plan = client[e].plan
      BY <2>4, <3>3
    <3>4. CASE d = e /\ client[e].plan # <<>> /\ client'[e].plan = Tail(client[e].plan)
      <4>1. Listed(client[e].plan)
        BY DEF Typed, ClientsOK, ClientOK, PlanOK
      <4>2. CASE Pending(Tail(client[e].plan), s.name, SR)
        BY <3>4, <4>2
      <4>3. CASE Head(client[e].plan).name = s.name /\ Head(client[e].plan).do \in SR
        <5>1. CASE Start(e)
          <6>z. PICK z : z = Head(client[e].plan).spec
            OBVIOUS
          <6>1. Todo(e, "start") /\ procs' = With(s.name, [conf |-> Started(z), up |-> TRUE])
            <7>1. Todo(e, "start") /\ procs' = With(z.name, [conf |-> Started(z), up |-> TRUE])
              BY <5>1, <6>z DEF Start, Changes
            <7>2. z.name = s.name
              BY <4>3, <6>z, <7>1, StartedTable
            <7> QED
              BY <7>1, <7>2
          <6>2. /\ Fingerprint(Started(z)) = Fingerprint(z) /\ z.name = s.name
                /\ \E j \in DOMAIN Desired(src, client[e].opt) : z = Desired(src, client[e].opt)[j]
            BY <4>3, <6>1, <6>z, StartedTable
          <6>3. Fingerprint(z) = Fingerprint(s)
            BY <1>r, <6>2
          <6>4. s.name \in DOMAIN procs' /\ procs'[s.name] = [conf |-> Started(z), up |-> TRUE]
            BY <6>1 DEF With
          <6> QED
            BY <6>2, <6>3, <6>4 DEF Applied
        <5>2. CASE StartRefused(e) \/ StartFails(e) \/ Missing(e)
          <6>1. Over1(e, TRUE)
            BY <5>2 DEF StartRefused, StartFails, Missing
          <6>2. client'[e].failed = (client[e].failed \/ TRUE)
            BY <3>4, <6>1, Over1Fields
          <6> QED
            BY <1>f, <6>2
        <5>3. CASE Recreate(e)
          BY <2>4, <3>2, <3>4, <5>3
        <5> QED
          BY <1>3, <4>3, <3>4, <5>1, <5>2, <5>3
             DEF Act, Noop, Restart, RestartFails, Delete, Finish, Todo
      <4> QED
        BY <2>4, <3>4, <4>1, <4>2, <4>3, TailPending
    <3> QED
      BY <1>3, <3>1, <3>2, <3>3, <3>4, ClientSteps
  <2> QED
    BY <2>2, <2>3, <2>4
<1>4. ASSUME NEW n \in DOMAIN procs, Exits(n)
      PROVE  \/ Applied(procs', s)
             \/ \E d \in Clients : Pending(client'[d].plan, s.name, SR)
  <2>1. client' = client /\ procs' = [procs EXCEPT ![n].up = FALSE]
    BY <1>4 DEF Exits, Changes
  <2>2. Successful
    BY <2>1 DEF Successful
  <2>3. CASE Applied(procs, s)
    <3>1. s.name \in DOMAIN procs' /\ procs'[s.name].conf = procs[s.name].conf
      BY <1>4, <1>t, <2>1, <2>3, MarkedFiled DEF Applied
    <3> QED
      BY <2>3, <3>1, StillApplied
  <2> QED
    BY <2>1, <2>2, <2>3 DEF Served
<1>5. ASSUME Import
      PROVE  \/ Applied(procs', s)
             \/ \E d \in Clients : Pending(client'[d].plan, s.name, SR)
  <2>1. /\ client' = client /\ bundle.spec.name \notin DOMAIN procs
        /\ procs' = With(bundle.spec.name, [conf |-> Started(bundle.spec), up |-> TRUE])
    BY <1>5 DEF Import, Changes
  <2>2. Successful
    BY <2>1 DEF Successful
  <2>3. CASE Applied(procs, s)
    <3>1. s.name \in DOMAIN procs' /\ procs'[s.name] = procs[s.name]
      BY <2>1, <2>3 DEF With, Applied
    <3> QED
      BY <2>3, <3>1, StillApplied
  <2> QED
    BY <2>1, <2>2, <2>3 DEF Served
<1> QED
  BY <1>1, <1>2, <1>3, <1>4, <1>5 DEF Next, vars, Export

(* When every client has finished and nobody has failed, what all of them  *)
(* asked for is in the table as the file describes it, whatever the order  *)
(* of their requests, the exits and the imports; for any file, any table   *)
(* to begin with and any clients that mean the same by the names they use. *)
THEOREM AppliesWhatItSays == ASSUME OneReading PROVE Spec => []SuccessMeansApplied
<1>1. Typed /\ Served => SuccessMeansApplied
  <2> SUFFICES ASSUME Typed, Served, AllDone, \A c \in Clients : ~client[c].failed,
                      NEW c \in Clients, NEW i \in DOMAIN Desired(src, client[c].opt),
                      \A d \in Clients : Desired(src, client[c].opt)[i].name
                                            \in NamesOf(Desired(src, client[d].opt))
               PROVE  Applied(procs, Desired(src, client[c].opt)[i])
    BY DEF SuccessMeansApplied, Applied, Matches
  <2>1. Successful
    BY DEF AllDone, Successful
  <2>2. ASSUME NEW d \in Clients, NEW n, NEW dos PROVE ~Pending(client[d].plan, n, dos)
    <3>1. client[d].plan = <<>>
      BY DEF AllDone, Typed, ClientsOK, ClientOK
    <3>2. 1..Len(<<>>) = {}
      OBVIOUS
    <3> QED
      BY <3>1, <3>2 DEF Pending
  <2> QED
    BY <2>1, <2>2 DEF Served
<1> QED
  BY <1>1, TypedInit, TypedStep, ServedInit, ServedStep, PTL DEF Spec

-----------------------------------------------------------------------------
(* RepeatedApplyIsNoop.                                                    *)

\* What is asked for is there and runs, or there is an action that will see to it.
Covered(want, plan, t) ==
    \A i \in DOMAIN want :
        \/ Pending(plan, want[i].name, {"start", "recreate"})
        \/ /\ Applied(t, want[i])
           /\ t[want[i].name].up = TRUE \/ Pending(plan, want[i].name, {"restart"})

\* What is not asked for will be deleted.
Cleared(want, plan, t) ==
    \A n \in DOMAIN t : n \in NamesOf(want) \/ Pending(plan, n, {"delete"})

CurrentFor(s, x, t) ==
    (x.pc \in {"running", "done"} /\ x.failed = FALSE) =>
        /\ Covered(Desired(s, x.opt), x.plan, t)
        /\ (x.opt.prune /\ Desired(s, x.opt) # <<>>) => Cleared(Desired(s, x.opt), x.plan, t)

\* So it is for a client whose plan nobody has overtaken.
Current == \A d \in fresh : CurrentFor(src, client[d], procs)

\* A fresh plan has an action for everything that is not as it should be.
LEMMA PlanCurrent ==
    ASSUME Typed, NEW c \in Clients, Plan(c)
    PROVE  CurrentFor(src, client'[c], procs)
<1>w. PICK want : want = Desired(src, client[c].opt)
  OBVIOUS
<1>q. PICK plan : plan = PlanOf(want, client[c].opt.prune)
  OBVIOUS
<1>1. /\ client'[c].opt = client[c].opt
      /\ \/ client'[c].pc = "refused"
         \/ client'[c].pc = "done" /\ want = <<>>
         \/ client'[c].pc = "running" /\ want # <<>> /\ client'[c].plan = plan
      /\ client'[c].pc # "refused" => Planable(src, client[c].opt)
  BY <1>w, <1>q, PlanStep
<1>2. CASE want = <<>>
  BY <1>1, <1>2, <1>w DEF CurrentFor, Covered
<1>3. CASE client'[c].plan = plan /\ Planable(src, client[c].opt)
  <2>1. Len(want) \in Nat /\ DOMAIN want = 1..Len(want)
    BY <1>3, <1>w, DesiredNamed DEF Typed, ClientsOK, ClientOK
  <2>2. /\ \A i \in 1..Len(want) : i \in 1..Len(plan) /\ plan[i] = PlanFor(want[i])
        /\ \A n \in Stale(want, client[c].opt.prune) : \E i \in 1..Len(plan) : plan[i] = Drop(n)
    BY <2>1, <1>q, Planned DEF Typed, TableOK
  <2>3. ASSUME NEW i \in DOMAIN want
        PROVE  \/ Pending(plan, want[i].name, {"start", "recreate"})
               \/ /\ Applied(procs, want[i])
                  /\ procs[want[i].name].up = TRUE \/ Pending(plan, want[i].name, {"restart"})
    <3>1. i \in 1..Len(plan) /\ plan[i] = PlanFor(want[i]) /\ plan[i].name = want[i].name
      BY <2>1, <2>2 DEF PlanFor
    <3>2. CASE plan[i].do \in {"start", "recreate"}
      BY <3>1, <3>2 DEF Pending
    <3>3. CASE plan[i].do \notin {"start", "recreate"}
      <4>1. want[i].name \in DOMAIN procs /\ Matches(procs[want[i].name], want[i])
        BY <3>1, <3>3 DEF PlanFor
      <4>2. procs[want[i].name].up \in BOOLEAN
        BY <4>1 DEF Typed, TableOK, Filed
      <4>3. procs[want[i].name].up = TRUE \/ plan[i].do = "restart"
        BY <3>1, <4>1, <4>2 DEF PlanFor
      <4>4. plan[i].do = "restart" => Pending(plan, want[i].name, {"restart"})
        BY <3>1 DEF Pending
      <4> QED
        BY <4>1, <4>3, <4>4 DEF Applied, Matches
    <3> QED
      BY <3>2, <3>3
  <2>4. ASSUME client[c].opt.prune, NEW n \in DOMAIN procs, n \notin NamesOf(want)
        PROVE  Pending(plan, n, {"delete"})
    <3>1. n \in Stale(want, client[c].opt.prune)
      BY <2>4 DEF Stale
    <3>2. PICK i \in 1..Len(plan) : plan[i] = Drop(n)
      BY <2>2, <3>1
    <3> QED
      BY <3>2 DEF Pending, Drop
  <2> QED
    BY <1>1, <1>3, <1>w, <2>3, <2>4 DEF CurrentFor, Covered, Cleared
<1> QED
  BY <1>1, <1>2, <1>3 DEF CurrentFor

\* A client's own requests.
LEMMA RequestCurrent ==
    ASSUME Typed, NEW c \in Clients, Act(c), ~Plan(c), CurrentFor(src, client[c], procs)
    PROVE  CurrentFor(src, client'[c], procs')
<1> DEFINE SR == {"start", "recreate"}
<1>w. PICK want : want = Desired(src, client[c].opt)
  OBVIOUS
<1>p. PICK p : p = client[c].plan
  OBVIOUS
<1>q. PICK q : q = client'[c].plan
  OBVIOUS
<1>0. PlanOK(want, p) /\ Listed(p) /\ TableOK(procs) /\ ClientOK(src, client[c])
  BY <1>w, <1>p DEF Typed, ClientsOK, ClientOK, PlanOK
<1>1. /\ client'[c].opt = client[c].opt
      /\ \/ Recreate(c)
         \/ Finish(c) /\ q = p /\ client'[c].failed = client[c].failed
         \/ \E f \in BOOLEAN : /\ Over1(c, f) /\ client[c].pc = "running" /\ p # <<>>
                               /\ q = Tail(p) /\ client'[c].failed = (client[c].failed \/ f)
  BY <1>p, <1>q, ClientSteps
<1> SUFFICES ASSUME client'[c].pc \in {"running", "done"}, client'[c].failed = FALSE
             PROVE  /\ Covered(want, q, procs')
                    /\ (client[c].opt.prune /\ want # <<>>) => Cleared(want, q, procs')
  BY <1>w, <1>q, <1>1 DEF CurrentFor
<1>2. client[c].pc \in {"running", "done"} /\ client[c].failed = FALSE
  <2>1. CASE Recreate(c)
    <3>1. client'[c].failed = client[c].failed
      BY <2>1, RecreateFields
    <3> QED
      BY <2>1, <3>1 DEF Recreate, Todo
  <2>2. CASE Finish(c) /\ client'[c].failed = client[c].failed
    BY <2>2 DEF Finish
  <2>3. ASSUME NEW f \in BOOLEAN, client[c].pc = "running",
               client'[c].failed = (client[c].failed \/ f)
        PROVE  client[c].failed = FALSE
    BY <1>0, <2>3 DEF ClientOK
  <2> QED
    BY <1>1, <2>1, <2>2, <2>3
<1>3. Covered(want, p, procs) /\ ((client[c].opt.prune /\ want # <<>>) => Cleared(want, p, procs))
  BY <1>2, <1>w, <1>p DEF CurrentFor
<1>u. \A i, j \in DOMAIN want : want[i].name = want[j].name => i = j
  <2>1. Planable(src, client[c].opt) /\ client[c].opt \in Options /\ src \in Sources
    BY <1>0, <1>2 DEF ClientOK, Typed
  <2> QED
    BY <2>1, <1>w, DesiredNamed
<1>4. CASE Finish(c)
  <2>1. q = p /\ procs' = procs
    BY <1>1, <1>4, <1>p DEF Finish, Recreate, Todo
  <2> QED
    BY <1>3, <2>1
<1>5. CASE Recreate(c)
  <2>n. PICK n : n = Head(p).name
    OBVIOUS
  <2>1. /\ p # <<>> /\ Head(p).do = "recreate" /\ q = Deleted(p) /\ procs' = Without(n)
    BY <1>5, <1>p, <1>q, <2>n, RecreateFields DEF Recreate, Changes, Name
  <2>2. Pending(q, n, SR)
    BY <1>0, <2>1, <2>n, DeletedFits
  <2>3. \A m : /\ Pending(p, m, SR) => Pending(q, m, SR)
               /\ Pending(p, m, {"restart"}) => Pending(q, m, {"restart"})
               /\ Pending(p, m, {"delete"}) => Pending(q, m, {"delete"})
    BY <1>0, <2>1, DeletedPending
  <2>4. /\ DOMAIN procs' = DOMAIN procs \ {n}
        /\ \A m \in DOMAIN procs \ {n} : procs'[m] = procs[m]
    BY <2>1 DEF Without
  <2>5. Covered(want, q, procs')
    BY <1>3, <2>2, <2>3, <2>4 DEF Covered, Applied
  <2>6. (client[c].opt.prune /\ want # <<>>) => Cleared(want, q, procs')
    BY <1>3, <2>3, <2>4 DEF Cleared
  <2> QED
    BY <2>5, <2>6
<1>6. CASE p # <<>> /\ q = Tail(p)
  <2>n. PICK n : n = Head(p).name
    OBVIOUS
  <2>t. \A m, dos : Pending(p, m, dos) => Pending(q, m, dos) \/ (n = m /\ Head(p).do \in dos)
    BY <1>0, <1>6, <2>n, TailPending
  <2>f. \A f \in BOOLEAN : Over1(c, f) => f = FALSE
    <3>1. ASSUME NEW f \in BOOLEAN, Over1(c, f) PROVE client'[c].failed = (client[c].failed \/ f)
      BY <1>6, <1>p, <3>1, Over1Fields
    <3> QED
      BY <1>0, <3>1 DEF ClientOK
  <2>1. CASE Noop(c)
    <3>1. Head(p).do = "noop" /\ procs' = procs
      BY <2>1, <1>p DEF Noop, Todo
    <3>2. \A m : /\ Pending(p, m, SR) => Pending(q, m, SR)
                 /\ Pending(p, m, {"restart"}) => Pending(q, m, {"restart"})
                 /\ Pending(p, m, {"delete"}) => Pending(q, m, {"delete"})
      BY <2>t, <3>1
    <3> QED
      BY <1>3, <3>1, <3>2 DEF Covered, Cleared
  <2>2. CASE Start(c)
    <3>z. PICK z : z = Head(p).spec
      OBVIOUS
    <3>1. /\ Todo(c, "start") /\ Head(p).do = "start" /\ z.name \notin DOMAIN procs
          /\ procs' = With(z.name, [conf |-> Started(z), up |-> TRUE])
      BY <2>2, <1>p, <3>z DEF Start, Todo, Changes
    <3>2. n = z.name /\ Fingerprint(Started(z)) = Fingerprint(z)
      BY <3>1, <3>z, <1>p, <2>n, StartedTable
    <3>3. PICK j \in DOMAIN want : z = want[j]
      BY <3>1, <3>z, <1>p, <1>w, StartedTable
    <3>4. \A m : /\ Pending(p, m, {"restart"}) => Pending(q, m, {"restart"})
                 /\ Pending(p, m, {"delete"}) => Pending(q, m, {"delete"})
                 /\ Pending(p, m, SR) => Pending(q, m, SR) \/ m = n
      BY <2>t, <3>1
    <3>5. /\ DOMAIN procs' = DOMAIN procs \cup {n}
          /\ procs'[n] = [conf |-> Started(z), up |-> TRUE]
          /\ \A m \in DOMAIN procs : procs'[m] = procs[m]
      BY <3>1, <3>2 DEF With
    <3>6. ASSUME NEW i \in DOMAIN want
          PROVE  \/ Pending(q, want[i].name, SR)
                 \/ /\ Applied(procs', want[i])
                    /\ procs'[want[i].name].up = TRUE \/ Pending(q, want[i].name, {"restart"})
      <4>1. CASE want[i].name = n
        <5>1. want[i] = z
          BY <1>u, <3>2, <3>3, <4>1
        <5> QED
          BY <3>2, <3>5, <4>1, <5>1 DEF Applied
      <4>2. CASE want[i].name # n
        BY <1>3, <3>4, <3>5, <4>2 DEF Covered, Applied
      <4> QED
        BY <4>1, <4>2
    <3>7. n \in NamesOf(want)
      BY <3>2, <3>3 DEF NamesOf
    <3>8. (client[c].opt.prune /\ want # <<>>) => Cleared(want, q, procs')
      BY <1>3, <3>4, <3>5, <3>7 DEF Cleared
    <3> QED
      BY <3>6, <3>8 DEF Covered
  <2>3. CASE Restart(c)
    <3>1. /\ Head(p).do = "restart" /\ n \in DOMAIN procs
          /\ procs' = [procs EXCEPT ![n].up = TRUE]
      BY <2>3, <1>p, <2>n DEF Restart, Todo, Changes, Name
    <3>2. /\ DOMAIN procs' = DOMAIN procs /\ procs'[n] = [conf |-> procs[n].conf, up |-> TRUE]
          /\ \A m \in DOMAIN procs \ {n} : procs'[m] = procs[m]
      BY <1>0, <3>1, MarkedFiled
    <3>3. \A m : /\ Pending(p, m, SR) => Pending(q, m, SR)
                 /\ Pending(p, m, {"delete"}) => Pending(q, m, {"delete"})
                 /\ Pending(p, m, {"restart"}) => Pending(q, m, {"restart"}) \/ m = n
      BY <2>t, <3>1
    <3>4. procs'[n].conf = procs[n].conf /\ procs'[n].up = TRUE
      BY <3>2
    <3>5. Covered(want, q, procs')
      BY <1>3, <3>2, <3>3, <3>4 DEF Covered, Applied
    <3>6. (client[c].opt.prune /\ want # <<>>) => Cleared(want, q, procs')
      BY <1>3, <3>2, <3>3 DEF Cleared
    <3> QED
      BY <3>5, <3>6
  <2>4. CASE Delete(c)
    <3>1. Head(p).do = "delete" /\ procs' = Without(n)
      BY <2>4, <1>p, <2>n DEF Delete, Todo, Changes, Name
    <3>2. n \notin NamesOf(want)
      <4>1. Fits(want, Head(p))
        BY <1>0, <1>6, TailFits
      <4> QED
        BY <3>1, <4>1, <2>n DEF Fits
    <3>3. /\ DOMAIN procs' = DOMAIN procs \ {n}
          /\ \A m \in DOMAIN procs \ {n} : procs'[m] = procs[m]
      BY <3>1 DEF Without
    <3>4. \A m : /\ Pending(p, m, SR) => Pending(q, m, SR)
                 /\ Pending(p, m, {"restart"}) => Pending(q, m, {"restart"})
                 /\ Pending(p, m, {"delete"}) => Pending(q, m, {"delete"}) \/ m = n
      BY <2>t, <3>1
    <3>5. \A i \in DOMAIN want : want[i].name # n
      BY <3>2 DEF NamesOf
    <3>6. Covered(want, q, procs')
      BY <1>3, <3>3, <3>4, <3>5 DEF Covered, Applied
    <3>7. (client[c].opt.prune /\ want # <<>>) => Cleared(want, q, procs')
      BY <1>3, <3>3, <3>4 DEF Cleared
    <3> QED
      BY <3>6, <3>7
  <2>5. CASE StartRefused(c) \/ StartFails(c) \/ RestartFails(c) \/ Missing(c)
    <3>1. Over1(c, TRUE)
      BY <2>5 DEF StartRefused, StartFails, RestartFails, Missing
    <3> QED
      BY <2>f, <3>1
  <2> QED
    BY <1>4, <1>5, <2>1, <2>2, <2>3, <2>4, <2>5 DEF Act
<1> QED
  BY <1>1, <1>4, <1>5, <1>6

\* Nobody is fresh at first.
LEMMA CurrentInit == Init => Current
  BY DEF Init, Current

\* Whoever changes the table overtakes everybody else.
LEMMA Overtaken ==
    ASSUME Typed, NEW c \in Clients, Act(c)
    PROVE  \/ procs' = procs /\ (Plan(c) => fresh' = fresh \cup {c}) /\ (~Plan(c) => fresh' = fresh)
           \/ fresh' = fresh \cap {c} /\ ~Plan(c)
<1>1. CASE Plan(c)
  BY <1>1 DEF Plan
<1>2. CASE Start(c) \/ Restart(c) \/ RestartFails(c) \/ Delete(c) \/ Recreate(c)
  <2>1. fresh' = fresh \cap {c} /\ client[c].pc = "running"
    BY <1>2 DEF Start, Restart, RestartFails, Delete, Recreate, Changes, Todo
  <2> QED
    BY <2>1 DEF Plan
<1>3. CASE Noop(c) \/ StartRefused(c) \/ StartFails(c) \/ Missing(c) \/ Finish(c)
  <2>1. procs' = procs /\ fresh' = fresh /\ client[c].pc = "running"
    BY <1>3 DEF Noop, StartRefused, StartFails, Missing, Finish, Todo
  <2> QED
    BY <2>1 DEF Plan
<1> QED
  BY <1>1, <1>2, <1>3 DEF Act

\* A client that is not overtaken stays current: its own requests do what is left to do.
LEMMA CurrentStep == Typed /\ Current /\ [Next]_vars => Current'
<1> SUFFICES ASSUME Typed, Current, [Next]_vars PROVE Current'
  OBVIOUS
<1>1. CASE UNCHANGED <<src, procs, client, fresh>>
  BY <1>1 DEF Current
<1>2. ASSUME NEW c \in Clients, Act(c) PROVE Current'
  <2>0. src' = src /\ \A d \in Clients \ {c} : client'[d] = client[d]
    BY <1>2, ClientSteps
  <2>f. fresh \subseteq Clients
    BY DEF Typed
  <2>1. ASSUME NEW d \in fresh', d # c PROVE CurrentFor(src', client'[d], procs')
    <3>1. procs' = procs /\ d \in fresh
      BY <1>2, <2>1, Overtaken
    <3> QED
      BY <2>0, <2>1, <2>f, <3>1 DEF Current
  <2>2. ASSUME c \in fresh' PROVE CurrentFor(src', client'[c], procs')
    <3>1. CASE Plan(c)
      <4>1. procs' = procs
        BY <3>1 DEF Plan
      <4> QED
        BY <3>1, <4>1, <2>0, PlanCurrent
    <3>2. CASE ~Plan(c)
      <4>1. c \in fresh
        BY <1>2, <2>2, <3>2, Overtaken
      <4>2. CurrentFor(src, client[c], procs)
        BY <4>1 DEF Current
      <4> QED
        BY <1>2, <3>2, <4>2, <2>0, RequestCurrent
    <3> QED
      BY <3>1, <3>2
  <2> QED
    BY <2>1, <2>2 DEF Current
<1>3. CASE (\E n \in DOMAIN procs : Exits(n)) \/ Import
  <2>1. fresh' = fresh \cap {"nobody"}
    BY <1>3 DEF Exits, Import, Changes
  <2>2. fresh' = {}
    BY <2>1, ApplyAssumption DEF Typed
  <2> QED
    BY <2>2 DEF Current
<1> QED
  BY <1>1, <1>2, <1>3 DEF Next, vars, Export

\* What the second of two equal applies plans.
RepeatsNothing ==
    \A c, d \in Clients :
        (/\ client[c].pc = "idle" /\ client'[c].pc = "running"
         /\ client[d].pc = "done" /\ ~client[d].failed /\ d \in fresh
         /\ client[c].opt = client[d].opt)
        => \A i \in DOMAIN client'[c].plan : client'[c].plan[i].do = "noop"

\* When nothing is left to do, what is planned is nothing.
LEMMA RepeatStep == Typed /\ Current /\ [Next]_vars => RepeatsNothing
<1> SUFFICES ASSUME Typed, Current, [Next]_vars, NEW c \in Clients, NEW d \in Clients,
                    client[c].pc = "idle", client'[c].pc = "running",
                    client[d].pc = "done", ~client[d].failed, d \in fresh,
                    client[c].opt = client[d].opt
             PROVE  \A i \in DOMAIN client'[c].plan : client'[c].plan[i].do = "noop"
  BY DEF RepeatsNothing
<1>1. Plan(c)
  <2>1. client' # client
    OBVIOUS
  <2>2. PICK e \in Clients : Act(e)
    BY <2>1 DEF Next, vars, Exits, Export, Import
  <2>3. e = c
    BY <2>2, ClientSteps
  <2>4. ClientOK(src, client[c])
    BY DEF Typed, ClientsOK
  <2>5. ~Recreate(c) /\ ~Finish(c)
    BY DEF Recreate, Todo, Finish
  <2> QED
    BY <2>2, <2>3, <2>5, ClientSteps
<1>w. PICK want : want = Desired(src, client[c].opt)
  OBVIOUS
<1>q. PICK plan : plan = PlanOf(want, client[c].opt.prune)
  OBVIOUS
<1>2. want # <<>> /\ client'[c].plan = plan /\ Planable(src, client[c].opt)
  BY <1>1, <1>w, <1>q, PlanStep
<1>3. Len(want) \in Nat /\ DOMAIN want = 1..Len(want)
  BY <1>2, <1>w, DesiredNamed DEF Typed, ClientsOK, ClientOK
<1>4. ClientOK(src, client[d])
  BY DEF Typed, ClientsOK
<1>5. client[d].plan = <<>> /\ client[d].failed = FALSE
  BY <1>4 DEF ClientOK
<1>6. \A n, dos : ~Pending(client[d].plan, n, dos)
  <2>1. 1..Len(<<>>) = {}
    OBVIOUS
  <2> QED
    BY <1>5, <2>1 DEF Pending
<1>7. /\ Covered(want, client[d].plan, procs)
      /\ client[c].opt.prune => Cleared(want, client[d].plan, procs)
  BY <1>2, <1>5, <1>w DEF Current, CurrentFor
<1>8. \A i \in DOMAIN want : Applied(procs, want[i]) /\ procs[want[i].name].up = TRUE
  BY <1>6, <1>7 DEF Covered
<1>9. Stale(want, client[c].opt.prune) = {}
  BY <1>6, <1>7 DEF Cleared, Stale
<1>10. /\ Listed(plan)
       /\ \A i \in 1..Len(want) : plan[i] = PlanFor(want[i])
       /\ \A i \in 1..Len(plan) : i \in 1..Len(want)
  BY <1>3, <1>9, <1>q, Planned DEF Typed, TableOK
<1>11. DOMAIN plan = 1..Len(plan)
  BY <1>10 DEF Listed
<1>12. \A i \in DOMAIN want : PlanFor(want[i]).do = "noop"
  BY <1>8 DEF PlanFor, Applied, Matches
<1> QED
  BY <1>2, <1>3, <1>10, <1>11, <1>12

(* The second of two equal applies finds nothing to do if the first one    *)
(* succeeded and nothing has changed the table since, for any file, any    *)
(* options and any number of other clients: what the daemon made of each   *)
(* start request has the fingerprint that the client computes.             *)
THEOREM RepeatIsNoop == Spec => RepeatedApplyIsNoop
<1>1. Typed /\ Current /\ [Next]_vars => [RepeatsNothing]_vars
  BY RepeatStep
<1>2. Spec => [][RepeatsNothing]_vars
  BY <1>1, TypedInit, TypedStep, CurrentInit, CurrentStep, PTL DEF Spec
<1> QED
  BY <1>2 DEF RepeatedApplyIsNoop, RepeatsNothing

-----------------------------------------------------------------------------
(* DependenciesFirst.                                                      *)

\* The apps that need one another depend on one another, by name.
LEMMA StuckBehindCycle ==
    ASSUME NEW specs, Listed(specs), \A i \in 1..Len(specs) : specs[i].name # NONE,
           NEW at, NEW stuck, StartOrder(specs, at, stuck), NEW i \in stuck
    PROVE  specs[i].name \in BehindCycle(specs)
<1>n. DOMAIN specs = 1..Len(specs)
  BY DEF Listed
<1>s. PICK names : names = {specs[j].name : j \in stuck}
  OBVIOUS
<1>1. names \subseteq NamesOf(specs) \ {NONE}
  BY <1>n, <1>s DEF StartOrder, NamesOf
<1>2. ASSUME NEW a \in names PROVE \E b \in names : DependsOn(specs, a, b)
  <2>1. PICK j \in stuck : a = specs[j].name
    BY <1>s
  <2>2. PICK k \in stuck : k \in Needs(specs, j)
    BY DEF StartOrder
  <2>3. specs[k].name \in specs[j].depends_on
    BY <2>2 DEF Needs, Named
  <2> QED
    BY <1>n, <1>s, <2>1, <2>3 DEF DependsOn, StartOrder
<1> QED
  BY <1>1, <1>2, <1>s DEF BehindCycle

\* What a client asks for is in the order of the dependencies.
LEMMA DesiredWaits ==
    ASSUME NEW s \in Sources, NEW opt \in Options, Planable(s, opt),
           NEW p \in DOMAIN Desired(s, opt), NEW q \in DOMAIN Desired(s, opt),
           Desired(s, opt)[q].app \in Desired(s, opt)[p].depends_on,
           Desired(s, opt)[q].app \notin Shared(Selected(s, opt)),
           Desired(s, opt)[p].app \notin BehindCycle(Selected(s, opt))
    PROVE  q < p
<1>w. PICK want : want = Desired(s, opt)
  OBVIOUS
<1>s. PICK specs : specs = Selected(s, opt)
  OBVIOUS
<1>o. PICK order : order = Ordered(specs)
  OBVIOUS
<1>1. Services(specs) /\ Comparable(specs) /\ Listed(specs) /\ Len(specs) \in Nat
      /\ DOMAIN specs = 1..Len(specs)
  BY <1>s, SelectedServices DEF Services, Listed
<1>2. PICK at, stuck : /\ Len(order) = Len(specs) /\ Listed(order)
                       /\ StartOrder(specs, at, stuck)
                       /\ \A k \in 1..Len(specs) : order[k] = specs[at[k]]
  BY <1>1, <1>o, OrderedInOrder
<1>3. PICK place : Listed(want) /\ Services(order) /\ Clones(want, order, place)
  BY <1>w, <1>s, <1>o, DesiredInstances
<1>4. p \in 1..Len(want) /\ q \in 1..Len(want) /\ Len(want) \in Nat
  BY <1>w, <1>3 DEF Listed
<1>k. PICK k : k = place[p][1]
  OBVIOUS
<1>l. PICK l : l = place[q][1]
  OBVIOUS
<1>5. k \in 1..Len(specs) /\ l \in 1..Len(specs) /\ at[k] \in 1..Len(specs) /\ at[l] \in 1..Len(specs)
  <2>1. place \in [1..Len(want) -> (1..Len(specs)) \X Nat]
    BY <1>2, <1>3 DEF Clones
  <2>2. k \in 1..Len(specs) /\ l \in 1..Len(specs)
    BY <2>1, <1>4, <1>k, <1>l
  <2>3. at \in [1..Len(specs) -> 1..Len(specs)]
    BY <1>2 DEF StartOrder
  <2> QED
    BY <2>2, <2>3
<1>6. /\ want[p].app = specs[at[k]].name /\ want[p].depends_on = specs[at[k]].depends_on
      /\ want[q].app = specs[at[l]].name
  <2>1. /\ want[p] = Instance(order[k], place[p][2] - 1)
        /\ want[q] = Instance(order[l], place[q][2] - 1)
    BY <1>3, <1>4, <1>k, <1>l DEF Clones
  <2>2. Service(order[k]) /\ Service(order[l])
    BY <1>2, <1>3, <1>5 DEF Services
  <2>3. /\ want[p].app = order[k].name /\ want[p].depends_on = order[k].depends_on
        /\ want[q].app = order[l].name
    BY <2>1, <2>2, InstanceService
  <2> QED
    BY <1>2, <1>5, <2>3
<1>7. \A i \in 1..Len(specs) : specs[i].name # NONE
  <2>1. \A i \in DOMAIN order : order[i].name # NONE
    BY <1>s, <1>o DEF Planable, Expandable
  <2>2. DOMAIN order = 1..Len(specs)
    BY <1>2 DEF Listed
  <2> QED
    BY <2>1, <2>2, <1>2 DEF StartOrder
<1>8. at[k] \notin stuck
  BY <1>1, <1>2, <1>6, <1>7, <1>s, <1>w, StuckBehindCycle
<1>9. at[l] \in Needs(specs, at[k])
  <2>1. \A j \in 1..Len(specs) : specs[j].name = specs[at[l]].name => j = at[l]
    BY <1>1, <1>5, <1>6, <1>w, <1>s DEF Shared
  <2>2. at[l] \in Named(specs, specs[at[l]].name)
    BY <2>1, <1>1, <1>5 DEF Named
  <2> QED
    BY <2>2, <1>6, <1>w DEF Needs
<1>10. l < k
  <2>0. Needs(specs, at[k]) \subseteq {at[r] : r \in 1..(k - 1)}
    BY <1>2, <1>5, <1>8 DEF StartOrder
  <2>1. PICK r \in 1..(k - 1) : at[l] = at[r]
    BY <1>9, <2>0
  <2>2. r \in 1..Len(specs) /\ r < k
    BY <2>1, <1>1, <1>5
  <2>3. l = r
    BY <2>1, <2>2, <1>2, <1>5 DEF StartOrder
  <2> QED
    BY <2>2, <2>3
<1>11. ~(p < q) /\ p # q
  <2>1. p < q => Before(place[p], place[q])
    BY <1>3, <1>4 DEF Clones
  <2>2. Before(place[p], place[q]) => k <= l
    BY <1>5, <1>k, <1>l DEF Before
  <2> QED
    BY <2>1, <2>2, <1>10, <1>5, <1>k, <1>l
<1> QED
  BY <1>11, <1>4

\* What is left of a plan is what is left of the services it was made for, in their order.
InTurn(want, plan) ==
    \E done \in Nat : \A i \in 1..Len(plan) :
        plan[i].spec = NONE \/ (done + i \in DOMAIN want /\ plan[i].spec = want[done + i])

AllInTurn == \A c \in Clients : InTurn(Desired(src, client[c].opt), client[c].plan)

LEMMA InTurnInit == Init => AllInTurn
<1> SUFFICES ASSUME Init, NEW c \in Clients
             PROVE  InTurn(Desired(src, client[c].opt), client[c].plan)
  BY DEF AllInTurn
<1>1. client[c].plan = <<>>
  BY DEF Init
<1>2. 1..Len(<<>>) = {} /\ 0 \in Nat
  OBVIOUS
<1> QED
  BY <1>1, <1>2 DEF InTurn

LEMMA TailInTurn ==
    ASSUME NEW want, NEW plan, Listed(plan), plan # <<>>, InTurn(want, plan)
    PROVE  InTurn(want, Tail(plan))
<1>1. PICK done \in Nat : \A i \in 1..Len(plan) :
        plan[i].spec = NONE \/ (done + i \in DOMAIN want /\ plan[i].spec = want[done + i])
  BY DEF InTurn
<1>2. /\ Len(plan) \in Nat /\ Len(Tail(plan)) = Len(plan) - 1
      /\ \A i \in 1..(Len(plan) - 1) : Tail(plan)[i] = plan[i + 1]
  BY Tails DEF Listed
<1>3. ASSUME NEW i \in 1..Len(Tail(plan))
      PROVE  \/ Tail(plan)[i].spec = NONE
             \/ (done + 1) + i \in DOMAIN want /\ Tail(plan)[i].spec = want[(done + 1) + i]
  <2>1. i + 1 \in 1..Len(plan) /\ done + (i + 1) = (done + 1) + i /\ Tail(plan)[i] = plan[i + 1]
    BY <1>2
  <2> QED
    BY <1>1, <2>1
<1>4. done + 1 \in Nat
  OBVIOUS
<1> QED
  BY <1>3, <1>4 DEF InTurn

LEMMA DeletedInTurn ==
    ASSUME NEW want, NEW plan, PlanOK(want, plan), plan # <<>>, InTurn(want, plan)
    PROVE  InTurn(want, Deleted(plan))
<1>1. PICK done \in Nat : \A i \in 1..Len(plan) :
        plan[i].spec = NONE \/ (done + i \in DOMAIN want /\ plan[i].spec = want[done + i])
  BY DEF InTurn
<1>2. /\ Len(plan) \in Nat /\ Len(Deleted(plan)) = Len(plan) /\ Head(plan) = plan[1]
      /\ Deleted(plan)[1] = [Head(plan) EXCEPT !.do = "start"]
      /\ \A i \in 2..Len(plan) : Deleted(plan)[i] = plan[i]
  BY Tails, DeletedElements DEF PlanOK, Listed
<1>3. Deleted(plan)[1].spec = plan[1].spec
  <2>1. plan[1] = [spec |-> plan[1].spec, name |-> plan[1].name, do |-> plan[1].do]
    BY <1>2, TailFits DEF Fits
  <2>2. [plan[1] EXCEPT !.do = "start"].spec = plan[1].spec
    BY <2>1
  <2> QED
    BY <1>2, <2>2
<1>4. ASSUME NEW i \in 1..Len(plan) PROVE Deleted(plan)[i].spec = plan[i].spec
  <2>1. CASE i = 1
    BY <1>3, <2>1
  <2>2. CASE i # 1
    <3>1. i \in 2..Len(plan)
      BY <1>2, <2>2
    <3>2. Deleted(plan)[i] = plan[i]
      BY <1>2, <3>1
    <3> QED
      BY <3>2
  <2> QED
    BY <2>1, <2>2
<1> QED
  BY <1>1, <1>2, <1>4 DEF InTurn

LEMMA InTurnStep == Typed /\ AllInTurn /\ [Next]_vars => AllInTurn'
<1> SUFFICES ASSUME Typed, AllInTurn, [Next]_vars PROVE AllInTurn'
  OBVIOUS
<1>1. CASE src' = src /\ client' = client
  BY <1>1 DEF AllInTurn
<1>2. ASSUME NEW c \in Clients, Act(c) PROVE AllInTurn'
  <2>w. PICK want : want = Desired(src, client[c].opt)
    OBVIOUS
  <2>1. /\ src' = src /\ client'[c].opt = client[c].opt
        /\ \A d \in Clients \ {c} : client'[d] = client[d]
    BY <1>2, ClientSteps
  <2>2. InTurn(want, client[c].plan) /\ ClientOK(src, client[c]) /\ PlanOK(want, client[c].plan)
    BY <2>w DEF AllInTurn, Typed, ClientsOK, ClientOK
  <2>3. InTurn(want, client'[c].plan)
    <3>1. CASE Plan(c)
      <4>1. CASE client'[c].plan = <<>>
        <5>1. 1..Len(<<>>) = {} /\ 0 \in Nat
          OBVIOUS
        <5> QED
          BY <4>1, <5>1 DEF InTurn
      <4>2. CASE client'[c].plan # <<>>
        <5>p. PICK plan : plan = PlanOf(want, client[c].opt.prune)
          OBVIOUS
        <5>1. client'[c].pc = "running"
          BY <3>1, <4>2, PlanStep DEF ClientOK
        <5>2. client'[c].plan = plan /\ Planable(src, client[c].opt)
          BY <3>1, <5>1, <5>p, <2>w, PlanStep
        <5>3. Len(want) \in Nat /\ DOMAIN want = 1..Len(want)
          BY <5>2, <2>w, DesiredNamed DEF Typed, ClientsOK, ClientOK
        <5>4. \A i \in 1..Len(plan) :
                 \/ i \in DOMAIN want /\ plan[i] = PlanFor(want[i])
                 \/ \E n \in Stale(want, client[c].opt.prune) : plan[i] = Drop(n)
          BY <5>3, <5>p, Planned DEF Typed, TableOK
        <5>5. \A x : PlanFor(x).spec = x
          BY DEF PlanFor
        <5>6. \A n : Drop(n).spec = NONE
          BY DEF Drop
        <5>7. \A i \in 1..Len(plan) :
                 plan[i].spec = NONE \/ (i \in DOMAIN want /\ plan[i].spec = want[i])
          BY <5>4, <5>5, <5>6
        <5>8. \A i \in 1..Len(plan) : 0 + i = i
          BY <3>1, <5>2, PlanStep DEF ClientOK, PlanOK, Listed
        <5> QED
          BY <5>2, <5>7, <5>8 DEF InTurn
      <4> QED
        BY <4>1, <4>2
    <3>2. CASE Recreate(c)
      BY <2>2, <3>2, RecreateFields, DeletedInTurn
    <3>3. CASE client'[c].plan = client[c].plan
      BY <2>2, <3>3
    <3>4. CASE client'[c].plan = Tail(client[c].plan) /\ client[c].plan # <<>>
      BY <2>2, <3>4, TailInTurn DEF PlanOK
    <3> QED
      BY <1>2, <3>1, <3>2, <3>3, <3>4, ClientSteps
  <2>4. ASSUME NEW d \in Clients PROVE InTurn(Desired(src', client'[d].opt), client'[d].plan)
    BY <2>1, <2>3, <2>w DEF AllInTurn
  <2> QED
    BY <2>4 DEF AllInTurn
<1> QED
  BY <1>1, <1>2 DEF Next, vars, Exits, Export, Import

(* For any file, whatever the names, orders and dependencies of its apps,  *)
(* and however far apply has got: what is left of a plan attends to a      *)
(* service after the ones it depends on, unless they depend on themselves  *)
(* in the end or share their name.                                         *)
THEOREM DependenciesComeFirst == Spec => []DependenciesFirst
<1>1. Typed /\ AllInTurn => DependenciesFirst
  <2> SUFFICES ASSUME Typed, AllInTurn, NEW c \in Clients,
                      NEW i \in DOMAIN client[c].plan, NEW j \in DOMAIN client[c].plan,
                      client[c].plan[i].spec # NONE, client[c].plan[j].spec # NONE,
                      client[c].plan[j].spec.app \in client[c].plan[i].spec.depends_on,
                      client[c].plan[j].spec.app \notin Shared(Selected(src, client[c].opt)),
                      client[c].plan[i].spec.app \notin BehindCycle(Selected(src, client[c].opt))
               PROVE  j < i
    BY DEF DependenciesFirst
  <2>p. PICK plan : plan = client[c].plan
    OBVIOUS
  <2>w. PICK want : want = Desired(src, client[c].opt)
    OBVIOUS
  <2>1. Listed(plan) /\ ClientOK(src, client[c]) /\ client[c].opt \in Options /\ src \in Sources
    BY <2>p DEF Typed, ClientsOK, ClientOK, PlanOK
  <2>2. i \in 1..Len(plan) /\ j \in 1..Len(plan) /\ Len(plan) \in Nat
    BY <2>1, <2>p DEF Listed
  <2>3. Planable(src, client[c].opt)
    <3>1. plan # <<>>
      BY <2>2
    <3> QED
      BY <2>1, <2>p, <3>1 DEF ClientOK
  <2>4. PICK done \in Nat : \A k \in 1..Len(plan) :
          plan[k].spec = NONE \/ (done + k \in DOMAIN want /\ plan[k].spec = want[done + k])
    BY <2>p, <2>w DEF AllInTurn, InTurn
  <2>5. /\ done + i \in DOMAIN want /\ plan[i].spec = want[done + i]
        /\ done + j \in DOMAIN want /\ plan[j].spec = want[done + j]
    BY <2>2, <2>4, <2>p
  <2>6. done + j < done + i
    BY <2>1, <2>3, <2>5, <2>p, <2>w, DesiredWaits
  <2> QED
    BY <2>2, <2>6
<1> QED
  BY <1>1, AlwaysTyped, InTurnInit, InTurnStep, PTL DEF Spec

\* Of all places, Only takes everything.
LEMMA OnlyAll ==
    ASSUME NEW list, Listed(list), NEW places, DOMAIN list \subseteq places
    PROVE  Only(list, places) = list
<1>n. PICK n : n = Len(list)
  OBVIOUS
<1>o. PICK some : some = Only(list, places)
  OBVIOUS
<1>m. PICK m : m = Len(some)
  OBVIOUS
<1>0. n \in Nat /\ DOMAIN list = 1..n /\ list = [i \in 1..n |-> list[i]]
  BY <1>n DEF Listed
<1>1. PICK at : Listed(some) /\ Picks(some, list, places, at)
  BY <1>o, OnlyPicks
<1>2. m \in Nat /\ some = [i \in 1..m |-> some[i]]
  BY <1>1, <1>m DEF Listed
<1>3. /\ \A p \in 1..m : at[p] \in 1..n /\ some[p] = list[at[p]]
      /\ \A p, q \in 1..m : p < q => at[p] < at[q]
      /\ \A i \in 1..n : \E p \in 1..m : at[p] = i
  BY <1>0, <1>1, <1>m DEF Picks
<1>s. PICK S : S = {k \in Nat : \A p \in 1..k : p \in 1..n => p \in 1..m /\ at[p] = p}
  OBVIOUS
<1>4. 0 \in S
  BY <1>s
<1>5. ASSUME NEW k \in Nat, k \in S PROVE k + 1 \in S
  <2>1. \A p \in 1..k : p \in 1..n => p \in 1..m /\ at[p] = p
    BY <1>5, <1>s
  <2>2. ASSUME k + 1 \in 1..n PROVE k + 1 \in 1..m /\ at[k + 1] = k + 1
    <3>1. PICK q \in 1..m : at[q] = k + 1
      BY <1>3, <2>2
    <3>2. q \notin 1..k
      <4>1. \A p \in 1..k : p \in 1..n
        BY <1>0, <2>2
      <4> QED
        BY <2>1, <3>1, <4>1
    <3>3. ASSUME k + 1 < q PROVE FALSE
      <4>1. k + 1 \in 1..m
        BY <1>2, <3>1, <3>3
      <4>2. at[k + 1] \in 1..k
        BY <1>3, <3>1, <3>3, <4>1
      <4>r. PICK r \in 1..k : r = at[k + 1]
        BY <4>2
      <4>3. r \in 1..n /\ r \in 1..m /\ at[r] = r
        BY <1>3, <2>1, <4>1, <4>r
      <4>4. r < k + 1
        BY <4>r
      <4> QED
        BY <1>3, <4>1, <4>3, <4>4, <4>r
    <3> QED
      BY <1>2, <3>1, <3>2, <3>3
  <2>3. \A p \in 1..(k + 1) : p \in 1..k \/ p = k + 1
    OBVIOUS
  <2> QED
    BY <2>1, <2>2, <2>3, <1>s
<1>6. \A p \in 1..n : p \in 1..m /\ at[p] = p
  <2>1. n \in S
    BY <1>0, <1>4, <1>5, Inductive
  <2> QED
    BY <2>1, <1>s
<1>7. m = n
  <2>1. n <= m
    BY <1>0, <1>2, <1>6
  <2>2. ASSUME n < m PROVE FALSE
    <3>1. n + 1 \in 1..m /\ at[n + 1] \in 1..n
      BY <1>0, <1>2, <1>3, <2>2
    <3>r. PICK r \in 1..n : r = at[n + 1]
      BY <3>1
    <3>2. r \in 1..m /\ at[r] = r /\ r < n + 1
      BY <1>0, <1>6, <3>r
    <3>3. at[r] < at[n + 1]
      BY <1>3, <3>1, <3>2
    <3> QED
      BY <3>2, <3>3, <3>r
  <2> QED
    BY <1>0, <1>2, <2>1, <2>2
<1>8. \A p \in 1..n : some[p] = list[p]
  BY <1>3, <1>6
<1> QED
  BY <1>0, <1>2, <1>7, <1>8, <1>o

-----------------------------------------------------------------------------
(* ValidatedStarts.                                                        *)

\* No name twice.
Apart(all) == \A i, j \in DOMAIN all : all[i].name = all[j].name => i = j

\* validate expands the apps that have a name.
LEMMA ValidApart ==
    ASSUME NEW specs, Valid(specs)
    PROVE  Apart(Expanded(Only(specs, {i \in DOMAIN specs : specs[i].name # NONE})))
  BY Zenon DEF Valid, Apart

\* The instances of some services have different names in whatever order.
LEMMA OrderedApart ==
    ASSUME NEW specs, Services(specs), Comparable(specs), Apart(Expanded(specs))
    PROVE  Apart(Expanded(Ordered(specs)))
<1>o. PICK order : order = Ordered(specs)
  OBVIOUS
<1>a. PICK all : all = Expanded(specs)
  OBVIOUS
<1>b. PICK again : again = Expanded(order)
  OBVIOUS
<1>1. PICK at, stuck : /\ Len(order) = Len(specs) /\ Listed(order)
                       /\ StartOrder(specs, at, stuck)
                       /\ \A k \in 1..Len(specs) : order[k] = specs[at[k]]
  BY <1>o, OrderedInOrder
<1>2. Services(order)
  BY <1>o, OrderedServices
<1>3. PICK f : Listed(all) /\ Clones(all, specs, f)
  BY <1>a, ExpandedClones DEF Services, Service
<1>4. PICK g : Listed(again) /\ Clones(again, order, g)
  BY <1>b, <1>2, ExpandedClones DEF Services, Service
<1>5. DOMAIN all = 1..Len(all) /\ DOMAIN again = 1..Len(again) /\ Len(again) \in Nat
  BY <1>3, <1>4 DEF Listed
<1>6. ASSUME NEW i \in 1..Len(again)
      PROVE  \E p \in 1..Len(all) : /\ again[i] = all[p] /\ g[i][1] \in 1..Len(specs)
                                    /\ f[p] = <<at[g[i][1]], g[i][2]>>
                                    /\ g[i] = <<g[i][1], g[i][2]>>
                                    /\ g[i][1] \in Int /\ g[i][2] \in Int
  <2>1. g \in [1..Len(again) -> (1..Len(specs)) \X Nat]
    BY <1>1, <1>4 DEF Clones
  <2>k. PICK k : k = g[i][1]
    OBVIOUS
  <2>c. PICK c : c = g[i][2]
    OBVIOUS
  <2>2. k \in 1..Len(specs) /\ c \in Nat /\ g[i] = <<k, c>>
    BY <2>1, <2>k, <2>c
  <2>3. c \in 1..order[k].instances /\ again[i] = Instance(order[k], c - 1)
    BY <1>4, <2>k, <2>c DEF Clones
  <2>4. order[k] = specs[at[k]] /\ at[k] \in 1..Len(specs)
    BY <1>1, <2>2 DEF StartOrder
  <2>5. PICK p \in 1..Len(all) : f[p] = <<at[k], c>>
    BY <1>3, <2>3, <2>4 DEF Clones
  <2>6. all[p] = Instance(specs[at[k]], c - 1)
    <3>1. all[p] = Instance(specs[f[p][1]], f[p][2] - 1)
      BY <1>3 DEF Clones
    <3> QED
      BY <2>5, <3>1
  <2> QED
    BY <2>2, <2>3, <2>4, <2>5, <2>6, <2>k, <2>c
<1> SUFFICES ASSUME NEW i \in 1..Len(again), NEW j \in 1..Len(again), again[i].name = again[j].name
             PROVE  i = j
  BY <1>5, <1>b, <1>o DEF Apart
<1>7. PICK p \in 1..Len(all) : /\ again[i] = all[p] /\ g[i][1] \in 1..Len(specs)
                               /\ f[p] = <<at[g[i][1]], g[i][2]>>
                               /\ g[i] = <<g[i][1], g[i][2]>>
                               /\ g[i][1] \in Int /\ g[i][2] \in Int
  BY <1>6
<1>8. PICK q \in 1..Len(all) : /\ again[j] = all[q] /\ g[j][1] \in 1..Len(specs)
                               /\ f[q] = <<at[g[j][1]], g[j][2]>>
                               /\ g[j] = <<g[j][1], g[j][2]>>
                               /\ g[j][1] \in Int /\ g[j][2] \in Int
  BY <1>6
<1>9. p = q
  BY <1>5, <1>7, <1>8, <1>a DEF Apart
<1>10. at[g[i][1]] = at[g[j][1]] /\ g[i][2] = g[j][2]
  BY <1>7, <1>8, <1>9
<1>11. g[i][1] = g[j][1]
  BY <1>1, <1>7, <1>8, <1>10 DEF StartOrder
<1>12. ~Before(g[i], g[j]) /\ ~Before(g[j], g[i])
  BY <1>7, <1>8, <1>10, <1>11 DEF Before
<1> QED
  BY <1>4, <1>5, <1>12 DEF Clones

(* Whatever validate accepts of any file, with a name for each app, apply  *)
(* can carry out: the expansion gives no name twice, whatever the order of *)
(* start, and the daemon refuses no start but for its name.                *)
THEOREM ValidFilesStart == Spec => []ValidatedStarts
<1>1. Typed => ValidatedStarts
  <2> SUFFICES ASSUME src \in Sources, NEW opt \in Options, Readable(src),
                      Valid(Selected(src, opt)),
                      \A i \in DOMAIN Selected(src, opt) : Selected(src, opt)[i].name # NONE
               PROVE  /\ Expandable(Ordered(Selected(src, opt)))
                      /\ \A i \in DOMAIN Desired(src, opt) :
                            \/ Desired(src, opt)[i].name \in BadNames
                            \/ Accepts(Desired(src, opt)[i])
    BY DEF Typed, ValidatedStarts
  <2>s. PICK specs : specs = Selected(src, opt)
    OBVIOUS
  <2>o. PICK order : order = Ordered(specs)
    OBVIOUS
  <2>w. PICK want : want = Desired(src, opt)
    OBVIOUS
  <2>1. Services(specs) /\ Comparable(specs) /\ Listed(specs) /\ DOMAIN specs = 1..Len(specs)
    BY <2>s, SelectedServices DEF Services, Listed
  <2>2. PICK at, stuck : /\ Len(order) = Len(specs) /\ Listed(order)
                         /\ StartOrder(specs, at, stuck)
                         /\ \A k \in 1..Len(specs) : order[k] = specs[at[k]]
    BY <2>1, <2>o, OrderedInOrder
  <2>3. Apart(Expanded(specs))
    <3>1. Only(specs, {i \in DOMAIN specs : specs[i].name # NONE}) = specs
      BY <2>1, <2>s, OnlyAll
    <3>2. Apart(Expanded(Only(specs, {i \in DOMAIN specs : specs[i].name # NONE})))
      BY <2>s, ValidApart
    <3> QED
      BY <3>1, <3>2
  <2>4. Apart(Expanded(order))
    BY <2>1, <2>3, <2>o, OrderedApart
  <2>5. \A k \in DOMAIN order : order[k].name # NONE
    BY <2>1, <2>2, <2>s DEF Listed, StartOrder
  <2>6. Expandable(order)
    BY <2>4, <2>5 DEF Expandable, Apart
  <2>7. ASSUME NEW i \in DOMAIN want, want[i].name \notin BadNames PROVE Accepts(want[i])
    <3>1. PICK place : Listed(want) /\ Services(order) /\ Clones(want, order, place)
      BY <2>s, <2>o, <2>w, DesiredInstances
    <3>2. i \in 1..Len(want)
      BY <3>1 DEF Listed
    <3>k. PICK k : k = place[i][1]
      OBVIOUS
    <3>3. k \in 1..Len(order) /\ want[i] = Instance(order[k], place[i][2] - 1)
      BY <3>1, <3>2, <3>k DEF Clones
    <3>4. want[i].command = order[k].command /\ want[i].cluster_mode = order[k].cluster_mode
      BY <3>1, <3>3, InstanceService DEF Services
    <3>5. order[k] = specs[at[k]] /\ at[k] \in DOMAIN specs
      BY <2>1, <2>2, <3>3 DEF StartOrder
    <3>6. specs[at[k]].command # NoCommand /\ ClusterOk(specs[at[k]])
      BY <3>5, <2>s DEF Valid
    <3> QED
      BY <2>7, <3>4, <3>5, <3>6 DEF Accepts, ClusterOk
  <2> QED
    BY <2>6, <2>7, <2>s, <2>o, <2>w
<1> QED
  BY <1>1, AlwaysTyped, PTL

-----------------------------------------------------------------------------
(* ConvertedRunsAlike.                                                     *)

\* A text with nothing to expand is what it expands to,
LEMMA LiteralStays ==
    ASSUME NEW text, Listed(text), Literal(text)
    PROVE  Expand(text) = text /\ Expands(text)
<1>1. Tilde(text) = text
  BY DEF Literal, Tilde
<1>2. DOMAIN text = 1..Len(text) /\ \A i \in DOMAIN text : text[i] \in ToSet(text)
  BY DEF Listed, ToSet
<1>3. \A i \in DOMAIN text : Token(text[i]) = <<text[i]>>
  BY <1>2 DEF Literal, Token
<1>4. Expand(text) = Only(text, DOMAIN text)
  <2>1. [i \in DOMAIN text |-> Token(text[i])]
        = [i \in DOMAIN text |-> IF i \in DOMAIN text THEN <<text[i]>> ELSE <<>>]
    BY <1>3
  <2> QED
    BY <1>1, <2>1 DEF Expand, Only
<1>5. Expand(text) = text
  BY <1>4, OnlyAll
<1>6. Expands(text)
  BY <1>1 DEF Expands, Literal
<1> QED
  BY <1>5, <1>6

\* and an absolute path with nothing to expand stays where it is.
LEMMA PathStays ==
    ASSUME NEW path, path # NONE => Listed(path) /\ Literal(path) /\ Absolute(path), NEW base
    PROVE  Placed(base, path) = path
  BY LiteralStays DEF Placed, Joined

\* Blank entries are gone, and a threshold of a check is above zero.
Trimmed(entries) == NotBlank(entries) = entries
Checks(health) ==
    health # NONE => /\ health = [command |-> health.command, interval |-> health.interval]
                     /\ health.command # NONE /\ health.interval # NONE
                     /\ AtLeast1(health.interval) = health.interval
Limiting(limits) == \E mem, gpu : limits = LimitsOf(mem, gpu)

LEMMA TrimmedOnce == ASSUME NEW entries PROVE Trimmed(NotBlank(entries))
  BY DEF Trimmed, NotBlank

LEMMA WatchTrimmed == ASSUME NEW w PROVE Trimmed(WatchOf(w).paths)
<1>1. Trimmed({}) /\ Trimmed(NotBlank(w.paths))
  BY DEF Trimmed, NotBlank
<1>2. WatchOf(w).paths = IF w = NONE THEN {} ELSE NotBlank(w.paths)
  BY DEF WatchOf
<1> QED
  BY <1>1, <1>2

LEMMA HealthChecks == ASSUME NEW cmd, NEW interval PROVE Checks(HealthOf(cmd, interval))
<1>m. PICK m : m = Or(interval, 30)
  OBVIOUS
<1>h. PICK h : h = HealthOf(cmd, interval)
  OBVIOUS
<1>1. m # NONE /\ 1 # NONE
  BY <1>m, ApplyAssumption DEF Or
<1>2. AtLeast1(m) # NONE /\ AtLeast1(AtLeast1(m)) = AtLeast1(m)
  BY <1>1 DEF AtLeast1
<1>3. h = IF cmd = NONE THEN NONE ELSE [command |-> cmd, interval |-> AtLeast1(m)]
  BY <1>h, <1>m DEF HealthOf
<1> QED
  BY <1>2, <1>3, <1>h DEF Checks

\* An environment that is no more than its variables.
Function(env) == env = [k \in DOMAIN env |-> env[k]]

\* What an entry of an ecosystem file is, with or without a profile.
LEMMA EcoShape ==
    ASSUME NEW app, NEW profile, NEW order
    PROVE  LET r == EcoResolved(app, profile, order)
           IN  /\ Trimmed(r.ignore_watch) /\ Trimmed(r.watch_paths)
               /\ Checks(r.health) /\ Limiting(r.limits)
<1>e. PICK e : e = Entry(app.layer, order)
  OBVIOUS
<1>1. {"ignore_watch", "watch_paths", "health", "limits"} \subseteq DOMAIN e
  BY <1>e DEF Entry
<1>2. \E x : e.ignore_watch = NotBlank(x)
  BY <1>e DEF Entry
<1>3. \E x : e.watch_paths = WatchOf(x).paths
  BY <1>e DEF Entry
<1>4. \E x, y : e.health = HealthOf(x, y)
  BY <1>e DEF Entry
<1>5. \E x, y : e.limits = LimitsOf(x, y)
  <2>1. e.limits = LimitsOf(Ceiling(app.layer.max_memory_restart, app.layer.max_memory_mb),
                            Or(app.layer["deny_gpu"], FALSE))
    BY <1>e DEF Entry
  <2> QED
    BY <2>1
<1>6. Trimmed(e.ignore_watch) /\ Trimmed(e.watch_paths) /\ Checks(e.health) /\ Limiting(e.limits)
  BY <1>2, <1>3, <1>4, <1>5, TrimmedOnce, WatchTrimmed, HealthChecks DEF Limiting
<1>p. PICK p : p = app.profiles[profile]
  OBVIOUS
<1>q. PICK q : q = Overridden(e, p)
  OBVIOUS
<1>8. /\ q.ignore_watch = NotBlank(Or(p.ignore_watch, e.ignore_watch))
      /\ q.watch_paths = IF p.watch = NONE THEN e.watch_paths ELSE WatchOf(p.watch).paths
      /\ q.health = OverriddenHealth(e.health, p) /\ q.limits = OverriddenLimits(e.limits, p)
  BY <1>1, <1>q DEF Overridden
<1>9. q.health = e.health \/ \E x, y : q.health = HealthOf(x, y)
  BY <1>8 DEF OverriddenHealth
<1>10. Limiting(q.limits)
  BY <1>8 DEF OverriddenLimits, Limiting
<1>11. Trimmed(q.ignore_watch) /\ Trimmed(q.watch_paths) /\ Checks(q.health)
  BY <1>6, <1>8, <1>9, TrimmedOnce, WatchTrimmed, HealthChecks
<1>12. EcoResolved(app, profile, order) = IF profile \in DOMAIN app.profiles THEN q ELSE e
  BY <1>e, <1>p, <1>q DEF EcoResolved
<1> QED
  BY <1>6, <1>10, <1>11, <1>12

\* The parts of a specification that are not expanded are what they were.
Specified(x, app, r, base) ==
    /\ x.name = app.name /\ x.command = app.command
    /\ \A f \in DOMAIN r \ {"env", "cwd", "stdout", "stderr"} : x[f] = r[f]
    /\ x.env = [k \in DOMAIN r.env |-> Expand(r.env[k])]
    /\ x.cwd = Placed(base, r.cwd)
    /\ x.stdout = Placed(base, r.stdout) /\ x.stderr = Placed(base, r.stderr)

LEMMA SpecFields ==
    ASSUME NEW app, NEW r, Sound(r), NEW base,
           NEW x, x = SpecOf(app, r, base)
    PROVE  Specified(x, app, r, base)
<1>v. PICK v : v = [k \in DOMAIN r.env |-> Expand(r.env[k])]
  OBVIOUS
<1>e. PICK e : e = [r EXCEPT !.env = v, !.cwd = Placed(base, r.cwd),
                             !.stdout = Placed(base, r.stdout),
                             !.stderr = Placed(base, r.stderr)]
  OBVIOUS
<1>m. PICK m : m = [name |-> app.name, command |-> app.command]
  OBVIOUS
<1>x. x = Extended(e, m)
  BY <1>v, <1>e, <1>m DEF SpecOf
<1>1. /\ DOMAIN e = DOMAIN r /\ {"env", "cwd", "stdout", "stderr"} \subseteq DOMAIN r
      /\ "name" \notin DOMAIN e /\ "command" \notin DOMAIN e
  BY <1>e DEF Sound, Configured
<1>2. /\ e["env"] = v /\ e["cwd"] = Placed(base, r.cwd)
      /\ e["stdout"] = Placed(base, r.stdout) /\ e["stderr"] = Placed(base, r.stderr)
      /\ \A f \in DOMAIN r \ {"env", "cwd", "stdout", "stderr"} : e[f] = r[f]
  BY <1>e, <1>1
<1>3. /\ \A f \in DOMAIN e : x[f] = e[f]
      /\ x["name"] = app.name /\ x["command"] = app.command
  BY <1>x, <1>m, <1>1 DEF Extended
<1> QED
  BY <1>1, <1>2, <1>3, <1>v DEF Specified

\* What is written of a service, setting by setting.
LEMMA WrittenLayer ==
    ASSUME NEW s
    PROVE  LET l == Written(s).layer
           IN  /\ \A f \in {"cwd", "env", "max_restarts", "stop_timeout_secs", "ignore_watch",
                             "watch_delay_secs", "cluster_mode", "cluster_instances",
                             "instances", "start_order", "depends_on"} : l[f] = s[f]
               /\ l.watch = WrittenWatch(s)
               /\ l.health_cmd = (IF s.health = NONE THEN NONE ELSE s.health.command)
               /\ l.health_interval_secs = (IF s.health = NONE THEN NONE ELSE s.health.interval)
               /\ l.max_memory_mb = MemOf(s.limits)
               /\ l.deny_gpu = (IF GpuOf(s.limits) THEN TRUE ELSE NONE)
               /\ l.wait_ready = (IF s.wait_ready THEN s.wait_ready ELSE NONE)
               /\ l.ready_timeout_secs = (IF s.wait_ready THEN s.ready_timeout_secs ELSE NONE)
               /\ l.stdout = (IF s.stdout = s.stderr THEN NONE ELSE s.stdout)
               /\ l.stderr = (IF s.stdout = s.stderr THEN NONE ELSE s.stderr)
               /\ l.combined = (IF s.stdout = s.stderr THEN s.stdout ELSE NONE)
               /\ l.pull_secret = NONE /\ l.disabled = NONE
<1>l. PICK l : l = Written(s).layer
  OBVIOUS
<1>g. PICK g : g = IF GpuOf(s.limits) THEN TRUE ELSE NONE
  OBVIOUS
<1>0. l = [f \in Fields |->
             CASE f = "watch" -> WrittenWatch(s)
               [] f = "health_cmd" -> IF s.health = NONE THEN NONE ELSE s.health.command
               [] f = "health_interval_secs" ->
                     IF s.health = NONE THEN NONE ELSE s.health.interval
               [] f = "max_memory_mb" -> MemOf(s.limits)
               [] f = "deny_gpu"      -> g
               [] f \in {"wait_ready", "ready_timeout_secs"} ->
                     IF s.wait_ready THEN s[f] ELSE NONE
               [] f \in {"stdout", "stderr", "combined"} -> WrittenLog(s, f)
               [] f \in {"pull_secret", "disabled"} -> NONE
               [] OTHER -> s[f]]
  BY <1>l, <1>g DEF Written
<1>1. \A f \in {"cwd", "env", "max_restarts", "stop_timeout_secs", "ignore_watch",
               "watch_delay_secs", "cluster_mode", "cluster_instances",
               "instances", "start_order", "depends_on"} : l[f] = s[f]
  BY <1>0 DEF Fields
<1>2. /\ l["watch"] = WrittenWatch(s)
      /\ l["health_cmd"] = (IF s.health = NONE THEN NONE ELSE s.health.command)
      /\ l["health_interval_secs"] = (IF s.health = NONE THEN NONE ELSE s.health.interval)
      /\ l["max_memory_mb"] = MemOf(s.limits) /\ l["deny_gpu"] = g
  BY <1>0 DEF Fields
<1>3. /\ l["wait_ready"] = (IF s.wait_ready THEN s["wait_ready"] ELSE NONE)
      /\ l["ready_timeout_secs"] = (IF s.wait_ready THEN s["ready_timeout_secs"] ELSE NONE)
      /\ l["pull_secret"] = NONE /\ l["disabled"] = NONE
  BY <1>0 DEF Fields
<1>4. /\ l["stdout"] = WrittenLog(s, "stdout") /\ l["stderr"] = WrittenLog(s, "stderr")
      /\ l["combined"] = WrittenLog(s, "combined")
  BY <1>0 DEF Fields
<1>5. /\ WrittenLog(s, "stdout") = IF s.stdout = s.stderr THEN NONE ELSE s["stdout"]
      /\ WrittenLog(s, "stderr") = IF s.stdout = s.stderr THEN NONE ELSE s["stderr"]
      /\ WrittenLog(s, "combined") = IF s.stdout = s.stderr THEN s["stdout"] ELSE NONE
  BY DEF WrittenLog
<1> QED
  BY <1>1, <1>2, <1>3, <1>4, <1>5, <1>l, <1>g

\* Limits, checks and the watch come back from what is written of them.
LEMMA LimitsBack ==
    ASSUME NONE \notin BOOLEAN, NEW limits, Limiting(limits),
           limits # NONE => limits.gpu \in BOOLEAN
    PROVE  LimitsOf(MemOf(limits), Or(IF GpuOf(limits) THEN TRUE ELSE NONE, FALSE)) = limits
<1>1. PICK mem, gpu : limits = LimitsOf(mem, gpu)
  BY DEF Limiting
<1>c. PICK c : c = IF mem = 0 THEN NONE ELSE mem
  OBVIOUS
<1>2. c # 0 /\ 0 # NONE
  BY <1>c, ApplyAssumption
<1>3. limits = IF c = NONE /\ ~gpu THEN NONE ELSE [mem |-> c, gpu |-> gpu]
  BY <1>1, <1>c DEF LimitsOf
<1>4. CASE limits = NONE
  <2>1. MemOf(limits) = NONE /\ ~GpuOf(limits)
    BY <1>4 DEF MemOf, GpuOf
  <2>2. Or(NONE, FALSE) = FALSE
    BY DEF Or
  <2>3. LimitsOf(NONE, FALSE) = NONE
    BY <1>2 DEF LimitsOf
  <2> QED
    BY <1>4, <2>1, <2>2, <2>3
<1>5. CASE limits # NONE
  <2>1. limits = [mem |-> c, gpu |-> gpu] /\ gpu \in BOOLEAN
    BY <1>3, <1>5
  <2>2. MemOf(limits) = c /\ (GpuOf(limits) <=> gpu)
    BY <1>5, <2>1 DEF MemOf, GpuOf
  <2>3. CASE gpu = TRUE
    <3>1. Or(IF GpuOf(limits) THEN TRUE ELSE NONE, FALSE) = TRUE
      BY <2>2, <2>3 DEF Or
    <3>2. LimitsOf(c, TRUE) = [mem |-> c, gpu |-> TRUE]
      BY <1>2 DEF LimitsOf
    <3> QED
      BY <2>1, <2>2, <2>3, <3>1, <3>2
  <2>4. CASE gpu = FALSE
    <3>1. Or(IF GpuOf(limits) THEN TRUE ELSE NONE, FALSE) = FALSE
      BY <2>2, <2>4 DEF Or
    <3>2. c # NONE
      BY <1>3, <1>5, <2>4
    <3>3. LimitsOf(c, FALSE) = [mem |-> c, gpu |-> FALSE]
      BY <1>2, <3>2 DEF LimitsOf
    <3> QED
      BY <2>1, <2>2, <2>4, <3>1, <3>3
  <2> QED
    BY <2>1, <2>3, <2>4
<1> QED
  BY <1>4, <1>5

LEMMA HealthBack ==
    ASSUME NEW health, Checks(health)
    PROVE  HealthOf(IF health = NONE THEN NONE ELSE health.command,
                    IF health = NONE THEN NONE ELSE health.interval) = health
  BY DEF Checks, HealthOf, Or

LEMMA WatchBack ==
    ASSUME NEW s, s.watch \in BOOLEAN, Trimmed(s.watch_paths), s.watch => WrittenWatch(s) # NONE
    PROVE  /\ WatchOf(WrittenWatch(s)).on = s.watch
           /\ s.watch => WatchOf(WrittenWatch(s)).paths = s.watch_paths
<1>1. CASE s.watch = FALSE
  BY <1>1 DEF WrittenWatch, WatchOf
<1>w. PICK w : w = WrittenWatch(s)
  OBVIOUS
<1>2. ASSUME w # NONE
      PROVE  /\ w.list = FALSE => WatchOf(w).on = w.on
             /\ w.list = TRUE => WatchOf(w).on = (NotBlank(w.paths) # {})
             /\ WatchOf(w).paths = NotBlank(w.paths)
  BY <1>2 DEF WatchOf
<1>3. CASE s.watch = TRUE
  <2>1. w # NONE /\ NotBlank(s.watch_paths) = s.watch_paths
    BY <1>3, <1>w DEF Trimmed
  <2>2. w = IF s.watch_paths = {} THEN [list |-> FALSE, on |-> TRUE, paths |-> {}]
            ELSE [list |-> TRUE, on |-> TRUE, paths |-> s.watch_paths]
    BY <1>3, <1>w DEF WrittenWatch, WatchFlag, WatchList
  <2>3. /\ w.list = (s.watch_paths # {}) /\ w.on = TRUE /\ w.paths = s.watch_paths
    BY <2>2
  <2>4. WatchOf(w).on = TRUE /\ WatchOf(w).paths = s.watch_paths
    BY <1>2, <2>1, <2>3
  <2> QED
    BY <1>3, <1>w, <2>4
<1> QED
  BY <1>1, <1>3

\* A service as it is given, what is written of it and what that resolves to.
Regular(s) ==
    /\ Service(s) /\ Given(s) /\ Function(s.env)
    /\ Trimmed(s.ignore_watch) /\ Trimmed(s.watch_paths)
    /\ Checks(s.health) /\ Limiting(s.limits)

Restored(r, s) ==
    /\ Sound(r)
    /\ \A f \in {"cwd", "env", "max_restarts", "stop_timeout_secs", "watch",
                  "cluster_mode", "instances", "start_order", "depends_on",
                  "health", "limits", "wait_ready", "stdout", "stderr"} :
          f \in DOMAIN r /\ r[f] = s[f]
    /\ s.watch => \A f \in {"watch_paths", "ignore_watch", "watch_delay_secs"} :
                     f \in DOMAIN r /\ r[f] = s[f]
    /\ s.cluster_mode => r.cluster_instances = s.cluster_instances
    /\ s.wait_ready => r.ready_timeout_secs = s.ready_timeout_secs
    /\ r.disabled = FALSE

LEMMA WrittenResolved ==
    ASSUME NONE \notin BOOLEAN, NEW s, Regular(s), NEW order \in Int,
           NEW r, r = Resolved(Written(s), EmptyLayer, NONE, order)
    PROVE  Restored(r, s)
<1> USE DEF Regular
<1>l. PICK l : l = Written(s).layer
  OBVIOUS
<1>d. PICK d : d = EmptyLayer
  OBVIOUS
<1>b. PICK b : b = Base(l, d, order)
  OBVIOUS
<1>q. PICK q : q = Settled(b)
  OBVIOUS
<1>r. r = q
  <2>1. Written(s).profiles = <<>>
    BY DEF Written
  <2>2. NONE \notin DOMAIN <<>>
    OBVIOUS
  <2> QED
    BY <2>1, <2>2, <1>l, <1>d, <1>b, <1>q DEF Resolved
<1>2. \A f \in Fields : d[f] = NONE
  BY <1>d DEF EmptyLayer
<1>3. \A x : Or(x, NONE) = x
  BY DEF Or
<1>4. \A f \in Fields : Or(l[f], d[f]) = l[f]
  BY <1>2, <1>3
<1>5. /\ \A f \in {"cwd", "env", "max_restarts", "stop_timeout_secs", "ignore_watch",
                    "watch_delay_secs", "cluster_mode", "cluster_instances",
                    "instances", "start_order", "depends_on"} : l[f] = s[f]
      /\ l.watch = WrittenWatch(s)
      /\ l.health_cmd = (IF s.health = NONE THEN NONE ELSE s.health.command)
      /\ l.health_interval_secs = (IF s.health = NONE THEN NONE ELSE s.health.interval)
      /\ l.max_memory_mb = MemOf(s.limits)
      /\ l.deny_gpu = (IF GpuOf(s.limits) THEN TRUE ELSE NONE)
      /\ l.wait_ready = (IF s.wait_ready THEN s.wait_ready ELSE NONE)
      /\ l.ready_timeout_secs = (IF s.wait_ready THEN s.ready_timeout_secs ELSE NONE)
      /\ l.stdout = (IF s.stdout = s.stderr THEN NONE ELSE s.stdout)
      /\ l.stderr = (IF s.stdout = s.stderr THEN NONE ELSE s.stderr)
      /\ l.combined = (IF s.stdout = s.stderr THEN s.stdout ELSE NONE)
      /\ l.disabled = NONE
  BY <1>l, WrittenLayer
<1>6. /\ s.stop_timeout_secs \in Nat \ {0} /\ s.ready_timeout_secs \in Nat \ {0}
      /\ s.cluster_instances \in (Nat \ {0}) \cup {NONE}
      /\ s.instances \in Nat \ {0} /\ s.start_order \in Int
      /\ \A n \in Int : n # NONE
  BY ApplyAssumption DEF Service, Normal
<1>7. Sound(q)
  <2>1. NumbersIn(l, Counts) /\ OrdersIn(l, {"start_order"})
    BY <1>5, <1>6 DEF NumbersIn, OrdersIn, Counts
  <2>2. NumbersIn(d, Counts) /\ OrdersIn(d, {"start_order"})
    BY <1>2 DEF NumbersIn, OrdersIn, Counts, Fields
  <2>3. Sound(b)
    BY <1>b, <2>1, <2>2, BaseSound
  <2> QED
    BY <1>q, <2>3, SettledSound
<1>8. /\ b.cwd = s.cwd /\ b.max_restarts = s.max_restarts
      /\ b.ignore_watch = s.ignore_watch /\ b.watch_delay_secs = s.watch_delay_secs
      /\ b.cluster_mode = s.cluster_mode /\ b.start_order = s.start_order
      /\ b.depends_on = s.depends_on
  <2>1. /\ b.cwd = Or(l["cwd"], d["cwd"])
        /\ b.max_restarts = Or(Or(l["max_restarts"], d["max_restarts"]), 10)
        /\ b.ignore_watch = Or(Or(l["ignore_watch"], d["ignore_watch"]), {})
        /\ b.watch_delay_secs = Or(Or(l["watch_delay_secs"], d["watch_delay_secs"]), 0)
        /\ b.cluster_mode = Or(Or(l["cluster_mode"], d["cluster_mode"]), FALSE)
        /\ b.start_order = Or(Or(l["start_order"], d["start_order"]), order)
        /\ b.depends_on = Or(Or(l["depends_on"], d["depends_on"]), {})
    BY <1>b DEF Base
  <2>2. /\ b.cwd = l["cwd"]
        /\ b.max_restarts = Or(l["max_restarts"], 10)
        /\ b.ignore_watch = Or(l["ignore_watch"], {})
        /\ b.watch_delay_secs = Or(l["watch_delay_secs"], 0)
        /\ b.cluster_mode = Or(l["cluster_mode"], FALSE)
        /\ b.start_order = Or(l["start_order"], order)
        /\ b.depends_on = Or(l["depends_on"], {})
    BY <1>4, <2>1 DEF Fields
  <2>3. \A x, y : x # NONE => Or(x, y) = x
    BY DEF Or
  <2>4. /\ s["max_restarts"] # NONE /\ s["ignore_watch"] # NONE /\ s["watch_delay_secs"] # NONE
        /\ s["cluster_mode"] # NONE /\ s["depends_on"] # NONE /\ s["start_order"] # NONE
    BY <1>6 DEF Given
  <2>5. /\ l["cwd"] = s["cwd"] /\ l["max_restarts"] = s["max_restarts"]
        /\ l["ignore_watch"] = s["ignore_watch"] /\ l["watch_delay_secs"] = s["watch_delay_secs"]
        /\ l["cluster_mode"] = s["cluster_mode"] /\ l["start_order"] = s["start_order"]
        /\ l["depends_on"] = s["depends_on"]
    BY <1>5
  <2>6. /\ b.cwd = s.cwd /\ b.max_restarts = s.max_restarts
        /\ b.ignore_watch = s.ignore_watch /\ b.watch_delay_secs = s.watch_delay_secs
    BY <2>2, <2>4, <2>5 DEF Or
  <2>7. b.cluster_mode = s.cluster_mode
    <3>1. b.cluster_mode = Or(s["cluster_mode"], FALSE)
      BY <2>2, <2>5
    <3> QED
      BY <3>1, <2>3, <2>4
  <2>8. b.start_order = s.start_order /\ b.depends_on = s.depends_on
    BY <2>2, <2>4, <2>5 DEF Or
  <2> QED
    BY <2>6, <2>7, <2>8
<1>9. /\ b.stop_timeout_secs = s.stop_timeout_secs /\ b.instances = s.instances
      /\ b.cluster_instances = s.cluster_instances
      /\ s.wait_ready => b.ready_timeout_secs = s.ready_timeout_secs
  <2>1. /\ b.stop_timeout_secs = AtLeast1(Or(Or(l["stop_timeout_secs"], d["stop_timeout_secs"]), 5))
        /\ b.instances = AtLeast1(Or(Or(l["instances"], d["instances"]), 1))
        /\ b.cluster_instances = PositiveOrNone(Or(l["cluster_instances"], d["cluster_instances"]))
        /\ b.ready_timeout_secs = AtLeast1(Or(Or(l["ready_timeout_secs"], d["ready_timeout_secs"]), 30))
    BY <1>b DEF Base
  <2>2. /\ b.stop_timeout_secs = AtLeast1(Or(l["stop_timeout_secs"], 5))
        /\ b.instances = AtLeast1(Or(l["instances"], 1))
        /\ b.cluster_instances = PositiveOrNone(l["cluster_instances"])
        /\ b.ready_timeout_secs = AtLeast1(Or(l["ready_timeout_secs"], 30))
    BY <1>4, <2>1 DEF Fields
  <2>3. \A n \in Nat \ {0} : \A m : AtLeast1(Or(n, m)) = n
    BY <1>6 DEF AtLeast1, Or
  <2>4. PositiveOrNone(s.cluster_instances) = s.cluster_instances
    BY <1>6 DEF PositiveOrNone
  <2> QED
    BY <1>5, <1>6, <2>2, <2>3, <2>4
<1>10. /\ b.env = s.env /\ b.disabled = FALSE
  <2>1. b.env = Over(l.env, d.env) /\ b.disabled = Or(l.disabled, FALSE)
    BY <1>b DEF Base
  <2>2. d["env"] = NONE
    BY <1>2 DEF Fields
  <2>3. Over(s.env, NONE) = s.env
    <3>1. s.env # NONE
      BY DEF Given
    <3>2. Or(s.env, <<>>) = s.env /\ Or(NONE, <<>>) = <<>>
      BY <3>1 DEF Or
    <3>3. DOMAIN <<>> = {}
      OBVIOUS
    <3> QED
      BY <3>2, <3>3 DEF Over, Extended, Function
  <2> QED
    BY <1>5, <2>1, <2>2, <2>3 DEF Or
<1>11. b.watch = s.watch /\ (s.watch => b.watch_paths = s.watch_paths)
  <2>1. /\ b.watch = WatchOf(Or(l["watch"], d["watch"])).on
        /\ b.watch_paths = WatchOf(Or(l["watch"], d["watch"])).paths
    BY <1>b DEF Base
  <2>2. Or(l["watch"], d["watch"]) = WrittenWatch(s)
    BY <1>4, <1>5 DEF Fields
  <2> QED
    BY <2>1, <2>2, WatchBack DEF Given
<1>12. b.health = s.health /\ b.limits = s.limits
  <2>1. /\ b.health = HealthOf(Or(l["health_cmd"], d["health_cmd"]),
                               Or(l["health_interval_secs"], d["health_interval_secs"]))
        /\ b.limits = LimitsOf(Or(l["max_memory_mb"], d["max_memory_mb"]),
                               Or(Or(l["deny_gpu"], d["deny_gpu"]), FALSE))
    BY <1>b DEF Base
  <2>2. /\ b.health = HealthOf(l["health_cmd"], l["health_interval_secs"])
        /\ b.limits = LimitsOf(l["max_memory_mb"], Or(l["deny_gpu"], FALSE))
    BY <1>4, <2>1 DEF Fields
  <2>3. b.health = s.health
    BY <1>5, <2>2, HealthBack
  <2>g. PICK g : g = IF GpuOf(s.limits) THEN TRUE ELSE NONE
    OBVIOUS
  <2>4. b.limits = LimitsOf(MemOf(s.limits), Or(g, FALSE))
    BY <1>5, <2>2, <2>g
  <2>5. b.limits = s.limits
    BY <2>4, <2>g, LimitsBack DEF Given
  <2> QED
    BY <2>3, <2>5
<1>13. b.wait_ready = s.wait_ready
  <2>1. b.wait_ready = Or(Or(l["wait_ready"], d["wait_ready"]), FALSE)
    BY <1>b DEF Base
  <2>2. b.wait_ready = Or(l["wait_ready"], FALSE)
    BY <1>4, <2>1 DEF Fields
  <2>3. CASE s.wait_ready = TRUE
    BY <1>5, <2>2, <2>3 DEF Or
  <2>4. CASE s.wait_ready = FALSE
    BY <1>5, <2>2, <2>4 DEF Or
  <2> QED
    BY <2>3, <2>4 DEF Given
<1>14. b.stdout = s.stdout /\ b.stderr = s.stderr
  <2>1. /\ b.stdout = Or(Or(l["stdout"], d["stdout"]), Or(l.combined, d.combined))
        /\ b.stderr = Or(Or(l["stderr"], d["stderr"]), Or(l.combined, d.combined))
    BY <1>b DEF Base, MergedLog
  <2>2. b.stdout = Or(l["stdout"], l["combined"]) /\ b.stderr = Or(l["stderr"], l["combined"])
    BY <1>4, <2>1 DEF Fields
  <2> QED
    BY <1>5, <2>2 DEF Or
<1>15. /\ DOMAIN q = DOMAIN b
       /\ {"cwd", "env", "max_restarts", "stop_timeout_secs", "watch", "cluster_mode",
           "instances", "start_order", "depends_on", "health", "limits", "wait_ready",
           "stdout", "stderr", "watch_paths", "ignore_watch", "watch_delay_secs",
           "cluster_instances", "ready_timeout_secs", "disabled"} \subseteq DOMAIN b
  <2>1. {"cwd", "env", "max_restarts", "stop_timeout_secs", "watch", "cluster_mode",
         "instances", "start_order", "depends_on", "health", "limits", "wait_ready",
         "stdout", "stderr", "watch_paths", "ignore_watch", "watch_delay_secs",
         "cluster_instances", "ready_timeout_secs", "disabled"} \subseteq DOMAIN b
    BY <1>b DEF Base
  <2>2. DOMAIN q = DOMAIN b
    BY <1>q DEF Settled
  <2> QED
    BY <2>1, <2>2
<1>16. /\ \A f \in DOMAIN b \ {"cluster_instances", "ignore_watch", "watch_paths",
                                "watch_delay_secs"} : q[f] = b[f]
       /\ b.cluster_mode => q["cluster_instances"] = b["cluster_instances"]
       /\ b.watch => /\ q["ignore_watch"] = NotBlank(b["ignore_watch"])
                     /\ q["watch_paths"] = b["watch_paths"]
                     /\ q["watch_delay_secs"] = b["watch_delay_secs"]
  BY <1>q, <1>15 DEF Settled
<1>17. NotBlank(s.ignore_watch) = s.ignore_watch
  BY DEF Trimmed
<1>18. \A f \in {"cwd", "env", "max_restarts", "stop_timeout_secs", "watch",
                 "cluster_mode", "instances", "start_order", "depends_on",
                 "health", "limits", "wait_ready", "stdout", "stderr"} : b[f] = s[f]
  BY <1>8, <1>9, <1>10, <1>11, <1>12, <1>13, <1>14
<1>19. s.watch => \A f \in {"watch_paths", "ignore_watch", "watch_delay_secs"} :
                    f \in DOMAIN q /\ q[f] = s[f]
  BY <1>8, <1>11, <1>15, <1>16, <1>17
<1> QED
  BY <1>r, <1>7, <1>8, <1>9, <1>10, <1>15, <1>16, <1>18, <1>19 DEF Restored

\* A service of an ecosystem file, and what is made of it when it is written and loaded.
LEMMA ConvertedApp ==
    ASSUME EcoTyped, NEW s \in Sources, ~s.toml, Readable(s), NEW i \in DOMAIN s.file.apps
    PROVE  LET x == EcoLoad(s.file, s.profile, s.dir)[i]
               w == Written(x)
               r == Resolved(w, EmptyLayer, NONE, i - 1)
           IN  /\ r.disabled = FALSE /\ SecretsOk(w, EmptyLayer, NONE)
               /\ Fixed(x) => /\ RunsAlike(x, SpecOf(w, r, s.dir))
                              /\ \A text \in Texts(r) : Expands(text)
<1>c. PICK c : c = [name |-> s.file.apps[i].name,
                    command |-> Or(s.file.apps[i].layer.cmd, s.file.apps[i].layer.script)]
  OBVIOUS
<1>e. PICK e : e = EcoResolved(s.file.apps[i], s.profile, i - 1)
  OBVIOUS
<1>x. PICK x : x = EcoLoad(s.file, s.profile, s.dir)[i]
  OBVIOUS
<1>w. PICK w : w = Written(x)
  OBVIOUS
<1>r. PICK r : r = Resolved(w, EmptyLayer, NONE, i - 1)
  OBVIOUS
<1>t. PICK t : t = SpecOf(w, r, s.dir)
  OBVIOUS
<1>1. x = SpecOf(c, e, s.dir)
  BY <1>c, <1>e, <1>x DEF EcoLoad
<1>2. /\ Sound(e)
      /\ Trimmed(e.ignore_watch) /\ Trimmed(e.watch_paths)
      /\ Checks(e.health) /\ Limiting(e.limits)
  BY <1>e, EcoShape, EcoSound
<1>3. /\ \A f \in DOMAIN e \ {"env", "cwd", "stdout", "stderr"} : x[f] = e[f]
      /\ x.env = [k \in DOMAIN e.env |-> Expand(e.env[k])]
  <2>1. Specified(x, c, e, s.dir)
    BY <1>1, <1>2, SpecFields
  <2> QED
    BY <2>1 DEF Specified
<1>4. {"ignore_watch", "watch_paths", "health", "limits"} \subseteq DOMAIN e
  BY <1>2 DEF Sound, Configured
<1>5. /\ Trimmed(x.ignore_watch) /\ Trimmed(x.watch_paths)
      /\ Checks(x.health) /\ Limiting(x.limits)
  BY <1>2, <1>3, <1>4
<1>6. Function(x.env)
  BY <1>3 DEF Function
<1>7. Service(x) /\ Given(x) /\ NONE \notin BOOLEAN /\ NONE # ""
  BY <1>x, AppService DEF EcoTyped
<1>o. PICK o \in Int : o = i - 1
  BY ApplyAssumption
<1>8. Restored(r, x)
  <2>1. Regular(x)
    BY <1>5, <1>6, <1>7 DEF Regular
  <2>2. r = Resolved(Written(x), EmptyLayer, NONE, o)
    BY <1>w, <1>r, <1>o
  <2> QED
    BY <1>7, <2>1, <2>2, WrittenResolved
<1>9. /\ Sound(r)
      /\ \A f \in {"cwd", "env", "max_restarts", "stop_timeout_secs", "watch",
                    "cluster_mode", "instances", "start_order", "depends_on",
                    "health", "limits", "wait_ready", "stdout", "stderr"} :
            f \in DOMAIN r /\ r[f] = x[f]
      /\ x.watch => \A f \in {"watch_paths", "ignore_watch", "watch_delay_secs"} :
                       f \in DOMAIN r /\ r[f] = x[f]
      /\ x.cluster_mode => r.cluster_instances = x.cluster_instances
      /\ x.wait_ready => r.ready_timeout_secs = x.ready_timeout_secs
      /\ r.disabled = FALSE
  BY <1>8 DEF Restored
<1>10. SecretsOk(w, EmptyLayer, NONE)
  <2>1. w.layer.pull_secret = NONE
    BY <1>w, WrittenLayer
  <2>2. EmptyLayer.pull_secret = NONE
    BY DEF EmptyLayer, Fields
  <2>3. w.profiles = <<>>
    BY <1>w DEF Written
  <2>4. NONE \notin DOMAIN <<>>
    OBVIOUS
  <2> QED
    BY <1>7, <2>1, <2>2, <2>3, <2>4 DEF SecretsOk, SecretOk, Or
<1>11. ASSUME Fixed(x)
       PROVE  RunsAlike(x, t) /\ \A text \in Texts(r) : Expands(text)
  <2>1. \A text \in Texts(x) : Expand(text) = text /\ Expands(text)
    BY <1>7, <1>11, LiteralStays DEF Given, Fixed
  <2>2. Texts(r) = Texts(x)
    <3>1. r.env = x.env /\ r.cwd = x.cwd /\ r.stdout = x.stdout /\ r.stderr = x.stderr
      BY <1>9
    <3> QED
      BY <3>1 DEF Texts
  <2>3. /\ t.name = w.name /\ t.command = w.command
        /\ \A f \in DOMAIN r \ {"env", "cwd", "stdout", "stderr"} : t[f] = r[f]
        /\ t.env = [k \in DOMAIN r.env |-> Expand(r.env[k])]
        /\ t.cwd = Placed(s.dir, r.cwd)
        /\ t.stdout = Placed(s.dir, r.stdout) /\ t.stderr = Placed(s.dir, r.stderr)
    <3>1. Specified(t, w, r, s.dir)
      BY <1>9, <1>t, SpecFields
    <3> QED
      BY <3>1 DEF Specified
  <2>4. t.name = x.name /\ t.command = x.command
    BY <2>3, <1>w DEF Written
  <2>5. \A f \in {"max_restarts", "stop_timeout_secs", "watch", "cluster_mode", "instances",
                  "start_order", "depends_on", "health", "limits", "wait_ready"} : t[f] = x[f]
    BY <1>9, <2>3
  <2>6. t.env = x.env
    <3>1. r.env = x.env
      BY <1>9
    <3>2. \A k \in DOMAIN x.env : Expand(x.env[k]) = x.env[k]
      BY <2>1 DEF Texts
    <3> QED
      BY <1>6, <2>3, <3>1, <3>2 DEF Function
  <2>7. t.cwd = x.cwd /\ t.stdout = x.stdout /\ t.stderr = x.stderr
    <3>1. \A path \in {x.cwd, x.stdout, x.stderr} :
             path # NONE => Listed(path) /\ Literal(path) /\ Absolute(path)
      BY <1>7, <1>11 DEF Given, Fixed, Texts
    <3>2. r.cwd = x.cwd /\ r.stdout = x.stdout /\ r.stderr = x.stderr
      BY <1>9
    <3> QED
      BY <2>3, <3>1, <3>2, PathStays
  <2>8. /\ x.watch => /\ x.watch_paths = t.watch_paths
                      /\ x.ignore_watch = t.ignore_watch
                      /\ x.watch_delay_secs = t.watch_delay_secs
        /\ x.cluster_mode => x.cluster_instances = t.cluster_instances
        /\ x.wait_ready => x.ready_timeout_secs = t.ready_timeout_secs
    <3>1. {"cluster_instances", "ready_timeout_secs"} \subseteq DOMAIN r
      BY <1>9 DEF Sound, Configured
    <3> QED
      BY <1>9, <2>3, <3>1
  <2>9. RunsAlike(x, t)
    BY <2>4, <2>5, <2>6, <2>7, <2>8 DEF RunsAlike
  <2> QED
    BY <2>1, <2>2, <2>9
<1> QED
  BY <1>9, <1>10, <1>11, <1>x, <1>w, <1>r, <1>t

(* Whatever the ecosystem file, its profile and its number of apps, if its *)
(* values are of their types: each service whose texts are literal and     *)
(* whose paths are absolute runs after a conversion as it did before, none *)
(* is lost or added, and if all are like that the new file can be loaded.  *)
THEOREM ConvertedServicesRunAlike ==
    ASSUME EcoTyped PROVE Spec => []ConvertedRunsAlike
<1>1. Typed => ConvertedRunsAlike
  <2> SUFFICES ASSUME src \in Sources, ~src.toml, Readable(src)
               PROVE  LET specs == EcoLoad(src.file, src.profile, src.dir)
                          again == Load(WrittenFile(specs), NONE, src.dir)
                      IN  /\ Len(specs) = Len(again)
                          /\ \A i \in DOMAIN specs : Fixed(specs[i]) => RunsAlike(specs[i], again[i])
                          /\ (\A i \in DOMAIN specs : Fixed(specs[i]))
                             => Loads(WrittenFile(specs), NONE)
    BY DEF Typed, ConvertedRunsAlike
  <2>s. PICK specs : specs = EcoLoad(src.file, src.profile, src.dir)
    OBVIOUS
  <2>f. PICK file : file = WrittenFile(specs)
    OBVIOUS
  <2>n. PICK n : n = Len(src.file.apps)
    OBVIOUS
  <2>1. n \in Nat /\ DOMAIN src.file.apps = 1..n
    BY <2>n, ApplyAssumption
  <2>2. DOMAIN specs = 1..n /\ specs = [i \in 1..n |-> specs[i]]
    BY <2>1, <2>s DEF EcoLoad
  <2>3. Len(specs) = n
    BY <2>1, <2>2, FunctionListed
  <2>4. /\ file.version = 1 /\ file.defaults = EmptyLayer
        /\ DOMAIN file.apps = 1..n /\ \A i \in 1..n : file.apps[i] = Written(specs[i])
    BY <2>2, <2>f DEF WrittenFile
  <2>5. ASSUME NEW i \in 1..n
        PROVE  LET r == Resolved(file.apps[i], file.defaults, NONE, i - 1)
               IN  /\ r.disabled = FALSE /\ SecretsOk(file.apps[i], file.defaults, NONE)
                   /\ Fixed(specs[i]) => /\ RunsAlike(specs[i], SpecOf(file.apps[i], r, src.dir))
                                         /\ \A text \in Texts(r) : Expands(text)
    BY <2>1, <2>4, <2>s, ConvertedApp
  <2>a. PICK all : all = [i \in 1..n |->
                            SpecOf(file.apps[i],
                                   Resolved(file.apps[i], file.defaults, NONE, i - 1), src.dir)]
    OBVIOUS
  <2>p. PICK places : places = {i \in 1..n :
                                  ~Resolved(file.apps[i], file.defaults, NONE, i - 1).disabled}
    OBVIOUS
  <2>6. Load(file, NONE, src.dir) = Only(all, places)
    BY <2>4, <2>a, <2>p DEF Load
  <2>7. places = 1..n
    BY <2>5, <2>p
  <2>8. Load(file, NONE, src.dir) = all /\ Len(all) = n
    <3>1. Listed(all) /\ Len(all) = n /\ DOMAIN all = 1..n
      BY <2>1, <2>a, FunctionListed
    <3> QED
      BY <2>6, <2>7, <3>1, OnlyAll
  <2>9. \A i \in 1..n : Fixed(specs[i]) => RunsAlike(specs[i], all[i])
    BY <2>5, <2>a
  <2>10. (\A i \in 1..n : Fixed(specs[i])) => Loads(file, NONE)
    BY <2>4, <2>5 DEF Loads
  <2> QED
    BY <2>2, <2>3, <2>8, <2>9, <2>10, <2>s, <2>f
<1> QED
  BY <1>1, AlwaysTyped, PTL
=============================================================================
